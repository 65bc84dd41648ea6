------------------------------ MODULE ClaimTree ------------------------------
(***************************************************************************)
(* The claim tree over the payouts of a snapshot                           *)
(* (packages/core/src/distribution/merkle.ts).  A hash is the term it is   *)
(* computed from (no collisions); a pair is unordered, since hashPair      *)
(* sorts its arguments.                                                    *)
(***************************************************************************)
EXTENDS Allocation

claimLeaf(wallet, payout) == [leaf |-> <<wallet, payout>>]

hashPair(a, b) == [pair |-> {a, b}]

(* claimTreeOf: the tree is built over the rows with a payout. *)
claimTable(payouts) == Restrict(payouts, {w \in DOMAIN payouts : payouts[w] > 0})

(* A node knows the wallets whose leaves are under it. *)
Joined(a, b) == [hash |-> hashPair(a.hash, b.hash), wallets |-> a.wallets \cup b.wallets]

(* The leaves, in the order of the wallets, and a proof for each wallet.   *)
Leaves(payouts) ==
    LET D == DOMAIN payouts
        wallets == InOrder(D, {e \in D \X D : e[1] < e[2]})
    IN [level |-> [i \in DOMAIN wallets |->
                      [hash |-> claimLeaf(wallets[i], payouts[wallets[i]]),
                       wallets |-> {wallets[i]}]],
        proofs |-> [w \in D |-> << >>]]

(* Mutant: the odd node at the end is paired with itself. *)
NextLevel_Doubled(level) ==
    [i \in 1..((Len(level) + 1) \div 2) |->
        Joined(level[2 * i - 1], level[IF 2 * i <= Len(level) THEN 2 * i ELSE 2 * i - 1])]

(* Pairs from the left; an odd node at the end is promoted unchanged. *)
NextLevel(level) ==
    [i \in 1..((Len(level) + 1) \div 2) |->
        IF 2 * i <= Len(level) THEN Joined(level[2 * i - 1], level[2 * i]) ELSE level[2 * i - 1]]

(* The node another one is joined with, if there is one. *)
Sibling(i) == IF i % 2 = 1 THEN i + 1 ELSE i - 1

(* The proofs of the wallets under a node get its sibling's hash. *)
NextProofs(level, proofs) ==
    [w \in DOMAIN proofs |->
        LET i == CHOOSE j \in DOMAIN level : w \in level[j].wallets
        IN IF Sibling(i) \in DOMAIN level THEN Append(proofs[w], level[Sibling(i)].hash)
           ELSE proofs[w]]

(* A round while there is more than one node; as many rounds as leaves are *)
(* enough.                                                                 *)
Rounds(payouts) ==
    LET after[k \in 0..Cardinality(DOMAIN payouts)] ==
            IF k = 0 THEN Leaves(payouts)
            ELSE LET t == after[k - 1] IN
                 IF Len(t.level) > 1
                 THEN [level |-> NextLevel(t.level), proofs |-> NextProofs(t.level, t.proofs)]
                 ELSE t
    IN after

EmptyRoot == [nothing |-> << >>]

buildClaimTree(payouts) ==
    LET n == Cardinality(DOMAIN payouts)
        t == Rounds(payouts)[n]
    IN [root |-> IF n = 0 THEN EmptyRoot ELSE t.level[1].hash, proofs |-> t.proofs]

verifyClaimProof(wallet, payout, proof, root) ==
    FoldLeft(hashPair, claimLeaf(wallet, payout), proof) = root

=============================================================================
