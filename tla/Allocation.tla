----------------------------- MODULE Allocation -----------------------------
(***************************************************************************)
(* The arithmetic of a distribution (packages/core/src/distribution): who  *)
(* is paid what from a snapshot of token balances.  Amounts are base       *)
(* units; a snapshot maps each owner to his balance.                       *)
(***************************************************************************)
EXTENDS Integers, Sequences, FiniteSets, Functions, SequencesExt

BPS_DENOMINATOR == 10000

computeRightsPool(dcf, bps) == (dcf * bps) \div BPS_DENOMINATOR

(* Mutant: an owner's accounts are not added up. *)
mergeHolders_One(accounts) ==
    [o \in {a.owner : a \in accounts} |->
        (CHOOSE a \in accounts : a.owner = o).amount]

(* Token accounts [owner, account, amount], summed per owner. *)
mergeHolders(accounts) ==
    [o \in {a.owner : a \in accounts} |->
        MapThenSumSet(LAMBDA a : a.amount, {a \in accounts : a.owner = o})]

(* Only those who accepted the agreement and are on the allowlist are paid. *)
classifyHolders(owners, poolOwners, accepted, allowlisted) ==
    [o \in owners |->
        IF o \in poolOwners THEN "POOL"
        ELSE IF o \in accepted \cap allowlisted THEN "PARTICIPANT" ELSE "UNREGISTERED"]

(* Mutant: rounds the shares up. *)
share_Ceil(tokens, pool, supply) == (tokens * pool + supply - 1) \div supply

share(tokens, pool, supply) == (tokens * pool) \div supply

Held(tokens, owners) == SumFunctionOnSet(tokens, owners)

OfKind(kind, k) == {o \in DOMAIN kind : kind[o] = k}

(* allocate refuses a snapshot that holds more than the supply. *)
Allocatable(tokens, supply) == Held(tokens, DOMAIN tokens) <= supply

allocate(tokens, kind, supply, pool) ==
    LET paid == OfKind(kind, "PARTICIPANT")
        payouts == [o \in paid |-> share(tokens[o], pool, supply)]
        total == SumFunction(payouts)
        part(k) == share(Held(tokens, OfKind(kind, k)), pool, supply)
        unsold == share(supply - Held(tokens, DOMAIN tokens), pool, supply)
    IN [payouts |-> payouts, totalAllocated |-> total, unallocated |-> pool - total,
        excluded |-> {[owner |-> o, kind |-> kind[o], tokens |-> tokens[o],
                       retainedShare |-> share(tokens[o], pool, supply)] : o \in DOMAIN kind \ paid},
        pool |-> part("POOL"), unregistered |-> part("UNREGISTERED"), unsold |-> unsold,
        dust |-> pool - total - part("POOL") - part("UNREGISTERED") - unsold]

perTokenBaseUnits(pool, supply, unit) == (pool * unit) \div supply

(* The members of S in the order of a set of pairs. *)
InOrder(S, before) ==
    CHOOSE s \in [1..Cardinality(S) -> S] :
        \A i, j \in 1..Cardinality(S) : i < j => <<s[i], s[j]>> \in before

(* Payable rows, largest first, cut into transactions. *)
Payable(payouts) ==
    LET due == {o \in DOMAIN payouts : payouts[o] > 0} IN
    InOrder(due, {e \in due \X due :
        \/ payouts[e[1]] > payouts[e[2]]
        \/ payouts[e[1]] = payouts[e[2]] /\ e[1] < e[2]})

batchTransfers(rows, maxPerTx) ==
    [i \in 1..((Len(rows) + maxPerTx - 1) \div maxPerTx) |->
        SubSeq(rows, (i - 1) * maxPerTx + 1,
               IF i * maxPerTx < Len(rows) THEN i * maxPerTx ELSE Len(rows))]

=============================================================================
