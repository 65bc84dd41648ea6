-------------------------- MODULE DistributionViews --------------------------
(***************************************************************************)
(* What the distribution page and the API show of a distribution           *)
(* (apps/web/lib/server/distribution-views.ts).  A row `d' is              *)
(*                                                                         *)
(*   [status, payoutMode, fundSig, leaseHeld, payouts, signatures, total]  *)
(*                                                                         *)
(* where `payouts' and `signatures' map each allocated wallet; signature 0 *)
(* is a null column.  A part of the answer that may be null is a set of    *)
(* at most one record.  Wording, links and the order of rows are left out. *)
(***************************************************************************)
EXTENDS Integers, FiniteSets, Functions

Shown(condition, part) == IF condition THEN {part} ELSE {}

Signed(d) == {w \in DOMAIN d.payouts : d.signatures[w] # 0}
Unsigned(d) == {w \in DOMAIN d.payouts : d.payouts[w] > 0 /\ d.signatures[w] = 0}

(* One entry per transaction that paid holders. *)
signaturesOf(d) ==
    LET paidBy(s) == {w \in Signed(d) : d.signatures[w] = s} IN
    {[signature |-> s, wallets |-> paidBy(s), amount |-> SumFunctionOnSet(d.payouts, paidBy(s))] :
        s \in {d.signatures[w] : w \in Signed(d)}}

(* Mutant: the claimed sum is what is left of the total. *)
claims_OfTotal(d) ==
    Shown(d.payoutMode = "ESCROW" /\ d.fundSig # 0,
          [claimed |-> d.total, unclaimed |-> SumFunctionOnSet(d.payouts, Unsigned(d)),
           claimedCount |-> Cardinality({w \in Signed(d) : d.payouts[w] > 0}),
           unclaimedCount |-> Cardinality(Unsigned(d))])

claims(d) ==
    Shown(d.payoutMode = "ESCROW" /\ d.fundSig # 0,
          [claimed |-> SumFunctionOnSet(d.payouts, Signed(d)),
           unclaimed |-> SumFunctionOnSet(d.payouts, Unsigned(d)),
           claimedCount |-> Cardinality({w \in Signed(d) : d.payouts[w] > 0}),
           unclaimedCount |-> Cardinality(Unsigned(d))])

distributionDetail(d, issuerBalance) ==
    LET remaining == SumFunctionOnSet(d.payouts, Unsigned(d))
        shortfall == IF remaining > issuerBalance THEN remaining - issuerBalance ELSE 0
    IN [executionInProgress |-> d.status # "EXECUTED" /\ d.leaseHeld,
        rows |-> [w \in DOMAIN d.payouts |->
                     [payout |-> d.payouts[w], paid |-> w \in Signed(d), txSignature |-> d.signatures[w]]],
        totals |-> Shown(d.status # "DRAFT",
                         [totalAllocated |-> d.total, paid |-> Cardinality(Signed(d)),
                          payees |-> Cardinality({w \in DOMAIN d.payouts : d.payouts[w] > 0}),
                          remainingToPay |-> remaining]),
        balance |-> Shown(d.status = "SNAPSHOTTED",
                          [required |-> remaining, shortfall |-> shortfall, sufficient |-> shortfall = 0]),
        confirmTotal |-> Shown(d.status = "SNAPSHOTTED", d.total),
        claims |-> claims(d),
        signatures |-> signaturesOf(d)]

-----------------------------------------------------------------------------
(* The stored snapshot, and the two parts of the page taken from it.       *)

(* `holders' maps owners to balances, `kinds' to their kinds; `result' is  *)
(* what allocate made of them.                                             *)
encodeSnapshot(holders, kinds, result) ==
    [holders |-> [o \in DOMAIN holders |-> [amount |-> holders[o], kind |-> kinds[o]]],
     excluded |-> result.excluded,
     unallocatedBreakdown |-> [pool |-> result.pool, unregistered |-> result.unregistered,
                               unsold |-> result.unsold, dust |-> result.dust],
     unregisteredCount |-> Cardinality({o \in DOMAIN kinds : kinds[o] = "UNREGISTERED"})]

snapshotDetail(snap, unallocated) ==
    [excluded |-> snap.excluded,
     unallocated |-> [total |-> unallocated, breakdown |-> snap.unallocatedBreakdown],
     warned |-> snap.unregisteredCount > 0]

=============================================================================
