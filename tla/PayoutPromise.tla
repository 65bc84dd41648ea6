--------------------------- MODULE PayoutPromise ---------------------------
(***************************************************************************)
(* What a distribution promises the holders in its allocation table,       *)
(* whatever the machinery that pays them: the table may be replaced only   *)
(* before any money has left the issuer, each holder's payout leaves the   *)
(* issuer exactly once and for exactly the amount in the table, and the    *)
(* distribution closes only when every holder has been covered.            *)
(***************************************************************************)
EXTENDS Naturals

CONSTANTS Wallet, Tables

VARIABLES
    table,    \* the allocation table in force
    covered,  \* per holder, the USDC that left the issuer on his behalf
    closed    \* the distribution is EXECUTED

promise == <<table, covered, closed>>

Nothing == [w \in Wallet |-> 0]

PromiseInit ==
    /\ table = Nothing
    /\ covered = Nothing
    /\ closed = FALSE

(* A snapshot fixes the table, or replaces one nobody was paid from. *)
Publish(t) ==
    /\ ~closed
    /\ covered = Nothing
    /\ table' = t
    /\ UNCHANGED <<covered, closed>>

(* One transfer covers some holders not covered yet. *)
Cover(ws) ==
    /\ ~closed
    /\ \A w \in ws : covered[w] = 0
    /\ covered' = [w \in Wallet |-> IF w \in ws THEN table[w] ELSE covered[w]]
    /\ UNCHANGED <<table, closed>>

Close ==
    /\ covered = table
    /\ closed' = TRUE
    /\ UNCHANGED <<table, covered>>

PromiseNext ==
    \/ \E t \in Tables : Publish(t)
    \/ \E ws \in SUBSET Wallet : Cover(ws)
    \/ Close

PromiseSpec == PromiseInit /\ [][PromiseNext]_promise
=============================================================================
