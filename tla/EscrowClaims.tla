---------------------------- MODULE EscrowClaims ----------------------------
(***************************************************************************)
(* Holders claiming from the escrow a distribution funded                  *)
(* (apps/web/lib/server/escrow.ts), next to the requests that snapshot and *)
(* execute it (Distribution).                                              *)
(*                                                                         *)
(* A claim locks its allocation row (`claimingUntil'), releases the payout *)
(* from the escrow, then signs the row.  Like the lease, the lock is       *)
(* modelled by its writer and by whether its instant is still ahead.  One  *)
(* escrow wallet serves every distribution: what the others deposited is   *)
(* OtherFunds.                                                             *)
(***************************************************************************)
EXTENDS Distribution, DistributionViews

CONSTANTS
    Claimant,             \* claim requests that may be running at once
    OtherFunds,           \* USDC in the escrow wallet for other distributions
    MaxClaimFaults        \* bound on claims killed, failed at a save, or left unknown

ASSUME ClaimAssumption ==
    /\ OtherFunds \in Nat /\ MaxClaimFaults \in Nat
    /\ 0 \notin Claimant
    /\ Wallet # {}

VARIABLES
    lock, lockLive,       \* claimingUntil of each allocation row
    cpc, claim,           \* the claim handlers' control points and locals
    claimFaults           \* claim faults still allowed

lockVars  == <<lock, lockLive>>
claimVars == <<lockVars, cpc, claim, claimFaults>>
allVars   == <<vars, claimVars>>

NoLock  == 0
NoClaim == [wallet |-> CHOOSE w \in Wallet : TRUE, gen |-> 0, amount |-> 0, sig |-> NoSig]

ClaimTypeOK ==
    /\ TypeOK
    /\ lock \in [Wallet -> Claimant \cup {NoLock}]
    /\ lockLive \in [Wallet -> BOOLEAN]
    /\ cpc \in [Claimant -> {"idle", "lock", "balance", "send", "save", "unlock"}]
    /\ claim \in [Claimant -> [wallet : Wallet, gen : Nat, amount : Nat, sig : Nat]]
    /\ claimFaults \in Nat

ClaimInit ==
    /\ Init
    /\ lock = [w \in Wallet |-> NoLock] /\ lockLive = [w \in Wallet |-> FALSE]
    /\ cpc = [c \in Claimant |-> "idle"] /\ claim = [c \in Claimant |-> NoClaim]
    /\ claimFaults = MaxClaimFaults

-----------------------------------------------------------------------------
(* The escrow wallet.                                                      *)

Moved(kind) ==
    SumFunction([i \in DOMAIN ledger |-> IF ledger[i].kind = kind THEN TotalOf(ledger[i].pays) ELSE 0])

EscrowBalance == OtherFunds + Moved("escrow") - Moved("claim")

-----------------------------------------------------------------------------
(* claimDistribution                                                       *)

ClaimGoto(c, label) == cpc' = [cpc EXCEPT ![c] = label]

ClaimReturn(c) ==
    /\ ClaimGoto(c, "idle")
    /\ claim' = [claim EXCEPT ![c] = NoClaim]

Row(c) == claim[c].wallet

Holds(c) == lock[Row(c)] = c

(* The escrow is funded and its root is still that of the rows. *)
LoadFunded == payoutMode = "ESCROW" /\ fundSig # NoSig /\ root = alloc

StartClaim(c) ==
    /\ cpc[c] = "idle"
    /\ LoadFunded
    /\ \E w \in Unpaid :
          claim' = [claim EXCEPT ![c] = [wallet |-> w, gen |-> gen, amount |-> alloc[w], sig |-> NoSig]]
    /\ ClaimGoto(c, "lock")
    /\ UNCHANGED <<vars, lockVars, claimFaults>>

(* Mutants: the where-clause without the signature, without the lock,      *)
(* without its expiry.                                                     *)
Lockable_Paid(c) == claim[c].gen = gen /\ (lock[Row(c)] = NoLock \/ ~lockLive[Row(c)])
Lockable_Locked(c) == claim[c].gen = gen /\ paidSig[Row(c)] = NoSig
Lockable_Forever(c) == claim[c].gen = gen /\ paidSig[Row(c)] = NoSig /\ lock[Row(c)] = NoLock

(* The row still exists, is unsigned, and no live claim holds it. *)
Lockable(c) ==
    /\ claim[c].gen = gen
    /\ paidSig[Row(c)] = NoSig
    /\ lock[Row(c)] = NoLock \/ ~lockLive[Row(c)]

LockRow(c) ==
    /\ cpc[c] = "lock"
    /\ Lockable(c)
    /\ lock' = [lock EXCEPT ![Row(c)] = c]
    /\ lockLive' = [lockLive EXCEPT ![Row(c)] = TRUE]
    /\ ClaimGoto(c, "balance")
    /\ UNCHANGED <<vars, claim, claimFaults>>

RefuseLock(c) ==
    /\ cpc[c] = "lock"
    /\ ~Lockable(c)
    /\ ClaimReturn(c)
    /\ UNCHANGED <<vars, lockVars, claimFaults>>

CheckBalance(c) ==
    /\ cpc[c] = "balance"
    /\ ClaimGoto(c, IF EscrowBalance >= claim[c].amount THEN "send" ELSE "unlock")
    /\ UNCHANGED <<vars, lockVars, claim, claimFaults>>

(* The release lands; the chain refuses to overdraw the wallet. *)
Payout(c) ==
    /\ EscrowBalance >= claim[c].amount
    /\ ledger' = Append(ledger, [kind |-> "claim", pays |-> [w \in {Row(c)} |-> claim[c].amount]])

ClaimLands(c) ==
    /\ cpc[c] = "send"
    /\ Payout(c)
    /\ claim' = [claim EXCEPT ![c].sig = Len(ledger) + 1]
    /\ ClaimGoto(c, "save")
    /\ UNCHANGED <<rowVars, fundVars, leaseVars, orphans, pc, job, faults, lockVars, claimFaults>>

ClaimFails(c) ==
    /\ cpc[c] = "send"
    /\ ClaimGoto(c, "unlock")
    /\ UNCHANGED <<vars, lockVars, claim, claimFaults>>

FreeRow(c) ==
    /\ lock' = [lock EXCEPT ![Row(c)] = NoLock]
    /\ lockLive' = [lockLive EXCEPT ![Row(c)] = FALSE]

(* The update is by row id, whatever the row holds by now; it throws when  *)
(* a snapshot has replaced the row.                                        *)
SaveClaim(c) ==
    /\ cpc[c] = "save"
    /\ IF claim[c].gen = gen
       THEN /\ paidSig' = [paidSig EXCEPT ![Row(c)] = claim[c].sig]
            /\ FreeRow(c)
            /\ UNCHANGED orphans
       ELSE /\ orphans' = orphans \cup {claim[c].sig}
            /\ UNCHANGED <<paidSig, lockVars>>
    /\ ClaimGoto(c, "unlock")
    /\ UNCHANGED <<status, total, alloc, gen, fundVars, leaseVars, ledger, pc, job, faults, claim, claimFaults>>

(* The `finally' block: clear the lock only if it is still ours. *)
Unlock(c) ==
    /\ cpc[c] = "unlock"
    /\ IF Holds(c) THEN FreeRow(c) ELSE UNCHANGED lockVars
    /\ ClaimReturn(c)
    /\ UNCHANGED <<vars, claimFaults>>

-----------------------------------------------------------------------------
(* Faults of a claim, and time.                                            *)

ClaimInFlight(c) == IF cpc[c] = "save" THEN {claim[c].sig} ELSE {}

ClaimFault == claimFaults > 0 /\ claimFaults' = claimFaults - 1

(* The release landed; the handler sees OUTCOME UNKNOWN. *)
ClaimUnknown(c) ==
    /\ cpc[c] = "send"
    /\ Payout(c)
    /\ orphans' = orphans \cup {Len(ledger) + 1}
    /\ ClaimGoto(c, "unlock")
    /\ ClaimFault
    /\ UNCHANGED <<rowVars, fundVars, leaseVars, pc, job, faults, lockVars, claim>>

ClaimCrash(c) ==
    /\ cpc[c] # "idle"
    /\ orphans' = orphans \cup ClaimInFlight(c)
    /\ ClaimReturn(c)
    /\ ClaimFault
    /\ UNCHANGED <<rowVars, fundVars, leaseVars, ledger, pc, job, faults, lockVars>>

ClaimDatabaseError(c) ==
    /\ cpc[c] = "save"
    /\ orphans' = orphans \cup ClaimInFlight(c)
    /\ ClaimGoto(c, "unlock")
    /\ ClaimFault
    /\ UNCHANGED <<rowVars, fundVars, leaseVars, ledger, pc, job, faults, lockVars, claim>>

Claiming(c) == cpc[c] \in {"balance", "send", "save", "unlock"}

(* `claimingUntil' passes; the platform has ended its request by then.     *)
ExpireLock(w) ==
    /\ lockLive[w]
    /\ MaxDurationEnforced => ~(\E c \in Claimant : Claiming(c) /\ Row(c) = w /\ Holds(c))
    /\ lockLive' = [lockLive EXCEPT ![w] = FALSE]
    /\ UNCHANGED <<vars, lock, cpc, claim, claimFaults>>

-----------------------------------------------------------------------------
(* A snapshot replaces the rows, their locks with them.                    *)
ReplaceRows(r) ==
    /\ CommitSnapshot(r)
    /\ lock' = [w \in Wallet |-> NoLock] /\ lockLive' = [w \in Wallet |-> FALSE]
    /\ UNCHANGED <<cpc, claim, claimFaults>>

Issuer(r) == StartSnapshot(r) \/ RefuseSnapshot(r) \/ Execute(r) \/ Fault(r)

ClaimStep(c) ==
    \/ StartClaim(c) \/ LockRow(c) \/ RefuseLock(c)
    \/ CheckBalance(c) \/ ClaimLands(c) \/ ClaimFails(c)
    \/ SaveClaim(c) \/ Unlock(c)
    \/ ClaimUnknown(c) \/ ClaimCrash(c) \/ ClaimDatabaseError(c)

ClaimDone ==
    /\ Done
    /\ \A c \in Claimant : cpc[c] = "idle"
    /\ UNCHANGED claimVars

ClaimNext ==
    \/ \E r \in Request : ReplaceRows(r)
    \/ ((\E r \in Request : Issuer(r)) \/ Expire) /\ UNCHANGED claimVars
    \/ \E c \in Claimant : ClaimStep(c)
    \/ \E w \in Wallet : ExpireLock(w)
    \/ ClaimDone

ClaimSpec == ClaimInit /\ [][ClaimNext]_allVars

(* A holder who is owed money claims until it is his, and a claim that     *)
(* finds the RPC working comes again and again.                            *)
ClaimFairness ==
    /\ \A c \in Claimant :
          /\ WF_allVars(LockRow(c) \/ RefuseLock(c) \/ CheckBalance(c) \/ SaveClaim(c) \/ Unlock(c))
          /\ WF_allVars(ClaimLands(c) \/ ClaimFails(c))
          /\ SF_allVars(ClaimLands(c))
    /\ \A w \in Wallet :
          /\ WF_allVars(ExpireLock(w))
          /\ SF_allVars(\E c \in Claimant : StartClaim(c) /\ claim'[c].wallet = w)

FairClaimSpec == ClaimSpec /\ Fairness /\ ClaimFairness

-----------------------------------------------------------------------------
(* Properties.                                                             *)

(* USDC that reached w, over every landed transfer. *)
ReceivedBy(w) ==
    SumFunction([i \in DOMAIN ledger |->
        IF ledger[i].kind # "escrow" /\ w \in Covers(i) THEN ledger[i].pays[w] ELSE 0])

(* Claims racing each other and the issuer's requests pay each holder once, *)
(* for the amount of a table that nobody replaces after the first payment:  *)
(* until a fault strikes a claim, every step is one the promise allows.     *)
Received == INSTANCE PayoutPromise WITH
    table   <- alloc,
    covered <- [w \in Wallet |-> ReceivedBy(w)],
    closed  <- (status = "EXECUTED" /\ Unpaid = {})

HoldersPaidOnce ==
    /\ Received!PromiseInit
    /\ [][claimFaults' = MaxClaimFaults =>
             [Received!PromiseNext]_Received!promise]_allVars

(* A claim between its lock and its unlock is the only one on its row, as  *)
(* long as the row is there and unsigned: no expiry hands it to a second   *)
(* claim while the first still runs.                                       *)
OneClaimPerRow ==
    \A c \in Claimant :
        Claiming(c) /\ claim[c].gen = gen /\ paidSig[Row(c)] = NoSig =>
            Holds(c) /\ lockLive[Row(c)]

(* What the distribution page shows; Execute is asked of an issuer whose    *)
(* balance is left out here.                                               *)
Detail ==
    distributionDetail(
        [status |-> status, payoutMode |-> payoutMode, fundSig |-> fundSig,
         leaseHeld |-> lease # NoLease /\ live,
         payouts |-> alloc, signatures |-> paidSig, total |-> total], 0)

(* Two payments that reached one holder, by claim or directly, mean that   *)
(* one of them was never recorded; and a transaction that the page lists   *)
(* as paying some holders paid all of these, nobody else, and the amount   *)
(* named, although rows are signed in other steps than the ones that pay.  *)
ReceivedOnce ==
    /\ \A i, j \in DOMAIN ledger \ orphans :
          /\ ledger[i].kind # "escrow" /\ ledger[j].kind # "escrow"
          /\ Covers(i) \cap Covers(j) # {}
          => i = j
    /\ \A entry \in Detail.signatures :
          /\ entry.wallets = Covers(entry.signature)
          /\ entry.amount = TotalOf(ledger[entry.signature].pays)

InFlightClaims ==
    SumFunction([c \in {d \in Claimant : cpc[d] = "save"} |-> claim[c].amount])

(* What the issuer put in for this distribution covers every recorded      *)
(* claim and all that the page shows as unclaimed, less what has landed    *)
(* and is being recorded: paying the holders of this one never needs the   *)
(* money of another distribution in the same wallet.  Before that, the     *)
(* page asks the issuer for what the running execution is to send.         *)
ClaimsCovered ==
    /\ \A page \in Detail.claims :
          /\ page.claimed + page.unclaimed = total
          /\ Moved("escrow") >=
                page.unclaimed - InFlightClaims
                + SumFunction([i \in DOMAIN ledger |->
                      IF ledger[i].kind = "claim" /\ i \notin orphans
                      THEN TotalOf(ledger[i].pays) ELSE 0])
    /\ \A r \in Request : pc[r] \in {"fundSend", "paySend"} =>
          /\ Detail.executionInProgress
          /\ \A needed \in Detail.balance :
                needed.required = SumFunctionOnSet(job[r].rows, job[r].todo)

(* Holders of a funded distribution who keep claiming all get their money, *)
(* whatever claim was killed while it held a row.                          *)
EveryHolderPaid == (status = "EXECUTED") ~> (Unpaid = {})
=============================================================================
