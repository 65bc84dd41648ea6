---------------------------- MODULE Distribution ----------------------------
(***************************************************************************)
(* The lifecycle of one distribution row, custody signing                  *)
(* (apps/web/lib/server/distribution.ts):                                  *)
(*                                                                         *)
(*     DRAFT --snapshot--> SNAPSHOTTED --execute--> EXECUTED               *)
(*                                                                         *)
(* Several API requests run the snapshot and execute handlers on the same  *)
(* row at once.  A handler yields at each database call and each chain     *)
(* call, so each of those is a step of its own.  The lease column          *)
(* `executingUntil' is modelled by who wrote its current value (`lease')   *)
(* and by whether that instant is still ahead (`live').                    *)
(*                                                                         *)
(* A snapshot's allocation table is one of Tables, a payout per wallet;    *)
(* amounts are not computed here.  A wallet without a payable row has      *)
(* payout 0.                                                               *)
(***************************************************************************)
EXTENDS Integers, Sequences, FiniteSets, Functions

CONSTANTS
    Request,              \* API requests that may be running at once
    Wallet,               \* holder wallets
    Tables,               \* allocation tables a snapshot may produce
    BatchSize,            \* MAX_TRANSFERS_PER_TX
    MaxSnapshots,         \* bound on committed snapshots (state space only)
    MaxCrashes,           \* bound on requests killed while running
    MaxErrors,            \* bound on database calls that throw
    MaxUnknown,           \* bound on transfers that land but report an error
    MaxDurationEnforced   \* the platform kills a request before its lease expires

ASSUME ConstantsAssumption ==
    /\ Tables \subseteq [Wallet -> Nat]
    /\ BatchSize \in Nat \ {0}
    /\ MaxSnapshots \in Nat
    /\ MaxCrashes \in Nat /\ MaxErrors \in Nat /\ MaxUnknown \in Nat
    /\ MaxDurationEnforced \in BOOLEAN
    /\ 0 \notin Request

(* A snapshot reads the holders of one token into a list. *)
ASSUME FiniteHolders == IsFiniteSet(Wallet)

VARIABLES
    status, total, alloc, gen, paidSig,   \* Distribution row and its Allocation rows
    payoutMode, fundSig, root,            \* escrow columns
    lease, live,                          \* executingUntil
    ledger, orphans,                      \* landed transfers; those never recorded (history)
    pc, job,                              \* the handlers' control points and locals
    faults                                \* faults still allowed

rowVars   == <<status, total, alloc, gen, paidSig>>
fundVars  == <<payoutMode, fundSig, root>>
leaseVars == <<lease, live>>
chainVars == <<ledger, orphans>>
vars == <<rowVars, fundVars, leaseVars, chainVars, pc, job, faults>>

NoSig      == 0        \* a null signature column
NoTransfer == -1       \* the "no-transfer-needed" placeholder signature
NoTotal    == -1       \* totalAllocated is null
NoLease    == 0        \* executingUntil is null
NoTable    == [w \in Wallet |-> 0]

TotalOf(t) == SumFunction(t)

(* What a handler remembers between two of its awaits. *)
NoJob == [mode |-> "escrow", typed |-> NoTotal, rows |-> NoTable, gen |-> 0,
          todo |-> {}, batch |-> {}, sig |-> NoSig, leased |-> FALSE]

PCs == {"idle", "commit", "claim", "fund", "fundSend", "fundSave",
        "pay", "paySend", "paySave", "renew", "mark", "release"}

AllocationTables == Tables \cup {NoTable}
Totals           == {TotalOf(t) : t \in AllocationTables} \cup {NoTotal}

(* A landed transfer: "escrow" moves the sum of `pays' from the issuer to   *)
(* the escrow wallet on behalf of those holders, "direct" pays each holder  *)
(* from the issuer, "claim" pays a holder from the escrow (EscrowClaims).   *)
Payments  == {[w \in ws |-> t[w]] : ws \in SUBSET Wallet, t \in AllocationTables}
Transfers == [kind : {"escrow", "direct", "claim"}, pays : Payments]

JobRecord ==
    [mode : {"escrow", "direct"}, typed : Totals, rows : AllocationTables, gen : Nat,
     todo : SUBSET Wallet, batch : SUBSET Wallet, sig : Nat \cup {NoTransfer}, leased : BOOLEAN]

TypeOK ==
    /\ status \in {"DRAFT", "SNAPSHOTTED", "EXECUTED"}
    /\ total \in Totals
    /\ alloc \in AllocationTables
    /\ gen \in Nat
    /\ paidSig \in [Wallet -> Nat]
    /\ payoutMode \in {"DIRECT", "ESCROW"}
    /\ fundSig \in Nat \cup {NoTransfer}
    /\ root \in AllocationTables
    /\ lease \in Request \cup {NoLease} /\ live \in BOOLEAN
    /\ ledger \in Seq(Transfers)
    /\ orphans \subseteq DOMAIN ledger
    /\ pc \in [Request -> PCs]
    /\ job \in [Request -> JobRecord]
    /\ faults \in [{"crash", "error", "unknown"} -> Nat]

Init ==
    /\ status = "DRAFT" /\ total = NoTotal /\ alloc = NoTable /\ gen = 0
    /\ paidSig = [w \in Wallet |-> NoSig]
    /\ payoutMode = "DIRECT" /\ fundSig = NoSig /\ root = NoTable
    /\ lease = NoLease /\ live = FALSE
    /\ ledger = <<>> /\ orphans = {}
    /\ pc = [r \in Request |-> "idle"] /\ job = [r \in Request |-> NoJob]
    /\ faults = [crash |-> MaxCrashes, error |-> MaxErrors, unknown |-> MaxUnknown]

-----------------------------------------------------------------------------
(* Helpers of the handlers.                                                *)

Goto(r, label) == pc' = [pc EXCEPT ![r] = label]

Return(r) ==
    /\ Goto(r, "idle")
    /\ job' = [job EXCEPT ![r] = NoJob]

Executing(r) == job[r].leased

(* Mutant: a lease is held until it is released. *)
LeaseFree_NoExpiry == lease = NoLease

LeaseFree == lease = NoLease \/ ~live

Recorded == {w \in Wallet : paidSig[w] # NoSig}

(* Mutant: forgets that a row may already carry a signature. *)
Unpaid_All == {w \in Wallet : alloc[w] > 0}

Unpaid == {w \in Wallet : alloc[w] > 0 /\ paidSig[w] = NoSig}

(* Mutant: re-snapshots although payouts were recorded. *)
SnapshotAllowed_AfterPayouts == status # "EXECUTED" /\ LeaseFree

SnapshotAllowed == status # "EXECUTED" /\ LeaseFree /\ Recorded = {}

(* The transfers of one payout transaction: the largest unpaid payouts, at  *)
(* most BatchSize of them.  Ties are broken by wallet address in the code,  *)
(* in any order here.                                                       *)
Batches(todo, rows) ==
    {b \in SUBSET todo :
        /\ Cardinality(b) = IF Cardinality(todo) < BatchSize THEN Cardinality(todo) ELSE BatchSize
        /\ \A w \in b, v \in todo \ b : rows[w] >= rows[v]}

Transfer(kind, ws, rows) == [kind |-> kind, pays |-> [w \in ws |-> rows[w]]]

-----------------------------------------------------------------------------
(* snapshotDistribution                                                    *)

(* Load, assertSnapshotAllowed, then read the holders from the chain and   *)
(* allocate: no shared state is written until the transaction.             *)
StartSnapshot(r) ==
    /\ pc[r] = "idle"
    /\ gen < MaxSnapshots
    /\ SnapshotAllowed
    /\ \E t \in Tables : job' = [job EXCEPT ![r].rows = t]
    /\ Goto(r, "commit")
    /\ UNCHANGED <<rowVars, fundVars, leaseVars, chainVars, faults>>

(* The transaction re-checks the row, then replaces the allocations. *)
CommitSnapshot(r) ==
    /\ pc[r] = "commit"
    /\ SnapshotAllowed
    /\ status' = "SNAPSHOTTED"
    /\ alloc' = job[r].rows
    /\ total' = TotalOf(job[r].rows)
    /\ gen' = gen + 1
    /\ paidSig' = [w \in Wallet |-> NoSig]
    /\ Return(r)
    /\ UNCHANGED <<fundVars, leaseVars, chainVars, faults>>

RefuseSnapshot(r) ==
    /\ pc[r] = "commit"
    /\ ~SnapshotAllowed
    /\ Return(r)
    /\ UNCHANGED <<rowVars, fundVars, leaseVars, chainVars, faults>>

-----------------------------------------------------------------------------
(* executeDistribution, custody signing                                    *)

(* A funded escrow fixes the mode; recorded direct payouts fix it the      *)
(* other way.  Otherwise the request chooses.                              *)
PayoutModeFor(asked) ==
    IF fundSig # NoSig THEN "escrow"
    ELSE IF asked = "escrow" /\ Recorded # {} THEN "direct"
    ELSE asked

(* Load and assertExecutable: the typed total equals the snapshot's. *)
StartExecute(r) ==
    /\ pc[r] = "idle"
    /\ status = "SNAPSHOTTED"
    /\ \E asked \in {"escrow", "direct"} :
          job' = [job EXCEPT ![r].typed = total, ![r].mode = PayoutModeFor(asked)]
    /\ Goto(r, "claim")
    /\ UNCHANGED <<rowVars, fundVars, leaseVars, chainVars, faults>>

(* Mutants: the claim's `where' without the lease, without the total. *)
Claimable_AnyLease(r) == status = "SNAPSHOTTED" /\ total = job[r].typed
Claimable_AnyTotal(r) == status = "SNAPSHOTTED" /\ LeaseFree

Claimable(r) == status = "SNAPSHOTTED" /\ total = job[r].typed /\ LeaseFree

Claim(r) ==
    /\ pc[r] = "claim"
    /\ Claimable(r)
    /\ lease' = r /\ live' = TRUE
    /\ job' = [job EXCEPT ![r].leased = TRUE]
    /\ Goto(r, IF job[r].mode = "escrow" THEN "fund" ELSE "pay")
    /\ UNCHANGED <<rowVars, fundVars, chainVars, faults>>

ClaimRefused(r) ==
    /\ pc[r] = "claim"
    /\ ~Claimable(r)
    /\ Return(r)
    /\ UNCHANGED <<rowVars, fundVars, leaseVars, chainVars, faults>>

(* The `finally' block: clear the lease only if it is still ours. *)
Release(r) ==
    /\ pc[r] = "release"
    /\ IF lease = r THEN lease' = NoLease /\ live' = FALSE ELSE UNCHANGED leaseVars
    /\ Return(r)
    /\ UNCHANGED <<rowVars, fundVars, chainVars, faults>>

-----------------------------------------------------------------------------
(* fundEscrowClaimed: one issuer -> escrow transfer of everything unpaid.  *)

FundLoad(r) ==
    /\ pc[r] = "fund"
    /\ \/ /\ fundSig # NoSig                     \* already funded: only finish
          /\ job' = [job EXCEPT ![r].rows = alloc, ![r].sig = fundSig]
          /\ Goto(r, "mark")
       \/ /\ fundSig = NoSig /\ Unpaid = {}      \* nothing to transfer
          /\ job' = [job EXCEPT ![r].rows = alloc, ![r].sig = NoTransfer]
          /\ Goto(r, "fundSave")
       \/ /\ fundSig = NoSig /\ Unpaid # {}
          /\ job' = [job EXCEPT ![r].rows = alloc, ![r].todo = Unpaid]
          /\ \/ Goto(r, "fundSend")
             \/ Goto(r, "release")               \* insufficient_balance
    /\ UNCHANGED <<rowVars, fundVars, leaseVars, chainVars, faults>>

(* Persist the funding under the lease; a lost lease is not noticed.       *)
FundSave(r) ==
    /\ pc[r] = "fundSave"
    /\ IF lease = r
       THEN payoutMode' = "ESCROW" /\ fundSig' = job[r].sig /\ root' = job[r].rows
       ELSE UNCHANGED fundVars
    /\ Goto(r, "mark")
    /\ UNCHANGED <<rowVars, leaseVars, chainVars, job, faults>>

-----------------------------------------------------------------------------
(* payClaimed: batched issuer -> holder transfers.                         *)

(* Rows are read again after the claim. *)
PayLoad(r) ==
    /\ pc[r] = "pay"
    /\ job' = [job EXCEPT ![r].rows = alloc, ![r].gen = gen, ![r].todo = Unpaid]
    /\ \/ Unpaid = {} /\ Goto(r, "mark")
       \/ Unpaid # {} /\ Goto(r, "paySend")
       \/ Unpaid # {} /\ Goto(r, "release")      \* insufficient_balance
    /\ UNCHANGED <<rowVars, fundVars, leaseVars, chainVars, faults>>

(* Mutant: the signature is written on every row still to pay. *)
PaySave_AllRows(r) ==
    /\ pc[r] = "paySave"
    /\ paidSig' = [w \in Wallet |->
           IF w \in job[r].todo /\ gen = job[r].gen /\ paidSig[w] = NoSig
           THEN job[r].sig ELSE paidSig[w]]
    /\ Goto(r, "renew")
    /\ UNCHANGED <<status, total, alloc, gen, fundVars, leaseVars, chainVars, job, faults>>

(* Record the batch's signature on the rows it was loaded from, where they *)
(* still exist and carry none.                                             *)
PaySave(r) ==
    /\ pc[r] = "paySave"
    /\ paidSig' = [w \in Wallet |->
           IF w \in job[r].batch /\ gen = job[r].gen /\ paidSig[w] = NoSig
           THEN job[r].sig ELSE paidSig[w]]
    /\ Goto(r, "renew")
    /\ UNCHANGED <<status, total, alloc, gen, fundVars, leaseVars, chainVars, job, faults>>

(* Mutant: goes on to markExecuted after the first batch. *)
Renew_FirstBatchOnly(r) ==
    /\ pc[r] = "renew"
    /\ IF lease = r
       THEN live' = TRUE /\ job' = [job EXCEPT ![r].batch = {}] /\ Goto(r, "mark")
       ELSE UNCHANGED <<live, job>> /\ Goto(r, "release")
    /\ UNCHANGED <<lease, rowVars, fundVars, chainVars, faults>>

(* Renew the lease before the next batch, or stop if it was lost. *)
Renew(r) ==
    /\ pc[r] = "renew"
    /\ LET rest == job[r].todo \ job[r].batch IN
       IF lease = r
       THEN /\ live' = TRUE
            /\ job' = [job EXCEPT ![r].todo = rest, ![r].batch = {}]
            /\ Goto(r, IF rest = {} THEN "mark" ELSE "paySend")
       ELSE /\ UNCHANGED <<live, job>>
            /\ Goto(r, "release")
    /\ UNCHANGED <<lease, rowVars, fundVars, chainVars, faults>>

-----------------------------------------------------------------------------
(* The transfer itself (chain.payout.transferBatch).                       *)

(* Mutant: the escrow is funded one payout batch at a time. *)
Outgoing_OneBatch(r) == Batches(job[r].todo, job[r].rows)

(* What the pending transfer would move. *)
Outgoing(r) ==
    IF pc[r] = "fundSend" THEN {job[r].todo} ELSE Batches(job[r].todo, job[r].rows)

Saving(label) == IF label = "fundSend" THEN "fundSave" ELSE "paySave"

(* The transfer lands and its signature is returned. *)
TransferLands(r) ==
    /\ pc[r] \in {"fundSend", "paySend"}
    /\ \E b \in Outgoing(r) :
          /\ ledger' = Append(ledger, Transfer(job[r].mode, b, job[r].rows))
          /\ job' = [job EXCEPT ![r].batch = b, ![r].sig = Len(ledger) + 1]
    /\ Goto(r, Saving(pc[r]))
    /\ UNCHANGED <<rowVars, fundVars, leaseVars, orphans, faults>>

(* A TxError: the transfer certainly did not apply. *)
TransferFails(r) ==
    /\ pc[r] \in {"fundSend", "paySend"}
    /\ Goto(r, "release")
    /\ UNCHANGED <<rowVars, fundVars, leaseVars, chainVars, job, faults>>

(* OUTCOME UNKNOWN: the transfer landed, the handler sees an error. *)
TransferUnknown(r) ==
    /\ pc[r] \in {"fundSend", "paySend"}
    /\ faults["unknown"] > 0
    /\ \E b \in Outgoing(r) :
          ledger' = Append(ledger, Transfer(job[r].mode, b, job[r].rows))
    /\ orphans' = orphans \cup {Len(ledger) + 1}
    /\ Goto(r, "release")
    /\ faults' = [faults EXCEPT !["unknown"] = @ - 1]
    /\ UNCHANGED <<rowVars, fundVars, leaseVars, job>>

-----------------------------------------------------------------------------
(* markExecuted: unconditional, by id.  It also clears the lease, so the   *)
(* `finally' block has nothing left to release.                            *)
Mark(r) ==
    /\ pc[r] = "mark"
    /\ status' = "EXECUTED"
    /\ lease' = NoLease /\ live' = FALSE
    /\ IF job[r].mode = "escrow"
       THEN payoutMode' = "ESCROW" /\ fundSig' = job[r].sig /\ root' = job[r].rows
       ELSE payoutMode' = "DIRECT" /\ UNCHANGED <<fundSig, root>>
    /\ Return(r)
    /\ UNCHANGED <<total, alloc, gen, paidSig, chainVars, faults>>

-----------------------------------------------------------------------------
(* Faults and time.                                                        *)

(* The transfer a handler has seen land and not yet recorded. *)
InFlight(r) ==
    IF pc[r] \in {"fundSave", "paySave"} /\ job[r].sig # NoTransfer THEN {job[r].sig} ELSE {}

(* The request is killed (timeout, deploy, process exit): no `finally'. *)
Crash(r) ==
    /\ pc[r] # "idle"
    /\ faults["crash"] > 0
    /\ faults' = [faults EXCEPT !["crash"] = @ - 1]
    /\ orphans' = orphans \cup InFlight(r)
    /\ Return(r)
    /\ UNCHANGED <<rowVars, fundVars, leaseVars, ledger>>

(* A database call under the lease throws; `finally' still runs. *)
DatabaseError(r) ==
    /\ pc[r] \in {"fund", "fundSave", "pay", "paySave", "renew", "mark"}
    /\ faults["error"] > 0
    /\ faults' = [faults EXCEPT !["error"] = @ - 1]
    /\ orphans' = orphans \cup InFlight(r)
    /\ Goto(r, "release")
    /\ UNCHANGED <<rowVars, fundVars, leaseVars, ledger, job>>

(* `executingUntil' passes.  Where the platform ends a request first, its  *)
(* holder is no longer running by then.                                    *)
Expire ==
    /\ live
    /\ MaxDurationEnforced => ~Executing(lease)
    /\ live' = FALSE
    /\ UNCHANGED <<lease, rowVars, fundVars, chainVars, pc, job, faults>>

(* EXECUTED is final: a later execute answers alreadyExecuted. *)
Done ==
    /\ status = "EXECUTED"
    /\ \A r \in Request : pc[r] = "idle"
    /\ UNCHANGED vars

-----------------------------------------------------------------------------
Snapshot(r) == StartSnapshot(r) \/ CommitSnapshot(r) \/ RefuseSnapshot(r)

Execute(r) ==
    \/ StartExecute(r) \/ Claim(r) \/ ClaimRefused(r)
    \/ FundLoad(r) \/ FundSave(r)
    \/ PayLoad(r) \/ PaySave(r) \/ Renew(r)
    \/ TransferLands(r) \/ TransferFails(r)
    \/ Mark(r) \/ Release(r)

Fault(r) == TransferUnknown(r) \/ Crash(r) \/ DatabaseError(r)

Next == (\E r \in Request : Snapshot(r) \/ Execute(r) \/ Fault(r)) \/ Expire \/ Done

Spec == Init /\ [][Next]_vars

(* A running handler goes on to its next step, a lease runs out, the       *)
(* founder repeats the execute call until it answers, and an attempt that  *)
(* finds the money and a working RPC comes again and again.                *)
Fairness ==
    /\ \A r \in Request :
          /\ WF_vars(CommitSnapshot(r) \/ RefuseSnapshot(r))
          /\ WF_vars(Claim(r) \/ ClaimRefused(r))
          /\ WF_vars(FundLoad(r) \/ FundSave(r) \/ PayLoad(r) \/ PaySave(r) \/ Renew(r))
          /\ WF_vars(Mark(r) \/ Release(r))
          /\ WF_vars(TransferLands(r) \/ TransferFails(r))
          /\ SF_vars((FundLoad(r) \/ PayLoad(r)) /\ pc'[r] # "release")
          /\ SF_vars(TransferLands(r))
          /\ SF_vars(StartExecute(r))
    /\ WF_vars(Expire)

FairSpec == Spec /\ Fairness

-----------------------------------------------------------------------------
(* Properties.                                                             *)

Covers(i) == DOMAIN ledger[i].pays

(* USDC that left the issuer on behalf of w, over every landed transfer. *)
LeftIssuerFor(w) ==
    SumFunction([i \in DOMAIN ledger |->
        IF ledger[i].kind # "claim" /\ w \in Covers(i) THEN ledger[i].pays[w] ELSE 0])

(* While no fault strikes, any interleaving of snapshot and execute        *)
(* requests keeps the promise to the holders: nobody is paid twice, short  *)
(* or from a replaced table, whichever mode each request asked for.        *)
Promise == INSTANCE PayoutPromise WITH
    table   <- alloc,
    covered <- [w \in Wallet |-> LeftIssuerFor(w)],
    closed  <- (status = "EXECUTED")

KeepsPromise == Promise!PromiseSpec

(* Only the lease holder pays: a handler past its claim owns a lease that  *)
(* is still live, so no two handlers pay at once.                          *)
OnlyLeaseHolderPays == \A r \in Request : Executing(r) => lease = r /\ live

(* What is being paid is what the founder confirmed: while a handler pays, *)
(* the row's total is the one typed for that request, although other       *)
(* requests may have snapshotted between its load and its claim.           *)
ConfirmedTotalStands == \A r \in Request : Executing(r) => total = job[r].typed

(* Whatever crashes, database errors and unknown outcomes happen, two      *)
(* payments of the same kind to a holder mean that one of them was never   *)
(* recorded: retries and concurrent requests never repeat a recorded one.  *)
RecordedPaymentNotRepeated ==
    \A i, j \in DOMAIN ledger \ orphans :
        ledger[i].kind = ledger[j].kind /\ Covers(i) \cap Covers(j) # {} => i = j

(* A signature on an allocation row is that of a landed transfer which     *)
(* paid this wallet the amount of this row.                                *)
RecordedMeansPaid ==
    \A w \in Recorded :
        /\ paidSig[w] \in DOMAIN ledger \ orphans
        /\ ledger[paidSig[w]].kind # "escrow"
        /\ w \in Covers(paidSig[w])
        /\ ledger[paidSig[w]].pays[w] = alloc[w]

(* EXECUTED in direct mode means every payable row carries a signature.    *)
DirectExecutedMeansPaid == status = "EXECUTED" /\ payoutMode = "DIRECT" => Unpaid = {}

(* Once a payment is recorded on a row, no request drops or replaces the   *)
(* signature or changes the row under it.                                  *)
RecordsStand ==
    [][\A w \in Recorded : paidSig'[w] = paidSig[w] /\ alloc'[w] = alloc[w]]_vars

(* The founder who keeps calling execute gets the distribution paid: no    *)
(* crash, error or lost lease leaves the row locked for good.              *)
Settles == (status = "SNAPSHOTTED") ~> (status = "EXECUTED")

-----------------------------------------------------------------------------
(* What the repository says and the code does not do.                      *)

(* Header: EXECUTED means the issuer has paid, to holders or into escrow.  *)
(* So in escrow mode the recorded funding is worth the rows still unpaid.  *)
EscrowExecutedMeansPaid ==
    status = "EXECUTED" /\ payoutMode = "ESCROW" /\ Unpaid # {} =>
        /\ fundSig \in DOMAIN ledger
        /\ TotalOf(ledger[fundSig].pays) >= SumFunctionOnSet(alloc, Unpaid)
=============================================================================
