------------------------- MODULE DistributionProofs -------------------------
(***************************************************************************)
(* Proofs about Distribution, for every set of requests and wallets, every *)
(* set of allocation tables and every number of snapshots and faults.      *)
(*                                                                         *)
(* The safety invariants are not inductive: what makes them true is that   *)
(* a handler between its claim and its `finally' works on rows nobody else *)
(* may change.  IInv says so control point by control point.               *)
(***************************************************************************)
EXTENDS Distribution, SumLemmas

-----------------------------------------------------------------------------
(* The invariant. *)

LeasedPCs == {"fund", "fundSend", "fundSave",
              "pay", "paySend", "paySave", "renew", "mark", "release"}

(* A landed transfer in flight is in the ledger, and what a snapshot is     *)
(* about to write is a table that it computed.                             *)
InFlightInv ==
    \A r \in Request :
        /\ pc[r] = "commit" => job[r].rows \in Tables
        /\ pc[r] = "fundSave" => job[r].sig \in DOMAIN ledger \cup {NoTransfer}
        /\ pc[r] = "paySave"  => job[r].sig \in DOMAIN ledger

(* The lease column and a handler's control point agree. *)
Controlled(r) ==
    /\ Executing(r) <=> pc[r] \in LeasedPCs
    /\ Executing(r) => lease = r /\ live
    /\ Executing(r) => status = "SNAPSHOTTED" /\ total = job[r].typed
    /\ pc[r] \in {"fund", "fundSend", "fundSave"} => job[r].mode = "escrow"
    /\ pc[r] \in {"pay", "paySend", "paySave", "renew"} => job[r].mode = "direct"

(* A funding in flight is the first one, is worth exactly the rows that    *)
(* carry no signature, and becomes the recorded one.                       *)
Funding(r) ==
    /\ pc[r] \in {"fundSend", "fundSave"} => fundSig = NoSig /\ alloc = job[r].rows
    /\ pc[r] = "fundSend" => Unpaid = job[r].todo
    /\ pc[r] = "fundSave" /\ job[r].sig = NoTransfer => Unpaid = {}
    /\ pc[r] = "fundSave" /\ job[r].sig # NoTransfer =>
          /\ job[r].sig \notin orphans
          /\ ledger[job[r].sig] = Transfer("escrow", Unpaid, alloc)
    /\ pc[r] = "mark" /\ job[r].mode = "escrow" => fundSig = job[r].sig /\ fundSig # NoSig

(* A paying handler's list is exactly the rows that carry no signature. *)
Paying(r) ==
    /\ pc[r] \in {"paySend", "paySave", "renew"} => gen = job[r].gen /\ alloc = job[r].rows
    /\ pc[r] \in {"paySend", "paySave"} => Unpaid = job[r].todo
    /\ pc[r] = "paySave" =>
          /\ job[r].batch \subseteq job[r].todo
          /\ job[r].sig \notin orphans
          /\ ledger[job[r].sig] = Transfer("direct", job[r].batch, job[r].rows)
    /\ pc[r] = "renew" => Unpaid = job[r].todo \ job[r].batch
    /\ pc[r] = "mark" /\ job[r].mode = "direct" => Unpaid = {}

Handler(r) == Controlled(r) /\ Funding(r) /\ Paying(r)

(* Every landed transfer is recorded, about to be, or will never be. *)
LedgerInv ==
    \A i \in DOMAIN ledger \ orphans :
        /\ ledger[i].kind = "escrow" =>
              fundSig = i \/ \E r \in Request : pc[r] = "fundSave" /\ job[r].sig = i
        /\ ledger[i].kind = "direct" =>
              \A w \in Covers(i) :
                  \/ paidSig[w] = i
                  \/ \E r \in Request : pc[r] = "paySave" /\ job[r].sig = i /\ w \in job[r].batch

RowsInv == LedgerInv /\ RecordedMeansPaid /\ DirectExecutedMeansPaid

TypeInv == TypeOK /\ InFlightInv

IInv == TypeInv /\ (\A r \in Request : Handler(r)) /\ RowsInv

-----------------------------------------------------------------------------
(* Lemmas about the helpers.                                               *)

(* The handlers' transfers have the shape the ledger holds. *)
LEMMA TransferTyped ==
    ASSUME NEW kind \in {"escrow", "direct"}, NEW ws \in SUBSET Wallet, NEW t \in AllocationTables
    PROVE  Transfer(kind, ws, t) \in Transfers
<1>1. [w \in ws |-> t[w]] \in Payments
  BY DEF Payments
<1> QED
  BY <1>1 DEF Transfer, Transfers

(* A payout transaction only pays rows of the list it is cut from. *)
LEMMA OutgoingFromList ==
    ASSUME NEW r \in Request, NEW b \in Outgoing(r)
    PROVE  b \subseteq job[r].todo
BY DEF Outgoing, Batches

(* A landed transfer is appended under the next signature. *)
LEMMA LedgerAppend ==
    ASSUME NEW L, L \in Seq(Transfers), NEW e \in Transfers
    PROVE  /\ Append(L, e) \in Seq(Transfers)
           /\ Len(L) + 1 \in Nat \ {0}
           /\ Len(L) + 1 \notin DOMAIN L
           /\ DOMAIN Append(L, e) = DOMAIN L \cup {Len(L) + 1}
           /\ \A i \in DOMAIN L : Append(L, e)[i] = L[i]
           /\ Append(L, e)[Len(L) + 1] = e
OBVIOUS

-----------------------------------------------------------------------------
(* Types.                                                                  *)

LEMMA NoJobTyped == NoJob \in JobRecord
BY DEF NoJob, JobRecord, AllocationTables, Totals, NoSig, NoTotal

(* What a handler starts a step with: its record, and the rows it reads.   *)
LEMMA JobTyped ==
    ASSUME TypeInv, NEW r \in Request
    PROVE  /\ job[r] \in JobRecord
           /\ total \in Totals /\ alloc \in AllocationTables /\ gen \in Nat
           /\ fundSig \in Nat \cup {NoTransfer} /\ Unpaid \in SUBSET Wallet
BY DEF TypeInv, TypeOK, Unpaid

(* PayoutModeFor keeps to the two payout modes. *)
LEMMA ModeTyped ==
    ASSUME NEW asked \in {"escrow", "direct"}
    PROVE  PayoutModeFor(asked) \in {"escrow", "direct"}
BY DEF PayoutModeFor

LEMMA TypeInit == Init => TypeInv
<1> SUFFICES ASSUME Init PROVE TypeInv
  OBVIOUS
<1>1. /\ pc \in [Request -> PCs]
      /\ \A r \in Request : pc[r] = "idle"
  BY DEF Init, PCs
<1>2. job \in [Request -> JobRecord]
  BY NoJobTyped DEF Init
<1>3. ledger \in Seq(Transfers) /\ orphans \subseteq DOMAIN ledger
  BY DEF Init
<1>4. faults \in [{"crash", "error", "unknown"} -> Nat]
  BY ConstantsAssumption DEF Init
<1> QED
  BY <1>1, <1>2, <1>3, <1>4
     DEF Init, TypeInv, TypeOK, InFlightInv, AllocationTables, Totals, NoTable, NoSig, NoLease, NoTotal

(* Each kind of step keeps the types.  A handler's goto and its local      *)
(* record are typed once, here, for all of them.                           *)
LocalTypes ==
    /\ pc' \in [Request -> PCs]
    /\ job' \in [Request -> JobRecord]
    /\ InFlightInv'

MovesTo(r, label, j) ==
    /\ Goto(r, label)
    /\ job' = [job EXCEPT ![r] = j]

LEMMA LocalStep ==
    ASSUME TypeInv, NEW r \in Request, NEW label \in PCs, NEW j \in JobRecord,
           MovesTo(r, label, j),
           label = "commit" => j.rows \in Tables,
           label = "fundSave" => j.sig \in DOMAIN ledger' \cup {NoTransfer},
           label = "paySave" => j.sig \in DOMAIN ledger',
           DOMAIN ledger \subseteq DOMAIN ledger'
    PROVE  LocalTypes
<1>1. pc' \in [Request -> PCs] /\ job' \in [Request -> JobRecord]
  BY DEF TypeInv, TypeOK, MovesTo, Goto
<1>2. ASSUME NEW q \in Request
      PROVE  /\ pc'[q] = "commit" => job'[q].rows \in Tables
             /\ pc'[q] = "fundSave" => job'[q].sig \in DOMAIN ledger' \cup {NoTransfer}
             /\ pc'[q] = "paySave"  => job'[q].sig \in DOMAIN ledger'
  BY DEF TypeInv, TypeOK, InFlightInv, MovesTo, Goto
<1> QED
  BY <1>1, <1>2 DEF InFlightInv, LocalTypes

(* The control points at which nothing computed or sent is to be saved. *)
QuietPCs == PCs \ {"commit", "fundSave", "paySave"}

LEMMA QuietMove ==
    ASSUME TypeInv, NEW r \in Request, NEW label \in QuietPCs, NEW j \in JobRecord,
           MovesTo(r, label, j), DOMAIN ledger \subseteq DOMAIN ledger'
    PROVE  LocalTypes
<1>1. label \in PCs /\ label \notin {"commit", "fundSave", "paySave"}
  BY DEF QuietPCs
<1> QED
  BY <1>1, LocalStep

LEMMA ReturnStep ==
    ASSUME TypeInv, NEW r \in Request, Return(r), DOMAIN ledger \subseteq DOMAIN ledger'
    PROVE  LocalTypes
<1>1. MovesTo(r, "idle", NoJob) /\ "idle" \in QuietPCs
  BY DEF Return, MovesTo, QuietPCs, PCs
<1> QED
  BY <1>1, NoJobTyped, QuietMove

LEMMA GotoStep ==
    ASSUME TypeInv, NEW r \in Request, NEW label \in QuietPCs,
           Goto(r, label), UNCHANGED job, DOMAIN ledger \subseteq DOMAIN ledger'
    PROVE  LocalTypes
<1>1. job[r] \in JobRecord /\ MovesTo(r, label, job[r])
  BY DEF TypeInv, TypeOK, MovesTo
<1> QED
  BY <1>1, QuietMove

LEMMA TypeSnapshot ==
    ASSUME TypeInv, NEW r \in Request, Snapshot(r)
    PROVE  TypeInv'
<1>1. CASE StartSnapshot(r)
  <2>1. PICK t \in Tables : job' = [job EXCEPT ![r].rows = t]
    BY <1>1 DEF StartSnapshot
  <2> DEFINE j == [job[r] EXCEPT !.rows = t]
  <2>2. j \in JobRecord /\ j.rows \in Tables
    BY JobTyped DEF JobRecord, AllocationTables
  <2>3. MovesTo(r, "commit", j) /\ ledger' = ledger /\ "commit" \in PCs
    BY <1>1, <2>1 DEF StartSnapshot, MovesTo, chainVars, PCs
  <2> HIDE DEF j
  <2>4. LocalTypes
    BY <2>2, <2>3, LocalStep
  <2> QED
    BY <1>1, <2>4 DEF StartSnapshot, LocalTypes, TypeInv, TypeOK, rowVars, fundVars, leaseVars, chainVars
<1>2. CASE CommitSnapshot(r)
  <2>1. job[r].rows \in AllocationTables /\ TotalOf(job[r].rows) \in Totals
    BY DEF JobRecord, Totals, TypeInv, TypeOK
  <2>2. Return(r) /\ ledger' = ledger
    BY <1>2 DEF CommitSnapshot, chainVars
  <2>3. LocalTypes
    BY <2>2, ReturnStep
  <2>4. paidSig' \in [Wallet -> Nat] /\ gen' \in Nat
    BY <1>2 DEF CommitSnapshot, NoSig, TypeInv, TypeOK
  <2> QED
    BY <1>2, <2>1, <2>3, <2>4 DEF CommitSnapshot, LocalTypes, TypeInv, TypeOK, fundVars, leaseVars, chainVars
<1>3. CASE RefuseSnapshot(r)
  <2>1. Return(r) /\ ledger' = ledger
    BY <1>3 DEF RefuseSnapshot, chainVars
  <2>2. LocalTypes
    BY <2>1, ReturnStep
  <2> QED
    BY <1>3, <2>2 DEF RefuseSnapshot, LocalTypes, TypeInv, TypeOK, rowVars, fundVars, leaseVars, chainVars
<1> QED
  BY <1>1, <1>2, <1>3 DEF Snapshot

LEMMA TypeClaim ==
    ASSUME TypeInv, NEW r \in Request,
           StartExecute(r) \/ Claim(r) \/ ClaimRefused(r) \/ Release(r) \/ Mark(r)
    PROVE  TypeInv'
<1>1. CASE StartExecute(r)
  <2>1. PICK asked \in {"escrow", "direct"} :
           job' = [job EXCEPT ![r].typed = total, ![r].mode = PayoutModeFor(asked)]
    BY <1>1 DEF StartExecute
  <2> DEFINE j == [job[r] EXCEPT !.typed = total, !.mode = PayoutModeFor(asked)]
  <2>2. j \in JobRecord
    BY JobTyped, ModeTyped DEF JobRecord
  <2>3. MovesTo(r, "claim", j) /\ ledger' = ledger /\ "claim" \in QuietPCs
    BY <1>1, <2>1 DEF StartExecute, MovesTo, chainVars, QuietPCs, PCs
  <2> HIDE DEF j
  <2>4. LocalTypes
    BY <2>2, <2>3, QuietMove
  <2> QED
    BY <1>1, <2>4 DEF StartExecute, LocalTypes, TypeInv, TypeOK, rowVars, fundVars, leaseVars, chainVars
<1>2. CASE Claim(r)
  <2> DEFINE j == [job[r] EXCEPT !.leased = TRUE]
             label == IF job[r].mode = "escrow" THEN "fund" ELSE "pay"
  <2>1. j \in JobRecord
    BY JobTyped DEF JobRecord
  <2>2. MovesTo(r, label, j) /\ ledger' = ledger /\ label \in QuietPCs
    BY <1>2 DEF Claim, MovesTo, chainVars, QuietPCs, PCs
  <2> HIDE DEF j, label
  <2>3. LocalTypes
    BY <2>1, <2>2, QuietMove
  <2> QED
    BY <1>2, <2>3 DEF Claim, LocalTypes, TypeInv, TypeOK, rowVars, fundVars, chainVars
<1>3. CASE ClaimRefused(r)
  <2>1. Return(r) /\ ledger' = ledger
    BY <1>3 DEF ClaimRefused, chainVars
  <2>2. LocalTypes
    BY <2>1, ReturnStep
  <2> QED
    BY <1>3, <2>2 DEF ClaimRefused, LocalTypes, TypeInv, TypeOK, rowVars, fundVars, leaseVars, chainVars
<1>4. CASE Release(r)
  <2>1. Return(r) /\ ledger' = ledger
    BY <1>4 DEF Release, chainVars
  <2>2. LocalTypes
    BY <2>1, ReturnStep
  <2>3. lease' \in Request \cup {NoLease} /\ live' \in BOOLEAN
    BY <1>4 DEF Release, TypeInv, TypeOK, leaseVars
  <2> QED
    BY <1>4, <2>2, <2>3 DEF Release, LocalTypes, TypeInv, TypeOK, rowVars, fundVars, chainVars
<1>5. CASE Mark(r)
  <2>1. Return(r) /\ ledger' = ledger
    BY <1>5 DEF Mark, chainVars
  <2>2. LocalTypes
    BY <2>1, ReturnStep
  <2>3. job[r].sig \in Nat \cup {NoTransfer} /\ job[r].rows \in AllocationTables
    BY DEF JobRecord, TypeInv, TypeOK
  <2>4. fundSig' \in Nat \cup {NoTransfer} /\ root' \in AllocationTables
        /\ payoutMode' \in {"DIRECT", "ESCROW"}
    BY <1>5, <2>3 DEF Mark, TypeInv, TypeOK
  <2> QED
    BY <1>5, <2>2, <2>4 DEF Mark, NoLease, LocalTypes, TypeInv, TypeOK, chainVars
<1> QED
  BY <1>1, <1>2, <1>3, <1>4, <1>5

LEMMA TypeFund ==
    ASSUME TypeInv, NEW r \in Request, FundLoad(r) \/ FundSave(r)
    PROVE  TypeInv'
<1>1. CASE FundLoad(r)
  <2>1. ledger' = ledger
    BY <1>1 DEF FundLoad, chainVars
  <2>2. LocalTypes
    <3>1. CASE job' = [job EXCEPT ![r].rows = alloc, ![r].sig = fundSig] /\ Goto(r, "mark")
      <4> DEFINE j == [job[r] EXCEPT !.rows = alloc, !.sig = fundSig]
      <4>1. j \in JobRecord
        BY JobTyped DEF JobRecord
      <4>2. MovesTo(r, "mark", j) /\ "mark" \in QuietPCs
        BY <3>1 DEF MovesTo, QuietPCs, PCs
      <4> HIDE DEF j
      <4> QED
        BY <2>1, <4>1, <4>2, QuietMove
    <3>2. CASE job' = [job EXCEPT ![r].rows = alloc, ![r].sig = NoTransfer] /\ Goto(r, "fundSave")
      <4> DEFINE j == [job[r] EXCEPT !.rows = alloc, !.sig = NoTransfer]
      <4>1. j \in JobRecord /\ j.sig = NoTransfer
        BY JobTyped DEF JobRecord
      <4>2. MovesTo(r, "fundSave", j) /\ "fundSave" \in PCs
        BY <3>2 DEF MovesTo, PCs
      <4> HIDE DEF j
      <4>3. j.sig \in DOMAIN ledger' \cup {NoTransfer} /\ "fundSave" # "paySave"
        BY <4>1
      <4> QED
        BY <2>1, <4>1, <4>2, <4>3, LocalStep
    <3>3. CASE /\ job' = [job EXCEPT ![r].rows = alloc, ![r].todo = Unpaid]
               /\ Goto(r, "fundSend") \/ Goto(r, "release")
      <4> DEFINE j == [job[r] EXCEPT !.rows = alloc, !.todo = Unpaid]
      <4>1. j \in JobRecord
        BY JobTyped DEF JobRecord
      <4>2. /\ MovesTo(r, "fundSend", j) \/ MovesTo(r, "release", j)
            /\ {"fundSend", "release"} \subseteq QuietPCs
        BY <3>3 DEF MovesTo, QuietPCs, PCs
      <4> HIDE DEF j
      <4> QED
        BY <2>1, <4>1, <4>2, QuietMove
    <3> QED
      BY <1>1, <3>1, <3>2, <3>3 DEF FundLoad
  <2> QED
    BY <1>1, <2>2 DEF FundLoad, LocalTypes, TypeInv, TypeOK, rowVars, fundVars, leaseVars, chainVars
<1>2. CASE FundSave(r)
  <2>1. Goto(r, "mark") /\ UNCHANGED job /\ ledger' = ledger /\ "mark" \in QuietPCs
    BY <1>2 DEF FundSave, chainVars, QuietPCs, PCs
  <2>2. LocalTypes
    BY <2>1, GotoStep
  <2>3. job[r].sig \in Nat \cup {NoTransfer} /\ job[r].rows \in AllocationTables
    BY DEF JobRecord, TypeInv, TypeOK
  <2>4. fundSig' \in Nat \cup {NoTransfer} /\ root' \in AllocationTables
        /\ payoutMode' \in {"DIRECT", "ESCROW"}
    BY <1>2, <2>3 DEF FundSave, fundVars, TypeInv, TypeOK
  <2> QED
    BY <1>2, <2>2, <2>4 DEF FundSave, LocalTypes, TypeInv, TypeOK, rowVars, leaseVars, chainVars
<1> QED
  BY <1>1, <1>2

LEMMA TypePay ==
    ASSUME TypeInv, NEW r \in Request, PayLoad(r) \/ PaySave(r) \/ Renew(r)
    PROVE  TypeInv'
<1>1. CASE PayLoad(r)
  <2> DEFINE j == [job[r] EXCEPT !.rows = alloc, !.gen = gen, !.todo = Unpaid]
  <2>1. j \in JobRecord
    BY JobTyped DEF JobRecord
  <2>2. ledger' = ledger /\ {"mark", "paySend", "release"} \subseteq QuietPCs
    BY <1>1 DEF PayLoad, chainVars, QuietPCs, PCs
  <2>3. PICK label \in {"mark", "paySend", "release"} : MovesTo(r, label, j)
    BY <1>1 DEF PayLoad, MovesTo
  <2> HIDE DEF j
  <2>4. LocalTypes
    BY <2>1, <2>2, <2>3, QuietMove
  <2> QED
    BY <1>1, <2>4 DEF PayLoad, LocalTypes, TypeInv, TypeOK, rowVars, fundVars, leaseVars, chainVars
<1>2. CASE PaySave(r)
  <2>1. Goto(r, "renew") /\ UNCHANGED job /\ ledger' = ledger /\ "renew" \in QuietPCs
    BY <1>2 DEF PaySave, chainVars, QuietPCs, PCs
  <2>2. LocalTypes
    BY <2>1, GotoStep
  <2>3. job[r].sig \in Nat
    BY <1>2 DEF PaySave, InFlightInv, TypeInv, TypeOK
  <2>4. paidSig' \in [Wallet -> Nat]
    BY <1>2, <2>3 DEF PaySave, TypeInv, TypeOK
  <2> QED
    BY <1>2, <2>2, <2>4 DEF PaySave, LocalTypes, TypeInv, TypeOK, fundVars, leaseVars, chainVars
<1>3. CASE Renew(r)
  <2>1. ledger' = ledger /\ {"mark", "paySend", "release"} \subseteq QuietPCs
    BY <1>3 DEF Renew, chainVars, QuietPCs, PCs
  <2>2. LocalTypes /\ live' \in BOOLEAN
    <3>1. CASE lease = r
      <4> DEFINE rest == job[r].todo \ job[r].batch
                 j == [job[r] EXCEPT !.todo = rest, !.batch = {}]
      <4>1. j \in JobRecord
        BY JobTyped DEF JobRecord
      <4>2. live' = TRUE
        BY <1>3, <3>1 DEF Renew
      <4>3. PICK label \in {"mark", "paySend"} : MovesTo(r, label, j)
        BY <1>3, <3>1 DEF Renew, MovesTo
      <4> HIDE DEF j
      <4> QED
        BY <2>1, <4>1, <4>2, <4>3, QuietMove
    <3>2. CASE lease # r
      <4>1. Goto(r, "release") /\ UNCHANGED <<live, job>>
        BY <1>3, <3>2 DEF Renew
      <4>2. LocalTypes
        BY <2>1, <4>1, GotoStep
      <4> QED
        BY <4>1, <4>2 DEF TypeInv, TypeOK
    <3> QED
      BY <3>1, <3>2
  <2> QED
    BY <1>3, <2>2 DEF Renew, LocalTypes, TypeInv, TypeOK, rowVars, fundVars, chainVars
<1> QED
  BY <1>1, <1>2, <1>3

(* A transfer that lands, whether its sender learns of it or not. *)
LEMMA TypeLanded ==
    ASSUME TypeInv, NEW r \in Request, NEW b \in Outgoing(r),
           ledger' = Append(ledger, Transfer(job[r].mode, b, job[r].rows))
    PROVE  /\ b \in SUBSET Wallet
           /\ ledger' \in Seq(Transfers)
           /\ DOMAIN ledger' = DOMAIN ledger \cup {Len(ledger) + 1}
           /\ Len(ledger) + 1 \in Nat
<1>1. job[r] \in JobRecord /\ ledger \in Seq(Transfers)
  BY DEF TypeInv, TypeOK
<1>2. b \in SUBSET Wallet
  BY <1>1, OutgoingFromList DEF JobRecord
<1>3. Transfer(job[r].mode, b, job[r].rows) \in Transfers
  BY <1>1, <1>2, TransferTyped DEF JobRecord
<1> QED
  BY <1>1, <1>2, <1>3, LedgerAppend

LEMMA TypeTransfer ==
    ASSUME TypeInv, NEW r \in Request, TransferLands(r) \/ TransferFails(r) \/ TransferUnknown(r)
    PROVE  TypeInv'
<1>1. CASE TransferLands(r)
  <2>1. PICK b \in Outgoing(r) :
           /\ ledger' = Append(ledger, Transfer(job[r].mode, b, job[r].rows))
           /\ job' = [job EXCEPT ![r].batch = b, ![r].sig = Len(ledger) + 1]
    BY <1>1 DEF TransferLands
  <2>2. /\ b \in SUBSET Wallet
        /\ ledger' \in Seq(Transfers)
        /\ DOMAIN ledger' = DOMAIN ledger \cup {Len(ledger) + 1}
        /\ Len(ledger) + 1 \in Nat
    BY <2>1, TypeLanded
  <2> DEFINE j == [job[r] EXCEPT !.batch = b, !.sig = Len(ledger) + 1]
  <2>3. j \in JobRecord /\ j.sig \in DOMAIN ledger'
    BY <2>2, JobTyped DEF JobRecord
  <2>4. PICK label \in {"fundSave", "paySave"} : MovesTo(r, label, j)
    BY <1>1, <2>1 DEF TransferLands, MovesTo, Saving
  <2> HIDE DEF j
  <2>5. label \in PCs
    BY <2>4 DEF PCs
  <2>6. LocalTypes
    BY <2>2, <2>3, <2>4, <2>5, LocalStep
  <2> QED
    BY <1>1, <2>2, <2>6 DEF TransferLands, LocalTypes, TypeInv, TypeOK, rowVars, fundVars, leaseVars
<1>2. CASE TransferFails(r)
  <2>1. Goto(r, "release") /\ UNCHANGED job /\ ledger' = ledger /\ "release" \in QuietPCs
    BY <1>2 DEF TransferFails, chainVars, QuietPCs, PCs
  <2>2. LocalTypes
    BY <2>1, GotoStep
  <2> QED
    BY <1>2, <2>2 DEF TransferFails, LocalTypes, TypeInv, TypeOK, rowVars, fundVars, leaseVars, chainVars
<1>3. CASE TransferUnknown(r)
  <2>1. PICK b \in Outgoing(r) : ledger' = Append(ledger, Transfer(job[r].mode, b, job[r].rows))
    BY <1>3 DEF TransferUnknown
  <2>2. /\ ledger' \in Seq(Transfers)
        /\ DOMAIN ledger' = DOMAIN ledger \cup {Len(ledger) + 1}
    BY <2>1, TypeLanded
  <2>3. Goto(r, "release") /\ UNCHANGED job /\ "release" \in QuietPCs
    BY <1>3 DEF TransferUnknown, QuietPCs, PCs
  <2>4. LocalTypes
    BY <2>2, <2>3, GotoStep
  <2>5. faults' \in [{"crash", "error", "unknown"} -> Nat]
    BY <1>3 DEF TransferUnknown, TypeInv, TypeOK
  <2> QED
    BY <1>3, <2>2, <2>4, <2>5 DEF TransferUnknown, LocalTypes, TypeInv, TypeOK, rowVars, fundVars, leaseVars
<1> QED
  BY <1>1, <1>2, <1>3

LEMMA TypeFault ==
    ASSUME TypeInv, NEW r \in Request, Crash(r) \/ DatabaseError(r)
    PROVE  TypeInv'
<1>1. InFlight(r) \subseteq DOMAIN ledger
  BY DEF InFlight, InFlightInv, TypeInv
<1>2. CASE Crash(r)
  <2>1. Return(r) /\ ledger' = ledger
    BY <1>2 DEF Crash
  <2>2. LocalTypes
    BY <2>1, ReturnStep
  <2>3. faults' \in [{"crash", "error", "unknown"} -> Nat]
    BY <1>2 DEF Crash, TypeInv, TypeOK
  <2> QED
    BY <1>1, <1>2, <2>2, <2>3 DEF Crash, LocalTypes, TypeInv, TypeOK, rowVars, fundVars, leaseVars
<1>3. CASE DatabaseError(r)
  <2>1. Goto(r, "release") /\ UNCHANGED job /\ ledger' = ledger /\ "release" \in QuietPCs
    BY <1>3 DEF DatabaseError, QuietPCs, PCs
  <2>2. LocalTypes
    BY <2>1, GotoStep
  <2>3. faults' \in [{"crash", "error", "unknown"} -> Nat]
    BY <1>3 DEF DatabaseError, TypeInv, TypeOK
  <2> QED
    BY <1>1, <1>3, <2>2, <2>3 DEF DatabaseError, LocalTypes, TypeInv, TypeOK, rowVars, fundVars, leaseVars
<1> QED
  BY <1>2, <1>3

LEMMA TypeStep == TypeInv /\ [Next]_vars => TypeInv'
<1> SUFFICES ASSUME TypeInv, [Next]_vars PROVE TypeInv'
  OBVIOUS
<1>1. ASSUME NEW r \in Request, Snapshot(r) PROVE TypeInv'
  BY <1>1, TypeSnapshot
<1>2. ASSUME NEW r \in Request, Execute(r) PROVE TypeInv'
  BY <1>2, TypeClaim, TypeFund, TypePay, TypeTransfer DEF Execute
<1>3. ASSUME NEW r \in Request, Fault(r) PROVE TypeInv'
  BY <1>3, TypeTransfer, TypeFault DEF Fault
<1>4. CASE Expire
  BY <1>4 DEF Expire, TypeInv, TypeOK, InFlightInv, rowVars, fundVars, chainVars
<1>5. CASE Done \/ UNCHANGED vars
  BY <1>5 DEF Done, TypeInv, TypeOK, InFlightInv, vars, rowVars, fundVars, leaseVars, chainVars
<1> QED
  BY <1>1, <1>2, <1>3, <1>4, <1>5 DEF Next

(* The variables hold what they are declared to hold: in particular every  *)
(* signature kept for a later step, and every one given up on, is that of  *)
(* a transfer in the ledger.                                               *)
THEOREM TypeCorrect == Spec => []TypeOK
<1>1. TypeInv => TypeOK
  BY DEF TypeInv
<1> QED
  BY TypeInit, TypeStep, <1>1, PTL DEF Spec

LEMMA CoversWallets ==
    ASSUME TypeInv, NEW i \in DOMAIN ledger
    PROVE  Covers(i) \subseteq Wallet
<1>1. ledger[i] \in Transfers
  BY DEF TypeInv, TypeOK
<1>2. PICK ws \in SUBSET Wallet, t \in AllocationTables : ledger[i].pays = [w \in ws |-> t[w]]
  BY <1>1 DEF Transfers, Payments
<1> QED
  BY <1>2 DEF Covers

-----------------------------------------------------------------------------
(* The handlers do not disturb each other.                                 *)

LEMMA LeaseExcludes ==
    ASSUME IInv, NEW r \in Request, NEW q \in Request, Executing(r), q # r
    PROVE  ~Executing(q) /\ pc[q] \notin LeasedPCs
BY DEF IInv, Handler, Controlled

LEMMA LeaseFreeMeansNobody ==
    ASSUME IInv, LeaseFree, NEW q \in Request
    PROVE  ~Executing(q) /\ pc[q] \notin LeasedPCs
BY ConstantsAssumption DEF IInv, Handler, Controlled, LeaseFree, NoLease

(* Nothing is asked of a handler that is not between claim and `finally'.  *)
LEMMA IdleHandler ==
    ASSUME NEW q \in Request, ~Executing(q)', pc'[q] \notin LeasedPCs
    PROVE  Handler(q)'
BY DEF Handler, Controlled, Funding, Paying, LeasedPCs

OthersKeep(r) == \A q \in Request \ {r} : pc'[q] = pc[q] /\ job'[q] = job[q]

LEMMA LoneHandler ==
    ASSUME IInv, NEW r \in Request, Executing(r), OthersKeep(r), Handler(r)'
    PROVE  \A q \in Request : Handler(q)'
<1> SUFFICES ASSUME NEW q \in Request, q # r PROVE Handler(q)'
  OBVIOUS
<1>1. ~Executing(q) /\ pc[q] \notin LeasedPCs
  BY LeaseExcludes
<1>2. ~Executing(q)' /\ pc'[q] \notin LeasedPCs
  BY <1>1 DEF OthersKeep, Executing
<1> QED
  BY <1>2, IdleHandler

(* A step of a handler outside the leased section changes nothing that the *)
(* invariant says of the others.                                           *)
LEMMA QuietStep ==
    ASSUME IInv, NEW r \in Request, pc[r] \notin LeasedPCs, OthersKeep(r),
           ~Executing(r)', pc'[r] \notin LeasedPCs,
           UNCHANGED <<rowVars, fundVars, leaseVars, chainVars>>
    PROVE  (\A q \in Request : Handler(q)') /\ RowsInv'
<1> USE DEF rowVars, fundVars, leaseVars, chainVars
<1>1. ASSUME NEW q \in Request PROVE Handler(q)'
  <2>1. CASE q = r
    BY <2>1, IdleHandler
  <2>2. CASE q # r
    <3>1. Handler(q) /\ pc'[q] = pc[q] /\ job'[q] = job[q]
      BY <2>2 DEF OthersKeep, IInv
    <3> QED
      BY <3>1 DEF Handler, Controlled, Funding, Paying, Executing, Unpaid, Transfer
  <2> QED
    BY <2>1, <2>2
<1>2. LedgerInv'
  BY DEF IInv, RowsInv, LedgerInv, OthersKeep, Covers, LeasedPCs
<1>3. RecordedMeansPaid' /\ DirectExecutedMeansPaid'
  BY DEF IInv, RowsInv, RecordedMeansPaid, DirectExecutedMeansPaid, Recorded, Unpaid, Covers
<1> QED
  BY <1>1, <1>2, <1>3 DEF RowsInv

(* A handler that returns has forgotten its lease; the others stay.        *)
LEMMA Returns ==
    ASSUME TypeInv, NEW r \in Request, Return(r)
    PROVE  pc'[r] = "idle" /\ ~Executing(r)' /\ OthersKeep(r)
BY DEF Return, Goto, OthersKeep, Executing, NoJob, TypeInv, TypeOK

LEMMA InvSnapshot ==
    ASSUME IInv, NEW r \in Request, Snapshot(r)
    PROVE  (\A q \in Request : Handler(q)') /\ RowsInv'
<1> USE DEF IInv
<1>1. CASE StartSnapshot(r)
  <2>1. pc[r] = "idle" /\ pc'[r] = "commit" /\ OthersKeep(r)
    BY <1>1 DEF StartSnapshot, Goto, OthersKeep, TypeInv, TypeOK
  <2>2. job'[r].leased = job[r].leased
    BY <1>1 DEF StartSnapshot, TypeInv, TypeOK, JobRecord
  <2>3. ~Executing(r)'
    BY <2>1, <2>2 DEF Handler, Controlled, Executing, LeasedPCs
  <2> QED
    BY <1>1, <2>1, <2>3, QuietStep DEF StartSnapshot, LeasedPCs
<1>2. CASE CommitSnapshot(r)
  <2>1. LeaseFree /\ Recorded = {} /\ Return(r)
    BY <1>2 DEF CommitSnapshot, SnapshotAllowed
  <2>2. ASSUME NEW q \in Request PROVE ~Executing(q)' /\ pc'[q] \notin LeasedPCs
    <3>1. CASE q = r
      BY <2>1, <3>1, Returns DEF LeasedPCs
    <3>2. CASE q # r
      BY <2>1, <3>2, Returns, LeaseFreeMeansNobody DEF OthersKeep, Executing
    <3> QED
      BY <3>1, <3>2
  <2>3. \A q \in Request : Handler(q)'
    BY <2>2, IdleHandler
  <2>4. LedgerInv'
    <3> SUFFICES ASSUME NEW i \in DOMAIN ledger \ orphans
                 PROVE  /\ ledger[i].kind = "escrow" => fundSig = i
                        /\ ledger[i].kind = "direct" => Covers(i) = {}
      BY <1>2 DEF CommitSnapshot, chainVars, fundVars, LedgerInv, Covers
    <3>1. \A q \in Request : pc[q] \notin {"fundSave", "paySave"}
      BY <2>1, LeaseFreeMeansNobody DEF LeasedPCs
    <3>2. Covers(i) \subseteq Wallet
      BY CoversWallets
    <3>3. ASSUME NEW w \in Covers(i), paidSig[w] = i PROVE FALSE
      BY <2>1, <3>2, <3>3 DEF Recorded, NoSig, TypeInv, TypeOK
    <3> QED
      BY <3>1, <3>3 DEF RowsInv, LedgerInv
  <2>5. RecordedMeansPaid'
    BY <1>2 DEF CommitSnapshot, RecordedMeansPaid, Recorded
  <2>6. DirectExecutedMeansPaid'
    BY <1>2 DEF CommitSnapshot, DirectExecutedMeansPaid
  <2> QED
    BY <2>3, <2>4, <2>5, <2>6 DEF RowsInv
<1>3. CASE RefuseSnapshot(r)
  BY <1>3, Returns, QuietStep DEF RefuseSnapshot, LeasedPCs
<1> QED
  BY <1>1, <1>2, <1>3 DEF Snapshot

LEMMA InvClaim ==
    ASSUME IInv, NEW r \in Request, StartExecute(r) \/ Claim(r) \/ ClaimRefused(r)
    PROVE  (\A q \in Request : Handler(q)') /\ RowsInv'
<1> USE DEF IInv
<1>1. CASE StartExecute(r)
  <2>1. pc[r] = "idle" /\ pc'[r] = "claim" /\ OthersKeep(r)
    BY <1>1 DEF StartExecute, Goto, OthersKeep, TypeInv, TypeOK
  <2>2. job'[r].leased = job[r].leased
    BY <1>1 DEF StartExecute, TypeInv, TypeOK, JobRecord
  <2>3. ~Executing(r)'
    BY <2>1, <2>2 DEF Handler, Controlled, Executing, LeasedPCs
  <2> QED
    BY <1>1, <2>1, <2>3, QuietStep DEF StartExecute, LeasedPCs
<1>2. CASE Claim(r)
  <2>1. LeaseFree /\ status = "SNAPSHOTTED" /\ total = job[r].typed
    BY <1>2 DEF Claim, Claimable
  <2>2. /\ pc'[r] = (IF job[r].mode = "escrow" THEN "fund" ELSE "pay")
        /\ job'[r] = [job[r] EXCEPT !.leased = TRUE]
        /\ OthersKeep(r)
    BY <1>2 DEF Claim, Goto, OthersKeep, TypeInv, TypeOK
  <2>3. /\ job'[r].leased = TRUE /\ job'[r].mode = job[r].mode /\ job'[r].typed = job[r].typed
        /\ job[r].mode \in {"escrow", "direct"}
    BY <2>2 DEF TypeInv, TypeOK, JobRecord
  <2>4. lease' = r /\ live' = TRUE /\ UNCHANGED <<rowVars, fundVars, chainVars>>
    BY <1>2 DEF Claim
  <2>5. Handler(r)'
    BY <2>1, <2>2, <2>3, <2>4 DEF Handler, Controlled, Funding, Paying, Executing, LeasedPCs, rowVars
  <2>6. ASSUME NEW q \in Request, q # r PROVE Handler(q)'
    <3>1. ~Executing(q) /\ pc[q] \notin LeasedPCs
      BY <2>1, LeaseFreeMeansNobody
    <3>2. ~Executing(q)' /\ pc'[q] \notin LeasedPCs
      BY <2>2, <2>6, <3>1 DEF OthersKeep, Executing
    <3> QED
      BY <3>2, IdleHandler
  <2>7. RowsInv'
    <3>1. \A q \in Request : pc[q] \notin LeasedPCs
      BY <2>1, LeaseFreeMeansNobody
    <3>2. LedgerInv'
      BY <2>4, <3>1 DEF RowsInv, LedgerInv, Covers, LeasedPCs, rowVars, fundVars, chainVars
    <3> QED
      BY <2>4, <3>2 DEF RowsInv, RecordedMeansPaid, DirectExecutedMeansPaid, Recorded, Unpaid, Covers,
                        rowVars, fundVars, chainVars
  <2> QED
    BY <2>5, <2>6, <2>7
<1>3. CASE ClaimRefused(r)
  BY <1>3, Returns, QuietStep DEF ClaimRefused, LeasedPCs
<1> QED
  BY <1>1, <1>2, <1>3

(* The steps of a handler that holds the lease.                            *)
LEMMA InvFund ==
    ASSUME IInv, NEW r \in Request, FundLoad(r) \/ FundSave(r)
    PROVE  (\A q \in Request : Handler(q)') /\ RowsInv'
<1> USE DEF IInv
<1>1. Executing(r) /\ Handler(r) /\ job[r].mode = "escrow" /\ lease = r
  BY DEF FundLoad, FundSave, Handler, Controlled, LeasedPCs
<1>2. \A q \in Request \ {r} : pc[q] \notin LeasedPCs
  BY <1>1, LeaseExcludes
<1>3. CASE FundLoad(r)
  <2>1. /\ OthersKeep(r)
        /\ job'[r].leased = job[r].leased /\ job'[r].mode = job[r].mode
        /\ job'[r].typed = job[r].typed
    BY <1>3 DEF FundLoad, Goto, OthersKeep, TypeInv, TypeOK, JobRecord
  <2>2. UNCHANGED <<rowVars, fundVars, leaseVars, chainVars>>
    BY <1>3 DEF FundLoad
  <2>3. /\ job'[r].rows = alloc
        /\ \/ pc'[r] = "mark" /\ job'[r].sig = fundSig /\ fundSig # NoSig
           \/ pc'[r] = "fundSave" /\ job'[r].sig = NoTransfer /\ fundSig = NoSig /\ Unpaid = {}
           \/ pc'[r] = "fundSend" /\ fundSig = NoSig /\ job'[r].todo = Unpaid
           \/ pc'[r] = "release"
    BY <1>3 DEF FundLoad, Goto, TypeInv, TypeOK, JobRecord
  <2>4. Controlled(r)'
    BY <1>1, <2>1, <2>2, <2>3 DEF Handler, Controlled, Executing, LeasedPCs, rowVars, leaseVars
  <2>5. Funding(r)' /\ Paying(r)'
    <3>1. Unpaid' = Unpaid /\ alloc' = alloc /\ fundSig' = fundSig
      BY <2>2 DEF Unpaid, rowVars, fundVars
    <3> QED
      BY <1>1, <2>1, <2>3, <3>1 DEF Funding, Paying
  <2>6. LedgerInv'
    BY <1>2, <1>3, <2>1, <2>2
       DEF FundLoad, RowsInv, LedgerInv, Covers, OthersKeep, LeasedPCs, rowVars, fundVars, chainVars
  <2> QED
    BY <1>1, <2>1, <2>2, <2>4, <2>5, <2>6, LoneHandler
       DEF Handler, RowsInv, RecordedMeansPaid, DirectExecutedMeansPaid, Recorded, Unpaid, Covers,
           rowVars, fundVars, chainVars
<1>4. CASE FundSave(r)
  <2>1. pc[r] = "fundSave" /\ pc'[r] = "mark" /\ OthersKeep(r) /\ job'[r] = job[r]
    BY <1>4 DEF FundSave, Goto, OthersKeep, TypeInv, TypeOK
  <2>2. /\ fundSig' = job[r].sig /\ fundSig' # NoSig /\ payoutMode' = "ESCROW"
        /\ UNCHANGED <<rowVars, leaseVars, chainVars>>
    BY <1>1, <1>4 DEF FundSave, InFlightInv, NoSig, NoTransfer, TypeInv, TypeOK
  <2>3. Controlled(r)'
    BY <1>1, <2>1, <2>2 DEF Handler, Controlled, Executing, LeasedPCs, rowVars, leaseVars
  <2>4. Funding(r)' /\ Paying(r)'
    BY <1>1, <2>1, <2>2 DEF Funding, Paying
  <2>5. LedgerInv'
    <3> SUFFICES ASSUME NEW i \in DOMAIN ledger \ orphans
                 PROVE  /\ ledger[i].kind = "escrow" => fundSig' = i
                        /\ ledger[i].kind = "direct" => \A w \in Covers(i) : paidSig[w] = i
      BY <2>2 DEF LedgerInv, Covers, rowVars, chainVars
    <3>1. fundSig = NoSig /\ i # NoSig
      BY <1>1, <2>1 DEF Handler, Funding, NoSig, TypeInv, TypeOK
    <3> QED
      BY <1>2, <2>1, <2>2, <3>1 DEF RowsInv, LedgerInv, LeasedPCs
  <2>6. RecordedMeansPaid' /\ DirectExecutedMeansPaid'
    BY <2>2 DEF RowsInv, RecordedMeansPaid, DirectExecutedMeansPaid, Recorded, Covers, rowVars, chainVars
  <2> QED
    BY <1>1, <2>1, <2>3, <2>4, <2>5, <2>6, LoneHandler DEF Handler, RowsInv
<1> QED
  BY <1>3, <1>4

LEMMA InvPay ==
    ASSUME IInv, NEW r \in Request, PayLoad(r) \/ PaySave(r) \/ Renew(r)
    PROVE  (\A q \in Request : Handler(q)') /\ RowsInv'
<1> USE DEF IInv
<1>1. Executing(r) /\ Handler(r) /\ job[r].mode = "direct" /\ lease = r
  BY DEF PayLoad, PaySave, Renew, Handler, Controlled, LeasedPCs
<1>2. \A q \in Request \ {r} : pc[q] \notin LeasedPCs
  BY <1>1, LeaseExcludes
<1>3. CASE PayLoad(r)
  <2>1. /\ OthersKeep(r)
        /\ job'[r].leased = job[r].leased /\ job'[r].mode = job[r].mode
        /\ job'[r].typed = job[r].typed
        /\ job'[r].rows = alloc /\ job'[r].gen = gen /\ job'[r].todo = Unpaid
    BY <1>3 DEF PayLoad, Goto, OthersKeep, TypeInv, TypeOK, JobRecord
  <2>2. UNCHANGED <<rowVars, fundVars, leaseVars, chainVars>>
    BY <1>3 DEF PayLoad
  <2>3. \/ pc'[r] = "mark" /\ Unpaid = {}
        \/ pc'[r] = "paySend"
        \/ pc'[r] = "release"
    BY <1>3 DEF PayLoad, Goto, TypeInv, TypeOK
  <2>4. Unpaid' = Unpaid
    BY <2>2 DEF Unpaid, rowVars
  <2>5. Controlled(r)'
    BY <1>1, <2>1, <2>2, <2>3 DEF Handler, Controlled, Executing, LeasedPCs, rowVars, leaseVars
  <2>6. Funding(r)' /\ Paying(r)'
    BY <1>1, <2>1, <2>2, <2>3, <2>4 DEF Funding, Paying, rowVars
  <2>7. LedgerInv'
    BY <1>2, <1>3, <2>1, <2>2
       DEF PayLoad, RowsInv, LedgerInv, Covers, OthersKeep, LeasedPCs, rowVars, fundVars, chainVars
  <2> QED
    BY <1>1, <2>1, <2>2, <2>4, <2>5, <2>6, <2>7, LoneHandler
       DEF Handler, RowsInv, RecordedMeansPaid, DirectExecutedMeansPaid, Recorded, Covers,
           rowVars, fundVars, chainVars
<1>4. CASE PaySave(r)
  <2>1. pc[r] = "paySave" /\ pc'[r] = "renew" /\ OthersKeep(r) /\ job'[r] = job[r]
    BY <1>4 DEF PaySave, Goto, OthersKeep, TypeInv, TypeOK
  <2>2. UNCHANGED <<status, total, alloc, gen, fundVars, leaseVars, chainVars>>
    BY <1>4 DEF PaySave
  <2>3. /\ gen = job[r].gen /\ alloc = job[r].rows
        /\ Unpaid = job[r].todo /\ job[r].batch \subseteq Unpaid
        /\ job[r].sig \in DOMAIN ledger \ orphans /\ job[r].sig # NoSig
        /\ ledger[job[r].sig] = Transfer("direct", job[r].batch, alloc)
    BY <1>1, <2>1 DEF Handler, Paying, InFlightInv, NoSig, TypeInv, TypeOK
  <2>4. /\ ledger[job[r].sig].kind = "direct" /\ Covers(job[r].sig) = job[r].batch
        /\ \A w \in job[r].batch : ledger[job[r].sig].pays[w] = alloc[w]
    BY <2>3 DEF Transfer, Covers
  <2>5. \A w \in Wallet : paidSig'[w] = IF w \in job[r].batch THEN job[r].sig ELSE paidSig[w]
    BY <1>4, <2>3 DEF PaySave, Unpaid
  <2>6. Unpaid' = Unpaid \ job[r].batch
    BY <2>2, <2>3, <2>5 DEF Unpaid
  <2>7. Controlled(r)'
    BY <1>1, <2>1, <2>2 DEF Handler, Controlled, Executing, LeasedPCs, leaseVars
  <2>8. Funding(r)' /\ Paying(r)'
    BY <2>1, <2>2, <2>3, <2>6 DEF Funding, Paying
  <2>9. LedgerInv'
    <3> SUFFICES ASSUME NEW i \in DOMAIN ledger \ orphans
                 PROVE  /\ ledger[i].kind = "escrow" => fundSig = i
                        /\ ledger[i].kind = "direct" => \A w \in Covers(i) : paidSig'[w] = i
      BY <2>2 DEF LedgerInv, Covers, fundVars, chainVars
    <3>1. ASSUME NEW w \in Covers(i), ledger[i].kind = "direct" PROVE paidSig'[w] = i
      <4>1. w \in Wallet /\ i # NoSig
        BY CoversWallets DEF NoSig, TypeInv, TypeOK
      <4>2. CASE paidSig[w] = i
        BY <2>3, <2>5, <4>1, <4>2 DEF Unpaid
      <4>3. CASE \E q \in Request : pc[q] = "paySave" /\ job[q].sig = i /\ w \in job[q].batch
        BY <1>2, <2>5, <4>1, <4>3 DEF LeasedPCs
      <4> QED
        BY <3>1, <4>2, <4>3 DEF RowsInv, LedgerInv
    <3> QED
      BY <1>2, <2>1, <3>1 DEF RowsInv, LedgerInv, LeasedPCs
  <2>10. RecordedMeansPaid'
    BY <2>2, <2>3, <2>4, <2>5 DEF RowsInv, RecordedMeansPaid, Recorded, Covers, chainVars
  <2>11. DirectExecutedMeansPaid'
    BY <1>1, <2>2 DEF Handler, Controlled, DirectExecutedMeansPaid
  <2> QED
    BY <1>1, <2>1, <2>7, <2>8, <2>9, <2>10, <2>11, LoneHandler DEF Handler, RowsInv
<1>5. CASE Renew(r)
  <2>1. /\ pc[r] = "renew" /\ OthersKeep(r) /\ live' = TRUE
        /\ job'[r].leased = job[r].leased /\ job'[r].mode = job[r].mode
        /\ job'[r].typed = job[r].typed
        /\ job'[r].rows = job[r].rows /\ job'[r].gen = job[r].gen
        /\ job'[r].todo = job[r].todo \ job[r].batch
    BY <1>1, <1>5 DEF Renew, Goto, OthersKeep, TypeInv, TypeOK, JobRecord
  <2>2. UNCHANGED <<rowVars, fundVars, lease, chainVars>>
    BY <1>5 DEF Renew
  <2>3. \/ pc'[r] = "mark" /\ job[r].todo \ job[r].batch = {}
        \/ pc'[r] = "paySend"
    BY <1>1, <1>5 DEF Renew, Goto, TypeInv, TypeOK
  <2>4. Unpaid' = Unpaid /\ Unpaid = job[r].todo \ job[r].batch
    BY <1>1, <2>1, <2>2 DEF Unpaid, rowVars, Handler, Paying
  <2>5. Controlled(r)'
    BY <1>1, <2>1, <2>2, <2>3 DEF Handler, Controlled, Executing, LeasedPCs, rowVars
  <2>6. Funding(r)' /\ Paying(r)'
    BY <1>1, <2>1, <2>2, <2>3, <2>4 DEF Handler, Funding, Paying, rowVars
  <2>7. LedgerInv'
    BY <1>2, <2>1, <2>2
       DEF RowsInv, LedgerInv, Covers, OthersKeep, LeasedPCs, rowVars, fundVars, chainVars
  <2> QED
    BY <1>1, <2>1, <2>2, <2>4, <2>5, <2>6, <2>7, LoneHandler
       DEF Handler, RowsInv, RecordedMeansPaid, DirectExecutedMeansPaid, Recorded, Covers,
           rowVars, fundVars, chainVars
<1> QED
  BY <1>3, <1>4, <1>5

(* A transfer that lands, whether or not the handler learns of it, leaves  *)
(* what the rows say of earlier transfers as it was.                       *)
LEMMA LedgerGrows ==
    ASSUME IInv, NEW e \in Transfers, ledger' = Append(ledger, e), UNCHANGED rowVars,
           orphans' \in {orphans, orphans \cup {Len(ledger) + 1}}
    PROVE  /\ RecordedMeansPaid'
           /\ Len(ledger) + 1 \notin DOMAIN ledger
           /\ DOMAIN ledger' = DOMAIN ledger \cup {Len(ledger) + 1}
           /\ \A i \in DOMAIN ledger : ledger'[i] = ledger[i] /\ (i \in orphans' <=> i \in orphans)
           /\ ledger'[Len(ledger) + 1] = e
<1>1. ledger \in Seq(Transfers)
  BY DEF IInv, TypeInv, TypeOK
<1>2. /\ Len(ledger) + 1 \notin DOMAIN ledger
      /\ DOMAIN ledger' = DOMAIN ledger \cup {Len(ledger) + 1}
      /\ \A i \in DOMAIN ledger : ledger'[i] = ledger[i]
      /\ ledger'[Len(ledger) + 1] = e
  BY <1>1, LedgerAppend
<1>3. \A i \in DOMAIN ledger : i \in orphans' <=> i \in orphans
  BY <1>2
<1>4. RecordedMeansPaid'
  BY <1>2, <1>3 DEF IInv, RowsInv, RecordedMeansPaid, Recorded, Covers, rowVars
<1> QED
  BY <1>2, <1>3, <1>4

LEMMA InvTransfer ==
    ASSUME IInv, NEW r \in Request, TransferLands(r) \/ TransferFails(r) \/ TransferUnknown(r)
    PROVE  (\A q \in Request : Handler(q)') /\ RowsInv'
<1> USE DEF IInv
<1>1. /\ pc[r] \in {"fundSend", "paySend"} /\ Executing(r) /\ Handler(r)
      /\ pc[r] = "fundSend" => job[r].mode = "escrow"
      /\ pc[r] = "paySend" => job[r].mode = "direct"
      /\ status = "SNAPSHOTTED"
  BY DEF TransferLands, TransferFails, TransferUnknown, Handler, Controlled, LeasedPCs
<1>2. /\ \A q \in Request \ {r} : pc[q] \notin LeasedPCs
      /\ \A q \in Request : pc[q] \notin {"fundSave", "paySave"}
  BY <1>1, LeaseExcludes DEF LeasedPCs
<1>3. UNCHANGED <<rowVars, fundVars, leaseVars>>
  BY DEF TransferLands, TransferFails, TransferUnknown
<1>4. DirectExecutedMeansPaid' /\ Unpaid' = Unpaid
  BY <1>1, <1>3 DEF DirectExecutedMeansPaid, Unpaid, rowVars
<1>5. ASSUME NEW b \in Outgoing(r)
      PROVE  b \subseteq job[r].todo /\ Transfer(job[r].mode, b, job[r].rows) \in Transfers
  BY OutgoingFromList, TransferTyped DEF TypeInv, TypeOK, JobRecord
<1>6. CASE TransferLands(r)
  <2>1. PICK b \in Outgoing(r) :
           /\ ledger' = Append(ledger, Transfer(job[r].mode, b, job[r].rows))
           /\ job' = [job EXCEPT ![r].batch = b, ![r].sig = Len(ledger) + 1]
    BY <1>6 DEF TransferLands
  <2> DEFINE new == Len(ledger) + 1
             e == Transfer(job[r].mode, b, job[r].rows)
  <2>2. e \in Transfers /\ b \subseteq job[r].todo
    BY <1>5
  <2>3. /\ RecordedMeansPaid'
        /\ new \notin DOMAIN ledger
        /\ DOMAIN ledger' = DOMAIN ledger \cup {new}
        /\ \A i \in DOMAIN ledger : ledger'[i] = ledger[i]
        /\ ledger'[new] = e
        /\ orphans' = orphans
    BY <1>3, <1>6, <2>1, <2>2, LedgerGrows DEF TransferLands
  <2>4. /\ OthersKeep(r)
        /\ pc'[r] = Saving(pc[r])
        /\ job'[r].leased = job[r].leased /\ job'[r].mode = job[r].mode
        /\ job'[r].typed = job[r].typed
        /\ job'[r].rows = job[r].rows /\ job'[r].gen = job[r].gen
        /\ job'[r].todo = job[r].todo /\ job'[r].batch = b /\ job'[r].sig = new
    <3>1. job' = [job EXCEPT ![r] = [job[r] EXCEPT !.batch = b, !.sig = new]]
      BY <2>1 DEF TypeInv, TypeOK
    <3>2. pc' = [pc EXCEPT ![r] = Saving(pc[r])]
      BY <1>6 DEF TransferLands, Goto
    <3>3. job[r] \in JobRecord /\ job'[r] = [job[r] EXCEPT !.batch = b, !.sig = new]
      BY <3>1 DEF TypeInv, TypeOK
    <3> HIDE DEF new, e
    <3>4. OthersKeep(r) /\ pc'[r] = Saving(pc[r])
      BY <3>1, <3>2 DEF OthersKeep, TypeInv, TypeOK
    <3> QED
      BY <3>3, <3>4 DEF JobRecord
  <2>5. new \notin orphans
    BY <2>3 DEF TypeInv, TypeOK
  <2>6. ledger'[new].kind = job[r].mode
    BY <2>3 DEF Transfer
  <2> HIDE DEF new, e
  <2>7. Controlled(r)'
    BY <1>1, <1>3, <2>4 DEF Handler, Controlled, Executing, Saving, LeasedPCs, rowVars, leaseVars
  <2>8. Funding(r)'
    <3>1. CASE pc[r] = "fundSend"
      <4>1. b = Unpaid /\ job[r].rows = alloc /\ fundSig = NoSig /\ job[r].mode = "escrow"
        BY <1>1, <2>1, <3>1 DEF Outgoing, Handler, Funding
      <4>2. ledger'[new] = Transfer("escrow", Unpaid', alloc') /\ alloc' = job'[r].rows /\ fundSig' = NoSig
        BY <1>3, <1>4, <2>3, <2>4, <4>1 DEF e, rowVars, fundVars
      <4>3. new # NoTransfer
        BY DEF new, NoTransfer, TypeInv, TypeOK
      <4> QED
        BY <2>3, <2>4, <2>5, <3>1, <4>2, <4>3 DEF Funding, Saving
    <3> QED
      BY <1>1, <2>4, <3>1 DEF Funding, Saving
  <2>9. Paying(r)'
    BY <1>1, <1>3, <1>4, <2>2, <2>3, <2>4, <2>5 DEF Handler, Paying, Saving, Transfer, rowVars, e
  <2>10. LedgerInv'
    <3> SUFFICES ASSUME NEW i \in DOMAIN ledger' \ orphans'
                 PROVE  /\ ledger'[i].kind = "escrow" =>
                              fundSig' = i \/ \E q \in Request : pc'[q] = "fundSave" /\ job'[q].sig = i
                        /\ ledger'[i].kind = "direct" =>
                              \A w \in Covers(i)' :
                                 \/ paidSig'[w] = i
                                 \/ \E q \in Request : pc'[q] = "paySave" /\ job'[q].sig = i /\ w \in job'[q].batch
      BY DEF LedgerInv
    <3>1. CASE i \in DOMAIN ledger
      BY <1>2, <1>3, <2>3, <3>1 DEF RowsInv, LedgerInv, Covers, rowVars, fundVars
    <3>2. CASE i = new
      <4>1. Covers(i)' = b
        BY <2>3, <3>2 DEF Covers, e, Transfer
      <4> QED
        BY <1>1, <2>4, <2>6, <3>2, <4>1 DEF Saving
    <3> QED
      BY <2>3, <3>1, <3>2
  <2> QED
    BY <1>1, <1>4, <2>3, <2>4, <2>7, <2>8, <2>9, <2>10, LoneHandler DEF Handler, RowsInv
<1>7. ASSUME TransferFails(r) \/ TransferUnknown(r)
      PROVE  \A q \in Request : Handler(q)'
  <2>1. pc'[r] = "release" /\ job'[r] = job[r] /\ OthersKeep(r)
    BY <1>7 DEF TransferFails, TransferUnknown, Goto, OthersKeep, TypeInv, TypeOK
  <2>2. Controlled(r)'
    BY <1>1, <1>3, <2>1 DEF Handler, Controlled, Executing, LeasedPCs, rowVars, leaseVars
  <2>3. Funding(r)' /\ Paying(r)'
    BY <2>1 DEF Funding, Paying
  <2> QED
    BY <1>1, <2>1, <2>2, <2>3, LoneHandler DEF Handler
<1>8. CASE TransferFails(r)
  <2>1. UNCHANGED chainVars
    BY <1>8 DEF TransferFails
  <2>2. LedgerInv'
    BY <1>2, <1>3, <2>1 DEF RowsInv, LedgerInv, Covers, rowVars, fundVars, chainVars
  <2>3. RecordedMeansPaid'
    BY <1>3, <2>1 DEF RowsInv, RecordedMeansPaid, Recorded, Covers, rowVars, chainVars
  <2> QED
    BY <1>4, <1>7, <1>8, <2>2, <2>3 DEF RowsInv
<1>9. CASE TransferUnknown(r)
  <2>1. PICK b \in Outgoing(r) : ledger' = Append(ledger, Transfer(job[r].mode, b, job[r].rows))
    BY <1>9 DEF TransferUnknown
  <2>2. /\ orphans' = orphans \cup {Len(ledger) + 1}
        /\ Transfer(job[r].mode, b, job[r].rows) \in Transfers
    BY <1>5, <1>9 DEF TransferUnknown
  <2>3. /\ RecordedMeansPaid'
        /\ DOMAIN ledger' = DOMAIN ledger \cup {Len(ledger) + 1}
        /\ \A i \in DOMAIN ledger : ledger'[i] = ledger[i] /\ (i \in orphans' <=> i \in orphans)
    BY <1>3, <2>1, <2>2, LedgerGrows
  <2>4. DOMAIN ledger' \ orphans' = DOMAIN ledger \ orphans
    BY <2>2, <2>3
  <2>5. LedgerInv'
    BY <1>2, <1>3, <2>3, <2>4 DEF RowsInv, LedgerInv, Covers, rowVars, fundVars
  <2> QED
    BY <1>4, <1>7, <1>9, <2>3, <2>5 DEF RowsInv
<1> QED
  BY <1>6, <1>8, <1>9

LEMMA InvFinish ==
    ASSUME IInv, NEW r \in Request, Mark(r) \/ Release(r)
    PROVE  (\A q \in Request : Handler(q)') /\ RowsInv'
<1> USE DEF IInv
<1>1. /\ Executing(r) /\ Handler(r) /\ pc[r] \in {"mark", "release"}
      /\ Return(r) /\ OthersKeep(r) /\ ~Executing(r)' /\ pc'[r] = "idle"
  BY Returns DEF Mark, Release, Handler, Controlled, LeasedPCs
<1>2. \A q \in Request : pc[q] \notin {"fundSave", "paySave"}
  BY <1>1, LeaseExcludes DEF LeasedPCs
<1>3. \A q \in Request : Handler(q)'
  BY <1>1, IdleHandler, LoneHandler DEF LeasedPCs
<1>4. UNCHANGED <<total, alloc, gen, paidSig, chainVars>>
  BY DEF Mark, Release, rowVars
<1>5. fundSig' = fundSig
  BY <1>1 DEF Mark, Release, fundVars, Handler, Funding
<1>6. LedgerInv'
  BY <1>2, <1>4, <1>5 DEF RowsInv, LedgerInv, Covers, chainVars
<1>7. RecordedMeansPaid'
  BY <1>4 DEF RowsInv, RecordedMeansPaid, Recorded, Covers, chainVars
<1>8. Unpaid' = Unpaid
  BY <1>4 DEF Unpaid
<1>9. CASE Mark(r)
  <2> job[r].mode \in {"escrow", "direct"}
    BY DEF TypeInv, TypeOK, JobRecord
  <2>1. job[r].mode = "escrow" \/ Unpaid = {}
    BY <1>1, <1>9 DEF Mark, Handler, Paying
  <2>2. DirectExecutedMeansPaid'
    BY <1>8, <1>9, <2>1 DEF Mark, DirectExecutedMeansPaid
  <2> QED
    BY <1>3, <1>6, <1>7, <2>2 DEF RowsInv
<1>10. CASE Release(r)
  BY <1>3, <1>6, <1>7, <1>8, <1>10 DEF Release, RowsInv, DirectExecutedMeansPaid, rowVars, fundVars
<1> QED
  BY <1>9, <1>10

LEMMA InvExecute ==
    ASSUME IInv, NEW r \in Request, Execute(r)
    PROVE  (\A q \in Request : Handler(q)') /\ RowsInv'
BY InvClaim, InvFund, InvPay, InvTransfer, InvFinish DEF Execute

(* Giving up on the transfer in flight leaves every recorded one recorded. *)
LEMMA GivingUp ==
    ASSUME IInv, NEW r \in Request, Executing(r),
           orphans' = orphans \cup InFlight(r),
           UNCHANGED <<rowVars, fundVars, leaseVars, ledger>>
    PROVE  RowsInv'
<1> USE DEF IInv, rowVars, fundVars
<1>1. Handler(r) /\ \A q \in Request \ {r} : pc[q] \notin LeasedPCs
  BY LeaseExcludes
<1>2. LedgerInv'
  <2> SUFFICES ASSUME NEW i \in DOMAIN ledger \ orphans, i \notin InFlight(r)
               PROVE  /\ ledger[i].kind = "escrow" => fundSig = i
                      /\ ledger[i].kind = "direct" => \A w \in Covers(i) : paidSig[w] = i
    BY DEF LedgerInv, Covers
  <2>1. i # NoTransfer
    BY DEF NoTransfer, TypeInv, TypeOK
  <2> QED
    BY <1>1, <2>1 DEF RowsInv, LedgerInv, InFlight, LeasedPCs
<1>3. RecordedMeansPaid'
  <2> SUFFICES ASSUME NEW w \in Recorded PROVE paidSig[w] \notin InFlight(r)
    BY DEF RowsInv, RecordedMeansPaid, Recorded, Covers
  <2>1. /\ ledger[paidSig[w]].kind # "escrow" /\ w \in Covers(paidSig[w])
        /\ w \in Wallet /\ paidSig[w] # NoSig
    BY DEF RowsInv, RecordedMeansPaid, Recorded
  <2>2. CASE pc[r] = "fundSave" /\ job[r].sig # NoTransfer
    BY <1>1, <2>1, <2>2 DEF Handler, Funding, InFlight, Transfer
  <2>3. CASE pc[r] = "paySave"
    <3>1. Covers(job[r].sig) = job[r].batch
      BY <1>1, <2>3 DEF Handler, Paying, Transfer, Covers
    <3>2. job[r].batch \subseteq Unpaid
      BY <1>1, <2>3 DEF Handler, Paying
    <3> QED
      BY <2>1, <2>3, <3>1, <3>2 DEF InFlight, Unpaid
  <2> QED
    BY <2>2, <2>3 DEF InFlight
<1>4. DirectExecutedMeansPaid'
  BY DEF RowsInv, DirectExecutedMeansPaid, Unpaid
<1> QED
  BY <1>2, <1>3, <1>4 DEF RowsInv

LEMMA InvFault ==
    ASSUME IInv, NEW r \in Request, Fault(r)
    PROVE  (\A q \in Request : Handler(q)') /\ RowsInv'
<1> USE DEF IInv
<1>1. CASE TransferUnknown(r)
  BY <1>1, InvTransfer
<1>2. CASE Crash(r)
  <2>1. pc'[r] = "idle" /\ ~Executing(r)' /\ OthersKeep(r)
    BY <1>2, Returns DEF Crash
  <2>2. CASE Executing(r)
    BY <1>2, <2>1, <2>2, GivingUp, LoneHandler, IdleHandler DEF Crash, LeasedPCs
  <2>3. CASE ~Executing(r)
    <3>1. pc[r] \notin LeasedPCs
      BY <2>3 DEF Handler, Controlled
    <3>2. orphans' = orphans
      BY <1>2, <3>1 DEF Crash, InFlight, LeasedPCs
    <3> QED
      BY <1>2, <2>1, <3>1, <3>2, QuietStep DEF Crash, LeasedPCs, chainVars
  <2> QED
    BY <2>2, <2>3
<1>3. CASE DatabaseError(r)
  <2>1. Executing(r) /\ Handler(r)
    BY <1>3 DEF DatabaseError, Handler, Controlled, LeasedPCs
  <2>2. pc'[r] = "release" /\ OthersKeep(r) /\ job'[r] = job[r]
    BY <1>3 DEF DatabaseError, Goto, OthersKeep, TypeInv, TypeOK
  <2>3. UNCHANGED <<rowVars, fundVars, leaseVars, ledger>>
    BY <1>3 DEF DatabaseError
  <2>4. Controlled(r)'
    BY <2>1, <2>2, <2>3 DEF Handler, Controlled, Executing, LeasedPCs, rowVars, leaseVars
  <2>5. Funding(r)' /\ Paying(r)'
    BY <2>2 DEF Funding, Paying
  <2> QED
    BY <1>3, <2>1, <2>2, <2>4, <2>5, GivingUp, LoneHandler DEF DatabaseError, Handler
<1> QED
  BY <1>1, <1>2, <1>3 DEF Fault

LEMMA InvExpire ==
    ASSUME IInv, MaxDurationEnforced, Expire
    PROVE  (\A q \in Request : Handler(q)') /\ RowsInv'
<1> USE DEF IInv, rowVars, fundVars, chainVars
<1>1. UNCHANGED <<lease, rowVars, fundVars, chainVars, pc, job>>
  BY DEF Expire
<1>2. ASSUME NEW q \in Request PROVE Handler(q)'
  <2>1. ~Executing(q)
    BY DEF Expire, Handler, Controlled
  <2>2. pc[q] \notin LeasedPCs
    BY <2>1 DEF Handler, Controlled
  <2> QED
    BY <1>1, <2>1, <2>2, IdleHandler DEF Executing
<1>3. LedgerInv'
  BY <1>1 DEF RowsInv, LedgerInv, Covers
<1>4. RecordedMeansPaid' /\ DirectExecutedMeansPaid'
  BY <1>1 DEF RowsInv, RecordedMeansPaid, DirectExecutedMeansPaid, Recorded, Unpaid, Covers
<1> QED
  BY <1>2, <1>3, <1>4 DEF RowsInv

LEMMA InvInit == Init => IInv
<1> SUFFICES ASSUME Init PROVE IInv
  OBVIOUS
<1>1. \A r \in Request : pc[r] = "idle" /\ job[r].leased = FALSE
  BY DEF Init, NoJob
<1>2. \A r \in Request : Handler(r)
  BY <1>1 DEF Handler, Controlled, Funding, Paying, Executing, LeasedPCs
<1>3. RowsInv
  BY DEF Init, RowsInv, LedgerInv, RecordedMeansPaid, DirectExecutedMeansPaid, Recorded
<1> QED
  BY TypeInit, <1>2, <1>3 DEF IInv

LEMMA InvStep ==
    ASSUME MaxDurationEnforced
    PROVE  IInv /\ [Next]_vars => IInv'
<1> SUFFICES ASSUME IInv, [Next]_vars PROVE IInv'
  OBVIOUS
<1>1. TypeInv'
  BY TypeStep DEF IInv
<1>2. (\A q \in Request : Handler(q)') /\ RowsInv'
  <2>1. CASE \E r \in Request : Snapshot(r) \/ Execute(r) \/ Fault(r)
    BY <2>1, InvSnapshot, InvExecute, InvFault
  <2>2. CASE Expire
    BY <2>2, InvExpire
  <2>3. CASE Done \/ UNCHANGED vars
    BY <2>3 DEF Done, IInv, Handler, Controlled, Funding, Paying, Executing,
                RowsInv, LedgerInv, RecordedMeansPaid, DirectExecutedMeansPaid,
                Recorded, Unpaid, Covers, Transfer,
                vars, rowVars, fundVars, leaseVars, chainVars
  <2> QED
    BY <2>1, <2>2, <2>3 DEF Next
<1> QED
  BY <1>1, <1>2 DEF IInv

-----------------------------------------------------------------------------
(* What the invariant implies.                                             *)

LEMMA Inductive ==
    ASSUME MaxDurationEnforced
    PROVE  Spec => []IInv
<1>1. IInv /\ [Next]_vars => IInv'
  BY InvStep
<1> QED
  BY InvInit, <1>1, PTL DEF Spec

(* Where the platform ends a request before its lease runs out, a handler  *)
(* past its claim holds a live lease: two handlers never pay at once.      *)
THEOREM LeaseHolderPays ==
    ASSUME MaxDurationEnforced
    PROVE  Spec => []OnlyLeaseHolderPays
<1>1. IInv => OnlyLeaseHolderPays
  BY DEF IInv, Handler, Controlled, OnlyLeaseHolderPays
<1> QED
  BY Inductive, <1>1, PTL

(* No interleaving of snapshots lets a handler pay a total other than the  *)
(* one its founder typed.                                                  *)
THEOREM ConfirmedTotal ==
    ASSUME MaxDurationEnforced
    PROVE  Spec => []ConfirmedTotalStands
<1>1. IInv => ConfirmedTotalStands
  BY DEF IInv, Handler, Controlled, ConfirmedTotalStands
<1> QED
  BY Inductive, <1>1, PTL

(* A signature on a row is proof that the row was paid.                    *)
THEOREM RecordsAreHonest ==
    ASSUME MaxDurationEnforced
    PROVE  Spec => []RecordedMeansPaid
<1>1. IInv => RecordedMeansPaid
  BY DEF IInv, RowsInv
<1> QED
  BY Inductive, <1>1, PTL

(* A distribution closed in direct mode left no payable row unsigned.      *)
THEOREM DirectExecutedPaid ==
    ASSUME MaxDurationEnforced
    PROVE  Spec => []DirectExecutedMeansPaid
<1>1. IInv => DirectExecutedMeansPaid
  BY DEF IInv, RowsInv
<1> QED
  BY Inductive, <1>1, PTL

(* The ledger grows by the transfer of one handler, or not at all. *)
LEMMA LedgerStep ==
    ASSUME [Next]_vars
    PROVE  \/ ledger' = ledger
           \/ \E r \in Request :
                 /\ TransferLands(r) \/ TransferUnknown(r)
                 /\ \E b \in Outgoing(r) :
                       ledger' = Append(ledger, Transfer(job[r].mode, b, job[r].rows))
<1>1. CASE UNCHANGED vars \/ Expire \/ Done
  BY <1>1 DEF vars, Expire, Done, chainVars
<1>2. ASSUME NEW r \in Request, Snapshot(r) PROVE ledger' = ledger
  BY <1>2 DEF Snapshot, StartSnapshot, CommitSnapshot, RefuseSnapshot, chainVars
<1>3. ASSUME NEW r \in Request, Execute(r) \/ Fault(r), ~TransferLands(r), ~TransferUnknown(r)
      PROVE  ledger' = ledger
  BY <1>3 DEF Execute, Fault, StartExecute, Claim, ClaimRefused, FundLoad, FundSave, PayLoad, PaySave,
     Renew, TransferFails, Mark, Release, Crash, DatabaseError, chainVars
<1>4. ASSUME NEW r \in Request, TransferLands(r) \/ TransferUnknown(r)
      PROVE  \E b \in Outgoing(r) : ledger' = Append(ledger, Transfer(job[r].mode, b, job[r].rows))
  BY <1>4 DEF TransferLands, TransferUnknown
<1> QED
  BY <1>1, <1>2, <1>3, <1>4 DEF Next

(* These requests alone make no claims. *)
NoClaims == \A i \in DOMAIN ledger : ledger[i].kind # "claim"

LEMMA NoClaimsInductive == Spec => [](TypeInv /\ NoClaims)
<1>1. Init => NoClaims
  BY DEF Init, NoClaims
<1>2. TypeInv /\ NoClaims /\ [Next]_vars => NoClaims'
  <2> SUFFICES ASSUME TypeInv, NoClaims, [Next]_vars PROVE NoClaims'
    OBVIOUS
  <2>1. CASE ledger' = ledger
    BY <2>1 DEF NoClaims
  <2>2. ASSUME NEW r \in Request, NEW b \in Outgoing(r),
               ledger' = Append(ledger, Transfer(job[r].mode, b, job[r].rows))
        PROVE  NoClaims'
    <3>1. ledger \in Seq(Transfers) /\ job[r].mode \in {"escrow", "direct"}
      BY DEF TypeInv, TypeOK, JobRecord
    <3>2. b \in SUBSET Wallet /\ job[r].rows \in AllocationTables
      BY OutgoingFromList, JobTyped DEF JobRecord
    <3>3. /\ Transfer(job[r].mode, b, job[r].rows) \in Transfers
          /\ Transfer(job[r].mode, b, job[r].rows).kind # "claim"
      BY <3>1, <3>2, TransferTyped DEF Transfer
    <3> DEFINE e == Transfer(job[r].mode, b, job[r].rows)
    <3>4. /\ DOMAIN ledger' = DOMAIN ledger \cup {Len(ledger) + 1}
          /\ \A i \in DOMAIN ledger : ledger'[i] = ledger[i]
          /\ ledger'[Len(ledger) + 1] = e
      BY <2>2, <3>1, <3>3, LedgerAppend
    <3> QED
      BY <3>3, <3>4 DEF NoClaims
  <2> QED
    BY <2>1, <2>2, LedgerStep
<1> QED
  BY <1>1, <1>2, TypeInit, TypeStep, PTL DEF Spec

(* No schedule of requests, crashes and errors pays a holder a second time *)
(* where the first payment was recorded or is still to be.                 *)
THEOREM NoRecordedPaymentTwice ==
    ASSUME MaxDurationEnforced
    PROVE  Spec => []RecordedPaymentNotRepeated
<1>1. IInv /\ NoClaims => RecordedPaymentNotRepeated
  <2> SUFFICES ASSUME IInv, NoClaims, NEW i \in DOMAIN ledger \ orphans, NEW j \in DOMAIN ledger \ orphans,
                      ledger[i].kind = ledger[j].kind, NEW w \in Covers(i) \cap Covers(j)
               PROVE  i = j
    BY DEF RecordedPaymentNotRepeated
  <2> USE DEF IInv
  <2>1. i # NoSig /\ j # NoSig /\ w \in Wallet
    BY CoversWallets DEF NoSig, TypeInv, TypeOK
  <2>2. ASSUME NEW q \in Request, NEW r \in Request, pc[q] \in LeasedPCs, pc[r] \in LeasedPCs
        PROVE  q = r
    BY <2>2, LeaseExcludes DEF Handler, Controlled
  <2>3. CASE ledger[i].kind = "escrow"
    <3>1. ASSUME NEW k \in {i, j}
          PROVE  fundSig = k \/ \E r \in Request : pc[r] = "fundSave" /\ job[r].sig = k
      <4>1. k \in DOMAIN ledger \ orphans /\ ledger[k].kind = "escrow"
        BY <2>3
      <4> QED
        BY <4>1 DEF RowsInv, LedgerInv
    <3>2. \A r \in Request : pc[r] = "fundSave" => fundSig = NoSig
      BY DEF Handler, Funding
    <3> QED
      BY <2>1, <2>2, <3>1, <3>2 DEF LeasedPCs
  <2>4. CASE ledger[i].kind = "direct"
    <3>1. ASSUME NEW k \in {i, j}
          PROVE  \/ paidSig[w] = k
                 \/ \E r \in Request : pc[r] = "paySave" /\ job[r].sig = k /\ w \in job[r].batch
      <4>1. k \in DOMAIN ledger \ orphans /\ ledger[k].kind = "direct" /\ w \in Covers(k)
        BY <2>4
      <4> QED
        BY <4>1 DEF RowsInv, LedgerInv
    <3>2. \A r \in Request : pc[r] = "paySave" /\ w \in job[r].batch => paidSig[w] = NoSig
      BY DEF Handler, Paying, Unpaid
    <3> QED
      BY <2>1, <2>2, <3>1, <3>2 DEF LeasedPCs
  <2>5. ledger[i] \in Transfers /\ ledger[i].kind # "claim"
    BY DEF TypeInv, TypeOK, NoClaims
  <2> QED
    BY <2>3, <2>4, <2>5 DEF Transfers
<1> QED
  BY Inductive, NoClaimsInductive, <1>1, PTL

(* A recorded payment is never dropped, replaced or re-priced.             *)
THEOREM RecordedStays == Spec => RecordsStand
<1>1. [Next]_vars =>
         [\A w \in Recorded : paidSig'[w] = paidSig[w] /\ alloc'[w] = alloc[w]]_vars
  <2> SUFFICES ASSUME Next, NEW w \in Recorded
               PROVE  paidSig'[w] = paidSig[w] /\ alloc'[w] = alloc[w]
    OBVIOUS
  <2>1. CASE \E r \in Request : CommitSnapshot(r)
    BY <2>1 DEF CommitSnapshot, SnapshotAllowed
  <2>2. CASE \E r \in Request : PaySave(r)
    BY <2>2 DEF PaySave, Recorded
  <2>3. CASE \E r \in Request : StartSnapshot(r) \/ RefuseSnapshot(r)
    BY <2>3 DEF StartSnapshot, RefuseSnapshot, rowVars
  <2>4. CASE \E r \in Request : StartExecute(r) \/ Claim(r) \/ ClaimRefused(r) \/ Release(r)
    BY <2>4 DEF StartExecute, Claim, ClaimRefused, Release, rowVars
  <2>5. CASE \E r \in Request : FundLoad(r) \/ FundSave(r) \/ PayLoad(r) \/ Renew(r)
    BY <2>5 DEF FundLoad, FundSave, PayLoad, Renew, rowVars
  <2>6. CASE \E r \in Request : TransferLands(r) \/ TransferFails(r) \/ Mark(r)
    BY <2>6 DEF TransferLands, TransferFails, Mark, rowVars
  <2>7. CASE (\E r \in Request : Fault(r)) \/ Expire \/ Done
    BY <2>7 DEF Fault, TransferUnknown, Crash, DatabaseError, Expire, Done, vars, rowVars
  <2> QED
    BY <2>1, <2>2, <2>3, <2>4, <2>5, <2>6, <2>7 DEF Next, Snapshot, Execute
<1> QED
  BY <1>1, PTL DEF Spec, RecordsStand

=============================================================================
