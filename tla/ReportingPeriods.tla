-------------------------- MODULE ReportingPeriods --------------------------
(***************************************************************************)
(* The reported periods of one issuance: reportPeriod and the end of       *)
(* markExecuted (apps/web/lib/server/distribution.ts) over the calendar of *)
(* packages/core/src/calendar.                                             *)
(*                                                                         *)
(* A date is its month, counted from January of year 0; a record date is   *)
(* the last instant of its month.  How an open distribution is snapshotted *)
(* and paid is the business of Distribution: here it is open, then paid by *)
(* one handler, which loads the issuance before the payouts and writes it  *)
(* after them.                                                             *)
(***************************************************************************)
EXTENDS Integers, Sequences, FiniteSets

CONSTANTS
    Request,              \* report and execute calls that may be running at once
    Frequencies,          \* of {"QUARTERLY", "MONTHLY"}, those to consider
    LastMonth,            \* bound on the clock and on the labels reported
    MaxRows               \* bound on the distributions of the issuance

ASSUME PeriodsAssumption ==
    /\ Frequencies \subseteq {"QUARTERLY", "MONTHLY"}
    /\ LastMonth \in Nat /\ MaxRows \in Nat

VARIABLES
    frequency,            \* terms.distributionFrequency
    next,                 \* Issuance.nextRecordDate
    rows,                 \* Distribution rows, in the order they were created
    now,                  \* the month it is
    rpc, rjob,            \* the handlers' control points and locals
    overlapped, raced     \* two rows, two reports were open at once (history)

periodVars == <<frequency, next, rows, now, rpc, rjob, overlapped, raced>>

NoDate == -1              \* nextRecordDate is null
Legacy == -1              \* a label from before canonical labels

-----------------------------------------------------------------------------
(* The calendar.  A period is named by its first month, as its label is.   *)

monthsPerPeriod == IF frequency = "QUARTERLY" THEN 3 ELSE 1

periodAt(year, index) == 12 * year + index * monthsPerPeriod

periodContaining(m) == periodAt(m \div 12, (m % 12) \div monthsPerPeriod)

recordDate(p) == p + monthsPerPeriod - 1

nextPeriod(p) == periodContaining(recordDate(p) + 1)

(* Labels that parse: the periods of the issuance's frequency. *)
Labels == {p \in 0..LastMonth : periodContaining(p) = p}

periodToReport == periodContaining(IF next = NoDate THEN now ELSE next)

(* Mutant: moves to the period just paid. *)
recordDateAfter_Same(p, current) ==
    IF current # NoDate /\ current > recordDate(p) THEN current ELSE recordDate(p)

(* Mutant: moves the record date back as well. *)
recordDateAfter_Back(p, current) == recordDate(nextPeriod(p))

recordDateAfter(p, current) ==
    LET after == recordDate(nextPeriod(p)) IN
    IF current # NoDate /\ current > after THEN current ELSE after

-----------------------------------------------------------------------------
NoReport == [label |-> 0, row |-> 0, next |-> NoDate]

RPCs == {"idle", "dup", "open", "create", "mark"}

PeriodsTypeOK ==
    /\ frequency \in Frequencies
    /\ next \in {m \in 0..(LastMonth + 12) : (m + 1) % monthsPerPeriod = 0} \cup {NoDate}
    /\ rows \in Seq([label : Labels \cup {Legacy}, status : {"open", "EXECUTED"}])
    /\ now \in 0..LastMonth
    /\ rpc \in [Request -> RPCs]
    /\ rjob \in [Request -> [label : 0..LastMonth, row : 0..Len(rows), next : Int]]

(* Launched in month 0, by this code or before canonical labels. *)
PeriodsInit ==
    /\ frequency \in Frequencies
    /\ now = 0
    /\ \/ next = recordDate(periodContaining(0)) /\ rows = <<>>
       \/ next = NoDate /\ rows = <<[label |-> Legacy, status |-> "open"]>>
    /\ rpc = [r \in Request |-> "idle"] /\ rjob = [r \in Request |-> NoReport]
    /\ overlapped = FALSE /\ raced = FALSE

OpenRows == {i \in DOMAIN rows : rows[i].status # "EXECUTED"}

RGoto(r, label) == rpc' = [rpc EXCEPT ![r] = label]
RReturn(r) == RGoto(r, "idle") /\ rjob' = [rjob EXCEPT ![r] = NoReport]

Reporting(r) == rpc[r] \in {"dup", "open", "create"}

-----------------------------------------------------------------------------
(* reportPeriod.  Any canonical label is accepted, past or future. *)

StartReport(r) ==
    /\ rpc[r] = "idle" /\ Len(rows) < MaxRows
    /\ \E p \in Labels : rjob' = [rjob EXCEPT ![r].label = p]
    /\ RGoto(r, "dup")
    /\ raced' = (raced \/ \E o \in Request : Reporting(o))
    /\ UNCHANGED <<frequency, next, rows, now, overlapped>>

CheckDuplicate(r) ==
    /\ rpc[r] = "dup"
    /\ IF \E i \in DOMAIN rows : rows[i].label = rjob[r].label
       THEN RReturn(r)
       ELSE RGoto(r, "open") /\ UNCHANGED rjob
    /\ UNCHANGED <<frequency, next, rows, now, overlapped, raced>>

(* Mutant: does not look for an open period. *)
CheckOpen_Skipped(r) ==
    /\ rpc[r] = "open"
    /\ RGoto(r, "create") /\ UNCHANGED rjob
    /\ UNCHANGED <<frequency, next, rows, now, overlapped, raced>>

CheckOpen(r) ==
    /\ rpc[r] = "open"
    /\ IF OpenRows # {} THEN RReturn(r) ELSE RGoto(r, "create") /\ UNCHANGED rjob
    /\ UNCHANGED <<frequency, next, rows, now, overlapped, raced>>

(* @@unique([issuanceId, periodLabel]). *)
Insertable(label) == \A i \in DOMAIN rows : rows[i].label # label

CreateRow(r) ==
    /\ rpc[r] = "create"
    /\ IF Insertable(rjob[r].label)
       THEN rows' = Append(rows, [label |-> rjob[r].label, status |-> "open"])
       ELSE UNCHANGED rows
    /\ overlapped' = (overlapped \/ (Insertable(rjob[r].label) /\ OpenRows # {}))
    /\ RReturn(r)
    /\ UNCHANGED <<frequency, next, now, raced>>

-----------------------------------------------------------------------------
(* executeDistribution, seen from the issuance. *)

(* Claim the row and load it with its issuance. *)
StartPaying(r, i) ==
    /\ rpc[r] = "idle" /\ i \in OpenRows
    /\ \A o \in Request : ~(rpc[o] = "mark" /\ rjob[o].row = i)
    /\ rjob' = [rjob EXCEPT ![r] = [NoReport EXCEPT !.row = i, !.next = next]]
    /\ RGoto(r, "mark")
    /\ UNCHANGED <<frequency, next, rows, now, overlapped, raced>>

(* markExecuted: one transaction, from the issuance loaded then. *)
MarkPaid(r) ==
    /\ rpc[r] = "mark"
    /\ LET label == rows[rjob[r].row].label
           paid == IF label # Legacy THEN label
                   ELSE periodContaining(IF rjob[r].next = NoDate THEN now ELSE rjob[r].next)
       IN next' = recordDateAfter(paid, rjob[r].next)
    /\ rows' = [rows EXCEPT ![rjob[r].row].status = "EXECUTED"]
    /\ RReturn(r)
    /\ UNCHANGED <<frequency, now, overlapped, raced>>

(* A call fails or is killed; a payer's lease runs out. *)
RequestFails(r) ==
    /\ rpc[r] # "idle"
    /\ RReturn(r)
    /\ UNCHANGED <<frequency, next, rows, now, overlapped, raced>>

MonthPasses ==
    /\ now < LastMonth
    /\ now' = now + 1
    /\ UNCHANGED <<frequency, next, rows, rpc, rjob, overlapped, raced>>

(* Between calls; rows and months are bounded.                             *)
PeriodsRest == (\A r \in Request : rpc[r] = "idle") /\ UNCHANGED periodVars

Report(r) == CheckDuplicate(r) \/ CheckOpen(r) \/ CreateRow(r)
Pay(r) == MarkPaid(r) \/ RequestFails(r)

PeriodsNext ==
    \/ \E r \in Request :
          StartReport(r) \/ Report(r) \/ Pay(r) \/ \E i \in DOMAIN rows : StartPaying(r, i)
    \/ MonthPasses \/ PeriodsRest

PeriodsSpec == PeriodsInit /\ [][PeriodsNext]_periodVars

-----------------------------------------------------------------------------
(* Properties.                                                             *)

(* A period has one distribution, although two reports of it may both have *)
(* found none.                                                             *)
OneRowPerPeriod ==
    \A i, j \in DOMAIN rows : rows[i].label = rows[j].label => i = j

(* "Distribute it first": two distributions of an issuance are open at     *)
(* once only where two reports ran at once.                                *)
OneOpenUnlessRaced == overlapped => raced

(* The period the API and the market page announce as the next one is past *)
(* every period already paid, whatever order they were reported in and     *)
(* whatever attempts failed, unless two distributions were open at once.   *)
NextAfterPaid ==
    ~overlapped =>
        \A i \in DOMAIN rows :
            rows[i].status = "EXECUTED" /\ rows[i].label # Legacy => rows[i].label < periodToReport

=============================================================================
