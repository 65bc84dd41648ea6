------------------------- MODULE WalletPayoutProofs -------------------------
(***************************************************************************)
(* Proofs about WalletPayout, for every number of custody requests,        *)
(* submits, links and builds, every set of tables and every number of      *)
(* faults: one payer at a time, and what a signed payment may conclude.    *)
(*                                                                         *)
(* The argument: a payload is what its build made it, and its rows are     *)
(* those of the distribution as long as the generation is the same; while  *)
(* a lease is held no snapshot commits and only its holder pays.  The      *)
(* second half holds where no request outlives its lease                   *)
(* (MaxDurationEnforced), the first half in any case.                      *)
(***************************************************************************)
EXTENDS WalletPayout, SequenceTheorems, TLAPS

LeasedPCs == {"fund", "fundSend", "fundSave",
              "pay", "paySend", "paySave", "renew", "mark", "release"}

JobFields  == {"mode", "rows", "gen", "todo", "batch", "sig", "leased"}
SjobFields == {"link", "payload", "n", "sig", "root"}

Shapes ==
    /\ DOMAIN pc = Request /\ DOMAIN job = Request
    /\ DOMAIN spc = Submitter /\ DOMAIN sjob = Submitter /\ DOMAIN sreq = SignId
    /\ \A r \in Request : JobFields \subseteq DOMAIN job[r]
    /\ \A h \in Submitter : SjobFields \subseteq DOMAIN sjob[h]
    /\ \A s \in SignId : {"status", "payload"} \subseteq DOMAIN sreq[s]

(* The ledger is a sequence of something, and gen counts.                  *)
Counted ==
    /\ \E S : ledger \in Seq(S)
    /\ gen \in Nat /\ builds \in Nat
    /\ paidSig \in [Wallet -> Nat]

(* A custody handler past its claim has the live lease, its list is that   *)
(* of the rows, and a payment it is about to record is in the ledger.      *)
Custody(r) ==
    /\ job[r].leased <=> pc[r] \in LeasedPCs
    /\ job[r].mode \in {"escrow", "direct"}
    /\ pc[r] \in {"fund", "fundSend", "fundSave"} => job[r].mode = "escrow"
    /\ pc[r] \in {"pay", "paySend", "paySave", "renew"} => job[r].mode = "direct"
    /\ pc[r] \in {"paySend", "paySave", "renew"} =>
          job[r].gen \in 0..gen /\ (job[r].gen = gen => job[r].rows = alloc)
    /\ pc[r] = "paySave" =>
          /\ job[r].sig \in DOMAIN ledger
          /\ ledger[job[r].sig] = Transfer("direct", job[r].batch, job[r].rows)

LeasedCustody(r) ==
    /\ pc[r] \in LeasedPCs => lease = r /\ live
    /\ pc[r] \in {"paySend", "paySave", "renew"} => job[r].gen = gen
    /\ pc[r] \in {"paySend", "paySave"} => Unpaid \subseteq job[r].todo
    /\ pc[r] = "renew" => Unpaid \subseteq job[r].todo \ job[r].batch
    /\ pc[r] = "mark" /\ job[r].mode = "direct" => Unpaid = {}

(* A submit that has a signature has that of its own transaction.          *)
Signer(h) ==
    /\ spc[h] = "claim" \/ Paying(h) => Payload(h) # NoPayload
    /\ spc[h] \in {"record", "save"} =>
          /\ sjob[h].sig \in DOMAIN ledger
          /\ ledger[sjob[h].sig] = Transfer(Payload(h).mode, Batch(h), Payload(h).rows)
    /\ spc[h] = "complete" => status = "EXECUTED"

LeasedSigner(h) ==
    /\ Paying(h) => lease = h /\ live
    /\ spc[h] = "mark" /\ Payload(h).mode # "escrow" => Unpaid = {}

(* The payloads somebody still has.                                        *)
InPlay == ({sreq[s].payload : s \in SignId} \cup {sjob[h].payload : h \in Submitter}) \ {NoPayload}

(* A payload's number tells it from any other; its rows are those of its   *)
(* generation; what landed under its number is what it says.               *)
Faithful(p) ==
    /\ p.build \in 0..builds /\ p.gen \in 0..gen
    /\ p.gen = gen => p.rows = alloc
    /\ \A t \in landed : t.build = p.build => ledger[t.sig] = Transfer(p.mode, p.batches[t.n], p.rows)

PayloadInv ==
    /\ \A p \in InPlay : Faithful(p)
    /\ \A p, q \in InPlay : p.build = q.build => p = q
    /\ \A t \in landed : t.build \in 0..builds /\ t.sig \in DOMAIN ledger

RowsInv ==
    /\ SignedRecordsHonest
    /\ \A s \in SignId : sreq[s].status = "COMPLETED" => status = "EXECUTED"
    /\ MaxDurationEnforced => SignedExecutedPaid

IInv ==
    /\ Shapes /\ Counted /\ PayloadInv /\ RowsInv
    /\ \A r \in Request : Custody(r) /\ (MaxDurationEnforced => LeasedCustody(r))
    /\ \A h \in Submitter : Signer(h) /\ (MaxDurationEnforced => LeasedSigner(h))

-----------------------------------------------------------------------------
(* The ledger.                                                             *)

(* Whatever is appended, the ledger stays a sequence and keeps its places. *)
LEMMA LedgerAppend ==
  ASSUME NEW L, NEW S, L \in Seq(S), NEW e
  PROVE  /\ \E T : Append(L, e) \in Seq(T)
         /\ Len(L) + 1 \in Nat \ {0} /\ Len(L) + 1 \notin DOMAIN L
         /\ DOMAIN Append(L, e) = DOMAIN L \cup {Len(L) + 1}
         /\ \A i \in DOMAIN L : Append(L, e)[i] = L[i]
         /\ Append(L, e)[Len(L) + 1] = e
<1> DEFINE T == S \cup {e}
<1>1. L \in Seq(T)
  BY SeqMonotonic
<1>2. Append(L, e) \in Seq(T)
  BY <1>1, AppendProperties
<1> QED
  BY <1>1, <1>2, AppendProperties

LEMMA Lands ==
  ASSUME IInv, NEW e, ledger' = Append(ledger, e)
  PROVE  /\ \E T : ledger' \in Seq(T)
         /\ Len(ledger) + 1 \in Nat \ {0} /\ Len(ledger) + 1 \notin DOMAIN ledger
         /\ DOMAIN ledger' = DOMAIN ledger \cup {Len(ledger) + 1}
         /\ \A i \in DOMAIN ledger : ledger'[i] = ledger[i]
         /\ ledger'[Len(ledger) + 1] = e
<1> DEFINE L == Append(ledger, e)
<1>1. PICK S : ledger \in Seq(S)
  BY DEF IInv, Counted
<1>2. /\ \E T : L \in Seq(T)
      /\ Len(ledger) + 1 \in Nat \ {0} /\ Len(ledger) + 1 \notin DOMAIN ledger
      /\ DOMAIN L = DOMAIN ledger \cup {Len(ledger) + 1}
      /\ \A i \in DOMAIN ledger : L[i] = ledger[i]
      /\ L[Len(ledger) + 1] = e
  BY <1>1, LedgerAppend
<1> HIDE DEF L
<1>3. ledger' = L
  BY DEF L
<1> QED
  BY <1>2, <1>3

-----------------------------------------------------------------------------
(* Frames: what a step leaves to those who do not take it.                 *)

(* The rows stand, what is signed stays signed, what landed stays landed.  *)
Onward ==
    /\ gen' = gen /\ alloc' = alloc
    /\ paidSig' \in [Wallet -> Nat] /\ Unpaid' \subseteq Unpaid
    /\ status = "EXECUTED" => status' = "EXECUTED"
    /\ \E S : ledger' \in Seq(S)
    /\ DOMAIN ledger \subseteq DOMAIN ledger' /\ \A i \in DOMAIN ledger : ledger'[i] = ledger[i]
    /\ builds' \in Nat /\ 0..builds \subseteq 0..builds'

(* Nobody but m loses a live lease. *)
NotStolen(m) ==
    MaxDurationEnforced =>
        \A x \in (Request \cup Submitter) \ {m} : lease = x /\ live => lease' = x /\ live'

OthersStay(r) ==
    /\ DOMAIN pc' = Request /\ DOMAIN job' = Request
    /\ JobFields \subseteq DOMAIN job'[r]
    /\ \A q \in Request \ {r} : pc'[q] = pc[q] /\ job'[q] = job[q]

SignersStay(h) ==
    /\ DOMAIN spc' = Submitter /\ DOMAIN sjob' = Submitter
    /\ SjobFields \subseteq DOMAIN sjob'[h]
    /\ \A g \in Submitter \ {h} : spc'[g] = spc[g] /\ sjob'[g] = sjob[g]

LinksStand ==
    /\ DOMAIN sreq' = SignId
    /\ \A s \in SignId : {"status", "payload"} \subseteq DOMAIN sreq'[s]

LEMMA OnwardIfSame ==
  ASSUME IInv, UNCHANGED <<gen, alloc, paidSig, status, ledger, builds>>
  PROVE  Onward
BY DEF IInv, Counted, Onward, Unpaid

LEMMA CustodyFrame ==
  ASSUME IInv, Onward, NEW m, NotStolen(m), NEW q \in Request \ {m},
         pc'[q] = pc[q], job'[q] = job[q]
  PROVE  Custody(q)' /\ (MaxDurationEnforced => LeasedCustody(q)')
<1>1. Custody(q)'
  BY DEF IInv, Onward, Custody
<1>2. ASSUME MaxDurationEnforced PROVE LeasedCustody(q)'
  BY <1>2 DEF IInv, Onward, NotStolen, LeasedCustody
<1> QED
  BY <1>1, <1>2

LEMMA SignerFrame ==
  ASSUME IInv, Onward, NEW m, NotStolen(m), NEW h \in Submitter \ {m},
         spc'[h] = spc[h], sjob'[h] = sjob[h]
  PROVE  Signer(h)' /\ (MaxDurationEnforced => LeasedSigner(h)')
<1>1. Signer(h)'
  BY DEF IInv, Onward, Signer, Paying, Payload, Batch
<1>2. ASSUME MaxDurationEnforced PROVE LeasedSigner(h)'
  BY <1>2 DEF IInv, Onward, NotStolen, LeasedSigner, Paying, Payload
<1> QED
  BY <1>1, <1>2

(* Nothing new in play, nothing new landed from the wallet.                *)
LEMMA PayloadFrame ==
  ASSUME IInv, Onward, landed' = landed, InPlay' \subseteq InPlay
  PROVE  PayloadInv'
<1>1. ASSUME NEW p \in InPlay PROVE Faithful(p)'
  BY DEF IInv, Onward, PayloadInv, Faithful
<1> QED
  BY <1>1 DEF IInv, Onward, PayloadInv

LEMMA RowsFrame ==
  ASSUME IInv, Onward, UNCHANGED <<paidSig, status>>, payoutMode' \in {payoutMode, "ESCROW"},
         \A s \in SignId : sreq'[s].status = "COMPLETED" => sreq[s].status = "COMPLETED"
  PROVE  RowsInv'
<1>1. SignedRecordsHonest'
  BY DEF IInv, RowsInv, Onward, SignedRecordsHonest, Recorded, Covers
<1>2. MaxDurationEnforced => SignedExecutedPaid'
  BY DEF IInv, RowsInv, Onward, SignedExecutedPaid
<1> QED
  BY <1>1, <1>2 DEF IInv, RowsInv

LEMMA CustodyStep ==
  ASSUME IInv, NEW r \in Request, Onward, NotStolen(r), OthersStay(r), UNCHANGED walletVars,
         RowsInv', Custody(r)', MaxDurationEnforced => LeasedCustody(r)'
  PROVE  IInv'
<1>1. Shapes' /\ InPlay' = InPlay /\ landed' = landed
  BY DEF IInv, Shapes, OthersStay, walletVars, linkVars, InPlay
<1>2. Counted'
  BY DEF IInv, Onward, Counted
<1>3. PayloadInv'
  BY <1>1, PayloadFrame
<1>4. ASSUME NEW q \in Request PROVE Custody(q)' /\ (MaxDurationEnforced => LeasedCustody(q)')
  BY CustodyFrame DEF OthersStay
<1>5. ASSUME NEW h \in Submitter PROVE Signer(h)' /\ (MaxDurationEnforced => LeasedSigner(h)')
  BY SignerFrame, WalletAssumption DEF walletVars
<1> QED
  BY <1>1, <1>2, <1>3, <1>4, <1>5 DEF IInv

LEMMA SignerStep ==
  ASSUME IInv, NEW h \in Submitter, Onward, NotStolen(h), SignersStay(h), LinksStand,
         UNCHANGED <<pc, job>>, PayloadInv', RowsInv',
         Signer(h)', MaxDurationEnforced => LeasedSigner(h)'
  PROVE  IInv'
<1>1. Shapes' /\ Counted'
  BY DEF IInv, Shapes, SignersStay, LinksStand, Onward, Counted
<1>2. ASSUME NEW g \in Submitter PROVE Signer(g)' /\ (MaxDurationEnforced => LeasedSigner(g)')
  BY SignerFrame DEF SignersStay
<1>3. ASSUME NEW q \in Request PROVE Custody(q)' /\ (MaxDurationEnforced => LeasedCustody(q)')
  BY CustodyFrame, WalletAssumption
<1> QED
  BY <1>1, <1>2, <1>3 DEF IInv

-----------------------------------------------------------------------------
(* The custody handlers.                                                   *)

(* A step that only moves r: the chain, the rows and the others stand.     *)
LEMMA CustodyQuiet ==
  ASSUME IInv, NEW r \in Request, NEW label, Goto(r, label),
         DOMAIN job' = Request, JobFields \subseteq DOMAIN job'[r],
         \A q \in Request \ {r} : job'[q] = job[q],
         NotStolen(r), UNCHANGED <<gen, alloc, paidSig, status, ledger, walletVars>>,
         payoutMode' \in {payoutMode, "ESCROW"},
         Custody(r)', MaxDurationEnforced => LeasedCustody(r)'
  PROVE  IInv'
<1>1. Onward
  BY OnwardIfSame DEF walletVars, linkVars
<1>2. RowsInv'
  BY <1>1, RowsFrame DEF walletVars, linkVars
<1>3. OthersStay(r)
  BY DEF IInv, Shapes, Goto, OthersStay
<1> QED
  BY <1>1, <1>2, <1>3, CustodyStep

(* The lease is not touched, or taken while nobody holds it, or given back.*)
LEMMA LeaseUntouched == ASSUME NEW m, UNCHANGED leaseVars PROVE NotStolen(m)
BY DEF NotStolen, leaseVars

LEMMA LeaseTaken == ASSUME NEW m, LeaseFree PROVE NotStolen(m)
BY ConstantsAssumption, WalletAssumption DEF NotStolen, LeaseFree, NoLease

LEMMA LeaseOwn == ASSUME NEW m, MaxDurationEnforced => lease = m PROVE NotStolen(m)
BY DEF NotStolen

(* A handler that has returned holds nothing.                              *)
LEMMA Returned ==
  ASSUME IInv, NEW r \in Request, Return(r)
  PROVE  /\ Goto(r, "idle") /\ DOMAIN job' = Request /\ JobFields \subseteq DOMAIN job'[r]
         /\ \A q \in Request \ {r} : job'[q] = job[q]
         /\ Custody(r)' /\ LeasedCustody(r)'
<1>1. /\ Goto(r, "idle") /\ DOMAIN job' = Request /\ job'[r] = NoJob /\ pc'[r] = "idle"
      /\ \A q \in Request \ {r} : job'[q] = job[q]
  BY DEF IInv, Shapes, Return, Goto
<1>2. JobFields \subseteq DOMAIN job'[r]
  BY <1>1 DEF NoJob, JobFields
<1>3. Custody(r)' /\ LeasedCustody(r)'
  BY <1>1 DEF NoJob, Custody, LeasedCustody, LeasedPCs
<1> QED
  BY <1>1, <1>2, <1>3

LEMMA KeptBySnapshot ==
  ASSUME IInv, NEW r \in Request, Snapshot(r), UNCHANGED walletVars
  PROVE  IInv'
<1>1. CASE StartSnapshot(r)
  <2>1. PICK t \in Tables : job' = [job EXCEPT ![r].rows = t]
    BY <1>1 DEF StartSnapshot
  <2>2. /\ DOMAIN job' = Request /\ JobFields \subseteq DOMAIN job'[r]
        /\ \A q \in Request \ {r} : job'[q] = job[q]
        /\ job'[r].leased = job[r].leased /\ job'[r].mode = job[r].mode
    BY <2>1 DEF IInv, Shapes, JobFields
  <2>3. Goto(r, "commit") /\ pc[r] = "idle" /\ pc'[r] = "commit" /\ NotStolen(r)
    BY <1>1, LeaseUntouched DEF StartSnapshot, Goto, IInv, Shapes
  <2>4. Custody(r)' /\ LeasedCustody(r)'
    BY <2>2, <2>3 DEF IInv, Custody, LeasedCustody, LeasedPCs
  <2>5. UNCHANGED <<gen, alloc, paidSig, status, ledger, walletVars, payoutMode>>
    BY <1>1 DEF StartSnapshot, rowVars, fundVars, chainVars
  <2> QED
    BY <2>2, <2>3, <2>4, <2>5, CustodyQuiet
<1>2. CASE RefuseSnapshot(r)
  <2>1. NotStolen(r) /\ UNCHANGED <<gen, alloc, paidSig, status, ledger, walletVars, payoutMode>>
    BY <1>2, LeaseUntouched DEF RefuseSnapshot, rowVars, fundVars, chainVars
  <2> QED
    BY <1>2, <2>1, Returned, CustodyQuiet DEF RefuseSnapshot
<1>3. CASE CommitSnapshot(r)
  <2>1. /\ gen' = gen + 1 /\ alloc' = job[r].rows /\ status # "EXECUTED" /\ status' = "SNAPSHOTTED"
        /\ paidSig' = [w \in Wallet |-> NoSig] /\ LeaseFree
        /\ UNCHANGED <<lease, live, ledger, payoutMode, spc, sjob, sreq, landed, builds>>
    BY <1>3 DEF CommitSnapshot, SnapshotAllowed, leaseVars, chainVars, fundVars, walletVars, linkVars
  <2>2. gen \in Nat /\ gen + 1 \notin 0..gen /\ 0..gen \subseteq 0..(gen + 1) /\ gen + 1 \in Nat
    BY DEF IInv, Counted
  <2>3. Shapes' /\ Counted'
    <3>1. /\ DOMAIN job' = Request /\ JobFields \subseteq DOMAIN job'[r]
          /\ \A q \in Request \ {r} : job'[q] = job[q]
      BY <1>3, Returned DEF CommitSnapshot
    <3>2. DOMAIN pc' = Request
      BY <1>3 DEF CommitSnapshot, Return, Goto, IInv, Shapes
    <3>3. Shapes'
      BY <2>1, <3>1, <3>2 DEF IInv, Shapes
    <3> QED
      BY <2>1, <2>2, <3>3 DEF IInv, Counted, NoSig
  <2>4. PayloadInv'
    <3>1. InPlay' = InPlay
      BY <2>1 DEF InPlay
    <3>2. ASSUME NEW p \in InPlay PROVE Faithful(p)'
      BY <2>1, <2>2 DEF IInv, PayloadInv, Faithful
    <3> QED
      BY <2>1, <3>1, <3>2 DEF IInv, PayloadInv
  <2>5. RowsInv'
    BY <2>1 DEF IInv, RowsInv, SignedRecordsHonest, Recorded, SignedExecutedPaid
  <2>6. ASSUME NEW q \in Request PROVE Custody(q)' /\ (MaxDurationEnforced => LeasedCustody(q)')
    <3>1. CASE q = r
      BY <1>3, <3>1, Returned DEF CommitSnapshot
    <3>2. CASE q # r
      <4>1. pc'[q] = pc[q] /\ job'[q] = job[q]
        BY <1>3, <3>2 DEF CommitSnapshot, Return, Goto, IInv, Shapes
      <4>2. Custody(q)'
        BY <2>1, <2>2, <4>1 DEF IInv, Custody
      <4>3. ASSUME MaxDurationEnforced PROVE LeasedCustody(q)'
        <5>1. pc[q] \notin LeasedPCs
          BY <2>1, <4>3, ConstantsAssumption DEF IInv, LeasedCustody, LeaseFree, NoLease
        <5> QED
          BY <4>1, <5>1 DEF LeasedCustody, LeasedPCs
      <4> QED
        BY <4>2, <4>3
    <3> QED
      BY <3>1, <3>2
  <2>7. ASSUME NEW h \in Submitter PROVE Signer(h)' /\ (MaxDurationEnforced => LeasedSigner(h)')
    <3>1. Signer(h)'
      BY <2>1 DEF IInv, Signer, Paying, Payload, Batch
    <3>2. ASSUME MaxDurationEnforced PROVE LeasedSigner(h)'
      <4>1. ~Paying(h)
        BY <2>1, <3>2, WalletAssumption DEF IInv, LeasedSigner, LeaseFree, NoLease
      <4> QED
        BY <2>1, <4>1 DEF LeasedSigner, Paying
    <3> QED
      BY <3>1, <3>2
  <2> QED
    BY <2>3, <2>4, <2>5, <2>6, <2>7 DEF IInv
<1> QED
  BY <1>1, <1>2, <1>3 DEF Snapshot

LEMMA Modes == ASSUME NEW asked \in {"escrow", "direct"} PROVE PayoutModeFor(asked) \in {"escrow", "direct"}
BY DEF PayoutModeFor

(* Before the claim, and the claim.                                        *)
LEMMA KeptByClaim ==
  ASSUME IInv, NEW r \in Request, StartExecute(r) \/ Claim(r) \/ ClaimRefused(r), UNCHANGED walletVars
  PROVE  IInv'
<1>1. CASE StartExecute(r)
  <2>1. PICK asked \in {"escrow", "direct"} :
           job' = [job EXCEPT ![r].typed = total, ![r].mode = PayoutModeFor(asked)]
    BY <1>1 DEF StartExecute
  <2>2. /\ DOMAIN job' = Request /\ JobFields \subseteq DOMAIN job'[r]
        /\ \A q \in Request \ {r} : job'[q] = job[q]
        /\ job'[r].leased = job[r].leased /\ job'[r].mode = PayoutModeFor(asked)
    BY <2>1 DEF IInv, Shapes, JobFields
  <2>3. Goto(r, "claim") /\ pc[r] = "idle" /\ pc'[r] = "claim" /\ NotStolen(r)
    BY <1>1, LeaseUntouched DEF StartExecute, Goto, IInv, Shapes
  <2>4. Custody(r)' /\ LeasedCustody(r)'
    BY <2>2, <2>3, Modes DEF IInv, Custody, LeasedCustody, LeasedPCs
  <2>5. UNCHANGED <<gen, alloc, paidSig, status, ledger, walletVars, payoutMode>>
    BY <1>1 DEF StartExecute, rowVars, fundVars, chainVars
  <2> QED
    BY <2>2, <2>3, <2>4, <2>5, CustodyQuiet
<1>2. CASE ClaimRefused(r)
  <2>1. NotStolen(r) /\ UNCHANGED <<gen, alloc, paidSig, status, ledger, walletVars, payoutMode>>
    BY <1>2, LeaseUntouched DEF ClaimRefused, rowVars, fundVars, chainVars
  <2> QED
    BY <1>2, <2>1, Returned, CustodyQuiet DEF ClaimRefused
<1>3. CASE Claim(r)
  <2> DEFINE label == IF job[r].mode = "escrow" THEN "fund" ELSE "pay"
  <2>1. /\ Goto(r, label) /\ pc[r] = "claim" /\ pc'[r] = label /\ NotStolen(r)
        /\ lease' = r /\ live' = TRUE
    BY <1>3, LeaseTaken DEF Claim, Claimable, Goto, IInv, Shapes
  <2>2. /\ DOMAIN job' = Request /\ JobFields \subseteq DOMAIN job'[r]
        /\ \A q \in Request \ {r} : job'[q] = job[q]
        /\ job'[r].leased = TRUE /\ job'[r].mode = job[r].mode
    BY <1>3 DEF Claim, IInv, Shapes, JobFields
  <2>3. Custody(r)' /\ LeasedCustody(r)'
    BY <2>1, <2>2 DEF IInv, Custody, LeasedCustody, LeasedPCs
  <2>4. UNCHANGED <<gen, alloc, paidSig, status, ledger, walletVars, payoutMode>>
    BY <1>3 DEF Claim, rowVars, fundVars, chainVars
  <2> QED
    BY <2>1, <2>2, <2>3, <2>4, CustodyQuiet
<1> QED
  BY <1>1, <1>2, <1>3

(* Funding the escrow. *)
LEMMA KeptByFund ==
  ASSUME IInv, NEW r \in Request, FundLoad(r) \/ FundSave(r), UNCHANGED walletVars
  PROVE  IInv'
<1>1. CASE FundLoad(r)
  <2>1. PICK label \in {"mark", "fundSave", "fundSend", "release"} : Goto(r, label)
    BY <1>1 DEF FundLoad
  <2>2. /\ DOMAIN job' = Request /\ JobFields \subseteq DOMAIN job'[r]
        /\ \A q \in Request \ {r} : job'[q] = job[q]
        /\ job'[r].leased = job[r].leased /\ job'[r].mode = job[r].mode
    BY <1>1 DEF FundLoad, IInv, Shapes, JobFields
  <2>3. pc[r] = "fund" /\ pc'[r] = label /\ UNCHANGED leaseVars
    BY <1>1, <2>1 DEF FundLoad, Goto, IInv, Shapes
  <2>4. Custody(r)' /\ (MaxDurationEnforced => LeasedCustody(r)')
    BY <2>2, <2>3 DEF IInv, Custody, LeasedCustody, LeasedPCs, leaseVars
  <2>5. UNCHANGED <<gen, alloc, paidSig, status, ledger, walletVars, payoutMode>>
    BY <1>1 DEF FundLoad, rowVars, fundVars, chainVars
  <2> QED
    BY <2>1, <2>2, <2>3, <2>4, <2>5, LeaseUntouched, CustodyQuiet
<1>2. CASE FundSave(r)
  <2>1. /\ Goto(r, "mark") /\ job' = job /\ pc[r] = "fundSave" /\ pc'[r] = "mark"
        /\ UNCHANGED <<lease, live, gen, alloc, paidSig, status, ledger, walletVars>>
        /\ payoutMode' \in {payoutMode, "ESCROW"}
    BY <1>2 DEF FundSave, Goto, IInv, Shapes, rowVars, fundVars, leaseVars, chainVars
  <2>2. Custody(r)' /\ (MaxDurationEnforced => LeasedCustody(r)')
    BY <2>1 DEF IInv, Custody, LeasedCustody, LeasedPCs
  <2>3. DOMAIN job' = Request /\ JobFields \subseteq DOMAIN job'[r]
    BY <2>1 DEF IInv, Shapes
  <2> QED
    BY <2>1, <2>2, <2>3, LeaseUntouched, CustodyQuiet DEF leaseVars
<1> QED
  BY <1>1, <1>2

(* Paying the holders. *)
LEMMA KeptByPay ==
  ASSUME IInv, NEW r \in Request, PayLoad(r) \/ Renew(r), UNCHANGED walletVars
  PROVE  IInv'
<1>1. CASE PayLoad(r)
  <2>1. PICK label \in {"mark", "paySend", "release"} : Goto(r, label) /\ (label = "mark" => Unpaid = {})
    BY <1>1 DEF PayLoad
  <2>2. /\ DOMAIN job' = Request /\ JobFields \subseteq DOMAIN job'[r]
        /\ \A q \in Request \ {r} : job'[q] = job[q]
        /\ job'[r].leased = job[r].leased /\ job'[r].mode = job[r].mode
        /\ job'[r].rows = alloc /\ job'[r].gen = gen /\ job'[r].todo = Unpaid
    BY <1>1 DEF PayLoad, IInv, Shapes, JobFields
  <2>3. /\ pc[r] = "pay" /\ pc'[r] = label /\ UNCHANGED <<lease, live>>
        /\ UNCHANGED <<gen, alloc, paidSig, status, ledger, walletVars, payoutMode>>
    BY <1>1, <2>1 DEF PayLoad, Goto, IInv, Shapes, rowVars, fundVars, chainVars, leaseVars
  <2>4. Unpaid' = Unpaid /\ gen \in 0..gen
    BY <2>3 DEF Unpaid, IInv, Counted
  <2>5. Custody(r)' /\ (MaxDurationEnforced => LeasedCustody(r)')
    BY <2>1, <2>2, <2>3, <2>4 DEF IInv, Custody, LeasedCustody, LeasedPCs
  <2> QED
    BY <2>1, <2>2, <2>3, <2>5, LeaseUntouched, CustodyQuiet DEF leaseVars
<1>2. CASE Renew(r)
  <2> DEFINE rest == job[r].todo \ job[r].batch
  <2>1. PICK label \in {"mark", "paySend", "release"} :
           /\ Goto(r, label)
           /\ label = "mark" => rest = {}
           /\ label # "release" => job' = [job EXCEPT ![r].todo = rest, ![r].batch = {}] /\ live'
           /\ label = "release" => UNCHANGED <<live, job>>
    BY <1>2 DEF Renew
  <2>2. /\ DOMAIN job' = Request /\ JobFields \subseteq DOMAIN job'[r]
        /\ \A q \in Request \ {r} : job'[q] = job[q]
        /\ job'[r].leased = job[r].leased /\ job'[r].mode = job[r].mode
        /\ job'[r].rows = job[r].rows /\ job'[r].gen = job[r].gen
        /\ label # "release" => job'[r].todo = rest
    BY <2>1 DEF IInv, Shapes, JobFields
  <2>3. /\ pc[r] = "renew" /\ pc'[r] = label /\ lease' = lease /\ (live => live')
        /\ UNCHANGED <<gen, alloc, paidSig, status, ledger, walletVars, payoutMode>>
    BY <1>2, <2>1 DEF Renew, Goto, IInv, Shapes, rowVars, fundVars, chainVars, leaseVars
  <2>4. Unpaid' = Unpaid /\ NotStolen(r)
    BY <2>3 DEF Unpaid, NotStolen
  <2>5. Custody(r)' /\ (MaxDurationEnforced => LeasedCustody(r)')
    BY <2>1, <2>2, <2>3, <2>4 DEF IInv, Custody, LeasedCustody, LeasedPCs
  <2> QED
    BY <2>1, <2>2, <2>3, <2>4, <2>5, CustodyQuiet
<1> QED
  BY <1>1, <1>2

(* A transfer: the ledger grows by what the handler is about to record.    *)
LEMMA KeptByTransfer ==
  ASSUME IInv, NEW r \in Request, TransferLands(r) \/ TransferFails(r), UNCHANGED walletVars
  PROVE  IInv'
<1>1. CASE TransferFails(r)
  <2>1. /\ Goto(r, "release") /\ job' = job /\ pc[r] \in {"fundSend", "paySend"} /\ pc'[r] = "release"
        /\ UNCHANGED <<lease, live, gen, alloc, paidSig, status, ledger, walletVars, payoutMode>>
    BY <1>1 DEF TransferFails, Goto, IInv, Shapes, rowVars, fundVars, leaseVars, chainVars
  <2>2. Custody(r)' /\ (MaxDurationEnforced => LeasedCustody(r)')
    BY <2>1 DEF IInv, Custody, LeasedCustody, LeasedPCs
  <2>3. DOMAIN job' = Request /\ JobFields \subseteq DOMAIN job'[r]
    BY <2>1 DEF IInv, Shapes
  <2> QED
    BY <2>1, <2>2, <2>3, LeaseUntouched, CustodyQuiet DEF leaseVars
<1>2. CASE TransferLands(r)
  <2> DEFINE label == Saving(pc[r])
  <2>1. PICK b \in Outgoing(r) :
          /\ ledger' = Append(ledger, Transfer(job[r].mode, b, job[r].rows))
          /\ job' = [job EXCEPT ![r].batch = b, ![r].sig = Len(ledger) + 1]
    BY <1>2 DEF TransferLands
  <2>2. /\ DOMAIN job' = Request /\ JobFields \subseteq DOMAIN job'[r]
        /\ \A q \in Request \ {r} : job'[q] = job[q]
        /\ job'[r].leased = job[r].leased /\ job'[r].mode = job[r].mode
        /\ job'[r].rows = job[r].rows /\ job'[r].gen = job[r].gen /\ job'[r].todo = job[r].todo
        /\ job'[r].batch = b /\ job'[r].sig = Len(ledger) + 1
    BY <2>1 DEF IInv, Shapes, JobFields
  <2>3. /\ pc[r] \in {"fundSend", "paySend"} /\ pc'[r] = label /\ Goto(r, label)
        /\ UNCHANGED <<lease, live, gen, alloc, paidSig, status, payoutMode, walletVars>>
    BY <1>2 DEF TransferLands, Goto, IInv, Shapes, rowVars, fundVars, leaseVars
  <2>4. /\ \E T : ledger' \in Seq(T)
        /\ DOMAIN ledger' = DOMAIN ledger \cup {Len(ledger) + 1}
        /\ \A i \in DOMAIN ledger : ledger'[i] = ledger[i]
        /\ ledger'[Len(ledger) + 1] = Transfer(job[r].mode, b, job[r].rows)
    BY <2>1, Lands
  <2>5. Onward
    BY <2>3, <2>4 DEF Onward, Unpaid, IInv, Counted, walletVars, linkVars
  <2>6. RowsInv'
    BY <2>3, <2>5, RowsFrame DEF walletVars, linkVars
  <2>7. Custody(r)'
    <3>1. Custody(r)
      BY DEF IInv
    <3>2. CASE pc[r] = "fundSend"
      BY <2>2, <2>3, <3>1, <3>2 DEF Custody, LeasedPCs, Saving
    <3>3. CASE pc[r] = "paySend"
      <4>1. pc'[r] = "paySave" /\ job[r].mode = "direct"
        BY <2>3, <3>1, <3>3 DEF Custody, Saving
      <4>2. job'[r].sig \in DOMAIN ledger' /\ ledger'[job'[r].sig] = Transfer("direct", job'[r].batch, job'[r].rows)
        BY <2>2, <2>4, <4>1
      <4> QED
        BY <2>2, <2>3, <3>1, <3>3, <4>1, <4>2 DEF Custody, LeasedPCs
    <3> QED
      BY <2>3, <3>2, <3>3
  <2>8. ASSUME MaxDurationEnforced PROVE LeasedCustody(r)'
    BY <2>2, <2>3, <2>8 DEF IInv, LeasedCustody, LeasedPCs, Saving, Unpaid
  <2>9. OthersStay(r)
    BY <2>2, <2>3 DEF IInv, Shapes, Goto, OthersStay
  <2> QED
    BY <2>3, <2>5, <2>6, <2>7, <2>8, <2>9, LeaseUntouched, CustodyStep DEF leaseVars
<1> QED
  BY <1>1, <1>2

(* The signature of a landed transfer on rows that have none.  Used by the *)
(* custody handler and by the submit.                                      *)
LEMMA RecordsHonest ==
  ASSUME IInv, NEW ws, NEW rows, NEW sig \in DOMAIN ledger,
         ledger[sig] = Transfer("direct", ws, rows), rows = alloc,
         UNCHANGED <<gen, alloc, status, payoutMode, ledger, builds, sreq>>,
         NEW signed \in SUBSET {w \in ws : paidSig[w] = NoSig},
         paidSig' = [w \in Wallet |-> IF w \in signed THEN sig ELSE paidSig[w]]
  PROVE  Onward /\ RowsInv' /\ Unpaid' \subseteq Unpaid \ signed
<1>1. sig \in Nat \ {0}
  <2>1. PICK S : ledger \in Seq(S)
    BY DEF IInv, Counted
  <2> QED
    BY <2>1
<1>2. Unpaid' \subseteq Unpaid \ signed
  BY <1>1 DEF Unpaid, NoSig
<1>3. Onward
  BY <1>1, <1>2 DEF Onward, IInv, Counted
<1>4. SignedRecordsHonest'
  <2> SUFFICES ASSUME NEW w \in Recorded'
               PROVE  /\ paidSig'[w] \in DOMAIN ledger
                      /\ ledger[paidSig'[w]].kind = "direct"
                      /\ w \in DOMAIN ledger[paidSig'[w]].pays
                      /\ ledger[paidSig'[w]].pays[w] = alloc[w]
    BY DEF SignedRecordsHonest, Covers
  <2>1. CASE w \in signed
    BY <2>1 DEF Transfer, Recorded
  <2>2. CASE w \notin signed
    BY <2>2 DEF Recorded, IInv, RowsInv, SignedRecordsHonest, Covers
  <2> QED
    BY <2>1, <2>2
<1>5. ASSUME MaxDurationEnforced PROVE SignedExecutedPaid'
  BY <1>2, <1>5 DEF IInv, RowsInv, SignedExecutedPaid
<1> QED
  BY <1>2, <1>3, <1>4, <1>5 DEF IInv, RowsInv

LEMMA KeptByPaySave ==
  ASSUME IInv, NEW r \in Request, PaySave(r), UNCHANGED walletVars
  PROVE  IInv'
<1> DEFINE signed == {w \in Wallet : w \in job[r].batch /\ gen = job[r].gen /\ paidSig[w] = NoSig}
<1>1. /\ pc[r] = "paySave" /\ pc'[r] = "renew" /\ Goto(r, "renew") /\ job' = job
      /\ paidSig' = [w \in Wallet |-> IF w \in signed THEN job[r].sig ELSE paidSig[w]]
      /\ UNCHANGED <<gen, alloc, status, payoutMode, ledger, builds, sreq, lease, live>>
  BY DEF PaySave, Goto, IInv, Shapes, fundVars, leaseVars, chainVars, walletVars, linkVars
<1>2. Custody(r)
  BY DEF IInv
<1>3. Onward /\ RowsInv' /\ Unpaid' \subseteq Unpaid \ signed
  <2>1. CASE gen = job[r].gen
    <3>1. signed \in SUBSET {w \in job[r].batch : paidSig[w] = NoSig}
      OBVIOUS
    <3>2. /\ job[r].sig \in DOMAIN ledger /\ job[r].rows = alloc
          /\ ledger[job[r].sig] = Transfer("direct", job[r].batch, job[r].rows)
      BY <1>1, <1>2, <2>1 DEF Custody
    <3> HIDE DEF signed
    <3> QED
      BY <1>1, <3>1, <3>2, RecordsHonest
  <2>2. CASE gen # job[r].gen
    <3>1. signed = {} /\ paidSig' = paidSig
      BY <1>1, <2>2 DEF IInv, Counted
    <3>2. Onward
      BY <1>1, <3>1, OnwardIfSame
    <3> QED
      BY <1>1, <3>1, <3>2, RowsFrame DEF Unpaid
  <2> QED
    BY <2>1, <2>2
<1>4. Custody(r)'
  BY <1>1, <1>2 DEF Custody, LeasedPCs
<1>5. ASSUME MaxDurationEnforced PROVE LeasedCustody(r)'
  <2>1. LeasedCustody(r)
    BY <1>5 DEF IInv
  <2>2. Unpaid' \subseteq job[r].todo \ job[r].batch
    BY <1>1, <1>3, <2>1 DEF LeasedCustody, Unpaid
  <2> QED
    BY <1>1, <2>1, <2>2 DEF LeasedCustody, LeasedPCs
<1>6. OthersStay(r) /\ NotStolen(r)
  BY <1>1, LeaseUntouched DEF IInv, Shapes, Goto, OthersStay, leaseVars
<1> QED
  BY <1>3, <1>4, <1>5, <1>6, CustodyStep

(* The last step of a handler. *)
LEMMA KeptByEnd ==
  ASSUME IInv, NEW r \in Request, Mark(r) \/ Release(r), UNCHANGED walletVars
  PROVE  IInv'
<1>1. CASE Release(r)
  <2>1. NotStolen(r) /\ UNCHANGED <<gen, alloc, paidSig, status, ledger, walletVars, payoutMode>>
    BY <1>1, LeaseUntouched, LeaseOwn DEF Release, rowVars, fundVars, chainVars
  <2> QED
    BY <1>1, <2>1, Returned, CustodyQuiet DEF Release
<1>2. CASE Mark(r)
  <2>1. /\ pc[r] = "mark" /\ status' = "EXECUTED" /\ Return(r)
        /\ payoutMode' = IF job[r].mode = "escrow" THEN "ESCROW" ELSE "DIRECT"
        /\ UNCHANGED <<alloc, gen, paidSig, ledger, sreq, builds>>
    BY <1>2 DEF Mark, chainVars, walletVars, linkVars
  <2>2. Onward
    BY <2>1 DEF Onward, Unpaid, IInv, Counted
  <2>3. RowsInv'
    <3>1. SignedRecordsHonest'
      BY <2>1 DEF IInv, RowsInv, SignedRecordsHonest, Recorded, Covers
    <3>2. ASSUME MaxDurationEnforced PROVE SignedExecutedPaid'
      BY <2>1, <3>2 DEF IInv, Custody, LeasedCustody, SignedExecutedPaid, Unpaid
    <3> QED
      BY <2>1, <3>1, <3>2 DEF RowsInv
  <2>4. OthersStay(r) /\ Custody(r)' /\ LeasedCustody(r)'
    BY <2>1, Returned DEF OthersStay, IInv, Shapes, Goto
  <2>5. NotStolen(r)
    BY <2>1, LeaseOwn DEF IInv, LeasedCustody, LeasedPCs
  <2> QED
    BY <2>2, <2>3, <2>4, <2>5, CustodyStep
<1> QED
  BY <1>1, <1>2

-----------------------------------------------------------------------------
(* The handlers of the sign links.                                         *)

Known == InPlay \cup {NoPayload}

(* The links still carry payloads that were in play, and no new COMPLETED. *)
LinksKept ==
    /\ LinksStand
    /\ \A s \in SignId :
          /\ sreq'[s].payload \in Known
          /\ sreq'[s].status = "COMPLETED" => sreq[s].status = "COMPLETED"

LEMMA LinksSame == ASSUME IInv, UNCHANGED sreq PROVE LinksKept
BY DEF IInv, Shapes, LinksKept, LinksStand, Known, InPlay

LEMMA OwnKnown == ASSUME NEW h \in Submitter PROVE sjob[h].payload \in Known
BY DEF Known, InPlay

LEMMA StillInPlay ==
  ASSUME NEW h \in Submitter, LinksKept, sjob'[h].payload \in Known,
         \A g \in Submitter \ {h} : sjob'[g] = sjob[g]
  PROVE  InPlay' \subseteq InPlay
BY DEF LinksKept, Known, InPlay

(* What SGoto and SReturn do to the locals of h. *)
LocalsOf(h) ==
    /\ DOMAIN sjob' = Submitter /\ SjobFields \subseteq DOMAIN sjob'[h]
    /\ \A g \in Submitter \ {h} : sjob'[g] = sjob[g]
    /\ sjob'[h].payload \in Known

LEMMA SignerQuiet ==
  ASSUME IInv, NEW h \in Submitter, NEW label, SGoto(h, label), LocalsOf(h), LinksKept,
         NotStolen(h), UNCHANGED <<gen, alloc, paidSig, status, ledger, pc, job, landed, builds>>,
         payoutMode' \in {payoutMode, "ESCROW"},
         Signer(h)', MaxDurationEnforced => LeasedSigner(h)'
  PROVE  IInv'
<1>1. Onward
  BY OnwardIfSame
<1>2. RowsInv'
  BY <1>1, RowsFrame DEF LinksKept
<1>3. PayloadInv'
  BY <1>1, PayloadFrame, StillInPlay DEF LocalsOf
<1>4. SignersStay(h)
  BY DEF IInv, Shapes, SGoto, SignersStay, LocalsOf
<1>5. LinksStand
  BY DEF LinksKept
<1> QED
  BY <1>1, <1>2, <1>3, <1>4, <1>5, SignerStep

LEMMA SReturned ==
  ASSUME IInv, NEW h \in Submitter, SReturn(h)
  PROVE  /\ SGoto(h, "idle") /\ LocalsOf(h)
         /\ Signer(h)' /\ LeasedSigner(h)'
<1>1. /\ SGoto(h, "idle") /\ DOMAIN sjob' = Submitter /\ sjob'[h] = NoSjob /\ spc'[h] = "idle"
      /\ \A g \in Submitter \ {h} : sjob'[g] = sjob[g]
  BY DEF IInv, Shapes, SReturn, SGoto
<1>2. LocalsOf(h)
  BY <1>1 DEF NoSjob, SjobFields, LocalsOf, Known
<1>3. Signer(h)' /\ LeasedSigner(h)'
  BY <1>1 DEF Signer, LeasedSigner, Paying
<1> QED
  BY <1>1, <1>2, <1>3

LEMMA LocalsSame == ASSUME IInv, NEW h \in Submitter, UNCHANGED sjob PROVE LocalsOf(h)
BY OwnKnown DEF IInv, Shapes, LocalsOf

(* Asking for a link. *)
LEMMA KeptByAsk ==
  ASSUME IInv, NEW h \in Submitter, AskLink(h) \/ WriteLink(h)
  PROVE  IInv'
<1>1. CASE AskLink(h)
  <2>1. PICK label \in {"reopen", "create"} : SGoto(h, label)
    BY <1>1 DEF AskLink
  <2>2. /\ DOMAIN sjob' = Submitter /\ SjobFields \subseteq DOMAIN sjob'[h]
        /\ \A g \in Submitter \ {h} : sjob'[g] = sjob[g]
        /\ sjob'[h].payload = sjob[h].payload
    BY <1>1 DEF AskLink, IInv, Shapes, SjobFields
  <2>3. LocalsOf(h)
    BY <2>2, OwnKnown DEF LocalsOf
  <2>4. spc'[h] = label
    BY <2>1 DEF SGoto, IInv, Shapes
  <2>5. Signer(h)' /\ LeasedSigner(h)'
    BY <2>4 DEF Signer, LeasedSigner, Paying
  <2>6. /\ UNCHANGED <<gen, alloc, paidSig, status, ledger, pc, job, landed, builds, payoutMode, sreq>>
        /\ NotStolen(h)
    BY <1>1, LeaseUntouched DEF AskLink, vars, linkVars, rowVars, fundVars, chainVars
  <2> QED
    BY <2>1, <2>3, <2>5, <2>6, LinksSame, SignerQuiet
<1>2. CASE WriteLink(h)
  <2>1. LinksKept
    <3>1. CASE Resummarise(sjob[h].link, sjob[h].meta)
      BY <3>1 DEF Resummarise, IInv, Shapes, LinksKept, LinksStand, Known, InPlay
    <3>2. CASE CreateRequest(1, sjob[h].meta)
      <4>1. PICK s \in SignId : sreq' = [sreq EXCEPT ![s] = [NoRequest EXCEPT
               !.status = "PENDING", !.live = TRUE, !.subject = 1, !.meta = sjob[h].meta]]
        BY <3>2 DEF CreateRequest
      <4>2. /\ DOMAIN sreq' = SignId /\ \A q \in SignId \ {s} : sreq'[q] = sreq[q]
            /\ sreq'[s].status = "PENDING" /\ sreq'[s].payload = NoPayload
            /\ {"status", "payload"} \subseteq DOMAIN sreq'[s]
        BY <4>1 DEF IInv, Shapes, NoRequest
      <4> QED
        BY <4>2 DEF IInv, Shapes, LinksKept, LinksStand, Known, InPlay
    <3> QED
      BY <1>2, <3>1, <3>2 DEF WriteLink
  <2>2. /\ UNCHANGED <<gen, alloc, paidSig, status, ledger, pc, job, landed, builds, payoutMode>>
        /\ NotStolen(h) /\ SReturn(h)
    BY <1>2, LeaseUntouched DEF WriteLink, vars, rowVars, fundVars, chainVars
  <2> QED
    BY <2>1, <2>2, SReturned, SignerQuiet
<1> QED
  BY <1>1, <1>2

(* Building and saving a payload. *)
LEMMA KeptBySaveBuild == ASSUME IInv, NEW h \in Submitter, SaveBuild(h) PROVE IInv'
<1>1. LinksKept
  BY OwnKnown DEF SaveBuild, SavePayload, IInv, Shapes, LinksKept, LinksStand, Known, InPlay
<1>2. /\ UNCHANGED <<gen, alloc, paidSig, status, ledger, pc, job, landed, builds, payoutMode>>
      /\ NotStolen(h) /\ SReturn(h)
  BY LeaseUntouched DEF SaveBuild, vars, rowVars, fundVars, chainVars
<1> QED
  BY <1>1, <1>2, SReturned, SignerQuiet

LEMMA KeptByStartSubmit ==
  ASSUME IInv, NEW h \in Submitter, NEW s \in SignId, NEW w \in Founder, StartSubmit(h, s, w)
  PROVE  IInv'
<1>1. /\ DOMAIN sjob' = Submitter /\ SjobFields \subseteq DOMAIN sjob'[h]
      /\ \A g \in Submitter \ {h} : sjob'[g] = sjob[g]
      /\ sjob'[h].payload = sreq[s].payload /\ sreq[s].payload # NoPayload
  BY DEF StartSubmit, MaySubmit, IInv, Shapes, SjobFields
<1>2. /\ SGoto(h, "claim") /\ spc'[h] = "claim" /\ LocalsOf(h)
  BY <1>1 DEF StartSubmit, SGoto, IInv, Shapes, LocalsOf, Known, InPlay
<1>3. Signer(h)' /\ LeasedSigner(h)'
  BY <1>1, <1>2 DEF Signer, LeasedSigner, Paying, Payload
<1>4. /\ UNCHANGED <<gen, alloc, paidSig, status, ledger, pc, job, landed, builds, payoutMode, sreq>>
      /\ NotStolen(h)
  BY LeaseUntouched DEF StartSubmit, vars, linkVars, rowVars, fundVars, chainVars
<1> QED
  BY <1>2, <1>3, <1>4, LinksSame, SignerQuiet

(* The new payload has a number of its own and the rows of now.            *)
LEMMA KeptByStartBuild ==
  ASSUME IInv, NEW h \in Submitter, NEW s \in SignId, NEW w \in Founder, StartBuild(h, s, w)
  PROVE  IInv'
<1>1. PICK bs : sjob' = [sjob EXCEPT ![h].link = s, ![h].wallet = w,
                  ![h].payload = [build |-> builds + 1, mode |-> sreq[s].meta.mode,
                                  gen |-> gen, rows |-> alloc, batches |-> bs]]
  BY DEF StartBuild
<1> DEFINE new == [build |-> builds + 1, mode |-> sreq[s].meta.mode,
                   gen |-> gen, rows |-> alloc, batches |-> bs]
<1>2. /\ DOMAIN sjob' = Submitter /\ SjobFields \subseteq DOMAIN sjob'[h]
      /\ \A g \in Submitter \ {h} : sjob'[g] = sjob[g]
      /\ sjob'[h].payload = new
  BY <1>1 DEF IInv, Shapes, SjobFields
<1>3. /\ SGoto(h, "saveBuild") /\ spc'[h] = "saveBuild" /\ builds' = builds + 1 /\ NotStolen(h)
      /\ UNCHANGED <<gen, alloc, paidSig, status, ledger, pc, job, landed, payoutMode, sreq>>
  BY LeaseUntouched DEF StartBuild, SGoto, IInv, Shapes, vars, rowVars, fundVars, chainVars
<1>4. builds + 1 \in Nat /\ 0..builds \subseteq 0..(builds + 1) /\ builds + 1 \notin 0..builds /\ gen \in 0..gen
  BY DEF IInv, Counted
<1>5. Onward
  BY <1>3, <1>4 DEF Onward, IInv, Counted, Unpaid
<1>6. PayloadInv'
  <2>1. InPlay' \subseteq InPlay \cup {new}
    BY <1>2, <1>3 DEF InPlay
  <2>2. ASSUME NEW p \in InPlay PROVE Faithful(p)' /\ p.build # builds + 1
    BY <1>3, <1>4 DEF IInv, PayloadInv, Faithful
  <2>3. ASSUME NEW p, p = new PROVE Faithful(p)'
    BY <2>3, <1>3, <1>4 DEF IInv, PayloadInv, Faithful
  <2>4. new.build = builds + 1
    OBVIOUS
  <2> HIDE DEF new
  <2>5. ASSUME NEW p \in InPlay', NEW q \in InPlay', p.build = q.build PROVE p = q
    BY <2>1, <2>2, <2>4, <2>5 DEF IInv, PayloadInv
  <2>6. ASSUME NEW t \in landed' PROVE t.build \in 0..builds' /\ t.sig \in DOMAIN ledger'
    BY <1>3, <1>4 DEF IInv, PayloadInv
  <2> QED
    BY <2>1, <2>2, <2>3, <2>5, <2>6 DEF PayloadInv
<1>7. RowsInv'
  BY <1>3, <1>5, RowsFrame
<1>8. Signer(h)' /\ LeasedSigner(h)'
  BY <1>3 DEF Signer, LeasedSigner, Paying
<1>9. SignersStay(h) /\ LinksStand
  BY <1>2, <1>3 DEF SignersStay, LinksStand, SGoto, IInv, Shapes
<1> QED
  BY <1>3, <1>5, <1>6, <1>7, <1>8, <1>9, SignerStep

(* Claiming, and giving the lease back. *)
LEMMA KeptByClaimSigned == ASSUME IInv, NEW h \in Submitter, ClaimSigned(h) PROVE IInv'
<1>1. /\ UNCHANGED <<gen, alloc, paidSig, status, ledger, pc, job, landed, builds, payoutMode, sreq>>
      /\ spc[h] = "claim"
  BY DEF ClaimSigned, rowVars, fundVars, chainVars, linkVars
<1>2. CASE SignedClaimable(h)
  <2>1. /\ SGoto(h, "send") /\ spc'[h] = "send" /\ sjob' = sjob /\ lease' = h /\ live'
        /\ NotStolen(h)
    BY <1>2, LeaseTaken DEF ClaimSigned, SignedClaimable, SGoto, IInv, Shapes
  <2>2. Signer(h)' /\ LeasedSigner(h)'
    BY <1>1, <2>1 DEF IInv, Signer, LeasedSigner, Paying, Payload
  <2> QED
    BY <1>1, <2>1, <2>2, LocalsSame, LinksSame, SignerQuiet
<1>3. CASE ~SignedClaimable(h)
  <2>1. SReturn(h) /\ NotStolen(h)
    BY <1>3, LeaseUntouched DEF ClaimSigned
  <2> QED
    BY <1>1, <2>1, SReturned, LinksSame, SignerQuiet
<1> QED
  BY <1>2, <1>3

LEMMA KeptByReleaseSigned == ASSUME IInv, NEW h \in Submitter, ReleaseSigned(h) PROVE IInv'
<1>1. /\ UNCHANGED <<gen, alloc, paidSig, status, ledger, pc, job, landed, builds, payoutMode, sreq>>
      /\ SReturn(h) /\ NotStolen(h)
  BY LeaseUntouched, LeaseOwn DEF ReleaseSigned, rowVars, fundVars, chainVars, linkVars
<1> QED
  BY <1>1, SReturned, LinksSame, SignerQuiet

(* A step of a submit that holds its lease and only moves on.              *)
LEMMA SubmitMoves ==
  ASSUME IInv, NEW h \in Submitter, Paying(h), NEW label, SGoto(h, label),
         label \in {"send", "check", "release", "mark"},
         label = "mark" => sjob[h].payload.mode = "escrow" \/ Unpaid = {},
         DOMAIN sjob' = Submitter, SjobFields \subseteq DOMAIN sjob'[h],
         \A g \in Submitter \ {h} : sjob'[g] = sjob[g],
         sjob'[h].payload = sjob[h].payload,
         UNCHANGED <<gen, alloc, paidSig, status, ledger, pc, job, landed, builds, sreq, lease>>,
         live => live', payoutMode' \in {payoutMode, "ESCROW"}
  PROVE  IInv'
<1>1. spc'[h] = label
  BY DEF SGoto, IInv, Shapes
<1>2. LocalsOf(h)
  BY OwnKnown DEF LocalsOf
<1>3. Signer(h)'
  BY <1>1 DEF IInv, Signer, Paying, Payload
<1>4. ASSUME MaxDurationEnforced PROVE LeasedSigner(h)'
  BY <1>1, <1>4 DEF IInv, LeasedSigner, Paying, Payload, Unpaid
<1>5. NotStolen(h)
  BY DEF NotStolen
<1> QED
  BY <1>2, <1>3, <1>4, <1>5, LinksSame, SignerQuiet

LEMMA KeptBySubmitMoves ==
  ASSUME IInv, NEW h \in Submitter,
         SignedFails(h) \/ SaveFunded(h) \/ RenewSigned(h) \/ CheckPaid(h)
  PROVE  IInv'
<1>1. Paying(h) /\ UNCHANGED <<gen, alloc, paidSig, status, ledger, pc, job, landed, builds, sreq, lease>>
  BY DEF SignedFails, SaveFunded, RenewSigned, CheckPaid, Paying, vars, rowVars, leaseVars, chainVars, linkVars
<1>2. CASE SignedFails(h)
  <2>1. SGoto(h, "release") /\ UNCHANGED <<sjob, live, payoutMode>>
    BY <1>2 DEF SignedFails, vars, leaseVars, fundVars
  <2>2. DOMAIN sjob' = Submitter /\ SjobFields \subseteq DOMAIN sjob'[h]
    BY <2>1 DEF IInv, Shapes
  <2> QED
    BY <1>1, <2>1, <2>2, SubmitMoves
<1>3. CASE SaveFunded(h)
  <2>1. /\ SGoto(h, "mark") /\ live' = live /\ payoutMode' \in {payoutMode, "ESCROW"}
        /\ sjob[h].payload.mode = "escrow"
    BY <1>3 DEF SaveFunded, leaseVars, fundVars, Payload
  <2>2. /\ DOMAIN sjob' = Submitter /\ SjobFields \subseteq DOMAIN sjob'[h]
        /\ \A g \in Submitter \ {h} : sjob'[g] = sjob[g]
        /\ sjob'[h].payload = sjob[h].payload
    BY <1>3 DEF SaveFunded, IInv, Shapes, SjobFields
  <2> QED
    BY <1>1, <2>1, <2>2, SubmitMoves
<1>4. CASE RenewSigned(h)
  <2>1. PICK label \in {"send", "check"} : SGoto(h, label)
    BY <1>4 DEF RenewSigned
  <2>2. /\ DOMAIN sjob' = Submitter /\ SjobFields \subseteq DOMAIN sjob'[h]
        /\ \A g \in Submitter \ {h} : sjob'[g] = sjob[g]
        /\ sjob'[h].payload = sjob[h].payload
    BY <1>4 DEF RenewSigned, IInv, Shapes, SjobFields
  <2>3. (live => live') /\ payoutMode' = payoutMode
    BY <1>4 DEF RenewSigned, fundVars
  <2> QED
    BY <1>1, <2>1, <2>2, <2>3, SubmitMoves
<1>5. CASE CheckPaid(h)
  <2>1. PICK label \in {"mark", "release"} : SGoto(h, label) /\ (label = "mark" => Unpaid = {})
    BY <1>5 DEF CheckPaid
  <2>2. UNCHANGED <<sjob, live, payoutMode>>
    BY <1>5 DEF CheckPaid, vars, leaseVars, fundVars
  <2>3. DOMAIN sjob' = Submitter /\ SjobFields \subseteq DOMAIN sjob'[h]
    BY <2>2 DEF IInv, Shapes
  <2> QED
    BY <1>1, <2>1, <2>2, <2>3, SubmitMoves
<1> QED
  BY <1>2, <1>3, <1>4, <1>5

(* A wallet transaction lands: what the payload says, under its number.    *)
LEMMA Landed ==
  ASSUME IInv, NEW h \in Submitter, Payload(h) # NoPayload, Land(h), InPlay' \subseteq InPlay,
         UNCHANGED <<gen, alloc, paidSig, status, builds>>
  PROVE  /\ Onward /\ PayloadInv'
         /\ Len(ledger) + 1 \in DOMAIN ledger'
         /\ ledger'[Len(ledger) + 1] = Transfer(Payload(h).mode, Batch(h), Payload(h).rows)
<1> DEFINE e == Transfer(Payload(h).mode, Batch(h), Payload(h).rows)
           new == [build |-> Payload(h).build, n |-> sjob[h].n, sig |-> Len(ledger) + 1]
<1>1. ledger' = Append(ledger, e) /\ landed' = landed \cup {new}
  BY DEF Land
<1>2. /\ \E T : ledger' \in Seq(T)
      /\ DOMAIN ledger' = DOMAIN ledger \cup {Len(ledger) + 1}
      /\ \A i \in DOMAIN ledger : ledger'[i] = ledger[i]
      /\ ledger'[Len(ledger) + 1] = e
  <2> HIDE DEF e
  <2> QED
    BY <1>1, Lands
<1>3. Onward
  BY <1>2 DEF Onward, IInv, Counted, Unpaid
<1>4. Payload(h) \in InPlay
  BY DEF Payload, InPlay
<1>5. ASSUME NEW p \in InPlay PROVE Faithful(p)'
  <2>1. p.build \in 0..builds' /\ p.gen \in 0..gen' /\ (p.gen = gen' => p.rows = alloc')
    BY DEF IInv, PayloadInv, Faithful
  <2>2. ASSUME NEW t \in landed', t.build = p.build
        PROVE  ledger'[t.sig] = Transfer(p.mode, p.batches[t.n], p.rows)
    <3>1. CASE t \in landed
      BY <1>2, <2>2, <3>1 DEF IInv, PayloadInv, Faithful
    <3>2. CASE t = new
      <4>1. p = Payload(h)
        BY <1>4, <2>2, <3>2 DEF IInv, PayloadInv
      <4> QED
        BY <1>2, <3>2, <4>1 DEF Batch
    <3> QED
      BY <1>1, <2>2, <3>1, <3>2
  <2> QED
    BY <2>1, <2>2 DEF Faithful
<1>6. ASSUME NEW t \in landed' PROVE t.build \in 0..builds' /\ t.sig \in DOMAIN ledger'
  BY <1>1, <1>2, <1>4, <1>6 DEF IInv, PayloadInv, Faithful
<1>7. PayloadInv'
  BY <1>5, <1>6 DEF IInv, PayloadInv
<1> QED
  BY <1>2, <1>3, <1>7

LEMMA KeptBySignedLands == ASSUME IInv, NEW h \in Submitter, SignedLands(h) PROVE IInv'
<1>1. /\ spc[h] = "send" /\ SGoto(h, "record") /\ spc'[h] = "record"
      /\ UNCHANGED <<gen, alloc, paidSig, status, payoutMode, lease, live, pc, job, builds, sreq>>
  BY DEF SignedLands, SGoto, IInv, Shapes, rowVars, fundVars, leaseVars
<1>2. PICK sig : sjob' = [sjob EXCEPT ![h].sig = sig]
                 /\ \/ Land(h) /\ sig = Len(ledger) + 1
                    \/ (\E t \in Sent(h) : sig = t.sig) /\ UNCHANGED <<ledger, landed>>
  BY DEF SignedLands
<1>3. /\ DOMAIN sjob' = Submitter /\ SjobFields \subseteq DOMAIN sjob'[h]
      /\ \A g \in Submitter \ {h} : sjob'[g] = sjob[g]
      /\ sjob'[h].payload = sjob[h].payload /\ sjob'[h].n = sjob[h].n /\ sjob'[h].sig = sig
  BY <1>2 DEF IInv, Shapes, SjobFields
<1>4. InPlay' \subseteq InPlay
  BY <1>1, <1>3, LinksSame, StillInPlay, OwnKnown
<1>5. Payload(h) # NoPayload /\ Payload(h) \in InPlay
  BY <1>1 DEF IInv, Signer, Paying, Payload, InPlay
<1>6. /\ Onward /\ PayloadInv' /\ sig \in DOMAIN ledger'
      /\ ledger'[sig] = Transfer(Payload(h).mode, Batch(h), Payload(h).rows)
  <2>1. CASE Land(h) /\ sig = Len(ledger) + 1
    BY <1>1, <1>4, <1>5, <2>1, Landed
  <2>2. CASE (\E t \in Sent(h) : sig = t.sig) /\ UNCHANGED <<ledger, landed>>
    <3>1. Onward
      BY <1>1, <2>2, OnwardIfSame
    <3>2. PayloadInv'
      BY <1>4, <2>2, <3>1, PayloadFrame
    <3>3. PICK t \in landed : t.build = Payload(h).build /\ t.n = sjob[h].n /\ sig = t.sig
      BY <2>2 DEF Sent
    <3>4. sig \in DOMAIN ledger /\ ledger[sig] = Transfer(Payload(h).mode, Batch(h), Payload(h).rows)
      BY <1>5, <3>3 DEF IInv, PayloadInv, Faithful, Batch
    <3> QED
      BY <2>2, <3>1, <3>2, <3>4
  <2> QED
    BY <1>2, <2>1, <2>2
<1>7. Signer(h)' /\ (MaxDurationEnforced => LeasedSigner(h)')
  BY <1>1, <1>3, <1>5, <1>6 DEF IInv, Signer, LeasedSigner, Paying, Payload, Batch
<1>8. RowsInv' /\ NotStolen(h) /\ SignersStay(h) /\ LinksStand
  BY <1>1, <1>3, <1>6, RowsFrame, LinksSame, LeaseUntouched
     DEF SignersStay, SGoto, IInv, Shapes, LinksKept, leaseVars
<1> QED
  BY <1>1, <1>6, <1>7, <1>8, SignerStep

LEMMA KeptBySignedUnknown == ASSUME IInv, NEW h \in Submitter, SignedUnknown(h) PROVE IInv'
<1>1. /\ spc[h] = "send" /\ SGoto(h, "release") /\ spc'[h] = "release" /\ Land(h)
      /\ UNCHANGED <<gen, alloc, paidSig, status, payoutMode, lease, live, pc, job, builds, sreq, sjob>>
  BY DEF SignedUnknown, SGoto, IInv, Shapes, rowVars, fundVars, leaseVars
<1>2. Payload(h) # NoPayload /\ InPlay' = InPlay
  BY <1>1 DEF IInv, Signer, Paying, InPlay
<1>3. Onward /\ PayloadInv'
  BY <1>1, <1>2, Landed
<1>4. Signer(h)' /\ (MaxDurationEnforced => LeasedSigner(h)')
  BY <1>1, <1>2 DEF IInv, Signer, LeasedSigner, Paying, Payload
<1>5. RowsInv' /\ NotStolen(h) /\ SignersStay(h) /\ LinksStand
  BY <1>1, <1>3, RowsFrame, LinksSame, LeaseUntouched
     DEF SignersStay, SGoto, IInv, Shapes, LinksKept, leaseVars
<1> QED
  BY <1>1, <1>3, <1>4, <1>5, SignerStep

LEMMA KeptByRecordSignature == ASSUME IInv, NEW h \in Submitter, RecordSignature(h) PROVE IInv'
<1>1. /\ spc[h] = "record" /\ SGoto(h, "save") /\ spc'[h] = "save"
      /\ UNCHANGED <<gen, alloc, paidSig, status, payoutMode, lease, live, ledger, pc, job, landed, builds, sjob>>
  BY DEF RecordSignature, SGoto, IInv, Shapes, vars, rowVars, fundVars, leaseVars, chainVars
<1>2. LinksKept
  BY DEF RecordSignature, WriteSignatures, IInv, Shapes, LinksKept, LinksStand, Known, InPlay
<1>3. Signer(h)' /\ (MaxDurationEnforced => LeasedSigner(h)')
  BY <1>1 DEF IInv, Signer, LeasedSigner, Paying, Payload, Batch
<1> QED
  BY <1>1, <1>2, <1>3, LocalsSame, LeaseUntouched, SignerQuiet DEF leaseVars

LEMMA KeptBySaveSigned == ASSUME IInv, NEW h \in Submitter, SaveSigned(h) PROVE IInv'
<1>1. /\ spc[h] = "save" /\ SGoto(h, "renew") /\ spc'[h] = "renew" /\ Payload(h).mode = "direct"
      /\ paidSig' = [w \in Wallet |-> IF w \in Recordable(h) THEN sjob[h].sig ELSE paidSig[w]]
      /\ UNCHANGED <<gen, alloc, status, payoutMode, lease, live, ledger, pc, job, landed, builds, sreq, sjob>>
  BY DEF SaveSigned, SGoto, IInv, Shapes, fundVars, leaseVars, linkVars
<1>2. /\ Payload(h) \in InPlay
      /\ sjob[h].sig \in DOMAIN ledger
      /\ ledger[sjob[h].sig] = Transfer("direct", Batch(h), Payload(h).rows)
  BY <1>1 DEF IInv, Signer, Paying, Payload, InPlay
<1>3. Onward /\ RowsInv'
  <2>1. CASE gen = Payload(h).gen
    <3>1. Payload(h).rows = alloc
      BY <1>2, <2>1 DEF IInv, PayloadInv, Faithful
    <3>2. Recordable(h) \in SUBSET {w \in Batch(h) : paidSig[w] = NoSig}
      BY DEF Recordable
    <3> QED
      BY <1>1, <1>2, <3>1, <3>2, RecordsHonest
  <2>2. CASE gen # Payload(h).gen
    <3>1. paidSig' = paidSig
      BY <1>1, <2>2 DEF Recordable, IInv, Counted
    <3>2. Onward
      BY <1>1, <3>1, OnwardIfSame
    <3> QED
      BY <1>1, <3>1, <3>2, RowsFrame
  <2> QED
    BY <2>1, <2>2
<1>4. PayloadInv'
  BY <1>1, <1>3, PayloadFrame DEF InPlay
<1>5. Signer(h)' /\ (MaxDurationEnforced => LeasedSigner(h)')
  BY <1>1 DEF IInv, Signer, LeasedSigner, Paying, Payload
<1>6. NotStolen(h) /\ SignersStay(h) /\ LinksStand
  BY <1>1, LinksSame, LeaseUntouched DEF SignersStay, SGoto, IInv, Shapes, LinksKept, leaseVars
<1> QED
  BY <1>1, <1>3, <1>4, <1>5, <1>6, SignerStep

LEMMA KeptByMarkSigned == ASSUME IInv, NEW h \in Submitter, MarkSigned(h) PROVE IInv'
<1>1. /\ spc[h] = "mark" /\ SGoto(h, "complete") /\ spc'[h] = "complete" /\ status' = "EXECUTED"
      /\ payoutMode' = IF Payload(h).mode = "escrow" THEN "ESCROW" ELSE "DIRECT"
      /\ UNCHANGED <<gen, alloc, paidSig, ledger, pc, job, landed, builds, sreq, sjob>>
  BY DEF MarkSigned, SGoto, IInv, Shapes, chainVars, linkVars
<1>2. Onward
  BY <1>1 DEF Onward, Unpaid, IInv, Counted
<1>3. RowsInv'
  <2>1. SignedRecordsHonest'
    BY <1>1 DEF IInv, RowsInv, SignedRecordsHonest, Recorded, Covers
  <2>2. ASSUME MaxDurationEnforced PROVE SignedExecutedPaid'
    BY <1>1, <2>2 DEF IInv, LeasedSigner, SignedExecutedPaid, Unpaid
  <2> QED
    BY <1>1, <2>1, <2>2 DEF RowsInv
<1>4. PayloadInv'
  BY <1>1, <1>2, PayloadFrame DEF InPlay
<1>5. Signer(h)' /\ LeasedSigner(h)'
  BY <1>1 DEF Signer, LeasedSigner, Paying
<1>6. NotStolen(h) /\ SignersStay(h) /\ LinksStand
  BY <1>1, LinksSame, LeaseOwn
     DEF SignersStay, SGoto, IInv, Shapes, LinksKept, LeasedSigner, Paying
<1> QED
  BY <1>1, <1>2, <1>3, <1>4, <1>5, <1>6, SignerStep

LEMMA KeptByCompleteSubmit == ASSUME IInv, NEW h \in Submitter, CompleteSubmit(h) PROVE IInv'
<1>1. /\ spc[h] = "complete" /\ SReturn(h) /\ NotStolen(h)
      /\ UNCHANGED <<gen, alloc, paidSig, status, payoutMode, ledger, pc, job, landed, builds>>
  BY LeaseUntouched DEF CompleteSubmit, vars, rowVars, fundVars, chainVars
<1>2. status = "EXECUTED"
  BY <1>1 DEF IInv, Signer
<1>3. LinksStand /\ \A s \in SignId : sreq'[s].payload \in Known
  BY DEF CompleteSubmit, CompleteRequest, IInv, Shapes, LinksStand, Known, InPlay
<1>4. /\ SGoto(h, "idle") /\ LocalsOf(h) /\ Signer(h)' /\ LeasedSigner(h)'
  BY <1>1, SReturned
<1>5. Onward
  BY <1>1, OnwardIfSame
<1>6. PayloadInv'
  <2>1. InPlay' \subseteq InPlay
    BY <1>3, <1>4 DEF LocalsOf, Known, InPlay
  <2> QED
    BY <1>1, <1>5, <2>1, PayloadFrame
<1>7. RowsInv'
  <2>1. SignedRecordsHonest' /\ (MaxDurationEnforced => SignedExecutedPaid')
    BY <1>1 DEF IInv, RowsInv, SignedRecordsHonest, SignedExecutedPaid, Recorded, Covers, Unpaid
  <2> QED
    BY <1>1, <1>2, <2>1 DEF RowsInv
<1>8. SignersStay(h)
  BY <1>4 DEF SignersStay, LocalsOf, SGoto, IInv, Shapes
<1> QED
  BY <1>1, <1>3, <1>4, <1>5, <1>6, <1>7, <1>8, SignerStep

-----------------------------------------------------------------------------
(* Faults and time.                                                        *)

LEMMA KeptByFaults ==
  ASSUME IInv, NEW h \in Submitter, SignedCrash(h) \/ SignedDatabaseError(h)
  PROVE  IInv'
<1>1. /\ UNCHANGED <<gen, alloc, paidSig, status, payoutMode, lease, live, ledger, pc, job, landed, builds, sreq>>
      /\ NotStolen(h)
  BY LeaseUntouched DEF SignedCrash, SignedDatabaseError, rowVars, fundVars, leaseVars, linkVars
<1>2. CASE SReturn(h)
  BY <1>1, <1>2, SReturned, LinksSame, SignerQuiet
<1>3. CASE spc[h] \in {"record", "save", "renew", "check", "mark"} /\ SGoto(h, "release") /\ UNCHANGED sjob
  <2>1. spc'[h] = "release"
    BY <1>3 DEF SGoto, IInv, Shapes
  <2>2. Signer(h)' /\ (MaxDurationEnforced => LeasedSigner(h)')
    BY <1>1, <1>3, <2>1 DEF IInv, Signer, LeasedSigner, Paying, Payload
  <2> QED
    BY <1>1, <1>3, <2>2, LocalsSame, LinksSame, SignerQuiet
<1> QED
  BY <1>2, <1>3 DEF SignedCrash, SignedDatabaseError

(* When time passes nobody moves.                                          *)
LEMMA Bystanders ==
  ASSUME IInv, UNCHANGED <<rowVars, payoutMode, ledger, pc, job, landed, builds, spc, sjob>>, LinksKept,
         \A q \in Request : MaxDurationEnforced => LeasedCustody(q)',
         \A h \in Submitter : MaxDurationEnforced => LeasedSigner(h)'
  PROVE  IInv'
<1>1. Onward
  BY OnwardIfSame DEF rowVars
<1>2. InPlay' \subseteq InPlay
  BY DEF LinksKept, Known, InPlay
<1>3. PayloadInv' /\ RowsInv'
  BY <1>1, <1>2, PayloadFrame, RowsFrame DEF rowVars, LinksKept
<1>4. Shapes' /\ Counted'
  BY DEF IInv, Shapes, Counted, LinksKept, LinksStand, rowVars
<1>5. \A q \in Request : Custody(q)'
  BY DEF IInv, Custody, rowVars
<1>6. \A h \in Submitter : Signer(h)'
  BY DEF IInv, Signer, Paying, Payload, Batch, rowVars
<1> QED
  BY <1>3, <1>4, <1>5, <1>6 DEF IInv

(* A lease runs out only when its holder is gone, so nobody has one then.  *)
LEMMA KeptByExpiry == ASSUME IInv, ExpireSigned PROVE IInv'
<1>1. /\ UNCHANGED <<rowVars, payoutMode, ledger, pc, job, landed, builds, spc, sjob, sreq>>
      /\ MaxDurationEnforced => ~(IF lease \in Submitter THEN Paying(lease) ELSE Executing(lease))
  BY DEF ExpireSigned, fundVars, chainVars, walletVars, linkVars
<1>2. ASSUME MaxDurationEnforced, NEW q \in Request PROVE LeasedCustody(q)'
  <2>1. pc[q] \notin LeasedPCs
    BY <1>1, <1>2, WalletAssumption DEF IInv, Custody, LeasedCustody, Executing
  <2> QED
    BY <1>1, <2>1 DEF LeasedCustody, LeasedPCs
<1>3. ASSUME MaxDurationEnforced, NEW h \in Submitter PROVE LeasedSigner(h)'
  <2>1. ~Paying(h)
    BY <1>1, <1>3 DEF IInv, LeasedSigner
  <2> QED
    BY <1>1, <2>1 DEF LeasedSigner, Paying
<1> QED
  BY <1>1, <1>2, <1>3, LinksSame, Bystanders

LEMMA KeptByTime == ASSUME IInv, UNCHANGED <<vars, landed, builds, spc, sjob>>, LinksKept PROVE IInv'
<1>1. UNCHANGED <<rowVars, payoutMode, ledger, pc, job, landed, builds, spc, sjob, lease, live>>
  BY DEF vars, fundVars, leaseVars, chainVars
<1>2. \A q \in Request : MaxDurationEnforced => LeasedCustody(q)'
  BY <1>1 DEF IInv, LeasedCustody, Unpaid, rowVars
<1>3. \A h \in Submitter : MaxDurationEnforced => LeasedSigner(h)'
  BY <1>1 DEF IInv, LeasedSigner, Paying, Payload, Unpaid, rowVars
<1> QED
  BY <1>1, <1>2, <1>3, Bystanders

LEMMA KeptByLinkTime == ASSUME IInv, LinkTime PROVE IInv'
<1>1. LinksKept
  BY DEF LinkTime, LinkExpires, LoadExpired, IInv, Shapes, LinksKept, LinksStand, Known, InPlay
<1> QED
  BY <1>1, KeptByTime DEF LinkTime

LEMMA KeptByRest == ASSUME IInv, UNCHANGED payVars PROVE IInv'
BY LinksSame, KeptByTime DEF payVars, walletVars, linkVars

-----------------------------------------------------------------------------
(* The invariant.                                                          *)

LEMMA Initially == WalletInit => IInv
<1> SUFFICES ASSUME WalletInit PROVE IInv
  OBVIOUS
<1>1. Shapes
  BY DEF WalletInit, Init, SignInit, Shapes, NoJob, NoSjob, NoRequest, JobFields, SjobFields
<1>2. Counted
  BY DEF WalletInit, Init, Counted, NoSig
<1>3. InPlay = {}
  BY DEF WalletInit, SignInit, InPlay, NoSjob, NoRequest
<1>4. PayloadInv
  BY <1>3 DEF WalletInit, PayloadInv
<1>5. RowsInv
  BY DEF WalletInit, Init, SignInit, NoRequest, RowsInv, SignedRecordsHonest, Recorded, SignedExecutedPaid
<1>6. ASSUME NEW r \in Request PROVE Custody(r) /\ LeasedCustody(r)
  BY DEF WalletInit, Init, NoJob, Custody, LeasedCustody, LeasedPCs
<1>7. ASSUME NEW h \in Submitter PROVE Signer(h) /\ LeasedSigner(h)
  BY DEF WalletInit, Signer, LeasedSigner, Paying
<1> QED
  BY <1>1, <1>2, <1>4, <1>5, <1>6, <1>7 DEF IInv

LEMMA Inductive == IInv /\ [WalletNext]_payVars => IInv'
<1> SUFFICES ASSUME IInv, [WalletNext]_payVars PROVE IInv'
  OBVIOUS
<1>1. ASSUME NEW r \in Request, Snapshot(r) \/ Execute(r), UNCHANGED walletVars PROVE IInv'
  BY <1>1, KeptBySnapshot, KeptByClaim, KeptByFund, KeptByPay, KeptByTransfer, KeptByPaySave, KeptByEnd
     DEF Execute
<1>2. ASSUME NEW h \in Submitter, Link(h) PROVE IInv'
  BY <1>2, KeptByAsk, KeptBySaveBuild, KeptByStartBuild, KeptByStartSubmit DEF Link
<1>3. ASSUME NEW h \in Submitter, Submit(h) PROVE IInv'
  BY <1>3, KeptByClaimSigned, KeptBySignedLands, KeptBySubmitMoves, KeptByRecordSignature,
     KeptBySaveSigned, KeptByMarkSigned, KeptByCompleteSubmit, KeptByReleaseSigned DEF Submit
<1>4. ASSUME NEW h \in Submitter, SignedUnknown(h) \/ SignedCrash(h) \/ SignedDatabaseError(h) PROVE IInv'
  BY <1>4, KeptBySignedUnknown, KeptByFaults
<1>5. CASE ExpireSigned \/ LinkTime \/ WalletRest \/ UNCHANGED payVars
  BY <1>5, KeptByExpiry, KeptByLinkTime, KeptByRest DEF WalletRest
<1> QED
  BY <1>1, <1>2, <1>3, <1>4, <1>5 DEF WalletNext

LEMMA Invariant == WalletSpec => []IInv
BY Initially, Inductive, PTL DEF WalletSpec

(* Where the platform ends a request before its lease runs out, custody    *)
(* requests and submits pay one at a time, however many there are and      *)
(* although a submit ignores what its renewals return.                     *)
THEOREM PayersTakeTurns ==
  ASSUME MaxDurationEnforced
  PROVE  WalletSpec => []OnePayer
<1>1. IInv => OnePayer
  BY DEF IInv, Custody, LeasedCustody, LeasedSigner, OnePayer, Executing
<1> QED
  BY <1>1, Invariant, PTL

(* Whatever leases, crashes and unknown outcomes do, a signature on a row  *)
(* is that of a landed transfer which paid this wallet this row's amount.  *)
THEOREM RecordsHonestAlways == WalletSpec => []SignedRecordsHonest
<1>1. IInv => SignedRecordsHonest
  BY DEF IInv, RowsInv
<1> QED
  BY <1>1, Invariant, PTL

(* Where no request outlives its lease, EXECUTED in direct mode means that *)
(* every payable row is signed, whoever paid and however stale the payload.*)
THEOREM ExecutedIsPaid ==
  ASSUME MaxDurationEnforced
  PROVE  WalletSpec => []SignedExecutedPaid
<1>1. IInv => SignedExecutedPaid
  BY DEF IInv, RowsInv
<1> QED
  BY <1>1, Invariant, PTL

(* The sign page says "Signed and confirmed" only of a distribution that   *)
(* is EXECUTED, whichever submit answered.                                 *)
THEOREM CompletedOnlyExecuted == WalletSpec => []CompletedIsExecuted
<1>1. IInv => CompletedIsExecuted
  BY DEF IInv, RowsInv, CompletedIsExecuted, SignPage, signRequestView
<1> QED
  BY <1>1, Invariant, PTL
=============================================================================
