---------------------------- MODULE WalletPayout ----------------------------
(***************************************************************************)
(* Wallet signing of a distribution (the second half of                    *)
(* apps/web/lib/server/distribution.ts with sign-flows.ts): the founder's  *)
(* wallet signs, ahead of time, the transactions that a later submit       *)
(* broadcasts under the same lease as custody execution.  Runs next to     *)
(* the snapshot and custody handlers of Distribution.                      *)
(*                                                                         *)
(* A transaction is identified by the build that made it and its place;    *)
(* it lands at most once, however often it is sent.                        *)
(***************************************************************************)
EXTENDS Distribution, SignRequests

CONSTANTS
    Submitter,            \* requests on a sign link that may be running at once
    WalletBatch,          \* MAX_TRANSFERS_PER_WALLET_TX
    MaxBuilds             \* bound on payloads built

ASSUME WalletAssumption ==
    /\ WalletBatch \in Nat \ {0} /\ MaxBuilds \in Nat
    /\ 0 \notin Submitter /\ Submitter \cap Request = {}

VARIABLES
    landed,               \* wallet transactions that landed: [build, n, sig]
    builds,               \* payloads built so far
    spc, sjob             \* control points and locals of the sign-link handlers

linkVars   == <<sreq, landed, builds>>
walletVars == <<linkVars, spc, sjob>>
payVars    == <<vars, walletVars>>

Payloads ==
    [build : 1..MaxBuilds, mode : {"escrow", "direct"}, gen : Nat,
     rows : AllocationTables, batches : Seq(SUBSET Wallet)]
Metas == [total : Totals, mode : {"escrow", "direct"}]

NoSjob == [link |-> CHOOSE s \in SignId : TRUE, wallet |-> NoFounder, meta |-> NoPayload,
           payload |-> NoPayload, n |-> 1, sig |-> NoSig, root |-> NoTable]

SPCs == {"idle", "reopen", "create", "saveBuild", "claim", "send", "record", "save",
         "renew", "check", "mark", "complete", "release"}

WalletTypeOK ==
    /\ status \in {"DRAFT", "SNAPSHOTTED", "EXECUTED"}
    /\ paidSig \in [Wallet -> Nat] /\ fundSig \in Nat \cup {NoTransfer}
    /\ lease \in Request \cup Submitter \cup {NoLease}
    /\ orphans \subseteq DOMAIN ledger
    /\ sreq \in [SignId -> SignRow({0, 1}, Metas \cup {NoPayload}, Payloads \cup {NoPayload}, Nat)]
    /\ landed \subseteq [build : 1..MaxBuilds, n : Nat, sig : DOMAIN ledger]
    /\ builds \in 0..MaxBuilds
    /\ spc \in [Submitter -> SPCs]
    /\ sjob \in [Submitter -> [link : SignId, wallet : Founder \cup {NoFounder}, meta : Metas \cup {NoPayload},
                               payload : Payloads \cup {NoPayload}, n : Nat, sig : Nat,
                               root : AllocationTables]]

WalletInit ==
    /\ Init /\ SignInit
    /\ landed = {} /\ builds = 0
    /\ spc = [h \in Submitter |-> "idle"] /\ sjob = [h \in Submitter |-> NoSjob]

-----------------------------------------------------------------------------
SGoto(h, label) == spc' = [spc EXCEPT ![h] = label]
SReturn(h) == SGoto(h, "idle") /\ sjob' = [sjob EXCEPT ![h] = NoSjob]

Paying(h) == spc[h] \in {"send", "record", "save", "renew", "check", "mark", "release"}

(* Unpaid rows, largest first, one transaction per WalletBatch of them. *)
Chunks(todo, rows) ==
    LET k == (Cardinality(todo) + WalletBatch - 1) \div WalletBatch IN
    {f \in [1..k -> SUBSET todo] :
        /\ \A i \in 1..k : Cardinality(f[i]) = WalletBatch \/ (i = k /\ f[i] # {})
        /\ \A w \in todo : \E i \in 1..k : w \in f[i]
        /\ \A i, j \in 1..k : i < j => \A w \in f[i], v \in f[j] : w # v /\ rows[w] >= rows[v]}

-----------------------------------------------------------------------------
(* requestDistributionSignature                                            *)

(* What the sign link is locked to: the total the founder confirmed.       *)
Confirmed(asked) == [total |-> total, mode |-> PayoutModeFor(asked)]

AskLink(h) ==
    /\ spc[h] = "idle" /\ status = "SNAPSHOTTED"
    /\ \E asked \in {"escrow", "direct"} :
        LET meta == Confirmed(asked) IN
        IF OpenRequests(1) # {}
        THEN /\ \E s \in OpenRequests(1) : sjob' = [sjob EXCEPT ![h].meta = meta, ![h].link = s]
             /\ SGoto(h, "reopen")
        ELSE /\ Cardinality({s \in SignId : sreq[s].status = "none"})
                    > Cardinality({g \in Submitter : spc[g] = "create"})
             /\ sjob' = [sjob EXCEPT ![h].meta = meta]
             /\ SGoto(h, "create")
    /\ UNCHANGED <<vars, linkVars>>

WriteLink(h) ==
    /\ \/ spc[h] = "reopen" /\ Resummarise(sjob[h].link, sjob[h].meta)
       \/ spc[h] = "create" /\ CreateRequest(1, sjob[h].meta)
    /\ SReturn(h)
    /\ UNCHANGED <<vars, landed, builds>>

-----------------------------------------------------------------------------
(* buildDistributionSignTxs                                                *)

(* assertExecutable: the snapshot's total is the one the founder typed.      *)
Executable(typed) == status # "DRAFT" /\ total = typed

StartBuild(h, s, w) ==
    /\ spc[h] = "idle" /\ builds < MaxBuilds
    /\ MayBuild(s, w)
    /\ Executable(sreq[s].meta.total) /\ status # "EXECUTED"
    /\ sreq[s].meta.mode = "escrow" => fundSig = NoSig
    /\ Unpaid # {}
    /\ \E bs \in (IF sreq[s].meta.mode = "escrow" THEN {<<Unpaid>>} ELSE Chunks(Unpaid, alloc)) :
          sjob' = [sjob EXCEPT ![h].link = s, ![h].wallet = w,
              ![h].payload = [build |-> builds + 1, mode |-> sreq[s].meta.mode,
                              gen |-> gen, rows |-> alloc, batches |-> bs]]
    /\ builds' = builds + 1
    /\ SGoto(h, "saveBuild")
    /\ UNCHANGED <<vars, sreq, landed>>

SaveBuild(h) ==
    /\ spc[h] = "saveBuild"
    /\ SavePayload(sjob[h].link, sjob[h].wallet, sjob[h].payload)
    /\ SReturn(h)
    /\ UNCHANGED <<vars, landed, builds>>

-----------------------------------------------------------------------------
(* applyDistributionSigned                                                 *)

StartSubmit(h, s, w) ==
    /\ spc[h] = "idle" /\ MaySubmit(s, w)
    /\ sjob' = [sjob EXCEPT ![h].link = s, ![h].wallet = w, ![h].meta = sreq[s].meta, ![h].payload = sreq[s].payload]
    /\ SGoto(h, "claim")
    /\ UNCHANGED <<vars, linkVars>>

(* Mutant: claims a row that another request is paying. *)
SignedClaimable_AnyLease(h) == status = "SNAPSHOTTED" /\ total = sjob[h].meta.total

(* The claim looks at the total only: not at the rows the payload is for. *)
SignedClaimable(h) == status = "SNAPSHOTTED" /\ total = sjob[h].meta.total /\ LeaseFree

ClaimSigned(h) ==
    /\ spc[h] = "claim"
    /\ IF SignedClaimable(h)
       THEN lease' = h /\ live' = TRUE /\ SGoto(h, "send") /\ UNCHANGED sjob
       ELSE SReturn(h) /\ UNCHANGED leaseVars
    /\ UNCHANGED <<rowVars, fundVars, chainVars, pc, job, faults, linkVars>>

Payload(h) == sjob[h].payload
Batch(h) == Payload(h).batches[sjob[h].n]
Sent(h) == {t \in landed : t.build = Payload(h).build /\ t.n = sjob[h].n}

Land(h) ==
    /\ Sent(h) = {}
    /\ ledger' = Append(ledger, Transfer(Payload(h).mode, Batch(h), Payload(h).rows))
    /\ landed' = landed \cup {[build |-> Payload(h).build, n |-> sjob[h].n, sig |-> Len(ledger) + 1]}

(* submitSigned: a transaction that landed before is either reported as    *)
(* confirmed again or refused by the preflight.                            *)
SignedLands(h) ==
    /\ spc[h] = "send"
    /\ \/ Land(h) /\ sjob' = [sjob EXCEPT ![h].sig = Len(ledger) + 1]
       \/ /\ \E t \in Sent(h) : sjob' = [sjob EXCEPT ![h].sig = t.sig]
          /\ UNCHANGED <<ledger, landed>>
    /\ SGoto(h, "record")
    /\ UNCHANGED <<rowVars, fundVars, leaseVars, orphans, pc, job, faults, sreq, builds>>

SignedFails(h) ==
    /\ spc[h] = "send"
    /\ SGoto(h, "release")
    /\ UNCHANGED <<vars, linkVars, sjob>>

SignedUnknown(h) ==
    /\ spc[h] = "send" /\ faults["unknown"] > 0
    /\ Land(h)
    /\ orphans' = orphans \cup {Len(ledger) + 1}
    /\ faults' = [faults EXCEPT !["unknown"] = @ - 1]
    /\ SGoto(h, "release")
    /\ UNCHANGED <<rowVars, fundVars, leaseVars, pc, job, sreq, builds, sjob>>

(* onSignature; submits of one distribution take turns under the lease, so *)
(* its read and its write are one step here.                               *)
RecordSignature(h) ==
    /\ spc[h] = "record"
    /\ WriteSignatures(sjob[h].link, sreq[sjob[h].link].sigs, sjob[h].sig)
    /\ SGoto(h, "save")
    /\ UNCHANGED <<vars, landed, builds, sjob>>

(* Mutant: signs the rows of the wallets it paid, whatever row they have. *)
Recordable_ByWallet(h) == {w \in Batch(h) : paidSig[w] = NoSig}

Recordable(h) == {w \in Batch(h) : gen = Payload(h).gen /\ paidSig[w] = NoSig}

(* A transfer that nobody will record: none of its rows takes it. *)
SaveSigned(h) ==
    /\ spc[h] = "save" /\ Payload(h).mode = "direct"
    /\ paidSig' = [w \in Wallet |-> IF w \in Recordable(h) THEN sjob[h].sig ELSE paidSig[w]]
    /\ orphans' = IF sjob[h].sig \in {paidSig'[w] : w \in Batch(h)}
                  THEN orphans \ {sjob[h].sig} ELSE orphans \cup {sjob[h].sig}
    /\ SGoto(h, "renew")
    /\ UNCHANGED <<status, total, alloc, gen, fundVars, leaseVars, ledger, pc, job, faults, linkVars, sjob>>

(* The escrow branch loads the rows for their root and saves the funding.  *)
SaveFunded(h) ==
    /\ spc[h] = "save" /\ Payload(h).mode = "escrow"
    /\ sjob' = [sjob EXCEPT ![h].root = alloc]
    /\ IF lease = h
       THEN payoutMode' = "ESCROW" /\ fundSig' = sjob[h].sig /\ root' = alloc
       ELSE UNCHANGED fundVars
    /\ orphans' = orphans \ {sjob[h].sig}
    /\ SGoto(h, "mark")
    /\ UNCHANGED <<rowVars, leaseVars, ledger, pc, job, faults, linkVars>>

(* The renewal's count is not looked at: a lost lease is not noticed. *)
RenewSigned(h) ==
    /\ spc[h] = "renew"
    /\ live' = (lease = h \/ live)
    /\ sjob' = [sjob EXCEPT ![h].n = @ + 1]
    /\ SGoto(h, IF sjob[h].n < Len(Payload(h).batches) THEN "send" ELSE "check")
    /\ UNCHANGED <<lease, rowVars, fundVars, chainVars, pc, job, faults, linkVars>>

(* Mutant: the last transaction confirmed, so everything is paid. *)
CheckPaid_Assumed(h) ==
    /\ spc[h] = "check"
    /\ SGoto(h, "mark")
    /\ UNCHANGED <<vars, linkVars, sjob>>

CheckPaid(h) ==
    /\ spc[h] = "check"
    /\ SGoto(h, IF Unpaid = {} THEN "mark" ELSE "release")
    /\ UNCHANGED <<vars, linkVars, sjob>>

(* markExecuted *)
MarkSigned(h) ==
    /\ spc[h] = "mark"
    /\ status' = "EXECUTED"
    /\ lease' = NoLease /\ live' = FALSE
    /\ IF Payload(h).mode = "escrow"
       THEN payoutMode' = "ESCROW" /\ fundSig' = sjob[h].sig /\ root' = sjob[h].root
       ELSE payoutMode' = "DIRECT" /\ UNCHANGED <<fundSig, root>>
    /\ SGoto(h, "complete")
    /\ UNCHANGED <<total, alloc, gen, paidSig, chainVars, pc, job, faults, linkVars, sjob>>

CompleteSubmit(h) ==
    /\ spc[h] = "complete"
    /\ CompleteRequest(sjob[h].link)
    /\ SReturn(h)
    /\ UNCHANGED <<vars, landed, builds>>

(* Mutant: a submit that failed half-way completes its request too. *)
ReleaseSigned_Completes(h) ==
    /\ spc[h] = "release"
    /\ IF lease = h THEN lease' = NoLease /\ live' = FALSE ELSE UNCHANGED leaseVars
    /\ CompleteRequest(sjob[h].link)
    /\ SReturn(h)
    /\ UNCHANGED <<rowVars, fundVars, chainVars, pc, job, faults, landed, builds>>

(* `finally', then failSignRequest. *)
ReleaseSigned(h) ==
    /\ spc[h] = "release"
    /\ IF lease = h THEN lease' = NoLease /\ live' = FALSE ELSE UNCHANGED leaseVars
    /\ SReturn(h)
    /\ UNCHANGED <<rowVars, fundVars, chainVars, pc, job, faults, linkVars>>

Link(h) ==
    \/ AskLink(h) \/ WriteLink(h) \/ SaveBuild(h)
    \/ \E s \in SignId, w \in Founder : StartBuild(h, s, w) \/ StartSubmit(h, s, w)

Submit(h) ==
    \/ ClaimSigned(h) \/ SignedLands(h) \/ SignedFails(h) \/ RecordSignature(h)
    \/ SaveSigned(h) \/ SaveFunded(h) \/ RenewSigned(h) \/ CheckPaid(h)
    \/ MarkSigned(h) \/ CompleteSubmit(h) \/ ReleaseSigned(h)

-----------------------------------------------------------------------------
(* Faults and time.                                                        *)

(* A landed transfer whose handler stops before a row names it. *)
Unrecorded(h) ==
    IF spc[h] \in {"record", "save"} /\ sjob[h].sig \notin {paidSig[w] : w \in Wallet} \cup {fundSig}
    THEN {sjob[h].sig} ELSE {}

SignedCrash(h) ==
    /\ spc[h] # "idle" /\ faults["crash"] > 0
    /\ faults' = [faults EXCEPT !["crash"] = @ - 1]
    /\ orphans' = orphans \cup Unrecorded(h)
    /\ SReturn(h)
    /\ UNCHANGED <<rowVars, fundVars, leaseVars, ledger, pc, job, linkVars>>

SignedDatabaseError(h) ==
    /\ spc[h] \in {"record", "save", "renew", "check", "mark", "complete"} /\ faults["error"] > 0
    /\ faults' = [faults EXCEPT !["error"] = @ - 1]
    /\ orphans' = orphans \cup Unrecorded(h)
    /\ IF spc[h] = "complete" THEN SReturn(h) ELSE (SGoto(h, "release") /\ UNCHANGED sjob)
    /\ UNCHANGED <<rowVars, fundVars, leaseVars, ledger, pc, job, linkVars>>

ExpireSigned ==
    /\ live
    /\ MaxDurationEnforced => ~(IF lease \in Submitter THEN Paying(lease) ELSE Executing(lease))
    /\ live' = FALSE
    /\ UNCHANGED <<lease, rowVars, fundVars, chainVars, pc, job, faults, walletVars>>

LinkTime ==
    /\ \E s \in SignId : LinkExpires(s) \/ LoadExpired(s)
    /\ UNCHANGED <<vars, landed, builds, spc, sjob>>

(* Links, builds and snapshots are bounded.                                *)
WalletRest ==
    /\ \A r \in Request : pc[r] = "idle"
    /\ \A h \in Submitter : spc[h] = "idle"
    /\ UNCHANGED payVars

(* The faults of the custody handlers are those of Distribution; here they *)
(* strike the handlers of the sign link.                                   *)
WalletNext ==
    \/ \E r \in Request : (Snapshot(r) \/ Execute(r)) /\ UNCHANGED walletVars
    \/ \E h \in Submitter : Link(h) \/ Submit(h) \/ SignedUnknown(h) \/ SignedCrash(h) \/ SignedDatabaseError(h)
    \/ ExpireSigned \/ LinkTime \/ WalletRest

WalletSpec == WalletInit /\ [][WalletNext]_payVars

-----------------------------------------------------------------------------
(* Properties.                                                             *)

(* Custody execution and any number of submits pay one at a time: whoever  *)
(* is between its claim and its release owns the live lease, although a    *)
(* submit does not look at what its renewals return.                       *)
OnePayer ==
    /\ \A r \in Request : Executing(r) => lease = r /\ live
    /\ \A h \in Submitter : Paying(h) => lease = h /\ live

(* A signature on a row is that of a landed transfer which paid this       *)
(* wallet the amount of this row, although the transfer was signed from an *)
(* earlier load and the rows may have been replaced since.                 *)
SignedRecordsHonest ==
    \A w \in Recorded :
        /\ paidSig[w] \in DOMAIN ledger
        /\ ledger[paidSig[w]].kind = "direct"
        /\ w \in Covers(paidSig[w])
        /\ ledger[paidSig[w]].pays[w] = alloc[w]

(* EXECUTED in direct mode means every row is signed, whoever paid, and    *)
(* however stale the last payload was.                                     *)
SignedExecutedPaid == status = "EXECUTED" /\ payoutMode = "DIRECT" => Unpaid = {}

(* Where the sign page says "Signed and confirmed" the distribution is     *)
(* EXECUTED; the failure of a submit never closes it.                      *)
CompletedIsExecuted ==
    \A s \in SignId, w \in Founder : SignPage(s, w) = "done" => status = "EXECUTED"

=============================================================================
