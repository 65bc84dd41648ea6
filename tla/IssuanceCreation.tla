-------------------------- MODULE IssuanceCreation --------------------------
(***************************************************************************)
(* From a preview to a live issuance (apps/web/lib/server/issuance.ts):    *)
(*                                                                         *)
(*   preview --claim--> used --insert, link--> PENDING issuance            *)
(*       custody : create the market, attach it (LIVE), or roll back       *)
(*       wallet  : open a sign link; build, sign, submit; attach (LIVE)    *)
(*                                                                         *)
(* Any number of requests work on the same preview or sign link.  The      *)
(* market is a mint on chain: "bare" once its pool exists, "ready" once    *)
(* fs_allowlist knows it and admits the pool's vault.  Custody creates     *)
(* both in one transaction.                                                *)
(***************************************************************************)
EXTENDS SignRequests

CONSTANTS
    Preview, Owner,       \* Owner[p] : wallet of the API key that made it, or NoFounder
    Request,              \* API requests that may be running at once
    MaxIssuances,         \* bound on Issuance rows
    MaxMints,             \* bound on mint keypairs
    MaxKills, MaxErrors   \* bounds on killed requests, on database calls that throw

ASSUME IssuanceAssumption ==
    /\ Owner \in [Preview -> Founder \cup {NoFounder}]
    /\ NoFounder \notin Founder
    /\ MaxIssuances \in Nat /\ MaxMints \in Nat
    /\ MaxKills \in Nat /\ MaxErrors \in Nat
    /\ NoPayload = 0
    /\ Preview # {} /\ SignId # {}

VARIABLES
    preview,    \* preview[p] : usedAt and issuanceId of the IssuancePreview row
    rows,       \* rows[i] : the Issuance row with id i, in order of creation
    mints,      \* mints[m] : a mint keypair, in order of generation
    req,        \* req[h] : a running handler
    lost,       \* previews a kill or a failing rollback left used (history)
    stranded,   \* previews an error left used where nothing rolls back (history)
    faults

vars == <<sreq, preview, rows, mints, req, lost, stranded, faults>>

NoMint   == 0
IssuanceId == 1..MaxIssuances
MintId     == 1..MaxMints

NoReq == [pc |-> "idle", preview |-> CHOOSE p \in Preview : TRUE, mode |-> "custody",
          iss |-> 0, mint |-> NoMint, link |-> CHOOSE s \in SignId : TRUE,
          wallet |-> NoFounder, sigs |-> {}, memo |-> FALSE]

PCs == {"idle", "claim", "insert", "link", "market", "attach", "delete", "release", "open",
        "buildSave", "send", "recRead", "recWrite", "finalize", "memo", "complete"}

IssuanceTypeOK ==
    /\ sreq \in [SignId -> SignRow(IssuanceId \cup {0}, {NoPayload}, MintId \cup {NoPayload}, MintId)]
    /\ preview \in [Preview -> [used : BOOLEAN, issuance : IssuanceId \cup {0}]]
    /\ rows \in Seq([preview : Preview, alive : BOOLEAN, market : MintId \cup {NoMint},
                     accepted : MintId \cup {NoMint}])
    /\ Len(rows) <= MaxIssuances
    /\ mints \in Seq([state : {"key", "bare", "ready"}, creator : Founder \cup {NoFounder}])
    /\ req \in [Request -> [pc : PCs, preview : Preview, mode : {"custody", "wallet"},
                            iss : IssuanceId \cup {0}, mint : MintId \cup {NoMint}, link : SignId,
                            wallet : Founder \cup {NoFounder}, sigs : SUBSET MintId, memo : BOOLEAN]]
    /\ lost \subseteq Preview /\ stranded \subseteq Preview
    /\ faults \in [{"kill", "error"} -> Nat]

Init ==
    /\ SignInit
    /\ preview = [p \in Preview |-> [used |-> FALSE, issuance |-> 0]]
    /\ rows = <<>> /\ mints = <<>>
    /\ req = [h \in Request |-> NoReq]
    /\ lost = {} /\ stranded = {}
    /\ faults = [kill |-> MaxKills, error |-> MaxErrors]

-----------------------------------------------------------------------------
Goto(h, label) == req' = [req EXCEPT ![h].pc = label]
Return(h) == req' = [req EXCEPT ![h] = NoReq]

At(h, label) == req[h].pc = label
Error == faults["error"] > 0 /\ faults' = [faults EXCEPT !["error"] = @ - 1]

(* A step may fail at its database call, and then goes to `label'. *)
Fails(h, label) ==
    /\ Error
    /\ IF label = "idle" THEN Return(h) ELSE Goto(h, label)
    /\ UNCHANGED <<sreq, preview, rows, mints, lost, stranded>>

Exists(i) == i # 0 /\ rows[i].alive
HasMarket(i) == Exists(i) /\ rows[i].market # NoMint

NewKey(creator) ==
    /\ Len(mints) < MaxMints
    /\ mints' = Append(mints, [state |-> "key", creator |-> creator])

SetMint(m, s) == mints' = [mints EXCEPT ![m].state = s]

(* What the site shows of an issuance: "LIVE" once it has a market.        *)
publicIssuanceView(i) ==
    [status |-> IF HasMarket(i) THEN "LIVE" ELSE "PENDING",
     baseMint |-> rows[i].market, issuerAcceptance |-> rows[i].accepted]

CanManage(caller, owner) == caller = "admin" \/ (owner # NoFounder /\ caller = owner)

-----------------------------------------------------------------------------
(* startIssuanceCreation                                                   *)

StartCreate(h, p, mode) ==
    /\ At(h, "idle")
    /\ \E caller \in Founder \cup {"admin"} : CanManage(caller, Owner[p])
    /\ ~preview[p].used
    /\ Len(rows) + Cardinality({g \in Request : req[g].pc \in {"claim", "insert"}}) < MaxIssuances
    /\ req' = [req EXCEPT ![h].pc = "claim", ![h].preview = p, ![h].mode = mode]
    /\ UNCHANGED <<sreq, preview, rows, mints, lost, stranded, faults>>

(* Mutant: the claim is by id alone. *)
ClaimPreview_Always(h) ==
    /\ At(h, "claim")
    /\ preview' = [preview EXCEPT ![req[h].preview].used = TRUE]
    /\ Goto(h, "insert")
    /\ UNCHANGED <<sreq, rows, mints, lost, stranded, faults>>

ClaimPreview(h) ==
    /\ At(h, "claim")
    /\ IF preview[req[h].preview].used
       THEN Return(h) /\ UNCHANGED preview
       ELSE preview' = [preview EXCEPT ![req[h].preview].used = TRUE] /\ Goto(h, "insert")
    /\ UNCHANGED <<sreq, rows, mints, lost, stranded, faults>>

InsertPending(h) ==
    /\ At(h, "insert")
    /\ \/ /\ rows' = Append(rows, [preview |-> req[h].preview, alive |-> TRUE, market |-> NoMint, accepted |-> NoMint])
          /\ req' = [req EXCEPT ![h].pc = "link", ![h].iss = Len(rows) + 1]
          /\ UNCHANGED <<sreq, preview, mints, lost, stranded, faults>>
       \/ Fails(h, "release")

(* A failed link releases the preview and leaves the row PENDING for good. *)
LinkPreview(h) ==
    /\ At(h, "link")
    /\ \/ /\ preview' = [preview EXCEPT ![req[h].preview].issuance = req[h].iss]
          /\ Goto(h, IF req[h].mode = "wallet" THEN "open" ELSE "market")
          /\ UNCHANGED <<sreq, rows, mints, lost, stranded, faults>>
       \/ Fails(h, "release")

-----------------------------------------------------------------------------
(* completeIssuanceCreation                                                *)

(* getChain is asked outside the `try': nothing is rolled back when it      *)
(* throws.                                                                 *)
NoChain(h) ==
    /\ At(h, "market")
    /\ Error /\ Return(h)
    /\ stranded' = stranded \cup {req[h].preview}
    /\ UNCHANGED <<sreq, preview, rows, mints, lost>>

(* createHookPool, with the first error anywhere in it: before its pool    *)
(* transaction landed, or after.                                           *)
CreateMarket(h) ==
    /\ At(h, "market")
    /\ \/ /\ Len(mints) < MaxMints
          /\ mints' = Append(mints, [state |-> "ready", creator |-> NoFounder])
          /\ \/ req' = [req EXCEPT ![h].pc = "attach", ![h].mint = Len(mints) + 1, ![h].memo = TRUE]
             \/ Goto(h, "delete")
       \/ UNCHANGED mints /\ Goto(h, "delete")
    /\ UNCHANGED <<sreq, preview, rows, lost, stranded, faults>>

(* attachMarket: by id, whatever the row holds; it throws when the row is  *)
(* gone.  The acceptance is written when there is one.                     *)
Attach(h) ==
    LET i == req[h].iss  m == req[h].mint IN
    rows' = [rows EXCEPT ![i].market = m, ![i].accepted = IF req[h].memo THEN m ELSE @]

(* Mutant: something after the attach fails inside the `try'. *)
AttachCustody_ThenFail(h) ==
    /\ At(h, "attach") /\ req[h].mode = "custody"
    /\ Exists(req[h].iss) /\ Attach(h)
    /\ Return(h) \/ Goto(h, "delete")
    /\ UNCHANGED <<sreq, preview, mints, lost, stranded, faults>>

AttachCustody(h) ==
    /\ At(h, "attach") /\ req[h].mode = "custody"
    /\ \/ /\ Exists(req[h].iss) /\ Attach(h) /\ Return(h)
          /\ UNCHANGED <<sreq, preview, mints, lost, stranded, faults>>
       \/ Fails(h, "delete")

(* An error of the delete is swallowed. *)
DeletePending(h) ==
    /\ At(h, "delete")
    /\ \/ /\ rows' = [rows EXCEPT ![req[h].iss].alive = FALSE]
          /\ Goto(h, "release")
          /\ UNCHANGED <<sreq, preview, mints, lost, stranded, faults>>
       \/ Fails(h, "release")

(* Mutant: the rollback forgets usedAt. *)
ReleasePreview_StillUsed(h) ==
    /\ At(h, "release")
    /\ preview' = [preview EXCEPT ![req[h].preview].issuance = 0]
    /\ Return(h)
    /\ UNCHANGED <<sreq, rows, mints, lost, stranded, faults>>

(* Both rollbacks: only that of the market clears the link, which the      *)
(* other never set.                                                        *)
ReleasePreview(h) ==
    LET p == req[h].preview IN
    /\ At(h, "release")
    /\ \/ /\ preview' = [preview EXCEPT ![p] = [used |-> FALSE, issuance |-> 0]]
          /\ Return(h)
          /\ UNCHANGED <<sreq, rows, mints, lost, stranded, faults>>
       \/ /\ Error /\ Return(h)
          /\ lost' = lost \cup {p}
          /\ UNCHANGED <<sreq, preview, rows, mints, stranded>>

Custody(h) ==
    \/ \E p \in Preview, mode \in {"custody", "wallet"} : StartCreate(h, p, mode)
    \/ ClaimPreview(h) \/ InsertPending(h) \/ LinkPreview(h)
    \/ NoChain(h) \/ CreateMarket(h) \/ AttachCustody(h) \/ DeletePending(h) \/ ReleasePreview(h)

-----------------------------------------------------------------------------
(* The sign link of a pending issuance.                                    *)

(* An error of openSignRequest reaches the caller without a rollback. *)
OpenLink(h) ==
    /\ At(h, "open")
    /\ Return(h)
    /\ \/ CreateRequest(req[h].iss, NoPayload) /\ UNCHANGED <<stranded, faults>>
       \/ Error /\ stranded' = stranded \cup {req[h].preview} /\ UNCHANGED sreq
    /\ UNCHANGED <<preview, rows, mints, lost>>

(* buildIssuanceSignTxs: a fresh mint keypair for the connected wallet. *)
StartBuild(h, s, w) ==
    /\ At(h, "idle")
    /\ MayBuild(s, w)
    /\ Exists(sreq[s].subject) /\ ~HasMarket(sreq[s].subject)
    /\ NewKey(w)
    /\ req' = [req EXCEPT ![h].pc = "buildSave", ![h].link = s, ![h].wallet = w, ![h].mint = Len(mints) + 1]
    /\ UNCHANGED <<sreq, preview, rows, lost, stranded, faults>>

SaveBuild(h) ==
    /\ At(h, "buildSave")
    /\ \/ /\ SavePayload(req[h].link, req[h].wallet, req[h].mint)
          /\ Return(h)
          /\ UNCHANGED <<preview, rows, mints, lost, stranded, faults>>
       \/ Fails(h, "idle")

(* submitSignRequest and applyIssuanceSigned: both load before the first   *)
(* broadcast.                                                              *)
StartSubmit(h, s, w) ==
    /\ At(h, "idle")
    /\ MaySubmit(s, w)
    /\ Exists(sreq[s].subject) /\ ~HasMarket(sreq[s].subject)
    /\ req' = [req EXCEPT ![h].pc = "send", ![h].link = s, ![h].wallet = w,
                          ![h].mint = sreq[s].payload, ![h].iss = sreq[s].subject, ![h].mode = "wallet"]
    /\ UNCHANGED <<sreq, preview, rows, mints, lost, stranded, faults>>

(* The wallet's transaction creates the pool once; whoever polls its       *)
(* signature sees it confirmed, unless an error hides the outcome.         *)
SendCreate(h) ==
    LET m == req[h].mint IN
    /\ At(h, "send")
    /\ \/ /\ IF mints[m].state = "key" THEN SetMint(m, "bare") ELSE UNCHANGED mints
          /\ Goto(h, "recRead") \/ Return(h)
       \/ Return(h) /\ UNCHANGED mints
    /\ UNCHANGED <<sreq, preview, rows, lost, stranded, faults>>

ReadSignatures(h) ==
    /\ At(h, "recRead")
    /\ \/ /\ req' = [req EXCEPT ![h].pc = "recWrite", ![h].sigs = sreq[req[h].link].sigs]
          /\ UNCHANGED <<sreq, preview, rows, mints, lost, stranded, faults>>
       \/ Fails(h, "idle")

RecordSignature(h) ==
    /\ At(h, "recWrite")
    /\ \/ /\ WriteSignatures(req[h].link, req[h].sigs, req[h].mint)
          /\ Goto(h, "finalize")
          /\ UNCHANGED <<preview, rows, mints, lost, stranded, faults>>
       \/ Fails(h, "idle")

(* Mutant: the market is attached before the allowlist knows it. *)
Finalize_Later(h) ==
    LET m == req[h].mint IN
    /\ At(h, "finalize")
    /\ Goto(h, "memo")
    /\ UNCHANGED <<sreq, preview, rows, mints, lost, stranded, faults>>

(* initHookAllowlist fails for a mint that is initialized already, and may *)
(* throw after it landed (enable_kyc, an unknown outcome).                 *)
Finalize(h) ==
    LET m == req[h].mint IN
    /\ At(h, "finalize")
    /\ \/ mints[m].state = "bare" /\ SetMint(m, "ready") /\ (Goto(h, "memo") \/ Return(h))
       \/ UNCHANGED mints /\ Return(h)
    /\ UNCHANGED <<sreq, preview, rows, lost, stranded, faults>>

(* The acceptance memo: any failure leaves the market without one. *)
SendMemo(h) ==
    /\ At(h, "memo")
    /\ \E ok \in BOOLEAN : req' = [req EXCEPT ![h].pc = "attach", ![h].memo = ok]
    /\ UNCHANGED <<sreq, preview, rows, mints, lost, stranded, faults>>

(* Mutant: the request is completed whatever became of the market. *)
AttachSigned_Late(h) ==
    /\ At(h, "attach") /\ req[h].mode = "wallet"
    /\ Goto(h, "complete")
    /\ UNCHANGED <<sreq, preview, rows, mints, lost, stranded, faults>>

AttachSigned(h) ==
    /\ At(h, "attach") /\ req[h].mode = "wallet"
    /\ \/ /\ Exists(req[h].iss) /\ Attach(h) /\ Goto(h, "complete")
          /\ UNCHANGED <<sreq, preview, mints, lost, stranded, faults>>
       \/ Fails(h, "idle")

CompleteSubmit(h) ==
    /\ At(h, "complete")
    /\ \/ /\ CompleteRequest(req[h].link) /\ Return(h)
          /\ UNCHANGED <<preview, rows, mints, lost, stranded, faults>>
       \/ Fails(h, "idle")

WalletFlow(h) ==
    \/ OpenLink(h)
    \/ \E s \in SignId, w \in Founder : StartBuild(h, s, w) \/ StartSubmit(h, s, w)
    \/ SaveBuild(h) \/ SendCreate(h) \/ ReadSignatures(h) \/ RecordSignature(h)
    \/ Finalize(h) \/ SendMemo(h) \/ AttachSigned(h) \/ CompleteSubmit(h)

LinkTime ==
    /\ \E s \in SignId : LinkExpires(s) \/ LoadExpired(s)
    /\ UNCHANGED <<preview, rows, mints, req, lost, stranded, faults>>

-----------------------------------------------------------------------------
(* Control points at which a handler owes its preview a release or a link. *)
Creating(h) == req[h].pc \in {"insert", "link", "market", "delete", "release", "open"}
               \/ (At(h, "attach") /\ req[h].mode = "custody")

Kill(h) ==
    /\ ~At(h, "idle") /\ faults["kill"] > 0
    /\ faults' = [faults EXCEPT !["kill"] = @ - 1]
    /\ lost' = IF Creating(h) THEN lost \cup {req[h].preview} ELSE lost
    /\ Return(h)
    /\ UNCHANGED <<sreq, preview, rows, mints, stranded>>

(* At rest: nothing runs (issuances and keypairs are bounded). *)
Rest == (\A h \in Request : At(h, "idle")) /\ UNCHANGED vars

Next == (\E h \in Request : Custody(h) \/ WalletFlow(h) \/ Kill(h)) \/ LinkTime \/ Rest

Spec == Init /\ [][Next]_vars

-----------------------------------------------------------------------------
(* Properties.                                                             *)

(* One preview makes one issuance (docs and createPreview: "A previewId    *)
(* can be used once"): however creates race, fail, roll back and are       *)
(* retried, at most one issuance of a preview has a market.                *)
OneMarketPerPreview ==
    \A i, j \in DOMAIN rows :
        HasMarket(i) /\ HasMarket(j) /\ rows[i].preview = rows[j].preview => i = j

(* An issuance that is shown LIVE can be traded: its mint has its          *)
(* allowlist, and the vault is on it, whatever step of the wallet flow     *)
(* failed on the way; and the acceptance that is shown, if any, was given  *)
(* for a market that exists.                                               *)
LiveIsTradable ==
    \A i \in DOMAIN rows :
        LET v == publicIssuanceView(i) IN
        /\ v.status = "LIVE" => mints[v.baseMint].state = "ready"
        /\ v.issuerAcceptance # NoMint => v.baseMint # NoMint /\ mints[v.issuerAcceptance].state = "ready"

(* A used preview is in the hands of a handler, or belongs to an issuance  *)
(* that is live or has had its sign link.  The code promises it released   *)
(* otherwise ("On failure the row is removed and the preview released"),   *)
(* and there are two exceptions: a kill or a rollback that itself failed,  *)
(* and an error where no rollback is written (getChain, openSignRequest).  *)
(* The latter leaves a PENDING issuance that nothing can make live, so the *)
(* preview can be given back by hand without risking a second market.      *)
UsedForSomething ==
    \A p \in Preview :
        preview[p].used /\ p \notin lost =>
            \/ \E h \in Request : Creating(h) /\ req[h].preview = p
            \/ /\ Exists(preview[p].issuance)
               /\ p \notin stranded <=>
                     \/ HasMarket(preview[p].issuance)
                     \/ \E s \in SignId : sreq[s].subject = preview[p].issuance

(* Where the sign page says "Signed and confirmed" the issuance is shown   *)
(* LIVE.                                                                   *)
CompletedIsLive ==
    \A s \in SignId, w \in Founder :
        SignPage(s, w) = "done" => publicIssuanceView(sreq[s].subject).status = "LIVE"

(* An issuance that went live stays live: no late rollback deletes it.     *)
LiveStays == [][\A i \in DOMAIN rows : HasMarket(i) => HasMarket(i)']_vars

=============================================================================
