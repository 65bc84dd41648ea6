---------------------------- MODULE SignRequests ----------------------------
(***************************************************************************)
(* Sign links (apps/web/lib/server/signing.ts): the SignRequest rows that  *)
(* carry a launch or a payout from the API to the founder's wallet and     *)
(* back.  Issuance creation and the wallet payout build their handlers     *)
(* from these pieces; each piece is one database call.                     *)
(***************************************************************************)
EXTENDS Integers, Sequences, FiniteSets

CONSTANTS
    SignId,               \* rows that can be created (bound)
    Founder, NoFounder,   \* wallets that may sign
    NoPayload             \* payloadJson or summary not written yet

VARIABLE sreq             \* sreq[s] : the SignRequest row

NoRequest ==
    [status |-> "none", live |-> FALSE, subject |-> 0, meta |-> NoPayload,
     signer |-> NoFounder, payload |-> NoPayload, sigs |-> {}]

SignInit == sreq = [s \in SignId |-> NoRequest]

(* Payload and Meta are what a purpose stores in payloadJson and summary. *)
SignRow(Subject, Meta, Payload, Sig) ==
    [status : {"none", "PENDING", "COMPLETED", "EXPIRED"}, live : BOOLEAN,
     subject : Subject, meta : Meta, signer : Founder \cup {NoFounder},
     payload : Payload, sigs : SUBSET Sig]

Open(s) == sreq[s].status = "PENDING" /\ sreq[s].live

(* openSignRequest looks for an open request of the subject ...            *)
OpenRequests(subject) == {s \in SignId : Open(s) /\ sreq[s].subject = subject}

(* ... and rewrites its summary, whatever became of it since, ...          *)
Resummarise(s, meta) == sreq' = [sreq EXCEPT ![s].meta = meta]

(* ... or creates one. *)
CreateRequest(subject, meta) ==
    \E s \in SignId :
        /\ sreq[s].status = "none"
        /\ sreq' = [sreq EXCEPT ![s] = [NoRequest EXCEPT
               !.status = "PENDING", !.live = TRUE, !.subject = subject, !.meta = meta]]

(* A build is for the wallet that built first, or for any while none has. *)
MayBuild(s, w) == Open(s) /\ sreq[s].signer \in {NoFounder, w}

(* Saved by id: the request may have been completed or built meanwhile. *)
SavePayload(s, w, payload) ==
    sreq' = [sreq EXCEPT ![s].signer = w, ![s].payload = payload]

MaySubmit(s, w) == Open(s) /\ sreq[s].payload # NoPayload /\ sreq[s].signer = w

(* recordSignatures writes back the list it read before. *)
WriteSignatures(s, read, sig) == sreq' = [sreq EXCEPT ![s].sigs = read \cup {sig}]

CompleteRequest(s) == sreq' = [sreq EXCEPT ![s].status = "COMPLETED"]

(* The public view of a request, and what the sign page makes of it for    *)
(* the connected wallet.                                                   *)
signRequestView(s) == [status |-> sreq[s].status, signer |-> sreq[s].signer, signatures |-> sreq[s].sigs]

SignPage(s, w) ==
    LET view == signRequestView(s)
    IN IF view.status = "COMPLETED" THEN "done"
       ELSE IF view.status = "EXPIRED" THEN "expired"
       ELSE IF view.signer \notin {NoFounder, w} THEN "wrongWallet"
       ELSE "sign"

(* A sign link is valid for a day; a load after that closes it, by id, as  *)
(* it read it: what was completed in between is closed as well.            *)
LinkExpires(s) == Open(s) /\ sreq' = [sreq EXCEPT ![s].live = FALSE]

LoadExpired(s) ==
    /\ sreq[s].status \in {"PENDING", "COMPLETED"} /\ ~sreq[s].live
    /\ sreq' = [sreq EXCEPT ![s].status = "EXPIRED"]

=============================================================================
