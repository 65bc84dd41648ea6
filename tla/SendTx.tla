------------------------------- MODULE SendTx -------------------------------
(***************************************************************************)
(* Submission of a transaction (apps/web/lib/chain/devnet/env.ts): sendTx  *)
(* signs with one blockhash, sends, polls until the outcome is certain or  *)
(* four minutes passed, and signs again only once the blockhash expired    *)
(* and the signature is unknown.  A caller told that nothing was applied   *)
(* calls again.  The cluster and the RPC node are modelled as far as these *)
(* answers depend on them: a node may be unreachable or behind, a block    *)
(* may be abandoned with the transactions in it.                           *)
(***************************************************************************)
EXTENDS Integers, FiniteSets

CONSTANTS
    MaxTx,                \* bound on the transactions signed
    Attempts              \* maxAttempts where expiry is retried

ASSUME SendAssumption == MaxTx \in Nat /\ Attempts \in Nat \ {0}

VARIABLES
    tx,                   \* tx[a] : what became of the a-th signed transaction
    pc, signed, tries,    \* control point; transactions signed; attempts of this call
    retryOnExpiry, late,  \* option of this call; its polling deadline passed
    answer,               \* what the last call ended with
    guessed               \* some answer rests on a look that was not final (history)

callVars == <<pc, signed, tries, retryOnExpiry, late, answer>>
vars == <<tx, callVars, guessed>>

Tx == 1..MaxTx

(* signed: known to nobody but the server; pending: with the cluster;      *)
(* processed, erring: in a block that may be abandoned; confirmed, failed: *)
(* final.  dead: the block height is past its lastValidBlockHeight.        *)
States == {"none", "signed", "pending", "processed", "erring", "confirmed", "failed"}

SendTypeOK ==
    /\ tx \in [Tx -> [state : States, dead : BOOLEAN]]
    /\ pc \in {"idle", "sign", "send", "poll", "last"}
    /\ signed \in 0..MaxTx /\ tries \in 0..(Attempts - 1)
    /\ retryOnExpiry \in BOOLEAN /\ late \in BOOLEAN /\ guessed \in BOOLEAN
    /\ answer \in {"none", "signature", "failed", "notLanded", "unknown"}
    /\ pc \in {"send", "poll", "last"} => signed > 0

Init ==
    /\ tx = [a \in Tx |-> [state |-> "none", dead |-> FALSE]]
    /\ pc = "idle" /\ signed = 0 /\ tries = 0
    /\ retryOnExpiry = FALSE /\ late = FALSE /\ answer = "none"
    /\ guessed = FALSE

State == tx[signed].state

Becomes(a, s) == tx' = [tx EXCEPT ![a].state = s]

Answer(a) ==
    /\ pc' = "idle" /\ answer' = a
    /\ UNCHANGED <<signed, tries, retryOnExpiry, late>>

Goto(label) == pc' = label /\ UNCHANGED <<signed, tries, retryOnExpiry, late, answer>>

-----------------------------------------------------------------------------
(* sendTx                                                                  *)

(* Called once, and again after an answer that says it is safe. *)
Start ==
    /\ pc = "idle" /\ answer \in {"none", "notLanded", "failed"} /\ signed < MaxTx
    /\ pc' = "sign" /\ tries' = 0 /\ retryOnExpiry' \in BOOLEAN
    /\ UNCHANGED <<tx, signed, late, answer, guessed>>

Sign ==
    /\ pc = "sign" /\ signed < MaxTx
    /\ pc' = "send" /\ signed' = signed + 1 /\ late' = FALSE
    /\ Becomes(signed + 1, "signed")
    /\ UNCHANGED <<tries, retryOnExpiry, answer, guessed>>

(* No blockhash to be had (or the bound on transactions). *)
SignFails ==
    /\ pc = "sign"
    /\ Answer("notLanded")
    /\ UNCHANGED <<tx, guessed>>

(* Sent, or an error that does not tell whether the node forwarded it. *)
Send ==
    /\ pc = "send"
    /\ Goto("poll")
    /\ Becomes(signed, "pending") \/ UNCHANGED tx
    /\ UNCHANGED guessed

PreflightRejects ==
    /\ pc = "send"
    /\ Answer("notLanded")
    /\ UNCHANGED <<tx, guessed>>

-----------------------------------------------------------------------------
(* pollUntilFinal                                                          *)

(* Mutant: looks at the clock only while the signature is unknown. *)
Overdue_Unseen == late /\ State \notin {"processed", "erring"}

Overdue == late

GiveUp ==
    /\ pc = "poll" /\ Overdue
    /\ Answer("unknown")
    /\ UNCHANGED <<tx, guessed>>

(* A status with an error ends the call at any commitment, one without     *)
(* only once it is confirmed.                                              *)
SeeStatus ==
    /\ pc = "poll" /\ ~Overdue
    /\ \/ State = "confirmed" /\ Answer("signature") /\ UNCHANGED guessed
       \/ State = "failed" /\ Answer("failed") /\ UNCHANGED guessed
       \/ State = "erring" /\ Answer("failed") /\ guessed' = TRUE
       \/ State = "processed" /\ UNCHANGED <<callVars, guessed>>
    /\ UNCHANGED tx

(* Mutant: an unknown signature is taken for an expired blockhash. *)
HeightPassed_Unknown == TRUE

HeightPassed == tx[signed].dead

(* No status, because there is none or the node does not tell.             *)
SeeNothing ==
    /\ pc = "poll" /\ ~Overdue
    /\ \/ HeightPassed /\ Goto("last") /\ UNCHANGED tx
       \/ /\ State = "signed" /\ Becomes(signed, "pending")    \* rebroadcast
          /\ UNCHANGED callVars
       \/ UNCHANGED <<tx, callVars>>
    /\ UNCHANGED guessed

(* Expired and unknown: sign again, or tell the caller. *)
Expired ==
    IF retryOnExpiry /\ tries + 1 < Attempts
    THEN pc' = "sign" /\ tries' = tries + 1 /\ UNCHANGED <<signed, retryOnExpiry, late, answer>>
    ELSE Answer("notLanded")

(* Mutant: signs again without the last look. *)
LastLook_Skipped ==
    /\ pc = "last"
    /\ Expired
    /\ UNCHANGED <<tx, guessed>>

(* The last look takes any status without an error for a confirmation, and *)
(* an unreachable node for an unknown signature.                           *)
LastLook ==
    /\ pc = "last"
    /\ \/ /\ State \in {"processed", "confirmed"} /\ Answer("signature")
          /\ guessed' = (guessed \/ State = "processed")
       \/ /\ State \in {"erring", "failed"} /\ Answer("failed")
          /\ guessed' = (guessed \/ State = "erring")
       \/ State \in {"signed", "pending"} /\ Expired /\ UNCHANGED guessed
       \/ State \notin {"signed", "pending"} /\ Expired /\ guessed' = TRUE
    /\ UNCHANGED tx

-----------------------------------------------------------------------------
(* The cluster and the clock.                                              *)

Chain(a) ==
    /\ \/ tx[a].state = "pending" /\ ~tx[a].dead
          /\ (Becomes(a, "processed") \/ Becomes(a, "erring"))
       \/ tx[a].state \in {"processed", "erring"} /\ Becomes(a, "pending")
       \/ tx[a].state = "processed" /\ Becomes(a, "confirmed")
       \/ tx[a].state = "erring" /\ Becomes(a, "failed")
       \/ tx[a].state # "none" /\ ~tx[a].dead /\ tx' = [tx EXCEPT ![a].dead = TRUE]
    /\ UNCHANGED <<callVars, guessed>>

FourMinutesPass ==
    /\ pc = "poll" /\ ~late
    /\ late' = TRUE
    /\ UNCHANGED <<tx, pc, signed, tries, retryOnExpiry, answer, guessed>>

Rest == pc = "idle" /\ UNCHANGED vars

Poll == GiveUp \/ SeeStatus \/ SeeNothing \/ LastLook
Next ==
    \/ Start \/ Sign \/ SignFails \/ Send \/ PreflightRejects \/ Poll
    \/ FourMinutesPass \/ Rest \/ \E a \in Tx : Chain(a)

(* The handler goes on and the clock runs; nothing is asked of the chain.  *)
FairSpec ==
    /\ Init /\ [][Next]_vars
    /\ WF_vars(Sign \/ SignFails) /\ WF_vars(Send \/ PreflightRejects)
    /\ WF_vars(GiveUp) /\ WF_vars(LastLook) /\ WF_vars(FourMinutesPass)

-----------------------------------------------------------------------------
(* Properties.                                                             *)

(* sendTx, "double-send safe": however often a call re-signs and callers   *)
(* repeat what they were told did not apply, at most one of the            *)
(* transactions takes effect, unless an answer rested on a look at a node  *)
(* that was unreachable or behind, or at a block that was then abandoned.  *)
AppliesOnce ==
    ~guessed => \A a, b \in Tx : tx[a].state = "confirmed" /\ tx[b].state = "confirmed" => a = b

(* TxError: an answer that nothing was applied is final, no transaction    *)
(* signed so far can still land; a signature is that of a confirmed one.   *)
AnswerHonest ==
    ~guessed /\ pc = "idle" =>
        /\ answer = "signature" => State = "confirmed"
        /\ answer \in {"notLanded", "failed"} =>
              \A a \in Tx : \/ tx[a].state \in {"none", "signed", "failed"}
                            \/ tx[a].state = "pending" /\ tx[a].dead

(* A call ends, whatever the node and the cluster do. *)
CallEnds == pc # "idle" ~> pc = "idle"

=============================================================================
