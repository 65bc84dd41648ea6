--------------------------- MODULE OnboardingGate ---------------------------
(***************************************************************************)
(* components/investor/onboarding-gate.tsx and the passport panel inside   *)
(* it (zk-kyc-panel.tsx): accept the agreement with one signature, after a *)
(* passport transaction where the market wants one.  Both are asynchronous *)
(* functions that keep the wallet they started with, and go on when the    *)
(* investor changes wallets or the widget is taken off the page.           *)
(*                                                                         *)
(* At most one acceptance and one passport job run at a time (a bound: a   *)
(* gate that is mounted again could start a second one).                   *)
(***************************************************************************)
EXTENDS InvestorClient

VARIABLES
  gateMounted,  \* the gate is on the page
  enabledFor,   \* the wallet the last acceptance enabled
  kycDone,      \* the passport panel reported an allow entry
  accepting,    \* acceptAndSign: pc, its wallet, whether the gate asked for a
                \* passport, and whether that gate is still mounted
  zk            \* the passport panel's start(): pc, wallet, live as above, and
                \* whether its panel told it to stop

gateVars == <<gateMounted, enabledFor, kycDone>>
jobVars == <<accepting, zk>>

NotAccepting == [pc |-> "idle", wallet |-> NoWallet, kyc |-> FALSE, live |-> FALSE]
NoZk == [pc |-> "idle", wallet |-> NoWallet, live |-> FALSE, stop |-> FALSE]

GateInit == /\ enabledFor = NoWallet /\ kycDone = FALSE
            /\ accepting = NotAccepting /\ zk = NoZk

(* "Trading enabled" counts only for the wallet that just signed. *)
Enabled_ForAnyone == enabledFor # NoWallet
Enabled == wallet # NoWallet /\ enabledFor = wallet

GateStatus == Shown(gateStatus, wallet)
GateRegistered == Enabled \/ GateStatus.registered
Asking == gateMounted /\ wallet # NoWallet /\ GateStatus # NoStatus /\ ~GateRegistered
KycReady == kycDone \/ GateStatus.allowlisted
ZkShown == Asking /\ GateStatus.kyc
ZkIdle == zk.pc = "idle" \/ zk.stop   \* the phase of the panel on the page

---------------------------------------------------------------------------
(* The gate is put on the page or taken off it, with the requests fs in     *)
(* flight; a gate that leaves loses its state, its jobs run on without it.  *)
MountGate(fs, w) ==
  /\ gateMounted' = TRUE
  /\ fetches' = fs \union Refresh("gate", w)
  /\ gateStatus' = NoStatus /\ enabledFor' = NoWallet /\ kycDone' = FALSE
  /\ UNCHANGED jobVars

UnmountGate(fs) ==
  /\ gateMounted' = FALSE
  /\ fetches' = {f \in fs : f.hook # "gate"}
  /\ gateStatus' = NoStatus /\ enabledFor' = NoWallet /\ kycDone' = FALSE
  /\ accepting' = [accepting EXCEPT !.live = FALSE]
  /\ zk' = [zk EXCEPT !.live = FALSE, !.stop = TRUE]

(* The gate's own status arrives.  The passport panel that was waiting to be *)
(* started reports an entry it learns of; it leaves the page when the gate   *)
(* no longer shows it.                                                       *)
GateArrives(f) ==
  /\ f \in fetches /\ f.hook = "gate"
  /\ fetches' = fetches \ {f}
  /\ \E s \in Answers(f) :
       /\ gateStatus' = s
       /\ kycDone' = (kycDone \/ (/\ ZkShown /\ ZkIdle /\ ~GateStatus.allowlisted
                                  /\ s.wallet = wallet /\ s.allowlisted /\ ~s.registered))
       /\ zk' = [zk EXCEPT !.stop = @ \/ ~(s.wallet = wallet /\ ~s.registered /\ s.kyc)]
  /\ UNCHANGED <<serverVars, sessionVars, panelStatus, gateMounted, enabledFor, accepting>>

---------------------------------------------------------------------------
(* acceptAndSign *)
Accept ==
  /\ Asking /\ accepting.pc = "idle"
  /\ GateStatus.kyc => KycReady
  /\ accepting' = [pc |-> "sign", wallet |-> wallet, kyc |-> GateStatus.kyc, live |-> TRUE]
  /\ UNCHANGED <<clientVars, gateVars, zk>>

(* The wallet signs only for itself; a rejected signature ends the job. *)
SignMessage ==
  /\ accepting.pc = "sign"
  /\ \/ /\ wallet = accepting.wallet
        /\ accepting' = [accepting EXCEPT !.pc = "register"]
     \/ accepting' = NotAccepting
  /\ UNCHANGED <<clientVars, gateVars, zk>>

(* POST participants: with a passport the server wants the entry on chain,  *)
(* otherwise (an invite, or none is needed) it adds it.                     *)
ServerRegisters ==
  /\ accepting.pc = "register"
  /\ accepting.kyc => accepting.wallet \in entry
  /\ row' = row \union {accepting.wallet}
  /\ entry' = entry \union {accepting.wallet}
  /\ accepting' = [accepting EXCEPT !.pc = "answer"]
  /\ UNCHANGED <<kycMarket, sessionVars, panelStatus, gateStatus, fetches, gateVars, zk>>

(* The request fails, or its answer is lost. *)
RegisterFails ==
  /\ accepting.pc \in {"register", "answer"}
  /\ accepting' = NotAccepting
  /\ UNCHANGED <<clientVars, gateVars, zk>>

(* The answer: a gate still on the page shows it, every hook on the page is *)
(* told that the market changed, and the gate refreshes the job's wallet.   *)
RegisterAnswered(announced) ==
  /\ accepting.pc = "answer"
  /\ accepting' = NotAccepting
  /\ enabledFor' = IF accepting.live THEN accepting.wallet ELSE enabledFor
  /\ fetches' = fetches \union announced
                  \union (IF accepting.live THEN Refresh("gate", accepting.wallet) ELSE {})
  /\ UNCHANGED <<serverVars, sessionVars, panelStatus, gateStatus, gateMounted, kycDone, zk>>

---------------------------------------------------------------------------
(* start(): ask for a proof or reuse the attestation, then poll. *)
ZkStart ==
  /\ ZkShown /\ ZkIdle /\ zk.pc \in {"idle", "done"} /\ ~GateStatus.allowlisted
  /\ zk' = [pc |-> "poll", wallet |-> wallet, live |-> TRUE, stop |-> FALSE]
  /\ UNCHANGED <<clientVars, gateVars, accepting>>

(* The loop looks at stop before each request and not after it: a verified  *)
(* answer goes straight to the wallet, which signs only for itself.         *)
ZkPoll ==
  /\ zk.pc = "poll"
  /\ \/ zk.stop /\ zk' = NoZk
     \/ wallet = zk.wallet /\ zk' = [zk EXCEPT !.pc = "confirm"]
  /\ UNCHANGED <<clientVars, gateVars, accepting>>

(* onDone reaches a gate that is still mounted, whatever wallet it shows. *)
ZkConfirm ==
  /\ zk.pc = "confirm"
  /\ entry' = entry \union {zk.wallet}
  /\ kycDone' = (kycDone \/ zk.live)
  /\ zk' = [zk EXCEPT !.pc = "done"]
  /\ UNCHANGED <<kycMarket, row, sessionVars, panelStatus, gateStatus, fetches,
                 gateMounted, enabledFor, accepting>>

ZkFails ==
  /\ zk.pc \in {"poll", "confirm"}
  /\ zk' = NoZk
  /\ UNCHANGED <<clientVars, gateVars, accepting>>

Gate == \/ \E f \in fetches : GateArrives(f)
        \/ Accept \/ SignMessage \/ ServerRegisters \/ RegisterFails
        \/ ZkStart \/ ZkPoll \/ ZkConfirm \/ ZkFails
=============================================================================
