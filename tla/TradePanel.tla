----------------------------- MODULE TradePanel -----------------------------
(***************************************************************************)
(* components/investor/trade-panel.tsx: the quote that follows the input,  *)
(* the gate an unregistered buyer gets instead of a swap, and submit(),    *)
(* which keeps the wallet, the amount and the quote of the click while the *)
(* market moves and the page changes.  Behind it, the quote and the swap   *)
(* of lib/server/market.ts and the pool itself, as a price level: Rate     *)
(* gives what 1000 base units buy.                                         *)
(***************************************************************************)
EXTENDS OnboardingGate, Integers

CONSTANTS Amount,     \* base units the investor types
          BuyRate, SellRate,   \* price level -> base units out per 1000 in
          MaxEdits,   \* how often the form is edited (a bound)
          MaxMoves,   \* how often the price moves (a bound)
          MaxSwaps    \* swaps submitted (a bound)

ASSUME PanelConstants ==
  /\ Amount \subseteq Nat \ {0} /\ MaxEdits \in Nat /\ MaxMoves \in Nat /\ MaxSwaps \in Nat
  /\ BuyRate \in [DOMAIN BuyRate -> Nat] /\ SellRate \in [DOMAIN BuyRate -> Nat]
  /\ 1 \in DOMAIN BuyRate

VARIABLES
  chainMode, level, moves,        \* the chain behind the page
  onMarket,                       \* the page: the market or the onboarding link (or,
                                  \* with no gate either, one that rendering took down)
  side, input, edits, quote, quoting,   \* the form, the quote shown, the requests out
  was, gateOpen, justEnabled, outcome,
  swap, swaps                     \* submit() and how often it ran

chainVars == <<chainMode, level, moves>>
formVars == <<side, input, edits, quote, quoting>>
noticeVars == <<was, gateOpen, justEnabled, outcome>>
submitVars == <<swap, swaps>>
panelVars == <<onMarket, formVars, noticeVars, submitVars>>
vars == <<clientVars, gateVars, jobVars, chainVars, panelVars>>

SLIPPAGE_BPS == 100
NoQuote == [side |-> "BUY", amount |-> 0, receive |-> 0]
NoSwap == [pc |-> "idle", wallet |-> NoWallet, amount |-> 0, quote |-> NoQuote, anyway |-> FALSE]
NoOutcome == [kind |-> "none", paid |-> 0, got |-> 0, quote |-> NoQuote]

(* quoteSwap: what the pool pays out for an exact input at the current price. *)
QuoteSwap(s, a) == (a * (IF s = "BUY" THEN BuyRate ELSE SellRate)[level]) \div 1000
QuoteView(s, a) == [side |-> s, amount |-> a, receive |-> QuoteSwap(s, a)]
MinOut(q) == (q.receive * (10000 - SLIPPAGE_BPS)) \div 10000

PanelStatus == Shown(panelStatus, wallet)
Registered == PanelStatus.registered
GateShown(open, s, w) == open /\ w # NoWallet /\ ~Shown(s, w).registered

(* The page after a change of what decides whether the gate is shown. *)
Render(shown, fs) ==
  \/ shown /\ gateMounted /\ fetches' = fs /\ UNCHANGED <<gateStatus, gateVars, jobVars>>
  \/ shown /\ ~gateMounted /\ MountGate(fs, wallet)
  \/ ~shown /\ gateMounted /\ UnmountGate(fs)
  \/ ~shown /\ ~gateMounted /\ fetches' = fs /\ UNCHANGED <<gateStatus, gateVars, jobVars>>

(* announceMarketChange: every hook on the page asks for its wallet again. *)
Announced == (IF onMarket THEN Refresh("panel", wallet) ELSE {})
               \union (IF gateMounted THEN Refresh("gate", wallet) ELSE {})

---------------------------------------------------------------------------
(* The status arrives; the effect closes the gate and says so once the      *)
(* connected wallet turns out registered.                                   *)
PanelArrives(f) ==
  /\ f \in fetches /\ f.hook = "panel"
  /\ \E s \in Answers(f) :
       LET shown == Shown(s, wallet)
           joined == was = "no" /\ shown.registered
       IN  /\ panelStatus' = s
           /\ gateOpen' = (gateOpen /\ ~joined)
           /\ justEnabled' = (justEnabled \/ joined)
           /\ was' = IF shown = NoStatus THEN was ELSE IF shown.registered THEN "yes" ELSE "no"
           /\ Render(GateShown(gateOpen', s, wallet), fetches \ {f})
  /\ UNCHANGED <<serverVars, sessionVars, chainVars, onMarket, formVars, outcome, submitVars>>

(* The debounced quote: a new amount or side drops the quote and aborts the *)
(* request for the old one.                                                 *)
AskQuote_NoAbort(s, a) == quoting \union (IF a = 0 THEN {} ELSE {[side |-> s, amount |-> a]})
AskQuote(s, a) == IF a = 0 THEN {} ELSE {[side |-> s, amount |-> a]}

Enter(s, a) ==
  /\ side' = s /\ input' = a
  /\ IF <<s, a>> = <<side, input>>
       THEN UNCHANGED <<quote, quoting>>
       ELSE quote' = NoQuote /\ quoting' = AskQuote(s, a)

(* Typing and the side's tab clear the outcome; the amount buttons do not. *)
EditInput(s, a) ==
  /\ onMarket /\ ~gateMounted
  /\ <<s, a>> # <<side, input>> /\ (s # side => a = 0)
  /\ edits < MaxEdits /\ edits' = edits + 1
  /\ Enter(s, a)
  /\ \/ outcome' = NoOutcome
     \/ s = side /\ a # 0 /\ UNCHANGED outcome
  /\ UNCHANGED <<clientVars, gateVars, jobVars, chainVars, onMarket, was, gateOpen, justEnabled,
                 submitVars>>

(* An abort that strikes while the answer's body is read leaves {} for the  *)
(* quote: the panel throws over its missing receive, and no boundary saves  *)
(* the page.  What was running runs on unseen; a reload starts over.        *)
PageDown ==
  /\ onMarket' = FALSE /\ panelStatus' = NoStatus /\ UnmountGate({})
  /\ side' = "BUY" /\ input' = 0 /\ quote' = NoQuote /\ quoting' = {}
  /\ was' = "unknown" /\ gateOpen' = FALSE /\ justEnabled' = FALSE /\ outcome' = NoOutcome
  /\ UNCHANGED <<serverVars, sessionVars, chainVars>>

EditBreaks ==
  /\ onMarket /\ ~gateMounted /\ quoting # {}
  /\ PageDown /\ UNCHANGED <<edits, submitVars>>   \* the last edit of the page: not counted

QuoteArrives(q) ==
  /\ q \in quoting
  /\ quoting' = quoting \ {q}
  /\ \/ quote' = QuoteView(q.side, q.amount)
     \/ UNCHANGED quote        \* the request failed
  /\ UNCHANGED <<clientVars, gateVars, jobVars, chainVars, onMarket, side, input, edits, noticeVars,
                 submitVars>>

---------------------------------------------------------------------------
(* submit(): without "try anyway" an unregistered buyer gets the gate. *)
CanSubmit == onMarket /\ wallet # NoWallet /\ input # 0 /\ quote # NoQuote /\ swap.pc = "idle"

OpenGate ==
  /\ CanSubmit /\ ~gateMounted /\ PanelStatus # NoStatus
  /\ side = "BUY" /\ ~Registered
  /\ gateOpen' = TRUE
  /\ Render(TRUE, fetches)
  /\ UNCHANGED <<serverVars, sessionVars, panelStatus, chainVars, onMarket, formVars, was,
                 justEnabled, outcome, submitVars>>

Submit(anyway) ==
  /\ CanSubmit /\ swaps < MaxSwaps
  /\ IF anyway THEN gateMounted /\ Asking
               ELSE ~gateMounted /\ PanelStatus # NoStatus /\ (side = "BUY" => Registered)
  /\ swap' = [pc |-> IF chainMode = "fake" THEN "apply" ELSE "build",
              wallet |-> wallet, amount |-> input, quote |-> quote, anyway |-> anyway]
  /\ swaps' = swaps + 1
  /\ gateOpen' = FALSE /\ outcome' = NoOutcome
  /\ Render(FALSE, fetches)
  /\ UNCHANGED <<serverVars, sessionVars, panelStatus, chainVars, onMarket, formVars, was, justEnabled>>

(* The swap ends: the outcome is shown on the page as it is by now. *)
EndSwap(kind, paid, got) ==
  /\ onMarket /\ swap' = NoSwap
  /\ outcome' = [kind |-> kind, paid |-> paid, got |-> got,
                 quote |-> IF kind = "done" THEN swap.quote ELSE NoQuote]
  /\ UNCHANGED <<swaps, was, gateOpen, justEnabled, chainVars, serverVars, sessionVars, panelStatus,
                 onMarket, gateStatus, gateVars, jobVars>>

SwapDone(paid, got) ==
  /\ EndSwap("done", paid, got)
  /\ Enter(side, 0) /\ UNCHANGED edits
  /\ fetches' = fetches \union Announced \union Refresh("panel", swap.wallet)

SwapError(kind) == EndSwap(kind, 0, 0) /\ UNCHANGED <<fetches, formVars>>

(* Emptying the form aborts a request too; on a page that is down nothing   *)
(* shows how a swap ended.                                                  *)
DoneBreaks ==
  /\ onMarket /\ swap.pc \in {"apply", "confirm"} /\ quoting # {}
  /\ swap' = NoSwap /\ PageDown /\ UNCHANGED <<edits, swaps>>

EndsUnseen ==
  /\ ~onMarket /\ swap.pc # "idle" /\ swap' = NoSwap
  /\ UNCHANGED <<clientVars, gateVars, jobVars, chainVars, onMarket, formVars, noticeVars, swaps>>

Eligible == swap.quote.side = "BUY" => swap.wallet \in entry   \* the transfer hook

(* The fake chain: the dev endpoint applies the quoted tokens. *)
FakeSwap ==
  /\ swap.pc = "apply"
  /\ \/ /\ Eligible
        /\ SwapDone(swap.amount, IF swap.quote.side = "BUY" THEN swap.quote.receive
                                 ELSE QuoteSwap("SELL", swap.amount))
     \/ ~Eligible /\ SwapError("not-eligible")

(* POST swap, the wallet's signature, the broadcast: any of them may fail.  *)
SwapStep(from, to) ==
  /\ swap.pc = from
  /\ swap' = [swap EXCEPT !.pc = to]
  /\ UNCHANGED <<clientVars, gateVars, jobVars, chainVars, onMarket, formVars, noticeVars, swaps>>

BuildSwap == SwapStep("build", "sign")
SignSwap == wallet = swap.wallet /\ SwapStep("sign", "confirm")

(* The pool takes exactly the amount and gives at least the minimum, or the *)
(* transaction fails.                                                       *)
SwapLands ==
  /\ swap.pc = "confirm"
  /\ LET got == QuoteSwap(swap.quote.side, swap.amount)
     IN  \/ Eligible /\ got >= MinOut(swap.quote) /\ SwapDone(swap.amount, got)
         \/ ~Eligible /\ SwapError("not-eligible")
         \/ got < MinOut(swap.quote) /\ SwapError("error")

(* Rejected, refused, dropped, or unconfirmed for sixty seconds. *)
SwapFails == swap.pc # "idle" /\ SwapError("error")

OnboardThisWallet ==
  /\ onMarket /\ outcome.kind = "not-eligible" /\ ~gateOpen
  /\ gateOpen' = TRUE
  /\ Render(GateShown(TRUE, panelStatus, wallet), fetches)
  /\ UNCHANGED <<serverVars, sessionVars, panelStatus, chainVars, onMarket, formVars, was,
                 justEnabled, outcome, submitVars>>

Cancel ==
  /\ onMarket /\ gateMounted
  /\ gateOpen' = FALSE
  /\ Render(FALSE, fetches)
  /\ UNCHANGED <<serverVars, sessionVars, panelStatus, chainVars, onMarket, formVars, was,
                 justEnabled, outcome, submitVars>>

---------------------------------------------------------------------------
(* Another wallet is connected, or none: every hook starts over, the panel  *)
(* forgets its notices, and the running jobs keep the wallet they have.     *)
SwitchWallet(w) ==
  /\ w # wallet /\ switches < MaxSwitches
  /\ wallet' = w /\ switches' = switches + 1
  /\ panelStatus' = NoStatus
  /\ was' = "unknown" /\ gateOpen' = FALSE /\ justEnabled' = FALSE /\ outcome' = NoOutcome
  /\ IF onMarket
       THEN LET fs == fetches \union Refresh("panel", w)
            IN  Render(FALSE, fs)
       ELSE /\ gateStatus' = NoStatus
            /\ fetches' = fetches \union (IF gateMounted THEN Refresh("gate", w) ELSE {})
            /\ zk' = [zk EXCEPT !.stop = TRUE]
            /\ UNCHANGED <<gateVars, accepting>>
  /\ UNCHANGED <<serverVars, chainVars, onMarket, formVars, submitVars>>

(* The link of the onboarding page, shown once the wallet is enabled. *)
GoToMarket ==
  /\ ~onMarket /\ wallet # NoWallet /\ GateStatus # NoStatus /\ GateRegistered
  /\ onMarket' = TRUE
  /\ UnmountGate(fetches \union Refresh("panel", wallet))
  /\ UNCHANGED <<serverVars, sessionVars, panelStatus, chainVars, formVars, noticeVars, submitVars>>

MarketMoves(l) ==
  /\ moves < MaxMoves /\ l # level
  /\ swap.pc # "idle"   \* a move while only the quote is shown has the same effect
  /\ level' = l /\ moves' = moves + 1
  /\ UNCHANGED <<clientVars, gateVars, jobVars, chainMode, panelVars>>

Init ==
  /\ ClientInit /\ GateInit
  /\ chainMode \in {"fake", "devnet"} /\ (kycMarket => chainMode = "devnet") /\ level = 1 /\ moves = 0
  /\ onMarket \in BOOLEAN /\ gateMounted = ~onMarket /\ fetches = Announced
  /\ side = "BUY" /\ input = 0 /\ edits = 0 /\ quote = NoQuote /\ quoting = {}
  /\ was = "unknown" /\ gateOpen = FALSE /\ justEnabled = FALSE /\ outcome = NoOutcome
  /\ swap = NoSwap /\ swaps = 0

Panel == \/ \E f \in fetches : PanelArrives(f)
         \/ \E s \in {"BUY", "SELL"}, a \in Amount \union {0} : EditInput(s, a)
         \/ EditBreaks
         \/ \E q \in quoting : QuoteArrives(q)
         \/ OpenGate \/ (\E anyway \in BOOLEAN : Submit(anyway)) \/ OnboardThisWallet \/ Cancel

Swap == FakeSwap \/ BuildSwap \/ SignSwap \/ SwapLands \/ SwapFails
        \/ DoneBreaks \/ EndsUnseen

Next ==
  \/ Panel \/ Swap
  \/ (Gate \/ (\E f \in fetches : FetchFails(f) /\ UNCHANGED <<gateVars, jobVars>>)
           \/ RegisterAnswered(Announced)) /\ UNCHANGED <<chainVars, panelVars>>
  \/ \E w \in Wallet \union {NoWallet} : SwitchWallet(w)
  \/ GoToMarket
  \/ \E l \in DOMAIN BuyRate : MarketMoves(l)

Spec == Init /\ [][Next]_vars

---------------------------------------------------------------------------
(* A swap reported as done on chain paid the amount its quote was for, and  *)
(* brought at least 99% of what the page had shown for it: whatever was     *)
(* typed, whichever quote arrived late and however the price moved          *)
(* meanwhile (trade-panel.tsx, the quote effect and submit).                *)
DoneAsShown ==
  (outcome.kind = "done" /\ chainMode = "devnet") =>
    /\ outcome.paid = outcome.quote.amount
    /\ 10000 * outcome.got >= (10000 - SLIPPAGE_BPS) * outcome.quote.receive - 9999

(* Nothing the page says or does on behalf of a wallet rests on what it     *)
(* learned about another one: a buy goes out without "submit anyway", and   *)
(* "Trading enabled" is shown, only for a wallet whose row is complete      *)
(* (client.ts:86, onboarding-gate.tsx:62, trade-panel.tsx, submit).         *)
EnabledIsListed ==
  /\ (swap.pc # "idle" /\ swap.quote.side = "BUY" /\ ~swap.anyway) => swap.wallet \in row
  /\ (gateMounted /\ GateStatus # NoStatus /\ GateRegistered) => wallet \in row
  /\ justEnabled => wallet \in row
=============================================================================
