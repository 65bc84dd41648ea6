--------------------------- MODULE InvestorClient ---------------------------
(***************************************************************************)
(* One browser tab of an investor: the connected wallet, and the hook      *)
(* useWalletStatus of components/investor/client.ts, which every widget    *)
(* uses to know whether that wallet may trade.  The hook asks the server,  *)
(* answers come back in any order, and the wallet may change meanwhile.    *)
(*                                                                         *)
(* A row is never taken back, so the answer to a request, read at some     *)
(* moment between the request and its arrival, is the value it had then or *)
(* the value it has now.                                                   *)
(***************************************************************************)
EXTENDS Naturals

CONSTANTS Wallet,       \* the investor's wallets
          NoWallet,     \* none is connected
          MaxSwitches   \* how often the wallet may change (a bound)

ASSUME ClientConstants == NoWallet \notin Wallet /\ MaxSwitches \in Nat

VARIABLES
  kycMarket,    \* this deployment and mint accept passports
  row,          \* wallets whose Participant row is complete
  entry,        \* wallets with an allow entry on chain
  wallet,       \* the connected wallet
  switches,     \* changes of it so far
  panelStatus,  \* the status the trade panel's hook holds
  gateStatus,   \* the status the onboarding gate's hook holds
  fetches       \* the hooks' requests whose answers have not arrived

serverVars == <<kycMarket, row, entry>>
sessionVars == <<wallet, switches>>
clientVars == <<serverVars, sessionVars, panelStatus, gateStatus, fetches>>

NoStatus == [wallet |-> NoWallet, registered |-> FALSE, kyc |-> FALSE, allowlisted |-> FALSE]

(* walletView: registered needs the agreement and the allowlist transaction *)
(* of the row; kyc is available where the market accepts passports, and its *)
(* allowlisted is read from the chain.                                      *)
Allowlisted(w) == kycMarket /\ w \in entry
WalletView(w) ==
  [wallet |-> w, registered |-> w \in row, kyc |-> kycMarket, allowlisted |-> Allowlisted(w)]

(* A read of the passport state that fails says that none is available. *)
WithoutKyc(s) == [s EXCEPT !.kyc = FALSE, !.allowlisted = FALSE]

(* refresh: nothing is asked while no wallet is connected.  Of what the     *)
(* trade panel is told it looks at registered only.                         *)
Refresh(hook, w) ==
  IF w = NoWallet THEN {}
  ELSE {[hook |-> hook, asked |-> IF hook = "panel" THEN WithoutKyc(WalletView(w)) ELSE WalletView(w)]}

Answers(f) ==
  LET now == WalletView(f.asked.wallet)
      read == [wallet : {now.wallet}, registered : {f.asked.registered, now.registered},
               kyc : {f.asked.kyc}, allowlisted : {f.asked.allowlisted, f.asked.kyc /\ now.allowlisted}]
  IN  read \union {WithoutKyc(s) : s \in read}

(* What a hook returns: a status is shown only for the connected wallet. *)
Shown_AnyWallet(s, w) == s
Shown(s, w) == IF s.wallet = w THEN s ELSE NoStatus

(* A request that fails leaves the status as it was. *)
FetchFails(f) ==
  /\ f \in fetches
  /\ fetches' = fetches \ {f}
  /\ UNCHANGED <<serverVars, sessionVars, panelStatus, gateStatus>>

ClientInit ==
  /\ kycMarket \in BOOLEAN
  /\ row = {} /\ entry = {}
  /\ wallet \in Wallet /\ switches = 0
  /\ panelStatus = NoStatus /\ gateStatus = NoStatus
=============================================================================
