---------------------------- MODULE MCTradePanel ----------------------------
(* Model values and symmetry for TLC. *)
EXTENDS TradePanel, TLC

CONSTANTS w1, w2
Wallets == {w1, w2}
Symmetry == Permutations(Wallets)

(* Three prices: the second is within one percent of the first, the third   *)
(* is not within one percent of either.                                     *)
Buys == <<1000, 995, 970>>
Sells == <<1000, 1005, 1030>>
=============================================================================
