CONSTANTS
  NoWallet = NoWallet
  w1 = w1
  w2 = w2
  Wallet <- Wallets
  MaxSwitches = 1
  Amount = {1000, 2000}
  BuyRate <- Buys
  SellRate <- Sells
  MaxEdits = 2
  MaxMoves = 1
  MaxSwaps = 1
SYMMETRY Symmetry
SPECIFICATION Spec
INVARIANTS DoneAsShown EnabledIsListed
CHECK_DEADLOCK FALSE
