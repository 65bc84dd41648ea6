---------------------------- MODULE MCWalletLogin ----------------------------
EXTENDS WalletLogin, TLC

Symmetry == Permutations(Login) \cup Permutations(Nonce) \cup Permutations(Owner)
=============================================================================
