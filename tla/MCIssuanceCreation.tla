------------------------- MODULE MCIssuanceCreation -------------------------
EXTENDS IssuanceCreation, TLC

CONSTANT p1, f1
OwnerOf == (p1 :> f1)

Symmetry == Permutations(Request)
=============================================================================
