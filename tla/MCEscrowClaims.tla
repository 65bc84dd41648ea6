-------------------------- MODULE MCEscrowClaims --------------------------
(* Model values and bounds for EscrowClaims. *)
EXTENDS EscrowClaims, TLC

CONSTANTS alice, bob, carol

(* Registration between two snapshots moves payouts between holders and adds one;  *)
(* the first two tables share a total, so a typed total does not identify *)
(* a snapshot.                                                            *)
HolderTables ==
    { alice :> 2 @@ bob :> 1 @@ carol :> 0,
      alice :> 1 @@ bob :> 1 @@ carol :> 1,
      alice :> 0 @@ bob :> 1 @@ carol :> 0 }

(* One table, for the runs about progress. *)
TwoHolders == { alice :> 2 @@ bob :> 1 }

Symmetry == Permutations(Request) \cup Permutations(Claimant)
=============================================================================
