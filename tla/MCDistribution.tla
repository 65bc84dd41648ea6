-------------------------- MODULE MCDistribution --------------------------
(* Model values and bounds for Distribution. *)
EXTENDS Distribution, TLC

CONSTANTS alice, bob, carol

(* Registration between two snapshots moves payouts between holders and   *)
(* adds a holder; two tables share a total, so a typed total does not     *)
(* identify a snapshot.                                                   *)
HolderTables ==
    { alice :> 2 @@ bob :> 1 @@ carol :> 0,
      alice :> 1 @@ bob :> 1 @@ carol :> 1,
      alice :> 0 @@ bob :> 1 @@ carol :> 0 }

Symmetry == Permutations(Request)
=============================================================================
