--------------------------- MODULE MCWalletPayout ---------------------------
EXTENDS WalletPayout, TLC

CONSTANTS alice, bob

(* Two tables of one total: a payload of the first passes for the second. *)
HolderTables == { alice :> 1 @@ bob :> 1, alice :> 2 @@ bob :> 0 }

(* A kill, a database error or an unknown outcome, one in a behaviour. *)
OneFault == faults["crash"] + faults["error"] + faults["unknown"] >= 2

Symmetry == Permutations(Submitter)
=============================================================================
