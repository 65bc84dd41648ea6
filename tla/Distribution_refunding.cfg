CONSTANTS
    alice = alice
    bob = bob
    carol = carol
    Request = {r1, r2}
    Wallet = {alice, bob, carol}
    Tables <- HolderTables
    BatchSize = 1
    MaxSnapshots = 2
    MaxCrashes = 0
    MaxErrors = 1
    MaxUnknown = 0
    MaxDurationEnforced = TRUE
SYMMETRY Symmetry
SPECIFICATION Spec
INVARIANT EscrowExecutedMeansPaid
