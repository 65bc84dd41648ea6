CONSTANTS
    alice = alice
    bob = bob
    carol = carol
    Request = {r1, r2}
    Claimant = {c1, c2}
    Wallet = {alice, bob, carol}
    Tables <- HolderTables
    BatchSize = 1
    OtherFunds = 2
    MaxSnapshots = 2
    MaxCrashes = 0
    MaxErrors = 0
    MaxUnknown = 0
    MaxClaimFaults = 1
    MaxDurationEnforced = TRUE
SYMMETRY Symmetry
SPECIFICATION ClaimSpec
INVARIANTS
    OneClaimPerRow
    ReceivedOnce
    ClaimsCovered
PROPERTIES
    KeepsPromise
    HoldersPaidOnce
