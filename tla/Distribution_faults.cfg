CONSTANTS
    alice = alice
    bob = bob
    carol = carol
    Request = {r1, r2}
    Wallet = {alice, bob, carol}
    Tables <- HolderTables
    BatchSize = 1
    MaxSnapshots = 2
    MaxCrashes = 1
    MaxErrors = 1
    MaxUnknown = 1
    MaxDurationEnforced = TRUE
SYMMETRY Symmetry
SPECIFICATION Spec
INVARIANTS
    OnlyLeaseHolderPays
    ConfirmedTotalStands
    RecordedPaymentNotRepeated
    RecordedMeansPaid
    DirectExecutedMeansPaid
PROPERTY RecordsStand
