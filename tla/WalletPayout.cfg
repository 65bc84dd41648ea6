CONSTANTS
    alice = alice
    bob = bob
    Wallet = {alice, bob}
    Tables <- HolderTables
    Request = {r1}
    BatchSize = 1
    MaxSnapshots = 2
    MaxCrashes = 1
    MaxErrors = 1
    MaxUnknown = 1
    MaxDurationEnforced = TRUE
    SignId = {s1}
    Founder = {f1}
    NoFounder = NoFounder
    NoPayload = NoPayload
    Submitter = {h1, h2}
    WalletBatch = 1
    MaxBuilds = 1
CONSTRAINT OneFault
SYMMETRY Symmetry
SPECIFICATION WalletSpec
INVARIANTS
    OnePayer
    SignedRecordsHonest
    SignedExecutedPaid
    CompletedIsExecuted
