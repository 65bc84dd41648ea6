CONSTANTS
    alice = alice
    bob = bob
    carol = carol
    Request = {r1}
    Claimant = {c1, c2}
    Wallet = {alice, bob}
    Tables <- TwoHolders
    BatchSize = 1
    OtherFunds = 2
    MaxSnapshots = 1
    MaxCrashes = 1
    MaxErrors = 0
    MaxUnknown = 0
    MaxClaimFaults = 1
    MaxDurationEnforced = TRUE
SPECIFICATION FairClaimSpec
PROPERTIES
    Settles
    EveryHolderPaid
