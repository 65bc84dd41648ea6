CONSTANTS
    young = young
    rus = rus
    id1 = id1
    id2 = id2
    Mint = {m1}
    Wallet = {pool, ann, ben}
    Key = {fs}
    FsAuthority = fs
    NoKey = NoKey
    NoWallet = NoWallet
    NoAttestation = NoAttestation
    NoProof = NoProof
    NoTx = NoTx
    Passport = {young}
    Country = {rus}
    Citizenship <- Citizens
    Birth <- Births
    Identity = {id1, id2}
    PassportOf <- Identities
    Policies <- PolicyChoices
    Root = {1, 2}
    MaxRoots = 1
    DateSkew = 1
    FirstDay <- Leap
    LastDay <- Day2
    Request = {q1}
    Pool = pool
    Invited = {ann}
    RootLife = 1
    MaxPages = 1
SYMMETRY Symmetry
SPECIFICATION OnboardSpec
INVARIANTS
    OneIdentityOneWallet
    AdmittedForCause
    ListedOnChain
PROPERTY AttestedMeetPolicy
