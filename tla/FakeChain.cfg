CONSTANTS
    Wallet = {1, 2, 3, 4}
    Accepted = {1, 2, 3}
    Payee = {1}
    Pool = {p1}
    Absent = Absent
    DEFAULT_TOKEN_SUPPLY = 4
    DEFAULT_GRADUATION_MULTIPLE = 3
    Unit = 2
    LargestAccounts = 2
    Elsewhere = {2}
    Unlisted = {3}
    Bodies <- RequestBodies
    Trades = {1, 3}
    Sums = {2}
    IssuerFunds = 5
    MaxSlot = 7
SPECIFICATION FakeSpec
INVARIANTS
    Conserved
    ListingNeverOverpays
    SplitsExactly
    ClaimsProvable
    QuotesAgree
