CONSTANTS
    Request = {r1, r2}
    Frequencies = {"QUARTERLY", "MONTHLY"}
    LastMonth = 6
    MaxRows = 3
SPECIFICATION PeriodsSpec
INVARIANTS
    OneOpenUnlessRaced
    NextAfterPaid
