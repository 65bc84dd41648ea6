CONSTANTS
    MaxTx = 3
    Attempts = 3
SPECIFICATION FairSpec
INVARIANTS
    AppliesOnce
    AnswerHonest
PROPERTY CallEnds
