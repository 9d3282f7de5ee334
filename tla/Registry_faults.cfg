SPECIFICATION FairSpec
CONSTANTS
    Calls = {r1, r2}
    Timeout = 12
    Interval = 3
    RegisterLimit = 4
    CallLimit = 2
    CommitLimit = 5
    MaxLosses = 2
    Faults = {"loss", "forget"}
    Null = Null
INVARIANTS IInv RegisteredIsEligible
PROPERTIES UpBecomesEligible
