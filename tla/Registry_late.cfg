SPECIFICATION FairSpec
CONSTANTS
    Calls = {r1, r2}
    Timeout = 12
    Interval = 3
    RegisterLimit = 4
    CallLimit = 2
    CommitLimit = 0
    MaxLosses = 2
    Faults = {"late"}
    Null = Null
PROPERTIES UpBecomesEligible
