SPECIFICATION FairSpec
CONSTANTS
    Ids = {i1, i2}
    Keys = {k1}
    Workers = {w1}
    Capacity <- MCTight
    Procs = {p1, p2}
    TTLs = {1}
    Horizon = 1
    Faults = {"worker", "timeout"}
    Null = Null
PROPERTIES ExpiredIsEnded ContainersCollected LaunchesEnd
