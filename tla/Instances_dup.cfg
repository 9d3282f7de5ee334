SPECIFICATION ClaimsSpec
CONSTANTS
    Ids = {i1, i2, i3}
    Keys = {k1}
    Workers = {w1}
    Capacity <- MCRoomy
    Procs = {p1, p2}
    TTLs = {1}
    Horizon = 1
    Faults = {}
    Null = Null
SYMMETRY Symmetry
INVARIANTS OneActivePerTeam
