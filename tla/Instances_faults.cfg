SPECIFICATION Spec
CONSTANTS
    Ids = {i1, i2}
    Keys = {k1}
    Workers = {w1}
    Capacity <- MCTight
    Procs = {p1, p2}
    TTLs = {1, 2}
    Horizon = 1
    Faults = {"crash", "worker", "timeout", "db", "leftover"}
    Null = Null
SYMMETRY Symmetry
INVARIANTS NoOrphan PendingHasLauncher IInv
PROPERTIES StatusSteps UsesContract ImplementsLifecycle
