SPECIFICATION Spec
CONSTANTS
    Ids = {i1, i2}
    Calls = {c1, c2}
    Faults = {"restart", "api"}
    Null = Null
SYMMETRY Symmetry
INVARIANTS IInv PodWithService DestroyTearsDown
PROPERTIES KeepsContract
