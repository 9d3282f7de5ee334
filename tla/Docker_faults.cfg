SPECIFICATION Spec
CONSTANTS
    Ids = {i1, i2}
    Calls = {c1, c2}
    Faults = {"restart", "gateway", "docker"}
    Null = Null
SYMMETRY Symmetry
INVARIANTS IInv AllOrNothing DestroyTearsDown
PROPERTIES KeepsContract
