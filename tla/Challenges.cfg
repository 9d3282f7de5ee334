SPECIFICATION RegistrySpec
CONSTANTS
    Cids = {c1}
    Clients = {a1, a2}
    Attrs = {"protocol", "runtime"}
    Values = {"v1", "v2"}
    Default <- MCDefault
    Proto <- MCProto
    Null = Null
SYMMETRY Symmetry
INVARIANTS InstanceHasChallenge OkMeansApplied
PROPERTIES OnlyProvidedChange
