SPECIFICATION ImportSpec
CONSTANTS
    Cids = {c1}
    Clients = {a1, importer}
    Attrs = {"protocol", "runtime"}
    Values = {"v1", "v2"}
    Default <- MCDefault
    Proto <- MCProto
    Null = Null
    Importer = importer
    Files = {f1}
    ChalOf <- MCChalOf
    Plain = {f1}
    MaxCopies = 2
INVARIANTS AttachedIsStored ImportedOnce CleanImportIsComplete ImportInv
PROPERTIES ImportKeepsRows
