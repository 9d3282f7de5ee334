SPECIFICATION FairPanelSpec
CONSTANTS
    Ids = {i1, i2}
    Lossy = FALSE
    Calls = {k1, k2}
    MaxPolls = 2
    Null = Null
INVARIANTS NoDeadPanel
PROPERTIES StaleHeals PanelSettles
