SPECIFICATION WorkspaceSpec
CONSTANTS
    k1 = k1  k2 = k2  k3 = k3  k4 = k4
    n1 = n1  n2 = n2
    i1 = i1  i2 = i2
    e1 = e1  e2 = e2
    None = None
    Ids <- FourIds
    Names <- TwoNames
    Imports <- TwoImports
    Events <- TwoEvents
    Modes <- AllModes
    MaxRequests = 3
    Starts <- Tables
SYMMETRY Alike
INVARIANTS
    EntitiesHold
    ImportsAreKept
CHECK_DEADLOCK FALSE
