SPECIFICATION Spec
CONSTANTS
    t1 = t1
    t2 = t2
    b1 = b1
    b2 = b2
    Main = Main
    None = None
    Turns <- TwoTurns
    Branches <- TwoBranches
    Deployers <- BothWays
    MaxCommits = 2
    MaxRequests = 2
    MaxKills = 1
SYMMETRY Alike
INVARIANTS
    MergesAreTrue
    ClonesKeepApart
CHECK_DEADLOCK FALSE
