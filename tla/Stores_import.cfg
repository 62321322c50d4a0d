SPECIFICATION StoresSpec
CONSTANTS
    p1 = p1
    p2 = p2
    t1 = t1
    t2 = t2
    i1 = i1
    b1 = b1
    None = None
    Projects <- TwoProjects
    Turns <- TwoTurns
    Imports <- OneImport
    Branches <- OneBranch
    Target = p1
    ImportedId = 2
    PlanSize = 2
    Kinds <- BothKinds
CONSTRAINT Telling
SYMMETRY Alike
INVARIANTS
    PlansHold
    TalkIsKept
CHECK_DEADLOCK FALSE
