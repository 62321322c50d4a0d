SPECIFICATION Spec
CONSTANTS
    vendor = vendor
    None = None
    c1 = c1
    c2 = c2
    Calls = {c1, c2}
    Streamers = {c2}
    Chain <- TwoAccounts
    Threshold = 2
    Window = 1
    Cooldown = 1
    ProbeTtl = 1
INVARIANTS
    AttemptsAreInOrder
PROPERTIES
    LockoutEnds
    CallsEnd
