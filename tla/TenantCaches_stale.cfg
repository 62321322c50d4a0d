SPECIFICATION Spec
CONSTANTS
    v1 = v1
    v2 = v2
    None = None
    p1 = p1
    p2 = p2
    Processes <- TwoProcesses
    Kinds <- AllKinds
    Ttl <- Lives
    Values = {v1, v2}
    Rpm <- Limits
    Minute = 2
    NegativeTtl = 2
    Cap = 1
    MaxAttempts = 3
SYMMETRY Alike
INVARIANTS
    ServedIsCurrent
    QuotaBinds
