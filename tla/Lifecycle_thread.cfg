\* Two commands of any kind on one thread.
SPECIFICATION Spec
CONSTANTS
    staging = staging  qa = qa  prod = prod
    None = None
    Envs <- EnvsThree
    Production <- ProdOnly
    Fallback = staging
    Seeds <- SeedsShip
    MaxRuns = 2
INVARIANTS
    ShipsAsAgreed
    NightShiftKeepsItsWord
PROPERTY NightShiftEnds
CHECK_DEADLOCK FALSE
