\* Any build, then another; both runners.
SPECIFICATION Spec
CONSTANTS
    a = a  b = b  c = c
    None = None
    Tasks = {a, b, c}
    TaskList <- List3
    Layers = {"unit", "perf"}
    Required = {"unit"}
    Plans <- PlansAll
    LaterPlans <- Again
    Choices = {1, None}
    MaxBuilds = 2
INVARIANTS
    WavesAreRight
    HumansAreHeard
    ReplayLeavesNoTrace
PROPERTIES
    BuildsEnd
CHECK_DEADLOCK FALSE
