SPECIFICATION Spec
CONSTANTS
    s1 = s1
    s2 = s2
    Slots <- TwoSlots
    c1 = c1
    c2 = c2
    Conns <- TwoConns
    Modes <- AllModes
    Cap = 1
    MaxTurns = 2
    MaxTokens <- Tokens
    MaxBreaks <- Breaks
INVARIANTS
    ViewIsRight
    AnswersFindTheirGate
PROPERTY
    CatchesUp
