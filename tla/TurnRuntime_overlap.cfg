\* One thread, two handlers that may overlap, re-commands, a restart.
SPECIFICATION Spec
CONSTANTS
    t1 = t1
    r1 = r1  r2 = r2
    g1 = g1  g2 = g2  g3 = g3
    None = None
    Threads <- ThreadOne
    Requests <- RequestTwo
    Gates <- GatesThree
    Last = 2
    MaxRuns = 2
    MaxRestarts = 1
    Durable = TRUE
CONSTRAINT DrawnInOrder
INVARIANTS
    TypeOK
    AnswerReachesItsQuestion
    QuestionAnsweredOnce
    OneCurrentQuestion
    StoreMatchesCheckpoint
    FrameMatchesCheckpoint
PROPERTIES
    SupersededIsFinal
    AcceptedAnswerIsUsed
    ImplementsConversation
CHECK_DEADLOCK FALSE
