SPECIFICATION Spec
CONSTANTS
    e1 = e1
    None = None
    Emitters <- OneEmitter
    Cap = 1
    BatchMax = 1
    Sinks <- AllSinks
    Budgets <- AllBudgets
    Interval = 1
    MaxSpend = 2
    MaxMonth = 2
INVARIANTS
    AlertsAreEarned
    AlertedOnce
PROPERTIES
    OldestGoFirst
    CrossingsAreRecorded
