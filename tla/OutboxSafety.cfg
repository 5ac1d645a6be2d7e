SPECIFICATION Spec
CONSTANTS
    None = None
    Event = {e1, e2}
    Worker = {w1, w2}
    BatchLimit = 1
    Attempts = 2
    MaxStalled = 1
    KeepCompleted = 1
    KeepFailed = 1
    FaultBudget = 2
SYMMETRY Symmetric
INVARIANTS TypeOK CompletedJobMeansProcessed
PROPERTY DeliversAtLeastOnce
CHECK_DEADLOCK FALSE
