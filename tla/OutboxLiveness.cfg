SPECIFICATION FairSpec
CONSTANTS
    None = None
    Event = {e1, e2}
    Worker = {w1}
    BatchLimit = 1
    Attempts = 2
    MaxStalled = 0
    KeepCompleted = 1
    KeepFailed = 1
    FaultBudget = 2
PROPERTY ProcessedUnlessStuck
CHECK_DEADLOCK FALSE
