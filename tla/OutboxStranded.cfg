SPECIFICATION FairSpec
CONSTANTS
    None = None
    Event = {e1}
    Worker = {w1}
    BatchLimit = 1
    Attempts = 2
    MaxStalled = 1
    KeepCompleted = 1
    KeepFailed = 1
    FaultBudget = 2
PROPERTY UnprocessedIsRepublished
CHECK_DEADLOCK FALSE
