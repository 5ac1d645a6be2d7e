SPECIFICATION RSpec
CONSTANTS
    s1 = s1
    None = None
    Student = {s1}
    Application = {a1, a2}
    StudentOf <- SameStudent
    Start = {600}
    Length = {30}
    Req = {r1, r2}
    Status <- SomeStatuses
    SlowRequests = FALSE
    MayDie = TRUE
SYMMETRY Symmetric
INVARIANTS TypeOK OneBookerPerSlot SameSlotOnce LastEventIsTrue
PROPERTY KeepsContract
VIEW TellingState
