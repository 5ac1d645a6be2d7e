SPECIFICATION Spec
CONSTANTS
    s1 = s1
    None = None
    Student = {s1}
    Application = {a1, a2}
    StudentOf <- SameStudent
    Start = {600, 620}
    Length = {30}
    Req = {r1, r2}
    Status <- SomeStatuses
    SlowRequests = FALSE
    MayDie = FALSE
SYMMETRY Symmetric
INVARIANT NoOverlap
