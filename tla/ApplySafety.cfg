SPECIFICATION Spec
CONSTANTS
    None = None
    Student = {s1, s2}
    Posting = {j1}
    Req = {r1, r2}
    Key <- AnyKeys
    KeysOf <- MixedKeys
    MayDie = TRUE
SYMMETRY Symmetric
INVARIANTS TypeOK ReplyIsOwnOrKeyed ConflictMeansTaken RetryIsReplayed AppliedWasApproved
PROPERTY KeepsPromise
