SPECIFICATION Spec
CONSTANTS
    None = None
    Student = {s1, s2}
    Posting = {j1}
    Req = {r1, r2}
    Key = {j1}
    KeysOf <- PostingKeys
    MayDie = FALSE
INVARIANT ReplyIsOwn
