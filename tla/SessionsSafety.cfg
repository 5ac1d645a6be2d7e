SPECIFICATION Spec
CONSTANTS
    b1 = b1
    c1 = c1
    Asks <- Split
    None = None
    User = {u1}
    Students = {u1}
    Browser = {b1}
    Call = {c1, c2}
    Failing = {c1}
    BrowserOf <- OneBrowser
    Session = {s1, s2, s3}
    ResetToken = {t1}
    MaxResets = 1
    MaxFaults = 1
INVARIANTS TypeOK ResetSignsOut OneHeir UpUnlessStrained CookieStaysLive
