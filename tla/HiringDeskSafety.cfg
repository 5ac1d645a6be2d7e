SPECIFICATION Spec
CONSTANTS
    Application = {a1, a2}
    Req = {r1, r2}
    Choice = {"offered"}
    Verdict = {"accepted"}
    MayDie = TRUE
SYMMETRY Symmetric
INVARIANTS TypeOK ToldWasTrue
PROPERTIES DecidedOnOffer AnsweredMeansTold KeepsContract
