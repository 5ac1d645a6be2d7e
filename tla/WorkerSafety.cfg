SPECIFICATION MCFairSpec
CONSTANTS
    s1 = s1
    j1 = j1
    j2 = j2
    u1 = u1
    u2 = u2
    k1 = k1
    Student = {s1}
    Posting = {j1, j2}
    Skill = {k1}
    Upload = {u1, u2}
    Requirement <- MCRequirement
    OwnerOf <- MCOwnerOf
    MaxEdits = 2
    MaxFaults = 1
    None = None
INVARIANTS
    TypeOK
    RanksSettle
    FeedSettles
    AnalysisSettles
    ToldBeforeProcessed
    VersionsDistinct
PROPERTIES
    EditsSurvive
    AnalysisEnds
CHECK_DEADLOCK FALSE
