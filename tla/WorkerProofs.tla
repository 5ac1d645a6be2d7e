---------------------------- MODULE WorkerProofs ----------------------------
(***************************************************************************)
(* Proofs about Worker, for any students, postings, skills and uploads,    *)
(* any number of changes and any number of faults.  Each property has an   *)
(* invariant of its own beside the shape of the worker's run, which they   *)
(* share.                                                                  *)
(***************************************************************************)
EXTENDS Worker, MatchProofs

\* What a step of the worker knows of its event and of what it has read.
Shape ==
    /\ (pc = "idle") <=> (job = None)
    /\ pc \in ResumeSteps => job[1] = "resume"
    /\ pc \in RankSteps => job[1] # "interview"
    /\ pc = "notify" => job[1] \in {"resume", "interview"}
    /\ pc = "notifyRecruiter" => job[1] \in {"approved", "applied", "interview"}
    /\ pc = "rank" =>
         /\ at \in Covers(job) /\ known[at] # None /\ at \notin todo
         /\ \A s \in todo : s \in Covers(job) /\ known[s] # None
         /\ \A j \in left : offers[j] # None

\* Only of uploads that are recorded there are events; their rows are still being made
\* where they are.
Recorded ==
    /\ \A u \in Upload : <<"resume", u>> \in owed \cup queue \cup givenUp \cup {job} => status[u] # "none"
    /\ \A u \in making : status[u] = "none"

\* No version is higher than the number of rows.
Inserted == {u \in Upload : status[u] # "none"}
Counted == \A u \in Upload : version[u] <= Cardinality(Inserted)

Types == TypeOK /\ Shape /\ Recorded /\ Counted

\* The events, and whose ranks they compute.
LEMMA EventKinds ==
    ASSUME NEW event \in Event
    PROVE  /\ event # None
           /\ event[1] \in {"profile", "job", "approved", "applied", "resume", "interview"}
           /\ event[1] = "resume" => event[2] \in Upload /\ event = <<"resume", event[2]>>
           /\ event[1] = "profile" => event[2] \in Student
           /\ Covers(event) \subseteq Student
           /\ event[1] = "interview" => Covers(event) = {}
           /\ event[1] = "resume" => Covers(event) = {OwnerOf[event[2]]}
           /\ event[1] = "profile" => Covers(event) = {event[2]}
           /\ event[1] \in {"job", "approved", "applied"} => Covers(event) = Student
<1>1. \/ event \in {"profile"} \X Student
      \/ event \in {"job", "approved", "applied"} \X Posting
      \/ event \in {"resume"} \X Upload
      \/ event \in {"interview"} \X Student
    BY DEF Event, Change
<1>2. event # None
    BY WorkerAssumption
<1> QED
    BY <1>1, <1>2, WorkerAssumption DEF Covers

\* The events that services owe.
LEMMA OwedEvents ==
    /\ \A s \in Student : <<"profile", s>> \in Event /\ <<"interview", s>> \in Event
    /\ \A u \in Upload : <<"resume", u>> \in Event
    /\ \A j \in Posting : /\ <<"job", j>> \in Event /\ <<"approved", j>> \in Event
                          /\ <<"applied", j>> \in Event
BY DEF Event, Change

\* Scores are percentages, and one of a profile and a posting is one of Score.
LEMMA ScoreTypes ==
    ASSUME NEW s \in SUBSET Skill, NEW j \in Requirement
    PROVE  /\ MatchScore(s, j) \in Score /\ MatchScore(s, j) \in 0..100
           /\ MatchScore(s, j) # None
           /\ EnhancedScore(s, j) \in 0..100
<1>1. SkillPart(s, j) \in Part
    BY SkillPartIsPart, CatalogAssumption
<1>2. /\ <<70, 1>> \in Part /\ <<50, 1>> \in Part
      /\ <<40, 1>> \in (0..100) \X {1} /\ <<30, 1>> \in (0..100) \X {1}
    BY DEF Part
<1>3. MatchScore(s, j) \in 0..100
    BY <1>1, <1>2, WeightedIsPercentage DEF MatchScore
<1>4. EnhancedScore(s, j) \in 0..100
    BY <1>1, <1>2, WeightedEnhancedIsPercentage DEF EnhancedScore
<1>5. MatchScore(s, j) # None
    BY <1>3, CatalogAssumption
<1>6. MatchScore(s, j) \in Score
    BY DEF Score
<1> QED
    BY <1>3, <1>4, <1>5, <1>6

\* The initial state is well typed.
LEMMA InitTypes == Init => Types
<1> SUFFICES ASSUME Init PROVE Types
    OBVIOUS
<1> USE DEF Init, CatalogInit
<1>1. CatalogTypeOK
    <2>1. edits \in 0..MaxEdits
        BY CatalogAssumption
    <2>2. score \in [Student -> Ranks] /\ rank \in [Student -> Ranks]
        BY DEF Ranks, Unranked
    <2> QED
        BY <2>1, <2>2 DEF CatalogTypeOK
<1>2. faults \in 0..MaxFaults /\ version \in [Upload -> Version]
    BY WorkerAssumption, FS_CardinalityType DEF Version
<1>3. fit \in [Upload -> {None} \cup [Posting -> 0..100 \cup {None}]]
    OBVIOUS
<1>4. /\ offers \in [Posting -> Requirement \cup {None}]
      /\ known \in [Student -> (SUBSET Skill) \cup {None}]
    <2>1. NoOffers \in [Posting -> Requirement \cup {None}]
        BY DEF NoOffers
    <2>2. NobodyKnown \in [Student -> (SUBSET Skill) \cup {None}]
        BY DEF NobodyKnown
    <2> QED
        BY <2>1, <2>2
<1>5. status \in [Upload -> Status] /\ pc \in Steps
    BY DEF Status, Steps
<1>6. TypeOK
    BY <1>1, <1>2, <1>3, <1>4, <1>5 DEF TypeOK
<1>7. Shape
    BY DEF Shape, ResumeSteps, RankSteps
<1>8. Recorded
    BY WorkerAssumption, OwedEvents DEF Recorded
<1>9. Counted
    <2>1. Inserted = {}
        BY DEF Inserted
    <2>2. Cardinality(Inserted) = 0
        BY <2>1, FS_EmptySet
    <2> QED
        BY <2>2 DEF Counted
<1> QED
    BY <1>6, <1>7, <1>8, <1>9 DEF Types

\* A step that leaves the worker and the uploads alone, and owes no analysis, keeps the rest.
LEMMA CatalogTypes ==
    ASSUME Types, CatalogStep, UNCHANGED <<uploads, fit, inbox, worker, fate>>
    PROVE  Types'
<1> USE DEF Types, uploads, worker, locals, fate
<1>1. Shape' /\ Counted'
    BY DEF Shape, Counted, Inserted
<1>2. ASSUME NEW type \in {"profile", "job", "approved", "applied"}, NEW x, <<type, x>> \in Event,
             Owe(<<type, x>>)
      PROVE  Recorded' /\ owed' \subseteq Event /\ queue' \subseteq Event /\ lost' \in BOOLEAN
    BY <1>2 DEF Owe, Recorded, TypeOK, CatalogTypeOK
<1>3. ASSUME owed' \subseteq Event, queue' \subseteq Event, CatalogTypeOK'
      PROVE  TypeOK'
    BY <1>3 DEF TypeOK
<1>4. ASSUME Edit PROVE edits' \in 0..MaxEdits
    <2>1. MaxEdits \in Nat /\ edits \in 0..MaxEdits
        BY CatalogAssumption DEF TypeOK, CatalogTypeOK
    <2> QED
        BY <1>4, <2>1 DEF Edit
<1>5. ASSUME NEW j \in Posting, CreateJob(j) PROVE Types'
    <2>1. CatalogTypeOK'
        BY <1>4, <1>5 DEF CreateJob, TypeOK, CatalogTypeOK
    <2>2. Recorded' /\ owed' \subseteq Event /\ queue' \subseteq Event
        BY <1>5 DEF CreateJob, Recorded, TypeOK
    <2> QED
        BY <1>1, <1>3, <2>1, <2>2
<1>6. ASSUME NEW j \in Posting, UpdateJob(j) PROVE Types'
    <2>1. Recorded' /\ owed' \subseteq Event /\ queue' \subseteq Event /\ lost' \in BOOLEAN
        BY <1>2, <1>6, OwedEvents DEF UpdateJob
    <2>2. CatalogTypeOK'
        BY <1>4, <1>6, <2>1 DEF UpdateJob, TypeOK, CatalogTypeOK
    <2> QED
        BY <1>1, <1>3, <2>1, <2>2
<1>7. ASSUME NEW j \in Posting, NEW open \in BOOLEAN, SetActive(j, open) PROVE Types'
    <2>1. Recorded' /\ owed' \subseteq Event /\ queue' \subseteq Event /\ lost' \in BOOLEAN
        BY <1>2, <1>7, OwedEvents DEF SetActive
    <2>2. active' \in [Posting -> BOOLEAN]
        BY <1>7 DEF SetActive, TypeOK, CatalogTypeOK
    <2>3. CatalogTypeOK'
        BY <1>4, <1>7, <2>1, <2>2 DEF SetActive, TypeOK, CatalogTypeOK
    <2> QED
        BY <1>1, <1>3, <2>1, <2>3
<1>8. ASSUME NEW j \in Posting, ApproveJob(j) PROVE Types'
    <2>1. Recorded' /\ owed' \subseteq Event /\ queue' \subseteq Event /\ lost' \in BOOLEAN
        BY <1>2, <1>8, OwedEvents DEF ApproveJob
    <2>2. approved' \in [Posting -> BOOLEAN]
        BY <1>8 DEF ApproveJob, TypeOK, CatalogTypeOK
    <2>3. CatalogTypeOK'
        BY <1>4, <1>8, <2>1, <2>2 DEF ApproveJob, TypeOK, CatalogTypeOK
    <2> QED
        BY <1>1, <1>3, <2>1, <2>3
<1>9. ASSUME NEW s \in Student, UpsertProfile(s) PROVE Types'
    <2>1. Recorded' /\ owed' \subseteq Event /\ queue' \subseteq Event /\ lost' \in BOOLEAN
        BY <1>2, <1>9, OwedEvents DEF UpsertProfile
    <2>2. CatalogTypeOK'
        BY <1>4, <1>9, <2>1 DEF UpsertProfile, TypeOK, CatalogTypeOK, postings
    <2> QED
        BY <1>1, <1>3, <2>1, <2>2
<1>10. ASSUME NEW j \in Posting, NEW s \in Student, Apply(s, j) PROVE Types'
    <2>1. Recorded' /\ owed' \subseteq Event /\ queue' \subseteq Event /\ lost' \in BOOLEAN
        BY <1>2, <1>10, OwedEvents DEF Apply
    <2>2. CatalogTypeOK'
        BY <1>4, <1>10, <2>1 DEF Apply, TypeOK, CatalogTypeOK, postings, Ranks
    <2> QED
        BY <1>1, <1>3, <2>1, <2>2
<1>11. ASSUME NEW event \in owed, Emit(event) \/ EmitLost(event) PROVE Types'
    <2>1. Recorded' /\ owed' \subseteq Event /\ queue' \subseteq Event /\ lost' \in BOOLEAN
        BY <1>11 DEF Emit, EmitLost, Recorded, TypeOK, CatalogTypeOK
    <2>2. CatalogTypeOK'
        BY <1>11, <2>1 DEF Emit, EmitLost, TypeOK, CatalogTypeOK, postings
    <2> QED
        BY <1>1, <1>3, <2>1, <2>2
<1>12. ASSUME NEW s \in Student, ExpireRank(s) PROVE Types'
    <2>1. Recorded' /\ owed' \subseteq Event /\ queue' \subseteq Event
        BY <1>12 DEF ExpireRank, Recorded, TypeOK
    <2>2. CatalogTypeOK'
        BY <1>12 DEF ExpireRank, TypeOK, CatalogTypeOK, postings, Ranks, Unranked
    <2> QED
        BY <1>1, <1>3, <2>1, <2>2
<1> QED
    BY <1>5, <1>6, <1>7, <1>8, <1>9, <1>10, <1>11, <1>12 DEF CatalogStep, Emitting

\* What upload and the interviews do keeps the types.
LEMMA UploadTypes ==
    ASSUME Types,
           \/ \E u \in Upload : BeginUpload(u) \/ InsertUpload(u) \/ AbandonUpload(u)
           \/ \E s \in Student : Invite(s)
    PROVE  Types'
<1> USE DEF Types
<1>1. ASSUME UNCHANGED worker PROVE Shape'
    BY <1>1 DEF Shape, worker, locals
<1>2. ASSUME Edit PROVE edits' \in 0..MaxEdits
    <2>1. MaxEdits \in Nat /\ edits \in 0..MaxEdits
        BY CatalogAssumption DEF TypeOK, CatalogTypeOK
    <2> QED
        BY <1>2, <2>1 DEF Edit
<1>3. /\ IsFiniteSet(Inserted) /\ Cardinality(Inserted) \in Nat
      /\ Cardinality(Inserted) <= Cardinality(Upload) /\ Cardinality(Upload) \in Nat
    BY WorkerAssumption, FS_Subset, FS_CardinalityType DEF Inserted
<1>4. ASSUME NEW u \in Upload, BeginUpload(u) PROVE Types'
    <2>1. PICK highest \in Found(u) : version' = [version EXCEPT ![u] = highest]
        BY <1>4 DEF BeginUpload
    <2>2. highest \in Version /\ highest <= Cardinality(Inserted)
        BY <1>3 DEF Found, OfOwner, TypeOK, Version, Counted
    <2>3. /\ UNCHANGED <<postings, skills, score, rank, owed, queue, lost, status, fit, inbox, worker, fate>>
          /\ making' = making \cup {u} /\ status[u] = "none"
          /\ overlapped' \subseteq Upload
          /\ edits' \in 0..MaxEdits
        BY <1>2, <1>4 DEF BeginUpload, Unused, OfOwner, TypeOK
    <2>4. Inserted' = Inserted
        BY <2>3 DEF Inserted
    <2>5. CatalogTypeOK'
        BY <2>3 DEF TypeOK, CatalogTypeOK, postings
    <2>6. TypeOK'
        BY <2>1, <2>2, <2>3, <2>5 DEF TypeOK, worker, locals, fate
    <2>7. Recorded'
        BY <2>3 DEF Recorded, worker, fate
    <2>8. Counted'
        BY <2>1, <2>2, <2>4 DEF Counted, TypeOK
    <2> QED
        BY <1>1, <2>3, <2>6, <2>7, <2>8
<1>5. ASSUME NEW u \in Upload, InsertUpload(u) PROVE Types'
    <2>1. /\ u \in making /\ making' = making \ {u}
          /\ status' = [status EXCEPT ![u] = "uploaded"]
          /\ version' = [version EXCEPT ![u] = @ + 1]
          /\ owed' = owed \cup {<<"resume", u>>} /\ UNCHANGED <<queue, lost>>
          /\ UNCHANGED <<postings, skills, score, rank, edits, overlapped, fit, inbox, worker, fate>>
        BY <1>5 DEF InsertUpload, Owe
    <2>2. u \notin Inserted /\ Inserted' = Inserted \cup {u}
        BY <2>1 DEF Inserted, Recorded, TypeOK
    <2>3. Cardinality(Inserted') = Cardinality(Inserted) + 1
        BY <1>3, <2>2, FS_AddElement
    <2>4. Inserted' \subseteq Upload
        BY DEF Inserted
    <2>5. Cardinality(Inserted') <= Cardinality(Upload)
        BY <2>4, WorkerAssumption, FS_Subset
    <2>6. \A v \in Upload : version[v] \in Nat /\ version[v] <= Cardinality(Inserted)
        BY <1>3 DEF TypeOK, Version, Counted
    <2>7. version' \in [Upload -> Version] /\ Counted'
        BY <1>3, <2>1, <2>3, <2>5, <2>6 DEF TypeOK, Version, Counted
    <2>8. status' \in [Upload -> Status]
        BY <2>1 DEF TypeOK, Status
    <2>9. CatalogTypeOK'
        BY <2>1 DEF TypeOK, CatalogTypeOK, postings
    <2>10. TypeOK'
        BY <2>1, <2>7, <2>8, <2>9, OwedEvents DEF TypeOK, worker, locals, fate
    <2>11. Recorded'
        BY <2>1 DEF Recorded, worker, fate, TypeOK
    <2> QED
        BY <1>1, <2>1, <2>7, <2>10, <2>11
<1>6. ASSUME NEW u \in Upload, AbandonUpload(u) PROVE Types'
    <2>1. /\ making' = making \ {u} /\ version' = [version EXCEPT ![u] = 0]
          /\ UNCHANGED <<catalog, status, overlapped, fit, inbox, worker, fate>>
        BY <1>6 DEF AbandonUpload
    <2>2. 0 \in Version /\ Inserted' = Inserted
        BY <1>3, <2>1 DEF Version, Inserted
    <2>3. CatalogTypeOK'
        BY <2>1 DEF TypeOK, CatalogTypeOK, catalog, postings
    <2>4. TypeOK'
        BY <2>1, <2>2, <2>3 DEF TypeOK, catalog, worker, locals, fate
    <2>5. Recorded'
        BY <2>1 DEF Recorded, catalog, worker, fate
    <2>6. Counted'
        BY <1>3, <2>1, <2>2 DEF Counted, TypeOK
    <2> QED
        BY <1>1, <2>1, <2>4, <2>5, <2>6
<1>7. ASSUME NEW s \in Student, Invite(s) PROVE Types'
    <2>1. /\ owed' = owed \cup {<<"interview", s>>} /\ UNCHANGED <<queue, lost>>
          /\ UNCHANGED <<postings, skills, score, rank, uploads, fit, inbox, worker, fate>>
          /\ edits' \in 0..MaxEdits
        BY <1>2, <1>7 DEF Invite, Owe
    <2>2. CatalogTypeOK'
        BY <2>1 DEF TypeOK, CatalogTypeOK, postings
    <2>3. TypeOK'
        BY <2>1, <2>2, OwedEvents DEF TypeOK, uploads, worker, locals, fate
    <2>4. Recorded' /\ Counted'
        BY <2>1 DEF Recorded, Counted, Inserted, uploads, worker, fate
    <2> QED
        BY <1>1, <2>1, <2>3, <2>4
<1> QED
    BY <1>4, <1>5, <1>6, <1>7

\* A status only changes once the upload has one.
LEMMA StatusTypes ==
    ASSUME Types, NEW value \in Status \ {"none"}, NEW u \in Upload,
           <<"resume", u>> = job \/ status[u] # "none",
           status' = [status EXCEPT ![u] = value]
    PROVE  /\ status' \in [Upload -> Status]
           /\ Inserted' = Inserted
           /\ \A v \in Upload : status[v] # "none" <=> status'[v] # "none"
<1>1. status[u] # "none"
    BY DEF Types, Recorded
<1>2. status' \in [Upload -> Status]
    BY DEF Types, TypeOK
<1>3. \A v \in Upload : status[v] # "none" <=> status'[v] # "none"
    BY <1>1 DEF Types, TypeOK
<1> QED
    BY <1>2, <1>3 DEF Inserted

\* What stays typed when a step of the worker leaves the services' part alone.
LEMMA KeepsTypes ==
    ASSUME Types, UNCHANGED <<version, making>>,
           status' \in [Upload -> Status], Inserted' = Inserted,
           \A u \in Upload : status[u] # "none" <=> status'[u] # "none",
           owed' \cup queue' \cup givenUp' \cup {job'} \subseteq
             owed \cup queue \cup givenUp \cup {job, None}
    PROVE  Recorded' /\ Counted'
<1>1. \A u \in Upload : <<"resume", u>> # None
    BY EventKinds, OwedEvents
<1> QED
    BY <1>1 DEF Types, Recorded, Counted, TypeOK

\* Until the ranks are computed the steps of a run keep the types.
LEMMA AnalysisTypes ==
    ASSUME Types,
           \/ \E event \in queue : Take(event)
           \/ Parse \/ Extract \/ ReadJobs \/ ReadProfile \/ SaveAnalysis \/ SaveProfile \/ Analyzed
    PROVE  Types'
<1> USE DEF Types
<1>0. pc # "idle" => job \in Event
    BY DEF TypeOK, Shape
<1>1. ASSUME NEW event \in queue, Take(event) PROVE Types'
    <2>1. /\ queue' = queue \ {event} /\ job' = event /\ event \in Event
          /\ pc' = FirstStep(event)
          /\ UNCHANGED <<postings, skills, score, rank, owed, lost, edits, uploads, fit, inbox, locals, fate>>
        BY <1>1 DEF Take, TypeOK
    <2>2. pc' \in {"parse", "notify", "rankJobs"}
        BY <2>1 DEF FirstStep
    <2>3. CatalogTypeOK'
        BY <2>1 DEF TypeOK, CatalogTypeOK, postings
    <2>4. TypeOK'
        BY <2>1, <2>2, <2>3 DEF TypeOK, uploads, locals, fate, Steps, ResumeSteps, RankSteps
    <2>5. Shape'
        BY <2>1, <2>2, EventKinds DEF Shape, FirstStep, ResumeSteps, RankSteps
    <2>6. Recorded' /\ Counted'
        BY <2>1 DEF Recorded, Counted, Inserted, uploads, fate
    <2> QED
        BY <2>4, <2>5, <2>6
<1>2. ASSUME NEW value \in Status \ {"none"}, SetStatus(value), UNCHANGED <<job, fate>>,
             job[1] = "resume", job \in Event
      PROVE  /\ CatalogTypeOK' /\ Recorded' /\ Counted'
             /\ status' \in [Upload -> Status]
             /\ UNCHANGED <<owed, queue, lost, version, making, overlapped, fit, inbox, fate>>
    <2>1. job[2] \in Upload /\ job = <<"resume", job[2]>>
        BY <1>2, EventKinds
    <2>2. /\ status' \in [Upload -> Status] /\ Inserted' = Inserted
          /\ \A v \in Upload : status[v] # "none" <=> status'[v] # "none"
        BY <1>2, <2>1, StatusTypes DEF SetStatus
    <2>3. UNCHANGED <<catalog, version, making, overlapped, fit, inbox, job, fate>>
        BY <1>2 DEF SetStatus
    <2>4. CatalogTypeOK'
        BY <2>3 DEF TypeOK, CatalogTypeOK, catalog, postings
    <2>5. owed' \cup queue' \cup givenUp' \cup {job'} \subseteq
             owed \cup queue \cup givenUp \cup {job, None}
        BY <2>3 DEF catalog, fate
    <2> QED
        BY <2>2, <2>3, <2>4, <2>5, KeepsTypes DEF catalog, fate
<1>3. CASE Parse
    <2>1. /\ pc = "parse" /\ pc' = "extract" /\ SetStatus("parsing")
          /\ UNCHANGED <<job, fate, locals>>
        BY <1>3 DEF Parse, At
    <2>2. job[1] = "resume" /\ job \in Event /\ job # None
        BY <1>0, <2>1, EventKinds DEF Shape, ResumeSteps
    <2>3. /\ CatalogTypeOK' /\ Recorded' /\ Counted'
          /\ status' \in [Upload -> Status]
          /\ UNCHANGED <<owed, queue, lost, version, making, overlapped, fit, inbox, fate>>
        BY <1>2, <2>1, <2>2 DEF Status
    <2>4. TypeOK'
        BY <2>1, <2>3 DEF TypeOK, locals, Steps, ResumeSteps, fate
    <2>5. Shape'
        BY <2>1, <2>2 DEF Shape, locals, ResumeSteps, RankSteps
    <2> QED
        BY <2>3, <2>4, <2>5
<1>4. CASE Analyzed
    <2>1. /\ pc = "analyzed" /\ pc' = "rankJobs" /\ SetStatus("analyzed")
          /\ UNCHANGED <<job, fate, locals>>
        BY <1>4 DEF Analyzed, At
    <2>2. job[1] = "resume" /\ job \in Event /\ job # None
        BY <1>0, <2>1, EventKinds DEF Shape, ResumeSteps
    <2>3. /\ CatalogTypeOK' /\ Recorded' /\ Counted'
          /\ status' \in [Upload -> Status]
          /\ UNCHANGED <<owed, queue, lost, version, making, overlapped, fit, inbox, fate>>
        BY <1>2, <2>1, <2>2 DEF Status
    <2>4. TypeOK'
        BY <2>1, <2>3 DEF TypeOK, locals, Steps, RankSteps, fate
    <2>5. Shape'
        BY <2>1, <2>2 DEF Shape, locals, ResumeSteps, RankSteps
    <2> QED
        BY <2>3, <2>4, <2>5
<1>5. CASE Extract
    <2>1. /\ pc = "extract" /\ pc' = "readJobs" /\ SetStatus("extracted")
          /\ extracted' \subseteq Skill
          /\ UNCHANGED <<job, fate, offers, known, at, todo, left>>
        BY <1>5 DEF Extract, At
    <2>2. job[1] = "resume" /\ job \in Event /\ job # None
        BY <1>0, <2>1, EventKinds DEF Shape, ResumeSteps
    <2>3. /\ CatalogTypeOK' /\ Recorded' /\ Counted'
          /\ status' \in [Upload -> Status]
          /\ UNCHANGED <<owed, queue, lost, version, making, overlapped, fit, inbox, fate>>
        BY <1>2, <2>1, <2>2 DEF Status
    <2>4. TypeOK'
        BY <2>1, <2>3 DEF TypeOK, Steps, ResumeSteps, fate
    <2>5. Shape'
        BY <2>1, <2>2 DEF Shape, ResumeSteps, RankSteps
    <2> QED
        BY <2>3, <2>4, <2>5
<1>6. ASSUME UNCHANGED <<catalog, uploads, job, fate>>
      PROVE  CatalogTypeOK' /\ Recorded' /\ Counted'
    BY <1>6 DEF TypeOK, CatalogTypeOK, Recorded, Counted, Inserted, catalog, postings, uploads, fate
<1>7. CASE ReadJobs
    <2>1. /\ (pc = "readJobs" /\ pc' = "readProfile") \/ (pc = "rankJobs" /\ pc' = "rankStudents")
          /\ offers' = [j \in Posting |-> IF j \in Open THEN needs[j] ELSE None]
          /\ UNCHANGED <<job, fate, catalog, uploads, fit, inbox, extracted, known, at, todo, left>>
        BY <1>7 DEF ReadJobs, At
    <2>2. offers' \in [Posting -> Requirement \cup {None}]
        BY <2>1 DEF TypeOK, CatalogTypeOK
    <2>3. TypeOK'
        BY <1>6, <2>1, <2>2 DEF TypeOK, catalog, uploads, fate, Steps, ResumeSteps, RankSteps
    <2>4. Shape'
        BY <1>0, <2>1, EventKinds DEF Shape, ResumeSteps, RankSteps
    <2> QED
        BY <1>6, <2>1, <2>3, <2>4
<1>8. CASE ReadProfile
    <2>1. /\ pc = "readProfile" /\ pc' = "saveAnalysis"
          /\ known' = [known EXCEPT ![Owner] = skills[Owner]]
          /\ UNCHANGED <<job, fate, catalog, uploads, fit, inbox, extracted, offers, at, todo, left>>
        BY <1>8 DEF ReadProfile, At
    <2>2. job[1] = "resume" /\ job[2] \in Upload /\ Owner \in Student
        BY <1>0, <2>1, EventKinds, WorkerAssumption DEF Shape, ResumeSteps, Owner
    <2>3. known' \in [Student -> (SUBSET Skill) \cup {None}]
        BY <2>1, <2>2 DEF TypeOK, CatalogTypeOK
    <2>4. TypeOK'
        BY <1>6, <2>1, <2>3 DEF TypeOK, catalog, uploads, fate, Steps, ResumeSteps
    <2>5. Shape'
        BY <2>1 DEF Shape, ResumeSteps, RankSteps
    <2> QED
        BY <1>6, <2>1, <2>4, <2>5
<1>9. CASE SaveAnalysis
    <2> DEFINE have == extracted \cup (IF known[Owner] = None THEN {} ELSE known[Owner])
               row  == [j \in Posting |-> IF offers[j] = None THEN None ELSE EnhancedScore(have, offers[j])]
    <2>1. /\ pc = "saveAnalysis" /\ pc' = "saveProfile"
          /\ fit' = [fit EXCEPT ![job[2]] = row]
          /\ offers' = NoOffers
          /\ UNCHANGED <<job, fate, catalog, uploads, inbox, extracted, known, at, todo, left>>
        BY <1>9 DEF SaveAnalysis, At
    <2>2. job[1] = "resume" /\ job[2] \in Upload /\ Owner \in Student
        BY <1>0, <2>1, EventKinds, WorkerAssumption DEF Shape, ResumeSteps, Owner
    <2>3. have \in SUBSET Skill
        BY <2>2 DEF TypeOK
    <2> HIDE DEF have
    <2>4. \A j \in Posting : offers[j] # None => EnhancedScore(have, offers[j]) \in 0..100
        BY <2>3, ScoreTypes DEF TypeOK
    <2>5. row \in [Posting -> 0..100 \cup {None}]
        BY <2>4
    <2> HIDE DEF row
    <2>6. fit' \in [Upload -> {None} \cup [Posting -> 0..100 \cup {None}]]
        BY <2>1, <2>2, <2>5 DEF TypeOK
    <2>7. offers' \in [Posting -> Requirement \cup {None}]
        BY <2>1 DEF NoOffers
    <2>8. TypeOK'
        BY <1>6, <2>1, <2>6, <2>7 DEF TypeOK, catalog, uploads, fate, Steps, ResumeSteps
    <2>9. Shape'
        BY <2>1 DEF Shape, ResumeSteps, RankSteps
    <2> QED
        BY <1>6, <2>1, <2>8, <2>9
<1>10. CASE SaveProfile
    <2>1. /\ pc = "saveProfile" /\ pc' = "analyzed"
          /\ skills' = [skills EXCEPT ![Owner] = IF @ = None THEN @ ELSE @ \cup extracted]
          /\ extracted' = {} /\ known' = NobodyKnown
          /\ UNCHANGED <<job, fate, postings, score, rank, owed, queue, lost, edits,
                         uploads, fit, inbox, offers, at, todo, left>>
        BY <1>10 DEF SaveProfile, At
    <2>2. job[1] = "resume" /\ job[2] \in Upload /\ Owner \in Student
        BY <1>0, <2>1, EventKinds, WorkerAssumption DEF Shape, ResumeSteps, Owner
    <2>3. skills' \in [Student -> (SUBSET Skill) \cup {None}]
        BY <2>1, <2>2 DEF TypeOK, CatalogTypeOK
    <2>4. known' \in [Student -> (SUBSET Skill) \cup {None}]
        BY <2>1 DEF NobodyKnown
    <2>5. CatalogTypeOK'
        BY <2>1, <2>3 DEF TypeOK, CatalogTypeOK, postings
    <2>6. TypeOK'
        BY <2>1, <2>4, <2>5 DEF TypeOK, uploads, fate, Steps, ResumeSteps
    <2>7. Shape'
        BY <2>1 DEF Shape, ResumeSteps, RankSteps
    <2>8. Recorded' /\ Counted'
        BY <2>1 DEF Recorded, Counted, Inserted, uploads, fate
    <2> QED
        BY <2>6, <2>7, <2>8
<1> QED
    BY <1>1, <1>3, <1>4, <1>5, <1>7, <1>8, <1>9, <1>10

\* Where the ranks of the next student begin, or the computation ends.
LEMMA RankStarts ==
    ASSUME NEW students \in SUBSET Student, Rank(students), TypeOK, pc \in RankSteps, Shape
    PROVE  /\ at' \in Student \cup {None} /\ todo' \subseteq Student /\ left' \subseteq Posting
           /\ offers' \in [Posting -> Requirement \cup {None}]
           /\ \/ /\ pc' = "rank" /\ at' \in students /\ todo' = students \ {at'}
                 /\ left' = {j \in Posting : offers[j] # None} /\ offers' = offers
                 /\ students # {}
              \/ /\ students = {}
                 /\ pc' \in {"notifyRecruiter", "notify", "mark"}
                 /\ pc' = "notifyRecruiter" => job[1] \in {"approved", "applied"}
                 /\ pc' = "notify" => job[1] = "resume"
                 /\ pc' = "mark" => job[1] \notin {"approved", "applied", "resume"}
<1>1. CASE students # {}
    BY <1>1 DEF Rank, TypeOK
<1>2. CASE students = {}
    <2>1. at' = None /\ todo' = {} /\ left' = {} /\ offers' = NoOffers
        BY <1>2 DEF Rank
    <2>2. /\ pc' \in {"notifyRecruiter", "notify", "mark"}
          /\ pc' = "notifyRecruiter" => job[1] \in {"approved", "applied"}
          /\ pc' = "notify" => job[1] = "resume"
          /\ pc' = "mark" => job[1] \notin {"approved", "applied", "resume"}
        BY <1>2 DEF Rank, IsOf
    <2>3. offers' \in [Posting -> Requirement \cup {None}]
        BY <2>1 DEF NoOffers
    <2> QED
        BY <1>2, <2>1, <2>2, <2>3
<1> QED
    BY <1>1, <1>2

\* Whatever the commands of the pipeline do, they leave ranks.
LEMMA PipelineTypes ==
    ASSUME TypeOK, Replace \/ Tear, at \in Student,
           \A j \in Posting : offers[j] # None => MatchScore(known[at], offers[j]) \in Score
    PROVE  /\ rank' \in [Student -> Ranks]
           /\ torn' \subseteq Student /\ faults' \in 0..MaxFaults
<1>1. ASSUME NEW row \in Ranks, rank' = [rank EXCEPT ![at] = row] PROVE rank' \in [Student -> Ranks]
    BY <1>1 DEF TypeOK, CatalogTypeOK
<1>2. faults' \in 0..MaxFaults
    <2>1. MaxFaults \in Nat /\ faults \in 0..MaxFaults
        BY WorkerAssumption DEF TypeOK
    <2> QED
        BY <2>1 DEF Replace, Tear, Fault
<1>3. torn' \subseteq Student
    BY DEF Replace, Tear, TypeOK
<1>4. CASE Replace
    <2> DEFINE row == [j \in Posting |-> IF offers[j] = None THEN None ELSE MatchScore(known[at], offers[j])]
    <2>1. row \in Ranks
        BY DEF Ranks
    <2>2. rank' = [rank EXCEPT ![at] = row]
        BY <1>4 DEF Replace
    <2> QED
        BY <1>1, <1>2, <1>3, <2>1, <2>2
<1>5. CASE Tear
    <2>1. PICK kept \in {rank[at], Unranked}, added \in SUBSET {j \in Posting : offers[j] # None} :
            rank' = [rank EXCEPT ![at] = [j \in Posting |-> IF j \in added THEN MatchScore(known[at], offers[j])
                                                           ELSE kept[j]]]
        BY <1>5 DEF Tear
    <2>2. kept \in Ranks
        BY DEF TypeOK, CatalogTypeOK, Ranks, Unranked
    <2> DEFINE row == [j \in Posting |-> IF j \in added THEN MatchScore(known[at], offers[j]) ELSE kept[j]]
    <2>3. row \in Ranks
        BY <2>2 DEF Ranks
    <2> QED
        BY <1>1, <1>2, <1>3, <2>1, <2>3
<1> QED
    BY <1>4, <1>5

\* Computing the ranks keeps the types.
LEMMA RankTypes ==
    ASSUME Types, ReadStudents \/ (\E j \in left : SaveScore(j)) \/ SaveRank
    PROVE  Types'
<1> USE DEF Types
<1>0. pc # "idle" => job \in Event
    BY DEF TypeOK, Shape
<1>1. CASE ReadStudents
    <2>1. /\ pc = "rankStudents"
          /\ known' = [s \in Student |-> IF s \in Covers(job) THEN skills[s] ELSE None]
          /\ Rank(Known \cap Covers(job))
          /\ UNCHANGED <<catalog, uploads, fit, inbox, extracted, job, fate>>
        BY <1>1 DEF ReadStudents
    <2> DEFINE students == Known \cap Covers(job)
    <2>2. students \subseteq Student /\ \A s \in students : s \in Covers(job) /\ known'[s] # None
        BY <2>1 DEF Known
    <2> HIDE DEF students
    <2>3. /\ at' \in Student \cup {None} /\ todo' \subseteq Student /\ left' \subseteq Posting
          /\ offers' \in [Posting -> Requirement \cup {None}]
          /\ \/ /\ pc' = "rank" /\ at' \in students /\ todo' = students \ {at'}
                /\ left' = {j \in Posting : offers[j] # None} /\ offers' = offers
             \/ /\ pc' \in {"notifyRecruiter", "notify", "mark"}
                /\ pc' = "notifyRecruiter" => job[1] \in {"approved", "applied"}
                /\ pc' = "notify" => job[1] = "resume"
        BY <2>1, <2>2, RankStarts DEF students, RankSteps
    <2>4. known' \in [Student -> (SUBSET Skill) \cup {None}]
        BY <2>1 DEF TypeOK, CatalogTypeOK
    <2>5. CatalogTypeOK' /\ Recorded' /\ Counted'
        BY <2>1 DEF TypeOK, CatalogTypeOK, Recorded, Counted, Inserted, catalog, postings, uploads, fate
    <2>6. TypeOK'
        BY <2>1, <2>3, <2>4, <2>5 DEF TypeOK, catalog, uploads, fate, Steps, RankSteps
    <2>7. job # None /\ job[1] # "interview"
        BY <1>0, <2>1, EventKinds DEF Shape, RankSteps
    <2>8. Shape'
        BY <2>1, <2>2, <2>3, <2>7 DEF Shape, ResumeSteps, RankSteps, Covers
    <2> QED
        BY <2>5, <2>6, <2>8
<1>2. ASSUME NEW j \in left, SaveScore(j) PROVE Types'
    <2>1. /\ pc = "rank" /\ score' = [score EXCEPT ![at][j] = MatchScore(known[at], offers[j])]
          /\ left' = left \ {j}
          /\ UNCHANGED <<postings, skills, rank, owed, queue, lost, edits,
                         uploads, fit, inbox, job, pc, extracted, offers, known, at, todo, fate>>
        BY <1>2 DEF SaveScore
    <2>2. /\ at \in Student /\ j \in Posting
          /\ known[at] \in SUBSET Skill /\ offers[j] \in Requirement
        BY <1>0, <2>1, EventKinds DEF TypeOK, Shape
    <2>3. MatchScore(known[at], offers[j]) \in Score
        BY <2>2, ScoreTypes
    <2> DEFINE value == MatchScore(known[at], offers[j])
    <2> HIDE DEF value
    <2>4. score' \in [Student -> Ranks]
        <3>1. score \in [Student -> Ranks] /\ score[at] \in Ranks
            BY <2>2 DEF TypeOK, CatalogTypeOK
        <3>2. [score[at] EXCEPT ![j] = value] \in Ranks
            BY <2>2, <2>3, <3>1 DEF Ranks, value
        <3>3. score' = [score EXCEPT ![at] = [score[at] EXCEPT ![j] = value]]
            BY <2>1 DEF value
        <3> QED
            BY <3>1, <3>2, <3>3
    <2>5. CatalogTypeOK'
        BY <2>1, <2>4 DEF TypeOK, CatalogTypeOK, postings
    <2>6. TypeOK'
        BY <2>1, <2>5 DEF TypeOK, uploads, fate
    <2>7. Shape'
        BY <2>1 DEF Shape
    <2>8. Recorded' /\ Counted'
        BY <2>1 DEF Recorded, Counted, Inserted, uploads, fate
    <2> QED
        BY <2>6, <2>7, <2>8
<1>3. CASE SaveRank
    <2>1. /\ pc = "rank" /\ (Replace \/ Tear)
          /\ Rank(todo) /\ known' = [known EXCEPT ![at] = None]
          /\ UNCHANGED <<postings, skills, score, owed, queue, lost, edits,
                         uploads, fit, inbox, extracted, job, processed, givenUp>>
        BY <1>3 DEF SaveRank
    <2>2. /\ at \in Student /\ known[at] \in SUBSET Skill /\ job # None
          /\ job[1] # "interview" /\ todo \subseteq Student /\ at \notin todo
          /\ \A s \in todo : s \in Covers(job) /\ known[s] # None
        BY <1>0, <2>1, EventKinds DEF TypeOK, Shape, RankSteps
    <2>3. \A j \in Posting : offers[j] # None => MatchScore(known[at], offers[j]) \in Score
        BY <2>2, ScoreTypes DEF TypeOK
    <2>4. /\ rank' \in [Student -> Ranks]
          /\ torn' \subseteq Student /\ faults' \in 0..MaxFaults
        BY <2>1, <2>2, <2>3, PipelineTypes
    <2>5. /\ at' \in Student \cup {None} /\ todo' \subseteq Student /\ left' \subseteq Posting
          /\ offers' \in [Posting -> Requirement \cup {None}]
          /\ \/ /\ pc' = "rank" /\ at' \in todo /\ todo' = todo \ {at'}
                /\ left' = {j \in Posting : offers[j] # None} /\ offers' = offers
             \/ /\ pc' \in {"notifyRecruiter", "notify", "mark"}
                /\ pc' = "notifyRecruiter" => job[1] \in {"approved", "applied"}
                /\ pc' = "notify" => job[1] = "resume"
        BY <2>1, <2>2, RankStarts DEF RankSteps
    <2>7. CatalogTypeOK'
        BY <2>1, <2>4 DEF TypeOK, CatalogTypeOK, postings
    <2>8. known' \in [Student -> (SUBSET Skill) \cup {None}] /\ \A s \in todo : known'[s] # None
        BY <2>1, <2>2 DEF TypeOK
    <2>9. TypeOK'
        BY <2>1, <2>4, <2>5, <2>7, <2>8 DEF TypeOK, uploads, Steps, RankSteps
    <2>10. Shape'
        BY <2>1, <2>2, <2>5, <2>8 DEF Shape, ResumeSteps, RankSteps, Covers
    <2>11. Recorded' /\ Counted'
        BY <2>1 DEF Recorded, Counted, Inserted, uploads
    <2> QED
        BY <2>9, <2>10, <2>11
<1> QED
    BY <1>1, <1>2, <1>3

\* An empty-handed worker.
LEMMA ForgetTypes ==
    ASSUME Forget
    PROVE  /\ job' = None /\ pc' = "idle" /\ pc' \in Steps /\ Shape'
           /\ extracted' \subseteq Skill
           /\ offers' \in [Posting -> Requirement \cup {None}]
           /\ known' \in [Student -> (SUBSET Skill) \cup {None}]
           /\ at' \in Student \cup {None} /\ todo' \subseteq Student /\ left' \subseteq Posting
<1>1. NoOffers \in [Posting -> Requirement \cup {None}]
    BY DEF NoOffers
<1>2. NobodyKnown \in [Student -> (SUBSET Skill) \cup {None}]
    BY DEF NobodyKnown
<1>3. Shape'
    BY DEF Forget, Shape, ResumeSteps, RankSteps
<1> QED
    BY <1>1, <1>2, <1>3 DEF Forget, Steps

\* Telling, marking, failing and being found again keep the types.
LEMMA EndTypes ==
    ASSUME Types,
           Notify \/ NotifyRecruiter \/ Mark \/ Throw \/ Die \/ \E event \in givenUp : Republish(event)
    PROVE  Types'
<1> USE DEF Types
<1>0. pc # "idle" => job \in Event
    BY DEF TypeOK, Shape
<1>1. ASSUME UNCHANGED <<catalog, uploads, job, fate>>
      PROVE  CatalogTypeOK' /\ Recorded' /\ Counted'
    BY <1>1 DEF TypeOK, CatalogTypeOK, Recorded, Counted, Inserted, catalog, postings, uploads, fate
<1>2. CASE Notify
    <2>1. /\ pc = "notify" /\ pc' = (IF job[1] = "interview" THEN "notifyRecruiter" ELSE "mark")
          /\ inbox' = inbox \cup {<<job, "student">>}
          /\ UNCHANGED <<job, fate, catalog, uploads, fit, locals>>
        BY <1>2 DEF Notify, At, Tell, IsOf
    <2>2. inbox' \subseteq Note
        BY <1>0, <2>1 DEF TypeOK, Note
    <2>3. TypeOK'
        BY <1>1, <2>1, <2>2 DEF TypeOK, catalog, uploads, locals, fate, Steps
    <2>4. Shape'
        BY <1>0, <2>1, EventKinds DEF Shape, ResumeSteps, RankSteps
    <2> QED
        BY <1>1, <2>1, <2>3, <2>4
<1>3. CASE NotifyRecruiter
    <2>1. /\ pc = "notifyRecruiter" /\ pc' = "mark"
          /\ inbox' = inbox \cup {<<job, "recruiter">>}
          /\ UNCHANGED <<job, fate, catalog, uploads, fit, locals>>
        BY <1>3 DEF NotifyRecruiter, At, Tell
    <2>2. inbox' \subseteq Note
        BY <1>0, <2>1 DEF TypeOK, Note
    <2>3. TypeOK'
        BY <1>1, <2>1, <2>2 DEF TypeOK, catalog, uploads, locals, fate, Steps
    <2>4. Shape'
        BY <1>0, <2>1, EventKinds DEF Shape, ResumeSteps, RankSteps
    <2> QED
        BY <1>1, <2>1, <2>3, <2>4
<1>4. ASSUME Fault PROVE faults' \in 0..MaxFaults
    <2>1. MaxFaults \in Nat /\ faults \in 0..MaxFaults
        BY WorkerAssumption DEF TypeOK
    <2> QED
        BY <1>4, <2>1 DEF Fault
<1>5. CASE Mark
    <2>1. /\ pc = "mark" /\ processed' = processed \cup {job} /\ Forget
          /\ queue' \in {queue, queue \cup {job}} /\ faults' \in 0..MaxFaults
          /\ UNCHANGED <<postings, skills, score, rank, owed, lost, edits, uploads, fit, inbox, givenUp, torn>>
        BY <1>4, <1>5 DEF Mark, TypeOK
    <2>2. job \in Event /\ Shape' /\ job' = None
        BY <1>0, <2>1, ForgetTypes
    <2>3. CatalogTypeOK'
        BY <2>1 DEF TypeOK, CatalogTypeOK, postings
    <2>4. TypeOK'
        BY <2>1, <2>2, <2>3, ForgetTypes DEF TypeOK, uploads
    <2>5. Recorded' /\ Counted'
        <3>1. Inserted' = Inserted /\ status' \in [Upload -> Status] /\ UNCHANGED <<status, version, making>>
            BY <2>1 DEF Inserted, uploads, TypeOK
        <3> QED
            BY <2>1, <2>2, <3>1, KeepsTypes
    <2> QED
        BY <2>2, <2>4, <2>5
<1>6. ASSUME pc # "idle", End, status' \in [Upload -> Status], Inserted' = Inserted,
             \A v \in Upload : status[v] # "none" <=> status'[v] # "none"
      PROVE  Types'
    <2>1. /\ Forget /\ faults' \in 0..MaxFaults
          /\ \/ queue' = queue \cup {job} /\ UNCHANGED givenUp
             \/ givenUp' = givenUp \cup {job} /\ UNCHANGED queue
          /\ UNCHANGED <<postings, skills, score, rank, owed, lost, edits,
                         version, making, overlapped, fit, inbox, processed, torn>>
        BY <1>4, <1>6 DEF End
    <2>2. job \in Event /\ Shape' /\ job' = None
        BY <1>0, <1>6, <2>1, ForgetTypes
    <2>3. CatalogTypeOK'
        BY <2>1 DEF TypeOK, CatalogTypeOK, postings
    <2>4. TypeOK'
        BY <1>6, <2>1, <2>2, <2>3, ForgetTypes DEF TypeOK
    <2>5. Recorded' /\ Counted'
        BY <1>6, <2>1, <2>2, KeepsTypes
    <2> QED
        BY <2>2, <2>4, <2>5
<1>7. CASE Throw
    <2>1. pc # "idle" /\ End
        BY <1>7 DEF Throw
    <2>2. CASE InTry
        <3>1. job[1] = "resume" /\ status' = [status EXCEPT ![job[2]] = "failed"]
            BY <1>7, <2>2 DEF Throw, InTry, IsOf
        <3>2. job[2] \in Upload /\ job = <<"resume", job[2]>>
            BY <1>0, <2>1, <3>1, EventKinds
        <3>3. "failed" \in Status \ {"none"}
            BY DEF Status
        <3> QED
            BY <1>6, <2>1, <3>1, <3>2, <3>3, StatusTypes
    <2>3. CASE ~InTry
        BY <1>6, <1>7, <2>1, <2>3 DEF Throw, TypeOK, Inserted
    <2> QED
        BY <2>2, <2>3
<1>8. CASE Die
    BY <1>6, <1>8 DEF Die, TypeOK, Inserted
<1>9. ASSUME NEW event \in givenUp, Republish(event) PROVE Types'
    <2>1. /\ givenUp' = givenUp \ {event} /\ queue' = queue \cup {event}
          /\ UNCHANGED <<postings, skills, score, rank, owed, lost, edits,
                         uploads, fit, inbox, worker, processed, torn, faults>>
        BY <1>9 DEF Republish
    <2>2. CatalogTypeOK'
        BY <2>1 DEF TypeOK, CatalogTypeOK, postings
    <2>3. TypeOK'
        BY <2>1, <2>2 DEF TypeOK, uploads, worker, locals
    <2>4. Shape'
        BY <2>1 DEF Shape, worker, locals
    <2>5. Recorded' /\ Counted'
        BY <2>1 DEF Recorded, Counted, Inserted, uploads, worker
    <2> QED
        BY <2>3, <2>4, <2>5
<1> QED
    BY <1>2, <1>3, <1>5, <1>7, <1>8, <1>9

\* Every step keeps the types.
LEMMA StepTypes == Types /\ [Next]_vars => Types'
<1> SUFFICES ASSUME Types, [Next]_vars PROVE Types'
    OBVIOUS
<1>1. CASE UNCHANGED vars
    BY <1>1 DEF vars, Types, TypeOK, CatalogTypeOK, Shape, Recorded, Counted, Inserted,
                catalog, postings, uploads, worker, locals, fate
<1>2. CASE Next
    BY <1>2, CatalogTypes, UploadTypes, AnalysisTypes, RankTypes, EndTypes
       DEF Next, Service, Handling
<1> QED
    BY <1>1, <1>2

\* Every variable of the services and the worker has its type, versions and scores included.
THEOREM TypeCorrect == Spec => []TypeOK
<1>1. Spec => []Types
    BY InitTypes, StepTypes, PTL DEF Spec
<1> QED
    BY <1>1, PTL DEF Types

----------------------------------------------------------------------------
(* Receipts and profiles *)

\* What the services do leaves the worker's run alone.
LEMMA ServiceFrame ==
    ASSUME Service \/ \E event \in givenUp : Republish(event)
    PROVE  UNCHANGED <<worker, fit, inbox, processed, torn>>
<1>1. CASE CatalogStep /\ UNCHANGED <<uploads, fit, inbox, worker, fate>>
    BY <1>1 DEF fate
<1>2. ASSUME NEW u \in Upload, BeginUpload(u) \/ InsertUpload(u) \/ AbandonUpload(u)
      PROVE  UNCHANGED <<worker, fit, inbox, processed, torn>>
    BY <1>2 DEF BeginUpload, InsertUpload, AbandonUpload, fate
<1>3. ASSUME NEW s \in Student, Invite(s) PROVE UNCHANGED <<worker, fit, inbox, processed, torn>>
    BY <1>3 DEF Invite, fate
<1>4. ASSUME NEW event \in givenUp, Republish(event) PROVE UNCHANGED <<worker, fit, inbox, processed, torn>>
    BY <1>4 DEF Republish
<1> QED
    BY <1>1, <1>2, <1>3, <1>4 DEF Service

\* Whom an event concerns has been told.
ToldAll(event) ==
    /\ event[1] \in {"resume", "interview"} => <<event, "student">> \in inbox
    /\ event[1] \in {"approved", "applied", "interview"} => <<event, "recruiter">> \in inbox

\* A run has told whom its step comes after.
Told ==
    /\ pc = "mark" => ToldAll(job)
    /\ pc = "notifyRecruiter" /\ job[1] = "interview" => <<job, "student">> \in inbox
    /\ \A event \in processed : ToldAll(event)

LEMMA InitTold == Init => Told
BY DEF Init, CatalogInit, Told

LEMMA StepTold == Types /\ Told /\ [Next]_vars => Told'
<1> SUFFICES ASSUME Types, Told, [Next]_vars PROVE Told'
    OBVIOUS
<1> USE DEF Types
<1>1. ASSUME UNCHANGED <<inbox, processed>>, pc' \notin {"mark", "notifyRecruiter"} PROVE Told'
    BY <1>1 DEF Told, ToldAll
<1>2. ASSUME UNCHANGED <<inbox, processed, pc, job>> PROVE Told'
    BY <1>2 DEF Told, ToldAll
<1>3. CASE UNCHANGED vars
    BY <1>2, <1>3 DEF vars, worker, fate
<1>4. CASE Service \/ \E event \in givenUp : Republish(event)
    BY <1>2, <1>4, ServiceFrame DEF worker
<1>5. ASSUME NEW event \in queue, Take(event) PROVE Told'
    <2>1. UNCHANGED <<inbox, processed>> /\ pc' = FirstStep(event)
        BY <1>5 DEF Take, fate
    <2> QED
        BY <1>1, <2>1 DEF FirstStep
<1>6. CASE Parse \/ Extract \/ Analyzed
    BY <1>1, <1>6 DEF Parse, Extract, Analyzed, At, SetStatus, fate
<1>7. CASE ReadJobs \/ ReadProfile \/ SaveAnalysis \/ SaveProfile
    BY <1>1, <1>7 DEF ReadJobs, ReadProfile, SaveAnalysis, SaveProfile, At, fate
<1>8. ASSUME NEW j \in left, SaveScore(j) PROVE Told'
    BY <1>2, <1>8 DEF SaveScore, fate
<1>9. CASE ReadStudents \/ SaveRank
    <2>1. PICK students \in SUBSET Student : Rank(students)
        BY <1>9 DEF ReadStudents, SaveRank, Known, TypeOK
    <2>2. pc \in RankSteps /\ UNCHANGED <<inbox, processed, job>>
        BY <1>9 DEF ReadStudents, SaveRank, RankSteps, fate
    <2>3. /\ pc' \in {"rank", "notifyRecruiter", "notify", "mark"}
          /\ pc' = "notifyRecruiter" => job[1] \in {"approved", "applied"}
          /\ pc' = "mark" => job[1] \notin {"approved", "applied", "resume", "interview"}
        BY <2>1, <2>2, RankStarts DEF Shape
    <2> QED
        BY <2>2, <2>3 DEF Told, ToldAll
<1>10. CASE Notify
    <2>1. /\ pc = "notify" /\ pc' = (IF job[1] = "interview" THEN "notifyRecruiter" ELSE "mark")
          /\ inbox' = inbox \cup {<<job, "student">>}
          /\ UNCHANGED <<job, processed>>
        BY <1>10 DEF Notify, At, Tell, IsOf, fate
    <2>2. job[1] \in {"resume", "interview"}
        BY <2>1 DEF Shape
    <2> QED
        BY <2>1, <2>2 DEF Told, ToldAll
<1>11. CASE NotifyRecruiter
    <2>1. /\ pc = "notifyRecruiter" /\ pc' = "mark"
          /\ inbox' = inbox \cup {<<job, "recruiter">>}
          /\ UNCHANGED <<job, processed>>
        BY <1>11 DEF NotifyRecruiter, At, Tell, fate
    <2>2. job[1] \in {"approved", "applied", "interview"}
        BY <2>1 DEF Shape
    <2> QED
        BY <2>1, <2>2 DEF Told, ToldAll
<1>12. CASE Mark
    <2>1. /\ pc = "mark" /\ pc' = "idle" /\ processed' = processed \cup {job} /\ inbox' = inbox
        BY <1>12 DEF Mark, Forget
    <2> QED
        BY <2>1 DEF Told, ToldAll
<1>13. CASE Throw \/ Die
    BY <1>1, <1>13 DEF Throw, Die, End, Forget
<1> QED
    BY <1>3, <1>4, <1>5, <1>6, <1>7, <1>8, <1>9, <1>10, <1>11, <1>12, <1>13 DEF Next, Handling

\* An event is only marked processed once everyone it concerns was told.
THEOREM ReceiptMeansTold == Spec => []ToldBeforeProcessed
<1>1. Told => ToldBeforeProcessed
    BY DEF Told, ToldAll, ToldBeforeProcessed
<1>2. Types /\ Told /\ [Next]_vars => (Types /\ Told)'
    BY StepTypes, StepTold
<1> QED
    BY <1>1, <1>2, InitTypes, InitTold, PTL DEF Spec

\* Only the student's own update and the end of an analysis write a profile.
LEMMA SkillsFrame ==
    ASSUME [Next]_vars
    PROVE  UNCHANGED skills \/ (\E s \in Student : UpsertProfile(s)) \/ SaveProfile
<1>1. CASE UNCHANGED vars
    BY <1>1 DEF vars, catalog
<1>2. CASE CatalogStep
    BY <1>2 DEF CatalogStep, CreateJob, UpdateJob, ApproveJob, SetActive, Apply, ExpireRank,
                Emitting, Emit, EmitLost
<1>3. ASSUME NEW u \in Upload, BeginUpload(u) \/ InsertUpload(u) \/ AbandonUpload(u)
      PROVE  UNCHANGED skills
    BY <1>3 DEF BeginUpload, InsertUpload, AbandonUpload, catalog
<1>4. ASSUME NEW s \in Student, Invite(s) PROVE UNCHANGED skills
    BY <1>4 DEF Invite
<1>5. ASSUME NEW event, Take(event) \/ Republish(event) PROVE UNCHANGED skills
    BY <1>5 DEF Take, Republish
<1>6. CASE Parse \/ Extract \/ ReadJobs \/ ReadProfile \/ SaveAnalysis \/ Analyzed
    BY <1>6 DEF Parse, Extract, ReadJobs, ReadProfile, SaveAnalysis, Analyzed, SetStatus, catalog
<1>7. CASE ReadStudents \/ (\E j \in left : SaveScore(j)) \/ SaveRank
    BY <1>7 DEF ReadStudents, SaveScore, SaveRank, catalog
<1>8. CASE Notify \/ NotifyRecruiter \/ Mark \/ Throw \/ Die
    BY <1>8 DEF Notify, NotifyRecruiter, Mark, Throw, Die, End, catalog
<1> QED
    BY <1>1, <1>2, <1>3, <1>4, <1>5, <1>6, <1>7, <1>8 DEF Next, Service, Handling

\* No analysis takes away a skill, whatever it read of the profile before.
THEOREM NoEditIsLost == Spec => EditsSurvive
<1> DEFINE SkillsStay == \A s \in Student : skills'[s] # skills[s] =>
                        UpsertProfile(s) \/ skills[s] \subseteq skills'[s]
<1>1. Types /\ [Next]_vars => [SkillsStay]_vars
    <2> SUFFICES ASSUME Types, [Next]_vars, NEW s \in Student, skills'[s] # skills[s]
                 PROVE  UpsertProfile(s) \/ skills[s] \subseteq skills'[s]
        OBVIOUS
    <2>1. ASSUME NEW t \in Student, UpsertProfile(t) PROVE UpsertProfile(s)
        <3>1. PICK k \in SUBSET Skill : skills' = [skills EXCEPT ![t] = k]
            BY <2>1 DEF UpsertProfile
        <3>2. s = t
            BY <3>1 DEF Types, TypeOK, CatalogTypeOK
        <3> QED
            BY <2>1, <3>2
    <2>2. ASSUME SaveProfile PROVE skills[s] \subseteq skills'[s]
        BY <2>2 DEF SaveProfile, Types, TypeOK, CatalogTypeOK
    <2> QED
        BY <2>1, <2>2, SkillsFrame
<1>2. Types /\ [Next]_vars => Types'
    BY StepTypes
<1> QED
    BY <1>1, <1>2, InitTypes, PTL DEF Spec, EditsSurvive

----------------------------------------------------------------------------
(* Versions *)

Both(u, v) == u \in overlapped /\ v \in overlapped

\* A row under way found all that was inserted before it began, and those inserted since,
\* or under way like it, overlap with it.
Versions ==
    /\ VersionsDistinct
    /\ \A u \in making, v \in Upload :
         u # v /\ OwnerOf[u] = OwnerOf[v] =>
           /\ status[v] # "none" => version[v] <= version[u] \/ Both(u, v)
           /\ v \in making => Both(u, v)

LEMMA InitVersions == Init => Versions
BY DEF Init, Versions, VersionsDistinct

\* Apart from upload nobody touches the versions, and no row appears.
LEMMA VersionFrame ==
    ASSUME Types, [Next]_vars
    PROVE  \/ \E u \in Upload : BeginUpload(u) \/ InsertUpload(u) \/ AbandonUpload(u)
           \/ /\ UNCHANGED <<version, making, overlapped>>
              /\ \A v \in Upload : status'[v] # "none" => status[v] # "none"
<1> USE DEF Types
<1>0. pc # "idle" => job \in Event
    BY DEF TypeOK, Shape
<1>1. CASE UNCHANGED vars
    BY <1>1 DEF vars, uploads
<1>2. CASE CatalogStep /\ UNCHANGED <<uploads, fit, inbox, worker, fate>>
    BY <1>2 DEF uploads
<1>3. ASSUME NEW s \in Student, Invite(s) PROVE UNCHANGED uploads
    BY <1>3 DEF Invite
<1>4. ASSUME NEW event, Take(event) \/ Republish(event) PROVE UNCHANGED uploads
    BY <1>4 DEF Take, Republish
<1>5. ASSUME NEW value \in Status \ {"none"}, pc # "idle", job[1] = "resume",
             status' = [status EXCEPT ![job[2]] = value]
      PROVE  \A v \in Upload : status'[v] # "none" => status[v] # "none"
    BY <1>0, <1>5, EventKinds, StatusTypes
<1>6. CASE Parse \/ Extract \/ Analyzed
    <2>1. pc \in ResumeSteps /\ pc # "idle" /\ UNCHANGED <<version, making, overlapped>>
        BY <1>6 DEF Parse, Extract, Analyzed, At, SetStatus, ResumeSteps
    <2>2. PICK value \in Status \ {"none"} : status' = [status EXCEPT ![job[2]] = value]
        BY <1>6 DEF Parse, Extract, Analyzed, SetStatus, Status
    <2> QED
        BY <1>5, <2>1, <2>2 DEF Shape
<1>7. CASE ReadJobs \/ ReadProfile \/ SaveAnalysis \/ SaveProfile
    BY <1>7 DEF ReadJobs, ReadProfile, SaveAnalysis, SaveProfile, uploads
<1>8. CASE ReadStudents \/ (\E j \in left : SaveScore(j)) \/ SaveRank
    BY <1>8 DEF ReadStudents, SaveScore, SaveRank, uploads
<1>9. CASE Notify \/ NotifyRecruiter \/ Mark
    BY <1>9 DEF Notify, NotifyRecruiter, Mark, uploads
<1>10. CASE Throw \/ Die
    <2>1. pc # "idle" /\ UNCHANGED <<version, making, overlapped>>
        BY <1>10 DEF Throw, Die, End
    <2>2. CASE Throw /\ InTry
        <3>1. job[1] = "resume" /\ status' = [status EXCEPT ![job[2]] = "failed"]
            BY <2>2 DEF Throw, InTry, IsOf
        <3> QED
            BY <1>5, <2>1, <3>1 DEF Status
    <2>3. CASE ~(Throw /\ InTry)
        BY <1>10, <2>1, <2>3 DEF Throw, Die
    <2> QED
        BY <2>2, <2>3
<1> QED
    BY <1>1, <1>2, <1>3, <1>4, <1>6, <1>7, <1>8, <1>9, <1>10 DEF Next, Service, Handling, uploads

LEMMA StepVersions == Types /\ Versions /\ [Next]_vars => Versions'
<1> SUFFICES ASSUME Types, Versions, [Next]_vars PROVE Versions'
    OBVIOUS
<1> USE DEF Types
<1>0. \A u \in Upload : version[u] \in Int
    BY WorkerAssumption, FS_CardinalityType DEF TypeOK, Version
<1>1. CASE /\ UNCHANGED <<version, making, overlapped>>
           /\ \A v \in Upload : status'[v] # "none" => status[v] # "none"
    BY <1>1 DEF Versions, VersionsDistinct, Both
<1>2. ASSUME NEW u \in Upload, BeginUpload(u) PROVE Versions'
    <2>1. PICK highest \in Found(u) :
              (\A n \in Found(u) : n <= highest) /\ version' = [version EXCEPT ![u] = highest]
        BY <1>2 DEF BeginUpload
    <2>2. /\ status' = status /\ making' = making \cup {u} /\ status[u] = "none" /\ u \notin making
          /\ overlapped' = overlapped \cup
                 (IF OfOwner(u) \cap making = {} THEN {} ELSE {u} \cup (OfOwner(u) \cap making))
        BY <1>2 DEF BeginUpload, Unused
    <2>3. /\ \A v \in Upload : v # u => version'[v] = version[v]
          /\ version'[u] = highest
        BY <2>1 DEF TypeOK
    <2>4. \A v, w \in Upload : Both(v, w) => Both(v, w)'
        BY <2>2 DEF Both
    <2>5. VersionsDistinct'
        BY <2>2, <2>3, <2>4 DEF Versions, VersionsDistinct, Both
    <2>6. ASSUME NEW v \in Upload, v # u, OwnerOf[u] = OwnerOf[v]
          PROVE  /\ status[v] # "none" => version[v] <= highest
                 /\ v \in making => Both(u, v)' /\ Both(v, u)'
        <3>1. v \in OfOwner(u)
            BY <2>6 DEF OfOwner
        <3>2. status[v] # "none" => v \notin making
            BY DEF Recorded
        <3> QED
            BY <2>1, <2>2, <3>1, <3>2 DEF Found, Both
    <2>7. ASSUME NEW v \in making', NEW w \in Upload, v # w, OwnerOf[v] = OwnerOf[w]
          PROVE  /\ status'[w] # "none" => version'[w] <= version'[v] \/ Both(v, w)'
                 /\ w \in making' => Both(v, w)'
        <3>1. v \in Upload
            BY <2>2, <2>7 DEF TypeOK
        <3>2. CASE v = u
            BY <2>2, <2>3, <2>6, <2>7, <3>2
        <3>3. CASE v # u /\ w = u
            BY <2>2, <2>6, <2>7, <3>1, <3>3
        <3>4. CASE v # u /\ w # u
            BY <2>2, <2>3, <2>4, <2>7, <3>1, <3>4 DEF Versions
        <3> QED
            BY <3>2, <3>3, <3>4
    <2> QED
        BY <2>5, <2>7 DEF Versions
<1>3. ASSUME NEW u \in Upload, InsertUpload(u) PROVE Versions'
    <2>1. /\ u \in making /\ making' = making \ {u} /\ overlapped' = overlapped
          /\ status' = [status EXCEPT ![u] = "uploaded"]
          /\ version' = [version EXCEPT ![u] = @ + 1]
        BY <1>3 DEF InsertUpload
    <2>2. /\ \A v \in Upload : v # u => version'[v] = version[v] /\ status'[v] = status[v]
          /\ version'[u] = version[u] + 1
        BY <2>1 DEF TypeOK
    <2>3. \A v, w \in Upload : Both(v, w)' <=> Both(v, w)
        BY <2>1 DEF Both
    <2>4. ASSUME NEW v \in Upload, v # u, OwnerOf[u] = OwnerOf[v], status[v] # "none"
          PROVE  version[v] # version'[u] \/ Both(u, v)
        BY <1>0, <2>1, <2>2, <2>4 DEF Versions
    <2>5. VersionsDistinct'
        <3> SUFFICES ASSUME NEW v \in Upload, NEW w \in Upload, v # w, OwnerOf[v] = OwnerOf[w],
                            status'[v] # "none", status'[w] # "none", version'[v] = version'[w]
                     PROVE  v \in overlapped /\ w \in overlapped
            BY <2>1 DEF VersionsDistinct
        <3>1. CASE v = u
            BY <2>2, <2>4, <3>1 DEF Both
        <3>2. CASE w = u
            BY <2>2, <2>4, <3>2 DEF Both
        <3>3. CASE v # u /\ w # u
            BY <2>2, <3>3 DEF Versions, VersionsDistinct
        <3> QED
            BY <3>1, <3>2, <3>3
    <2>6. ASSUME NEW v \in making', NEW w \in Upload, v # w, OwnerOf[v] = OwnerOf[w]
          PROVE  /\ status'[w] # "none" => version'[w] <= version'[v] \/ Both(v, w)'
                 /\ w \in making' => Both(v, w)'
        <3>1. v \in Upload /\ v \in making /\ v # u
            BY <2>1, <2>6 DEF TypeOK
        <3>2. CASE w = u
            BY <2>1, <2>3, <2>6, <3>1, <3>2 DEF Versions
        <3>3. CASE w # u
            BY <2>1, <2>2, <2>3, <2>6, <3>1, <3>3 DEF Versions
        <3> QED
            BY <3>2, <3>3
    <2> QED
        BY <2>5, <2>6 DEF Versions
<1>4. ASSUME NEW u \in Upload, AbandonUpload(u) PROVE Versions'
    <2>1. /\ u \in making /\ making' = making \ {u} /\ UNCHANGED <<status, overlapped>>
          /\ version' = [version EXCEPT ![u] = 0] /\ status[u] = "none"
        BY <1>4 DEF AbandonUpload, Recorded
    <2>2. \A v \in Upload : v # u => version'[v] = version[v]
        BY <2>1 DEF TypeOK
    <2>3. VersionsDistinct'
        BY <2>1, <2>2 DEF Versions, VersionsDistinct
    <2>4. ASSUME NEW v \in making', NEW w \in Upload, v # w, OwnerOf[v] = OwnerOf[w]
          PROVE  /\ status'[w] # "none" => version'[w] <= version'[v] \/ Both(v, w)'
                 /\ w \in making' => Both(v, w)'
        <3>1. v \in Upload /\ v \in making /\ v # u
            BY <2>1, <2>4 DEF TypeOK
        <3> QED
            BY <2>1, <2>2, <2>4, <3>1 DEF Versions, Both
    <2> QED
        BY <2>3, <2>4 DEF Versions
<1> QED
    BY <1>1, <1>2, <1>3, <1>4, VersionFrame

\* Two uploads of a student only have the same version if one began before the other was
\* inserted.
THEOREM VersionsDiffer == Spec => []VersionsDistinct
<1>1. Types /\ Versions /\ [Next]_vars => (Types /\ Versions)'
    BY StepTypes, StepVersions
<1> QED
    BY <1>1, InitTypes, InitVersions, PTL DEF Spec, Versions

----------------------------------------------------------------------------
(* Analyses *)

Resume(u) == <<"resume", u>>
Pending == owed \cup queue \cup givenUp
Done(u) == status[u] = "analyzed" /\ fit[u] # None /\ <<Resume(u), "student">> \in inbox

\* The steps of an analysis after its fit was saved, and after it was recorded as analysed.
Recording == RankSteps \cup {"notify", "mark"}
Fitted == Recording \cup {"saveProfile", "analyzed"}

\* The event of an upload is under way until all of its analysis was recorded.
Analyses ==
    /\ \A u \in Upload : status[u] # "none" =>
         lost \/ Resume(u) \in Pending \/ job = Resume(u) \/ Done(u)
    /\ pc \in Fitted /\ job[1] = "resume" => fit[job[2]] # None
    /\ pc \in Recording /\ job[1] = "resume" => status[job[2]] = "analyzed"

LEMMA InitAnalyses == Init => Analyses
BY DEF Init, CatalogInit, Analyses, Fitted, Recording, RankSteps

\* What leaves the uploads and the worker alone and loses no event without saying so.
LEMMA AnalysesKept ==
    ASSUME Analyses, UNCHANGED <<job, pc, status, fit, inbox>>,
           lost => lost', lost' \/ Pending \subseteq Pending'
    PROVE  Analyses'
BY DEF Analyses, Done

\* The services lose no event without saying so.
LEMMA ServiceAnalyses ==
    ASSUME Types, Analyses, Service \/ \E event \in givenUp : Republish(event)
    PROVE  Analyses'
<1>1. ASSUME NEW event, Owe(event), UNCHANGED givenUp
      PROVE  (lost => lost') /\ Pending \subseteq Pending'
    BY <1>1 DEF Owe, Pending
<1>2. UNCHANGED <<job, pc, fit, inbox>>
    BY ServiceFrame DEF worker
<1>3. CASE CatalogStep /\ UNCHANGED <<uploads, fit, inbox, worker, fate>>
    <2>1. UNCHANGED <<status, givenUp>>
        BY <1>3 DEF uploads, fate
    <2>2. ASSUME NEW j \in Posting, CreateJob(j) PROVE (lost => lost') /\ Pending \subseteq Pending'
        BY <2>1, <2>2 DEF CreateJob, Pending
    <2>3. ASSUME NEW j \in Posting, UpdateJob(j) \/ ApproveJob(j) \/ (\E open \in BOOLEAN : SetActive(j, open))
          PROVE  (lost => lost') /\ Pending \subseteq Pending'
        BY <1>1, <2>1, <2>3 DEF UpdateJob, ApproveJob, SetActive
    <2>4. ASSUME NEW s \in Student, NEW j \in Posting, Apply(s, j) \/ UpsertProfile(s)
          PROVE  (lost => lost') /\ Pending \subseteq Pending'
        BY <1>1, <2>1, <2>4 DEF Apply, UpsertProfile
    <2>5. ASSUME NEW s \in Student, UpsertProfile(s)
          PROVE  (lost => lost') /\ Pending \subseteq Pending'
        BY <1>1, <2>1, <2>5 DEF UpsertProfile
    <2>6. ASSUME NEW s \in Student, ExpireRank(s) PROVE (lost => lost') /\ Pending \subseteq Pending'
        BY <2>1, <2>6 DEF ExpireRank, Pending
    <2>7. ASSUME NEW event \in owed, Emit(event) PROVE (lost => lost') /\ Pending \subseteq Pending'
        BY <2>1, <2>7 DEF Emit, Pending
    <2>8. ASSUME NEW event \in owed, EmitLost(event) PROVE lost'
        BY <2>8 DEF EmitLost
    <2> QED
        BY <1>2, <1>3, <2>1, <2>2, <2>3, <2>4, <2>5, <2>6, <2>7, <2>8, AnalysesKept
           DEF CatalogStep, Emitting
<1>4. ASSUME NEW u \in Upload, BeginUpload(u) \/ AbandonUpload(u) PROVE Analyses'
    <2>1. UNCHANGED <<status, owed, queue, lost, givenUp>>
        BY <1>4 DEF BeginUpload, AbandonUpload, catalog, fate
    <2> QED
        BY <1>2, <2>1, AnalysesKept DEF Pending
<1>5. ASSUME NEW u \in Upload, InsertUpload(u) PROVE Analyses'
    <2>1. /\ status' = [status EXCEPT ![u] = "uploaded"] /\ status[u] = "none"
          /\ owed' = owed \cup {Resume(u)} /\ UNCHANGED <<queue, lost, givenUp>>
        BY <1>5 DEF InsertUpload, Owe, Types, Recorded, fate, Resume
    <2>2. \A v \in Upload : v # u => status'[v] = status[v]
        BY <2>1 DEF Types, TypeOK
    <2>3. pc \in Recording /\ job[1] = "resume" => job[2] \in Upload /\ job[2] # u
        <3>1. pc \in Recording => job \in Event
            BY DEF Types, TypeOK, Shape, Recording, RankSteps
        <3> QED
            BY <2>1, <3>1, EventKinds DEF Types, Recorded
    <2>4. Resume(u) \in Pending' /\ Pending \subseteq Pending'
        BY <2>1 DEF Pending
    <2> QED
        BY <1>2, <2>1, <2>2, <2>3, <2>4 DEF Analyses, Done
<1>6. ASSUME NEW s \in Student, Invite(s) PROVE Analyses'
    <2>1. Owe(<<"interview", s>>) /\ UNCHANGED <<status, givenUp>>
        BY <1>6 DEF Invite, uploads, fate
    <2> QED
        BY <1>1, <1>2, <2>1, AnalysesKept
<1>7. ASSUME NEW event \in givenUp, Republish(event) PROVE Analyses'
    <2>1. UNCHANGED <<status, lost>> /\ Pending' = Pending
        BY <1>7 DEF Republish, uploads, Pending
    <2> QED
        BY <1>2, <2>1, AnalysesKept
<1> QED
    BY <1>3, <1>4, <1>5, <1>6, <1>7 DEF Service

LEMMA StepAnalyses == Types /\ Told /\ Analyses /\ [Next]_vars => Analyses'
<1> SUFFICES ASSUME Types, Told, Analyses, [Next]_vars PROVE Analyses'
    OBVIOUS
<1> USE DEF Types
<1>0. pc # "idle" => job \in Event
    BY DEF TypeOK, Shape
<1>1. CASE UNCHANGED vars
    BY <1>1, AnalysesKept DEF vars, catalog, uploads, worker, fate, Pending
<1>2. CASE Service \/ \E event \in givenUp : Republish(event)
    BY <1>2, ServiceAnalyses
<1>3. ASSUME NEW event \in queue, Take(event) PROVE Analyses'
    <2>1. /\ queue' = queue \ {event} /\ job' = event /\ pc' = FirstStep(event) /\ pc = "idle"
          /\ UNCHANGED <<owed, lost, givenUp, status, fit, inbox>>
        BY <1>3 DEF Take, uploads, fate
    <2>2. pc' \notin Fitted \/ job'[1] # "resume"
        BY <2>1 DEF FirstStep, Fitted, Recording, RankSteps
    <2>3. Pending \subseteq Pending' \cup {job'}
        BY <2>1 DEF Pending
    <2>4. \A u \in Upload : job # Resume(u)
        BY <2>1, EventKinds, OwedEvents DEF Shape, Resume
    <2> QED
        BY <2>1, <2>2, <2>3, <2>4 DEF Analyses, Done, Fitted
\* A step of the analysis itself, of which the event is under way.
<1>4. ASSUME NEW u \in Upload, job = Resume(u), UNCHANGED <<job, owed, queue, lost, givenUp, inbox>>,
             \A v \in Upload : v # u => status'[v] = status[v] /\ fit'[v] = fit[v],
             pc' \in Fitted => fit'[u] # None, pc' \in Recording => status'[u] = "analyzed"
      PROVE  Analyses'
    <2>1. job[2] = u
        BY <1>4 DEF Resume
    <2> QED
        BY <1>4, <2>1 DEF Analyses, Pending, Done
<1>5. ASSUME pc \in ResumeSteps PROVE job[2] \in Upload /\ job = Resume(job[2])
    BY <1>0, <1>5, EventKinds DEF Shape, ResumeSteps, Resume
<1>6. CASE Parse \/ Extract \/ Analyzed
    <2>1. /\ pc \in ResumeSteps /\ UNCHANGED <<job, owed, queue, lost, givenUp, fit, inbox>>
          /\ \A v \in Upload : v # job[2] => status'[v] = status[v]
        BY <1>6 DEF Parse, Extract, Analyzed, At, SetStatus, ResumeSteps, catalog, fate, TypeOK
    <2>2. pc' \in Fitted => pc = "analyzed" /\ pc' = "rankJobs" /\ status' = [status EXCEPT ![job[2]] = "analyzed"]
        BY <1>6 DEF Parse, Extract, Analyzed, At, SetStatus, Fitted, Recording, RankSteps
    <2>3. pc' \in Fitted => fit[job[2]] # None /\ status'[job[2]] = "analyzed"
        BY <1>5, <2>1, <2>2 DEF Analyses, Fitted, TypeOK, Resume
    <2> QED
        BY <1>4, <1>5, <2>1, <2>3 DEF Fitted
<1>7. CASE ReadJobs
    <2>1. /\ (pc = "readJobs" /\ pc' = "readProfile") \/ (pc = "rankJobs" /\ pc' = "rankStudents")
          /\ UNCHANGED <<job, owed, queue, lost, givenUp, status, fit, inbox>>
        BY <1>7 DEF ReadJobs, At, catalog, uploads, fate
    <2> QED
        BY <2>1 DEF Analyses, Pending, Done, Fitted, Recording, RankSteps
<1>8. CASE ReadProfile
    BY <1>8 DEF ReadProfile, At, Analyses, Pending, Done, Fitted, Recording, RankSteps, catalog, uploads, fate
<1>9. CASE SaveAnalysis
    <2> DEFINE have == extracted \cup (IF known[Owner] = None THEN {} ELSE known[Owner])
               row  == [j \in Posting |-> IF offers[j] = None THEN None ELSE EnhancedScore(have, offers[j])]
    <2>1. /\ pc = "saveAnalysis" /\ pc' = "saveProfile"
          /\ fit' = [fit EXCEPT ![job[2]] = row]
          /\ UNCHANGED <<job, owed, queue, lost, givenUp, status, inbox>>
        BY <1>9 DEF SaveAnalysis, At, catalog, uploads, fate
    <2>2. job[2] \in Upload /\ job = Resume(job[2]) /\ Owner \in Student
        BY <1>5, <2>1, WorkerAssumption DEF ResumeSteps, Owner
    <2>3. have \in SUBSET Skill
        BY <2>2 DEF TypeOK
    <2> HIDE DEF have
    <2>4. \A j \in Posting : offers[j] # None => EnhancedScore(have, offers[j]) \in 0..100
        BY <2>3, ScoreTypes DEF TypeOK
    <2>5. row # None
        BY <2>4, WorkerAssumption
    <2> HIDE DEF row
    <2>6. /\ \A v \in Upload : v # job[2] => fit'[v] = fit[v]
          /\ fit'[job[2]] # None
        BY <2>1, <2>2, <2>5 DEF TypeOK
    <2> QED
        BY <1>4, <2>1, <2>2, <2>6 DEF Recording, RankSteps
<1>10. CASE SaveProfile
    <2>1. /\ pc = "saveProfile" /\ pc' = "analyzed"
          /\ UNCHANGED <<job, owed, queue, lost, givenUp, status, fit, inbox>>
        BY <1>10 DEF SaveProfile, At, uploads, fate
    <2> QED
        BY <2>1 DEF Analyses, Pending, Done, Fitted, Recording, RankSteps
<1>11. CASE ReadStudents \/ (\E j \in left : SaveScore(j)) \/ SaveRank
    <2>1. pc \in Recording /\ UNCHANGED <<job, owed, queue, lost, givenUp, status, fit, inbox>>
        BY <1>11 DEF ReadStudents, SaveScore, SaveRank, catalog, uploads, fate, Recording, RankSteps
    <2> QED
        BY <2>1 DEF Analyses, Pending, Done, Fitted
<1>12. CASE Notify \/ NotifyRecruiter
    <2>1. /\ pc \in {"notify", "notifyRecruiter"} /\ inbox \subseteq inbox'
          /\ UNCHANGED <<job, owed, queue, lost, givenUp, status, fit>>
        BY <1>12 DEF Notify, NotifyRecruiter, At, Tell, catalog, uploads, fate
    <2>2. job[1] = "resume" => pc = "notify"
        BY <2>1 DEF Shape
    <2> QED
        BY <2>1, <2>2 DEF Analyses, Pending, Done, Fitted, Recording
<1>13. CASE Mark
    <2>1. /\ pc = "mark" /\ job' = None /\ pc' = "idle"
          /\ queue \subseteq queue'
          /\ UNCHANGED <<owed, lost, givenUp, status, fit, inbox>>
        BY <1>13 DEF Mark, Forget, uploads
    <2>2. \A u \in Upload : job = Resume(u) => Done(u)
        BY <2>1 DEF Analyses, Told, ToldAll, Done, Fitted, Recording, Resume
    <2> QED
        BY <2>1, <2>2 DEF Analyses, Pending, Done, Fitted, Recording, RankSteps
<1>14. CASE Throw \/ Die
    <2>1. /\ pc # "idle" /\ job' = None /\ pc' = "idle"
          /\ Pending' = Pending \cup {job}
          /\ UNCHANGED <<lost, fit, inbox>>
        BY <1>14 DEF Throw, Die, End, Forget, Pending
    <2>2. \A u \in Upload : status'[u] = status[u] \/ job = Resume(u)
        <3>1. CASE Throw /\ InTry
            <4>1. job[1] = "resume" /\ status' = [status EXCEPT ![job[2]] = "failed"]
                BY <3>1 DEF Throw, InTry, IsOf
            <4> QED
                BY <1>0, <2>1, <4>1, EventKinds DEF TypeOK, Resume
        <3>2. CASE ~(Throw /\ InTry)
            BY <1>14, <3>2 DEF Throw, Die
        <3> QED
            BY <3>1, <3>2
    <2> QED
        BY <2>1, <2>2 DEF Analyses, Done, Fitted, Recording, RankSteps
<1> QED
    BY <1>1, <1>2, <1>3, <1>6, <1>7, <1>8, <1>9, <1>10, <1>11, <1>12, <1>13, <1>14 DEF Next, Handling

\* Once every event is handled, each upload was analysed, has its fit, and its student was
\* told, whatever died or was handled twice on the way.
THEOREM AnalysesAreFinished == Spec => []AnalysisSettles
<1>1. Types /\ Analyses => AnalysisSettles
    <2> SUFFICES ASSUME Types, Analyses, Settled, NEW u \in Upload, status[u] # "none" PROVE Done(u)
        BY DEF AnalysisSettles, Done, Resume
    <2>1. job # Resume(u)
        BY EventKinds, OwedEvents DEF Settled, Types, Shape, Resume
    <2> QED
        BY <2>1 DEF Analyses, Settled, Pending
<1>2. Types /\ Told /\ Analyses /\ [Next]_vars => (Types /\ Told /\ Analyses)'
    BY StepTypes, StepTold, StepAnalyses
<1> QED
    BY <1>1, <1>2, InitTypes, InitTold, InitAnalyses, PTL DEF Spec

----------------------------------------------------------------------------
(* Ranks *)

OffersNow == [j \in Posting |-> IF j \in Open THEN needs[j] ELSE None]

Pends(s) == \E event \in Pending : s \in Covers(event)
Waits(s) == pc \in ResumeSteps \cup {"rankJobs"} /\ s \in Covers(job)
Reads(s) == pc = "rankStudents" /\ s \in Covers(job) /\ offers = OffersNow
Follows(s) == pc = "rank" /\ s \in todo /\ offers = OffersNow /\ known[s] = skills[s]
IsAt(s) ==
    /\ pc = "rank" /\ s = at /\ offers = OffersNow /\ known[s] = skills[s]
    /\ \A j \in Open : j \in left \/ score[s][j] \in {None, MatchScore(skills[s], needs[j])}
Rests(s) ==
    /\ Current(s)
    /\ ~(pc = "rank" /\ s \in {at} \cup todo)
    /\ ~(pc = "rankStudents" /\ s \in Covers(job))

\* The ranks of a student are current and nobody is writing them, or they are being computed
\* from what is still true, or an event that has them computed is under way.
Cared(s) == Pends(s) \/ Waits(s) \/ Reads(s) \/ Follows(s) \/ IsAt(s) \/ Rests(s)

Ranked ==
    /\ \A j \in Posting : approved[j] => needs[j] # None
    /\ lost \/ \A s \in Known : Cared(s)

LEMMA InitRanked == Init => Ranked
<1> SUFFICES ASSUME Init PROVE Ranked
    OBVIOUS
<1>1. ASSUME NEW s \in Known PROVE Rests(s)
    <2>1. rank[s] = Unranked /\ score[s] = Unranked /\ pc = "idle"
        BY DEF Init, CatalogInit, Known
    <2>2. \A j \in Open : score[s][j] = None
        BY <2>1 DEF Unranked, Open
    <2> QED
        BY <2>1, <2>2 DEF Rests, Current
<1> QED
    BY <1>1 DEF Init, CatalogInit, Ranked, Cared

\* What a student is ranked by is unchanged, and nothing of the ranks or only their expiry.
LEMMA CurrentKept ==
    ASSUME NEW s, Current(s), skills'[s] = skills[s], Open' = Open,
           \A j \in Open : needs'[j] = needs[j],
           score'[s] = score[s], rank'[s] \in {rank[s], Unranked}, s \in torn <=> s \in torn'
    PROVE  Current(s)'
<1>1. (\A j \in Open : score[s][j] \in {None, MatchScore(skills[s], needs[j])})'
    BY DEF Current
<1>2. \/ s \in torn'
      \/ rank'[s] = Unranked
      \/ rank'[s] = [j \in Posting |-> IF j \in Open' THEN MatchScore(skills'[s], needs'[j]) ELSE None]
    BY DEF Current
<1>3. Unranked' = Unranked
    BY DEF Unranked
<1> QED
    BY <1>1, <1>2, <1>3 DEF Current

\* Steps of the services that change nothing the worker computes from.
LEMMA CaredKept ==
    ASSUME NEW s, Cared(s), UNCHANGED worker, Pending \subseteq Pending',
           skills'[s] = skills[s], Open' = Open, \A j \in Open : needs'[j] = needs[j],
           score'[s] = score[s], rank'[s] \in {rank[s], Unranked}, torn' = torn
    PROVE  Cared(s)'
<1>1. OffersNow' = OffersNow
    BY DEF OffersNow
<1>2. CASE Pends(s)
    BY <1>2 DEF Cared, Pends, Covers
<1>3. CASE Waits(s)
    BY <1>3 DEF Cared, Waits, Covers, worker
<1>4. CASE Reads(s)
    BY <1>1, <1>4 DEF Cared, Reads, Covers, worker, locals
<1>5. CASE Follows(s)
    BY <1>1, <1>5 DEF Cared, Follows, worker, locals
<1>6. CASE IsAt(s)
    <2>1. (\A j \in Open : j \in left \/ score[s][j] \in {None, MatchScore(skills[s], needs[j])})'
        BY <1>6 DEF IsAt, worker, locals
    <2> QED
        BY <1>1, <1>6, <2>1 DEF Cared, IsAt, worker, locals
<1>7. CASE Rests(s)
    <2>1. Current(s)'
        BY <1>7, CurrentKept DEF Rests
    <2> QED
        BY <1>7, <2>1 DEF Cared, Rests, Covers, worker, locals
<1> QED
    BY <1>2, <1>3, <1>4, <1>5, <1>6, <1>7 DEF Cared

\* What the services change has an event that computes the ranks it concerns, or says it
\* was lost.
LEMMA ServiceRanked ==
    ASSUME Types, Ranked, Service \/ \E event \in givenUp : Republish(event)
    PROVE  Ranked'
<1> USE DEF Types
<1>1. UNCHANGED worker /\ torn' = torn
    BY ServiceFrame
\* A change that owes an event which covers all whose ranks it concerns.
<1>2. ASSUME NEW event \in Event, Owe(event), UNCHANGED givenUp, Open \subseteq Posting,
             \A j \in Posting : approved'[j] => needs'[j] # None,
             \A s \in Known' : \/ s \in Covers(event)
                               \/ /\ s \in Known /\ skills'[s] = skills[s] /\ Open' = Open
                                  /\ \A j \in Open : needs'[j] = needs[j]
                                  /\ score'[s] = score[s] /\ rank'[s] \in {rank[s], Unranked}
      PROVE  Ranked'
    <2>1. Pending \subseteq Pending' /\ event \in Pending' /\ lost' = lost
        BY <1>2 DEF Owe, Pending
    <2>2. ASSUME NEW s \in Known', s \in Covers(event) PROVE Cared(s)'
        BY <2>1, <2>2 DEF Cared, Pends, Covers
    <2> QED
        BY <1>1, <1>2, <2>1, <2>2, CaredKept DEF Ranked
\* A change that concerns no ranks.
<1>3. ASSUME lost => lost', lost' \/ Pending \subseteq Pending', skills' = skills, score' = score,
             UNCHANGED postings, \A s \in Student : rank'[s] \in {rank[s], Unranked}
      PROVE  Ranked'
    <2>1. Known' = Known /\ Open' = Open /\ UNCHANGED <<needs, approved>> /\ Known \subseteq Student
        BY <1>3 DEF Known, Open, postings
    <2> QED
        BY <1>1, <1>3, <2>1, CaredKept DEF Ranked
<1>4. ASSUME NEW j \in Posting PROVE <<"job", j>> \in Event /\ Covers(<<"job", j>>) = Student
    BY OwedEvents DEF Covers
<1>5. ASSUME NEW j \in Posting PROVE <<"approved", j>> \in Event /\ Covers(<<"approved", j>>) = Student
    BY OwedEvents DEF Covers
<1>6. ASSUME NEW j \in Posting PROVE <<"applied", j>> \in Event /\ Covers(<<"applied", j>>) = Student
    BY OwedEvents DEF Covers
<1>7. Known' \subseteq Student /\ Open \subseteq Posting
    BY DEF Known, Open
<1>8. CASE CatalogStep /\ UNCHANGED <<uploads, fit, inbox, worker, fate>>
    <2>0. UNCHANGED givenUp
        BY <1>8 DEF fate
    <2>1. ASSUME NEW j \in Posting, CreateJob(j) PROVE Ranked'
        <3>1. /\ needs[j] = None /\ \E r \in Requirement : needs' = [needs EXCEPT ![j] = r]
              /\ active' = [active EXCEPT ![j] = TRUE]
              /\ UNCHANGED <<approved, skills, score, rank, owed, queue, lost>>
            BY <2>1 DEF CreateJob
        <3>2. ~approved[j]
            BY <3>1 DEF Ranked
        <3>3. /\ \A i \in Posting : i # j => needs'[i] = needs[i] /\ active'[i] = active[i]
              /\ needs'[j] # None
            BY <3>1, CatalogAssumption DEF TypeOK, CatalogTypeOK
        <3>4. Open' = Open /\ (\A i \in Open : needs'[i] = needs[i]) /\ Known' = Known
            BY <3>1, <3>2, <3>3 DEF Open, Known
        <3>5. Pending' = Pending
            BY <2>0, <3>1 DEF Pending
        <3> QED
            BY <1>1, <3>1, <3>3, <3>4, <3>5, CaredKept DEF Ranked
    <2>2. ASSUME NEW j \in Posting, UpdateJob(j) PROVE Ranked'
        <3>1. /\ needs[j] # None /\ \E r \in Requirement : needs' = [needs EXCEPT ![j] = r]
              /\ Owe(<<"job", j>>) /\ UNCHANGED approved
            BY <2>2 DEF UpdateJob
        <3>2. \A i \in Posting : approved'[i] => needs'[i] # None
            BY <3>1, CatalogAssumption DEF TypeOK, CatalogTypeOK, Ranked
        <3> QED
            BY <1>2, <1>4, <1>7, <2>0, <3>1, <3>2
    <2>3. ASSUME NEW j \in Posting, NEW open \in BOOLEAN, SetActive(j, open) PROVE Ranked'
        <3>1. Owe(<<"job", j>>) /\ UNCHANGED <<needs, approved>>
            BY <2>3 DEF SetActive
        <3> QED
            BY <1>2, <1>4, <1>7, <2>0, <3>1 DEF Ranked
    <2>4. ASSUME NEW j \in Posting, ApproveJob(j) PROVE Ranked'
        <3>1. /\ Owe(<<"approved", j>>) /\ UNCHANGED needs /\ needs[j] # None
              /\ approved' = [approved EXCEPT ![j] = TRUE]
            BY <2>4 DEF ApproveJob
        <3>2. \A i \in Posting : approved'[i] => needs'[i] # None
            BY <3>1 DEF TypeOK, CatalogTypeOK, Ranked
        <3> QED
            BY <1>2, <1>5, <1>7, <2>0, <3>1, <3>2
    <2>5. ASSUME NEW j \in Posting, NEW s \in Student, Apply(s, j) PROVE Ranked'
        <3>1. Owe(<<"applied", j>>) /\ UNCHANGED <<needs, approved>>
            BY <2>5 DEF Apply, postings
        <3> QED
            BY <1>2, <1>6, <1>7, <2>0, <3>1 DEF Ranked
    <2>6. ASSUME NEW s \in Student, UpsertProfile(s) PROVE Ranked'
        <3>1. /\ \E k \in SUBSET Skill : skills' = [skills EXCEPT ![s] = k]
              /\ Owe(<<"profile", s>>) /\ UNCHANGED <<needs, approved, active, score, rank>>
            BY <2>6 DEF UpsertProfile, postings
        <3>2. \A t \in Student : t # s => skills'[t] = skills[t]
            BY <3>1 DEF TypeOK, CatalogTypeOK
        <3>3. \A t \in Known' : t = s \/ t \in Known
            BY <3>2 DEF Known
        <3>4. Covers(<<"profile", s>>) = {s}
            BY DEF Covers
        <3>5. Open' = Open
            BY <3>1 DEF Open
        <3>6. \A i \in Posting : approved'[i] => needs'[i] # None
            BY <3>1 DEF Ranked
        <3> QED
            BY <1>2, <1>7, <2>0, <3>1, <3>2, <3>3, <3>4, <3>5, <3>6, OwedEvents
    <2>7. ASSUME NEW s \in Student, ExpireRank(s) PROVE Ranked'
        <3>1. /\ rank' = [rank EXCEPT ![s] = Unranked]
              /\ UNCHANGED <<postings, skills, score, owed, queue, lost>>
            BY <2>7 DEF ExpireRank
        <3>2. \A t \in Student : rank'[t] \in {rank[t], Unranked}
            BY <3>1 DEF TypeOK, CatalogTypeOK
        <3>3. Pending' = Pending
            BY <2>0, <3>1 DEF Pending
        <3> QED
            BY <1>3, <3>1, <3>2, <3>3
    <2>8. ASSUME NEW event \in owed, Emit(event) \/ EmitLost(event) PROVE Ranked'
        BY <1>3, <2>0, <2>8 DEF Emit, EmitLost, Pending
    <2> QED
        BY <1>8, <2>1, <2>2, <2>3, <2>4, <2>5, <2>6, <2>7, <2>8 DEF CatalogStep, Emitting
<1>9. ASSUME NEW u \in Upload, BeginUpload(u) \/ AbandonUpload(u) PROVE Ranked'
    <2>1. UNCHANGED <<postings, skills, score, rank, owed, queue, lost, givenUp>>
        BY <1>9 DEF BeginUpload, AbandonUpload, catalog, fate
    <2> QED
        BY <1>3, <2>1 DEF Pending
<1>10. ASSUME NEW u \in Upload, InsertUpload(u) PROVE Ranked'
    <2>1. UNCHANGED <<postings, skills, score, rank, lost, givenUp, queue>> /\ owed \subseteq owed'
        BY <1>10 DEF InsertUpload, Owe, fate
    <2> QED
        BY <1>3, <2>1 DEF Pending
<1>11. ASSUME NEW s \in Student, Invite(s) PROVE Ranked'
    <2>1. UNCHANGED <<postings, skills, score, rank, lost, givenUp, queue>> /\ owed \subseteq owed'
        BY <1>11 DEF Invite, Owe, fate
    <2> QED
        BY <1>3, <2>1 DEF Pending
<1>12. ASSUME NEW event \in givenUp, Republish(event) PROVE Ranked'
    <2>1. UNCHANGED <<postings, skills, score, rank, lost>> /\ Pending' = Pending
        BY <1>12 DEF Republish, Pending
    <2> QED
        BY <1>3, <2>1
<1> QED
    BY <1>8, <1>9, <1>10, <1>11, <1>12 DEF Service

\* Up to reading the profiles a run covers the students of its event, then it has read
\* what is true, and it goes through them one by one.
LEMMA StepRanked == Types /\ Ranked /\ [Next]_vars => Ranked'
<1> SUFFICES ASSUME Types, Ranked, [Next]_vars PROVE Ranked'
    OBVIOUS
<1> USE DEF Types
<1>0. pc # "idle" => job \in Event /\ Covers(job) \subseteq Student
    BY EventKinds DEF TypeOK, Shape
\* The worker's steps change no posting and lose no event.
<1>1. ASSUME UNCHANGED <<postings, lost>>, Known' = Known,
             \A s \in Known : Cared(s) => Cared(s)'
      PROVE  Ranked'
    BY <1>1 DEF Ranked, postings
<1>2. ASSUME UNCHANGED postings PROVE Open' = Open /\ OffersNow' = OffersNow /\ needs' = needs
    BY <1>2 DEF postings, Open, OffersNow
<1>3. CASE UNCHANGED vars
    <2>1. UNCHANGED <<worker, skills, postings, score, rank, lost, torn>> /\ Pending' = Pending
        BY <1>3 DEF vars, catalog, fate, Pending
    <2>2. Known' = Known
        BY <2>1 DEF Known
    <2> QED
        BY <1>1, <1>2, <2>1, <2>2, CaredKept
<1>4. CASE Service \/ \E event \in givenUp : Republish(event)
    BY <1>4, ServiceRanked
\* A run that is under way, or just begun, with the ranks still to come.
<1>5. ASSUME UNCHANGED <<postings, lost, score, rank, torn>>, Known' = Known,
             pc' \notin {"rank", "rankStudents"}, pc \notin {"rank", "rankStudents"},
             \A s \in Known : skills'[s] = skills[s] \/ Waits(s)',
             \A s \in Known : Waits(s) => Waits(s)' \/ Pends(s)',
             \A s \in Known : Pends(s) => Waits(s)' \/ Pends(s)'
      PROVE  Ranked'
    <2> SUFFICES ASSUME NEW s \in Known, Cared(s) PROVE Cared(s)'
        BY <1>1, <1>5
    <2>1. CASE Rests(s) /\ skills'[s] = skills[s]
        <3>1. Current(s)'
            BY <1>2, <1>5, <2>1, CurrentKept DEF Rests
        <3> QED
            BY <1>5, <3>1 DEF Cared, Rests
    <2> QED
        BY <1>5, <2>1 DEF Cared, Reads, Follows, IsAt
<1>6. ASSUME NEW event \in queue, Take(event) PROVE Ranked'
    <2>1. /\ queue' = queue \ {event} /\ job' = event /\ pc' = FirstStep(event) /\ pc = "idle"
          /\ event \in Event
          /\ UNCHANGED <<postings, lost, owed, givenUp, torn, score, rank, skills>>
        BY <1>6 DEF Take, fate, TypeOK
    <2>2. pc' \in {"parse", "notify", "rankJobs"} /\ (pc' = "notify" => Covers(event) = {})
        BY <2>1, EventKinds DEF FirstStep
    <2>3. Known' = Known
        BY <2>1 DEF Known
    <2>4. \A s : s \in Covers(event) => Waits(s)'
        BY <2>1, <2>2 DEF Waits, ResumeSteps, Covers
    <2>5. Pending \subseteq Pending' \cup {event}
        BY <2>1 DEF Pending
    <2>6. \A s \in Known : Pends(s) => Waits(s)' \/ Pends(s)'
        BY <2>4, <2>5 DEF Pends, Covers
    <2>7. \A s \in Known : ~Waits(s)
        BY <2>1 DEF Waits, ResumeSteps
    <2> QED
        BY <1>5, <2>1, <2>2, <2>3, <2>6, <2>7
<1>7. ASSUME Pending' = Pending, job' = job,
             UNCHANGED <<postings, lost, score, rank, torn>>, Known' = Known,
             pc' \notin {"rank", "rankStudents"}, pc \notin {"rank", "rankStudents"},
             \A s \in Known : skills'[s] = skills[s] \/ (s \in Covers(job) /\ pc \in ResumeSteps),
             pc \in ResumeSteps \cup {"rankJobs"} => pc' \in ResumeSteps \cup {"rankJobs"}
      PROVE  Ranked'
    <2>1. \A s \in Known : Waits(s) => Waits(s)'
        BY <1>7 DEF Waits, Covers
    <2>2. \A s \in Known : Pends(s) => Pends(s)'
        BY <1>7 DEF Pends, Covers
    <2> QED
        BY <1>5, <1>7, <2>1, <2>2 DEF Waits
<1>8. ASSUME UNCHANGED <<catalog, fate>>
      PROVE  /\ Pending' = Pending /\ Known' = Known /\ skills' = skills
             /\ UNCHANGED <<postings, lost, score, rank, skills, torn>>
    BY <1>8 DEF catalog, fate, Pending, Known
<1>9. CASE Parse \/ Extract \/ ReadProfile \/ SaveAnalysis \/ Analyzed
    <2>1. /\ pc \in ResumeSteps /\ pc' \in ResumeSteps \cup {"rankJobs"}
          /\ UNCHANGED <<job, catalog, fate>>
        BY <1>9 DEF Parse, Extract, ReadProfile, SaveAnalysis, Analyzed, At, SetStatus, ResumeSteps
    <2> QED
        BY <1>7, <1>8, <2>1 DEF ResumeSteps
<1>10. CASE SaveProfile
    <2>1. /\ pc = "saveProfile" /\ pc' = "analyzed"
          /\ skills' = [skills EXCEPT ![Owner] = IF @ = None THEN @ ELSE @ \cup extracted]
          /\ UNCHANGED <<job, fate, postings, score, rank, owed, queue, lost>>
        BY <1>10 DEF SaveProfile, At
    <2>2. Owner \in Student /\ Covers(job) = {Owner}
        BY <1>0, <2>1, EventKinds, WorkerAssumption DEF Shape, ResumeSteps, Owner
    <2>3. \A s \in Student : s # Owner => skills'[s] = skills[s]
        BY <2>1 DEF TypeOK, CatalogTypeOK
    <2>4. skills'[Owner] = (IF skills[Owner] = None THEN None ELSE skills[Owner] \cup extracted)
        BY <2>1, <2>2 DEF TypeOK, CatalogTypeOK
    <2>5. skills[Owner] # None => skills'[Owner] # None
        BY <2>2, <2>4, CatalogAssumption DEF TypeOK, CatalogTypeOK
    <2>6. Known' = Known
        BY <2>3, <2>4, <2>5 DEF Known
    <2>7. Pending' = Pending /\ torn' = torn
        BY <2>1 DEF Pending, fate
    <2> QED
        BY <1>7, <2>1, <2>2, <2>3, <2>6, <2>7 DEF ResumeSteps, Known
<1>11. CASE ReadJobs
    <2>1. /\ (pc = "readJobs" /\ pc' = "readProfile") \/ (pc = "rankJobs" /\ pc' = "rankStudents")
          /\ offers' = OffersNow /\ UNCHANGED <<job, fate, catalog>>
        BY <1>11 DEF ReadJobs, At, OffersNow
    <2>2. CASE pc = "readJobs"
        BY <1>7, <1>8, <2>1, <2>2 DEF ResumeSteps
    <2>3. CASE pc = "rankJobs"
        <3> SUFFICES ASSUME NEW s \in Known, Cared(s) PROVE Cared(s)'
            BY <1>1, <1>8, <2>1
        <3>1. CASE s \in Covers(job)
            <4>1. OffersNow' = OffersNow
                BY <1>2, <1>8, <2>1
            <4> QED
                BY <2>1, <2>3, <3>1, <4>1 DEF Cared, Reads, Covers
        <3>2. CASE Pends(s)
            BY <1>8, <2>1, <3>2 DEF Cared, Pends, Covers
        <3>3. CASE s \notin Covers(job) /\ Rests(s)
            <4>1. Current(s)'
                BY <1>2, <1>8, <2>1, <3>3, CurrentKept DEF Rests
            <4> QED
                BY <2>1, <2>3, <3>3, <4>1 DEF Cared, Rests, Covers
        <3> QED
            BY <2>3, <3>1, <3>2, <3>3 DEF Cared, Waits, Reads, Follows, IsAt
    <2> QED
        BY <2>1, <2>2, <2>3
<1>12. CASE ReadStudents
    <2>1. /\ pc = "rankStudents"
          /\ known' = [s \in Student |-> IF s \in Covers(job) THEN skills[s] ELSE None]
          /\ Rank(Known \cap Covers(job))
          /\ UNCHANGED <<catalog, job, fate>>
        BY <1>12 DEF ReadStudents
    <2> DEFINE students == Known \cap Covers(job)
    <2>2. students \in SUBSET Student
        BY DEF Known
    <2> HIDE DEF students
    <2>3. /\ \/ /\ pc' = "rank" /\ at' \in students /\ todo' = students \ {at'}
                /\ left' = {j \in Posting : offers[j] # None} /\ offers' = offers
             \/ /\ students = {} /\ pc' \in {"notifyRecruiter", "notify", "mark"}
        BY <2>1, <2>2, RankStarts DEF students, RankSteps
    <2>4. OffersNow' = OffersNow /\ Open' = Open /\ needs' = needs
        BY <1>2, <1>8, <2>1
    <2> SUFFICES ASSUME NEW s \in Known, Cared(s) PROVE Cared(s)'
        BY <1>1, <1>8, <2>1
    <2>5. CASE Pends(s)
        BY <1>8, <2>1, <2>5 DEF Cared, Pends, Covers
    <2>6. CASE Reads(s)
        <3>1. s \in students /\ known'[s] = skills'[s] /\ offers = OffersNow
            BY <1>8, <2>1, <2>6 DEF students, Reads, Known
        <3>2. \A j \in Open : offers[j] # None
            BY <3>1 DEF OffersNow, Open
        <3>3. Open' \subseteq left' \/ students = {}
            BY <2>3, <2>4, <3>2 DEF Open
        <3> QED
            BY <2>3, <2>4, <3>1, <3>3 DEF Cared, Follows, IsAt
    <2>7. CASE Rests(s)
        <3>1. s \notin students /\ Current(s)
            BY <2>1, <2>7 DEF Rests, students
        <3>2. Current(s)'
            BY <1>8, <2>1, <2>4, <3>1, CurrentKept
        <3> QED
            BY <2>3, <3>1, <3>2 DEF Cared, Rests
    <2> QED
        BY <2>1, <2>5, <2>6, <2>7 DEF Cared, Waits, Follows, IsAt, ResumeSteps
<1>13. ASSUME NEW j \in left, SaveScore(j) PROVE Ranked'
    <2>1. /\ pc = "rank" /\ score' = [score EXCEPT ![at][j] = MatchScore(known[at], offers[j])]
          /\ left' = left \ {j}
          /\ UNCHANGED <<postings, skills, rank, owed, queue, lost, job, pc, offers, known, at, todo, fate>>
        BY <1>13 DEF SaveScore
    <2>2. /\ at \in Student /\ j \in Posting /\ at \notin todo
          /\ known[at] \in SUBSET Skill /\ offers[j] \in Requirement
        BY <1>0, <2>1 DEF TypeOK, Shape
    <2>3. /\ \A s \in Student : s # at => score'[s] = score[s]
          /\ \A i \in Posting : i # j => score'[at][i] = score[at][i]
          /\ score'[at][j] = MatchScore(known[at], offers[j])
        <3>1. score \in [Student -> [Posting -> Score \cup {None}]]
            BY DEF TypeOK, CatalogTypeOK, Ranks
        <3> DEFINE value == MatchScore(known[at], offers[j])
        <3>2. score' = [score EXCEPT ![at][j] = value]
            BY <2>1
        <3> HIDE DEF value
        <3>3. /\ \A s \in Student : s # at => score'[s] = score[s]
              /\ \A i \in Posting : i # j => score'[at][i] = score[at][i]
              /\ score'[at][j] = value
            BY <2>2, <3>1, <3>2
        <3> QED
            BY <3>3 DEF value
    <2>4. OffersNow' = OffersNow /\ Open' = Open /\ needs' = needs /\ Known' = Known
          /\ Pending' = Pending /\ torn' = torn
        BY <1>2, <2>1 DEF Known, Pending, fate
    <2> SUFFICES ASSUME NEW s \in Known, Cared(s) PROVE Cared(s)'
        BY <1>1, <2>1, <2>4
    <2>5. s \in Student
        BY DEF Known
    <2>6. CASE Pends(s)
        BY <2>1, <2>4, <2>6 DEF Cared, Pends, Covers
    <2>7. CASE Follows(s)
        BY <2>1, <2>4, <2>7 DEF Cared, Follows
    <2>8. CASE IsAt(s)
        <3>1. ASSUME NEW i \in Open, i \notin left'
              PROVE  score'[s][i] \in {None, MatchScore(skills[s], needs[i])}
            <4>1. i \in Posting /\ offers[i] = needs[i]
                BY <2>8 DEF IsAt, OffersNow, Open
            <4>2. CASE i = j
                BY <2>3, <2>8, <4>1, <4>2 DEF IsAt
            <4>3. CASE i # j
                BY <2>1, <2>3, <2>8, <3>1, <4>1, <4>3 DEF IsAt
            <4> QED
                BY <4>2, <4>3
        <3>2. \A i \in Open' : i \in left' \/ score'[s][i] \in {None, MatchScore(skills'[s], needs'[i])}
            BY <2>1, <2>4, <3>1
        <3> QED
            BY <2>1, <2>4, <2>8, <3>2 DEF Cared, IsAt
    <2>9. CASE Rests(s)
        <3>1. s # at /\ s \notin todo
            BY <2>1, <2>9 DEF Rests
        <3>2. Current(s)'
            BY <2>1, <2>3, <2>4, <2>5, <2>9, <3>1, CurrentKept DEF Rests
        <3> QED
            BY <2>1, <3>1, <3>2 DEF Cared, Rests
    <2> QED
        BY <2>1, <2>6, <2>7, <2>8, <2>9 DEF Cared, Waits, Reads, ResumeSteps
<1>14. CASE SaveRank
    <2> DEFINE row == [j \in Posting |-> IF offers[j] = None THEN None ELSE MatchScore(known[at], offers[j])]
    <2>1. /\ pc = "rank" /\ left = {} /\ (Replace \/ Tear)
          /\ Rank(todo) /\ known' = [known EXCEPT ![at] = None]
          /\ UNCHANGED <<postings, skills, score, owed, queue, lost, job, processed, givenUp>>
        BY <1>14 DEF SaveRank
    <2>2. /\ at \in Student /\ todo \subseteq Student /\ at \notin todo
          /\ \A s \in todo : known'[s] = known[s]
        BY <1>0, <2>1 DEF TypeOK, Shape
    <2>3. \/ /\ pc' = "rank" /\ at' \in todo /\ todo' = todo \ {at'}
             /\ left' = {j \in Posting : offers[j] # None} /\ offers' = offers
          \/ /\ todo = {} /\ pc' \in {"notifyRecruiter", "notify", "mark"}
        BY <2>1, <2>2, RankStarts DEF RankSteps
    <2>4. OffersNow' = OffersNow /\ Open' = Open /\ needs' = needs /\ Known' = Known /\ Pending' = Pending
        BY <1>2, <2>1 DEF Known, Pending
    <2>5. /\ \A s \in Student : s # at => rank'[s] = rank[s] /\ (s \in torn' <=> s \in torn)
          /\ at \in torn' \/ rank'[at] = row
        <3>1. CASE Replace
            BY <2>2, <3>1 DEF Replace, TypeOK, CatalogTypeOK
        <3>2. CASE Tear
            <4>1. at \in torn' /\ torn' = torn \cup {at}
                BY <3>2 DEF Tear
            <4>2. PICK other : rank' = [rank EXCEPT ![at] = other]
                BY <3>2 DEF Tear
            <4> QED
                BY <2>2, <4>1, <4>2 DEF TypeOK, CatalogTypeOK
        <3> QED
            BY <2>1, <3>1, <3>2
    <2> SUFFICES ASSUME NEW s \in Known, Cared(s) PROVE Cared(s)'
        BY <1>1, <2>1, <2>4
    <2>6. s \in Student
        BY DEF Known
    <2>7. CASE Pends(s)
        BY <2>1, <2>4, <2>7 DEF Cared, Pends, Covers
    <2>8. CASE Follows(s)
        <3>1. offers = OffersNow /\ known[s] = skills[s] /\ s \in todo /\ pc' = "rank" /\ offers' = offers
            BY <2>3, <2>8 DEF Follows
        <3>2. \A j \in Open : offers[j] # None /\ j \in Posting
            BY <3>1 DEF OffersNow, Open
        <3>3. Open' \subseteq left'
            BY <2>3, <2>4, <3>1, <3>2
        <3>4. CASE s = at'
            BY <2>1, <2>2, <2>4, <3>1, <3>3, <3>4 DEF Cared, IsAt
        <3>5. CASE s # at'
            BY <2>1, <2>2, <2>3, <2>4, <3>1, <3>5 DEF Cared, Follows
        <3> QED
            BY <3>4, <3>5
    <2>9. CASE IsAt(s)
        <3>1. s = at /\ offers = OffersNow /\ known[s] = skills[s]
            BY <2>9 DEF IsAt
        <3>2. row = [j \in Posting |-> IF j \in Open THEN MatchScore(skills[s], needs[j]) ELSE None]
            BY <3>1 DEF OffersNow, Open
        <3>3. (\A j \in Open : score[s][j] \in {None, MatchScore(skills[s], needs[j])})'
            BY <2>1, <2>4, <2>9 DEF IsAt
        <3>4. \/ s \in torn'
              \/ rank'[s] = [j \in Posting |-> IF j \in Open' THEN MatchScore(skills'[s], needs'[j]) ELSE None]
            BY <2>1, <2>4, <2>5, <3>1, <3>2
        <3>5. Current(s)'
            BY <3>3, <3>4 DEF Current
        <3>6. s \notin {at'} \cup todo' \/ pc' # "rank"
            BY <2>2, <2>3, <3>1
        <3>7. pc' # "rankStudents"
            BY <2>3
        <3> QED
            BY <3>5, <3>6, <3>7 DEF Cared, Rests
    <2>10. CASE Rests(s)
        <3>1. s # at /\ s \notin todo
            BY <2>1, <2>10 DEF Rests
        <3>2. Current(s)'
            BY <2>1, <2>4, <2>5, <2>6, <2>10, <3>1, CurrentKept DEF Rests
        <3> QED
            BY <2>3, <3>1, <3>2 DEF Cared, Rests
    <2> QED
        BY <2>1, <2>7, <2>8, <2>9, <2>10 DEF Cared, Waits, Reads, ResumeSteps
<1>15. CASE Notify \/ NotifyRecruiter
    <2>1. /\ pc \in {"notify", "notifyRecruiter"} /\ pc' \in {"notifyRecruiter", "mark"}
          /\ UNCHANGED <<job, catalog, fate>>
        BY <1>15 DEF Notify, NotifyRecruiter, At
    <2> QED
        BY <1>7, <1>8, <2>1 DEF ResumeSteps
<1>16. CASE Mark
    <2>1. /\ pc = "mark" /\ pc' = "idle" /\ queue \subseteq queue'
          /\ UNCHANGED <<postings, skills, score, rank, owed, lost, givenUp, torn>>
        BY <1>16 DEF Mark, Forget
    <2>2. Known' = Known /\ Pending \subseteq Pending'
        BY <2>1 DEF Known, Pending
    <2>3. \A s \in Known : Pends(s) => Waits(s)' \/ Pends(s)'
        BY <2>2 DEF Pends, Covers
    <2>4. \A s \in Known : Waits(s) => Waits(s)' \/ Pends(s)'
        BY <2>1 DEF Waits, ResumeSteps
    <2>5. pc \notin {"rank", "rankStudents"} /\ pc' \notin {"rank", "rankStudents"}
        BY <2>1
    <2>6. \A s \in Known : skills'[s] = skills[s] \/ Waits(s)'
        BY <2>1
    <2>7. UNCHANGED <<postings, lost, score, rank, torn>>
        BY <2>1
    <2> QED
        BY <1>5, <2>2, <2>3, <2>4, <2>5, <2>6, <2>7
<1>17. CASE Throw \/ Die
    <2>1. /\ pc # "idle" /\ pc' = "idle" /\ Pending' = Pending \cup {job}
          /\ UNCHANGED <<postings, skills, score, rank, lost, torn>>
        BY <1>17 DEF Throw, Die, End, Forget, Pending
    <2>2. Known' = Known /\ Open' = Open /\ needs' = needs
        BY <1>2, <2>1 DEF Known
    <2> SUFFICES ASSUME NEW s \in Known, Cared(s) PROVE Cared(s)'
        BY <1>1, <2>1, <2>2
    <2>3. CASE Pends(s) \/ s \in Covers(job)
        BY <2>1, <2>3 DEF Cared, Pends, Covers
    <2>4. CASE Rests(s)
        <3>1. Current(s)'
            BY <2>1, <2>2, <2>4, CurrentKept DEF Rests
        <3> QED
            BY <2>1, <3>1 DEF Cared, Rests
    <2> QED
        BY <2>3, <2>4 DEF Cared, Waits, Reads, Follows, IsAt, Shape
<1> QED
    BY <1>3, <1>4, <1>6, <1>9, <1>10, <1>11, <1>12, <1>13, <1>14, <1>15, <1>16, <1>17
       DEF Next, Handling

\* Nothing under way leaves only the students whose ranks are current.
LEMMA SettledIsCurrent ==
    ASSUME Types, Ranked, Settled, NEW s \in Known
    PROVE  Current(s)
<1>1. Pending = {} /\ ~lost /\ pc = "idle"
    BY DEF Settled, Pending
<1> QED
    BY <1>1 DEF Ranked, Cared, Pends, Waits, Reads, Follows, IsAt, Rests, ResumeSteps

LEMMA AlwaysRanked == Spec => [](Types /\ Ranked)
<1>1. Types /\ Ranked /\ [Next]_vars => (Types /\ Ranked)'
    BY StepTypes, StepRanked
<1> QED
    BY <1>1, InitTypes, InitRanked, PTL DEF Spec

\* Whatever is changed, applied to, thrown, given up or handled twice while the ranks of a
\* student are computed, once every event is handled they are those of now, unless the last
\* pipeline of the student lost a command; the scores are, in any case.
THEOREM RanksAreCurrent == Spec => []RanksSettle
<1>1. Types /\ Ranked => RanksSettle
    BY SettledIsCurrent DEF RanksSettle
<1> QED
    BY <1>1, AlwaysRanked, PTL

\* Once every event is handled no open posting is missing from a feed, but for a student
\* whose last pipeline lost a command.
THEOREM FeedsAreComplete == Spec => []FeedSettles
<1>1. Types /\ Ranked => FeedSettles
    <2> SUFFICES ASSUME Types, Ranked, Settled, NEW s \in Known \ torn PROVE Feed(s) = Open
        BY DEF FeedSettles
    <2>1. Current(s) /\ s \notin torn /\ skills[s] \in SUBSET Skill
        BY SettledIsCurrent DEF Known, Types, TypeOK, CatalogTypeOK
    <2>2. CASE rank[s] = Unranked
        BY <2>2 DEF Feed, Unranked, Open
    <2>3. CASE rank[s] # Unranked
        <3>1. \A j \in Open : j \in Posting /\ needs[j] \in Requirement
            BY DEF Open, Types, TypeOK, CatalogTypeOK
        <3>2. \A j \in Open : rank[s][j] = MatchScore(skills[s], needs[j])
            BY <2>1, <2>3, <3>1 DEF Current
        <3>3. \A j \in Open : rank[s][j] # None
            BY <2>1, <3>1, <3>2, ScoreTypes
        <3> QED
            BY <3>3 DEF Feed
    <2> QED
        BY <2>2, <2>3
<1> QED
    BY <1>1, AlwaysRanked, PTL
=============================================================================
