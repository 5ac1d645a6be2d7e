------------------------------- MODULE Worker -------------------------------
(***************************************************************************)
(* The worker (EventsProcessor) beside the services whose events it        *)
(* handles: the catalog, MatchingService.upload, and those that only       *)
(* notify.  There is one worker and it takes one event at a time, as       *)
(* docker-compose.yml and BullMQ's default have it.                        *)
(*                                                                         *)
(* One step per access to Mongo or Redis.  A handler that throws, or a     *)
(* worker that dies, has its event taken again or given up; an event may   *)
(* also be taken again after it was handled (see Outbox).                  *)
(***************************************************************************)
EXTENDS Catalog

CONSTANTS
    Upload,       \* the rows of resumeuploads that may be created
    OwnerOf,      \* whose upload each is
    MaxFaults     \* throws, deaths and second deliveries (bound)

Event == Change \cup {"resume"} \X Upload \cup {"interview"} \X Student

ASSUME WorkerAssumption ==
    /\ IsFiniteSet(Upload)
    /\ OwnerOf \in [Upload -> Student] /\ MaxFaults \in Nat
    /\ \A event \in Event : event # None
    /\ None \notin [Posting -> 0..100 \cup {None}]

VARIABLES
    status,       \* of each upload; "none" before its row exists
    version,      \* of each upload; while its row is being made, the highest it found
    making,       \* the uploads whose row is being made
    overlapped,   \* history: another upload of the student was being made meanwhile
    fit,          \* resumeanalyses: the jobFitScores of each upload
    inbox,        \* the notifications created
    job,          \* the event the worker is at
    pc,           \* its next step
    extracted,    \* the skills found in the resume
    offers,       \* the postings it read
    known,        \* the profiles it read
    at, todo,     \* the student whose ranks are computed, and those after
    left,         \* the postings whose score is not saved yet
    processed,    \* history: the events marked processed
    givenUp,      \* the events BullMQ gave up
    torn,         \* history: whose last ranks a command of the pipeline is missing from
    faults

uploads == <<status, version, making, overlapped>>
locals  == <<extracted, offers, known, at, todo, left>>
worker  == <<job, pc, locals>>
fate    == <<processed, givenUp, torn, faults>>
vars    == <<catalog, uploads, fit, inbox, worker, fate>>


Status == {"none", "uploaded", "parsing", "extracted", "analyzed", "failed"}
ResumeSteps == {"parse", "extract", "readJobs", "readProfile", "saveAnalysis",
                "saveProfile", "analyzed"}
RankSteps == {"rankJobs", "rankStudents", "rank"}
Steps == {"idle", "notify", "notifyRecruiter", "mark"} \cup ResumeSteps \cup RankSteps

Version == 0..Cardinality(Upload)
Note == Event \X {"student", "recruiter"}

TypeOK ==
    /\ CatalogTypeOK
    /\ owed \subseteq Event /\ queue \subseteq Event
    /\ status \in [Upload -> Status] /\ version \in [Upload -> Version]
    /\ making \subseteq Upload /\ overlapped \subseteq Upload
    /\ fit \in [Upload -> {None} \cup [Posting -> 0..100 \cup {None}]]
    /\ inbox \subseteq Note
    /\ job \in Event \cup {None} /\ pc \in Steps
    /\ extracted \subseteq Skill
    /\ offers \in [Posting -> Requirement \cup {None}]
    /\ known \in [Student -> (SUBSET Skill) \cup {None}]
    /\ at \in Student \cup {None} /\ todo \subseteq Student /\ left \subseteq Posting
    /\ processed \subseteq Event /\ givenUp \subseteq Event
    /\ torn \subseteq Student
    /\ faults \in 0..MaxFaults

NoOffers == [j \in Posting |-> None]
NobodyKnown == [s \in Student |-> None]

Init ==
    /\ CatalogInit
    /\ status = [u \in Upload |-> "none"]
    /\ version = [u \in Upload |-> 0]
    /\ making = {} /\ overlapped = {}
    /\ fit = [u \in Upload |-> None]
    /\ inbox = {}
    /\ job = None /\ pc = "idle"
    /\ extracted = {} /\ offers = NoOffers /\ known = NobodyKnown
    /\ at = None /\ todo = {} /\ left = {}
    /\ processed = {} /\ givenUp = {} /\ torn = {}
    /\ faults = 0

----------------------------------------------------------------------------
(* Other services *)

OfOwner(u) == {v \in Upload : OwnerOf[v] = OwnerOf[u]}
Unused(u) == status[u] = "none" /\ u \notin making
Found(u) == {0} \cup {version[v] : v \in OfOwner(u) \ making}

\* upload: the file is stored, and pre("save") reads the highest version.
BeginUpload(u) ==
    /\ Unused(u) /\ u = CHOOSE v \in OfOwner(u) : Unused(v)
    /\ \E highest \in Found(u) :
         /\ \A n \in Found(u) : n <= highest
         /\ version' = [version EXCEPT ![u] = highest]
    /\ overlapped' = overlapped \cup
                     (IF OfOwner(u) \cap making = {} THEN {} ELSE {u} \cup (OfOwner(u) \cap making))
    /\ making' = making \cup {u}
    /\ Edit
    /\ UNCHANGED <<postings, skills, score, rank, owed, queue, lost, status, fit, inbox, worker, fate>>

\* Mutant: the hook runs for create and again for save.
InsertTwice(u) ==
    /\ u \in making
    /\ making' = making \ {u}
    /\ status' = [status EXCEPT ![u] = "uploaded"]
    /\ version' = [version EXCEPT ![u] = @ + 2]
    /\ Owe(<<"resume", u>>)
    /\ UNCHANGED <<postings, skills, score, rank, edits, overlapped, fit, inbox, worker, fate>>

\* Mutant: the version is the number of the last upload.
InsertUncounted(u) ==
    /\ u \in making
    /\ making' = making \ {u}
    /\ status' = [status EXCEPT ![u] = "uploaded"]
    /\ UNCHANGED <<version, overlapped>>
    /\ Owe(<<"resume", u>>)
    /\ UNCHANGED <<postings, skills, score, rank, edits, fit, inbox, worker, fate>>

\* upload: the row, one above what was found.
InsertUpload(u) ==
    /\ u \in making
    /\ making' = making \ {u}
    /\ status' = [status EXCEPT ![u] = "uploaded"]
    /\ version' = [version EXCEPT ![u] = @ + 1]
    /\ Owe(<<"resume", u>>)
    /\ UNCHANGED <<postings, skills, score, rank, edits, overlapped, fit, inbox, worker, fate>>

\* schedule, reschedule and cancel (InterviewsService) owe an event.
Invite(s) ==
    /\ <<"interview", s>> \notin processed \cup queue \cup owed \cup givenUp
    /\ job # <<"interview", s>>
    /\ Edit
    /\ Owe(<<"interview", s>>)
    /\ UNCHANGED <<postings, skills, score, rank, uploads, fit, inbox, worker, fate>>

\* The service dies before the row: the file stays behind.
AbandonUpload(u) ==
    /\ u \in making
    /\ making' = making \ {u}
    /\ version' = [version EXCEPT ![u] = 0]
    /\ UNCHANGED <<catalog, status, overlapped, fit, inbox, worker, fate>>

Service ==
    \/ CatalogStep /\ UNCHANGED <<uploads, fit, inbox, worker, fate>>
    \/ \E u \in Upload : BeginUpload(u) \/ InsertUpload(u) \/ AbandonUpload(u)
    \/ \E s \in Student : Invite(s)

----------------------------------------------------------------------------
(* EventsProcessor.process *)

IsOf(type) == job[1] = type

\* Mutant: an analysis does not compute ranks.
CoversNoResume(event) ==
    CASE event[1] = "profile" -> {event[2]}
      [] event[1] \in {"resume", "interview"} -> {}
      [] OTHER -> Student

\* The students whose ranks an event has computed.
Covers(event) ==
    CASE event[1] = "profile"   -> {event[2]}
      [] event[1] = "resume"    -> {OwnerOf[event[2]]}
      [] event[1] = "interview" -> {}
      [] OTHER                  -> Student

FirstStep(event) ==
    CASE event[1] = "resume"    -> "parse"
      [] event[1] = "interview" -> "notify"
      [] OTHER                  -> "rankJobs"

Take(event) ==
    /\ pc = "idle" /\ event \in queue
    /\ queue' = queue \ {event}
    /\ job' = event
    /\ pc' = FirstStep(event)
    /\ UNCHANGED <<postings, skills, score, rank, owed, lost, edits,
                   uploads, fit, inbox, locals, fate>>

At(step, next) == pc = step /\ pc' = next /\ UNCHANGED <<job, fate>>

SetStatus(value) ==
    /\ status' = [status EXCEPT ![job[2]] = value]
    /\ UNCHANGED <<catalog, version, making, overlapped, fit, inbox>>

Parse ==
    /\ At("parse", "extract") /\ SetStatus("parsing")
    /\ UNCHANGED locals

\* What the language model says of the text, or the bank of skills.
Extract ==
    /\ At("extract", "readJobs") /\ SetStatus("extracted")
    /\ extracted' \in SUBSET Skill
    /\ UNCHANGED <<offers, known, at, todo, left>>

\* handleResume and recomputeRanks both begin with the open postings.
ReadJobs ==
    /\ At("readJobs", "readProfile") \/ At("rankJobs", "rankStudents")
    /\ offers' = [j \in Posting |-> IF j \in Open THEN needs[j] ELSE None]
    /\ UNCHANGED <<catalog, uploads, fit, inbox, extracted, known, at, todo, left>>

Owner == OwnerOf[job[2]]

ReadProfile ==
    /\ At("readProfile", "saveAnalysis")
    /\ known' = [known EXCEPT ![Owner] = skills[Owner]]
    /\ UNCHANGED <<catalog, uploads, fit, inbox, extracted, offers, at, todo, left>>

EnhancedScore(s, j) == WeightedEnhanced(SkillPart(s, j), <<70, 1>>, <<50, 1>>, <<40, 1>>, <<30, 1>>)

SaveAnalysis ==
    /\ At("saveAnalysis", "saveProfile")
    /\ LET have == extracted \cup (IF known[Owner] = None THEN {} ELSE known[Owner])
       IN  fit' = [fit EXCEPT ![job[2]] =
                     [j \in Posting |-> IF offers[j] = None THEN None
                                        ELSE EnhancedScore(have, offers[j])]]
    /\ offers' = NoOffers
    /\ UNCHANGED <<catalog, uploads, inbox, extracted, known, at, todo, left>>

\* Mutant: the skills found and those read are written over the profile's.
SaveProfileRead ==
    /\ At("saveProfile", "analyzed")
    /\ skills' = [skills EXCEPT ![Owner] =
                    IF @ = None \/ known[Owner] = None THEN @ ELSE known[Owner] \cup extracted]
    /\ extracted' = {} /\ known' = NobodyKnown
    /\ UNCHANGED <<postings, score, rank, owed, queue, lost, edits,
                   uploads, fit, inbox, offers, at, todo, left>>

\* $addToSet, and nothing without a row.
SaveProfile ==
    /\ At("saveProfile", "analyzed")
    /\ skills' = [skills EXCEPT ![Owner] = IF @ = None THEN @ ELSE @ \cup extracted]
    /\ extracted' = {} /\ known' = NobodyKnown
    /\ UNCHANGED <<postings, score, rank, owed, queue, lost, edits,
                   uploads, fit, inbox, offers, at, todo, left>>

Analyzed ==
    /\ At("analyzed", "rankJobs") /\ SetStatus("analyzed")
    /\ UNCHANGED locals

\* recomputeRanks goes on to one of the students, in whatever order Mongo has them.
Rank(students) ==
    IF students # {}
    THEN LET s == CHOOSE s \in students : TRUE IN
         /\ pc' = "rank"
         /\ at' = s /\ todo' = students \ {s}
         /\ left' = {j \in Posting : offers[j] # None}
         /\ UNCHANGED offers
    ELSE /\ pc' = IF IsOf("approved") \/ IsOf("applied") THEN "notifyRecruiter"
                  ELSE IF IsOf("resume") THEN "notify" ELSE "mark"
         /\ at' = None /\ todo' = {} /\ left' = {} /\ offers' = NoOffers

ReadStudents ==
    /\ pc = "rankStudents"
    /\ known' = [s \in Student |-> IF s \in Covers(job) THEN skills[s] ELSE None]
    /\ Rank(Known \cap Covers(job))
    /\ UNCHANGED <<catalog, uploads, fit, inbox, extracted, job, fate>>

SaveScore(j) ==
    /\ pc = "rank" /\ j \in left
    /\ score' = [score EXCEPT ![at][j] = MatchScore(known[at], offers[j])]
    /\ left' = left \ {j}
    /\ UNCHANGED <<postings, skills, rank, owed, queue, lost, edits,
                   uploads, fit, inbox, job, pc, extracted, offers, known, at, todo, fate>>

Fault == faults < MaxFaults /\ faults' = faults + 1

\* The pipeline: del, zadd of each posting, expire.
Replace ==
    /\ rank' = [rank EXCEPT ![at] =
                  [j \in Posting |-> IF offers[j] = None THEN None
                                     ELSE MatchScore(known[at], offers[j])]]
    /\ torn' = torn \ {at}
    /\ UNCHANGED faults

\* A command of the pipeline fails and the others do not: exec answers with the
\* error, which nobody reads.
Tear ==
    /\ \E kept \in {rank[at], Unranked}, added \in SUBSET {j \in Posting : offers[j] # None} :
         rank' = [rank EXCEPT ![at] =
                    [j \in Posting |-> IF j \in added THEN MatchScore(known[at], offers[j])
                                       ELSE kept[j]]]
    /\ torn' = torn \cup {at}
    /\ Fault

SaveRank ==
    /\ pc = "rank" /\ left = {}
    /\ Replace \/ Tear
    /\ Rank(todo)
    /\ known' = [known EXCEPT ![at] = None]
    /\ UNCHANGED <<postings, skills, score, owed, queue, lost, edits,
                   uploads, fit, inbox, extracted, job, processed, givenUp>>

Tell(role) == inbox' = inbox \cup {<<job, role>>}

\* Mutant: the first notification ends the handler.
NotifyOnce ==
    /\ At("notify", "mark")
    /\ Tell("student")
    /\ UNCHANGED <<catalog, uploads, fit, locals>>

\* NotificationsService.notify of the student; the recruiter of an interview is next.
Notify ==
    /\ At("notify", IF IsOf("interview") THEN "notifyRecruiter" ELSE "mark")
    /\ Tell("student")
    /\ UNCHANGED <<catalog, uploads, fit, locals>>

\* A mail that cannot be sent afterwards changes nothing.
NotifyRecruiter ==
    /\ At("notifyRecruiter", "mark")
    /\ Tell("recruiter")
    /\ UNCHANGED <<catalog, uploads, fit, locals>>

Forget ==
    /\ job' = None /\ pc' = "idle"
    /\ extracted' = {} /\ offers' = NoOffers /\ known' = NobodyKnown
    /\ at' = None /\ todo' = {} /\ left' = {}

\* markProcessed; BullMQ may still hand the event out a second time.
Mark ==
    /\ pc = "mark"
    /\ processed' = processed \cup {job}
    /\ Forget
    /\ \/ UNCHANGED <<queue, faults>>
       \/ queue' = queue \cup {job} /\ Fault
    /\ UNCHANGED <<postings, skills, score, rank, owed, lost, edits,
                   uploads, fit, inbox, givenUp, torn>>

\* Mutant: process logs the error and returns.
EndSwallowed ==
    /\ Fault
    /\ processed' = processed \cup {job}
    /\ Forget
    /\ UNCHANGED <<queue, givenUp>>
    /\ UNCHANGED <<postings, skills, score, rank, owed, lost, edits,
                   version, making, overlapped, fit, inbox, torn>>

\* The run of the event fails: it is taken again, or given up.
End ==
    /\ Fault
    /\ Forget
    /\ \/ queue' = queue \cup {job} /\ UNCHANGED givenUp
       \/ givenUp' = givenUp \cup {job} /\ UNCHANGED queue
    /\ UNCHANGED <<postings, skills, score, rank, owed, lost, edits,
                   version, making, overlapped, fit, inbox, processed, torn>>

InTry == IsOf("resume") /\ pc \notin {"parse", "mark"}

\* A call throws; the catch of handleResume records it, if it can.
Throw ==
    /\ pc # "idle"
    /\ IF InTry THEN status' = [status EXCEPT ![job[2]] = "failed"] ELSE UNCHANGED status
    /\ End

\* The worker dies, or cannot record the failure.
Die ==
    /\ pc # "idle"
    /\ UNCHANGED status
    /\ End

\* The sweeper finds the row of an event that was given up.
Republish(event) ==
    /\ event \in givenUp
    /\ givenUp' = givenUp \ {event}
    /\ queue' = queue \cup {event}
    /\ UNCHANGED <<postings, skills, score, rank, owed, lost, edits,
                   uploads, fit, inbox, worker, processed, torn, faults>>

Handling ==
    \/ \E event \in queue : Take(event)
    \/ Parse \/ Extract \/ ReadJobs \/ ReadProfile \/ SaveAnalysis \/ SaveProfile \/ Analyzed
    \/ ReadStudents \/ (\E j \in left : SaveScore(j)) \/ SaveRank
    \/ Notify \/ NotifyRecruiter \/ Mark

Next ==
    \/ Service
    \/ Handling \/ Throw \/ Die
    \/ \E event \in givenUp : Republish(event)

Spec == Init /\ [][Next]_vars

\* A request under way goes on, or dies, and so does the worker.
Fairness ==
    /\ WF_vars(Handling)
    /\ WF_vars(Emitting /\ UNCHANGED <<uploads, fit, inbox, worker, fate>>)

FairSpec == Spec /\ Fairness

----------------------------------------------------------------------------

\* Nothing is under way between a change and the worker, and nothing was lost on the way.
Settled == owed = {} /\ queue = {} /\ pc = "idle" /\ ~lost /\ givenUp = {}

\* The scores of a student are those of the profile and the open postings of now, and so
\* are the ranks (or there are none, as before the first event and an hour after the last),
\* unless the last pipeline lost a command.
Current(s) ==
    /\ \/ s \in torn
       \/ rank[s] = Unranked
       \/ rank[s] = [j \in Posting |-> IF j \in Open THEN MatchScore(skills[s], needs[j]) ELSE None]
    /\ \A j \in Open : score[s][j] \in {None, MatchScore(skills[s], needs[j])}

\* recomputeRanks works on what it read before: whatever was changed, applied to, thrown or
\* handled twice meanwhile, once every event is handled the ranks and scores are current,
\* unless a command of the student's last pipeline failed.
RanksSettle == Settled => \A s \in Known : Current(s)

\* listJobs answers from the ranks alone when there are any: once every event is handled,
\* no open posting is missing from the feed of a student, unless a command of the student's
\* last pipeline failed.
FeedSettles == Settled => \A s \in Known \ torn : Feed(s) = Open

\* An analysis ends, one way or the other, in spite of retries and deaths of the worker:
\* once every event is handled, each upload was analysed, has its fit, and its student
\* was told.
AnalysisSettles ==
    Settled => \A u \in Upload : status[u] # "none" =>
        /\ status[u] = "analyzed"
        /\ fit[u] # None
        /\ <<<<"resume", u>>, "student">> \in inbox

\* The receipt of an event says that everyone concerned was told (process marks it after
\* the handler), also of those with two notifications.
ToldBeforeProcessed ==
    \A event \in processed :
        /\ event[1] \in {"resume", "interview"} => <<event, "student">> \in inbox
        /\ event[1] \in {"approved", "applied", "interview"} => <<event, "recruiter">> \in inbox

\* upload numbers the versions of a student by reading the highest and inserting later: two
\* uploads have the same number only if one began before the other was inserted.
VersionsDistinct ==
    \A u, v \in Upload :
        /\ u # v /\ OwnerOf[u] = OwnerOf[v]
        /\ status[u] # "none" /\ status[v] # "none"
        /\ version[u] = version[v]
        => u \in overlapped /\ v \in overlapped

\* handleResume adds to a profile it read long before: no analysis takes away a skill the
\* student has saved meanwhile; only the student's own update does.
EditsSurvive ==
    [][\A s \in Student : skills'[s] # skills[s] =>
         UpsertProfile(s) \/ skills[s] \subseteq skills'[s]]_vars

\* The page waits for an upload that was recorded: its analysis ends or the event
\* was given up.
AnalysisEnds ==
    \A u \in Upload :
        status[u] = "uploaded" ~> \/ status[u] \in {"analyzed", "failed"}
                                  \/ lost \/ <<"resume", u>> \in givenUp
=============================================================================
