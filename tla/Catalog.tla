------------------------------ MODULE Catalog ------------------------------
(***************************************************************************)
(* The catalog: postings, student profiles and the feed (CatalogService),  *)
(* with the Redis ranks and the scores the feed and the fit pages read.    *)
(*                                                                         *)
(* Every change is saved first and its event recorded afterwards; between  *)
(* the two the event is owed, and lost if the service dies.  What          *)
(* EventDelivery promises of a recorded event is a set here: an event      *)
(* recorded again before it was taken is handled once for both.            *)
(*                                                                         *)
(* find and save of one handler are one step: save writes the fields that  *)
(* differ from the row found, so a save that was overtaken and writes      *)
(* nothing is one that came before the other.                              *)
(***************************************************************************)
EXTENDS Match

CONSTANTS
    Student,
    Posting,
    Skill,
    Requirement,  \* the requiredSkills a posting may have
    MaxEdits,     \* what users change, upload and apply for (bound)
    None

VARIABLES
    needs,        \* requiredSkills of each posting, None before it is created
    approved, active,
    skills,       \* the profile of each student, None where there is no row
    score,        \* matchscores: the row of a student and a posting
    rank,         \* jobs:rank:<student> in Redis
    owed,         \* events saved for and not recorded yet
    queue,        \* events recorded and waiting for the worker
    lost,         \* history: a service died owing an event
    edits         \* changes so far

postings == <<needs, approved, active>>
catalog  == <<postings, skills, score, rank, owed, queue, lost, edits>>

ASSUME CatalogAssumption ==
    /\ Requirement \subseteq Seq(Skill)
    /\ MaxEdits \in Nat
    /\ \A v \in Student \cup (SUBSET Skill) \cup Requirement \cup 0..100 : v # None

Change == {"profile"} \X Student \cup {"job", "approved", "applied"} \X Posting

\* Everything of a student and a posting that the score looks at is in the skills.
MatchScore(s, j) == Weighted(SkillPart(s, j), <<70, 1>>, <<50, 1>>)

Score == {MatchScore(s, j) : s \in SUBSET Skill, j \in Requirement}
Ranks == [Posting -> Score \cup {None}]

CatalogTypeOK ==
    /\ needs \in [Posting -> Requirement \cup {None}]
    /\ approved \in [Posting -> BOOLEAN] /\ active \in [Posting -> BOOLEAN]
    /\ skills \in [Student -> (SUBSET Skill) \cup {None}]
    /\ score \in [Student -> Ranks]
    /\ rank \in [Student -> Ranks]
    /\ lost \in BOOLEAN
    /\ edits \in 0..MaxEdits

Unranked == [j \in Posting |-> None]

\* A new database, or one that seed.ts has filled, which records no event.
CatalogInit ==
    /\ needs \in [Posting -> Requirement \cup {None}]
    /\ approved \in [Posting -> BOOLEAN]
    /\ active = [j \in Posting |-> needs[j] # None]
    /\ \A j \in Posting : approved[j] => active[j]
    /\ skills \in [Student -> (SUBSET Skill) \cup {None}]
    /\ score = [s \in Student |-> Unranked]
    /\ rank = [s \in Student |-> Unranked]
    /\ owed = {} /\ queue = {}
    /\ lost = FALSE
    /\ edits = 0

Known == {s \in Student : skills[s] # None}

\* find({approved: true, status: "active"})
Open == {j \in Posting : needs[j] # None /\ approved[j] /\ active[j]}

----------------------------------------------------------------------------
(* Writers *)

Edit == edits < MaxEdits /\ edits' = edits + 1

Owe(event) == owed' = owed \cup {event} /\ UNCHANGED <<queue, lost>>

\* createJob: nobody sees it before it is approved, and no event says so.
CreateJob(j) ==
    /\ needs[j] = None
    /\ \E r \in Requirement : needs' = [needs EXCEPT ![j] = r]
    /\ active' = [active EXCEPT ![j] = TRUE]
    /\ Edit
    /\ UNCHANGED <<approved, skills, score, rank, owed, queue, lost>>

\* updateJob, of an approved posting or not.
UpdateJob(j) ==
    /\ needs[j] # None
    /\ \E r \in Requirement : needs' = [needs EXCEPT ![j] = r]
    /\ Edit
    /\ Owe(<<"job", j>>)
    /\ UNCHANGED <<approved, active, skills, score, rank>>

\* closeJob and reopenJob.
SetActive(j, open) ==
    /\ needs[j] # None
    /\ active' = [active EXCEPT ![j] = open]
    /\ Edit
    /\ Owe(<<"job", j>>)
    /\ UNCHANGED <<needs, approved, skills, score, rank>>

\* Mutant: an approval is not announced.
ApproveUnannounced(j) ==
    /\ needs[j] # None
    /\ approved' = [approved EXCEPT ![j] = TRUE]
    /\ Edit
    /\ UNCHANGED <<owed, queue, lost, needs, active, skills, score, rank>>

ApproveJob(j) ==
    /\ needs[j] # None
    /\ approved' = [approved EXCEPT ![j] = TRUE]
    /\ Edit
    /\ Owe(<<"approved", j>>)
    /\ UNCHANGED <<needs, active, skills, score, rank>>

\* upsertProfile: creates the row signup failed to create.
UpsertProfile(s) ==
    /\ \E k \in SUBSET Skill : skills' = [skills EXCEPT ![s] = k]
    /\ Edit
    /\ Owe(<<"profile", s>>)
    /\ UNCHANGED <<postings, score, rank>>

\* apply (ApplicationsService) saves the score of the profile and the posting as it
\* read them, which may be any by now.
Apply(s, j) ==
    /\ needs[j] # None
    /\ \E v \in Score : score' = [score EXCEPT ![s][j] = v]
    /\ Edit
    /\ Owe(<<"applied", j>>)
    /\ UNCHANGED <<postings, skills, rank>>

\* outbox.emit: the event is recorded.
Emit(event) ==
    /\ event \in owed
    /\ owed' = owed \ {event}
    /\ queue' = queue \cup {event}
    /\ UNCHANGED <<postings, skills, score, rank, lost, edits>>

\* The service dies before it, or the insert of the event fails.
EmitLost(event) ==
    /\ event \in owed
    /\ owed' = owed \ {event}
    /\ lost' = TRUE
    /\ UNCHANGED <<postings, skills, score, rank, queue, edits>>

\* The ranks of a student live an hour, and no longer than Redis.
ExpireRank(s) ==
    /\ rank[s] # Unranked
    /\ rank' = [rank EXCEPT ![s] = Unranked]
    /\ UNCHANGED <<postings, skills, score, owed, queue, lost, edits>>

Emitting == \E event \in owed : Emit(event) \/ EmitLost(event)

CatalogStep ==
    \/ \E j \in Posting :
         \/ CreateJob(j) \/ UpdateJob(j) \/ ApproveJob(j)
         \/ \E open \in BOOLEAN : SetActive(j, open)
         \/ \E s \in Student : Apply(s, j)
    \/ \E s \in Student : UpsertProfile(s) \/ ExpireRank(s)
    \/ Emitting

----------------------------------------------------------------------------
(* Readers *)

\* listJobs, for a student: what the ranks list and is still open, or every open posting.
Feed(s) ==
    LET ranked == {j \in Open : rank[s][j] # None}
    IN  IF ranked # {} THEN ranked ELSE Open
=============================================================================
