-------------------------------- MODULE Apply --------------------------------
(***************************************************************************)
(* Applying to a posting (ApplicationsService.apply).  Every request is a  *)
(* process whose steps are the handler's accesses to Mongo; the steps of   *)
(* concurrent requests interleave, and a request may die between any two   *)
(* of them, for there is no transaction.                                   *)
(*                                                                         *)
(* A posting is its approved and active flags, which the catalog service   *)
(* changes.  The eligibility rules are an outcome of their check.  What    *)
(* becomes of an application once it exists is HiringDesk's subject, and   *)
(* what becomes of an emitted event Outbox's.                              *)
(***************************************************************************)
EXTENDS Integers

CONSTANTS
    Student, Posting,
    Key,      \* values of the Idempotency-Key header
    KeysOf,   \* the keys a client may send for a student and a posting
    None,     \* no key, no application
    Req,      \* requests under way at a time (bound); a slot is used again
    MayDie    \* whether a request may die half-way

\* The unique index on student and job makes this pair an application's id.
Pair == Student \X Posting

ASSUME KeysAssumption ==
    /\ None \notin Key /\ None \notin Pair
    /\ KeysOf \in [Pair -> SUBSET (Key \cup {None})]
ASSUME DieAssumption == MayDie \in BOOLEAN

VARIABLES
    posting,  \* approved and active flags of each posting
    row,      \* whether the application exists
    rowKey,   \* its idempotencyKey
    score,    \* whether the MatchScore row of the pair exists
    applied,  \* history: how often application.applied was emitted
    pc,       \* the next step of each request
    at, key,  \* the request: its student and posting, and its key
    late,     \* history: the application existed when the request arrived
    reply,    \* what the client was answered
    got       \* the application the answer carries

data     == <<posting, row, rowKey, score, applied>>
requests == <<at, key, late>>
answers  == <<reply, got>>
vars == <<data, pc, requests, answers>>

Steps   == {"done", "visible", "replay", "already", "eligible", "create", "score", "announce"}
Replies == {"none", "created", "replayed", "not found", "forbidden", "conflict", "dead"}

TypeOK ==
    /\ posting \in [Posting -> [approved : BOOLEAN, active : BOOLEAN]]
    /\ row \in [Pair -> BOOLEAN]
    /\ rowKey \in [Pair -> Key \cup {None}]
    /\ score \in [Pair -> BOOLEAN]
    /\ applied \in [Pair -> Nat]
    /\ pc \in [Req -> Steps]
    /\ at \in [Req -> Pair \cup {None}]
    /\ key \in [Req -> Key \cup {None}]
    /\ late \in [Req -> BOOLEAN]
    /\ reply \in [Req -> Replies]
    /\ got \in [Req -> Pair \cup {None}]

Init ==
    /\ posting = [j \in Posting |-> [approved |-> FALSE, active |-> TRUE]]
    /\ row = [p \in Pair |-> FALSE]
    /\ rowKey = [p \in Pair |-> None]
    /\ score = [p \in Pair |-> FALSE]
    /\ applied = [p \in Pair |-> 0]
    /\ pc = [r \in Req |-> "done"]
    /\ at = [r \in Req |-> None]
    /\ key = [r \in Req |-> None]
    /\ late = [r \in Req |-> FALSE]
    /\ reply = [r \in Req |-> "none"]
    /\ got = [r \in Req |-> None]

----------------------------------------------------------------------------
(* The steps of a request *)

\* Request r moves on; nothing is answered yet.
Advance(r, next) ==
    /\ pc' = [pc EXCEPT ![r] = next]
    /\ UNCHANGED <<requests, answers>>

\* Mutant: the answer carries the student's id for the application's.
AnswerStudent(r, a, p) ==
    /\ pc' = [pc EXCEPT ![r] = "done"]
    /\ reply' = [reply EXCEPT ![r] = a]
    /\ got' = [got EXCEPT ![r] = IF p = None THEN None ELSE p[1]]
    /\ UNCHANGED requests

\* Request r ends with answer a, carrying application p or None.
Answer(r, a, p) ==
    /\ pc' = [pc EXCEPT ![r] = "done"]
    /\ reply' = [reply EXCEPT ![r] = a]
    /\ got' = [got EXCEPT ![r] = p]
    /\ UNCHANGED requests

\* POST /v1/applications, or its retry.
Arrive(r, p, k) ==
    /\ pc[r] = "done"
    /\ pc' = [pc EXCEPT ![r] = "visible"]
    /\ at' = [at EXCEPT ![r] = p]
    /\ key' = [key EXCEPT ![r] = k]
    /\ late' = [late EXCEPT ![r] = row[p]]
    /\ reply' = [reply EXCEPT ![r] = "none"]
    /\ got' = [got EXCEPT ![r] = None]
    /\ UNCHANGED data

\* Mutant: a posting that is active is visible, approved or not.
FindActive(r) ==
    /\ pc[r] = "visible"
    /\ UNCHANGED data
    /\ LET j == posting[at[r][2]] IN
       \/ j.active /\ Advance(r, "replay")
       \/ ~j.active /\ Answer(r, "not found", None)

\* jobs.findById, then approved and active.
FindPosting(r) ==
    /\ pc[r] = "visible"
    /\ UNCHANGED data
    /\ LET j == posting[at[r][2]] IN
       \/ j.approved /\ j.active /\ Advance(r, "replay")
       \/ ~(j.approved /\ j.active) /\ Answer(r, "not found", None)

\* The rows that carry key k, whoever's they are.
WithKey(k) == {p \in Pair : row[p] /\ k # None /\ rowKey[p] = k}

\* Mutant: without a row for its key a request goes on to the eligibility.
ReplayOrCheck(r) ==
    /\ pc[r] = "replay"
    /\ UNCHANGED data
    /\ \/ \E p \in WithKey(key[r]) : Answer(r, "replayed", p)
       \/ WithKey(key[r]) = {} /\ Advance(r, "eligible")

\* apps.findOne({idempotencyKey}), if the request has a key.
FindReplay(r) ==
    /\ pc[r] = "replay"
    /\ UNCHANGED data
    /\ \/ \E p \in WithKey(key[r]) : Answer(r, "replayed", p)
       \/ WithKey(key[r]) = {} /\ Advance(r, "already")

\* Mutant: the row is looked for by its posting alone.
AlreadyForPosting(r) ==
    /\ pc[r] = "already"
    /\ UNCHANGED data
    /\ \/ \E p \in Pair : row[p] /\ p[2] = at[r][2] /\ Answer(r, "replayed", p)
       \/ ~row[at[r]] /\ Advance(r, "eligible")

\* apps.findOne of the student's own row for the posting.
FindAlready(r) ==
    /\ pc[r] = "already"
    /\ UNCHANGED data
    /\ \/ row[at[r]] /\ Answer(r, "replayed", at[r])
       \/ ~row[at[r]] /\ Advance(r, "eligible")

\* jobEligibility on the profile as it is now: either outcome.
CheckEligible(r) ==
    /\ pc[r] = "eligible"
    /\ UNCHANGED data
    /\ Advance(r, "create") \/ Answer(r, "forbidden", None)

\* Mutant: the index is on the posting alone.
DuplicatePosting(r) == \E p \in Pair : row[p] /\ p[2] = at[r][2]

\* The unique indexes: student and job, and the sparse one on the key.
Duplicate(r) == row[at[r]] \/ WithKey(key[r]) # {}

CreateRow(r) ==
    /\ pc[r] = "create"
    /\ \/ /\ ~Duplicate(r)
          /\ row' = [row EXCEPT ![at[r]] = TRUE]
          /\ rowKey' = [rowKey EXCEPT ![at[r]] = key[r]]
          /\ Advance(r, "score")
       \/ /\ Duplicate(r)
          /\ Answer(r, "conflict", None)
          /\ UNCHANGED <<row, rowKey>>
    /\ UNCHANGED <<posting, score, applied>>

\* The upsert of the MatchScore.  The worker upserts the same row when it
\* ranks; if both find none and the worker inserts first, this one fails with
\* code 11000 and the handler answers as if the application were a duplicate.
SaveScore(r) ==
    /\ pc[r] = "score"
    /\ \/ Advance(r, "announce")
       \/ ~score[at[r]] /\ Answer(r, "conflict", None)
    /\ score' = [score EXCEPT ![at[r]] = TRUE]
    /\ UNCHANGED <<posting, row, rowKey, applied>>

\* outbox.emit(application.applied), and the 201.
Announce(r) ==
    /\ pc[r] = "announce"
    /\ applied' = [applied EXCEPT ![at[r]] = @ + 1]
    /\ Answer(r, "created", at[r])
    /\ UNCHANGED <<posting, row, rowKey, score>>

\* Mutant: a request that fails takes back the row it asked for.
DieUndone(r) ==
    /\ MayDie /\ pc[r] # "done"
    /\ Answer(r, "dead", None)
    /\ row' = [row EXCEPT ![at[r]] = FALSE]
    /\ UNCHANGED <<posting, rowKey, score, applied>>

\* The service dies, or Mongo fails, while the request is under way.
Die(r) ==
    /\ MayDie /\ pc[r] # "done"
    /\ Answer(r, "dead", None)
    /\ UNCHANGED data

----------------------------------------------------------------------------
(* The rest of the system *)

\* The catalog service changes a posting's flags.
ChangePosting(j, flags) ==
    /\ posting' = [posting EXCEPT ![j] = flags]
    /\ UNCHANGED <<row, rowKey, score, applied, pc, requests, answers>>

ApproveJob(j) == ~posting[j].approved /\ ChangePosting(j, [posting[j] EXCEPT !.approved = TRUE])
CloseJob(j)   == posting[j].active /\ ChangePosting(j, [posting[j] EXCEPT !.active = FALSE])
ReopenJob(j)  == ~posting[j].active /\ ChangePosting(j, [posting[j] EXCEPT !.active = TRUE])

\* The worker ranks the student for the posting and inserts the score.
WorkerScores(p) ==
    /\ ~score[p]
    /\ score' = [score EXCEPT ![p] = TRUE]
    /\ UNCHANGED <<posting, row, rowKey, applied, pc, requests, answers>>

Step(r) ==
    \/ FindPosting(r) \/ FindReplay(r) \/ FindAlready(r) \/ CheckEligible(r)
    \/ CreateRow(r) \/ SaveScore(r) \/ Announce(r)

Next ==
    \/ \E r \in Req : \E p \in Pair : \E k \in KeysOf[p] : Arrive(r, p, k)
    \/ \E r \in Req : Step(r) \/ Die(r)
    \/ \E j \in Posting : ApproveJob(j) \/ CloseJob(j) \/ ReopenJob(j)
    \/ \E p \in Pair : WorkerScores(p)

Spec == Init /\ [][Next]_vars

----------------------------------------------------------------------------
(* Properties *)

\* A student who is told that the application was received is told so of the
\* application of that student for that posting, and it exists.  The client's
\* "Applied." (JobDetailPage.tsx:95) takes it to be so; apply keeps to it only as
\* long as no two students send one key (applications.service.ts:30).
ReplyIsOwn ==
    \A r \in Req : reply[r] \in {"created", "replayed"} => got[r] = at[r] /\ row[at[r]]

\* Whatever keys clients send, the 201 carries an application that exists, and
\* not another's unless that was filed under the very key of the request: no
\* retry, lost answer, death or concurrent request mixes applications up in any
\* other way (applications.service.ts:29-34, 68).
ReplyIsOwnOrKeyed ==
    \A r \in Req : reply[r] \in {"created", "replayed"} =>
        /\ row[got[r]]
        /\ \/ got[r] = at[r]
           \/ reply[r] = "replayed" /\ got[r] \in WithKey(key[r])

\* "Already applied" is answered only when the student has an application for
\* the posting or someone filed one under the key of the request, even if the
\* duplicate key came from the index of the scores
\* (applications.service.ts:57, 71).
ConflictMeansTaken ==
    \A r \in Req : reply[r] = "conflict" => row[at[r]] \/ WithKey(key[r]) # {}

\* A retry is a replay: a request that arrives when the application exists and
\* has the key that was filed with it, or neither has one -- after a lost
\* answer, a crash between the row and its event, or a change of the profile --
\* is never answered with 409 or 403 and never with another's application,
\* whichever requests run beside it (applications.service.ts:28-34 before 35-39).
\* Under another key the code replays too, where test/app.e2e.spec.ts:125-130
\* expects 409: of that case the property says nothing.
RetryIsReplayed ==
    \A r \in Req : late[r] /\ key[r] = rowKey[at[r]] =>
        /\ reply[r] \in {"none", "replayed", "not found", "dead"}
        /\ reply[r] = "replayed" => got[r] = at[r]

\* No application exists for a posting that was never approved, though the
\* posting is read only once, before the row is written, and the catalog
\* changes its flags in between: approval is never taken back.  That it is
\* still active is not promised (applications.service.ts:27,
\* catalog.service.ts:153, 206).
AppliedWasApproved ==
    \A p \in Pair : row[p] => posting[p[2]].approved

\* What a request asks for, in the words of the promise.
Asked(r) ==
    IF pc[r] = "done" THEN [of |-> None, key |-> None, as |-> "new"]
    ELSE [of |-> at[r], key |-> key[r],
          as |-> CASE pc[r] \in {"score", "announce"} -> "filer"
                   [] pc[r] \notin {"score", "announce"} /\ late[r] -> "late"
                   [] OTHER -> "new"]

Promise == INSTANCE Applications WITH
    approved <- {j \in Posting : posting[j].approved},
    filed    <- {p \in Pair : row[p]},
    under    <- rowKey,
    told     <- {p \in Pair : applied[p] > 0},
    asked    <- [r \in Req |-> Asked(r)],
    answer   <- [r \in Req |-> [said |-> reply[r], of |-> got[r]]]

\* Every behaviour of apply, with its lookups, unique indexes, score row and
\* crashes, is one of Applications, where an application is filed and told of
\* once by the same request, whatever keys clients send
\* (applications.service.ts:25-74).
KeepsPromise == Promise!Spec
=============================================================================
