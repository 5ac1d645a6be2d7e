----------------------------- MODULE Interviews -----------------------------
(***************************************************************************)
(* Booking interviews (InterviewsService): schedule under a Redis lock,    *)
(* reschedule, cancel and complete.  Every request is a process whose      *)
(* steps are the handler's accesses to Mongo and Redis; requests           *)
(* interleave, and one may die between any two steps.                      *)
(*                                                                         *)
(* Of an application only what booking reads and writes is here: its       *)
(* student and its status.  All instants are in the future; who calls is   *)
(* an outcome of the ownership check.  Of the events only the last one of  *)
(* each interview is kept; what becomes of them is Outbox's subject.       *)
(***************************************************************************)
EXTENDS Integers

CONSTANTS
    Application,   \* the applications; an interview is named by its own
    Student,
    StudentOf,     \* the student of each application
    Start,         \* the instants interviews are booked for (bound), in minutes
    Length,        \* their durations (bound), in minutes
    None,
    Req,           \* requests under way at a time (bound); a slot is used again
    Status,        \* the statuses of an application
    SlowRequests,  \* whether a request may outlive the 15 s of its lock
    MayDie         \* whether a request may fail or die half-way

Buffer == 30

ASSUME NumbersAssumption == Start \subseteq Nat /\ Length \subseteq Nat
ASSUME ApplicationsAssumption == StudentOf \in [Application -> Student]
ASSUME StatusAssumption ==
    {"pending", "shortlisted", "interview"} \subseteq Status /\ None \notin Status
ASSUME NoneAssumption ==
    None \notin Req /\ None \notin Application /\ None \notin Start /\ None \notin Length
ASSUME SwitchesAssumption == SlowRequests \in BOOLEAN /\ MayDie \in BOOLEAN

\* Mutant: the duration of the existing interview is left out.
OverlapOfStart(existing, existingLen, next, nextLen) ==
    /\ existing - Buffer <= next + nextLen
    /\ next <= existing + Buffer

\* interviewWindowsOverlap: the existing window is widened by the buffer, and
\* both ends count.
Overlap(existing, existingLen, next, nextLen) ==
    /\ existing - Buffer <= next + nextLen
    /\ next <= existing + existingLen + Buffer

VARIABLES
    state,      \* status of each application's interview; "none" if it has none
    start, len, \* its instant and duration
    moved,      \* history: it has been rescheduled
    appStatus,  \* status of each application
    lock,       \* the request that holds lock:interview:<student>:<instant>
    told,       \* the last event emitted for each interview
    pc,         \* the next step of each request
    at, when, long, \* the request: its application, instant and duration
    seen,       \* the row the handler loaded: an application's or an interview's
    reply       \* what the client was answered

calendar == <<state, start, len, moved>>
request  == <<at, when, long>>
vars == <<calendar, appStatus, lock, told, pc, request, seen, reply>>

Locks == Student \X Start

ScheduleSteps   == {"find", "lock", "check", "create", "saveApp", "emitScheduled", "unlock"}
RescheduleSteps == {"findScheduled", "recheck", "saveTime", "emitRescheduled"}
CancelSteps     == {"findAny", "saveCancelled", "resetApp", "emitCancelled"}
CompleteSteps   == {"findDone", "saveCompleted"}
Steps == {"done"} \cup ScheduleSteps \cup RescheduleSteps \cup CancelSteps \cup CompleteSteps

Replies == {"none", "booked", "ok", "refused", "unavailable", "error"}
InterviewStatus == {"scheduled", "completed", "cancelled"}

\* A row as loaded; an application has no instant and no duration.
Row(status, t, d) == [status |-> status, start |-> t, len |-> d]
Nothing == Row("none", None, None)
Loaded == [status : Status \cup InterviewStatus \cup {"none"},
           start : Start \cup {None}, len : Length \cup {None}]

TypeOK ==
    /\ state \in [Application -> InterviewStatus \cup {"none"}]
    /\ start \in [Application -> Start \cup {None}]
    /\ len \in [Application -> Length \cup {None}]
    /\ moved \in [Application -> BOOLEAN]
    /\ appStatus \in [Application -> Status]
    /\ lock \in [Locks -> Req \cup {None}]
    /\ told \in [Application -> {"none", "scheduled", "rescheduled", "cancelled"}]
    /\ pc \in [Req -> Steps]
    /\ at \in [Req -> Application \cup {None}]
    /\ when \in [Req -> Start \cup {None}]
    /\ long \in [Req -> Length \cup {None}]
    /\ seen \in [Req -> Loaded]
    /\ reply \in [Req -> Replies]

Init ==
    /\ state = [a \in Application |-> "none"]
    /\ start = [a \in Application |-> None]
    /\ len = [a \in Application |-> None]
    /\ moved = [a \in Application |-> FALSE]
    /\ appStatus = [a \in Application |-> "pending"]
    /\ lock = [k \in Locks |-> None]
    /\ told = [a \in Application |-> "none"]
    /\ pc = [r \in Req |-> "done"]
    /\ at = [r \in Req |-> None]
    /\ when = [r \in Req |-> None]
    /\ long = [r \in Req |-> None]
    /\ seen = [r \in Req |-> Nothing]
    /\ reply = [r \in Req |-> "none"]

----------------------------------------------------------------------------
(* The steps of a request *)

Goto(r, next) == pc' = [pc EXCEPT ![r] = next]
Say(r, answer) == reply' = [reply EXCEPT ![r] = answer]

\* Request r moves on; nothing is answered yet.
Advance(r, next) == Goto(r, next) /\ UNCHANGED <<request, seen, reply>>

\* Request r keeps what it loaded and moves on.
Load(r, row, next) ==
    /\ Goto(r, next)
    /\ seen' = [seen EXCEPT ![r] = row]
    /\ UNCHANGED <<request, reply>>

\* Request r ends, and what it had in memory is gone.
Forget(r) ==
    /\ Goto(r, "done")
    /\ at' = [at EXCEPT ![r] = None]
    /\ when' = [when EXCEPT ![r] = None]
    /\ long' = [long EXCEPT ![r] = None]
    /\ seen' = [seen EXCEPT ![r] = Nothing]

Answer(r, answer) == Forget(r) /\ Say(r, answer)

Reads == UNCHANGED <<calendar, appStatus, lock, told>>

\* A request arrives, for application a, an instant and a duration.
Arrive(r, first, a, t, d) ==
    /\ pc[r] = "done" /\ Goto(r, first)
    /\ at' = [at EXCEPT ![r] = a]
    /\ when' = [when EXCEPT ![r] = t]
    /\ long' = [long EXCEPT ![r] = d]
    /\ Say(r, "none")
    /\ UNCHANGED seen
    /\ Reads

\* hasConflict: another scheduled interview of the student overlaps.  A
\* candidate of schedule may be of the application itself.
HasConflict(r, candidates) ==
    \E a \in candidates :
        /\ state[a] = "scheduled" /\ StudentOf[a] = StudentOf[at[r]]
        /\ Overlap(start[a], len[a], when[r], long[r])

Emit(r, kind) == told' = [told EXCEPT ![at[r]] = kind]

----------------------------------------------------------------------------
(* schedule *)

StartSchedule(r) ==
    \E a \in Application, t \in Start, d \in Length : Arrive(r, "find", a, t, d)

\* The application is loaded and its posting is the caller's, or 403.
FindApplication(r) ==
    /\ pc[r] = "find" /\ Reads
    /\ Load(r, Row(appStatus[at[r]], None, None), "lock") \/ Answer(r, "refused")

LockOf(r) == <<StudentOf[at[r]], when[r]>>

\* Inside the try, every outcome goes through the finally.
Leave(r, answer) ==
    /\ Goto(r, "unlock") /\ Say(r, answer) /\ UNCHANGED <<request, seen>>

\* Mutant: the lock is taken inside the try, so a loser deletes it too.
TakeLockInTry(r) ==
    /\ pc[r] = "lock"
    /\ \/ /\ lock[LockOf(r)] = None
          /\ lock' = [lock EXCEPT ![LockOf(r)] = r]
          /\ Advance(r, "check")
       \/ /\ lock[LockOf(r)] # None
          /\ Leave(r, "refused") /\ UNCHANGED lock
       \/ Answer(r, "unavailable") /\ UNCHANGED lock
    /\ UNCHANGED <<calendar, appStatus, told>>

\* Mutant: SET without NX.
TakeLockAnyway(r) ==
    /\ pc[r] = "lock"
    /\ \/ /\ lock' = [lock EXCEPT ![LockOf(r)] = r]
          /\ Advance(r, "check")
       \/ Answer(r, "unavailable") /\ UNCHANGED lock
    /\ UNCHANGED <<calendar, appStatus, told>>

\* SET lockKey "1" EX 15 NX, outside the try with the finally.  The client
\* sends a command again when its connection broke before the answer: the
\* second SET may find the lock of the first.
TakeLock(r) ==
    /\ pc[r] = "lock"
    /\ \/ /\ lock[LockOf(r)] = None
          /\ lock' = [lock EXCEPT ![LockOf(r)] = r]
          /\ Advance(r, "check") \/ (MayDie /\ Answer(r, "refused"))
       \/ /\ lock[LockOf(r)] # None
          /\ Answer(r, "refused") /\ UNCHANGED lock
       \/ Answer(r, "unavailable") /\ UNCHANGED lock
    /\ UNCHANGED <<calendar, appStatus, told>>

\* Mutant: the application is saved before the interview is created.
CheckThenSave(r) ==
    /\ pc[r] = "check" /\ Reads
    /\ \/ HasConflict(r, Application) /\ Leave(r, "refused")
       \/ ~HasConflict(r, Application) /\ Advance(r, "saveApp")

CheckConflict(r) ==
    /\ pc[r] = "check" /\ Reads
    /\ \/ HasConflict(r, Application) /\ Leave(r, "refused")
       \/ ~HasConflict(r, Application) /\ Advance(r, "create")

\* interviews.create, under the unique index on applicationId.
CreateInterview(r) ==
    /\ pc[r] = "create"
    /\ \/ /\ state[at[r]] = "none"
          /\ state' = [state EXCEPT ![at[r]] = "scheduled"]
          /\ start' = [start EXCEPT ![at[r]] = when[r]]
          /\ len' = [len EXCEPT ![at[r]] = long[r]]
          /\ Advance(r, "saveApp")
       \/ /\ state[at[r]] # "none"
          /\ Leave(r, "refused") /\ UNCHANGED <<state, start, len>>
    /\ UNCHANGED <<moved, appStatus, lock, told>>

\* Mutant: the application is given the interview's status.
SaveScheduled(r) ==
    /\ pc[r] = "saveApp"
    /\ appStatus' = [appStatus EXCEPT ![at[r]] = "scheduled"]
    /\ Advance(r, "emitScheduled")
    /\ UNCHANGED <<calendar, lock, told>>

\* app.save() writes the status only if it differs from the one loaded.
SaveApplication(r) ==
    /\ pc[r] = "saveApp"
    /\ appStatus' = IF seen[r].status = "interview" THEN appStatus
                    ELSE [appStatus EXCEPT ![at[r]] = "interview"]
    /\ Advance(r, "emitScheduled")
    /\ UNCHANGED <<calendar, lock, told>>

EmitScheduled(r) ==
    /\ pc[r] = "emitScheduled"
    /\ Emit(r, "scheduled")
    /\ Leave(r, "booked")
    /\ UNCHANGED <<calendar, appStatus, lock>>

\* The finally: DEL lockKey, whoever holds it by now; a failure is ignored.
Unlock(r) ==
    /\ pc[r] = "unlock"
    /\ lock' \in {lock, [lock EXCEPT ![LockOf(r)] = None]}
    /\ Forget(r)
    /\ UNCHANGED <<calendar, appStatus, told, reply>>

\* An access inside the try throws: the finally runs, the client gets a 500.
Throw(r) ==
    /\ MayDie
    /\ pc[r] \in {"check", "create", "saveApp", "emitScheduled"} /\ Reads
    /\ Leave(r, "error")

InSection(r) == pc[r] \in {"check", "create", "saveApp", "emitScheduled", "unlock"}

\* The 15 s of a lock are over.
LockExpires(k) ==
    /\ lock[k] # None
    /\ SlowRequests \/ ~(InSection(lock[k]) /\ LockOf(lock[k]) = k)
    /\ lock' = [lock EXCEPT ![k] = None]
    /\ UNCHANGED <<calendar, appStatus, told, pc, request, seen, reply>>

----------------------------------------------------------------------------
(* reschedule, cancel and complete: requireOwner, then no lock is taken *)

\* requireOwner: the interview is loaded, or 404, or 403.
FindInterview(r, here, next) ==
    /\ pc[r] = here /\ Reads
    /\ \/ Answer(r, "refused")
       \/ /\ state[at[r]] # "none"
          /\ Load(r, Row(state[at[r]], start[at[r]], len[at[r]]), next)

StartReschedule(r) ==
    \E a \in Application, t \in Start, d \in Length : Arrive(r, "findScheduled", a, t, d)

FindScheduled(r) == FindInterview(r, "findScheduled", "recheck")

\* The status as loaded must be scheduled, and no other interview in the way.
RecheckConflict(r) ==
    /\ pc[r] = "recheck" /\ Reads
    /\ \/ seen[r].status # "scheduled" /\ Answer(r, "refused")
       \/ /\ seen[r].status = "scheduled" /\ HasConflict(r, Application \ {at[r]})
          /\ Answer(r, "refused")
       \/ /\ seen[r].status = "scheduled" /\ ~HasConflict(r, Application \ {at[r]})
          /\ Advance(r, "saveTime")

\* Mutant: no event is emitted.
SaveTimeSilently(r) ==
    /\ pc[r] = "saveTime"
    /\ start' = [start EXCEPT ![at[r]] = when[r]]
    /\ len' = [len EXCEPT ![at[r]] = long[r]]
    /\ moved' = [moved EXCEPT ![at[r]] = TRUE]
    /\ Answer(r, "ok")
    /\ UNCHANGED <<state, appStatus, lock, told>>

\* interview.save() writes what differs from the loaded row.
SaveTime(r) ==
    /\ pc[r] = "saveTime"
    /\ start' = IF when[r] = seen[r].start THEN start ELSE [start EXCEPT ![at[r]] = when[r]]
    /\ len' = IF long[r] = seen[r].len THEN len ELSE [len EXCEPT ![at[r]] = long[r]]
    /\ moved' = [moved EXCEPT ![at[r]] = @ \/ when[r] # seen[r].start \/ long[r] # seen[r].len]
    /\ Advance(r, "emitRescheduled")
    /\ UNCHANGED <<state, appStatus, lock, told>>

EmitRescheduled(r) ==
    /\ pc[r] = "emitRescheduled"
    /\ Emit(r, "rescheduled")
    /\ Answer(r, "ok")
    /\ UNCHANGED <<calendar, appStatus, lock>>

StartCancel(r) == \E a \in Application : Arrive(r, "findAny", a, None, None)

FindAny(r) == FindInterview(r, "findAny", "saveCancelled")

\* The status written by save(), whatever it has become since it was loaded.
SaveState(r, here, new, next) ==
    /\ pc[r] = here
    /\ state' = IF seen[r].status = new THEN state ELSE [state EXCEPT ![at[r]] = new]
    /\ next
    /\ UNCHANGED <<start, len, moved, appStatus, lock, told>>

SaveCancelled(r) == SaveState(r, "saveCancelled", "cancelled", Advance(r, "resetApp"))

\* apps.updateOne: the application goes back to shortlisted, unconditionally.
ResetApplication(r) ==
    /\ pc[r] = "resetApp"
    /\ appStatus' = [appStatus EXCEPT ![at[r]] = "shortlisted"]
    /\ Advance(r, "emitCancelled")
    /\ UNCHANGED <<calendar, lock, told>>

EmitCancelled(r) ==
    /\ pc[r] = "emitCancelled"
    /\ Emit(r, "cancelled")
    /\ Answer(r, "ok")
    /\ UNCHANGED <<calendar, appStatus, lock>>

StartComplete(r) == \E a \in Application : Arrive(r, "findDone", a, None, None)

FindDone(r) == FindInterview(r, "findDone", "saveCompleted")

SaveCompleted(r) == SaveState(r, "saveCompleted", "completed", Answer(r, "ok"))

----------------------------------------------------------------------------

\* The service dies, or Mongo fails outside a try, while a request is under
\* way: a lock it holds stays until it expires.
Die(r) ==
    /\ MayDie
    /\ pc[r] # "done"
    /\ Answer(r, "none")
    /\ Reads

Schedule(r)   == FindApplication(r) \/ TakeLock(r) \/ CheckConflict(r) \/ CreateInterview(r)
                 \/ SaveApplication(r) \/ EmitScheduled(r) \/ Unlock(r)
Reschedule(r) == FindScheduled(r) \/ RecheckConflict(r) \/ SaveTime(r) \/ EmitRescheduled(r)
Cancel(r)     == FindAny(r) \/ SaveCancelled(r) \/ ResetApplication(r) \/ EmitCancelled(r)
Complete(r)   == FindDone(r) \/ SaveCompleted(r)

Arrivals(r) == StartSchedule(r) \/ StartReschedule(r) \/ StartCancel(r) \/ StartComplete(r)
Step(r)     == Schedule(r) \/ Reschedule(r) \/ Cancel(r) \/ Complete(r)

Next ==
    \/ \E r \in Req : Arrivals(r) \/ Step(r) \/ Throw(r) \/ Die(r)
    \/ \E k \in Locks : LockExpires(k)

Spec == Init /\ [][Next]_vars

----------------------------------------------------------------------------
(* Properties *)

\* While no request outlives its lock, the handler between taking and deleting
\* a lock is alone: two requests never scan and book the same instant of the
\* same student at once, and no finally deletes another request's lock
\* (interviews.service.ts:47-56, 88-90).
OneBookerPerSlot ==
    \A q, r \in Req : InSection(q) /\ InSection(r) /\ LockOf(q) = LockOf(r) => q = r

\* "So two clicks cannot race" (docs/architecture-report.html:806): while no
\* request outlives its lock, a student never has two scheduled interviews at
\* the same instant that were booked by schedule, whichever requests died,
\* failed or ran beside it (interviews.service.ts:47-57).
SameSlotOnce ==
    \A a, b \in Application :
        /\ a # b /\ StudentOf[a] = StudentOf[b]
        /\ state[a] = "scheduled" /\ state[b] = "scheduled"
        /\ ~moved[a] /\ ~moved[b]
        => start[a] # start[b]

\* The two interviews leave each other more than the buffer.
Apart(a, b) ==
    \/ start[a] + len[a] + Buffer < start[b]
    \/ start[b] + len[b] + Buffer < start[a]

\* "Reject overlapping windows" (docs/architecture-report.html:807), "we would
\* rather fail a double-book" (331): a student's scheduled interviews are apart.
NoOverlap ==
    \A a, b \in Application :
        /\ a # b /\ StudentOf[a] = StudentOf[b]
        /\ state[a] = "scheduled" /\ state[b] = "scheduled"
        => Apart(a, b)

Contract == INSTANCE Pipeline WITH
    Choice <- {}, status <- appStatus,
    booked <- {a \in Application : state[a] # "none"}, deciding <- {}

\* Every behaviour of the calendar is one of Pipeline in which recruiters and
\* students are silent: an application becomes interview or shortlisted only
\* once its interview exists, whatever is lost, dies or is refused in between
\* (interviews.service.ts:59-73, 145).
KeepsContract == Contract!Spec
=============================================================================
