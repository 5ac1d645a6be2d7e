----------------------------- MODULE HiringDesk -----------------------------
(***************************************************************************)
(* The one status field of an application and everybody who writes it:     *)
(* the recruiter's setStatus and bulkStatus, the student's decide          *)
(* (ApplicationsService) and the booking and cancelling of an interview    *)
(* (InterviewsService).  Every request is a process whose steps are the    *)
(* handler's accesses to Mongo; requests interleave and may die between    *)
(* any two of them.                                                        *)
(*                                                                         *)
(* Who calls is an outcome of the ownership checks.  An interview is only  *)
(* whether it exists; its calendar and its events are Interviews' subject, *)
(* and what becomes of an emitted event is Outbox's.                       *)
(***************************************************************************)
EXTENDS FiniteSets

CONSTANTS
    Application,
    Choice,  \* the statuses recruiters set (bound)
    Verdict, \* the decisions students take (bound)
    Req,     \* requests under way at a time (bound); a slot is used again
    MayDie   \* whether a request may die half-way

RecruiterStatus == {"pending", "shortlisted", "rejected", "interview", "offered"}
Decision == {"accepted", "declined"}
Status   == RecruiterStatus \cup Decision

ASSUME ChoiceAssumption == Choice \subseteq RecruiterStatus /\ Verdict \subseteq Decision
ASSUME DieAssumption == MayDie \in BOOLEAN

VARIABLES
    status,  \* status of each application
    booked,  \* whether its interview exists, cancelled or not
    pc,      \* the next step of each request
    at, new, \* the request: the applications it names and the status it sets
    seen,    \* the status it loaded
    untold,  \* applications whose event it has still to emit
    reply,   \* what the client was answered
    told,    \* history: applications it emitted application.status for
    was      \* history: the statuses they had during the request

request == <<at, new, seen>>
history == <<told, was>>
vars == <<status, booked, pc, request, untold, reply, history>>

Steps == {"done", "setFind", "decideFind", "save", "emit", "bulkFind", "bulkUpdate",
          "bookFind", "book", "bookSave", "cancelFind", "cancelReset", "invite"}
Replies == {"none", "ok", "error"}

Unknown == [a \in Application |-> {}]

TypeOK ==
    /\ status \in [Application -> Status]
    /\ booked \in [Application -> BOOLEAN]
    /\ pc \in [Req -> Steps]
    /\ at \in [Req -> SUBSET Application]
    /\ new \in [Req -> Status]
    /\ seen \in [Req -> Status]
    /\ untold \in [Req -> SUBSET Application]
    /\ reply \in [Req -> Replies]
    /\ told \in [Req -> SUBSET Application]
    /\ was \in [Req -> [Application -> SUBSET Status]]

Init ==
    /\ status = [a \in Application |-> "pending"]
    /\ booked = [a \in Application |-> FALSE]
    /\ pc = [r \in Req |-> "done"]
    /\ at = [r \in Req |-> {}]
    /\ new = [r \in Req |-> "pending"]
    /\ seen = [r \in Req |-> "pending"]
    /\ untold = [r \in Req |-> {}]
    /\ reply = [r \in Req |-> "none"]
    /\ told = [r \in Req |-> {}]
    /\ was = [r \in Req |-> Unknown]

----------------------------------------------------------------------------
(* The steps of a request *)

Goto(r, next) == pc' = [pc EXCEPT ![r] = next] /\ UNCHANGED reply

\* A request arrives: it names applications A and sets status s.
Arrive(r, first, A, s) ==
    /\ pc[r] = "done"
    /\ pc' = [pc EXCEPT ![r] = first]
    /\ reply' = [reply EXCEPT ![r] = "none"]
    /\ at' = [at EXCEPT ![r] = A]
    /\ new' = [new EXCEPT ![r] = s]
    /\ was' = [was EXCEPT ![r] = [a \in Application |-> IF a \in A THEN {status[a]} ELSE {}]]
    /\ UNCHANGED <<status, booked, seen, untold, told>>

\* Request r ends, and what it had in memory is gone.
Answer(r, answer) ==
    /\ pc' = [pc EXCEPT ![r] = "done"]
    /\ reply' = [reply EXCEPT ![r] = answer]
    /\ at' = [at EXCEPT ![r] = {}]
    /\ new' = [new EXCEPT ![r] = "pending"]
    /\ seen' = [seen EXCEPT ![r] = "pending"]
    /\ untold' = [untold EXCEPT ![r] = {}]
    /\ told' = [told EXCEPT ![r] = {}]
    /\ was' = [was EXCEPT ![r] = Unknown]
    /\ UNCHANGED <<status, booked>>

\* findById of the one application a request names: an error, or, if it may
\* go on, the row as it is now.
Find(r, here, mayGoOn, next) ==
    /\ pc[r] = here
    /\ \/ Answer(r, "error")
       \/ \E a \in at[r] :
            /\ mayGoOn[a]
            /\ seen' = [seen EXCEPT ![r] = status[a]]
            /\ Goto(r, next)
            /\ UNCHANGED <<status, booked, at, new, untold, history>>

\* The applications A get status s; the requests that name them live through it.
Write(A, s) ==
    /\ status' = [a \in Application |-> IF a \in A THEN s ELSE status[a]]
    /\ was' = [q \in Req |-> [a \in Application |->
                 IF a \in A \cap at[q] THEN was[q][a] \cup {s} ELSE was[q][a]]]

\* save() writes the status only if it differs from the one loaded.
Save(r, here, owed, next) ==
    /\ pc[r] = here
    /\ IF seen[r] = new[r] THEN UNCHANGED <<status, was>> ELSE Write(at[r], new[r])
    /\ untold' = [untold EXCEPT ![r] = owed]
    /\ Goto(r, next)
    /\ UNCHANGED <<booked, request, told>>

----------------------------------------------------------------------------
(* setStatus, bulkStatus and decide *)

StartSet(r) == \E a \in Application, s \in Choice : Arrive(r, "setFind", {a}, s)

Anything == [a \in Application |-> TRUE]

SetFind(r) == Find(r, "setFind", Anything, "save")

StartDecide(r) == \E a \in Application, s \in Verdict : Arrive(r, "decideFind", {a}, s)

\* Mutant: whatever the status is, the decision goes on.
DecideAnything(r) == Find(r, "decideFind", Anything, "save")

\* The offer must be open when the application is loaded.
DecideFind(r) == Find(r, "decideFind", [a \in Application |-> status[a] = "offered"], "save")

SaveStatus(r) == Save(r, "save", at[r], "emit")

StartBulk(r) == \E A \in SUBSET Application, s \in Choice : Arrive(r, "bulkFind", A, s)

\* All of them exist and are the caller's, or none is touched.
BulkFind(r) ==
    /\ pc[r] = "bulkFind"
    /\ \/ Answer(r, "error")
       \/ Goto(r, "bulkUpdate") /\ UNCHANGED <<status, booked, request, untold, history>>

\* Mutant: the update is restricted to pending applications, the events are not.
BulkSkips(r) ==
    /\ pc[r] = "bulkUpdate"
    /\ Write({a \in at[r] : status[a] = "pending"}, new[r])
    /\ untold' = [untold EXCEPT ![r] = at[r]]
    /\ Goto(r, "emit")
    /\ UNCHANGED <<booked, request, told>>

BulkUpdate(r) ==
    /\ pc[r] = "bulkUpdate"
    /\ Write(at[r], new[r])
    /\ untold' = [untold EXCEPT ![r] = at[r]]
    /\ Goto(r, "emit")
    /\ UNCHANGED <<booked, request, told>>

\* outbox.emit(application.status), one application after the other.
EmitStatus(r) ==
    /\ pc[r] = "emit"
    /\ \E a \in untold[r] :
        /\ told' = [told EXCEPT ![r] = @ \cup {a}]
        /\ untold' = [untold EXCEPT ![r] = @ \ {a}]
    /\ UNCHANGED <<status, booked, pc, request, reply, was>>

\* Mutant: the loop returns after its first event.
SomeTold(r) == pc[r] = "emit" /\ (untold[r] = {} \/ told[r] # {}) /\ Answer(r, "ok")

AllTold(r) == pc[r] = "emit" /\ untold[r] = {} /\ Answer(r, "ok")

----------------------------------------------------------------------------
(* schedule and cancel of the interviews service, as far as they write *)

StartBook(r) == \E a \in Application : Arrive(r, "bookFind", {a}, "interview")

BookFind(r) == Find(r, "bookFind", Anything, "book")

\* The lock and the scan may refuse; interviews.create, under the unique index
\* on applicationId.
Book(r) ==
    /\ pc[r] = "book"
    /\ \/ Answer(r, "error")
       \/ /\ \A a \in at[r] : ~booked[a]
          /\ booked' = [a \in Application |-> booked[a] \/ a \in at[r]]
          /\ Goto(r, "bookSave")
          /\ UNCHANGED <<status, request, untold, history>>

\* app.save() on the application loaded before the lock, the scan and the insert.
BookSave(r) == Save(r, "bookSave", {}, "invite")

StartCancel(r) == \E a \in Application : Arrive(r, "cancelFind", {a}, "shortlisted")

\* Mutant: whether there is an interview to cancel is not asked.
CancelUnbooked(r) == Find(r, "cancelFind", Anything, "cancelReset")

CancelFind(r) == Find(r, "cancelFind", booked, "cancelReset")

\* Mutant: the application is given the interview's status.
CancelBoth(r) ==
    /\ pc[r] = "cancelReset"
    /\ Write(at[r], "cancelled")
    /\ Goto(r, "invite")
    /\ UNCHANGED <<booked, request, untold, told>>

\* apps.updateOne, whatever the status is by now.
CancelReset(r) ==
    /\ pc[r] = "cancelReset"
    /\ Write(at[r], new[r])
    /\ Goto(r, "invite")
    /\ UNCHANGED <<booked, request, untold, told>>

\* The event is interview.scheduled or interview.cancelled: no
\* application.status is emitted.
Invite(r) == pc[r] = "invite" /\ Answer(r, "ok")

----------------------------------------------------------------------------

\* The service dies, or Mongo fails, while a request is under way.
Die(r) == MayDie /\ pc[r] # "done" /\ Answer(r, "error")

Arrivals(r) == StartSet(r) \/ StartDecide(r) \/ StartBulk(r) \/ StartBook(r) \/ StartCancel(r)
Desk(r)     == SetFind(r) \/ DecideFind(r) \/ SaveStatus(r) \/ BulkFind(r) \/ BulkUpdate(r)
               \/ EmitStatus(r) \/ AllTold(r)
Calendar(r) == BookFind(r) \/ Book(r) \/ BookSave(r) \/ CancelFind(r) \/ CancelReset(r)
               \/ Invite(r)

Next == \E r \in Req : Arrivals(r) \/ Desk(r) \/ Calendar(r) \/ Die(r)

Spec == Init /\ [][Next]_vars

----------------------------------------------------------------------------
(* Properties *)

\* What a student is told of an application was its status at some moment of
\* the request that tells it, though save() skips a status it loaded, rivals
\* write the field in between and bulkStatus emits long after its update
\* (applications.service.ts:157-164, 178-185, 194-202).
ToldWasTrue ==
    \A r \in Req : \A a \in told[r] : new[r] \in was[r][a]

\* An application becomes accepted or declined only in a decision of its own
\* during which it was on offer: none of the five writers brings that status
\* about otherwise, in any interleaving (applications.service.ts:193-195).
DecidedOnOffer ==
    [][\A a \in Application :
         status'[a] # status[a] /\ status'[a] \in Decision =>
           \E r \in Req : at[r] = {a} /\ new[r] = status'[a] /\ "offered" \in was[r][a]]_vars

\* Success is answered only when every application the request names has had
\* its event recorded (applications.service.ts:159-165, 179-186, 197-203).
AnsweredMeansTold ==
    [][\A r \in Req : pc[r] = "emit" /\ reply'[r] = "ok" => told[r] = at[r]]_vars

\* The applications whose offer a decision has loaded and not yet saved.
Deciding == UNION {at[r] : r \in {r \in Req : pc[r] = "save" /\ new[r] \in Decision}}

Contract == INSTANCE Pipeline WITH
    booked <- {a \in Application : booked[a]}, deciding <- Deciding

\* Every behaviour of the five writers is one of Pipeline: whichever rows they
\* loaded before, a decision is written only after an offer was opened, and the
\* interviews service writes only to an application that has an interview
\* (applications.service.ts:157, 178, 193-195, interviews.service.ts:72-73, 145).
KeepsContract == Contract!Spec
=============================================================================
