--------------------------- MODULE InterviewRaces ---------------------------
(***************************************************************************)
(* Interviews with history: which rows each request has not seen change,   *)
(* so that what the booking still guarantees while requests interleave,    *)
(* fail and die can be told from what their races break.  No step of a     *)
(* request reads the history, and every step of Interviews remains.        *)
(***************************************************************************)
EXTENDS Interviews

VARIABLES
    news,     \* interviews others have written since each request read them
    raced,    \* interviews that were news when the time of this one was written
    muddled   \* the last event of an interview was lost, or was old when emitted

history == <<news, raced, muddled>>

HistoryOK ==
    /\ news \in [Req -> SUBSET Application]
    /\ raced \in [Application -> SUBSET Application]
    /\ muddled \in [Application -> BOOLEAN]

RInit ==
    /\ Init
    /\ news = [r \in Req |-> {}]
    /\ raced = [a \in Application |-> {}]
    /\ muddled = [a \in Application |-> FALSE]

\* The steps of a request that has written a row and not yet emitted its event.
EventSteps == {"saveApp", "emitScheduled", "emitRescheduled", "resetApp", "emitCancelled"}

\* Request r reads its row and has no news of it; a scan that finds no conflict
\* reads the other rows of the student.
NewsOf(r) ==
    CASE pc[r] \in {"done", "find", "findScheduled", "findAny", "findDone"} -> {}
      [] pc'[r] = "done" -> {}
      [] pc'[r] \in {"create", "saveTime"} -> news[r] \cap {at[r]}
      [] OTHER -> news[r]

\* What a step of request r adds to the history: a row it writes is news to the
\* other requests; a time it writes has raced with what is news to r; an event
\* that is not emitted, or after another has written the row, is muddled.
Remember(r) ==
    /\ news' = [q \in Req |->
           IF q = r THEN NewsOf(r)
           ELSE IF calendar' # calendar /\ pc[q] # "done" THEN news[q] \cup {at[r]}
           ELSE news[q]]
    /\ raced' =
           IF calendar' = calendar \/ pc[r] \notin {"create", "saveTime"} THEN raced
           ELSE [a \in Application |->
                   IF a # at[r] THEN raced[a] \ {at[r]}
                   ELSE IF a \in news[r] THEN Application ELSE news[r]]
    /\ muddled' =
           IF pc[r] \in EventSteps /\ pc'[r] \in {"unlock", "done"}
           THEN [muddled EXCEPT ![at[r]] =
                    at[r] \in news[r] \/ reply'[r] \notin {"booked", "ok"}]
           ELSE muddled

RNext ==
    \/ \E r \in Req : (Arrivals(r) \/ Step(r) \/ Throw(r) \/ Die(r)) /\ Remember(r)
    \/ \E k \in Locks : LockExpires(k) /\ UNCHANGED history

RSpec == RInit /\ [][RNext]_<<vars, history>>

----------------------------------------------------------------------------
(* Properties *)

\* Two scheduled interviews of a student overlap only if the time of one was
\* written after a scan that did not see the other's: whatever else runs, fails
\* or dies beside it, a scan and the write it guards keep the buffer on both
\* sides, and no save, cancellation or answer of another request takes that back
\* (interviews.service.ts:57-59, 125-130).
NoOverlapUnlessRaced ==
    \A a, b \in Application :
        /\ a # b /\ StudentOf[a] = StudentOf[b]
        /\ state[a] = "scheduled" /\ state[b] = "scheduled"
        /\ a \notin raced[b] /\ b \notin raced[a]
        => Apart(a, b)

\* What the last event emitted for an interview should say, by where it stands.
ToldTrue(a) ==
    /\ state[a] = "scheduled" => told[a] \in {"scheduled", "rescheduled"}
    /\ state[a] = "scheduled" /\ moved[a] => told[a] = "rescheduled"
    /\ state[a] = "cancelled" => told[a] = "cancelled"

\* When no request owes an event, the last one emitted for an interview says
\* where it stands, unless it was lost with its request, or its request had
\* not seen the last write: the mails sent from it end with the truth however
\* the other requests interleave (interviews.service.ts:74, 131, 146).
LastEventIsTrue ==
    \A a \in Application :
        \/ ToldTrue(a) \/ muddled[a]
        \/ \E r \in Req : at[r] = a /\ pc[r] \in EventSteps
=============================================================================
