-------------------------- MODULE MCInterviewRaces --------------------------
(* InterviewRaces on the same small instance. *)
EXTENDS InterviewRaces, MCInterviews

\* What decides which times are written: of an interview, its time while it is
\* scheduled; of a request, nothing of what it does after it has written.  No
\* step reads an answer, an event or a status of an application.
TimeOf(a) == IF state[a] = "scheduled" THEN <<start[a], len[a], raced[a] \ {a}>> ELSE <<state[a] = "none">>
Plan(r) ==
    CASE pc[r] \in {"recheck", "saveTime"} -> <<at[r], when[r], long[r], seen[r], news[r]>>
      [] pc[r] = "create" -> <<at[r], when[r], long[r], news[r]>>
      [] pc[r] \in ScheduleSteps \cup {"findScheduled"} -> <<at[r], when[r], long[r]>>
      [] OTHER -> <<at[r]>>
\* The view of NoOverlapUnlessRaced.
Times == <<[a \in Application |-> TimeOf(a)], lock, pc, [r \in Req |-> Plan(r)]>>

\* The view of LastEventIsTrue: no step reads an answer or what has raced, and
\* of its news a request is asked only whether its own interview is among them.
TellingState ==
    <<calendar, appStatus, lock, told, muddled, pc, request, seen,
      [r \in Req |-> at[r] \in news[r]]>>
=============================================================================
