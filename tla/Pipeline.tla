------------------------------ MODULE Pipeline ------------------------------
(***************************************************************************)
(* What the writers of an application's status promise each other.         *)
(* Recruiters set any status they may choose, of as many applications as   *)
(* they like; a student decides only on an offer that was opened, though   *)
(* the offer may be gone when the decision is written; and the interviews  *)
(* service sends an application to interview, or back to shortlisted, only *)
(* once its interview exists.  HiringDesk, where all of them write, and    *)
(* Interviews, where the calendar writes alone, are shown to implement it. *)
(***************************************************************************)
CONSTANTS Application, Choice

VARIABLES
    status,   \* status of each application
    booked,   \* the applications that have an interview, cancelled or not
    deciding  \* those whose offer a student has open

vars == <<status, booked, deciding>>

Decision == {"accepted", "declined"}
Standing == {"pending", "shortlisted", "rejected", "interview", "offered"} \cup Decision

TypeOK ==
    /\ status \in [Application -> Standing]
    /\ booked \subseteq Application /\ deciding \subseteq Application

Init ==
    /\ status = [a \in Application |-> "pending"]
    /\ booked = {} /\ deciding = {}

\* The applications A get status s.
Put(A, s) == status' = [a \in Application |-> IF a \in A THEN s ELSE status[a]]

Choose(A, s) == Put(A, s) /\ UNCHANGED <<booked, deciding>>

Open(a) ==
    /\ status[a] = "offered"
    /\ deciding' = deciding \cup {a}
    /\ UNCHANGED <<status, booked>>

\* Another decision on the same offer may be under way.
Decide(a, s) ==
    /\ a \in deciding
    /\ Put({a}, s)
    /\ deciding' \in {deciding, deciding \ {a}}
    /\ UNCHANGED booked

GiveUp(a) ==
    /\ deciding' = deciding \ {a}
    /\ UNCHANGED <<status, booked>>

Book(a) ==
    /\ a \notin booked
    /\ booked' = booked \cup {a}
    /\ UNCHANGED <<status, deciding>>

\* The interview of a is booked, or cancelled.
Invite(a)   == a \in booked /\ Choose({a}, "interview")
SendBack(a) == a \in booked /\ Choose({a}, "shortlisted")

Next ==
    \/ \E A \in SUBSET Application, s \in Choice : Choose(A, s)
    \/ \E a \in Application :
         \/ Open(a) \/ GiveUp(a) \/ Book(a) \/ Invite(a) \/ SendBack(a)
         \/ \E s \in Decision : Decide(a, s)

Spec == Init /\ [][Next]_vars
=============================================================================
