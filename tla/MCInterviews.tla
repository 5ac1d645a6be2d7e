---------------------------- MODULE MCInterviews ----------------------------
(* Interviews on a small instance: two applications of one student. *)
EXTENDS Interviews, TLC

CONSTANTS s1

SameStudent  == [a \in Application |-> s1]
SomeStatuses == {"pending", "shortlisted", "interview"}

Symmetric == Permutations(Application) \cup Permutations(Req)
=============================================================================
