------------------------------- MODULE MCApply -------------------------------
(* Apply on small instances, with clients that choose their keys in three  *)
(* ways.                                                                   *)
EXTENDS Apply, TLC

\* The key of the portal's client, "job-<id>": the posting's, for any student
\* (client/src/pages/JobDetailPage.tsx:92).
PostingKeys == [p \in Pair |-> {p[2]}]
\* That one, a key of the student's own, or none.
AnyKeys  == Pair \cup Posting
MixedKeys == [p \in Pair |-> {p, p[2], None}]

Symmetric == Permutations(Req) \cup Permutations(Student) \cup Permutations(Posting)
=============================================================================
