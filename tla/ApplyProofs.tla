----------------------------- MODULE ApplyProofs -----------------------------
(***************************************************************************)
(* Proofs about Apply, for any students, postings and requests, and        *)
(* whatever keys clients send: one of their own, the one of the portal's   *)
(* client, which students of a posting share, or none.                     *)
(***************************************************************************)
EXTENDS Apply, TLAPS

----------------------------------------------------------------------------
(* Types, and what is approved *)

\* Counting one more of a thing leaves counts.
LEMMA Counted ==
    ASSUME NEW f \in [Pair -> Nat], NEW p PROVE [f EXCEPT ![p] = f[p] + 1] \in [Pair -> Nat]
<1>1. CASE p \in Pair  BY <1>1
<1>2. CASE p \notin Pair
  <2>1. [f EXCEPT ![p] = f[p] + 1] = f  BY <1>2
  <2>2. QED  BY <2>1
<1>3. QED  BY <1>1, <1>2

\* The variables keep their types in every step.
LEMMA TypeInv == TypeOK /\ [Next]_vars => TypeOK'
<1> SUFFICES ASSUME TypeOK, [Next]_vars PROVE TypeOK'  OBVIOUS
<1> USE KeysAssumption DEF TypeOK, Steps, Replies
<1>1. ASSUME NEW r \in Req, NEW p \in Pair, NEW k \in KeysOf[p], Arrive(r, p, k)
      PROVE  TypeOK'
  BY <1>1 DEF Arrive, data
<1>2. ASSUME NEW r \in Req, NEW next \in Steps, Advance(r, next)
      PROVE  /\ pc' \in [Req -> Steps] /\ reply' \in [Req -> Replies]
             /\ got' \in [Req -> Pair \cup {None}] /\ UNCHANGED requests
  BY <1>2 DEF Advance, answers
<1>3. ASSUME NEW r \in Req, NEW a \in Replies, NEW p \in Pair \cup {None}, Answer(r, a, p)
      PROVE  /\ pc' \in [Req -> Steps] /\ reply' \in [Req -> Replies]
             /\ got' \in [Req -> Pair \cup {None}] /\ UNCHANGED requests
  BY <1>3 DEF Answer
<1>4. ASSUME NEW r \in Req, FindPosting(r) \/ CheckEligible(r) \/ Die(r) PROVE TypeOK'
  BY <1>4, <1>2, <1>3 DEF FindPosting, CheckEligible, Die, data, requests
<1>5. ASSUME NEW r \in Req, FindReplay(r) \/ FindAlready(r) PROVE TypeOK'
  BY <1>5, <1>2, <1>3 DEF FindReplay, FindAlready, WithKey, data, requests
<1>6. ASSUME NEW r \in Req, CreateRow(r) PROVE TypeOK'
  <2>1. row' \in [Pair -> BOOLEAN] /\ rowKey' \in [Pair -> Key \cup {None}]
    BY <1>6 DEF CreateRow
  <2>2. UNCHANGED <<posting, score, applied>>  BY <1>6 DEF CreateRow
  <2>3. Advance(r, "score") \/ Answer(r, "conflict", None)  BY <1>6 DEF CreateRow
  <2>4. QED  BY <1>2, <1>3, <2>1, <2>2, <2>3 DEF requests
<1>7. ASSUME NEW r \in Req, SaveScore(r) PROVE TypeOK'
  <2>1. score' \in [Pair -> BOOLEAN] /\ UNCHANGED <<posting, row, rowKey, applied>>
    BY <1>7 DEF SaveScore
  <2>2. Advance(r, "announce") \/ Answer(r, "conflict", None)  BY <1>7 DEF SaveScore
  <2>3. QED  BY <1>2, <1>3, <2>1, <2>2 DEF requests
<1>8. ASSUME NEW r \in Req, Announce(r) PROVE TypeOK'
  <2>1. UNCHANGED <<posting, row, rowKey, score>>  BY <1>8 DEF Announce
  <2>2. applied' \in [Pair -> Nat]
    <3>1. applied' = [applied EXCEPT ![at[r]] = applied[at[r]] + 1]  BY <1>8 DEF Announce
    <3>2. QED  BY <3>1, Counted
  <2>3. at[r] \in Pair \cup {None} /\ Answer(r, "created", at[r])  BY <1>8 DEF Announce
  <2>4. QED  BY <1>3, <2>1, <2>2, <2>3 DEF requests
<1>9. ASSUME NEW j \in Posting, ApproveJob(j) \/ CloseJob(j) \/ ReopenJob(j) PROVE TypeOK'
  <2>1. PICK flags \in [approved : BOOLEAN, active : BOOLEAN] : ChangePosting(j, flags)
    <3>1. posting[j] \in [approved : BOOLEAN, active : BOOLEAN]  OBVIOUS
    <3>2. QED  BY <1>9, <3>1 DEF ApproveJob, CloseJob, ReopenJob
  <2>2. QED  BY <2>1 DEF ChangePosting, requests, answers
<1>10. ASSUME NEW p \in Pair, WorkerScores(p) PROVE TypeOK'
  BY <1>10 DEF WorkerScores, requests, answers
<1>11. CASE UNCHANGED vars  BY <1>11 DEF vars, data, requests, answers
<1>12. QED
  BY <1>1, <1>4, <1>5, <1>6, <1>7, <1>8, <1>9, <1>10, <1>11 DEF Next, Step

\* The initial state is well typed.
LEMMA InitType == Init => TypeOK
BY KeysAssumption DEF Init, TypeOK, Steps, Replies

\* The variables keep the types the module gives them.
THEOREM TypeCorrect == Spec => []TypeOK
BY InitType, TypeInv, PTL DEF Spec

\* A request past the first lookup is for a posting that has been approved.
PastIsApproved ==
    \A r \in Req :
        /\ pc[r] # "done" => at[r] \in Pair
        /\ pc[r] \notin {"done", "visible"} => posting[at[r][2]].approved

\* The flags of a posting change, and what was approved stays so.
LEMMA ApprovalStays ==
    TypeOK /\ [Next]_vars =>
        \A j \in Posting : posting[j].approved => posting'[j].approved
<1> SUFFICES ASSUME TypeOK, [Next]_vars, NEW j \in Posting, posting[j].approved
             PROVE  posting'[j].approved
  OBVIOUS
<1>1. ASSUME NEW i \in Posting, ApproveJob(i) \/ CloseJob(i) \/ ReopenJob(i)
      PROVE  posting'[j].approved
  BY <1>1 DEF TypeOK, ApproveJob, CloseJob, ReopenJob, ChangePosting
<1>2. CASE UNCHANGED posting  BY <1>2
<1>3. QED
  BY <1>1, <1>2
  DEF Next, Step, vars, data, Arrive, FindPosting, FindReplay, FindAlready, CheckEligible,
      CreateRow, SaveScore, Announce, Die, WorkerScores

\* Every step preserves the three together: a request gets past the first
\* lookup by finding its posting approved, and only such a request writes a row.
LEMMA ApprovedInv ==
    TypeOK /\ PastIsApproved /\ AppliedWasApproved /\ [Next]_vars =>
        (PastIsApproved /\ AppliedWasApproved)'
<1> SUFFICES ASSUME TypeOK, PastIsApproved, AppliedWasApproved, [Next]_vars
             PROVE  (PastIsApproved /\ AppliedWasApproved)'
  OBVIOUS
<1>0. \A j \in Posting : posting[j].approved => posting'[j].approved  BY ApprovalStays
<1> USE <1>0 DEF TypeOK, PastIsApproved, AppliedWasApproved, Pair
<1>1. ASSUME NEW r \in Req, NEW p \in Pair, NEW k \in KeysOf[p], Arrive(r, p, k)
      PROVE  (PastIsApproved /\ AppliedWasApproved)'
  BY <1>1 DEF Arrive, data
<1>2. ASSUME NEW r \in Req, NEW a, NEW p, Answer(r, a, p)
      PROVE  PastIsApproved'
  BY <1>2 DEF Answer, requests
<1>3. ASSUME NEW r \in Req, NEW next, Advance(r, next), pc[r] # "done",
             posting[at[r][2]].approved
      PROVE  PastIsApproved'
  BY <1>3 DEF Advance, requests
<1>4. CASE UNCHANGED <<posting, row>> /\ PastIsApproved'  BY <1>4
<1>5. ASSUME NEW r \in Req, FindPosting(r) PROVE UNCHANGED <<posting, row>> /\ PastIsApproved'
  BY <1>2, <1>3, <1>5 DEF FindPosting, data
<1>6. ASSUME NEW r \in Req, FindReplay(r) \/ FindAlready(r) \/ CheckEligible(r) \/ Die(r)
      PROVE  UNCHANGED <<posting, row>> /\ PastIsApproved'
  BY <1>2, <1>3, <1>6 DEF FindReplay, FindAlready, CheckEligible, Die, data
<1>7. ASSUME NEW r \in Req, SaveScore(r) \/ Announce(r)
      PROVE  UNCHANGED <<posting, row>> /\ PastIsApproved'
  BY <1>2, <1>3, <1>7 DEF SaveScore, Announce
<1>8. ASSUME NEW r \in Req, CreateRow(r)
      PROVE  (PastIsApproved /\ AppliedWasApproved)'
  <2>1. at[r] \in Pair /\ posting[at[r][2]].approved /\ pc[r] # "done" /\ posting' = posting
    BY <1>8 DEF CreateRow
  <2>2. PastIsApproved'  BY <1>2, <1>3, <1>8, <2>1 DEF CreateRow
  <2>3. \A p \in Pair : row'[p] => row[p] \/ p = at[r]  BY <1>8, <2>1 DEF CreateRow
  <2>4. QED  BY <2>1, <2>2, <2>3
<1>9. ASSUME NEW j \in Posting, ApproveJob(j) \/ CloseJob(j) \/ ReopenJob(j)
      PROVE  (PastIsApproved /\ AppliedWasApproved)'
  BY <1>9 DEF ApproveJob, CloseJob, ReopenJob, ChangePosting, requests
<1>10. ASSUME NEW p \in Pair, WorkerScores(p)
       PROVE  UNCHANGED <<posting, row>> /\ PastIsApproved'
  BY <1>10 DEF WorkerScores, requests
<1>11. CASE UNCHANGED vars  BY <1>11 DEF vars, data, requests
<1>12. QED
  BY <1>1, <1>4, <1>5, <1>6, <1>7, <1>8, <1>9, <1>10, <1>11 DEF Next, Step

\* An application exists only for a posting that was approved, whatever keys
\* the clients send and however many requests run.
THEOREM AppliedWasApprovedHolds == Spec => []AppliedWasApproved
<1>1. Init => PastIsApproved /\ AppliedWasApproved
  BY DEF Init, PastIsApproved, AppliedWasApproved
<1>2. QED  BY TypeCorrect, ApprovedInv, <1>1, PTL DEF Spec

----------------------------------------------------------------------------
(* Keys, rows and answers *)

\* A request knows its application; it is not answered while it is under way.
RequestsKnowTheirPair ==
    \A r \in Req :
        /\ pc[r] # "done" \/ reply[r] # "none" \/ late[r] =>
              at[r] \in Pair
        /\ pc[r] # "done" => reply[r] = "none"

\* No key is carried by two rows, and a row has been announced only if it exists.
RowsKeepTheirKeys ==
    /\ \A p, q \in Pair :
          row[p] /\ row[q] /\ rowKey[p] # None /\ rowKey[p] = rowKey[q] => p = q
    /\ \A p \in Pair : applied[p] > 0 => row[p]

Creating(r) == pc[r] \in {"score", "announce"}

\* The request that wrote a row is alone in announcing it, and has not yet.
OneCreator ==
    \A r \in Req : Creating(r) =>
        /\ row[at[r]] /\ applied[at[r]] = 0
        /\ \A q \in Req : Creating(q) /\ at[q] = at[r] => q = r

\* A request that found its row on arrival does not get past the lookups.
LateIsCaught ==
    \A r \in Req : late[r] =>
        row[at[r]] /\ pc[r] \in {"done", "visible", "replay", "already"}

\* However often apply is retried or raced, the recruiter is told of an
\* application at most once, and whoever is answered with the new row has had
\* the event recorded (applications.service.ts:62-68).
AppliedEmittedOnce ==
    /\ \A p \in Pair : applied[p] <= 1
    /\ \A r \in Req : reply[r] = "created" => applied[at[r]] = 1

IInv ==
    /\ TypeOK
    /\ RequestsKnowTheirPair
    /\ RowsKeepTheirKeys
    /\ OneCreator
    /\ LateIsCaught
    /\ ReplyIsOwnOrKeyed
    /\ ConflictMeansTaken
    /\ AppliedEmittedOnce
    /\ RetryIsReplayed

\* The initial state satisfies the inductive invariant.
LEMMA InitInv == Init => IInv
BY KeysAssumption
DEF Init, IInv, TypeOK, RequestsKnowTheirPair, RowsKeepTheirKeys, OneCreator,
    LateIsCaught, ReplyIsOwnOrKeyed, ConflictMeansTaken, AppliedEmittedOnce,
    RetryIsReplayed, Steps, Replies, Creating

\* A step that writes no data and answers, truthfully or with a refusal that
\* is no retry's, preserves the invariant.
LEMMA AnswerInv ==
    ASSUME IInv, NEW r \in Req, pc[r] # "done", UNCHANGED data,
           NEW a \in Replies \ {"none"}, NEW p \in Pair \cup {None}, Answer(r, a, p),
           a = "created" => p = at[r] /\ row[at[r]] /\ applied[at[r]] = 1,
           a = "replayed" => p \in Pair /\ row[p] /\ (p = at[r] \/ p \in WithKey(key[r])),
           a = "conflict" => row[at[r]] \/ WithKey(key[r]) # {},
           late[r] => a \in {"replayed", "not found", "dead"}
    PROVE  IInv'
<1>a. late[r] /\ key[r] = rowKey[at[r]] /\ a = "replayed" => p = at[r]
  <2>1. late[r] => row[at[r]]  BY DEF IInv, LateIsCaught
  <2>2. at[r] \in Pair  BY DEF IInv, RequestsKnowTheirPair
  <2>3. QED  BY <2>1, <2>2 DEF IInv, RowsKeepTheirKeys, WithKey
<1>b. \A k : WithKey(k)' = WithKey(k)  BY DEF WithKey, data
<1> USE DEF IInv, Answer, data, requests
<1>1. TypeOK'  BY DEF TypeOK, Steps
<1>2. RequestsKnowTheirPair'  BY DEF TypeOK, RequestsKnowTheirPair
<1>3. RowsKeepTheirKeys'  BY DEF RowsKeepTheirKeys
<1>4. OneCreator'  BY DEF TypeOK, OneCreator, Creating
<1>5. LateIsCaught'  BY DEF TypeOK, LateIsCaught
<1>6. ReplyIsOwnOrKeyed'  BY <1>b DEF TypeOK, ReplyIsOwnOrKeyed
<1>7. ConflictMeansTaken'  BY <1>b DEF TypeOK, ConflictMeansTaken
<1>8. AppliedEmittedOnce'  BY DEF TypeOK, AppliedEmittedOnce
<1>9. RetryIsReplayed'  BY <1>a DEF TypeOK, RetryIsReplayed
<1>10. QED  BY <1>1, <1>2, <1>3, <1>4, <1>5, <1>6, <1>7, <1>8, <1>9

\* A lookup that moves a request on preserves the invariant, if a request that
\* found its row on arrival is not moved past the lookups.
LEMMA AdvanceInv ==
    ASSUME IInv, NEW r \in Req, pc[r] # "done", ~Creating(r), UNCHANGED data,
           NEW next \in {"replay", "already", "eligible", "create"}, Advance(r, next),
           late[r] => next \in {"replay", "already"}
    PROVE  IInv'
<1> USE DEF IInv, Advance, data, requests, answers
<1>1. TypeOK'  BY DEF TypeOK, Steps
<1>2. RequestsKnowTheirPair'  BY DEF TypeOK, RequestsKnowTheirPair
<1>3. RowsKeepTheirKeys'  BY DEF RowsKeepTheirKeys
<1>4. OneCreator'  BY DEF TypeOK, OneCreator, Creating
<1>5. LateIsCaught'  BY DEF TypeOK, LateIsCaught
<1>6. ReplyIsOwnOrKeyed'  BY DEF TypeOK, RequestsKnowTheirPair, ReplyIsOwnOrKeyed, WithKey
<1>7. ConflictMeansTaken'  BY DEF TypeOK, RequestsKnowTheirPair, ConflictMeansTaken, WithKey
<1>8. AppliedEmittedOnce'  BY DEF AppliedEmittedOnce
<1>9. RetryIsReplayed'  BY DEF TypeOK, RetryIsReplayed
<1>10. QED  BY <1>1, <1>2, <1>3, <1>4, <1>5, <1>6, <1>7, <1>8, <1>9

\* Every step preserves the inductive invariant.
LEMMA NextInv == IInv /\ [Next]_vars => IInv'
<1> SUFFICES ASSUME IInv, [Next]_vars PROVE IInv'  OBVIOUS
<1> USE KeysAssumption
<1>1. ASSUME NEW r \in Req, NEW p \in Pair, NEW k \in KeysOf[p], Arrive(r, p, k)
      PROVE  IInv'
  <2> USE <1>1 DEF IInv, Arrive, data
  <2>1. TypeOK'  BY DEF TypeOK, Steps, Replies
  <2>2. RequestsKnowTheirPair'  BY DEF TypeOK, RequestsKnowTheirPair
  <2>3. RowsKeepTheirKeys'  BY DEF TypeOK, RowsKeepTheirKeys
  <2>4. OneCreator'  BY DEF TypeOK, OneCreator, Creating
  <2>5. LateIsCaught'  BY DEF TypeOK, LateIsCaught
  <2>6. ReplyIsOwnOrKeyed'  BY DEF TypeOK, RequestsKnowTheirPair, ReplyIsOwnOrKeyed, WithKey
  <2>7. ConflictMeansTaken'  BY DEF TypeOK, RequestsKnowTheirPair, ConflictMeansTaken, WithKey
  <2>8. AppliedEmittedOnce'  BY DEF TypeOK, AppliedEmittedOnce
  <2>9. RetryIsReplayed'  BY DEF TypeOK, RetryIsReplayed
  <2>10. QED
    BY <2>1, <2>2, <2>3, <2>4, <2>5, <2>6, <2>7, <2>8, <2>9
<1>2. ASSUME NEW r \in Req, FindPosting(r) PROVE IInv'
  <2>1. pc[r] = "visible" /\ UNCHANGED data  BY <1>2 DEF FindPosting
  <2>2. CASE Advance(r, "replay")  BY <2>1, <2>2, AdvanceInv DEF Creating
  <2>3. CASE Answer(r, "not found", None)  BY <2>1, <2>3, AnswerInv DEF Replies
  <2>4. QED  BY <1>2, <2>2, <2>3 DEF FindPosting
<1>3. ASSUME NEW r \in Req, FindReplay(r) PROVE IInv'
  <2>1. pc[r] = "replay" /\ UNCHANGED data  BY <1>3 DEF FindReplay
  <2>2. CASE Advance(r, "already")  BY <2>1, <2>2, AdvanceInv DEF Creating
  <2>3. ASSUME NEW p \in WithKey(key[r]), Answer(r, "replayed", p) PROVE IInv'
    <3>1. p \in Pair /\ row[p]  BY DEF WithKey
    <3>2. QED  BY <2>1, <2>3, <3>1, AnswerInv DEF Replies
  <2>4. QED  BY <1>3, <2>2, <2>3 DEF FindReplay
<1>4. ASSUME NEW r \in Req, FindAlready(r) PROVE IInv'
  <2>1. pc[r] = "already" /\ UNCHANGED data /\ at[r] \in Pair
    BY <1>4 DEF FindAlready, IInv, RequestsKnowTheirPair
  <2>2. CASE ~row[at[r]] /\ Advance(r, "eligible")
    <3>1. ~late[r]  BY <2>2 DEF IInv, LateIsCaught
    <3>2. QED  BY <2>1, <2>2, <3>1, AdvanceInv DEF Creating
  <2>3. CASE row[at[r]] /\ Answer(r, "replayed", at[r])
    BY <2>1, <2>3, AnswerInv DEF Replies
  <2>4. QED  BY <1>4, <2>2, <2>3 DEF FindAlready
<1>5. ASSUME NEW r \in Req, CheckEligible(r) PROVE IInv'
  <2>1. pc[r] = "eligible" /\ UNCHANGED data /\ ~late[r]
    BY <1>5 DEF CheckEligible, IInv, LateIsCaught
  <2>2. CASE Advance(r, "create")  BY <2>1, <2>2, AdvanceInv DEF Creating
  <2>3. CASE Answer(r, "forbidden", None)  BY <2>1, <2>3, AnswerInv DEF Replies
  <2>4. QED  BY <1>5, <2>2, <2>3 DEF CheckEligible
<1>6. ASSUME NEW r \in Req, CreateRow(r) PROVE IInv'
  <2>1. /\ pc[r] = "create" /\ at[r] \in Pair /\ ~late[r]
        /\ UNCHANGED <<posting, score, applied>>
    BY <1>6 DEF CreateRow, IInv, RequestsKnowTheirPair, LateIsCaught
  <2>2. CASE /\ ~Duplicate(r)
             /\ row' = [row EXCEPT ![at[r]] = TRUE]
             /\ rowKey' = [rowKey EXCEPT ![at[r]] = key[r]]
             /\ Advance(r, "score")
    <3>1. ~row[at[r]] /\ applied[at[r]] = 0
      BY <2>1, <2>2 DEF Duplicate, IInv, TypeOK, RowsKeepTheirKeys
    <3> USE <2>1, <2>2, <3>1 DEF IInv, Advance, requests, answers
    <3>2. TypeOK'  BY DEF TypeOK, Steps, Replies
    <3>3. RequestsKnowTheirPair'  BY DEF TypeOK, RequestsKnowTheirPair
    <3>4. RowsKeepTheirKeys'  BY DEF TypeOK, RowsKeepTheirKeys, Duplicate, WithKey
    <3>5. OneCreator'  BY DEF TypeOK, OneCreator, Creating
    <3>6. LateIsCaught'  BY DEF TypeOK, LateIsCaught
    <3>7. ReplyIsOwnOrKeyed'  BY DEF TypeOK, RequestsKnowTheirPair, ReplyIsOwnOrKeyed, WithKey
    <3>8. ConflictMeansTaken'  BY DEF TypeOK, RequestsKnowTheirPair, ConflictMeansTaken, WithKey
    <3>9. AppliedEmittedOnce'  BY DEF TypeOK, AppliedEmittedOnce
    <3>10. RetryIsReplayed'  BY DEF TypeOK, RequestsKnowTheirPair, LateIsCaught, RetryIsReplayed
    <3>11. QED
      BY <3>2, <3>3, <3>4, <3>5, <3>6, <3>7, <3>8, <3>9, <3>10
  <2>3. CASE Duplicate(r) /\ Answer(r, "conflict", None) /\ UNCHANGED <<row, rowKey>>
    <3>1. row[at[r]] \/ WithKey(key[r]) # {}  BY <2>3 DEF Duplicate
    <3>2. UNCHANGED data  BY <2>1, <2>3 DEF data
    <3>3. QED  BY <2>1, <2>3, <3>1, <3>2, AnswerInv DEF Replies
  <2>4. QED  BY <1>6, <2>2, <2>3 DEF CreateRow
<1>7. ASSUME NEW r \in Req, SaveScore(r) PROVE IInv'
  <2>1. /\ pc[r] = "score" /\ at[r] \in Pair /\ row[at[r]] /\ ~late[r]
        /\ score' \in [Pair -> BOOLEAN] /\ UNCHANGED <<posting, row, rowKey, applied>>
    BY <1>7 DEF SaveScore, IInv, TypeOK, RequestsKnowTheirPair, LateIsCaught,
       OneCreator, Creating
  <2>2. CASE Advance(r, "announce")
    <3> USE <2>1, <2>2 DEF IInv, Advance, requests, answers
    <3>1. TypeOK'  BY DEF TypeOK, Steps, Replies
    <3>2. RequestsKnowTheirPair'  BY DEF TypeOK, RequestsKnowTheirPair
    <3>3. RowsKeepTheirKeys'  BY DEF TypeOK, RowsKeepTheirKeys
    <3>4. OneCreator'  BY DEF TypeOK, OneCreator, Creating
    <3>5. LateIsCaught'  BY DEF TypeOK, LateIsCaught
    <3>6. ReplyIsOwnOrKeyed'  BY DEF TypeOK, RequestsKnowTheirPair, ReplyIsOwnOrKeyed, WithKey
    <3>7. ConflictMeansTaken'  BY DEF TypeOK, RequestsKnowTheirPair, ConflictMeansTaken, WithKey
    <3>8. AppliedEmittedOnce'  BY DEF TypeOK, AppliedEmittedOnce
    <3>9. RetryIsReplayed'  BY DEF TypeOK, RetryIsReplayed
    <3>10. QED
      BY <3>1, <3>2, <3>3, <3>4, <3>5, <3>6, <3>7, <3>8, <3>9
  <2>3. CASE Answer(r, "conflict", None)
    <3> USE <2>1, <2>3 DEF IInv, Answer, requests
    <3>1. TypeOK'  BY DEF TypeOK, Steps, Replies
    <3>2. RequestsKnowTheirPair'  BY DEF TypeOK, RequestsKnowTheirPair
    <3>3. RowsKeepTheirKeys'  BY DEF TypeOK, RowsKeepTheirKeys
    <3>4. OneCreator'  BY DEF TypeOK, OneCreator, Creating
    <3>5. LateIsCaught'  BY DEF TypeOK, LateIsCaught
    <3>6. ReplyIsOwnOrKeyed'  BY DEF TypeOK, RequestsKnowTheirPair, ReplyIsOwnOrKeyed, WithKey
    <3>7. ConflictMeansTaken'  BY DEF TypeOK, RequestsKnowTheirPair, ConflictMeansTaken, WithKey
    <3>8. AppliedEmittedOnce'  BY DEF TypeOK, AppliedEmittedOnce
    <3>9. RetryIsReplayed'  BY DEF TypeOK, RetryIsReplayed
    <3>10. QED
      BY <3>1, <3>2, <3>3, <3>4, <3>5, <3>6, <3>7, <3>8, <3>9
  <2>4. QED  BY <1>7, <2>2, <2>3 DEF SaveScore
<1>8. ASSUME NEW r \in Req, Announce(r) PROVE IInv'
  <2>1. pc[r] = "announce" /\ at[r] \in Pair /\ row[at[r]] /\ applied[at[r]] = 0 /\ ~late[r]
    BY <1>8 DEF Announce, IInv, RequestsKnowTheirPair, LateIsCaught, OneCreator, Creating
  <2>2. applied' \in [Pair -> Nat] /\ UNCHANGED <<posting, row, rowKey, score>>
    BY <1>8, <2>1 DEF Announce, IInv, TypeOK
  <2>3. /\ reply' \in [Req -> Replies] /\ got' \in [Req -> Pair \cup {None}]
        /\ pc' \in [Req -> Steps] /\ UNCHANGED requests
    BY <1>8, <2>1 DEF Announce, Answer, IInv, TypeOK, Replies, Steps
  <2>4. TypeOK'  BY <2>2, <2>3 DEF IInv, TypeOK, requests
  <2> USE <1>8, <2>1, <2>2, <2>3, <2>4 DEF IInv, Announce, Answer, requests
  <2>5. RequestsKnowTheirPair'  BY DEF TypeOK, RequestsKnowTheirPair
  <2>6. RowsKeepTheirKeys'  BY DEF TypeOK, RowsKeepTheirKeys
  <2>7. OneCreator'  BY DEF TypeOK, OneCreator, Creating
  <2>8. LateIsCaught'  BY DEF TypeOK, LateIsCaught
  <2>9. ReplyIsOwnOrKeyed'  BY DEF TypeOK, RequestsKnowTheirPair, ReplyIsOwnOrKeyed, WithKey
  <2>10. ConflictMeansTaken'  BY DEF TypeOK, RequestsKnowTheirPair, ConflictMeansTaken, WithKey
  <2>11. AppliedEmittedOnce'  BY DEF TypeOK, AppliedEmittedOnce
  <2>12. RetryIsReplayed'  BY DEF TypeOK, RetryIsReplayed
  <2>13. QED
    BY <2>4, <2>5, <2>6, <2>7, <2>8, <2>9, <2>10, <2>11, <2>12
<1>9. ASSUME NEW r \in Req, Die(r) PROVE IInv'
  BY <1>9, AnswerInv DEF Die, Replies
<1>10. ASSUME NEW j \in Posting, NEW flags \in [approved : BOOLEAN, active : BOOLEAN],
              ChangePosting(j, flags)
       PROVE  IInv'
  <2> USE <1>10 DEF IInv, ChangePosting, requests, answers
  <2>1. TypeOK'  BY DEF TypeOK, Steps, Replies
  <2>2. RequestsKnowTheirPair'  BY DEF TypeOK, RequestsKnowTheirPair
  <2>3. RowsKeepTheirKeys'  BY DEF TypeOK, RowsKeepTheirKeys
  <2>4. OneCreator'  BY DEF TypeOK, OneCreator, Creating
  <2>5. LateIsCaught'  BY DEF TypeOK, LateIsCaught
  <2>6. ReplyIsOwnOrKeyed'  BY DEF TypeOK, RequestsKnowTheirPair, ReplyIsOwnOrKeyed, WithKey
  <2>7. ConflictMeansTaken'  BY DEF TypeOK, RequestsKnowTheirPair, ConflictMeansTaken, WithKey
  <2>8. AppliedEmittedOnce'  BY DEF TypeOK, AppliedEmittedOnce
  <2>9. RetryIsReplayed'  BY DEF TypeOK, RetryIsReplayed
  <2>10. QED
    BY <2>1, <2>2, <2>3, <2>4, <2>5, <2>6, <2>7, <2>8, <2>9
<1>11. ASSUME NEW j \in Posting, ApproveJob(j) \/ CloseJob(j) \/ ReopenJob(j) PROVE IInv'
  <2>1. posting[j] \in [approved : BOOLEAN, active : BOOLEAN]  BY DEF IInv, TypeOK
  <2>2. QED  BY <1>10, <1>11, <2>1 DEF ApproveJob, CloseJob, ReopenJob
<1>12. ASSUME NEW p \in Pair, WorkerScores(p) PROVE IInv'
  <2> USE <1>12 DEF IInv, WorkerScores, requests, answers
  <2>1. TypeOK'  BY DEF TypeOK, Steps, Replies
  <2>2. RequestsKnowTheirPair'  BY DEF TypeOK, RequestsKnowTheirPair
  <2>3. RowsKeepTheirKeys'  BY DEF TypeOK, RowsKeepTheirKeys
  <2>4. OneCreator'  BY DEF TypeOK, OneCreator, Creating
  <2>5. LateIsCaught'  BY DEF TypeOK, LateIsCaught
  <2>6. ReplyIsOwnOrKeyed'  BY DEF TypeOK, RequestsKnowTheirPair, ReplyIsOwnOrKeyed, WithKey
  <2>7. ConflictMeansTaken'  BY DEF TypeOK, RequestsKnowTheirPair, ConflictMeansTaken, WithKey
  <2>8. AppliedEmittedOnce'  BY DEF TypeOK, AppliedEmittedOnce
  <2>9. RetryIsReplayed'  BY DEF TypeOK, RetryIsReplayed
  <2>10. QED
    BY <2>1, <2>2, <2>3, <2>4, <2>5, <2>6, <2>7, <2>8, <2>9
<1>13. CASE UNCHANGED vars
  <2> USE <1>13 DEF IInv, vars, data, requests, answers
  <2>1. TypeOK'  BY DEF TypeOK, Steps, Replies
  <2>2. RequestsKnowTheirPair'  BY DEF TypeOK, RequestsKnowTheirPair
  <2>3. RowsKeepTheirKeys'  BY DEF TypeOK, RowsKeepTheirKeys
  <2>4. OneCreator'  BY DEF TypeOK, OneCreator, Creating
  <2>5. LateIsCaught'  BY DEF TypeOK, LateIsCaught
  <2>6. ReplyIsOwnOrKeyed'  BY DEF TypeOK, RequestsKnowTheirPair, ReplyIsOwnOrKeyed, WithKey
  <2>7. ConflictMeansTaken'  BY DEF TypeOK, RequestsKnowTheirPair, ConflictMeansTaken, WithKey
  <2>8. AppliedEmittedOnce'  BY DEF TypeOK, AppliedEmittedOnce
  <2>9. RetryIsReplayed'  BY DEF TypeOK, RetryIsReplayed
  <2>10. QED
    BY <2>1, <2>2, <2>3, <2>4, <2>5, <2>6, <2>7, <2>8, <2>9
<1>14. QED
  BY <1>1, <1>2, <1>3, <1>4, <1>5, <1>6, <1>7, <1>8, <1>9, <1>11, <1>12, <1>13
  DEF Next, Step

\* The inductive invariant holds in every reachable state.
THEOREM InductiveInvariant == Spec => []IInv
<1>1. IInv /\ [Next]_vars => IInv'  BY NextInv
<1>2. QED  BY InitInv, <1>1, PTL DEF Spec

\* The row a student is answered with exists, and is the student's own or the one
\* filed under the request's key, for any number of concurrent requests.
THEOREM ReplyIsOwnOrKeyedHolds == Spec => []ReplyIsOwnOrKeyed
<1>1. IInv => ReplyIsOwnOrKeyed  BY DEF IInv
<1>2. Spec => []IInv  BY InductiveInvariant
<1>3. QED  BY <1>1, <1>2, PTL

\* "Already applied" is answered only to a student who has, or whose key is taken.
THEOREM ConflictMeansTakenHolds == Spec => []ConflictMeansTaken
<1>1. IInv => ConflictMeansTaken  BY DEF IInv
<1>2. Spec => []IInv  BY InductiveInvariant
<1>3. QED  BY <1>1, <1>2, PTL

\* The event of an application is recorded at most once, and before the 201.
THEOREM AppliedEmittedOnceHolds == Spec => []AppliedEmittedOnce
<1>1. IInv => AppliedEmittedOnce  BY DEF IInv
<1>2. Spec => []IInv  BY InductiveInvariant
<1>3. QED  BY <1>1, <1>2, PTL

\* A retry under the key of the application, or without one as it was filed, is
\* never told that it is a duplicate or that the student is not eligible, and
\* never answered with another's application.
THEOREM RetryIsReplayedHolds == Spec => []RetryIsReplayed
<1>1. IInv => RetryIsReplayed  BY DEF IInv
<1>2. Spec => []IInv  BY InductiveInvariant
<1>3. QED  BY <1>1, <1>2, PTL

----------------------------------------------------------------------------
(* The handler implements Applications *)

\* The initial state is one of Applications.
LEMMA RefineInit == Init => Promise!Init
BY DEF Init, Promise!Init, Promise!Nothing, Promise!Pair, Pair, Asked

\* What the promise knows of the postings, the rows and their events does not
\* change when they do not.
LEMMA SameData ==
    ASSUME TypeOK, UNCHANGED <<posting, row>>
    PROVE  /\ {j \in Posting : posting[j].approved}' = {j \in Posting : posting[j].approved}
           /\ {p \in Pair : row[p]}' = {p \in Pair : row[p]}
OBVIOUS

\* What the promise calls filed under a key is what the lookup finds.
LEMMA FiledUnderIsFound == ASSUME NEW k PROVE Promise!FiledUnder(k) = WithKey(k)
BY DEF Promise!FiledUnder, WithKey

\* A row that answers a request is the student's own or one under its key.
LEMMA AnswersIsFound ==
    ASSUME NEW r \in Req, pc[r] # "done", NEW p \in Pair, row[p],
           p = at[r] \/ p \in WithKey(key[r])
    PROVE  p \in {q \in Pair : row[q]} /\ Promise!Answers(r, p)
<1>1. Asked(r).of = at[r] /\ Asked(r).key = key[r]  BY DEF Asked
<1>2. QED  BY <1>1, FiledUnderIsFound DEF Promise!Answers

\* A request that ends with an answer says just that.
LEMMA SayRefines ==
    ASSUME TypeOK, NEW r \in Req, pc[r] # "done", at[r] \in Pair,
           NEW a, NEW p, Answer(r, a, p), UNCHANGED <<posting, row, rowKey>>
    PROVE  Promise!Say(r, a, p)
<1>1. Asked(r).of # None  BY KeysAssumption DEF Asked
<1>2. Asked(r)' = [of |-> None, key |-> None, as |-> "new"]
  BY DEF Answer, Asked, TypeOK
<1>3. \A q \in Req : q # r => Asked(q)' = Asked(q)
  BY DEF Answer, Asked, requests, TypeOK
<1>4. [q \in Req |-> Asked(q)]' = [[q \in Req |-> Asked(q)] EXCEPT ![r] = Promise!Nothing]
  BY <1>2, <1>3 DEF Promise!Nothing
<1>5. [q \in Req |-> [said |-> reply[q], of |-> got[q]]]'
        = [[q \in Req |-> [said |-> reply[q], of |-> got[q]]]
              EXCEPT ![r] = [said |-> a, of |-> p]]
  BY DEF Answer, TypeOK
<1>6. QED  BY <1>1, <1>4, <1>5, SameData DEF Promise!Say

\* A request that is answered with its own application says just that.
LEMMA SayOwnRefines ==
    ASSUME TypeOK, NEW r \in Req, pc[r] # "done", at[r] \in Pair,
           NEW a, Answer(r, a, at[r]), UNCHANGED <<posting, row, rowKey>>
    PROVE  Promise!Say(r, a, at[r])
<1>1. PICK p : p = at[r]  OBVIOUS
<1>2. Answer(r, a, p)  BY <1>1 DEF Answer
<1>3. Promise!Say(r, a, p)  BY <1>2, SayRefines
<1>4. QED  BY <1>1, <1>3 DEF Promise!Say

\* A request that goes on to another lookup, or to the event of the row it
\* wrote, shows nothing.
LEMMA AdvanceStutters ==
    ASSUME TypeOK, NEW r \in Req, pc[r] # "done", NEW next \in Steps \ {"done"},
           Advance(r, next), UNCHANGED <<posting, row, rowKey, applied>>,
           pc[r] \in {"score", "announce"} <=> next \in {"score", "announce"}
    PROVE  UNCHANGED Promise!vars
<1>1. \A q \in Req : Asked(q)' = Asked(q)
  BY DEF Advance, Asked, requests, TypeOK, Steps
<1>2. [q \in Req |-> Asked(q)]' = [q \in Req |-> Asked(q)]  BY <1>1
<1>3. QED  BY <1>2, SameData DEF Advance, answers, Promise!vars

\* A step is one of Applications', or shows nothing.
LEMMA RefineNext ==
    ASSUME IInv, PastIsApproved, [Next]_vars
    PROVE  [Promise!Next]_(Promise!vars)
<1> USE KeysAssumption
<1>t. TypeOK /\ \A r \in Req : pc[r] # "done" => at[r] \in Pair
  BY DEF IInv, PastIsApproved
<1>1. ASSUME NEW r \in Req, NEW p \in Pair, NEW k \in KeysOf[p], Arrive(r, p, k)
      PROVE  Promise!Ask(r, p, k)
  <2>1. Asked(r).of = None  BY <1>1 DEF Arrive, Asked
  <2>2. Asked(r)' = [of |-> p, key |-> k, as |-> IF p \in {q \in Pair : row[q]} THEN "late" ELSE "new"]
    <3>1. at'[r] = p /\ key'[r] = k /\ pc'[r] = "visible" /\ (late'[r] <=> p \in {q \in Pair : row[q]})
      BY <1>1, <1>t DEF Arrive, TypeOK
    <3>2. QED  BY <3>1 DEF Asked
  <2>3. \A q \in Req : q # r => Asked(q)' = Asked(q)
    BY <1>1, <1>t DEF Arrive, Asked, TypeOK
  <2>4. [q \in Req |-> Asked(q)]'
          = [[q \in Req |-> Asked(q)] EXCEPT ![r] =
               [of |-> p, key |-> k, as |-> IF p \in {q \in Pair : row[q]} THEN "late" ELSE "new"]]
    BY <2>2, <2>3
  <2>5. [q \in Req |-> [said |-> reply[q], of |-> got[q]]]'
          = [[q \in Req |-> [said |-> reply[q], of |-> got[q]]]
                EXCEPT ![r] = [said |-> "none", of |-> None]]
    BY <1>1, <1>t DEF Arrive, TypeOK
  <2>6. UNCHANGED <<posting, row, rowKey, applied>>  BY <1>1 DEF Arrive, data
  <2>7. QED  BY <1>t, <2>1, <2>4, <2>5, <2>6, SameData DEF Promise!Ask
<1>2. ASSUME NEW r \in Req, FindPosting(r)
      PROVE  UNCHANGED Promise!vars \/ Promise!Refuse(r)
  <2>1. pc[r] = "visible" /\ UNCHANGED <<posting, row, rowKey, applied>>
    BY <1>2 DEF FindPosting, data
  <2>2. CASE Advance(r, "replay")  BY <1>t, <2>1, <2>2, AdvanceStutters DEF Steps
  <2>3. CASE Answer(r, "not found", None)
    BY <1>t, <2>1, <2>3, SayRefines DEF Promise!Refuse, Asked
  <2>4. QED  BY <1>2, <2>2, <2>3 DEF FindPosting
<1>3. ASSUME NEW r \in Req, FindReplay(r)
      PROVE  UNCHANGED Promise!vars \/ Promise!Replay(r)
  <2>1. pc[r] = "replay" /\ UNCHANGED <<posting, row, rowKey, applied>>
    BY <1>3 DEF FindReplay, data
  <2>2. CASE Advance(r, "already")  BY <1>t, <2>1, <2>2, AdvanceStutters DEF Steps
  <2>3. ASSUME NEW p \in WithKey(key[r]), Answer(r, "replayed", p)
        PROVE  Promise!Replay(r)
    <3>1. p \in Pair /\ row[p]  BY DEF WithKey
    <3>2. Asked(r).as # "filer"  BY <2>1 DEF Asked
    <3>3. Promise!Say(r, "replayed", p)  BY <1>t, <2>1, <2>3, SayRefines
    <3>4. p \in {q \in Pair : row[q]} /\ Promise!Answers(r, p)
      BY <2>1, <3>1, AnswersIsFound
    <3>5. UNCHANGED {q \in Pair : applied[q] > 0}  BY <2>1
    <3>6. QED  BY <3>2, <3>3, <3>4, <3>5 DEF Promise!Replay
  <2>4. QED  BY <1>3, <2>2, <2>3 DEF FindReplay
<1>4. ASSUME NEW r \in Req, FindAlready(r)
      PROVE  UNCHANGED Promise!vars \/ Promise!Replay(r)
  <2>1. pc[r] = "already" /\ UNCHANGED <<posting, row, rowKey, applied>>
    BY <1>4 DEF FindAlready, data
  <2>2. CASE Advance(r, "eligible")  BY <1>t, <2>1, <2>2, AdvanceStutters DEF Steps
  <2>3. CASE row[at[r]] /\ Answer(r, "replayed", at[r])
    <3>1. Asked(r).as # "filer"  BY <2>1 DEF Asked
    <3>2. PICK p : p = at[r]  OBVIOUS
    <3>3. Promise!Say(r, "replayed", at[r])  BY <1>t, <2>1, <2>3, SayOwnRefines
    <3>4. p \in {q \in Pair : row[q]} /\ Promise!Answers(r, p)
      BY <1>t, <2>1, <2>3, <3>2, AnswersIsFound
    <3>5. UNCHANGED {q \in Pair : applied[q] > 0}  BY <2>1
    <3>6. Promise!Say(r, "replayed", p)  BY <3>2, <3>3 DEF Promise!Say
    <3>7. QED  BY <3>1, <3>4, <3>5, <3>6 DEF Promise!Replay
  <2>4. QED  BY <1>4, <2>2, <2>3 DEF FindAlready
<1>5. ASSUME NEW r \in Req, CheckEligible(r)
      PROVE  UNCHANGED Promise!vars \/ Promise!Refuse(r)
  <2>1. pc[r] = "eligible" /\ UNCHANGED <<posting, row, rowKey, applied>> /\ ~late[r]
    BY <1>5 DEF CheckEligible, data, IInv, LateIsCaught
  <2>2. CASE Advance(r, "create")  BY <1>t, <2>1, <2>2, AdvanceStutters DEF Steps
  <2>3. CASE Answer(r, "forbidden", None)
    BY <1>t, <2>1, <2>3, SayRefines DEF Promise!Refuse, Asked
  <2>4. QED  BY <1>5, <2>2, <2>3 DEF CheckEligible
<1>6. ASSUME NEW r \in Req, CreateRow(r)
      PROVE  Promise!File(r) \/ Promise!Refuse(r)
  <2>1. /\ pc[r] = "create" /\ at[r] \in Pair /\ ~late[r] /\ posting[at[r][2]].approved
        /\ UNCHANGED <<posting, applied>>
    BY <1>6 DEF CreateRow, IInv, LateIsCaught, PastIsApproved
  <2>2. Asked(r) = [of |-> at[r], key |-> key[r], as |-> "new"]  BY <2>1 DEF Asked
  <2>3. CASE /\ ~Duplicate(r) /\ Advance(r, "score")
             /\ row' = [row EXCEPT ![at[r]] = TRUE]
             /\ rowKey' = [rowKey EXCEPT ![at[r]] = key[r]]
    <3>1. ~row[at[r]] /\ Promise!FiledUnder(key[r]) = {}
      BY <2>3, FiledUnderIsFound DEF Duplicate
    <3>2. {p \in Pair : row[p]}' = {p \in Pair : row[p]} \cup {at[r]}
      BY <1>t, <2>1, <2>3 DEF TypeOK
    <3>3. Asked(r)' = [of |-> at[r], key |-> key[r], as |-> "filer"]
      BY <1>t, <2>3 DEF Asked, Advance, requests, TypeOK
    <3>4. \A q \in Req : q # r => Asked(q)' = Asked(q)
      BY <1>t, <2>3 DEF Asked, Advance, requests, TypeOK
    <3>5. [q \in Req |-> Asked(q)]' = [[q \in Req |-> Asked(q)] EXCEPT ![r].as = "filer"]
      <4>1. [Asked(r) EXCEPT !.as = "filer"] = [of |-> at[r], key |-> key[r], as |-> "filer"]  BY <2>2
      <4>2. QED  BY <3>3, <3>4, <4>1
    <3>6. at[r][2] \in Posting  BY <2>1 DEF Pair
    <3>7. at[r] # None /\ Asked(r).of = at[r] /\ Asked(r).key = key[r]
      BY <2>1, <2>2, KeysAssumption
    <3>8. UNCHANGED <<reply, got>>  BY <2>3 DEF Advance, answers
    <3>9. QED
      BY <2>1, <2>3, <3>1, <3>2, <3>5, <3>6, <3>7, <3>8 DEF Promise!File
  <2>4. CASE Duplicate(r) /\ Answer(r, "conflict", None) /\ UNCHANGED <<row, rowKey>>
    <3>1. PICK p \in Pair : row[p] /\ (p = at[r] \/ p \in WithKey(key[r]))
      BY <2>1, <2>4 DEF Duplicate, WithKey
    <3>2. Promise!Say(r, "conflict", None)  BY <1>t, <2>1, <2>4, SayRefines
    <3>3. p \in {q \in Pair : row[q]} /\ Promise!Answers(r, p)
      BY <2>1, <3>1, AnswersIsFound
    <3>4. Asked(r).as # "late" /\ UNCHANGED {q \in Pair : applied[q] > 0}  BY <2>1, <2>2
    <3>5. QED  BY <3>2, <3>3, <3>4 DEF Promise!Refuse
  <2>5. QED  BY <1>6, <2>3, <2>4 DEF CreateRow
<1>7. ASSUME NEW r \in Req, SaveScore(r)
      PROVE  UNCHANGED Promise!vars \/ Promise!Refuse(r)
  <2>1. /\ pc[r] = "score" /\ row[at[r]] /\ ~late[r]
        /\ UNCHANGED <<posting, row, rowKey, applied>>
    BY <1>7 DEF SaveScore, IInv, LateIsCaught, OneCreator, Creating
  <2>2. CASE Advance(r, "announce")  BY <1>t, <2>1, <2>2, AdvanceStutters DEF Steps
  <2>3. CASE Answer(r, "conflict", None)
    <3>1. Asked(r).as # "late"  BY <2>1 DEF Asked
    <3>2. PICK p : p = at[r]  OBVIOUS
    <3>3. p \in {q \in Pair : row[q]} /\ Promise!Answers(r, p)
      BY <1>t, <2>1, <3>2, AnswersIsFound
    <3>4. Promise!Say(r, "conflict", None)  BY <1>t, <2>1, <2>3, SayRefines
    <3>5. UNCHANGED {q \in Pair : applied[q] > 0}  BY <2>1
    <3>6. QED  BY <3>1, <3>3, <3>4, <3>5 DEF Promise!Refuse
  <2>4. QED  BY <1>7, <2>2, <2>3 DEF SaveScore
<1>8. ASSUME NEW r \in Req, Announce(r) PROVE Promise!Tell(r)
  <2>1. /\ pc[r] = "announce" /\ at[r] \in Pair /\ row[at[r]] /\ applied[at[r]] = 0
        /\ UNCHANGED <<posting, row, rowKey>>
    BY <1>8, <1>t DEF Announce, IInv, OneCreator, Creating
  <2>2. Asked(r).of = at[r] /\ Asked(r).as = "filer"  BY <2>1 DEF Asked
  <2>3. \A p \in Pair : applied'[p] = IF p = at[r] THEN 1 ELSE applied[p]
    BY <1>8, <1>t, <2>1 DEF Announce, TypeOK
  <2>4. {p \in Pair : applied[p] > 0}' = {p \in Pair : applied[p] > 0} \cup {at[r]}
    BY <2>1, <2>3
  <2>5. Promise!Say(r, "created", at[r])
    <3>1. Answer(r, "created", at[r])  BY <1>8 DEF Announce
    <3>2. QED  BY <1>t, <2>1, <3>1, SayOwnRefines
  <2>6. at[r] \notin {p \in Pair : applied[p] > 0}  BY <2>1
  <2>7. QED  BY <2>1, <2>2, <2>4, <2>5, <2>6 DEF Promise!Tell, Promise!Say
<1>9. ASSUME NEW r \in Req, Die(r) PROVE Promise!Refuse(r)
  BY <1>9, <1>t, SayRefines DEF Die, data, Promise!Refuse
<1>10. ASSUME UNCHANGED <<row, rowKey, applied, pc, requests, answers>>
       PROVE  /\ {p \in Pair : row[p]}' = {p \in Pair : row[p]}
              /\ {p \in Pair : applied[p] > 0}' = {p \in Pair : applied[p] > 0}
              /\ [r \in Req |-> Asked(r)]' = [r \in Req |-> Asked(r)]
              /\ [r \in Req |-> [said |-> reply[r], of |-> got[r]]]'
                   = [r \in Req |-> [said |-> reply[r], of |-> got[r]]]
  BY <1>10 DEF Asked, requests, answers
<1>11. ASSUME NEW j \in Posting, ApproveJob(j) PROVE Promise!Approve(j)
  <2>1. \A i \in Posting : posting'[i].approved <=> posting[i].approved \/ i = j
    BY <1>11, <1>t DEF ApproveJob, ChangePosting, TypeOK
  <2>2. {i \in Posting : posting[i].approved}' = {i \in Posting : posting[i].approved} \cup {j}
    BY <2>1
  <2>3. QED  BY <1>10, <1>11, <2>2 DEF ApproveJob, ChangePosting, Promise!Approve
<1>12. ASSUME NEW j \in Posting, CloseJob(j) \/ ReopenJob(j) PROVE UNCHANGED Promise!vars
  <2>1. \A i \in Posting : posting'[i].approved <=> posting[i].approved
    BY <1>12, <1>t DEF CloseJob, ReopenJob, ChangePosting, TypeOK
  <2>2. {i \in Posting : posting[i].approved}' = {i \in Posting : posting[i].approved}
    BY <2>1
  <2>3. QED  BY <1>10, <1>12, <2>2 DEF CloseJob, ReopenJob, ChangePosting, Promise!vars
<1>13. CASE \/ \E p \in Pair : WorkerScores(p)
            \/ UNCHANGED vars
  <2>1. UNCHANGED <<posting, row, rowKey, applied, pc, requests, answers>>
    BY <1>13 DEF WorkerScores, vars, data
  <2>2. QED  BY <1>10, <1>t, <2>1, SameData DEF Promise!vars
<1>14. QED
  BY <1>1, <1>2, <1>3, <1>4, <1>5, <1>6, <1>7, <1>8, <1>9, <1>11, <1>12, <1>13
  DEF Next, Step, Promise!Next, Promise!Pair, Pair

\* Apply implements Applications: every run of the handler, with its lookups,
\* lost answers and crashes, is one of the promise's, whatever keys are sent.
THEOREM KeepsPromiseHolds == Spec => KeepsPromise
<1>1. Init => PastIsApproved  BY DEF Init, PastIsApproved
<1>2. TypeOK /\ PastIsApproved /\ AppliedWasApproved /\ [Next]_vars => PastIsApproved'
  BY ApprovedInv
<1>3. IInv /\ PastIsApproved /\ [Next]_vars => [Promise!Next]_(Promise!vars)
  BY RefineNext
<1>4. QED
  BY RefineInit, InductiveInvariant, TypeCorrect, AppliedWasApprovedHolds,
     <1>1, <1>2, <1>3, PTL
  DEF Spec, KeepsPromise, Promise!Spec
=============================================================================
