-------------------------- MODULE InterviewsProofs --------------------------
(***************************************************************************)
(* Proofs about Interviews, for any applications, students, instants,      *)
(* durations and requests.  What the Redis lock gives is proved under the  *)
(* assumption it needs: no request outlives the 15 s of its lock.          *)
(***************************************************************************)
EXTENDS InterviewRaces, TLAPS

\* An interview that exists has an instant and a duration.
RowsComplete ==
    \A a \in Application : state[a] # "none" => start[a] \in Start /\ len[a] \in Length

\* The steps that write the interview a request has found.
FoundSteps == {"recheck", "saveTime", "saveCancelled", "saveCompleted"}

\* A request under way knows its application, its instant if it has one, and
\* that its interview exists if it found it: an interview is never deleted.
RequestsComplete ==
    \A r \in Req :
        /\ pc[r] # "done" => at[r] \in Application
        /\ pc[r] \in ScheduleSteps \cup RescheduleSteps => when[r] \in Start /\ long[r] \in Length
        /\ pc[r] \in FoundSteps => state[at[r]] # "none"

TypeInv == TypeOK /\ RowsComplete /\ RequestsComplete

\* A request between taking and deleting its lock holds it.
HoldsItsLock == \A r \in Req : InSection(r) => lock[LockOf(r)] = r

\* A request that found no conflict still finds its slot free.
SlotIsFree ==
    \A r \in Req : pc[r] = "create" =>
        \A a \in Application :
            /\ StudentOf[a] = StudentOf[at[r]]
            /\ state[a] = "scheduled" /\ ~moved[a]
            => start[a] # when[r]

IInv == TypeInv /\ HoldsItsLock /\ SlotIsFree /\ SameSlotOnce

\* Two windows that begin together overlap.
LEMMA SameStartOverlaps ==
    ASSUME NEW t \in Nat, NEW d \in Nat, NEW e \in Nat
    PROVE  Overlap(t, d, t, e)
BY DEF Overlap, Buffer

\* Overlap does not depend on which of the two interviews exists already: the
\* buffer, written on one window, holds on both sides.
THEOREM OverlapIsSymmetric ==
    ASSUME NEW s \in Nat, NEW d \in Nat, NEW t \in Nat, NEW e \in Nat
    PROVE  Overlap(s, d, t, e) <=> Overlap(t, e, s, d)
BY DEF Overlap, Buffer

\* What the conflict check lets pass is what is promised: the two windows leave
\* each other more than the buffer, whichever of them is the earlier.
THEOREM NoConflictIsApart ==
    ASSUME NEW s \in Nat, NEW d \in Nat, NEW t \in Nat, NEW e \in Nat
    PROVE  ~Overlap(s, d, t, e) <=> s + d + Buffer < t \/ t + e + Buffer < s
BY DEF Overlap, Buffer

\* The initial state is of its types.
LEMMA InitType == Init => TypeInv
<1> USE StatusAssumption DEF Init
<1>1. Nothing \in Loaded  BY DEF Nothing, Row, Loaded
<1>2. Init => TypeOK  BY <1>1 DEF TypeOK, Steps, Replies
<1>3. Init => RowsComplete  BY DEF RowsComplete
<1>4. Init => RequestsComplete
  BY DEF RequestsComplete, FoundSteps, ScheduleSteps, RescheduleSteps
<1>5. QED  BY <1>2, <1>3, <1>4 DEF TypeInv

\* What a request may load, and what it keeps when it ends, is of its type.
LEMMA RowType ==
    ASSUME NEW s \in Status \cup InterviewStatus \cup {"none"},
           NEW t \in Start \cup {None}, NEW d \in Length \cup {None}
    PROVE  Row(s, t, d) \in Loaded
BY DEF Row, Loaded

\* Giving a lock to a request leaves a table of locks.
LEMMA LockType ==
    ASSUME NEW L \in [Locks -> Req \cup {None}], NEW k \in Locks, NEW r \in Req
    PROVE  [L EXCEPT ![k] = r] \in [Locks -> Req \cup {None}]
OBVIOUS

\* A request that has loaded nothing is of its type.
LEMMA NothingType == Nothing \in Loaded
BY RowType DEF Nothing

\* A request that ends and writes neither interviews nor statuses keeps the
\* types.
LEMMA ForgetType ==
    ASSUME TypeInv, NEW r \in Req, Forget(r), UNCHANGED <<calendar, appStatus>>,
           lock' \in [Locks -> Req \cup {None}],
           told' \in [Application -> {"none", "scheduled", "rescheduled", "cancelled"}],
           reply' \in [Req -> Replies]
    PROVE  TypeInv'
<1> USE DEF TypeInv, Forget, Goto, calendar
<1>1. TypeOK'  BY NothingType DEF TypeOK, Steps
<1>2. RowsComplete'  BY DEF RowsComplete
<1>3. RequestsComplete'
  BY DEF TypeOK, RequestsComplete, FoundSteps, ScheduleSteps, RescheduleSteps
<1>4. QED  BY <1>1, <1>2, <1>3

\* A request that answers without writing keeps the types.
LEMMA AnswerType ==
    ASSUME TypeInv, NEW r \in Req, NEW a \in Replies, Answer(r, a), Reads
    PROVE  TypeInv'
BY ForgetType DEF TypeInv, TypeOK, Answer, Say, Reads

\* A request that loads a row, writes nothing and moves on keeps the types.
LEMMA LoadType ==
    ASSUME TypeInv, NEW r \in Req, NEW row \in Loaded, NEW next \in Steps \ {"done"},
           pc[r] # "done",
           next \in ScheduleSteps \cup RescheduleSteps =>
               pc[r] \in ScheduleSteps \cup RescheduleSteps,
           next \in FoundSteps => state[at[r]] # "none",
           Load(r, row, next), Reads
    PROVE  TypeInv'
<1> USE DEF TypeInv, Load, Goto, Reads, calendar, request
<1>1. TypeOK'  BY DEF TypeOK
<1>2. RowsComplete'  BY DEF RowsComplete
<1>3. RequestsComplete'  BY DEF TypeOK, RequestsComplete
<1>4. QED  BY <1>1, <1>2, <1>3

\* requireOwner keeps the types.
LEMMA FindType ==
    ASSUME TypeInv, NEW r \in Req, NEW here \in Steps \ {"done"}, NEW next \in Steps \ {"done"},
           next \in ScheduleSteps \cup RescheduleSteps =>
               here \in ScheduleSteps \cup RescheduleSteps,
           FindInterview(r, here, next)
    PROVE  TypeInv'
<1>1. CASE Answer(r, "refused")
  BY <1>1, AnswerType DEF FindInterview, Replies
<1>2. CASE /\ state[at[r]] # "none"
           /\ Load(r, Row(state[at[r]], start[at[r]], len[at[r]]), next)
  <2>1. at[r] \in Application  BY DEF FindInterview, TypeInv, RequestsComplete
  <2>2. Row(state[at[r]], start[at[r]], len[at[r]]) \in Loaded
    BY <1>2, <2>1, RowType DEF TypeInv, TypeOK
  <2>3. QED  BY <1>2, <2>2, LoadType DEF FindInterview
<1>3. QED  BY <1>1, <1>2 DEF FindInterview

\* Every step keeps the types, the rows and the requests complete.
LEMMA NextType == TypeInv /\ [Next]_vars => TypeInv'
<1> SUFFICES ASSUME TypeInv, [Next]_vars PROVE TypeInv'  OBVIOUS
<1> USE StatusAssumption, ApplicationsAssumption
        DEF TypeInv, Goto, Say, Advance, Leave, Reads, Arrive, calendar, request,
            Steps, Replies, InterviewStatus, ScheduleSteps, RescheduleSteps,
            CancelSteps, CompleteSteps, FoundSteps, Locks, LockOf
<1>1. ASSUME NEW r \in Req, StartSchedule(r) PROVE TypeInv'
  <2> USE <1>1 DEF StartSchedule
  <2>1. TypeOK'  BY DEF TypeOK, RequestsComplete
  <2>2. RowsComplete'  BY DEF TypeOK, RowsComplete, RequestsComplete
  <2>3. RequestsComplete'  BY DEF TypeOK, RequestsComplete
  <2>4. QED  BY <2>1, <2>2, <2>3
<1>2. ASSUME NEW r \in Req, StartReschedule(r) PROVE TypeInv'
  <2> USE <1>2 DEF StartReschedule
  <2>1. TypeOK'  BY DEF TypeOK, RequestsComplete
  <2>2. RowsComplete'  BY DEF TypeOK, RowsComplete, RequestsComplete
  <2>3. RequestsComplete'  BY DEF TypeOK, RequestsComplete
  <2>4. QED  BY <2>1, <2>2, <2>3
<1>3. ASSUME NEW r \in Req, StartCancel(r) PROVE TypeInv'
  <2> USE <1>3 DEF StartCancel
  <2>1. TypeOK'  BY DEF TypeOK, RequestsComplete
  <2>2. RowsComplete'  BY DEF TypeOK, RowsComplete, RequestsComplete
  <2>3. RequestsComplete'  BY DEF TypeOK, RequestsComplete
  <2>4. QED  BY <2>1, <2>2, <2>3
<1>4. ASSUME NEW r \in Req, StartComplete(r) PROVE TypeInv'
  <2> USE <1>4 DEF StartComplete
  <2>1. TypeOK'  BY DEF TypeOK, RequestsComplete
  <2>2. RowsComplete'  BY DEF TypeOK, RowsComplete, RequestsComplete
  <2>3. RequestsComplete'  BY DEF TypeOK, RequestsComplete
  <2>4. QED  BY <2>1, <2>2, <2>3
<1>5. ASSUME NEW r \in Req, FindApplication(r) PROVE TypeInv'
  <2>1. CASE Answer(r, "refused")  BY <1>5, <2>1, AnswerType DEF FindApplication
  <2>2. CASE Load(r, Row(appStatus[at[r]], None, None), "lock")
    <3>1. at[r] \in Application  BY <1>5 DEF FindApplication, RequestsComplete
    <3>2. Row(appStatus[at[r]], None, None) \in Loaded  BY <3>1, RowType DEF TypeOK
    <3>3. QED  BY <1>5, <2>2, <3>2, LoadType DEF FindApplication
  <2>3. QED  BY <1>5, <2>1, <2>2 DEF FindApplication
<1>6. ASSUME NEW r \in Req, TakeLock(r) PROVE TypeInv'
  <2> USE <1>6 DEF TakeLock
  <2>1. LockOf(r) \in Locks  BY DEF TypeOK, RequestsComplete
  <2>2. lock' \in [Locks -> Req \cup {None}]
    <3>1. lock' = [lock EXCEPT ![LockOf(r)] = r] \/ lock' = lock  OBVIOUS
    <3>2. lock \in [Locks -> Req \cup {None}]  BY DEF TypeOK
    <3>3. [lock EXCEPT ![LockOf(r)] = r] \in [Locks -> Req \cup {None}]  BY <2>1, <3>2, LockType
    <3>4. QED  BY <3>1, <3>2, <3>3
  <2>3. CASE \E a \in Replies : Answer(r, a)
    BY <2>2, <2>3, ForgetType DEF TypeOK, Answer
  <2>4. CASE Advance(r, "check")
    <3>1. TypeOK'  BY <2>2, <2>4 DEF TypeOK
    <3>2. RowsComplete'  BY DEF RowsComplete
    <3>3. RequestsComplete'  BY <2>4 DEF TypeOK, RequestsComplete
    <3>4. QED  BY <3>1, <3>2, <3>3
  <2>5. QED  BY <2>3, <2>4
<1>7. ASSUME NEW r \in Req, CheckConflict(r) PROVE TypeInv'
  <2> USE <1>7 DEF CheckConflict
  <2>1. TypeOK'  BY DEF TypeOK, RequestsComplete
  <2>2. RowsComplete'  BY DEF TypeOK, RowsComplete, RequestsComplete
  <2>3. RequestsComplete'  BY DEF TypeOK, RequestsComplete
  <2>4. QED  BY <2>1, <2>2, <2>3
<1>8. ASSUME NEW r \in Req, CreateInterview(r) PROVE TypeInv'
  <2> USE <1>8 DEF CreateInterview
  <2>1. TypeOK'  BY DEF TypeOK, RequestsComplete
  <2>2. RowsComplete'  BY DEF TypeOK, RowsComplete, RequestsComplete
  <2>3. RequestsComplete'  BY DEF TypeOK, RequestsComplete
  <2>4. QED  BY <2>1, <2>2, <2>3
<1>9. ASSUME NEW r \in Req, SaveApplication(r) PROVE TypeInv'
  <2> USE <1>9 DEF SaveApplication
  <2>1. TypeOK'  BY DEF TypeOK, RequestsComplete
  <2>2. RowsComplete'  BY DEF TypeOK, RowsComplete, RequestsComplete
  <2>3. RequestsComplete'  BY DEF TypeOK, RequestsComplete
  <2>4. QED  BY <2>1, <2>2, <2>3
<1>10. ASSUME NEW r \in Req, EmitScheduled(r) PROVE TypeInv'
  <2> USE <1>10 DEF EmitScheduled, Emit
  <2>1. TypeOK'  BY DEF TypeOK, RequestsComplete
  <2>2. RowsComplete'  BY DEF TypeOK, RowsComplete, RequestsComplete
  <2>3. RequestsComplete'  BY DEF TypeOK, RequestsComplete
  <2>4. QED  BY <2>1, <2>2, <2>3
<1>11. ASSUME NEW r \in Req, Unlock(r) PROVE TypeInv'
  <2>1. lock' \in [Locks -> Req \cup {None}]  BY <1>11 DEF Unlock, TypeOK
  <2>2. QED  BY <1>11, <2>1, ForgetType DEF Unlock, TypeOK
<1>12. ASSUME NEW r \in Req, FindScheduled(r) PROVE TypeInv'
  BY <1>12, FindType DEF FindScheduled
<1>13. ASSUME NEW r \in Req, RecheckConflict(r) PROVE TypeInv'
  <2>1. CASE Answer(r, "refused")  BY <1>13, <2>1, AnswerType DEF RecheckConflict
  <2>2. CASE Advance(r, "saveTime")
    <3> USE <1>13, <2>2 DEF RecheckConflict
    <3>1. TypeOK'  BY DEF TypeOK
    <3>2. RowsComplete'  BY DEF RowsComplete
    <3>3. RequestsComplete'  BY DEF TypeOK, RequestsComplete
    <3>4. QED  BY <3>1, <3>2, <3>3
  <2>3. QED  BY <1>13, <2>1, <2>2 DEF RecheckConflict
<1>14. ASSUME NEW r \in Req, SaveTime(r) PROVE TypeInv'
  <2> USE <1>14 DEF SaveTime
  <2>1. TypeOK'  BY DEF TypeOK, RequestsComplete
  <2>2. RowsComplete'  BY DEF TypeOK, RowsComplete, RequestsComplete
  <2>3. RequestsComplete'  BY DEF TypeOK, RequestsComplete
  <2>4. QED  BY <2>1, <2>2, <2>3
<1>15. ASSUME NEW r \in Req, EmitRescheduled(r) PROVE TypeInv'
  <2>1. told' \in [Application -> {"none", "scheduled", "rescheduled", "cancelled"}]
    BY <1>15 DEF EmitRescheduled, Emit, TypeOK
  <2>2. QED  BY <1>15, <2>1, ForgetType DEF EmitRescheduled, Answer, TypeOK
<1>16. ASSUME NEW r \in Req, FindAny(r) PROVE TypeInv'
  BY <1>16, FindType DEF FindAny
<1>17. ASSUME NEW r \in Req, SaveCancelled(r) PROVE TypeInv'
  <2> USE <1>17 DEF SaveCancelled, SaveState
  <2>1. TypeOK'  BY DEF TypeOK, RequestsComplete
  <2>2. RowsComplete'  BY DEF TypeOK, RowsComplete, RequestsComplete
  <2>3. RequestsComplete'  BY DEF TypeOK, RequestsComplete
  <2>4. QED  BY <2>1, <2>2, <2>3
<1>18. ASSUME NEW r \in Req, ResetApplication(r) PROVE TypeInv'
  <2> USE <1>18 DEF ResetApplication
  <2>1. TypeOK'  BY DEF TypeOK, RequestsComplete
  <2>2. RowsComplete'  BY DEF TypeOK, RowsComplete, RequestsComplete
  <2>3. RequestsComplete'  BY DEF TypeOK, RequestsComplete
  <2>4. QED  BY <2>1, <2>2, <2>3
<1>19. ASSUME NEW r \in Req, EmitCancelled(r) PROVE TypeInv'
  <2>1. told' \in [Application -> {"none", "scheduled", "rescheduled", "cancelled"}]
    BY <1>19 DEF EmitCancelled, Emit, TypeOK
  <2>2. QED  BY <1>19, <2>1, ForgetType DEF EmitCancelled, Answer, TypeOK
<1>20. ASSUME NEW r \in Req, FindDone(r) PROVE TypeInv'
  BY <1>20, FindType DEF FindDone
<1>21. ASSUME NEW r \in Req, SaveCompleted(r) PROVE TypeInv'
  <2> USE <1>21 DEF SaveCompleted, SaveState
  <2>1. at[r] \in Application /\ state[at[r]] # "none"  BY DEF RequestsComplete
  <2>2. state' \in [Application -> InterviewStatus \cup {"none"}]  BY DEF TypeOK
  <2>3. \A a \in Application : state'[a] # "none" <=> state[a] # "none"
    BY <2>1 DEF TypeOK
  <2>4. TypeOK'  BY <2>2, NothingType DEF TypeOK, Answer, Forget
  <2>5. RowsComplete'  BY <2>3 DEF RowsComplete
  <2>6. RequestsComplete'  BY <2>3 DEF TypeOK, RequestsComplete, Answer, Forget
  <2>7. QED  BY <2>4, <2>5, <2>6
<1>22. ASSUME NEW r \in Req, Throw(r) PROVE TypeInv'
  <2> USE <1>22 DEF Throw
  <2>1. TypeOK'  BY DEF TypeOK, RequestsComplete
  <2>2. RowsComplete'  BY DEF TypeOK, RowsComplete, RequestsComplete
  <2>3. RequestsComplete'  BY DEF TypeOK, RequestsComplete
  <2>4. QED  BY <2>1, <2>2, <2>3
<1>23. ASSUME NEW r \in Req, Die(r) PROVE TypeInv'
  BY <1>23, AnswerType DEF Die
<1>24. ASSUME NEW k \in Locks, LockExpires(k) PROVE TypeInv'
  BY <1>24 DEF LockExpires, TypeOK, RowsComplete, RequestsComplete
<1>25. ASSUME UNCHANGED vars PROVE TypeInv'
  BY <1>25 DEF vars, TypeOK, RowsComplete, RequestsComplete
<1>26. QED
  BY <1>1, <1>2, <1>3, <1>4, <1>5, <1>6, <1>7, <1>8, <1>9, <1>10, <1>11, <1>12, <1>13, <1>14, <1>15, <1>16, <1>17, <1>18, <1>19, <1>20, <1>21, <1>22, <1>23, <1>24, <1>25
  DEF Next, Arrivals, Step, Schedule, Reschedule, Cancel, Complete

\* Every state of every behaviour is of its types: no handler stores, keeps or
\* answers anything else (interviews.service.ts:38-162).
THEOREM TypeCorrect == Spec => []TypeOK
<1>1. Spec => []TypeInv  BY InitType, NextType, PTL DEF Spec
<1>2. TypeInv => TypeOK  BY DEF TypeInv
<1>3. QED  BY <1>1, <1>2, PTL

----------------------------------------------------------------------------
(* What the lock gives *)

\* A request that schedules has a lock of its own to take.
LEMMA LockIsOne ==
    ASSUME TypeInv, NEW q \in Req, pc[q] \in ScheduleSteps
    PROVE  LockOf(q) \in Locks
BY ApplicationsAssumption DEF TypeInv, RequestsComplete, LockOf, Locks, ScheduleSteps

\* The initial state satisfies the inductive invariant.
LEMMA InitInv == Init => IInv
BY InitType DEF Init, IInv, HoldsItsLock, SlotIsFree, SameSlotOnce, InSection

\* Every step preserves the inductive invariant.
LEMMA NextInv ==
    ASSUME ~SlowRequests
    PROVE  IInv /\ [Next]_vars => IInv'
<1> SUFFICES ASSUME IInv, [Next]_vars
             PROVE  HoldsItsLock' /\ SlotIsFree' /\ SameSlotOnce'
  BY NextType DEF IInv
<1> USE NoneAssumption
        DEF IInv, InSection, LockOf, Goto, Say, Advance, Leave, Load, Answer, Forget,
            Reads, Arrive, calendar, request
<1>1. ASSUME NEW r \in Req, StartSchedule(r)
      PROVE  HoldsItsLock' /\ SlotIsFree' /\ SameSlotOnce'
  <2> USE <1>1 DEF StartSchedule
  <2>1. HoldsItsLock'  BY DEF TypeInv, TypeOK, RequestsComplete, HoldsItsLock
  <2>2. SlotIsFree'  BY DEF TypeInv, TypeOK, RequestsComplete, SlotIsFree
  <2>3. SameSlotOnce'  BY DEF TypeInv, TypeOK, RequestsComplete, SameSlotOnce
  <2>4. QED  BY <2>1, <2>2, <2>3
<1>2. ASSUME NEW r \in Req, StartReschedule(r)
      PROVE  HoldsItsLock' /\ SlotIsFree' /\ SameSlotOnce'
  <2> USE <1>2 DEF StartReschedule
  <2>1. HoldsItsLock'  BY DEF TypeInv, TypeOK, RequestsComplete, HoldsItsLock
  <2>2. SlotIsFree'  BY DEF TypeInv, TypeOK, RequestsComplete, SlotIsFree
  <2>3. SameSlotOnce'  BY DEF TypeInv, TypeOK, RequestsComplete, SameSlotOnce
  <2>4. QED  BY <2>1, <2>2, <2>3
<1>3. ASSUME NEW r \in Req, StartCancel(r)
      PROVE  HoldsItsLock' /\ SlotIsFree' /\ SameSlotOnce'
  <2> USE <1>3 DEF StartCancel
  <2>1. HoldsItsLock'  BY DEF TypeInv, TypeOK, RequestsComplete, HoldsItsLock
  <2>2. SlotIsFree'  BY DEF TypeInv, TypeOK, RequestsComplete, SlotIsFree
  <2>3. SameSlotOnce'  BY DEF TypeInv, TypeOK, RequestsComplete, SameSlotOnce
  <2>4. QED  BY <2>1, <2>2, <2>3
<1>4. ASSUME NEW r \in Req, StartComplete(r)
      PROVE  HoldsItsLock' /\ SlotIsFree' /\ SameSlotOnce'
  <2> USE <1>4 DEF StartComplete
  <2>1. HoldsItsLock'  BY DEF TypeInv, TypeOK, RequestsComplete, HoldsItsLock
  <2>2. SlotIsFree'  BY DEF TypeInv, TypeOK, RequestsComplete, SlotIsFree
  <2>3. SameSlotOnce'  BY DEF TypeInv, TypeOK, RequestsComplete, SameSlotOnce
  <2>4. QED  BY <2>1, <2>2, <2>3
<1>5. ASSUME NEW r \in Req, FindApplication(r)
      PROVE  HoldsItsLock' /\ SlotIsFree' /\ SameSlotOnce'
  <2> USE <1>5 DEF FindApplication
  <2>1. HoldsItsLock'  BY DEF TypeInv, TypeOK, RequestsComplete, HoldsItsLock
  <2>2. SlotIsFree'  BY DEF TypeInv, TypeOK, RequestsComplete, SlotIsFree
  <2>3. SameSlotOnce'  BY DEF TypeInv, TypeOK, RequestsComplete, SameSlotOnce
  <2>4. QED  BY <2>1, <2>2, <2>3
<1>6. ASSUME NEW r \in Req, TakeLock(r)
      PROVE  HoldsItsLock' /\ SlotIsFree' /\ SameSlotOnce'
  <2> USE <1>6 DEF TakeLock
  <2>1. HoldsItsLock'
    <3> SUFFICES ASSUME NEW q \in Req, InSection(q)' PROVE lock'[LockOf(q)'] = q
      BY DEF HoldsItsLock
    <3>1. LockOf(r) \in Locks  BY LockIsOne DEF ScheduleSteps
    <3>2. CASE q = r
      <4>1. lock' = [lock EXCEPT ![LockOf(r)] = r] /\ request' = request
        BY <3>2 DEF TypeInv, TypeOK
      <4>2. QED  BY <3>1, <3>2, <4>1 DEF TypeInv, TypeOK
    <3>3. CASE q # r
      <4>1. InSection(q) /\ LockOf(q)' = LockOf(q)  BY <3>3 DEF TypeInv, TypeOK
      <4>2. lock[LockOf(q)] = q  BY <4>1 DEF HoldsItsLock
      <4>3. LockOf(q) \in Locks  BY <4>1, LockIsOne DEF ScheduleSteps
      <4>4. lock' = lock \/ (lock[LockOf(r)] = None /\ lock' = [lock EXCEPT ![LockOf(r)] = r])
        OBVIOUS
      <4>5. QED  BY <4>1, <4>2, <4>3, <4>4 DEF TypeInv, TypeOK
    <3>4. QED  BY <3>2, <3>3
  <2>2. SlotIsFree'  BY DEF TypeInv, TypeOK, RequestsComplete, SlotIsFree
  <2>3. SameSlotOnce'  BY DEF TypeInv, TypeOK, RequestsComplete, SameSlotOnce
  <2>4. QED  BY <2>1, <2>2, <2>3
<1>7. ASSUME NEW r \in Req, CheckConflict(r)
      PROVE  HoldsItsLock' /\ SlotIsFree' /\ SameSlotOnce'
  <2> USE <1>7 DEF CheckConflict
  <2>1. HoldsItsLock'  BY DEF TypeInv, TypeOK, RequestsComplete, HoldsItsLock
  <2>2. SlotIsFree'
    <3>1. CASE Leave(r, "refused")
      BY <3>1 DEF TypeInv, TypeOK, SlotIsFree
    <3>2. CASE ~HasConflict(r, Application) /\ Advance(r, "create")
      <4> SUFFICES ASSUME NEW q \in Req, pc'[q] = "create", NEW a \in Application,
                          StudentOf[a] = StudentOf[at[q]], state[a] = "scheduled", ~moved[a],
                          start[a] = when[q]
                   PROVE  FALSE
        BY <3>2 DEF SlotIsFree
      <4>1. q = r  BY <3>2 DEF TypeInv, TypeOK, SlotIsFree
      <4>2. start[a] \in Nat /\ len[a] \in Nat /\ long[r] \in Nat
        BY NumbersAssumption DEF TypeInv, RowsComplete, RequestsComplete, ScheduleSteps
      <4>3. Overlap(start[a], len[a], when[r], long[r])
        BY <4>1, <4>2, SameStartOverlaps
      <4>4. QED  BY <3>2, <4>1, <4>3 DEF HasConflict
    <3>3. QED  BY <3>1, <3>2
  <2>3. SameSlotOnce'  BY DEF TypeInv, TypeOK, RequestsComplete, SameSlotOnce
  <2>4. QED  BY <2>1, <2>2, <2>3
<1>8. ASSUME NEW r \in Req, CreateInterview(r)
      PROVE  HoldsItsLock' /\ SlotIsFree' /\ SameSlotOnce'
  <2> USE <1>8 DEF CreateInterview
  <2>1. HoldsItsLock'  BY DEF TypeInv, TypeOK, RequestsComplete, HoldsItsLock
  <2>0. at[r] \in Application /\ when[r] \in Start
    BY DEF TypeInv, RequestsComplete, ScheduleSteps
  <2>2. SlotIsFree'
    <3>1. CASE state[at[r]] # "none"
      BY <3>1 DEF TypeInv, TypeOK, SlotIsFree
    <3>2. CASE state[at[r]] = "none"
      <4> SUFFICES ASSUME NEW q \in Req, pc'[q] = "create", NEW a \in Application,
                          StudentOf[a] = StudentOf[at[q]], state'[a] = "scheduled", ~moved[a],
                          start'[a] = when[q]
                   PROVE  FALSE
        BY <3>2 DEF SlotIsFree
      <4>1. q # r /\ pc[q] = "create"  BY <3>2 DEF TypeInv, TypeOK
      <4>2. lock[LockOf(q)] = q /\ lock[LockOf(r)] = r  BY <4>1 DEF HoldsItsLock
      <4>3. CASE a = at[r]
        <5>1. start'[a] = when[r]  BY <2>0, <3>2, <4>3 DEF TypeInv, TypeOK
        <5>2. QED  BY <4>1, <4>2, <4>3, <5>1
      <4>4. CASE a # at[r]
        <5>1. state[a] = "scheduled" /\ start[a] = when[q]  BY <3>2, <4>4 DEF TypeInv, TypeOK
        <5>2. QED  BY <4>1, <5>1 DEF SlotIsFree
      <4>5. QED  BY <4>3, <4>4
    <3>3. QED  BY <3>1, <3>2
  <2>3. SameSlotOnce'
    <3>1. CASE state[at[r]] # "none"
      BY <3>1 DEF TypeInv, TypeOK, SameSlotOnce
    <3>2. CASE state[at[r]] = "none"
      <4>1. /\ state' = [state EXCEPT ![at[r]] = "scheduled"]
            /\ start' = [start EXCEPT ![at[r]] = when[r]]
            /\ moved' = moved
        BY <3>2
      <4>2. \A a \in Application :
               StudentOf[a] = StudentOf[at[r]] /\ state[a] = "scheduled" /\ ~moved[a]
               => start[a] # when[r]
        BY DEF SlotIsFree
      <4>3. QED  BY <2>0, <4>1, <4>2 DEF TypeInv, TypeOK, SameSlotOnce
    <3>3. QED  BY <3>1, <3>2
  <2>4. QED  BY <2>1, <2>2, <2>3
<1>9. ASSUME NEW r \in Req, SaveApplication(r)
      PROVE  HoldsItsLock' /\ SlotIsFree' /\ SameSlotOnce'
  <2> USE <1>9 DEF SaveApplication
  <2>1. HoldsItsLock'  BY DEF TypeInv, TypeOK, RequestsComplete, HoldsItsLock
  <2>2. SlotIsFree'  BY DEF TypeInv, TypeOK, RequestsComplete, SlotIsFree
  <2>3. SameSlotOnce'  BY DEF TypeInv, TypeOK, RequestsComplete, SameSlotOnce
  <2>4. QED  BY <2>1, <2>2, <2>3
<1>10. ASSUME NEW r \in Req, EmitScheduled(r)
      PROVE  HoldsItsLock' /\ SlotIsFree' /\ SameSlotOnce'
  <2> USE <1>10 DEF EmitScheduled, Emit
  <2>1. HoldsItsLock'  BY DEF TypeInv, TypeOK, RequestsComplete, HoldsItsLock
  <2>2. SlotIsFree'  BY DEF TypeInv, TypeOK, RequestsComplete, SlotIsFree
  <2>3. SameSlotOnce'  BY DEF TypeInv, TypeOK, RequestsComplete, SameSlotOnce
  <2>4. QED  BY <2>1, <2>2, <2>3
<1>11. ASSUME NEW r \in Req, Unlock(r)
      PROVE  HoldsItsLock' /\ SlotIsFree' /\ SameSlotOnce'
  <2> USE <1>11 DEF Unlock
  <2>1. HoldsItsLock'
    <3> SUFFICES ASSUME NEW q \in Req, InSection(q)' PROVE lock'[LockOf(q)'] = q
      BY DEF HoldsItsLock
    <3>1. q # r  BY DEF TypeInv, TypeOK
    <3>2. InSection(q) /\ LockOf(q)' = LockOf(q)  BY <3>1 DEF TypeInv, TypeOK
    <3>3. lock[LockOf(q)] = q /\ lock[LockOf(r)] = r  BY <3>2 DEF HoldsItsLock
    <3>4. LockOf(q) \in Locks  BY <3>2, LockIsOne DEF ScheduleSteps
    <3>5. lock' \in {lock, [lock EXCEPT ![LockOf(r)] = None]}  OBVIOUS
    <3>6. QED  BY <3>1, <3>2, <3>3, <3>4, <3>5 DEF TypeInv, TypeOK
  <2>2. SlotIsFree'  BY DEF TypeInv, TypeOK, RequestsComplete, SlotIsFree
  <2>3. SameSlotOnce'  BY DEF TypeInv, TypeOK, RequestsComplete, SameSlotOnce
  <2>4. QED  BY <2>1, <2>2, <2>3
<1>12. ASSUME NEW r \in Req, FindScheduled(r)
      PROVE  HoldsItsLock' /\ SlotIsFree' /\ SameSlotOnce'
  <2> USE <1>12 DEF FindScheduled, FindInterview
  <2>1. HoldsItsLock'  BY DEF TypeInv, TypeOK, RequestsComplete, HoldsItsLock
  <2>2. SlotIsFree'  BY DEF TypeInv, TypeOK, RequestsComplete, SlotIsFree
  <2>3. SameSlotOnce'  BY DEF TypeInv, TypeOK, RequestsComplete, SameSlotOnce
  <2>4. QED  BY <2>1, <2>2, <2>3
<1>13. ASSUME NEW r \in Req, RecheckConflict(r)
      PROVE  HoldsItsLock' /\ SlotIsFree' /\ SameSlotOnce'
  <2> USE <1>13 DEF RecheckConflict
  <2>1. HoldsItsLock'  BY DEF TypeInv, TypeOK, RequestsComplete, HoldsItsLock
  <2>2. SlotIsFree'  BY DEF TypeInv, TypeOK, RequestsComplete, SlotIsFree
  <2>3. SameSlotOnce'  BY DEF TypeInv, TypeOK, RequestsComplete, SameSlotOnce
  <2>4. QED  BY <2>1, <2>2, <2>3
<1>14. ASSUME NEW r \in Req, SaveTime(r)
      PROVE  HoldsItsLock' /\ SlotIsFree' /\ SameSlotOnce'
  <2> USE <1>14 DEF SaveTime
  <2>1. HoldsItsLock'  BY DEF TypeInv, TypeOK, RequestsComplete, HoldsItsLock
  <2>2. SlotIsFree'
    <3>1. \A a \in Application : ~moved'[a] => ~moved[a] /\ start'[a] = start[a]
      BY DEF TypeInv, TypeOK
    <3>2. QED  BY <3>1 DEF TypeInv, TypeOK, SlotIsFree
  <2>3. SameSlotOnce'
    <3>1. \A a \in Application : ~moved'[a] => ~moved[a] /\ start'[a] = start[a]
      BY DEF TypeInv, TypeOK
    <3>2. QED  BY <3>1 DEF TypeInv, TypeOK, SameSlotOnce
  <2>4. QED  BY <2>1, <2>2, <2>3
<1>15. ASSUME NEW r \in Req, EmitRescheduled(r)
      PROVE  HoldsItsLock' /\ SlotIsFree' /\ SameSlotOnce'
  <2> USE <1>15 DEF EmitRescheduled, Emit
  <2>1. HoldsItsLock'  BY DEF TypeInv, TypeOK, RequestsComplete, HoldsItsLock
  <2>2. SlotIsFree'  BY DEF TypeInv, TypeOK, RequestsComplete, SlotIsFree
  <2>3. SameSlotOnce'  BY DEF TypeInv, TypeOK, RequestsComplete, SameSlotOnce
  <2>4. QED  BY <2>1, <2>2, <2>3
<1>16. ASSUME NEW r \in Req, FindAny(r)
      PROVE  HoldsItsLock' /\ SlotIsFree' /\ SameSlotOnce'
  <2> USE <1>16 DEF FindAny, FindInterview
  <2>1. HoldsItsLock'  BY DEF TypeInv, TypeOK, RequestsComplete, HoldsItsLock
  <2>2. SlotIsFree'  BY DEF TypeInv, TypeOK, RequestsComplete, SlotIsFree
  <2>3. SameSlotOnce'  BY DEF TypeInv, TypeOK, RequestsComplete, SameSlotOnce
  <2>4. QED  BY <2>1, <2>2, <2>3
<1>17. ASSUME NEW r \in Req, SaveCancelled(r)
      PROVE  HoldsItsLock' /\ SlotIsFree' /\ SameSlotOnce'
  <2> USE <1>17 DEF SaveCancelled, SaveState
  <2>1. HoldsItsLock'  BY DEF TypeInv, TypeOK, RequestsComplete, HoldsItsLock
  <2>2. SlotIsFree'  BY DEF TypeInv, TypeOK, RequestsComplete, SlotIsFree
  <2>3. SameSlotOnce'  BY DEF TypeInv, TypeOK, RequestsComplete, SameSlotOnce
  <2>4. QED  BY <2>1, <2>2, <2>3
<1>18. ASSUME NEW r \in Req, ResetApplication(r)
      PROVE  HoldsItsLock' /\ SlotIsFree' /\ SameSlotOnce'
  <2> USE <1>18 DEF ResetApplication
  <2>1. HoldsItsLock'  BY DEF TypeInv, TypeOK, RequestsComplete, HoldsItsLock
  <2>2. SlotIsFree'  BY DEF TypeInv, TypeOK, RequestsComplete, SlotIsFree
  <2>3. SameSlotOnce'  BY DEF TypeInv, TypeOK, RequestsComplete, SameSlotOnce
  <2>4. QED  BY <2>1, <2>2, <2>3
<1>19. ASSUME NEW r \in Req, EmitCancelled(r)
      PROVE  HoldsItsLock' /\ SlotIsFree' /\ SameSlotOnce'
  <2> USE <1>19 DEF EmitCancelled, Emit
  <2>1. HoldsItsLock'  BY DEF TypeInv, TypeOK, RequestsComplete, HoldsItsLock
  <2>2. SlotIsFree'  BY DEF TypeInv, TypeOK, RequestsComplete, SlotIsFree
  <2>3. SameSlotOnce'  BY DEF TypeInv, TypeOK, RequestsComplete, SameSlotOnce
  <2>4. QED  BY <2>1, <2>2, <2>3
<1>20. ASSUME NEW r \in Req, FindDone(r)
      PROVE  HoldsItsLock' /\ SlotIsFree' /\ SameSlotOnce'
  <2> USE <1>20 DEF FindDone, FindInterview
  <2>1. HoldsItsLock'  BY DEF TypeInv, TypeOK, RequestsComplete, HoldsItsLock
  <2>2. SlotIsFree'  BY DEF TypeInv, TypeOK, RequestsComplete, SlotIsFree
  <2>3. SameSlotOnce'  BY DEF TypeInv, TypeOK, RequestsComplete, SameSlotOnce
  <2>4. QED  BY <2>1, <2>2, <2>3
<1>21. ASSUME NEW r \in Req, SaveCompleted(r)
      PROVE  HoldsItsLock' /\ SlotIsFree' /\ SameSlotOnce'
  <2> USE <1>21 DEF SaveCompleted, SaveState
  <2>1. HoldsItsLock'  BY DEF TypeInv, TypeOK, RequestsComplete, HoldsItsLock
  <2>2. SlotIsFree'  BY DEF TypeInv, TypeOK, RequestsComplete, SlotIsFree
  <2>3. SameSlotOnce'  BY DEF TypeInv, TypeOK, RequestsComplete, SameSlotOnce
  <2>4. QED  BY <2>1, <2>2, <2>3
<1>22. ASSUME NEW r \in Req, Throw(r)
      PROVE  HoldsItsLock' /\ SlotIsFree' /\ SameSlotOnce'
  <2> USE <1>22 DEF Throw
  <2>1. HoldsItsLock'  BY DEF TypeInv, TypeOK, RequestsComplete, HoldsItsLock
  <2>2. SlotIsFree'  BY DEF TypeInv, TypeOK, RequestsComplete, SlotIsFree
  <2>3. SameSlotOnce'  BY DEF TypeInv, TypeOK, RequestsComplete, SameSlotOnce
  <2>4. QED  BY <2>1, <2>2, <2>3
<1>23. ASSUME NEW r \in Req, Die(r)
      PROVE  HoldsItsLock' /\ SlotIsFree' /\ SameSlotOnce'
  <2> USE <1>23 DEF Die
  <2>1. HoldsItsLock'  BY DEF TypeInv, TypeOK, RequestsComplete, HoldsItsLock
  <2>2. SlotIsFree'  BY DEF TypeInv, TypeOK, RequestsComplete, SlotIsFree
  <2>3. SameSlotOnce'  BY DEF TypeInv, TypeOK, RequestsComplete, SameSlotOnce
  <2>4. QED  BY <2>1, <2>2, <2>3
<1>24. ASSUME NEW k \in Locks, LockExpires(k)
      PROVE  HoldsItsLock' /\ SlotIsFree' /\ SameSlotOnce'
  BY <1>24 DEF LockExpires, TypeInv, TypeOK, HoldsItsLock, SlotIsFree, SameSlotOnce
<1>25. ASSUME UNCHANGED vars PROVE HoldsItsLock' /\ SlotIsFree' /\ SameSlotOnce'
  BY <1>25 DEF vars, HoldsItsLock, SlotIsFree, SameSlotOnce
<1>26. QED
  BY <1>1, <1>2, <1>3, <1>4, <1>5, <1>6, <1>7, <1>8, <1>9, <1>10, <1>11, <1>12, <1>13, <1>14, <1>15, <1>16, <1>17, <1>18, <1>19, <1>20, <1>21, <1>22, <1>23, <1>24, <1>25
  DEF Next, Arrivals, Step, Schedule, Reschedule, Cancel, Complete, Locks, TypeInv, TypeOK, RequestsComplete

\* While no request outlives its lock, the section of schedule between taking
\* and deleting the lock is exclusive for each student and instant
\* (interviews.service.ts:47-56, 88-90).
THEOREM OneBookerPerSlotHolds ==
    ASSUME ~SlowRequests
    PROVE  Spec => []OneBookerPerSlot
<1>1. Spec => []IInv  BY InitInv, NextInv, PTL DEF Spec
<1>2. IInv => OneBookerPerSlot
  BY DEF IInv, HoldsItsLock, OneBookerPerSlot
<1>3. QED  BY <1>1, <1>2, PTL

\* While no request outlives its lock, schedule books an instant of a student
\* once (interviews.service.ts:57-71).
THEOREM SameSlotOnceHolds ==
    ASSUME ~SlowRequests
    PROVE  Spec => []SameSlotOnce
<1>1. Spec => []IInv  BY InitInv, NextInv, PTL DEF Spec
<1>2. IInv => SameSlotOnce  BY DEF IInv
<1>3. QED  BY <1>1, <1>2, PTL

----------------------------------------------------------------------------
(* What the races leave *)

\* What request r has found is still so while it has no news of it, and it is
\* about to write a time only of an interview it has found scheduled.
SeenIsNow(r) ==
    /\ pc[r] \in FoundSteps /\ at[r] \notin news[r] =>
          seen[r] = Row(state[at[r]], start[at[r]], len[at[r]])
    /\ pc[r] = "saveTime" => seen[r].status = "scheduled"

\* The window request r has found free is still free of every interview it has
\* no news of.
ScanHolds(r) ==
    pc[r] \in {"create", "saveTime"} =>
        \A b \in Application \ (news[r] \cup {at[r]}) :
            StudentOf[b] = StudentOf[at[r]] /\ state[b] = "scheduled"
            => ~Overlap(start[b], len[b], when[r], long[r])

\* If request r owes an event and has no news of its interview, it left it so
\* that the event says where it stands.
EventIsDue(r) ==
    at[r] \notin news[r] =>
        /\ pc[r] \in {"saveApp", "emitScheduled"} => state[at[r]] = "scheduled" /\ ~moved[at[r]]
        /\ pc[r] = "emitRescheduled" => state[at[r]] = "scheduled"
        /\ pc[r] \in {"resetApp", "emitCancelled"} => state[at[r]] = "cancelled"

UpToDate(r) == SeenIsNow(r) /\ ScanHolds(r) /\ EventIsDue(r)

\* Only an interview that exists has been moved.
MovedExists == \A a \in Application : moved[a] => state[a] # "none"

RacesInv ==
    /\ TypeInv /\ HistoryOK /\ MovedExists
    /\ \A r \in Req : UpToDate(r)
    /\ NoOverlapUnlessRaced /\ LastEventIsTrue

\* A step of a request, whatever it does to the history.
Acts(r) == Arrivals(r) \/ Step(r) \/ Throw(r) \/ Die(r)

\* A step of r leaves the other requests and the other interviews alone.
OthersKeep(r) ==
    /\ \A q \in Req \ {r} :
          /\ pc'[q] = pc[q] /\ at'[q] = at[q] /\ when'[q] = when[q]
          /\ long'[q] = long[q] /\ seen'[q] = seen[q]
    /\ \A a \in Application \ {at[r]} :
          /\ state'[a] = state[a] /\ start'[a] = start[a] /\ len'[a] = len[a]
          /\ moved'[a] = moved[a] /\ told'[a] = told[a]

Silent == calendar' = calendar /\ told' = told

\* What a step of r may be, as far as times and events go.
Aside(r) ==
    /\ Silent
    /\ pc[r] \notin EventSteps
    /\ pc'[r] \notin FoundSteps \cup EventSteps \cup {"create"}

Found(r) ==
    /\ Silent
    /\ pc[r] \in {"findScheduled", "findAny", "findDone"}
    /\ pc'[r] \in FoundSteps \ {"saveTime"}
    /\ at'[r] = at[r] /\ at[r] \in Application
    /\ seen'[r] = Row(state[at[r]], start[at[r]], len[at[r]])

Scanned(r) ==
    /\ Silent /\ UNCHANGED <<request, seen>>
    /\ at[r] \in Application
    /\ ~HasConflict(r, Application \ {at[r]})
    /\ \/ pc[r] = "check" /\ pc'[r] = "create"
       \/ pc[r] = "recheck" /\ pc'[r] = "saveTime" /\ seen[r].status = "scheduled"

Created(r) == CreateInterview(r) /\ state[at[r]] = "none"

OnItsWay(r) ==
    /\ Silent /\ UNCHANGED <<request, seen>>
    /\ \/ pc[r] = "saveApp" /\ pc'[r] = "emitScheduled"
       \/ pc[r] = "resetApp" /\ pc'[r] = "emitCancelled"

Emitted(r) ==
    /\ UNCHANGED calendar /\ at[r] \in Application
    /\ pc'[r] \in {"unlock", "done"} /\ reply'[r] \in {"booked", "ok"}
    /\ \/ pc[r] = "emitScheduled" /\ told'[at[r]] = "scheduled"
       \/ pc[r] = "emitRescheduled" /\ told'[at[r]] = "rescheduled"
       \/ pc[r] = "emitCancelled" /\ told'[at[r]] = "cancelled"

Lost(r) ==
    /\ Silent /\ at[r] \in Application
    /\ pc[r] \in EventSteps /\ pc'[r] \in {"unlock", "done"}
    /\ reply'[r] \notin {"booked", "ok"}

Kinds(r) ==
    \/ Aside(r) \/ Found(r) \/ Scanned(r) \/ Created(r) \/ SaveTime(r) \/ SaveCancelled(r)
    \/ SaveCompleted(r) \/ OnItsWay(r) \/ Emitted(r) \/ Lost(r)

\* Every step of a request is of one of these kinds, and touches no other.
LEMMA StepKinds ==
    ASSUME TypeInv, NEW r \in Req, Acts(r)
    PROVE  OthersKeep(r) /\ Kinds(r)
<1> USE DEF OthersKeep, Kinds, Silent, Goto, Say, Advance, Leave, Load, Answer, Forget, Reads,
            Arrive, calendar, request, FoundSteps, EventSteps
<1>0. pc[r] # "done" => at[r] \in Application  BY DEF TypeInv, RequestsComplete
<1>1. CASE Arrivals(r)
  <2>1. OthersKeep(r)
    BY <1>1 DEF Arrivals, StartSchedule, StartReschedule, StartCancel, StartComplete, TypeInv, TypeOK
  <2>2. Aside(r)
    BY <1>1 DEF Arrivals, StartSchedule, StartReschedule, StartCancel, StartComplete, TypeInv, TypeOK,
       Aside
  <2>3. QED  BY <2>1, <2>2
<1>2. CASE FindApplication(r) \/ TakeLock(r) \/ Unlock(r)
  <2>1. OthersKeep(r)  BY <1>2 DEF FindApplication, TakeLock, Unlock, TypeInv, TypeOK
  <2>2. Aside(r)  BY <1>2 DEF FindApplication, TakeLock, Unlock, TypeInv, TypeOK, Aside
  <2>3. QED  BY <2>1, <2>2
<1>3. CASE FindScheduled(r) \/ FindAny(r) \/ FindDone(r)
  <2>1. OthersKeep(r)
    BY <1>3 DEF FindScheduled, FindAny, FindDone, FindInterview, TypeInv, TypeOK
  <2>2. Aside(r) \/ Found(r)
    BY <1>0, <1>3 DEF FindScheduled, FindAny, FindDone, FindInterview, TypeInv, TypeOK, Aside, Found
  <2>3. QED  BY <2>1, <2>2
<1>4. CASE CheckConflict(r)
  <2>1. OthersKeep(r)  BY <1>4 DEF CheckConflict, TypeInv, TypeOK
  <2>2. Aside(r) \/ Scanned(r)
    BY <1>0, <1>4 DEF CheckConflict, TypeInv, TypeOK, Aside, Scanned, HasConflict
  <2>3. QED  BY <2>1, <2>2
<1>5. CASE RecheckConflict(r)
  <2>1. OthersKeep(r)  BY <1>5 DEF RecheckConflict, TypeInv, TypeOK
  <2>2. Aside(r) \/ Scanned(r)
    BY <1>0, <1>5 DEF RecheckConflict, TypeInv, TypeOK, Aside, Scanned
  <2>3. QED  BY <2>1, <2>2
<1>6. CASE CreateInterview(r)
  <2>1. OthersKeep(r)  BY <1>0, <1>6 DEF CreateInterview, TypeInv, TypeOK
  <2>2. Created(r) \/ Aside(r)
    BY <1>6 DEF CreateInterview, Created, Aside, TypeInv, TypeOK
  <2>3. QED  BY <2>1, <2>2
<1>7. CASE SaveTime(r)
  BY <1>0, <1>7 DEF SaveTime, TypeInv, TypeOK
<1>8. CASE SaveCancelled(r) \/ SaveCompleted(r)
  BY <1>0, <1>8 DEF SaveCancelled, SaveCompleted, SaveState, TypeInv, TypeOK
<1>9. CASE SaveApplication(r) \/ ResetApplication(r)
  <2>1. OthersKeep(r)  BY <1>9 DEF SaveApplication, ResetApplication, TypeInv, TypeOK
  <2>2. OnItsWay(r)  BY <1>9 DEF SaveApplication, ResetApplication, TypeInv, TypeOK, OnItsWay
  <2>3. QED  BY <2>1, <2>2
<1>10. CASE EmitScheduled(r) \/ EmitRescheduled(r) \/ EmitCancelled(r)
  <2>1. OthersKeep(r)
    BY <1>0, <1>10 DEF EmitScheduled, EmitRescheduled, EmitCancelled, Emit, TypeInv, TypeOK
  <2>2. Emitted(r)
    BY <1>0, <1>10 DEF EmitScheduled, EmitRescheduled, EmitCancelled, Emit, TypeInv, TypeOK, Emitted
  <2>3. QED  BY <2>1, <2>2
<1>11. CASE Throw(r) \/ Die(r)
  <2>1. OthersKeep(r)  BY <1>11 DEF Throw, Die, TypeInv, TypeOK
  <2>2. Aside(r) \/ Lost(r)
    BY <1>0, <1>11 DEF Throw, Die, TypeInv, TypeOK, Aside, Lost
  <2>3. QED  BY <2>1, <2>2
<1>12. QED
  BY <1>1, <1>2, <1>3, <1>4, <1>5, <1>6, <1>7, <1>8, <1>9, <1>10, <1>11
  DEF Acts, Step, Schedule, Reschedule, Cancel, Complete

\* In the initial state nobody has read or written anything.
LEMMA InitRaces == RInit => RacesInv
<1> SUFFICES ASSUME RInit PROVE RacesInv  OBVIOUS
<1> USE DEF RInit
<1>1. TypeInv  BY InitType
<1>2. HistoryOK  BY DEF HistoryOK
<1>3. MovedExists  BY DEF Init, MovedExists
<1>4. \A r \in Req : UpToDate(r)
  BY DEF Init, UpToDate, SeenIsNow, ScanHolds, EventIsDue, FoundSteps
<1>5. NoOverlapUnlessRaced  BY DEF Init, NoOverlapUnlessRaced
<1>6. LastEventIsTrue  BY DEF Init, LastEventIsTrue, ToldTrue
<1>7. QED  BY <1>1, <1>2, <1>3, <1>4, <1>5, <1>6 DEF RacesInv

\* The kinds of step that write an interview or end a request with an event know
\* their interview; of the others the calendar hears nothing.
LEMMA KindsKnow ==
    ASSUME TypeInv, NEW r \in Req, Kinds(r)
    PROVE  /\ calendar' # calendar => at[r] \in Application
           /\ pc[r] \in EventSteps => at[r] \in Application
<1>1. pc[r] # "done" => at[r] \in Application  BY DEF TypeInv, RequestsComplete
<1>2. QED
  BY <1>1 DEF Kinds, Aside, Found, Scanned, Created, SaveTime, SaveCancelled, SaveCompleted, SaveState,
     CreateInterview, OnItsWay, Emitted, Lost, Silent, EventSteps

\* The history stays of its types.
LEMMA HistoryType ==
    ASSUME TypeInv, HistoryOK, NEW r \in Req, Kinds(r), Remember(r)
    PROVE  HistoryOK'
<1>1. NewsOf(r) \in SUBSET Application
  BY DEF NewsOf, HistoryOK
<1>2. news' \in [Req -> SUBSET Application]
  BY <1>1, KindsKnow DEF HistoryOK, Remember
<1>3. raced' \in [Application -> SUBSET Application]
  BY DEF HistoryOK, Remember
<1>4. muddled' \in [Application -> BOOLEAN]
  <2>1. (at[r] \in news[r] \/ reply'[r] \notin {"booked", "ok"}) \in BOOLEAN  OBVIOUS
  <2>2. QED  BY DEF HistoryOK, Remember
<1>5. QED  BY <1>2, <1>3, <1>4 DEF HistoryOK

\* What others know stays up to date, or becomes news to them.
LEMMA OthersUpToDate ==
    ASSUME TypeInv, HistoryOK, NEW r \in Req, OthersKeep(r), Kinds(r), Remember(r),
           NEW q \in Req, q # r, UpToDate(q)
    PROVE  UpToDate(q)'
<1>1. CASE pc[q] = "done"
  BY <1>1 DEF OthersKeep, UpToDate, SeenIsNow, ScanHolds, EventIsDue, FoundSteps
<1>2. CASE pc[q] # "done"
  <2>1. at[q] \in Application /\ at'[q] = at[q] /\ pc'[q] = pc[q] /\ seen'[q] = seen[q]
        /\ when'[q] = when[q] /\ long'[q] = long[q]
    BY <1>2 DEF OthersKeep, TypeInv, RequestsComplete
  <2>2. news[q] \subseteq news'[q]  BY <1>2 DEF Remember, HistoryOK
  <2>3. \A a \in Application \ news'[q] :
           state'[a] = state[a] /\ start'[a] = start[a] /\ len'[a] = len[a] /\ moved'[a] = moved[a]
    <3>1. CASE calendar' = calendar  BY <3>1 DEF calendar
    <3>2. CASE calendar' # calendar
      <4>1. at[r] \in news'[q]  BY <1>2, <3>2 DEF Remember, HistoryOK
      <4>2. QED  BY <4>1 DEF OthersKeep
    <3>3. QED  BY <3>1, <3>2
  <2>4. SeenIsNow(q)'  BY <2>1, <2>2, <2>3 DEF UpToDate, SeenIsNow
  <2>5. ScanHolds(q)'  BY <2>1, <2>2, <2>3 DEF UpToDate, ScanHolds
  <2>6. EventIsDue(q)'  BY <2>1, <2>2, <2>3 DEF UpToDate, EventIsDue
  <2>7. QED  BY <2>4, <2>5, <2>6 DEF UpToDate
<1>3. QED  BY <1>1, <1>2

\* A step writes what it has read and checked, and so stays up to date itself.
LEMMA OwnUpToDate ==
    ASSUME RacesInv, NEW r \in Req, Kinds(r), Remember(r)
    PROVE  UpToDate(r)'
<1> USE DEF Silent, calendar, request, FoundSteps, EventSteps
<1>0. TypeInv /\ HistoryOK /\ UpToDate(r) /\ MovedExists  BY DEF RacesInv
<1>1. news'[r] = NewsOf(r)  BY <1>0 DEF Remember, HistoryOK
<1>2. CASE Aside(r) \/ Lost(r)
  BY <1>2 DEF Aside, Lost, UpToDate, SeenIsNow, ScanHolds, EventIsDue
<1>3. CASE Found(r)
  BY <1>3 DEF Found, UpToDate, SeenIsNow, ScanHolds, EventIsDue
<1>4. CASE Scanned(r)
  <2>1. news'[r] = news[r] \cap {at[r]}
    BY <1>1, <1>4 DEF Scanned, NewsOf
  <2>2. SeenIsNow(r)'
    BY <1>0, <1>4, <2>1 DEF Scanned, UpToDate, SeenIsNow
  <2>3. ScanHolds(r)'  BY <1>4 DEF Scanned, ScanHolds, HasConflict
  <2>4. EventIsDue(r)'  BY <1>4 DEF Scanned, EventIsDue
  <2>5. QED  BY <2>2, <2>3, <2>4 DEF UpToDate
<1>5. CASE Created(r)
  <2>1. at[r] \in Application  BY <1>0, <1>5 DEF Created, CreateInterview, TypeInv, RequestsComplete
  <2>2. pc'[r] = "saveApp" /\ at'[r] = at[r]
    BY <1>0, <1>5 DEF Created, CreateInterview, Advance, Goto, TypeInv, TypeOK
  <2>3. state'[at[r]] = "scheduled" /\ ~moved'[at[r]]
    BY <1>0, <1>5, <2>1 DEF Created, CreateInterview, TypeInv, TypeOK, MovedExists
  <2>4. QED  BY <2>2, <2>3 DEF UpToDate, SeenIsNow, ScanHolds, EventIsDue
<1>6. CASE SaveTime(r)
  <2>1. pc[r] = "saveTime" /\ pc'[r] = "emitRescheduled" /\ at'[r] = at[r] /\ state' = state
    BY <1>0, <1>6 DEF SaveTime, Advance, Goto, TypeInv, TypeOK
  <2>2. news'[r] = news[r]  BY <1>1, <2>1 DEF NewsOf
  <2>3. at[r] \notin news[r] => state[at[r]] = "scheduled"
    BY <1>0, <2>1 DEF UpToDate, SeenIsNow, Row
  <2>4. QED  BY <2>1, <2>2, <2>3 DEF UpToDate, SeenIsNow, ScanHolds, EventIsDue
<1>7. CASE SaveCancelled(r)
  <2>1. /\ pc[r] = "saveCancelled" /\ pc'[r] = "resetApp" /\ at'[r] = at[r]
        /\ at[r] \in Application
    BY <1>0, <1>7 DEF SaveCancelled, SaveState, Advance, Goto, TypeInv, TypeOK, RequestsComplete
  <2>2. news'[r] = news[r]  BY <1>1, <2>1 DEF NewsOf
  <2>3. at[r] \notin news[r] => state'[at[r]] = "cancelled"
    <3>1. CASE seen[r].status = "cancelled"
      BY <1>0, <1>7, <2>1, <3>1 DEF SaveCancelled, SaveState, UpToDate, SeenIsNow, Row
    <3>2. CASE seen[r].status # "cancelled"
      BY <1>0, <1>7, <2>1, <3>2 DEF SaveCancelled, SaveState, TypeInv, TypeOK
    <3>3. QED  BY <3>1, <3>2
  <2>4. QED  BY <2>1, <2>2, <2>3 DEF UpToDate, SeenIsNow, ScanHolds, EventIsDue
<1>8. CASE SaveCompleted(r)
  <2>1. pc'[r] = "done"
    BY <1>0, <1>8 DEF SaveCompleted, SaveState, Answer, Forget, Goto, TypeInv, TypeOK
  <2>2. QED  BY <2>1 DEF UpToDate, SeenIsNow, ScanHolds, EventIsDue
<1>9. CASE OnItsWay(r)
  <2>1. news'[r] = news[r]  BY <1>1, <1>9 DEF OnItsWay, NewsOf
  <2>2. QED  BY <1>0, <1>9, <2>1 DEF OnItsWay, UpToDate, SeenIsNow, ScanHolds, EventIsDue
<1>10. CASE Emitted(r)
  BY <1>10 DEF Emitted, UpToDate, SeenIsNow, ScanHolds, EventIsDue
<1>11. QED  BY <1>2, <1>3, <1>4, <1>5, <1>6, <1>7, <1>8, <1>9, <1>10 DEF Kinds

\* Only what exists is moved.
LEMMA MovedStays ==
    ASSUME TypeInv, MovedExists, NEW r \in Req, OthersKeep(r), Kinds(r)
    PROVE  MovedExists'
<1> SUFFICES ASSUME NEW a \in Application, moved'[a] PROVE state'[a] # "none"
  BY DEF MovedExists
<1>1. CASE a # at[r]  BY <1>1 DEF OthersKeep, MovedExists
<1>2. CASE a = at[r] /\ calendar' = calendar  BY <1>2 DEF calendar, MovedExists
<1>3. CASE a = at[r] /\ Created(r)
  BY <1>3 DEF Created, CreateInterview, TypeInv, TypeOK
<1>4. CASE a = at[r] /\ SaveTime(r)
  BY <1>4 DEF SaveTime, TypeInv, RequestsComplete, FoundSteps
<1>5. CASE a = at[r] /\ (SaveCancelled(r) \/ SaveCompleted(r))
  BY <1>5 DEF SaveCancelled, SaveCompleted, SaveState, TypeInv, TypeOK, MovedExists
<1>6. QED
  BY <1>1, <1>2, <1>3, <1>4, <1>5
  DEF Kinds, Aside, Found, Scanned, OnItsWay, Emitted, Lost, Silent

\* A step that writes no time lets nothing overlap.
LEMMA NoTimeWritten ==
    ASSUME NoOverlapUnlessRaced, start' = start, len' = len, raced' = raced,
           \A a \in Application : state'[a] = "scheduled" => state[a] = "scheduled"
    PROVE  NoOverlapUnlessRaced'
BY DEF NoOverlapUnlessRaced, Apart

\* Request r gives its interview a time that its scan has found free.
LEMMA TimeWritten ==
    ASSUME RacesInv, NEW r \in Req, OthersKeep(r), Remember(r),
           pc[r] \in {"create", "saveTime"}, calendar' # calendar,
           at[r] \in Application, when[r] \in Start, long[r] \in Length,
           at[r] \notin news[r] => start'[at[r]] = when[r] /\ len'[at[r]] = long[r]
    PROVE  NoOverlapUnlessRaced'
<1>1. PICK b \in Application : b = at[r]  OBVIOUS
<1>2. \A a \in Application \ {b} :
         /\ start'[a] = start[a] /\ len'[a] = len[a] /\ state'[a] = state[a]
         /\ raced'[a] = raced[a] \ {b}
  BY <1>1 DEF OthersKeep, Remember
<1>3. raced'[b] = IF b \in news[r] THEN Application ELSE news[r]
  BY <1>1 DEF Remember
<1>4. ASSUME NEW a \in Application \ {b}, StudentOf[a] = StudentOf[b],
             state'[a] = "scheduled", a \notin raced'[b]
      PROVE  /\ start'[b] + len'[b] + Buffer < start'[a]
                \/ start'[a] + len'[a] + Buffer < start'[b]
  <2>1. b \notin news[r] /\ a \notin news[r]  BY <1>3, <1>4
  <2>2. ScanHolds(r)  BY DEF RacesInv, UpToDate
  <2>3. state[a] = "scheduled"  BY <1>2, <1>4
  <2>4. ~Overlap(start[a], len[a], when[r], long[r])
    BY <1>1, <1>4, <2>1, <2>2, <2>3 DEF ScanHolds
  <2>5. start[a] \in Nat /\ len[a] \in Nat
    BY <2>3, NumbersAssumption DEF RacesInv, TypeInv, RowsComplete
  <2>6. when[r] \in Nat /\ long[r] \in Nat  BY NumbersAssumption
  <2>7. start[a] + len[a] + Buffer < when[r] \/ when[r] + long[r] + Buffer < start[a]
    BY <2>4, <2>5, <2>6, NoConflictIsApart
  <2>8. start'[b] = when[r] /\ len'[b] = long[r]  BY <1>1, <2>1
  <2>9. QED  BY <1>2, <2>7, <2>8
<1>5. SUFFICES ASSUME NEW x \in Application, NEW y \in Application,
                      x # y, StudentOf[x] = StudentOf[y],
                      state'[x] = "scheduled", state'[y] = "scheduled",
                      x \notin raced'[y], y \notin raced'[x]
               PROVE  Apart(x, y)'
  BY DEF NoOverlapUnlessRaced
<1>6. CASE x = b  BY <1>4, <1>5, <1>6 DEF Apart
<1>7. CASE y = b  BY <1>4, <1>5, <1>7 DEF Apart
<1>8. CASE x # b /\ y # b
  <2>1. Apart(x, y)  BY <1>2, <1>5, <1>8 DEF RacesInv, NoOverlapUnlessRaced
  <2>2. QED  BY <1>2, <1>8, <2>1 DEF Apart
<1>9. QED  BY <1>6, <1>7, <1>8

\* No step lets two interviews overlap that have not raced.
LEMMA StillApart ==
    ASSUME RacesInv, NEW r \in Req, OthersKeep(r), Kinds(r), Remember(r)
    PROVE  NoOverlapUnlessRaced'
<1>0. TypeInv /\ NoOverlapUnlessRaced /\ UpToDate(r)  BY DEF RacesInv
<1>1. CASE calendar' = calendar
  <2>1. raced' = raced  BY <1>1 DEF Remember
  <2>2. QED  BY <1>0, <1>1, <2>1, NoTimeWritten DEF calendar
<1>2. CASE Created(r)
  <2>1. at[r] \in Application /\ when[r] \in Start /\ long[r] \in Length /\ pc[r] = "create"
    BY <1>0, <1>2 DEF Created, CreateInterview, TypeInv, RequestsComplete, ScheduleSteps
  <2>2. state'[at[r]] = "scheduled" /\ start'[at[r]] = when[r] /\ len'[at[r]] = long[r]
    BY <1>0, <1>2, <2>1 DEF Created, CreateInterview, TypeInv, TypeOK
  <2>3. calendar' # calendar  BY <1>2, <2>2 DEF Created, calendar
  <2>4. QED  BY <2>1, <2>2, <2>3, TimeWritten
<1>3. CASE SaveTime(r) /\ calendar' # calendar
  <2>1. at[r] \in Application /\ when[r] \in Start /\ long[r] \in Length /\ pc[r] = "saveTime"
    BY <1>0, <1>3 DEF SaveTime, TypeInv, RequestsComplete, RescheduleSteps
  <2>2. ASSUME at[r] \notin news[r]
        PROVE  start'[at[r]] = when[r] /\ len'[at[r]] = long[r]
    <3>1. seen[r].start = start[at[r]] /\ seen[r].len = len[at[r]]
      BY <1>0, <2>1, <2>2 DEF UpToDate, SeenIsNow, FoundSteps, Row
    <3>2. QED  BY <1>0, <1>3, <2>1, <3>1 DEF SaveTime, TypeInv, TypeOK
  <2>3. QED  BY <1>3, <2>1, <2>2, TimeWritten
<1>4. CASE SaveCancelled(r) \/ SaveCompleted(r)
  <2>1. pc[r] \notin {"create", "saveTime"} /\ start' = start /\ len' = len
    BY <1>4 DEF SaveCancelled, SaveCompleted, SaveState
  <2>2. raced' = raced  BY <2>1 DEF Remember
  <2>3. \A a \in Application : state'[a] = "scheduled" => state[a] = "scheduled"
    BY <1>0, <1>4 DEF SaveCancelled, SaveCompleted, SaveState, TypeInv, TypeOK
  <2>4. QED  BY <1>0, <2>1, <2>2, <2>3, NoTimeWritten
<1>5. QED
  BY <1>1, <1>2, <1>3, <1>4
  DEF Kinds, Aside, Found, Scanned, OnItsWay, Emitted, Lost, Silent

\* No step leaves an interview with an untrue last event, none due and none
\* muddled.
LEMMA StillTrue ==
    ASSUME RacesInv, NEW r \in Req, OthersKeep(r), Kinds(r), Remember(r)
    PROVE  LastEventIsTrue'
<1> SUFFICES ASSUME NEW a \in Application, ~muddled'[a],
                    \A q \in Req : ~(at'[q] = a /\ pc'[q] \in EventSteps)
             PROVE  ToldTrue(a)'
  BY DEF LastEventIsTrue
<1> USE DEF Silent, calendar, request
<1>0. TypeInv /\ HistoryOK /\ UpToDate(r) /\ LastEventIsTrue  BY DEF RacesInv
<1>1. \A q \in Req \ {r} : ~(at[q] = a /\ pc[q] \in EventSteps)
  BY DEF OthersKeep
<1>2. CASE a # at[r]
  <2>1. ~muddled[a]  BY <1>0, <1>2 DEF Remember, HistoryOK
  <2>2. ToldTrue(a)  BY <1>0, <1>1, <1>2, <2>1 DEF LastEventIsTrue
  <2>3. QED  BY <1>2, <2>2 DEF OthersKeep, ToldTrue
<1>3. CASE a = at[r] /\ pc[r] \notin EventSteps
  <2>1. ~muddled[a]  BY <1>3 DEF Remember
  <2>2. ToldTrue(a)  BY <1>0, <1>1, <1>3, <2>1 DEF LastEventIsTrue
  <2>3. CASE Aside(r) \/ Found(r) \/ Scanned(r)
    BY <2>2, <2>3 DEF Aside, Found, Scanned, ToldTrue
  <2>4. CASE Created(r) \/ SaveTime(r) \/ SaveCancelled(r)
    <3>1. at'[r] = at[r] /\ pc'[r] \in EventSteps
      BY <1>0, <2>4 DEF Created, CreateInterview, SaveTime, SaveCancelled, SaveState, Advance, Goto,
         TypeInv, TypeOK, EventSteps
    <3>2. QED  BY <1>3, <3>1
  <2>5. CASE SaveCompleted(r)
    <3>1. told' = told /\ moved' = moved
          /\ (state'[a] = state[a] \/ state'[a] = "completed")
      BY <1>0, <2>5 DEF SaveCompleted, SaveState, TypeInv, TypeOK
    <3>2. QED  BY <2>2, <3>1 DEF ToldTrue
  <2>6. QED
    BY <1>3, <2>3, <2>4, <2>5 DEF Kinds, OnItsWay, Emitted, Lost, EventSteps
<1>4. CASE a = at[r] /\ pc[r] \in EventSteps
  <2>1. CASE OnItsWay(r)
    BY <1>4, <2>1 DEF OnItsWay, EventSteps
  <2>2. CASE Lost(r)
    <3>1. muddled' = [muddled EXCEPT ![at[r]] = at[r] \in news[r] \/ reply'[r] \notin {"booked", "ok"}]
      BY <2>2 DEF Lost, Remember
    <3>2. reply'[r] \notin {"booked", "ok"}  BY <2>2 DEF Lost
    <3>3. muddled'[a]  BY <1>0, <1>4, <3>1, <3>2 DEF HistoryOK
    <3>4. QED  BY <3>3
  <2>3. CASE Emitted(r)
    <3>1. muddled' = [muddled EXCEPT ![at[r]] = at[r] \in news[r] \/ reply'[r] \notin {"booked", "ok"}]
      BY <1>4, <2>3 DEF Emitted, Remember
    <3>2. at[r] \notin news[r]  BY <1>0, <1>4, <3>1 DEF HistoryOK
    <3>3. QED  BY <1>0, <1>4, <2>3, <3>2 DEF Emitted, UpToDate, EventIsDue, ToldTrue
  <2>4. QED
    BY <1>4, <2>1, <2>2, <2>3
    DEF Kinds, Aside, Found, Scanned, Created, CreateInterview, SaveTime, SaveCancelled,
        SaveCompleted, SaveState, EventSteps
<1>5. QED  BY <1>2, <1>3, <1>4

\* Every step of InterviewRaces is one of Interviews.
LEMMA StepIsStep == [RNext]_<<vars, history>> => [Next]_vars
BY DEF RNext, Next

\* Every step preserves the invariant.
LEMMA NextRaces == RacesInv /\ [RNext]_<<vars, history>> => RacesInv'
<1> SUFFICES ASSUME RacesInv, [RNext]_<<vars, history>> PROVE RacesInv'  OBVIOUS
<1>0. TypeInv'  BY NextType, StepIsStep DEF RacesInv
<1>1. ASSUME NEW r \in Req, Acts(r), Remember(r) PROVE RacesInv'
  <2>1. OthersKeep(r) /\ Kinds(r)  BY <1>1, StepKinds DEF RacesInv
  <2>2. HistoryOK'  BY <1>1, <2>1, HistoryType DEF RacesInv
  <2>3. MovedExists'  BY <2>1, MovedStays DEF RacesInv
  <2>4. ASSUME NEW q \in Req PROVE UpToDate(q)'
    <3>1. CASE q = r  BY <1>1, <2>1, <3>1, OwnUpToDate
    <3>2. CASE q # r  BY <1>1, <2>1, <3>2, OthersUpToDate DEF RacesInv
    <3>3. QED  BY <3>1, <3>2
  <2>5. NoOverlapUnlessRaced'  BY <1>1, <2>1, StillApart
  <2>6. LastEventIsTrue'  BY <1>1, <2>1, StillTrue
  <2>7. QED  BY <1>0, <2>2, <2>3, <2>4, <2>5, <2>6 DEF RacesInv
<1>2. CASE UNCHANGED <<calendar, told, pc, request, seen, history>>
  <2>1. HistoryOK' /\ MovedExists'  BY <1>2 DEF RacesInv, history, calendar, HistoryOK, MovedExists
  <2>2. \A r \in Req : UpToDate(r)'
    BY <1>2 DEF RacesInv, history, calendar, request, UpToDate, SeenIsNow, ScanHolds, EventIsDue
  <2>3. NoOverlapUnlessRaced'  BY <1>2 DEF RacesInv, history, calendar, NoOverlapUnlessRaced, Apart
  <2>4. LastEventIsTrue'
    BY <1>2 DEF RacesInv, history, calendar, request, LastEventIsTrue, ToldTrue
  <2>5. QED  BY <1>0, <2>1, <2>2, <2>3, <2>4 DEF RacesInv
<1>3. CASE \E k \in Locks : LockExpires(k) /\ UNCHANGED history
  BY <1>2, <1>3 DEF LockExpires
<1>4. QED  BY <1>1, <1>2, <1>3 DEF RNext, Acts, vars

\* However requests interleave, fail and die, two scheduled interviews of a
\* student leave each other more than 30 minutes, unless the time of one was
\* written after a scan that did not see the other's
\* (interviews.service.ts:57-59, 125-130; conflict.ts:1-13).
THEOREM NoOverlapUnlessRacedHolds == RSpec => []NoOverlapUnlessRaced
<1>1. RSpec => []RacesInv  BY InitRaces, NextRaces, PTL DEF RSpec
<1>2. RacesInv => NoOverlapUnlessRaced  BY DEF RacesInv
<1>3. QED  BY <1>1, <1>2, PTL

\* And the last event emitted for each interview says where it stands, unless it
\* was lost with its request or is older than the last write
\* (interviews.service.ts:74, 131, 146).
THEOREM LastEventIsTrueHolds == RSpec => []LastEventIsTrue
<1>1. RSpec => []RacesInv  BY InitRaces, NextRaces, PTL DEF RSpec
<1>2. RacesInv => LastEventIsTrue  BY DEF RacesInv
<1>3. QED  BY <1>1, <1>2, PTL

----------------------------------------------------------------------------
(* The calendar implements Pipeline *)

\* A request about to write the status of an application has its interview: an
\* interview is created or found before, and never deleted.
WritesAreBooked ==
    \A r \in Req : pc[r] \in {"saveApp", "resetApp"} => state[at[r]] # "none"

\* In the initial state nobody is about to write.
LEMMA InitBooked == Init => WritesAreBooked
BY DEF Init, WritesAreBooked

\* No step makes an interview disappear: cancelled and completed ones stay.
LEMMA InterviewsStay ==
    ASSUME TypeInv, [Next]_vars
    PROVE  \A a \in Application : state[a] # "none" => state'[a] # "none"
<1> USE DEF calendar, Reads
<1>1. ASSUME NEW r \in Req, CreateInterview(r)
      PROVE  \A a \in Application : state[a] # "none" => state'[a] # "none"
  BY <1>1 DEF CreateInterview, TypeInv, TypeOK
<1>2. ASSUME NEW r \in Req, SaveCancelled(r) \/ SaveCompleted(r)
      PROVE  \A a \in Application : state[a] # "none" => state'[a] # "none"
  BY <1>2 DEF SaveCancelled, SaveCompleted, SaveState, TypeInv, TypeOK
<1>3. ASSUME NEW r \in Req,
             \/ FindApplication(r) \/ TakeLock(r) \/ CheckConflict(r)
             \/ SaveApplication(r) \/ EmitScheduled(r) \/ Unlock(r)
             \/ Reschedule(r) \/ FindAny(r) \/ ResetApplication(r) \/ EmitCancelled(r)
             \/ FindDone(r) \/ Arrivals(r) \/ Throw(r) \/ Die(r)
      PROVE  state' = state
  BY <1>3 DEF FindApplication, TakeLock, CheckConflict, SaveApplication, EmitScheduled, Unlock,
     Reschedule, FindScheduled, RecheckConflict, SaveTime, EmitRescheduled, FindAny,
     FindInterview, ResetApplication, EmitCancelled, FindDone, Arrivals, StartSchedule,
     StartReschedule, StartCancel, StartComplete, Arrive, Throw, Die
<1>4. ASSUME NEW k \in Locks, LockExpires(k) PROVE state' = state  BY <1>4 DEF LockExpires
<1>5. CASE UNCHANGED vars  BY <1>5 DEF vars
<1>6. QED
  BY <1>1, <1>2, <1>3, <1>4, <1>5 DEF Next, Step, Schedule, Cancel, Complete

\* Where a request may go next: to a write only from the step that made sure of
\* the interview, and then it keeps its application.
Way(q) ==
    /\ pc'[q] = "saveApp" => \/ pc[q] = "saveApp" /\ at'[q] = at[q]
                             \/ at'[q] = at[q] /\ state'[at[q]] # "none"
    /\ pc'[q] = "resetApp" => pc[q] \in {"resetApp", "saveCancelled"} /\ at'[q] = at[q]

\* Every step moves every request along its way.
LEMMA NextWay ==
    ASSUME TypeInv, [Next]_vars, NEW q \in Req
    PROVE  Way(q)
<1> USE DEF Way, Goto, Say, Advance, Leave, Load, Answer, Forget, Reads, Arrive, request
<1>1. ASSUME NEW r \in Req, Arrivals(r) PROVE Way(q)
  BY <1>1 DEF Arrivals, StartSchedule, StartReschedule, StartCancel, StartComplete, TypeInv, TypeOK
<1>2. ASSUME NEW r \in Req, FindApplication(r) \/ FindScheduled(r) \/ FindAny(r) \/ FindDone(r)
      PROVE  Way(q)
  BY <1>2 DEF FindApplication, FindScheduled, FindAny, FindDone, FindInterview, TypeInv, TypeOK
<1>3. ASSUME NEW r \in Req, TakeLock(r) \/ CheckConflict(r) \/ Unlock(r) PROVE Way(q)
  BY <1>3 DEF TakeLock, CheckConflict, Unlock, TypeInv, TypeOK
<1>4. ASSUME NEW r \in Req, CreateInterview(r) PROVE Way(q)
  <2>1. CASE q = r
    <3>1. at[r] \in Application  BY <1>4 DEF CreateInterview, TypeInv, RequestsComplete
    <3>2. QED  BY <1>4, <2>1, <3>1 DEF CreateInterview, TypeInv, TypeOK
  <2>2. CASE q # r
    BY <1>4, <2>2 DEF CreateInterview, TypeInv, TypeOK
  <2>3. QED  BY <2>1, <2>2
<1>5. ASSUME NEW r \in Req,
             \/ SaveApplication(r) \/ EmitScheduled(r) \/ ResetApplication(r) \/ EmitCancelled(r)
      PROVE  Way(q)
  BY <1>5 DEF SaveApplication, EmitScheduled, ResetApplication, EmitCancelled, TypeInv, TypeOK
<1>6. ASSUME NEW r \in Req, RecheckConflict(r) \/ SaveTime(r) \/ EmitRescheduled(r) PROVE Way(q)
  BY <1>6 DEF RecheckConflict, SaveTime, EmitRescheduled, TypeInv, TypeOK
<1>7. ASSUME NEW r \in Req, SaveCancelled(r) \/ SaveCompleted(r) PROVE Way(q)
  BY <1>7 DEF SaveCancelled, SaveCompleted, SaveState, TypeInv, TypeOK
<1>8. ASSUME NEW r \in Req, Throw(r) \/ Die(r) PROVE Way(q)
  BY <1>8 DEF Throw, Die, TypeInv, TypeOK
<1>9. ASSUME NEW k \in Locks, LockExpires(k) PROVE Way(q)
  BY <1>9 DEF LockExpires
<1>10. CASE UNCHANGED vars  BY <1>10 DEF vars
<1>11. QED
  BY <1>1, <1>2, <1>3, <1>4, <1>5, <1>6, <1>7, <1>8, <1>9, <1>10
  DEF Next, Step, Schedule, Reschedule, Cancel, Complete

\* Every step keeps it: cancel and complete have found the interview they write.
LEMMA NextBooked == TypeInv /\ WritesAreBooked /\ [Next]_vars => WritesAreBooked'
<1> SUFFICES ASSUME TypeInv, WritesAreBooked, [Next]_vars, NEW q \in Req,
                    pc'[q] \in {"saveApp", "resetApp"}
             PROVE  state'[at'[q]] # "none"
  BY DEF WritesAreBooked
<1>1. Way(q)  BY NextWay
<1>2. CASE pc[q] \in {"saveApp", "resetApp", "saveCancelled"} /\ at'[q] = at[q]
  <2>1. state[at[q]] # "none" /\ at[q] \in Application
    BY <1>2 DEF WritesAreBooked, TypeInv, RequestsComplete, FoundSteps
  <2>2. QED  BY <1>2, <2>1, InterviewsStay
<1>3. CASE at'[q] = at[q] /\ state'[at[q]] # "none"  BY <1>3
<1>4. QED  BY <1>1, <1>2, <1>3 DEF Way

\* The initial state is one of Pipeline.
LEMMA InitContract == Init => Contract!Init
BY DEF Init, Contract!Init

\* The applications that have an interview.
Booked == {a \in Application : state[a] # "none"}

\* A step that leaves the statuses alone and every interview there or not there
\* shows nothing.
LEMMA QuietStep ==
    ASSUME appStatus' = appStatus,
           \A a \in Application : state'[a] # "none" <=> state[a] # "none"
    PROVE  UNCHANGED Contract!vars
<1>1. Booked' = Booked  BY DEF Booked
<1>2. QED  BY <1>1 DEF Contract!vars, Booked

\* The step that creates an interview is Book.
LEMMA CreateBooks ==
    ASSUME TypeInv, NEW r \in Req, CreateInterview(r)
    PROVE  [Contract!Next]_(Contract!vars)
<1> USE DEF CreateInterview
<1>1. PICK a \in Application : a = at[r]  BY DEF TypeInv, RequestsComplete
<1>2. CASE state[at[r]] = "none"
  <2>1. state' = [state EXCEPT ![a] = "scheduled"] /\ appStatus' = appStatus
    BY <1>1, <1>2
  <2>2. \A b \in Application : state'[b] # "none" <=> state[b] # "none" \/ b = a
    BY <2>1 DEF TypeInv, TypeOK
  <2>3. Booked' = Booked \cup {a}  BY <2>2 DEF Booked
  <2>4. a \notin Booked  BY <1>1, <1>2 DEF Booked
  <2>5. Contract!Book(a)  BY <2>1, <2>3, <2>4 DEF Contract!Book, Booked
  <2>6. QED  BY <2>5 DEF Contract!Next
<1>3. CASE state[at[r]] # "none"
  <2>1. state' = state /\ appStatus' = appStatus  BY <1>3
  <2>2. QED  BY <2>1, QuietStep
<1>4. QED  BY <1>2, <1>3

\* A write of a status by the calendar, of an application that has its interview.
LEMMA WriteChooses ==
    ASSUME TypeInv, NEW a \in Application, NEW s, state' = state,
           appStatus' = [appStatus EXCEPT ![a] = s]
    PROVE  Contract!Choose({a}, s)
<1>1. appStatus' = [b \in Application |-> IF b \in {a} THEN s ELSE appStatus[b]]
  BY DEF TypeInv, TypeOK
<1>2. QED  BY <1>1 DEF Contract!Choose, Contract!Put

\* The step of schedule that saves the application is Invite, or shows nothing.
LEMMA SaveInvites ==
    ASSUME TypeInv, WritesAreBooked, NEW r \in Req, SaveApplication(r)
    PROVE  [Contract!Next]_(Contract!vars)
<1> USE DEF SaveApplication
<1>1. PICK a \in Application : a = at[r]  BY DEF TypeInv, RequestsComplete
<1>2. state[a] # "none" /\ state' = state  BY <1>1 DEF WritesAreBooked, calendar
<1>3. CASE seen[r].status = "interview"
  BY <1>2, <1>3, QuietStep
<1>4. CASE seen[r].status # "interview"
  <2>1. Contract!Choose({a}, "interview")  BY <1>1, <1>2, <1>4, WriteChooses
  <2>2. Contract!Invite(a)  BY <1>2, <2>1 DEF Contract!Invite
  <2>3. QED  BY <2>2 DEF Contract!Next
<1>5. QED  BY <1>3, <1>4

\* The step of cancel that resets the application is SendBack.
LEMMA ResetSendsBack ==
    ASSUME TypeInv, WritesAreBooked, NEW r \in Req, ResetApplication(r)
    PROVE  [Contract!Next]_(Contract!vars)
<1> USE DEF ResetApplication
<1>1. PICK a \in Application : a = at[r]  BY DEF TypeInv, RequestsComplete
<1>2. state[a] # "none" /\ state' = state  BY <1>1 DEF WritesAreBooked, calendar
<1>3. Contract!Choose({a}, "shortlisted")  BY <1>1, <1>2, WriteChooses
<1>4. Contract!SendBack(a)  BY <1>2, <1>3 DEF Contract!SendBack
<1>5. QED  BY <1>4 DEF Contract!Next

\* A step is one of Pipeline, or shows nothing.
LEMMA NextContract ==
    TypeInv /\ WritesAreBooked /\ [Next]_vars => [Contract!Next]_(Contract!vars)
<1> SUFFICES ASSUME TypeInv, WritesAreBooked, [Next]_vars
             PROVE  [Contract!Next]_(Contract!vars)
  OBVIOUS
<1> USE DEF calendar, Reads
<1>1. ASSUME NEW r \in Req,
             \/ FindApplication(r) \/ TakeLock(r) \/ CheckConflict(r) \/ EmitScheduled(r)
             \/ Unlock(r) \/ Reschedule(r) \/ FindAny(r) \/ EmitCancelled(r)
             \/ FindDone(r) \/ Arrivals(r) \/ Throw(r) \/ Die(r)
      PROVE  [Contract!Next]_(Contract!vars)
  <2>1. state' = state /\ appStatus' = appStatus
    BY <1>1 DEF FindApplication, TakeLock, CheckConflict, EmitScheduled, Unlock, Reschedule,
       FindScheduled, RecheckConflict, SaveTime, EmitRescheduled, FindAny, FindInterview,
       EmitCancelled, FindDone, Arrivals, StartSchedule, StartReschedule, StartCancel,
       StartComplete, Arrive, Throw, Die
  <2>2. QED  BY <2>1, QuietStep
<1>2. ASSUME NEW r \in Req, SaveCancelled(r) \/ SaveCompleted(r)
      PROVE  [Contract!Next]_(Contract!vars)
  <2>1. PICK a \in Application : a = at[r] /\ state[a] # "none"
    BY <1>2 DEF SaveCancelled, SaveCompleted, SaveState, TypeInv, RequestsComplete, FoundSteps
  <2>2. \A b \in Application : state'[b] # "none" <=> state[b] # "none"
    BY <1>2, <2>1 DEF SaveCancelled, SaveCompleted, SaveState, TypeInv, TypeOK
  <2>3. appStatus' = appStatus  BY <1>2 DEF SaveCancelled, SaveCompleted, SaveState
  <2>4. QED  BY <2>2, <2>3, QuietStep
<1>3. CASE \E k \in Locks : LockExpires(k)  BY <1>3, QuietStep DEF LockExpires
<1>4. CASE UNCHANGED vars  BY <1>4, QuietStep DEF vars
<1>5. QED
  BY <1>1, <1>2, <1>3, <1>4, CreateBooks, SaveInvites, ResetSendsBack
  DEF Next, Step, Schedule, Cancel, Complete

\* The calendar keeps the contract, whatever locks are lost, whoever dies and
\* however slow a request is: it writes an application's status only once the
\* interview exists, and then only to interview or shortlisted
\* (interviews.service.ts:59-73, 138-150).
THEOREM KeepsContractHolds == Spec => KeepsContract
BY InitContract, InitBooked, InitType, NextType, NextBooked, NextContract, PTL
DEF Spec, KeepsContract, Contract!Spec
=============================================================================
