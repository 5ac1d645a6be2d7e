---------------------------- MODULE OutboxProofs ----------------------------
(***************************************************************************)
(* Proofs about Outbox, for any set of rows and workers and any limits:    *)
(* processedAt is set only after a handler ran to its end, a completed job *)
(* never hides an unprocessed row, and the outbox implements EventDelivery.*)
(***************************************************************************)
EXTENDS Outbox, SequenceTheorems, TLAPS

\* An active job carries its worker's lock token and has attempts left.
LockedWhileActive ==
    \A j \in Job :
        /\ holder[j] # None => queue[j] = "active"
        /\ queue[j] \in {"waiting", "active", "delayed"} => made[j] < Attempts

\* A run has a job; past the handler the event is handled, and past the mark
\* its row is processed.
RunsKnowTheirRow ==
    \A w \in Worker :
        /\ step[w] # "idle" => serving[w] \in Job
        /\ step[w] = "mark" => handled[serving[w][1]]
        /\ step[w] = "finish" => row[serving[w][1]] = "done"

\* Whatever the queue, the workers or the sweeper hold stems from a row.
EverythingHasARow ==
    /\ \A j \in Job : queue[j] # "absent" => row[j[1]] # "none"
    /\ \A w \in Worker : step[w] # "idle" => row[serving[w][1]] # "none"
    /\ \A e \in Event :
          emitter[e] = "adding" \/ e \in batch \/ handled[e] => row[e] # "none"

\* processedAt is a receipt: a row carries it only if a handler of its event
\* ran to its end at least once (events.processor.ts: the mark comes after the
\* switch, and a handler that throws never reaches it), whatever crashes,
\* second jobs and expired locks did in between.
MarkedOnlyAfterHandled ==
    \A e \in Event : row[e] = "done" => handled[e]

IInv ==
    /\ TypeOK
    /\ LockedWhileActive
    /\ RunsKnowTheirRow
    /\ EverythingHasARow
    /\ MarkedOnlyAfterHandled
    /\ CompletedJobMeansProcessed

\* Trimming a retained list leaves a list of jobs.
LEMMA TrimType ==
    ASSUME NEW list \in Seq(Job), NEW j \in Job, NEW keep \in Nat \ {0}
    PROVE  Trim(Append(list, j), keep) \in Seq(Job)
<1>1. Append(list, j) \in Seq(Job) /\ Append(list, j) # <<>>
  BY AppendProperties
<1>2. Tail(Append(list, j)) \in Seq(Job)  BY <1>1, HeadTailProperties
<1>3. QED  BY <1>1, <1>2 DEF Trim

\* The initial state satisfies the inductive invariant.
LEMMA InitInv == Init => IInv
<1> SUFFICES ASSUME Init PROVE IInv  OBVIOUS
<1> USE NoneAssumption, LimitAssumption DEF Init
<1>1. TypeOK  BY DEF TypeOK, JobState, Job
<1>2. LockedWhileActive  BY DEF LockedWhileActive
<1>3. RunsKnowTheirRow  BY DEF RunsKnowTheirRow
<1>4. EverythingHasARow  BY DEF EverythingHasARow, Job
<1>5. MarkedOnlyAfterHandled  BY DEF MarkedOnlyAfterHandled
<1>6. CompletedJobMeansProcessed  BY DEF CompletedJobMeansProcessed
<1>7. QED  BY <1>1, <1>2, <1>3, <1>4, <1>5, <1>6 DEF IInv

\* Queue.add on a row's job preserves the invariant, whoever adds it.
LEMMA AddInv ==
    ASSUME IInv, NEW j \in Job, Add(j), row[j[1]] # "none",
           UNCHANGED <<rowVars, workerVars, faults>>,
           emitter' \in [Event -> {"idle", "adding", "ended"}],
           batch' \in SUBSET batch,
           \A e \in Event : emitter'[e] = "adding" => emitter[e] = "adding"
    PROVE  IInv'
<1> USE NoneAssumption, LimitAssumption DEF IInv, Add, rowVars, workerVars
<1>1. TypeOK'  BY DEF TypeOK, JobState
<1>2. LockedWhileActive'  BY DEF TypeOK, LockedWhileActive
<1>3. RunsKnowTheirRow'  BY DEF TypeOK, RunsKnowTheirRow
<1>4. EverythingHasARow'  BY DEF TypeOK, EverythingHasARow
<1>5. MarkedOnlyAfterHandled'  BY DEF MarkedOnlyAfterHandled
<1>6. CompletedJobMeansProcessed'  BY DEF TypeOK, CompletedJobMeansProcessed
<1>7. QED  BY <1>1, <1>2, <1>3, <1>4, <1>5, <1>6

\* Giving a job up preserves what the invariant says of the queue.
LEMMA FailJobInv ==
    ASSUME IInv, NEW j \in Job, queue[j] = "active", FailJob(j)
    PROVE  /\ queue' \in [Job -> JobState]
           /\ holder' \in [Job -> Worker \cup {None}]
           /\ completed' \in Seq(Job) /\ failed' \in Seq(Job)
           /\ \A k \in Job : holder'[k] # None => queue'[k] = "active"
           /\ \A k \in Job : queue'[k] \in {queue[k], "absent", "failed"}
           /\ queue'[j] \in {"absent", "failed"}
           /\ \A k \in Job : k # j => queue'[k] \in {queue[k], "absent"}
<1> USE DEF IInv, TypeOK, FailJob, Retire
<1>1. failed' \in Seq(Job)  BY TrimType, LimitAssumption
<1>2. queue' \in [Job -> JobState]  BY DEF JobState
<1>3. holder' \in [Job -> Worker \cup {None}]  OBVIOUS
<1>4. \A k \in Job : k # j => queue'[k] \in {queue[k], "absent"}  OBVIOUS
<1>5. queue'[j] \in {"absent", "failed"}  OBVIOUS
<1>6. \A k \in Job : holder'[k] # None => queue'[k] = "active"
  BY DEF LockedWhileActive
<1>7. QED  BY <1>1, <1>2, <1>3, <1>4, <1>5, <1>6

\* Completing a job whose row is processed preserves what the invariant says
\* of the queue.
LEMMA CompleteJobInv ==
    ASSUME IInv, NEW j \in Job, queue[j] = "active", CompleteJob(j)
    PROVE  /\ queue' \in [Job -> JobState]
           /\ holder' \in [Job -> Worker \cup {None}]
           /\ completed' \in Seq(Job)
           /\ \A k \in Job : holder'[k] # None => queue'[k] = "active"
           /\ queue'[j] \in {"absent", "completed"}
           /\ \A k \in Job : k # j => queue'[k] \in {queue[k], "absent"}
<1> USE DEF IInv, TypeOK, CompleteJob, Retire
<1>1. completed' \in Seq(Job)  BY TrimType, LimitAssumption
<1>2. queue' \in [Job -> JobState]  BY DEF JobState
<1>3. holder' \in [Job -> Worker \cup {None}]  OBVIOUS
<1>4. \A k \in Job : k # j => queue'[k] \in {queue[k], "absent"}  OBVIOUS
<1>5. queue'[j] \in {"absent", "completed"}  OBVIOUS
<1>6. \A k \in Job : holder'[k] # None => queue'[k] = "active"
  BY DEF LockedWhileActive
<1>7. QED  BY <1>1, <1>2, <1>3, <1>4, <1>5, <1>6

\* A thrown run preserves what the invariant says of the queue.
LEMMA RetryOrFailInv ==
    ASSUME IInv, NEW j \in Job, queue[j] = "active", RetryOrFail(j)
    PROVE  /\ queue' \in [Job -> JobState]
           /\ holder' \in [Job -> Worker \cup {None}]
           /\ completed' \in Seq(Job) /\ failed' \in Seq(Job)
           /\ made' \in [Job -> 0..Attempts]
           /\ \A k \in Job : holder'[k] # None => queue'[k] = "active"
           /\ queue'[j] \in {"absent", "failed", "delayed"}
           /\ queue'[j] = "delayed" => made'[j] < Attempts
           /\ \A k \in Job : k # j =>
                 queue'[k] \in {queue[k], "absent"} /\ made'[k] = made[k]
<1>0. made[j] < Attempts  BY DEF IInv, LockedWhileActive
<1>a. /\ made' \in [Job -> 0..Attempts]
      /\ \A k \in Job : k # j => made'[k] = made[k]
      /\ made'[j] = made[j] + 1
  BY <1>0, LimitAssumption DEF IInv, TypeOK, RetryOrFail
<1>1. CASE made[j] + 1 < Attempts
  <2> USE <1>1, <1>a DEF IInv, TypeOK, JobState
  <2>0. made[j] \in 0..Attempts  OBVIOUS
  <2>1. /\ queue' = [queue EXCEPT ![j] = "delayed"]
        /\ holder' = [holder EXCEPT ![j] = None]
        /\ UNCHANGED <<completed, failed>>
    BY <2>0, LimitAssumption DEF RetryOrFail
  <2>2. \A k \in Job : holder'[k] # None => queue'[k] = "active"
    BY <2>1 DEF LockedWhileActive
  <2>3. QED  BY <2>1, <2>2
<1>2. CASE made[j] + 1 >= Attempts
  <2>0. made[j] \in 0..Attempts  BY DEF IInv, TypeOK
  <2>1. FailJob(j)  BY <1>2, <2>0, LimitAssumption DEF RetryOrFail
  <2>2. QED  BY <2>1, <1>a, FailJobInv
<1>3. QED  BY <1>0, <1>1, <1>2, LimitAssumption DEF IInv, TypeOK

\* Every step preserves the inductive invariant.
LEMMA NextInv == IInv /\ [Next]_vars => IInv'
<1> SUFFICES ASSUME IInv, [Next]_vars PROVE IInv'  OBVIOUS
<1> USE NoneAssumption, LimitAssumption
<1>1. ASSUME NEW e \in Event, Record(e) PROVE IInv'
  <2> USE <1>1 DEF IInv, Record, jobVars, workerVars
  <2>1. TypeOK'  BY DEF TypeOK
  <2>2. LockedWhileActive'  BY DEF LockedWhileActive
  <2>3. RunsKnowTheirRow'  BY DEF TypeOK, RunsKnowTheirRow, Job
  <2>4. EverythingHasARow'  BY DEF TypeOK, EverythingHasARow, Job
  <2>5. MarkedOnlyAfterHandled'  BY DEF TypeOK, MarkedOnlyAfterHandled
  <2>6. CompletedJobMeansProcessed'
    BY DEF TypeOK, CompletedJobMeansProcessed, Job
  <2>7. QED  BY <2>1, <2>2, <2>3, <2>4, <2>5, <2>6
<1>2. ASSUME NEW e \in Event, Publish(e) PROVE IInv'
  <2>1. <<e, "emit">> \in Job /\ row[e] # "none"
    BY <1>2 DEF Publish, Job, IInv, EverythingHasARow
  <2>2. emitter' \in [Event -> {"idle", "adding", "ended"}]
    BY <1>2 DEF Publish, IInv, TypeOK
  <2>3. \A f \in Event : emitter'[f] = "adding" => emitter[f] = "adding"
    BY <1>2 DEF Publish, IInv, TypeOK
  <2>4. QED  BY <1>2, <2>1, <2>2, <2>3, AddInv DEF Publish
<1>3. ASSUME NEW e \in Event, PublishLost(e) PROVE IInv'
  <2> USE <1>3 DEF IInv, PublishLost, rowVars, jobVars, workerVars
  <2>1. TypeOK'  BY DEF TypeOK
  <2>2. LockedWhileActive'  BY DEF LockedWhileActive
  <2>3. RunsKnowTheirRow'  BY DEF RunsKnowTheirRow
  <2>4. EverythingHasARow'  BY DEF TypeOK, EverythingHasARow
  <2>5. MarkedOnlyAfterHandled'  BY DEF MarkedOnlyAfterHandled
  <2>6. CompletedJobMeansProcessed'  BY DEF CompletedJobMeansProcessed
  <2>7. QED  BY <2>1, <2>2, <2>3, <2>4, <2>5, <2>6
<1>4. ASSUME NEW w \in Worker, NEW j \in Job, Fetch(w, j) PROVE IInv'
  <2> USE <1>4 DEF IInv, Fetch, rowVars
  <2>1. TypeOK'  BY DEF TypeOK, JobState
  <2>2. LockedWhileActive'  BY DEF TypeOK, LockedWhileActive
  <2>3. RunsKnowTheirRow'  BY DEF TypeOK, RunsKnowTheirRow
  <2>4. EverythingHasARow'  BY DEF TypeOK, EverythingHasARow
  <2>5. MarkedOnlyAfterHandled'  BY DEF MarkedOnlyAfterHandled
  <2>6. CompletedJobMeansProcessed'  BY DEF TypeOK, CompletedJobMeansProcessed
  <2>7. QED  BY <2>1, <2>2, <2>3, <2>4, <2>5, <2>6
<1>5. ASSUME NEW w \in Worker, Handle(w) PROVE IInv'
  <2> USE <1>5 DEF IInv, Handle, jobVars
  <2>0. serving[w] \in Job /\ serving[w][1] \in Event
    BY DEF RunsKnowTheirRow, Job
  <2>1. TypeOK'  BY <2>0 DEF TypeOK
  <2>2. LockedWhileActive'  BY DEF LockedWhileActive
  <2>3. RunsKnowTheirRow'  BY <2>0 DEF TypeOK, RunsKnowTheirRow, Job
  <2>4. EverythingHasARow'  BY <2>0 DEF TypeOK, EverythingHasARow
  <2>5. MarkedOnlyAfterHandled'  BY <2>0 DEF TypeOK, MarkedOnlyAfterHandled
  <2>6. CompletedJobMeansProcessed'  BY DEF CompletedJobMeansProcessed
  <2>7. QED  BY <2>1, <2>2, <2>3, <2>4, <2>5, <2>6
<1>6. ASSUME NEW w \in Worker, MarkProcessed(w) PROVE IInv'
  <2> USE <1>6 DEF IInv, MarkProcessed, jobVars
  <2>0. serving[w] \in Job /\ serving[w][1] \in Event
    BY DEF RunsKnowTheirRow, Job
  <2>1. TypeOK'  BY <2>0 DEF TypeOK
  <2>2. LockedWhileActive'  BY DEF LockedWhileActive
  <2>3. RunsKnowTheirRow'  BY <2>0 DEF TypeOK, RunsKnowTheirRow, Job
  <2>4. EverythingHasARow'  BY <2>0 DEF TypeOK, EverythingHasARow, Job
  <2>5. MarkedOnlyAfterHandled'
    BY <2>0 DEF TypeOK, MarkedOnlyAfterHandled, RunsKnowTheirRow
  <2>6. CompletedJobMeansProcessed'
    BY <2>0 DEF TypeOK, CompletedJobMeansProcessed, Job
  <2>7. QED  BY <2>1, <2>2, <2>3, <2>4, <2>5, <2>6
<1>7. ASSUME NEW w \in Worker, Finish(w) PROVE IInv'
  <2> USE <1>7 DEF IInv, Finish, Release, rowVars
  <2>0. serving[w] \in Job /\ row[serving[w][1]] = "done"
    BY DEF RunsKnowTheirRow
  <2>a. /\ queue' \in [Job -> JobState]
        /\ holder' \in [Job -> Worker \cup {None}]
        /\ completed' \in Seq(Job) /\ UNCHANGED <<made, stalls, failed>>
        /\ \A k \in Job : holder'[k] # None => queue'[k] = "active"
        /\ \A k \in Job :
              \/ queue'[k] \in {queue[k], "absent"}
              \/ k = serving[w] /\ queue'[k] = "completed"
    <3>1. CASE holder[serving[w]] = w
      <4>1. queue[serving[w]] = "active" /\ CompleteJob(serving[w])
        BY <2>0, <3>1 DEF LockedWhileActive
      <4>2. UNCHANGED <<made, stalls, failed>>  BY <4>1 DEF CompleteJob
      <4> HIDE DEF Finish, Release, rowVars, IInv
      <4>3. QED  BY <1>7, IInv, <2>0, <4>1, <4>2, CompleteJobInv
    <3>2. CASE holder[serving[w]] # w
      <4>1. UNCHANGED jobVars  BY <3>2
      <4>2. QED  BY <4>1 DEF TypeOK, LockedWhileActive, jobVars
    <3>3. QED  BY <3>1, <3>2
  <2>1. TypeOK'  BY <2>a DEF TypeOK
  <2>2. LockedWhileActive'  BY <2>a DEF LockedWhileActive
  <2>3. RunsKnowTheirRow'  BY DEF TypeOK, RunsKnowTheirRow
  <2>4. EverythingHasARow'  BY <2>a, <2>0 DEF TypeOK, EverythingHasARow
  <2>5. MarkedOnlyAfterHandled'  BY DEF MarkedOnlyAfterHandled
  <2>6. CompletedJobMeansProcessed'
    BY <2>a, <2>0 DEF CompletedJobMeansProcessed
  <2>7. QED  BY <2>1, <2>2, <2>3, <2>4, <2>5, <2>6
<1>8. ASSUME NEW w \in Worker, Throw(w) PROVE IInv'
  <2> USE <1>8 DEF IInv, Throw, Release, Fault, rowVars
  <2>0. serving[w] \in Job  BY DEF RunsKnowTheirRow
  <2>a. /\ queue' \in [Job -> JobState]
        /\ holder' \in [Job -> Worker \cup {None}]
        /\ completed' \in Seq(Job) /\ failed' \in Seq(Job)
        /\ made' \in [Job -> 0..Attempts] /\ stalls' = stalls
        /\ \A k \in Job : holder'[k] # None => queue'[k] = "active"
        /\ \A k \in Job :
              \/ queue'[k] \in {queue[k], "absent"} /\ made'[k] = made[k]
              \/ queue[k] = "active" /\ queue'[k] \in {"absent", "failed"}
              \/ /\ queue[k] = "active" /\ queue'[k] = "delayed"
                 /\ made'[k] < Attempts
    <3>1. CASE holder[serving[w]] = w
      <4>1. queue[serving[w]] = "active" /\ RetryOrFail(serving[w])
        BY <2>0, <3>1 DEF LockedWhileActive
      <4>2. stalls' = stalls  BY <4>1 DEF RetryOrFail
      <4>3. QED  BY <2>0, <4>1, <4>2, RetryOrFailInv
    <3>2. CASE holder[serving[w]] # w
      BY <3>2 DEF TypeOK, LockedWhileActive, jobVars
    <3>3. QED  BY <3>1, <3>2
  <2>1. TypeOK'  BY <2>a DEF TypeOK
  <2>2. LockedWhileActive'  BY <2>a DEF LockedWhileActive
  <2>3. RunsKnowTheirRow'  BY DEF TypeOK, RunsKnowTheirRow
  <2>4. EverythingHasARow'  BY <2>a DEF TypeOK, EverythingHasARow
  <2>5. MarkedOnlyAfterHandled'  BY DEF MarkedOnlyAfterHandled
  <2>6. CompletedJobMeansProcessed'
    BY <2>a DEF CompletedJobMeansProcessed
  <2>7. QED  BY <2>1, <2>2, <2>3, <2>4, <2>5, <2>6
<1>9. ASSUME NEW w \in Worker, Crash(w) PROVE IInv'
  <2> USE <1>9 DEF IInv, Crash, Release, Fault, rowVars, jobVars
  <2>1. TypeOK'  BY DEF TypeOK
  <2>2. LockedWhileActive'  BY DEF LockedWhileActive
  <2>3. RunsKnowTheirRow'  BY DEF TypeOK, RunsKnowTheirRow
  <2>4. EverythingHasARow'  BY DEF TypeOK, EverythingHasARow
  <2>5. MarkedOnlyAfterHandled'  BY DEF MarkedOnlyAfterHandled
  <2>6. CompletedJobMeansProcessed'  BY DEF CompletedJobMeansProcessed
  <2>7. QED  BY <2>1, <2>2, <2>3, <2>4, <2>5, <2>6
<1>10. ASSUME NEW j \in Job, Promote(j) PROVE IInv'
  <2> USE <1>10 DEF IInv, Promote, rowVars, workerVars
  <2>1. TypeOK'  BY DEF TypeOK, JobState
  <2>2. LockedWhileActive'  BY DEF TypeOK, LockedWhileActive
  <2>3. RunsKnowTheirRow'  BY DEF RunsKnowTheirRow
  <2>4. EverythingHasARow'  BY DEF TypeOK, EverythingHasARow
  <2>5. MarkedOnlyAfterHandled'  BY DEF MarkedOnlyAfterHandled
  <2>6. CompletedJobMeansProcessed'  BY DEF TypeOK, CompletedJobMeansProcessed
  <2>7. QED  BY <2>1, <2>2, <2>3, <2>4, <2>5, <2>6
<1>11. ASSUME NEW j \in Job, Stall(j) PROVE IInv'
  <2> USE <1>11 DEF IInv, rowVars, workerVars
  <2>0. /\ queue[j] = "active" /\ made' = made
        /\ UNCHANGED <<rowVars, emitter, workerVars, batch>>
        /\ faults' \in 0..FaultBudget
    BY DEF Stall, Fault, TypeOK
  <2>a. /\ queue' \in [Job -> JobState]
        /\ holder' \in [Job -> Worker \cup {None}]
        /\ stalls' \in [Job -> 0..MaxStalled]
        /\ completed' \in Seq(Job) /\ failed' \in Seq(Job)
        /\ \A k \in Job : holder'[k] # None => queue'[k] = "active"
        /\ \A k \in Job :
              \/ queue'[k] \in {queue[k], "absent"}
              \/ queue[k] = "active" /\ queue'[k] \in {"waiting", "failed"}
    <3>0. stalls[j] \in 0..MaxStalled  BY DEF TypeOK
    <3>1. CASE stalls[j] < MaxStalled
      <4>1. /\ stalls' = [stalls EXCEPT ![j] = @ + 1]
            /\ queue' = [queue EXCEPT ![j] = "waiting"]
            /\ holder' = [holder EXCEPT ![j] = None]
            /\ UNCHANGED <<completed, failed>>
        BY <3>0, <3>1 DEF Stall
      <4>2. stalls' \in [Job -> 0..MaxStalled]  BY <3>0, <3>1, <4>1 DEF TypeOK
      <4>3. QED  BY <2>0, <4>1, <4>2 DEF TypeOK, JobState, LockedWhileActive
    <3>2. CASE stalls[j] >= MaxStalled
      <4>1. FailJob(j) /\ stalls' = stalls  BY <3>0, <3>2 DEF Stall
      <4>2. QED  BY <2>0, <4>1, FailJobInv DEF TypeOK
    <3>3. QED  BY <3>0, <3>1, <3>2
  <2>1. TypeOK'  BY <2>0, <2>a DEF TypeOK
  <2>2. LockedWhileActive'  BY <2>0, <2>a DEF LockedWhileActive
  <2>3. RunsKnowTheirRow'  BY <2>0 DEF RunsKnowTheirRow
  <2>4. EverythingHasARow'  BY <2>0, <2>a DEF TypeOK, EverythingHasARow
  <2>5. MarkedOnlyAfterHandled'  BY <2>0 DEF MarkedOnlyAfterHandled
  <2>6. CompletedJobMeansProcessed'  BY <2>0, <2>a DEF CompletedJobMeansProcessed
  <2>7. QED  BY <2>1, <2>2, <2>3, <2>4, <2>5, <2>6
<1>12. CASE BeginSweep
  <2> USE <1>12 DEF IInv, BeginSweep, Stale, Unprocessed, rowVars, jobVars, workerVars
  <2>1. TypeOK'  BY DEF TypeOK
  <2>2. LockedWhileActive'  BY DEF LockedWhileActive
  <2>3. RunsKnowTheirRow'  BY DEF RunsKnowTheirRow
  <2>4. EverythingHasARow'  BY DEF EverythingHasARow
  <2>5. MarkedOnlyAfterHandled'  BY DEF MarkedOnlyAfterHandled
  <2>6. CompletedJobMeansProcessed'  BY DEF CompletedJobMeansProcessed
  <2>7. QED  BY <2>1, <2>2, <2>3, <2>4, <2>5, <2>6
<1>13. ASSUME NEW e \in Event, Republish(e) PROVE IInv'
  <2>1. <<e, "sweep">> \in Job /\ row[e] # "none"
    BY <1>13 DEF Republish, Job, IInv, EverythingHasARow
  <2>2. /\ emitter' \in [Event -> {"idle", "adding", "ended"}]
        /\ \A f \in Event : emitter'[f] = "adding" => emitter[f] = "adding"
        /\ batch' \in SUBSET batch
    BY <1>13 DEF Republish, IInv, TypeOK
  <2>3. QED  BY <1>13, <2>1, <2>2, AddInv DEF Republish
<1>14. CASE SweepAborts
  <2> USE <1>14 DEF IInv, SweepAborts, Fault, rowVars, jobVars, workerVars
  <2>1. TypeOK'  BY DEF TypeOK
  <2>2. LockedWhileActive'  BY DEF LockedWhileActive
  <2>3. RunsKnowTheirRow'  BY DEF RunsKnowTheirRow
  <2>4. EverythingHasARow'  BY DEF EverythingHasARow
  <2>5. MarkedOnlyAfterHandled'  BY DEF MarkedOnlyAfterHandled
  <2>6. CompletedJobMeansProcessed'  BY DEF CompletedJobMeansProcessed
  <2>7. QED  BY <2>1, <2>2, <2>3, <2>4, <2>5, <2>6
<1>15. CASE RedisLosesData
  <2> USE <1>15 DEF IInv, RedisLosesData, Fault, rowVars, workerVars
  <2>1. TypeOK'  BY DEF TypeOK, JobState
  <2>2. LockedWhileActive'  BY DEF LockedWhileActive
  <2>3. RunsKnowTheirRow'  BY DEF RunsKnowTheirRow
  <2>4. EverythingHasARow'  BY DEF EverythingHasARow
  <2>5. MarkedOnlyAfterHandled'  BY DEF MarkedOnlyAfterHandled
  <2>6. CompletedJobMeansProcessed'  BY DEF CompletedJobMeansProcessed
  <2>7. QED  BY <2>1, <2>2, <2>3, <2>4, <2>5, <2>6
<1>16. CASE UNCHANGED vars
  <2> USE <1>16 DEF IInv, vars, rowVars, jobVars, workerVars
  <2>1. TypeOK'  BY DEF TypeOK
  <2>2. LockedWhileActive'  BY DEF LockedWhileActive
  <2>3. RunsKnowTheirRow'  BY DEF RunsKnowTheirRow
  <2>4. EverythingHasARow'  BY DEF EverythingHasARow
  <2>5. MarkedOnlyAfterHandled'  BY DEF MarkedOnlyAfterHandled
  <2>6. CompletedJobMeansProcessed'  BY DEF CompletedJobMeansProcessed
  <2>7. QED  BY <2>1, <2>2, <2>3, <2>4, <2>5, <2>6
<1>17. QED
  BY <1>1, <1>2, <1>3, <1>4, <1>5, <1>6, <1>7, <1>8, <1>9, <1>10, <1>11,
     <1>12, <1>13, <1>14, <1>15, <1>16 DEF Next, WorkerStep, Sweeper

\* The inductive invariant holds in every reachable state.
THEOREM InductiveInvariant == Spec => []IInv
<1>1. QED  BY InitInv, NextInv, PTL DEF Spec

\* The variables keep the types the module gives them.
THEOREM TypeCorrect == Spec => []TypeOK
<1>1. IInv => TypeOK  BY DEF IInv
<1>2. QED  BY <1>1, InductiveInvariant, PTL

\* processedAt is set only on rows whose event some handler completed, for any
\* number of rows, workers, attempts, crashes and expired locks.
THEOREM MarkedOnlyAfterHandledHolds == Spec => []MarkedOnlyAfterHandled
<1>1. IInv => MarkedOnlyAfterHandled  BY DEF IInv
<1>2. QED  BY <1>1, InductiveInvariant, PTL

\* A retained completed job belongs to a processed row: the sweeper's ignored
\* add never hides unfinished work behind a success.
THEOREM CompletedJobMeansProcessedHolds == Spec => []CompletedJobMeansProcessed
<1>1. IInv => CompletedJobMeansProcessed  BY DEF IInv
<1>2. QED  BY <1>1, InductiveInvariant, PTL


\* The initial state of the outbox is one of EventDelivery.
LEMMA RefineInit == Init => Promise!Init
BY DEF Init, Promise!Init, StageOf

\* A step changes the stage of no event, or moves one event along.
LEMMA RefineNext ==
    IInv /\ [Next]_vars => [Promise!Next]_([e \in Event |-> StageOf(e)])
<1> SUFFICES ASSUME IInv, [Next]_vars
             PROVE  [Promise!Next]_([e \in Event |-> StageOf(e)])
  OBVIOUS
<1> DEFINE stage == [e \in Event |-> StageOf(e)]
<1>t. /\ row \in [Event -> {"none", "open", "done"}]
      /\ handled \in [Event -> BOOLEAN]
  BY DEF IInv, TypeOK
<1>s. ASSUME UNCHANGED <<row, handled>> PROVE stage' = stage
  BY <1>s DEF StageOf
<1>1. ASSUME NEW e \in Event, Record(e) PROVE Promise!Record(e)
  <2>1. row[e] = "none" /\ ~handled[e] /\ row' = [row EXCEPT ![e] = "open"]
        /\ handled' = handled
    BY <1>1, <1>t DEF Record, IInv, EverythingHasARow
  <2>2. QED  BY <2>1, <1>t DEF StageOf, Promise!Record, Promise!Move
<1>2. ASSUME NEW w \in Worker, Handle(w)
      PROVE  stage' = stage \/ Promise!Handle(serving[w][1])
  <2> DEFINE e == serving[w][1]
  <2>1. e \in Event /\ row[e] # "none"
    BY <1>2 DEF Handle, IInv, RunsKnowTheirRow, EverythingHasARow, Job
  <2>2. row' = row /\ handled' = [handled EXCEPT ![e] = TRUE]
    BY <1>2 DEF Handle
  <2> HIDE DEF e
  <2>3. ASSUME row[e] = "open" /\ ~handled[e] PROVE Promise!Handle(e)
    <3>1. \A f \in Event : StageOf(f)' = IF f = e THEN "handled" ELSE StageOf(f)
      BY <1>t, <2>1, <2>2, <2>3 DEF StageOf
    <3>2. StageOf(e) = "recorded"  BY <2>3 DEF StageOf
    <3>3. QED  BY <2>1, <3>1, <3>2 DEF Promise!Handle, Promise!Move
  <2>4. CASE ~(row[e] = "open" /\ ~handled[e])
    <3>1. row[e] = "done" \/ handled[e]  BY <1>t, <2>1, <2>4
    <3>2. \A f \in Event : StageOf(f)' = StageOf(f)
      BY <1>t, <2>1, <2>2, <3>1 DEF StageOf
    <3>3. QED  BY <3>2
  <2>5. QED  BY <2>3, <2>4 DEF e
<1>3. ASSUME NEW w \in Worker, MarkProcessed(w)
      PROVE  stage' = stage \/ Promise!Acknowledge(serving[w][1])
  <2> DEFINE e == serving[w][1]
  <2>1. e \in Event /\ row[e] # "none" /\ handled[e]
    BY <1>3 DEF MarkProcessed, IInv, RunsKnowTheirRow, EverythingHasARow, Job
  <2>2. handled' = handled /\ row' = [row EXCEPT ![e] = "done"]
    BY <1>3 DEF MarkProcessed
  <2> HIDE DEF e
  <2>3. ASSUME row[e] = "open" PROVE Promise!Acknowledge(e)
    <3>1. \A f \in Event : StageOf(f)' = IF f = e THEN "processed" ELSE StageOf(f)
      BY <1>t, <2>1, <2>2, <2>3 DEF StageOf
    <3>2. StageOf(e) = "handled"  BY <2>1, <2>3 DEF StageOf
    <3>3. QED  BY <2>1, <3>1, <3>2 DEF Promise!Acknowledge, Promise!Move
  <2>4. CASE row[e] = "done"
    <3>1. \A f \in Event : StageOf(f)' = StageOf(f)
      BY <1>t, <2>1, <2>2, <2>4 DEF StageOf
    <3>2. QED  BY <3>1
  <2>5. QED  BY <1>t, <2>1, <2>3, <2>4 DEF e
<1>4. ASSUME NEW w \in Worker, Handle(w) \/ MarkProcessed(w)
      PROVE  serving[w][1] \in Event
  BY <1>4 DEF Handle, MarkProcessed, IInv, RunsKnowTheirRow, Job
<1>5. CASE \E e \in Event : Record(e)
  BY <1>1, <1>5 DEF Promise!Next
<1>6. CASE \E w \in Worker : Handle(w) \/ MarkProcessed(w)
  BY <1>2, <1>3, <1>4, <1>6 DEF Promise!Next
<1>7. CASE /\ ~ \E e \in Event : Record(e)
           /\ ~ \E w \in Worker : Handle(w) \/ MarkProcessed(w)
  <2>1. UNCHANGED <<row, handled>>
    BY <1>7 DEF Next, WorkerStep, Sweeper, Publish, PublishLost, Fetch, Finish,
       Throw, Crash, Promote, Stall, BeginSweep, Republish, SweepAborts,
       RedisLosesData, rowVars, vars
  <2>2. QED  BY <1>s, <2>1
<1>8. QED  BY <1>5, <1>6, <1>7

\* The outbox implements at-least-once delivery: every behaviour of Spec is a
\* behaviour of EventDelivery under the stage each row and its history give.
THEOREM DeliversAtLeastOnceHolds == Spec => DeliversAtLeastOnce
<1>1. QED
  BY RefineInit, RefineNext, InductiveInvariant, PTL
  DEF Spec, DeliversAtLeastOnce, Promise!Spec
=============================================================================
