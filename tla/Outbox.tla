------------------------------- MODULE Outbox -------------------------------
(***************************************************************************)
(* The outbox of the portal: OutboxService, the BullMQ queue               *)
(* "placecell-events", the worker that runs EventsProcessor and the        *)
(* sweeper inside it.                                                      *)
(*                                                                         *)
(* A service records an event as a Mongo row (processedAt null) and then   *)
(* adds a job to the queue.  The worker runs the event's handler, marks    *)
(* the row and lets the job complete.  Every 15 s the sweeper reads the    *)
(* oldest unprocessed rows and adds one job per row under a fixed id,      *)
(* which BullMQ ignores while a job of that id is retained.                *)
(*                                                                         *)
(* What a handler does to the other collections is not modelled here: an   *)
(* event is one row, and its handling either runs to its end or throws.    *)
(***************************************************************************)
EXTENDS Integers, Sequences, FiniteSets

CONSTANTS
    Event,          \* the outbox rows that may be created
    Worker,         \* processor slots (worker processes x concurrency)
    None,           \* no job, or no worker
    BatchLimit,     \* rows a sweep reads at most
    Attempts,       \* runs of a job before BullMQ gives it up
    MaxStalled,     \* times BullMQ takes a job back from a lost worker
    KeepCompleted,  \* completed jobs BullMQ retains
    KeepFailed,     \* failed jobs BullMQ retains
    FaultBudget     \* bound: faults (throws, crashes, losses) in a behaviour

ASSUME NoneAssumption ==
    None \notin Worker /\ None \notin Event \X {"emit", "sweep"}
ASSUME LimitAssumption ==
    /\ BatchLimit \in Nat \ {0} /\ Attempts \in Nat \ {0} /\ MaxStalled \in Nat
    /\ KeepCompleted \in Nat \ {0} /\ KeepFailed \in Nat \ {0}
    /\ FaultBudget \in Nat

\* A row has at most two jobs: the one emit adds under a fresh id, and the
\* one the sweeper adds under the id "outbox-<row>".
Job == Event \X {"emit", "sweep"}

VARIABLES
    row,        \* processedAt of each row: no row yet, null, or a date
    older,      \* the rows that existed when the row was created (createdAt order)
    emitter,    \* where the call of emit stands
    queue,      \* state of each job in Redis
    made,       \* attemptsMade of each job
    stalls,     \* stalled counter of each job
    holder,     \* the worker whose lock token is on the job
    completed,  \* retained completed jobs, oldest first
    failed,     \* retained failed jobs, oldest first
    serving,    \* the job a worker is running
    step,       \* where that run stands
    batch,      \* rows read by the sweep in progress and not yet re-added
    handled,    \* history: a handler of the event ran to its end
    faults      \* faults so far

rowVars    == <<row, older, handled>>
jobVars    == <<queue, made, stalls, holder, completed, failed>>
workerVars == <<serving, step>>
vars == <<rowVars, emitter, jobVars, workerVars, batch, faults>>

JobState == {"absent", "waiting", "active", "delayed", "completed", "failed"}

TypeOK ==
    /\ row \in [Event -> {"none", "open", "done"}]
    /\ older \in [Event -> SUBSET Event]
    /\ handled \in [Event -> BOOLEAN]
    /\ emitter \in [Event -> {"idle", "adding", "ended"}]
    /\ queue \in [Job -> JobState]
    /\ made \in [Job -> 0..Attempts]
    /\ stalls \in [Job -> 0..MaxStalled]
    /\ holder \in [Job -> Worker \cup {None}]
    /\ completed \in Seq(Job) /\ failed \in Seq(Job)
    /\ serving \in [Worker -> Job \cup {None}]
    /\ step \in [Worker -> {"idle", "handle", "mark", "finish"}]
    /\ batch \in SUBSET Event
    /\ faults \in 0..FaultBudget

Init ==
    /\ row = [e \in Event |-> "none"]
    /\ older = [e \in Event |-> {}]
    /\ handled = [e \in Event |-> FALSE]
    /\ emitter = [e \in Event |-> "idle"]
    /\ queue = [j \in Job |-> "absent"]
    /\ made = [j \in Job |-> 0]
    /\ stalls = [j \in Job |-> 0]
    /\ holder = [j \in Job |-> None]
    /\ completed = <<>> /\ failed = <<>>
    /\ serving = [w \in Worker |-> None]
    /\ step = [w \in Worker |-> "idle"]
    /\ batch = {}
    /\ faults = 0

\* A fault happens, within the bound.
Fault == faults < FaultBudget /\ faults' = faults + 1

----------------------------------------------------------------------------
(* The queue, as far as the code uses it (BullMQ, external). *)

\* Queue.add: nothing happens while a job of that id exists, retained or not.
Add(j) ==
    /\ queue' = IF queue[j] = "absent" THEN [queue EXCEPT ![j] = "waiting"] ELSE queue
    /\ made' = IF queue[j] = "absent" THEN [made EXCEPT ![j] = 0] ELSE made
    /\ stalls' = IF queue[j] = "absent" THEN [stalls EXCEPT ![j] = 0] ELSE stalls
    /\ UNCHANGED <<holder, completed, failed>>

\* The job that leaves a retained list when it grows past what is kept.
Evicted(list, keep) == IF Len(list) > keep THEN {Head(list)} ELSE {}
Trim(list, keep)    == IF Len(list) > keep THEN Tail(list) ELSE list

\* Job j ends in state s; the oldest job of that list may be removed.
Retire(j, s, evicted) ==
    /\ queue' = [k \in Job |-> IF k \in evicted THEN "absent"
                               ELSE IF k = j THEN s ELSE queue[k]]
    /\ holder' = [k \in Job |-> IF k \in evicted \cup {j} THEN None ELSE holder[k]]

CompleteJob(j) ==
    /\ Retire(j, "completed", Evicted(Append(completed, j), KeepCompleted))
    /\ completed' = Trim(Append(completed, j), KeepCompleted)
    /\ UNCHANGED <<made, stalls, failed>>

FailJob(j) ==
    /\ Retire(j, "failed", Evicted(Append(failed, j), KeepFailed))
    /\ failed' = Trim(Append(failed, j), KeepFailed)
    /\ UNCHANGED completed

\* Mutant: a failed attempt is counted twice.
RetryCountedTwice(j) ==
    /\ made' = [made EXCEPT ![j] = @ + 2]
    /\ UNCHANGED stalls
    /\ \/ /\ made[j] + 1 < Attempts
          /\ queue' = [queue EXCEPT ![j] = "delayed"]
          /\ holder' = [holder EXCEPT ![j] = None]
          /\ UNCHANGED <<completed, failed>>
       \/ /\ made[j] + 1 >= Attempts
          /\ FailJob(j)

\* A run of j threw: it is delayed for another attempt, or given up.
RetryOrFail(j) ==
    /\ made' = [made EXCEPT ![j] = @ + 1]
    /\ UNCHANGED stalls
    /\ \/ /\ made[j] + 1 < Attempts
          /\ queue' = [queue EXCEPT ![j] = "delayed"]
          /\ holder' = [holder EXCEPT ![j] = None]
          /\ UNCHANGED <<completed, failed>>
       \/ /\ made[j] + 1 >= Attempts
          /\ FailJob(j)

\* The backoff of a failed attempt is over.
Promote(j) ==
    /\ queue[j] = "delayed"
    /\ queue' = [queue EXCEPT ![j] = "waiting"]
    /\ UNCHANGED <<rowVars, emitter, made, stalls, holder, completed, failed,
                   workerVars, batch, faults>>

\* The stalled check takes back a job whose lock expired, because its worker
\* is gone or because a live worker could not renew it in time (a fault).
Stall(j) ==
    /\ queue[j] = "active"
    /\ IF serving[holder[j]] = j THEN Fault ELSE UNCHANGED faults
    /\ UNCHANGED made
    /\ \/ /\ stalls[j] < MaxStalled
          /\ stalls' = [stalls EXCEPT ![j] = @ + 1]
          /\ queue' = [queue EXCEPT ![j] = "waiting"]
          /\ holder' = [holder EXCEPT ![j] = None]
          /\ UNCHANGED <<completed, failed>>
       \/ /\ stalls[j] >= MaxStalled
          /\ FailJob(j)
          /\ UNCHANGED stalls
    /\ UNCHANGED <<rowVars, emitter, workerVars, batch>>

\* Redis restarts without its data (docker-compose.yml gives it no volume).
RedisLosesData ==
    /\ Fault
    /\ \E j \in Job : queue[j] # "absent"
    /\ queue' = [j \in Job |-> "absent"]
    /\ holder' = [j \in Job |-> None]
    /\ completed' = <<>> /\ failed' = <<>>
    /\ UNCHANGED <<rowVars, emitter, made, stalls, workerVars, batch>>

----------------------------------------------------------------------------
(* OutboxService.emit *)

\* The row is created before the job is.
Record(e) ==
    /\ row[e] = "none"
    /\ row' = [row EXCEPT ![e] = "open"]
    /\ older' = [older EXCEPT ![e] = {f \in Event : row[f] # "none"}]
    /\ emitter' = [emitter EXCEPT ![e] = "adding"]
    /\ UNCHANGED <<handled, jobVars, workerVars, batch, faults>>

Publish(e) ==
    /\ emitter[e] = "adding"
    /\ emitter' = [emitter EXCEPT ![e] = "ended"]
    /\ Add(<<e, "emit">>)
    /\ UNCHANGED <<rowVars, workerVars, batch, faults>>

\* queue.add rejects and the catch swallows it, or the service dies first.
PublishLost(e) ==
    /\ emitter[e] = "adding"
    /\ emitter' = [emitter EXCEPT ![e] = "ended"]
    /\ UNCHANGED <<rowVars, jobVars, workerVars, batch, faults>>

----------------------------------------------------------------------------
(* EventsProcessor.process, run by a worker *)

Fetch(w, j) ==
    /\ step[w] = "idle" /\ queue[j] = "waiting"
    /\ queue' = [queue EXCEPT ![j] = "active"]
    /\ holder' = [holder EXCEPT ![j] = w]
    /\ serving' = [serving EXCEPT ![w] = j]
    /\ step' = [step EXCEPT ![w] = "handle"]
    /\ UNCHANGED <<rowVars, emitter, made, stalls, completed, failed, batch, faults>>

\* Mutant: the handler is called without an await.
HandleNotAwaited(w) ==
    /\ step[w] = "handle"
    /\ step' = [step EXCEPT ![w] = "mark"]
    /\ UNCHANGED <<rowVars, emitter, jobVars, serving, batch, faults>>

\* The switch over the event type ran to its end.  Nothing looks at
\* processedAt first: a row's second job runs the handler again.
Handle(w) ==
    /\ step[w] = "handle"
    /\ handled' = [handled EXCEPT ![serving[w][1]] = TRUE]
    /\ step' = [step EXCEPT ![w] = "mark"]
    /\ UNCHANGED <<row, older, emitter, jobVars, serving, batch, faults>>

MarkProcessed(w) ==
    /\ step[w] = "mark"
    /\ row' = [row EXCEPT ![serving[w][1]] = "done"]
    /\ step' = [step EXCEPT ![w] = "finish"]
    /\ UNCHANGED <<older, handled, emitter, jobVars, serving, batch, faults>>

Release(w) ==
    /\ serving' = [serving EXCEPT ![w] = None]
    /\ step' = [step EXCEPT ![w] = "idle"]

\* process returned: the job completes if this worker's lock is still on it.
Finish(w) ==
    /\ step[w] = "finish"
    /\ IF holder[serving[w]] = w THEN CompleteJob(serving[w]) ELSE UNCHANGED jobVars
    /\ Release(w)
    /\ UNCHANGED <<rowVars, emitter, batch, faults>>

\* Mutant: process logs the error and does not rethrow it.
ThrowSwallowed(w) ==
    /\ step[w] \in {"handle", "mark"}
    /\ Fault
    /\ IF holder[serving[w]] = w THEN CompleteJob(serving[w]) ELSE UNCHANGED jobVars
    /\ Release(w)
    /\ UNCHANGED <<rowVars, emitter, batch>>

\* The handler, or markProcessed, throws and process rethrows.
Throw(w) ==
    /\ step[w] \in {"handle", "mark"}
    /\ Fault
    /\ IF holder[serving[w]] = w THEN RetryOrFail(serving[w]) ELSE UNCHANGED jobVars
    /\ Release(w)
    /\ UNCHANGED <<rowVars, emitter, batch>>

\* The worker process dies and is started again; its job stays active, and
\* a sweep that ran in the same process is gone with it.
Crash(w) ==
    /\ step[w] # "idle"
    /\ Fault
    /\ Release(w)
    /\ batch' \in {batch, {}}
    /\ UNCHANGED <<rowVars, emitter, jobVars>>

----------------------------------------------------------------------------
(* OutboxService.sweepUnprocessed, run by OutboxSweeper every 15 s *)

Unprocessed == {e \in Event : row[e] = "open"}

\* Mutant: the limit is one row short.
StaleButOne == {e \in Unprocessed : Cardinality(older[e] \cap Unprocessed) < BatchLimit - 1}

\* find({processedAt: null}).sort({createdAt: 1}).limit(limit)
Stale == {e \in Unprocessed : Cardinality(older[e] \cap Unprocessed) < BatchLimit}

BeginSweep ==
    /\ batch = {} /\ Stale # {}
    /\ batch' = Stale
    /\ UNCHANGED <<rowVars, emitter, jobVars, workerVars, faults>>

\* Mutant: the sweeper marks a row as it re-adds it.
RepublishAndMark(e) ==
    /\ e \in batch /\ older[e] \cap batch = {}
    /\ batch' = batch \ {e}
    /\ row' = [row EXCEPT ![e] = "done"]
    /\ Add(<<e, "sweep">>)
    /\ UNCHANGED <<older, handled, emitter, workerVars, faults>>

\* The next row of the loop, in createdAt order, as it was when it was read.
Republish(e) ==
    /\ e \in batch /\ older[e] \cap batch = {}
    /\ batch' = batch \ {e}
    /\ Add(<<e, "sweep">>)
    /\ UNCHANGED <<rowVars, emitter, workerVars, faults>>

\* An add rejects, or the process dies: the rest of the batch is dropped.
SweepAborts ==
    /\ batch # {}
    /\ Fault
    /\ batch' = {}
    /\ UNCHANGED <<rowVars, emitter, jobVars, workerVars>>

----------------------------------------------------------------------------

WorkerStep(w) ==
    \/ \E j \in Job : Fetch(w, j)
    \/ Handle(w) \/ MarkProcessed(w) \/ Finish(w)

Sweeper == BeginSweep \/ \E e \in Event : Republish(e)

Next ==
    \/ \E e \in Event : Record(e) \/ Publish(e) \/ PublishLost(e)
    \/ \E w \in Worker : WorkerStep(w) \/ Throw(w) \/ Crash(w)
    \/ \E j \in Job : Promote(j) \/ Stall(j)
    \/ Sweeper \/ SweepAborts
    \/ RedisLosesData

Spec == Init /\ [][Next]_vars

\* Timers fire, a free worker takes a job and a run goes on.  Nothing obliges
\* a service to record an event or its emit to reach the queue.
Fairness ==
    /\ \A w \in Worker : WF_vars(WorkerStep(w))
    /\ \A j \in Job : WF_vars(Promote(j)) /\ WF_vars(Stall(j) /\ serving[holder[j]] # j)
    /\ WF_vars(Sweeper)

FairSpec == Spec /\ Fairness

----------------------------------------------------------------------------
(* Properties *)

\* A retained completed job never hides unfinished work.  The sweeper's add is
\* ignored while a job of that id is retained; that is harmless for a job that
\* completed, because its row is processed by then.
CompletedJobMeansProcessed ==
    \A j \in Job : queue[j] = "completed" => row[j[1]] = "done"

\* The outbox implements the promise of at-least-once delivery.
StageOf(e) ==
    CASE row[e] = "none"                 -> "unborn"
      [] row[e] = "open" /\ ~handled[e]  -> "recorded"
      [] row[e] = "open" /\ handled[e]   -> "handled"
      [] row[e] = "done"                 -> "processed"

Promise == INSTANCE EventDelivery WITH stage <- [e \in Event |-> StageOf(e)]

\* Every behaviour of the outbox is a behaviour of EventDelivery: rows are
\* recorded once, acknowledged only after being handled, and never reopened.
DeliversAtLeastOnce == Promise!Spec

\* BullMQ gave the sweeper's job of e up and retains it: re-adding is ignored.
Stranded(e) == row[e] = "open" /\ queue[<<e, "sweep">>] = "failed"

\* The rows a sweep reads are all taken by older ones that are stranded.
CrowdedOut(e) ==
    Cardinality({f \in older[e] : Stranded(f)}) >= BatchLimit

\* A recorded event is processed in the end, even if its emit never reached the
\* queue, unless from some moment on its own sweeper job is retained as failed or
\* a whole batch of older rows is in that state and keeps it out of every sweep.
ProcessedUnlessStuck ==
    \A e \in Event :
        row[e] = "open" ~> row[e] = "done" \/ [](Stranded(e) \/ CrowdedOut(e))

\* "Outbox sweeper republishes later" (docs/architecture-report.html:304): once
\* the faults of a behaviour are over, every recorded event is processed in the
\* end.
UnprocessedIsRepublished ==
    \A e \in Event : row[e] = "open" ~> row[e] = "done"
=============================================================================
