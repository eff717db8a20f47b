----------------------------- MODULE ReviewQueue ----------------------------
(***************************************************************************)
(* ReviewQueue (src/src/pullsage/jobs/worker.py) over the job store: the   *)
(* admission of jobs, the worker tasks, start() and stop().                *)
(*                                                                         *)
(* asyncio switches tasks only at an await that suspends.  Every await of  *)
(* a coroutine that takes a lock may suspend before its effect, so a step  *)
(* runs from one such effect to the next await.  The store operations of a *)
(* step are those of JobStore.                                             *)
(***************************************************************************)
EXTENDS JobStore, Sequences

CONSTANTS Worker,        \* the worker tasks, `concurrency` of them
          MaxQueueSize,  \* max_queue_size
          Stop,          \* the sentinel _STOP
          NoJob          \* no job at all

ASSUME ReviewQueueAssumption ==
  /\ MaxQueueSize \in Nat \ {0}
  /\ IsFiniteSet(Worker) /\ Worker # {}
  /\ Stop \notin JobId /\ NoJob \notin JobId

VARIABLES
  queue,       \* _queue: job ids and sentinels, oldest first
  unfinished,  \* the queue's count of items without a task_done()
  pc,          \* where each worker task is
  held,        \* the job each worker took from the queue
  cancelled,   \* the workers with a pending cancel()
  phase,       \* how far start() and stop() are
  owed,        \* sentinels stop() has still to put
  admitting,   \* the enqueue call that holds the lifecycle lock, if any
  refused      \* the job it created and the full queue refused

workerVars == <<pc, held, cancelled>>
entryVars  == <<admitting, refused>>
queueVars  == <<queue, unfinished, workerVars, phase, owed, entryVars>>
vars       == <<storeVars, queueVars>>

-----------------------------------------------------------------------------
(***************************************************************************)
(* A worker is "down" (no task), "idle" in queue.get(), has a "job" in     *)
(* _process_job, or is in the "unwind" of a CancelledError that            *)
(* _process_job_with_context has already handled.                          *)
(*                                                                         *)
(* phase: `_started` is phase # "stopped" and `_accepting` is              *)
(* phase = "running".  stop() is "joining" the queue, putting its          *)
(* "sentinels", or "gathering" the workers, with the lifecycle lock held.  *)
(***************************************************************************)
LockFree == phase \in {"stopped", "running"} /\ admitting = {} /\ refused = NoJob

is_running == phase = "running" /\ \A w \in Worker : pc[w] # "down"

Queued == {queue[i] : i \in DOMAIN queue} \ {Stop}

Holding(w) == pc[w] \in {"job", "unwind"}

\* put_nowait, or a put that found room
PutItem(item) == queue' = Append(queue, item) /\ unfinished' = unfinished + 1

Init ==
  /\ StoreInit
  /\ queue = <<>> /\ unfinished = 0
  /\ pc = [w \in Worker |-> "down"]
  /\ held = [w \in Worker |-> NoJob]
  /\ cancelled = {}
  /\ phase = "stopped" /\ owed = 0
  /\ admitting = {} /\ refused = NoJob

-----------------------------------------------------------------------------
(***************************************************************************)
(* Lifecycle: start() and stop(), under the lifecycle lock.                *)
(***************************************************************************)
\* start
Start ==
  /\ LockFree /\ phase = "stopped"
  /\ phase' = "running"
  /\ pc' = [w \in Worker |-> "idle"]
  /\ UNCHANGED <<storeVars, queue, unfinished, held, cancelled, owed, entryVars>>

\* stop: _accepting = False and the cleanup task is cancelled.
StopBegin ==
  /\ LockFree /\ phase = "running"
  /\ phase' = "joining"
  /\ UNCHANGED <<storeVars, queue, unfinished, workerVars, owed, entryVars>>

\* Mutant: an empty queue is taken for a drained one.
Drained_EmptyQueue ==
  /\ phase = "joining" /\ queue = <<>>
  /\ phase' = "sentinels" /\ owed' = Cardinality(Worker)
  /\ UNCHANGED <<storeVars, queue, unfinished, workerVars, entryVars>>

\* queue.join() returns: every item was handled.
Drained ==
  /\ phase = "joining" /\ unfinished = 0
  /\ phase' = "sentinels" /\ owed' = Cardinality(Worker)
  /\ UNCHANGED <<storeVars, queue, unfinished, workerVars, entryVars>>

\* wait_for times out first: every live worker is cancelled.
DrainTimeout ==
  /\ phase = "joining"
  /\ phase' = "gathering"
  /\ cancelled' = {w \in Worker : pc[w] # "down"}
  /\ UNCHANGED <<storeVars, queue, unfinished, pc, held, owed, entryVars>>

\* Mutant: the sentinel does not wait for room.
PutStop_NoWait ==
  /\ phase = "sentinels"
  /\ PutItem(Stop)
  /\ owed' = owed - 1
  /\ phase' = IF owed' = 0 THEN "gathering" ELSE phase
  /\ UNCHANGED <<storeVars, workerVars, entryVars>>

\* queue.put(_STOP), which waits for room; after the last one, gather.
PutStop ==
  /\ phase = "sentinels" /\ Len(queue) < MaxQueueSize
  /\ PutItem(Stop)
  /\ owed' = owed - 1
  /\ phase' = IF owed' = 0 THEN "gathering" ELSE phase
  /\ UNCHANGED <<storeVars, workerVars, entryVars>>

\* Mutant: the workers are not awaited.
StopDone_NoGather ==
  /\ phase = "gathering"
  /\ phase' = "stopped"
  /\ UNCHANGED <<storeVars, queue, unfinished, workerVars, owed, entryVars>>

\* gather returns: every worker has ended.
StopDone ==
  /\ phase = "gathering" /\ \A w \in Worker : pc[w] = "down"
  /\ phase' = "stopped"
  /\ UNCHANGED <<storeVars, queue, unfinished, workerVars, owed, entryVars>>

-----------------------------------------------------------------------------
(***************************************************************************)
(* enqueue_with_status: admission, under the lifecycle lock.  The lock is  *)
(* held from the check of is_running to the last effect on the queue.      *)
(***************************************************************************)
Request == [key : Key \cup {NoKey}, post : Posts]

\* uuid4() never repeats the identifier of a job that is still about.
Fresh(j) == j \notin Queued /\ \A w \in Worker : held[w] # j

\* The lock is acquired and the queue runs; otherwise WorkerShutdownError.
Admit(r) ==
  /\ LockFree /\ is_running
  /\ admitting' = {r}
  /\ UNCHANGED <<storeVars, queue, unfinished, workerVars, phase, owed, refused>>

\* Mutant: after QueueFull the job stays in the store.
Enqueue_ForgetsRefused(j) ==
  \E r \in admitting :
    /\ Fresh(j) /\ GetOrCreate(j, r.key, r.post)
    /\ IF Len(queue) < MaxQueueSize THEN PutItem(j) ELSE UNCHANGED <<queue, unfinished>>
    /\ admitting' = admitting \ {r}
    /\ UNCHANGED <<workerVars, phase, owed, refused>>

\* get_or_create_job created the job, put_nowait found room or QueueFull.
Enqueue(j) ==
  \E r \in admitting :
    /\ Fresh(j) /\ GetOrCreate(j, r.key, r.post)
    /\ IF Len(queue) < MaxQueueSize
         THEN PutItem(j) /\ UNCHANGED refused
         ELSE refused' = j /\ UNCHANGED <<queue, unfinished>>
    /\ admitting' = admitting \ {r}
    /\ UNCHANGED <<workerVars, phase, owed>>

\* get_or_create_job returned the active job for this head.
Deduplicate ==
  \E r \in admitting :
    /\ HasActive(r.key)
    /\ admitting' = admitting \ {r}
    /\ UNCHANGED <<storeVars, queue, unfinished, workerVars, phase, owed, refused>>

\* get_or_create_job raised ReviewCapacityError.
Reject ==
  \E r \in admitting :
    /\ RejectForCapacity(r.key)
    /\ admitting' = admitting \ {r}
    /\ UNCHANGED <<queue, unfinished, workerVars, phase, owed, refused>>

\* Mutant: the job is popped, its entry in the index stays.
Withdraw_KeepsIndex ==
  /\ refused # NoJob
  /\ jobs' = Drop(jobs, {refused})
  /\ refused' = NoJob
  /\ UNCHANGED <<activeByKey, clock, queue, unfinished, workerVars, phase, owed, admitting>>

\* After asyncio.QueueFull: store.delete, and ReviewCapacityError is raised.
Withdraw ==
  /\ refused # NoJob
  /\ Delete(refused)
  /\ refused' = NoJob
  /\ UNCHANGED <<queue, unfinished, workerVars, phase, owed, admitting>>

-----------------------------------------------------------------------------
(***************************************************************************)
(* _worker_loop and _process_job_with_context.                             *)
(***************************************************************************)
\* Mutant: the item is read but not removed.
Take_Peeks(w) ==
  /\ pc[w] = "idle" /\ w \notin cancelled
  /\ queue # <<>> /\ Head(queue) # Stop
  /\ pc' = [pc EXCEPT ![w] = "job"]
  /\ held' = [held EXCEPT ![w] = Head(queue)]
  /\ UNCHANGED <<storeVars, queue, unfinished, cancelled, phase, owed, entryVars>>

\* Mutant: the newest job is served first.
Take_Newest(w) ==
  /\ pc[w] = "idle" /\ w \notin cancelled
  /\ queue # <<>> /\ queue[Len(queue)] # Stop
  /\ queue' = SubSeq(queue, 1, Len(queue) - 1)
  /\ pc' = [pc EXCEPT ![w] = "job"]
  /\ held' = [held EXCEPT ![w] = queue[Len(queue)]]
  /\ UNCHANGED <<storeVars, unfinished, cancelled, phase, owed, entryVars>>

\* queue.get() returns a job.
Take(w) ==
  /\ pc[w] = "idle" /\ w \notin cancelled
  /\ queue # <<>> /\ Head(queue) # Stop
  /\ queue' = Tail(queue)
  /\ pc' = [pc EXCEPT ![w] = "job"]
  /\ held' = [held EXCEPT ![w] = Head(queue)]
  /\ UNCHANGED <<storeVars, unfinished, cancelled, phase, owed, entryVars>>

\* queue.get() returns a sentinel: task_done() and the task ends.
TakeStop(w) ==
  /\ pc[w] = "idle" /\ w \notin cancelled
  /\ queue # <<>> /\ Head(queue) = Stop
  /\ queue' = Tail(queue)
  /\ unfinished' = unfinished - 1
  /\ pc' = [pc EXCEPT ![w] = "down"]
  /\ UNCHANGED <<storeVars, held, cancelled, phase, owed, entryVars>>

\* The status the worker, then the service, reports next; a dry run has none
\* after validation.
NextStatus(job) ==
  CASE job.status = "queued"           -> {"fetching_context"}
    [] job.status = "fetching_context" -> {"reviewing"}
    [] job.status = "reviewing"        -> {"validating"}
    [] job.status = "validating"       -> IF job.post THEN {"posting"} ELSE {}
    [] OTHER                           -> {}

\* store.transition from the worker, and update_progress from the service.
Progress(w) ==
  /\ pc[w] = "job" /\ w \notin cancelled
  /\ \E s \in NextStatus(jobs[held[w]]) : Transition(held[w], s, FALSE, FALSE)
  /\ UNCHANGED queueVars

\* task_done() for the item the worker holds, and the worker's next place.
Finish(w, next) ==
  /\ unfinished' = unfinished - 1
  /\ pc' = [pc EXCEPT ![w] = next]
  /\ held' = [held EXCEPT ![w] = NoJob]

\* The service returned its result: a dry run after validation, a posted
\* review after the submission.
Complete(w) ==
  /\ pc[w] = "job" /\ w \notin cancelled
  /\ jobs[held[w]].status = IF jobs[held[w]].post THEN "posting" ELSE "validating"
  /\ Transition(held[w], "completed", TRUE, FALSE)
  /\ Finish(w, "idle")
  /\ UNCHANGED <<queue, cancelled, phase, owed, entryVars>>

\* Mutant: a job that failed is queued again.
Failed_Requeues(w) ==
  /\ pc[w] = "job" /\ w \notin cancelled
  /\ jobs[held[w]].status # "queued"
  /\ Fail(held[w])
  /\ queue' = Append(queue, held[w]) /\ UNCHANGED unfinished
  /\ pc' = [pc EXCEPT ![w] = "idle"]
  /\ held' = [held EXCEPT ![w] = NoJob]
  /\ UNCHANGED <<cancelled, phase, owed, entryVars>>

\* The service raised: GitHub, Codex, validation or a stale head.
Failed(w) ==
  /\ pc[w] = "job" /\ w \notin cancelled
  /\ jobs[held[w]].status # "queued"
  /\ Fail(held[w])
  /\ Finish(w, "idle")
  /\ UNCHANGED <<queue, cancelled, phase, owed, entryVars>>

\* Mutant: task_done() for an item that was never taken.
CancelIdle_TaskDone(w) ==
  /\ pc[w] = "idle" /\ w \in cancelled
  /\ pc' = [pc EXCEPT ![w] = "down"]
  /\ cancelled' = cancelled \ {w}
  /\ unfinished' = unfinished - 1
  /\ UNCHANGED <<storeVars, queue, held, phase, owed, entryVars>>

\* CancelledError in queue.get(): nothing is held.
CancelIdle(w) ==
  /\ pc[w] = "idle" /\ w \in cancelled
  /\ pc' = [pc EXCEPT ![w] = "down"]
  /\ cancelled' = cancelled \ {w}
  /\ UNCHANGED <<storeVars, queue, unfinished, held, phase, owed, entryVars>>

\* CancelledError inside the try of _process_job_with_context: the job fails
\* and the error goes on to _worker_loop.
CancelJob(w) ==
  /\ pc[w] = "job" /\ w \in cancelled
  /\ Fail(held[w])
  /\ pc' = [pc EXCEPT ![w] = "unwind"]
  /\ UNCHANGED <<queue, unfinished, held, cancelled, phase, owed, entryVars>>

\* Mutant: the cancellation is swallowed and the worker loops.
CancelWorker_Swallowed(w) ==
  /\ Holding(w) /\ w \in cancelled
  /\ Fail(held[w])
  /\ Finish(w, "idle")
  /\ cancelled' = cancelled \ {w}
  /\ UNCHANGED <<queue, phase, owed, entryVars>>

\* CancelledError in _worker_loop, from there or raised outside that try: the
\* job fails (again), task_done(), and the task ends.
CancelWorker(w) ==
  /\ Holding(w) /\ w \in cancelled
  /\ Fail(held[w])
  /\ Finish(w, "down")
  /\ cancelled' = cancelled \ {w}
  /\ UNCHANGED <<queue, phase, owed, entryVars>>

\* The cleanup task, which start() creates and stop() cancels.
Cleanup == phase = "running" /\ CleanupExpired /\ UNCHANGED queueVars

Time == Tick /\ UNCHANGED queueVars

-----------------------------------------------------------------------------
StopStep == Drained \/ DrainTimeout \/ PutStop \/ StopDone

EntryStep == (\E j \in JobId : Enqueue(j)) \/ Deduplicate \/ Reject \/ Withdraw

WorkerStep(w) ==
  \/ Take(w) \/ TakeStop(w)
  \/ Progress(w) \/ Complete(w) \/ Failed(w)
  \/ CancelIdle(w) \/ CancelJob(w) \/ CancelWorker(w)

Next ==
  \/ Start \/ StopBegin \/ StopStep
  \/ \E r \in Request : Admit(r)
  \/ EntryStep
  \/ \E w \in Worker : WorkerStep(w)
  \/ Cleanup \/ Time

Spec == Init /\ [][Next]_vars

\* The event loop runs every task that can run, the drain timer of stop()
\* expires, and every service call returns or raises: HTTP requests and the
\* Codex process have timeouts.  Nothing makes a client enqueue, or the
\* application start or stop.
Fairness ==
  /\ \A w \in Worker : WF_vars(WorkerStep(w))
  /\ WF_vars(StopStep)
  /\ WF_vars(EntryStep)

FairSpec == Spec /\ Fairness

-----------------------------------------------------------------------------
(***************************************************************************)
(* What the queue promises.                                                *)
(***************************************************************************)
\* Types of the queue's state; the store keeps its own.
QueueTypeOK ==
  /\ queue \in Seq(JobId \cup {Stop}) /\ Len(queue) <= MaxQueueSize
  /\ unfinished \in Nat
  /\ pc \in [Worker -> {"down", "idle", "job", "unwind"}]
  /\ held \in [Worker -> JobId \cup {NoJob}]
  /\ cancelled \subseteq Worker
  /\ phase \in {"stopped", "running", "joining", "sentinels", "gathering"}
  /\ owed \in 0..Cardinality(Worker)
  /\ admitting \subseteq Request
  /\ refused \in JobId \cup {NoJob}

\* No accepted job is forgotten: an active job waits in the queue, is with a
\* worker, or is about to be withdrawn because the queue was full.  One that
\* was not would keep its head locked for the life of the process.
NoOrphan ==
  \A j \in Stored :
    Active(j) => \/ j \in Queued
                 \/ j = refused
                 \/ \E w \in Worker : pc[w] = "job" /\ held[w] = j

\* Nothing is handled that is not there: eviction, expiry and withdrawal never
\* take a job away that the queue or a worker refers to, so the JobNotFoundError
\* and InvalidJobTransitionError that worker.py suppresses never arise.
NoGhost ==
  /\ \A j \in Queued \cup ({refused} \ {NoJob}) : j \in Stored /\ jobs[j].status = "queued"
  /\ \A w \in Worker :
       /\ pc[w] = "job" => Active(held[w])
       /\ pc[w] = "unwind" => held[w] \in Stored /\ jobs[held[w]].status = "failed"

\* A job is in one place only, once in the queue or with one worker, and two
\* workers never review the same pull-request head at the same time.
SingleHandler ==
  /\ \A i, n \in DOMAIN queue : queue[i] = queue[n] /\ queue[i] # Stop => i = n
  /\ refused \notin Queued
  /\ \A w \in Worker : Holding(w) =>
       /\ held[w] \notin Queued \cup {refused}
       /\ \A v \in Worker \ {w} : held[v] # held[w]
  /\ \A v, w \in Worker :
       /\ v # w /\ pc[v] = "job" /\ pc[w] = "job"
       /\ jobs[held[v]].key # NoKey
       => jobs[held[v]].key # jobs[held[w]].key

\* The counter that queue.join() waits for is the work there is: stop() would
\* otherwise hang until its timeout, or take the queue for drained too early.
UnfinishedExact ==
  unfinished = Len(queue) + Cardinality({w \in Worker : Holding(w)})

\* "an accepted job cannot land behind worker shutdown sentinels": from the
\* moment the queue is found drained, no job is active anywhere.
NoJobBehindStop ==
  phase = "sentinels" \/ Stop \in {queue[i] : i \in DOMAIN queue}
    => \A j \in Stored : ~Active(j)

\* A stop() that returned left no worker, no sentinel and no job in progress:
\* what is still active is queued, and start() would resume it.
StopSettles ==
  phase = "stopped" =>
    /\ \A w \in Worker : pc[w] = "down" /\ held[w] = NoJob
    /\ cancelled = {} /\ owed = 0
    /\ Stop \notin {queue[i] : i \in DOMAIN queue}
    /\ \A j \in Stored : Active(j) => j \in Queued

\* A job leaves the store while it is active only if it was refused: accepted
\* work is never evicted, expired or deleted.
AcceptedNeverDropped ==
  [][\A j \in Stored : Active(j) /\ j \notin Stored' => j = refused]_vars

\* stop() returns, whatever the workers are doing and however full the queue is,
\* also if its sentinels must wait for room.
StopReturns == phase = "joining" ~> phase = "stopped"

\* No job waits in the queue for ever, unless the queue is stopped first, and no
\* worker keeps a job for ever.
JobsServed ==
  /\ \A j \in JobId : []<>(j \notin Queued \/ phase = "stopped")
  /\ \A w \in Worker : []<>(pc[w] # "job")
=============================================================================
