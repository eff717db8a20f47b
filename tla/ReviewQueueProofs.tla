-------------------------- MODULE ReviewQueueProofs -------------------------
(***************************************************************************)
(* The review queue drives the job store only through its operations, so   *)
(* that what is proved of the store holds while workers, clients, start()  *)
(* and stop() interleave.  And the queue hands its jobs over: each of them *)
(* is in one place, and the queue has settled when stop() returns.         *)
(***************************************************************************)
EXTENDS ReviewQueue, JobStoreProofs

\* Every progress report names a status of the store.
LEMMA NextStatusType ==
  ASSUME NEW job, NEW s \in NextStatus(job)
  PROVE  s \in Status
BY DEF NextStatus, Status

\* Who holds the lifecycle lock to enqueue asks for a head of the model.
RequestsTyped == admitting \subseteq Request

LEMMA RequestsStayTyped ==
  ASSUME RequestsTyped, [Next]_vars
  PROVE  RequestsTyped'
<1>1. CASE Start \/ StopBegin \/ StopStep
  BY <1>1 DEF Start, StopBegin, StopStep, Drained, DrainTimeout, PutStop, StopDone,
              entryVars, RequestsTyped
<1>2. ASSUME NEW r \in Request, Admit(r)
      PROVE  RequestsTyped'
  BY <1>2 DEF Admit, RequestsTyped
<1>3. CASE EntryStep
  BY <1>3 DEF EntryStep, Enqueue, Deduplicate, Reject, Withdraw, RequestsTyped
<1>4. ASSUME NEW w \in Worker, WorkerStep(w)
      PROVE  RequestsTyped'
  BY <1>4 DEF WorkerStep, Take, TakeStop, Progress, Complete, Failed, CancelIdle, CancelJob,
              CancelWorker, queueVars, entryVars, RequestsTyped
<1>5. CASE Cleanup \/ Time \/ UNCHANGED vars
  BY <1>5 DEF Cleanup, Time, vars, queueVars, entryVars, RequestsTyped
<1> QED
  BY <1>1, <1>2, <1>3, <1>4, <1>5 DEF Next

\* One step per action of the queue: a store operation, or none.
LEMMA QueueStepIsStoreStep ==
  ASSUME RequestsTyped, [Next]_vars
  PROVE  [StoreNext]_storeVars
<1>1. CASE Start \/ StopBegin
  BY <1>1 DEF Start, StopBegin
<1>2. CASE StopStep
  BY <1>2 DEF StopStep, Drained, DrainTimeout, PutStop, StopDone
<1>3. ASSUME NEW r \in Request, Admit(r)
      PROVE  UNCHANGED storeVars
  BY <1>3 DEF Admit
<1>4. ASSUME NEW j \in JobId, Enqueue(j)
      PROVE  StoreNext
  <2>1. PICK r \in admitting : GetOrCreate(j, r.key, r.post)
    BY <1>4 DEF Enqueue
  <2>2. r.key \in Key \cup {NoKey} /\ r.post \in Posts
    BY DEF RequestsTyped, Request
  <2> QED
    BY <2>1, <2>2 DEF StoreNext
<1>5. CASE Deduplicate
  BY <1>5 DEF Deduplicate
<1>6. CASE Reject
  <2>1. PICK r \in admitting : RejectForCapacity(r.key)
    BY <1>6 DEF Reject
  <2>2. r.key \in Key \cup {NoKey}
    BY DEF RequestsTyped, Request
  <2> QED
    BY <2>1, <2>2 DEF StoreNext
<1>7. CASE Withdraw
  BY <1>7 DEF Withdraw, Delete, StoreNext
<1>8. ASSUME NEW w \in Worker, WorkerStep(w)
      PROVE  [StoreNext]_storeVars
  <2> DEFINE j == held[w]
  <2>1. ASSUME NEW s \in Status, NEW res \in BOOLEAN, NEW err \in BOOLEAN, Transition(j, s, res, err)
        PROVE  StoreNext
    <3>1. j \in Stored
      BY <2>1 DEF Transition
    <3> QED
      BY <2>1, <3>1 DEF StoreNext
  <2>2. "completed" \in Status /\ "failed" \in Status /\ TRUE \in BOOLEAN /\ FALSE \in BOOLEAN
    BY DEF Status
  <2>3. ASSUME Fail(j) PROVE StoreNext
    BY <2>1, <2>2, <2>3 DEF Fail
  <2>4. CASE Take(w) \/ TakeStop(w) \/ CancelIdle(w)
    BY <2>4 DEF Take, TakeStop, CancelIdle
  <2>5. CASE Progress(w)
    <3>1. PICK s \in NextStatus(jobs[j]) : Transition(j, s, FALSE, FALSE)
      BY <2>5 DEF Progress
    <3> QED
      BY <2>1, <2>2, <3>1, NextStatusType
  <2>6. CASE Complete(w)
    BY <2>1, <2>2, <2>6 DEF Complete
  <2>7. CASE Failed(w)
    BY <2>3, <2>7 DEF Failed
  <2>8. CASE CancelJob(w)
    BY <2>3, <2>8 DEF CancelJob
  <2>9. CASE CancelWorker(w)
    BY <2>3, <2>9 DEF CancelWorker
  <2> QED
    BY <1>8, <2>4, <2>5, <2>6, <2>7, <2>8, <2>9 DEF WorkerStep
<1>9. CASE Cleanup
  BY <1>9 DEF Cleanup, StoreNext
<1>10. CASE Time
  BY <1>10 DEF Time, StoreNext
<1>11. CASE UNCHANGED vars
  BY <1>11 DEF vars
<1> QED
  BY <1>1, <1>2, <1>3, <1>4, <1>5, <1>6, <1>7, <1>8, <1>9, <1>10, <1>11 DEF Next, EntryStep

-----------------------------------------------------------------------------
\* Every run of the queue is a run of the store.
THEOREM QueueImplementsStore == Spec => StoreSpec
<1>1. Init => StoreInit /\ RequestsTyped
  BY DEF Init, RequestsTyped
<1> QED
  BY <1>1, RequestsStayTyped, QueueStepIsStoreStep, PTL DEF Spec, StoreSpec

\* With any number of workers, at most one job is active for a pull-request head.
THEOREM QueueUniqueActive == Spec => []UniqueActive
BY QueueImplementsStore, StoreUniqueActive, PTL

\* Under the queue too, every head is a lock that only creation takes and only
\* the end of its job frees.
THEOREM QueueImplementsHeadLocks == Spec => ImplementsHeadLocks
BY QueueImplementsStore, StoreImplementsHeadLocks, PTL

-----------------------------------------------------------------------------
(***************************************************************************)
(* The hand-over.  Where a job is depends on everything: on the lock that  *)
(* keeps admission and stop() apart, on the count that lets stop() go on,  *)
(* and on what stop() may find.  So the invariant is about all of it.      *)
(***************************************************************************)
Items == {queue[i] : i \in DOMAIN queue}
Alive == {w \in Worker : pc[w] # "down"}
Busy  == {w \in Worker : Holding(w)}

Typed ==
  /\ queue \in Seq(JobId \cup {Stop}) /\ Len(queue) <= MaxQueueSize
  /\ unfinished \in Nat
  /\ pc \in [Worker -> {"down", "idle", "job", "unwind"}]
  /\ held \in [Worker -> JobId \cup {NoJob}]
  /\ cancelled \subseteq Worker
  /\ phase \in {"stopped", "running", "joining", "sentinels", "gathering"}
  /\ owed \in Nat
  /\ admitting \subseteq Request
  /\ refused \in JobId \cup {NoJob}

\* One call at a time enqueues, and only while the queue runs; a worker has a job
\* exactly while it holds one, and unwinds only when it is cancelled.
Locked ==
  /\ \A r, s \in admitting : r = s
  /\ admitting # {} => phase = "running" /\ refused = NoJob
  /\ refused # NoJob => phase = "running"
  /\ \A w \in Worker : held[w] # NoJob <=> Holding(w)
  /\ \A w \in Worker : pc[w] = "unwind" => w \in cancelled
  /\ \A w \in cancelled : pc[w] # "down"

\* Every active job is in one place, and every place has an active job.
Distinct(q) == \A i, n \in DOMAIN q : q[i] = q[n] /\ q[i] # Stop => i = n

Placed ==
  /\ NoOrphan /\ NoGhost
  /\ Distinct(queue)
  /\ refused \notin Queued
  /\ \A w \in Worker : Holding(w) =>
       /\ held[w] \notin Queued \cup {refused}
       /\ \A v \in Worker \ {w} : held[v] # held[w]

Counted == unfinished = Len(queue) + Cardinality(Busy)

\* Either the queue was drained, and as many sentinels are queued or owed as there
\* are workers, or the drain timed out, and whoever is alive is cancelled.
Draining ==
  /\ \A i \in DOMAIN queue : queue[i] = Stop
  /\ cancelled = {}
  /\ Len(queue) + owed = Cardinality(Alive)
  /\ \A j \in Stored : ~Active(j)

TimedOut == Stop \notin Items /\ cancelled = Alive /\ owed = 0

Stopping ==
  /\ phase \in {"stopped", "running", "joining"} => Stop \notin Items /\ cancelled = {} /\ owed = 0
  /\ phase = "stopped" => Alive = {}
  /\ phase \in {"running", "joining"} => Alive = Worker
  /\ phase = "sentinels" => Draining /\ owed > 0
  /\ phase = "gathering" => (Draining /\ owed = 0) \/ TimedOut

QueueInv == Typed /\ Locked /\ Placed /\ Counted /\ Stopping

-----------------------------------------------------------------------------
(***************************************************************************)
(* The queue as a sequence.                                                *)
(***************************************************************************)
JobsIn(q) == {q[i] : i \in DOMAIN q} \ {Stop}

LEMMA AppendItem ==
  ASSUME NEW q \in Seq(JobId \cup {Stop}), NEW x \in JobId \cup {Stop}, Distinct(q), x \notin JobsIn(q)
  PROVE  /\ Append(q, x) \in Seq(JobId \cup {Stop}) /\ Len(Append(q, x)) = Len(q) + 1
         /\ JobsIn(Append(q, x)) = JobsIn(q) \cup ({x} \ {Stop})
         /\ {Append(q, x)[i] : i \in DOMAIN Append(q, x)} = {q[i] : i \in DOMAIN q} \cup {x}
         /\ Distinct(Append(q, x))
<1> DEFINE r == Append(q, x)
<1>1. /\ r \in Seq(JobId \cup {Stop}) /\ Len(r) = Len(q) + 1
      /\ DOMAIN r = DOMAIN q \cup {Len(q) + 1} /\ Len(q) + 1 \notin DOMAIN q
      /\ r[Len(q) + 1] = x /\ \A i \in DOMAIN q : r[i] = q[i]
  OBVIOUS
<1> HIDE DEF r
<1>2. {r[i] : i \in DOMAIN r} = {q[i] : i \in DOMAIN q} \cup {x}
  BY <1>1
<1>3. Distinct(r)
  BY <1>1 DEF Distinct, JobsIn
<1> QED
  BY <1>1, <1>2, <1>3 DEF JobsIn, r

LEMMA TakeItem ==
  ASSUME NEW q \in Seq(JobId \cup {Stop}), Distinct(q), q # <<>>
  PROVE  /\ Tail(q) \in Seq(JobId \cup {Stop}) /\ Len(Tail(q)) = Len(q) - 1
         /\ Head(q) \in {q[i] : i \in DOMAIN q}
         /\ JobsIn(Tail(q)) = JobsIn(q) \ {Head(q)}
         /\ {Tail(q)[i] : i \in DOMAIN Tail(q)} \subseteq {q[i] : i \in DOMAIN q}
         /\ Distinct(Tail(q))
<1> DEFINE r == Tail(q)
<1>1. /\ r \in Seq(JobId \cup {Stop}) /\ Len(r) = Len(q) - 1
      /\ Head(q) = q[1] /\ 1 \in DOMAIN q
      /\ \A i \in DOMAIN r : i + 1 \in DOMAIN q /\ r[i] = q[i + 1]
      /\ \A i \in DOMAIN q : i # 1 => i - 1 \in DOMAIN r /\ r[i - 1] = q[i]
      /\ DOMAIN q \subseteq Nat /\ DOMAIN r \subseteq Nat
  OBVIOUS
<1> HIDE DEF r
<1>2. {r[i] : i \in DOMAIN r} \subseteq {q[i] : i \in DOMAIN q}
  BY <1>1
<1>3. Distinct(r)
  <2> SUFFICES ASSUME NEW i \in DOMAIN r, NEW n \in DOMAIN r, r[i] = r[n], r[i] # Stop
               PROVE  i = n
    BY DEF Distinct
  <2>1. i + 1 = n + 1
    BY <1>1 DEF Distinct
  <2> QED
    BY <1>1, <2>1
<1>4. JobsIn(r) = JobsIn(q) \ {Head(q)}
  <2>1. ASSUME NEW x \in JobsIn(r) PROVE x \in JobsIn(q) \ {Head(q)}
    <3>1. PICK i \in DOMAIN r : r[i] = x /\ x # Stop
      BY DEF JobsIn
    <3>2. i + 1 \in DOMAIN q /\ q[i + 1] = x /\ i + 1 # 1
      BY <1>1, <3>1
    <3> QED
      BY <1>1, <3>1, <3>2 DEF JobsIn, Distinct
  <2>2. ASSUME NEW x \in JobsIn(q) \ {Head(q)} PROVE x \in JobsIn(r)
    <3>1. PICK i \in DOMAIN q : q[i] = x /\ x # Stop
      BY DEF JobsIn
    <3>2. i # 1
      BY <1>1, <3>1
    <3> QED
      BY <1>1, <3>1, <3>2 DEF JobsIn
  <2> QED
    BY <2>1, <2>2
<1> QED
  BY <1>1, <1>2, <1>3, <1>4 DEF r

\* A worker that gets a job, or gives one up.
LEMMA HoldOne ==
  ASSUME NEW S \in SUBSET Worker, NEW w \in Worker
  PROVE  /\ Cardinality(S) \in Nat
         /\ w \notin S => Cardinality(S \cup {w}) = Cardinality(S) + 1
         /\ w \in S => Cardinality(S \ {w}) = Cardinality(S) - 1
<1>1. IsFiniteSet(S)
  BY FS_Subset, ReviewQueueAssumption
<1> QED
  BY <1>1, FS_AddElement, FS_RemoveElement, FS_CardinalityType

-----------------------------------------------------------------------------
(***************************************************************************)
(* Types, and the lock.                                                    *)
(***************************************************************************)
\* A worker that is idle with a queue before it, or that holds a job, is counted.
LEMMA CountedItems ==
  ASSUME Typed, Counted
  PROVE  /\ Cardinality(Busy) \in Nat /\ Len(queue) \in Nat
         /\ unfinished = 0 => queue = <<>> /\ Busy = {}
         /\ queue # <<>> => unfinished - 1 \in Nat
         /\ \A w \in Worker : Holding(w) => unfinished - 1 \in Nat
<1>1. Busy \in SUBSET Worker
  BY DEF Busy
<1>2. IsFiniteSet(Busy)
  BY <1>1, FS_Subset, ReviewQueueAssumption
<1>3. Cardinality(Busy) \in Nat /\ (Cardinality(Busy) = 0 <=> Busy = {})
  BY <1>2, FS_EmptySet, FS_CardinalityType
<1>4. Len(queue) \in Nat /\ unfinished \in Nat /\ unfinished = Len(queue) + Cardinality(Busy)
  BY DEF Typed, Counted
<1>5. queue # <<>> => Len(queue) > 0
  BY DEF Typed
<1>6. \A w \in Worker : Holding(w) => Cardinality(Busy) > 0
  BY <1>3 DEF Busy
<1>7. unfinished = 0 => Len(queue) = 0 /\ Cardinality(Busy) = 0
  BY <1>3, <1>4
<1>8. queue # <<>> => unfinished - 1 \in Nat
  BY <1>3, <1>4, <1>5
<1>9. \A w \in Worker : Holding(w) => unfinished - 1 \in Nat
  BY <1>3, <1>4, <1>6
<1> QED
  BY <1>3, <1>4, <1>5, <1>7, <1>8, <1>9

LEMMA NextKeepsTyped ==
  ASSUME Typed, Placed, Counted, Stopping, [Next]_vars
  PROVE  Typed'
<1>1. CASE Start \/ StopBegin \/ StopDone \/ DrainTimeout
  BY <1>1 DEF Start, StopBegin, StopDone, DrainTimeout, workerVars, entryVars, Typed
<1>2. CASE Drained
  <2>1. Cardinality(Worker) \in Nat
    BY FS_CardinalityType, ReviewQueueAssumption
  <2> QED
    BY <1>2, <2>1 DEF Drained, workerVars, entryVars, Typed
<1>3. CASE PutStop
  <2>1. /\ queue' \in Seq(JobId \cup {Stop}) /\ Len(queue') <= MaxQueueSize
        /\ unfinished' \in Nat
    BY <1>3, ReviewQueueAssumption DEF PutStop, PutItem, Typed
  <2>2. owed' \in Nat /\ phase' \in {"gathering", "sentinels"}
    BY <1>3 DEF PutStop, Typed, Stopping
  <2> QED
    BY <1>3, <2>1, <2>2 DEF PutStop, workerVars, entryVars, Typed
<1>4. ASSUME NEW r \in Request, Admit(r) PROVE Typed'
  BY <1>4 DEF Admit, workerVars, Typed
<1>5. ASSUME NEW j \in JobId, Enqueue(j) PROVE Typed'
  <2>1. /\ queue' \in Seq(JobId \cup {Stop}) /\ Len(queue') <= MaxQueueSize
        /\ unfinished' \in Nat
    <3>1. CASE Len(queue) < MaxQueueSize
      BY <1>5, <3>1, ReviewQueueAssumption DEF Enqueue, PutItem, Typed
    <3>2. CASE ~(Len(queue) < MaxQueueSize)
      BY <1>5, <3>2 DEF Enqueue, Typed
    <3> QED
      BY <3>1, <3>2
  <2>2. /\ refused' \in JobId \cup {NoJob} /\ admitting' \subseteq admitting
        /\ UNCHANGED <<workerVars, phase, owed>>
    BY <1>5 DEF Enqueue, Typed
  <2> QED
    BY <2>1, <2>2 DEF workerVars, Typed
<1>6. CASE Deduplicate \/ Reject \/ Withdraw
  BY <1>6 DEF Deduplicate, Reject, Withdraw, workerVars, Typed
<1>7. ASSUME NEW w \in Worker, Take(w) PROVE Typed'
  <2>1. /\ queue' \in Seq(JobId \cup {Stop}) /\ Len(queue') = Len(queue) - 1
        /\ Head(queue) \in JobId
    BY <1>7, TakeItem DEF Take, Typed, Placed
  <2>2. Len(queue') <= MaxQueueSize
    BY <2>1, ReviewQueueAssumption DEF Typed
  <2>3. pc' \in [Worker -> {"down", "idle", "job", "unwind"}] /\ held' \in [Worker -> JobId \cup {NoJob}]
    BY <1>7, <2>1 DEF Take, Typed
  <2> QED
    BY <1>7, <2>1, <2>2, <2>3 DEF Take, entryVars, Typed
<1>8. ASSUME NEW w \in Worker, TakeStop(w) PROVE Typed'
  <2>1. queue' \in Seq(JobId \cup {Stop}) /\ Len(queue') = Len(queue) - 1
    BY <1>8, TakeItem DEF TakeStop, Typed, Placed
  <2>2. Len(queue') <= MaxQueueSize
    BY <2>1, ReviewQueueAssumption DEF Typed
  <2>3. unfinished' \in Nat
    BY <1>8, CountedItems DEF TakeStop
  <2>4. pc' \in [Worker -> {"down", "idle", "job", "unwind"}]
    BY <1>8 DEF TakeStop, Typed
  <2> QED
    BY <1>8, <2>1, <2>2, <2>3, <2>4 DEF TakeStop, entryVars, Typed
<1>9. ASSUME NEW w \in Worker, NEW next \in {"idle", "down"}, Finish(w, next), Holding(w),
             cancelled' \subseteq cancelled, UNCHANGED <<queue, phase, owed, entryVars>>
      PROVE  Typed'
  <2>1. unfinished' \in Nat
    BY <1>9, CountedItems DEF Finish
  <2>2. pc' \in [Worker -> {"down", "idle", "job", "unwind"}] /\ held' \in [Worker -> JobId \cup {NoJob}]
    BY <1>9 DEF Finish, Typed
  <2> QED
    BY <1>9, <2>1, <2>2 DEF entryVars, Typed
<1>10. ASSUME NEW w \in Worker, Complete(w) \/ Failed(w) PROVE Typed'
  BY <1>9, <1>10 DEF Complete, Failed, Holding
<1>11. ASSUME NEW w \in Worker, CancelWorker(w) PROVE Typed'
  <2>1. cancelled' \subseteq cancelled
    BY <1>11 DEF CancelWorker
  <2> QED
    BY <1>9, <1>11, <2>1 DEF CancelWorker
<1>12. ASSUME NEW w \in Worker, CancelIdle(w) \/ CancelJob(w) PROVE Typed'
  BY <1>12 DEF CancelIdle, CancelJob, entryVars, Typed
<1>13. ASSUME UNCHANGED queueVars PROVE Typed'
  BY <1>13 DEF queueVars, workerVars, entryVars, Typed
<1>14. ASSUME NEW w \in Worker, Progress(w) PROVE Typed'
  BY <1>13, <1>14 DEF Progress
<1>15. CASE Cleanup \/ Time \/ UNCHANGED vars
  BY <1>13, <1>15 DEF Cleanup, Time, vars
<1> QED
  BY <1>1, <1>2, <1>3, <1>4, <1>5, <1>6, <1>7, <1>8, <1>10, <1>11, <1>12, <1>14, <1>15
  DEF Next, StopStep, EntryStep, WorkerStep

LEMMA NextKeepsLocked ==
  ASSUME Typed, Locked, Stopping, [Next]_vars
  PROVE  Locked'
<1>1. CASE Start
  BY <1>1 DEF Start, LockFree, entryVars, Typed, Locked, Stopping, Alive, Holding
<1>2. CASE StopBegin
  BY <1>2 DEF StopBegin, LockFree, workerVars, entryVars, Typed, Locked, Holding
<1>3. CASE Drained \/ PutStop \/ StopDone
  BY <1>3 DEF Drained, PutStop, StopDone, workerVars, entryVars, Typed, Locked, Holding
<1>4. CASE DrainTimeout
  BY <1>4 DEF DrainTimeout, entryVars, Typed, Locked, Holding
<1>5. ASSUME NEW r \in Request, Admit(r) PROVE Locked'
  BY <1>5 DEF Admit, LockFree, is_running, workerVars, Typed, Locked, Holding
<1>6. ASSUME NEW j \in JobId, Enqueue(j) PROVE Locked'
  <2>1. PICK r \in admitting : admitting' = admitting \ {r}
    BY <1>6 DEF Enqueue
  <2>2. admitting' = {} /\ phase = "running"
    BY <2>1 DEF Locked
  <2>3. UNCHANGED <<workerVars, phase>>
    BY <1>6 DEF Enqueue
  <2> QED
    BY <2>2, <2>3 DEF workerVars, Locked, Holding
<1>7. CASE Deduplicate \/ Reject \/ Withdraw
  BY <1>7 DEF Deduplicate, Reject, Withdraw, workerVars, Typed, Locked, Holding
<1>8. ASSUME NEW w \in Worker, Take(w) PROVE Locked'
  <2>1. Head(queue) \in JobId /\ Head(queue) # NoJob
    BY <1>8, ReviewQueueAssumption DEF Take, Typed
  <2>2. /\ \A v \in Worker \ {w} : pc'[v] = pc[v] /\ held'[v] = held[v]
        /\ pc'[w] = "job" /\ held'[w] = Head(queue)
    BY <1>8 DEF Take, Typed
  <2> QED
    BY <1>8, <2>1, <2>2 DEF Take, entryVars, Typed, Locked, Holding
<1>9. ASSUME NEW w \in Worker, TakeStop(w) \/ CancelIdle(w) PROVE Locked'
  <2>1. /\ \A v \in Worker \ {w} : pc'[v] = pc[v]
        /\ pc[w] = "idle" /\ pc'[w] = "down" /\ held' = held
        /\ cancelled' = cancelled \ {w}
    BY <1>9 DEF TakeStop, CancelIdle, Typed
  <2>2. UNCHANGED <<phase, entryVars>>
    BY <1>9 DEF TakeStop, CancelIdle
  <2> QED
    BY <2>1, <2>2 DEF entryVars, Typed, Locked, Holding
<1>10. ASSUME NEW w \in Worker, Complete(w) \/ Failed(w) \/ CancelWorker(w) PROVE Locked'
  <2>1. /\ \A v \in Worker \ {w} : pc'[v] = pc[v] /\ held'[v] = held[v]
        /\ pc'[w] \in {"idle", "down"} /\ held'[w] = NoJob
        /\ pc'[w] = "down" => w \notin cancelled'
        /\ cancelled' \subseteq cancelled /\ cancelled \ {w} \subseteq cancelled'
    BY <1>10 DEF Complete, Failed, CancelWorker, Finish, Typed
  <2>2. UNCHANGED <<phase, entryVars>>
    BY <1>10 DEF Complete, Failed, CancelWorker
  <2> QED
    BY <2>1, <2>2 DEF entryVars, Typed, Locked, Holding
<1>11. ASSUME NEW w \in Worker, CancelJob(w) PROVE Locked'
  BY <1>11 DEF CancelJob, entryVars, Typed, Locked, Holding
<1>12. ASSUME UNCHANGED queueVars PROVE Locked'
  BY <1>12 DEF queueVars, workerVars, entryVars, Locked, Holding
<1>13. ASSUME NEW w \in Worker, Progress(w) PROVE Locked'
  BY <1>12, <1>13 DEF Progress
<1>14. CASE Cleanup \/ Time \/ UNCHANGED vars
  BY <1>12, <1>14 DEF Cleanup, Time, vars
<1> QED
  BY <1>1, <1>2, <1>3, <1>4, <1>5, <1>6, <1>7, <1>8, <1>9, <1>10, <1>11, <1>13, <1>14
  DEF Next, StopStep, EntryStep, WorkerStep

-----------------------------------------------------------------------------
(***************************************************************************)
(* The count behind join().                                                *)
(***************************************************************************)
LEMMA NextKeepsCounted ==
  ASSUME Typed, Locked, Placed, Counted, Stopping, [Next]_vars
  PROVE  Counted'
<1>0. Busy \in SUBSET Worker /\ Cardinality(Busy) \in Nat /\ Len(queue) \in Nat /\ unfinished \in Nat
  BY CountedItems DEF Busy, Typed
<1>1. ASSUME Busy' = Busy, UNCHANGED <<queue, unfinished>> PROVE Counted'
  BY <1>1 DEF Counted
<1>2. ASSUME NEW x, Busy' = Busy, PutItem(x) PROVE Counted'
  <2>1. Len(queue') = Len(queue) + 1
    BY <1>2 DEF PutItem, Typed
  <2> QED
    BY <1>0, <1>2, <2>1 DEF PutItem, Counted
<1>3. CASE Start
  <2>1. Busy = {} /\ Busy' = {}
    BY <1>3 DEF Start, Busy, Holding, Stopping, Alive
  <2> QED
    BY <1>1, <1>3, <2>1 DEF Start
<1>4. ASSUME UNCHANGED pc PROVE Busy' = Busy
  BY <1>4 DEF Busy, Holding
<1>5. CASE StopBegin \/ Drained \/ DrainTimeout \/ StopDone
  BY <1>1, <1>4, <1>5 DEF StopBegin, Drained, DrainTimeout, StopDone, workerVars
<1>6. CASE PutStop
  BY <1>2, <1>4, <1>6 DEF PutStop, workerVars
<1>7. ASSUME NEW r \in Request, Admit(r) PROVE Counted'
  BY <1>1, <1>4, <1>7 DEF Admit, workerVars
<1>8. ASSUME NEW j \in JobId, Enqueue(j) PROVE Counted'
  BY <1>1, <1>2, <1>4, <1>8 DEF Enqueue, workerVars
<1>9. CASE Deduplicate \/ Reject \/ Withdraw
  BY <1>1, <1>4, <1>9 DEF Deduplicate, Reject, Withdraw, workerVars
<1>10. ASSUME NEW w \in Worker, Take(w) PROVE Counted'
  <2>1. Len(queue') = Len(queue) - 1 /\ unfinished' = unfinished
    BY <1>10, TakeItem DEF Take, Typed, Placed
  <2>2. w \notin Busy /\ Busy' = Busy \cup {w}
    BY <1>10 DEF Take, Busy, Holding, Typed
  <2>3. Cardinality(Busy') = Cardinality(Busy) + 1
    BY <1>0, <2>2, HoldOne
  <2> QED
    BY <1>0, <2>1, <2>3 DEF Counted
<1>11. ASSUME NEW w \in Worker, TakeStop(w) PROVE Counted'
  <2>1. Len(queue') = Len(queue) - 1 /\ unfinished' = unfinished - 1
    BY <1>11, TakeItem DEF TakeStop, Typed, Placed
  <2>2. Busy' = Busy
    BY <1>11 DEF TakeStop, Busy, Holding, Typed
  <2> QED
    BY <1>0, <2>1, <2>2 DEF Counted
<1>12. ASSUME NEW w \in Worker, Complete(w) \/ Failed(w) \/ CancelWorker(w) PROVE Counted'
  <2>1. Holding(w) /\ queue' = queue /\ unfinished' = unfinished - 1
    BY <1>12 DEF Complete, Failed, CancelWorker, Finish, Holding
  <2>2. w \in Busy /\ Busy' = Busy \ {w}
    BY <1>12, <2>1 DEF Complete, Failed, CancelWorker, Finish, Busy, Holding, Typed
  <2>3. Cardinality(Busy') = Cardinality(Busy) - 1
    BY <1>0, <2>2, HoldOne
  <2> QED
    BY <1>0, <2>1, <2>3 DEF Counted
<1>13. ASSUME NEW w \in Worker, CancelIdle(w) \/ CancelJob(w) PROVE Counted'
  <2>1. Busy' = Busy
    BY <1>13 DEF CancelIdle, CancelJob, Busy, Holding, Typed
  <2> QED
    BY <1>1, <1>13, <2>1 DEF CancelIdle, CancelJob
<1>14. ASSUME UNCHANGED queueVars PROVE Counted'
  BY <1>1, <1>4, <1>14 DEF queueVars, workerVars
<1>15. ASSUME NEW w \in Worker, Progress(w) PROVE Counted'
  BY <1>14, <1>15 DEF Progress
<1>16. CASE Cleanup \/ Time \/ UNCHANGED vars
  BY <1>14, <1>16 DEF Cleanup, Time, vars
<1> QED
  BY <1>3, <1>5, <1>6, <1>7, <1>8, <1>9, <1>10, <1>11, <1>12, <1>13, <1>15, <1>16
  DEF Next, StopStep, EntryStep, WorkerStep

-----------------------------------------------------------------------------
(***************************************************************************)
(* start() and stop().                                                     *)
(***************************************************************************)
\* A worker that is alive and not cancelled works only while the queue runs or is
\* being joined, unless a sentinel is all there is for it.
LEMMA WorkingPhase ==
  ASSUME Typed, Stopping, NEW w \in Worker, pc[w] # "down", w \notin cancelled, ~Draining
  PROVE  phase \in {"running", "joining"}
<1>1. w \in Alive
  BY DEF Alive
<1> QED
  BY <1>1 DEF Typed, Stopping, TimedOut

\* A cancelled worker: the drain timed out.
LEMMA CancelledPhase ==
  ASSUME Typed, Stopping, NEW w \in cancelled
  PROVE  phase = "gathering" /\ TimedOut
BY DEF Typed, Stopping, Draining

\* Nothing is active once the queue is drained.
LEMMA DrainedIsIdle ==
  ASSUME StoreTypes, Typed, Locked, Placed, Counted, phase = "joining", unfinished = 0
  PROVE  queue = <<>> /\ \A j \in Stored : ~Active(j)
<1>1. queue = <<>> /\ Busy = {} /\ refused = NoJob
  BY CountedItems DEF Locked
<1>2. \A j \in Stored : j # NoJob
  BY ReviewQueueAssumption DEF StoreTypes
<1>3. Queued = {}
  BY <1>1 DEF Queued
<1>4. \A v \in Worker : pc[v] # "job"
  BY <1>1 DEF Busy, Holding
<1> QED
  BY <1>1, <1>2, <1>3, <1>4 DEF Placed, NoOrphan

LEMMA NextKeepsStopping ==
  ASSUME StoreTypes, Typed, Locked, Placed, Counted, Stopping, [Next]_vars
  PROVE  Stopping'
<1>0. Alive \in SUBSET Worker /\ Cardinality(Alive) \in Nat /\ Len(queue) \in Nat
  <2>1. Alive \in SUBSET Worker
    BY DEF Alive
  <2>2. IsFiniteSet(Alive)
    BY <2>1, FS_Subset, ReviewQueueAssumption
  <2> QED
    BY <2>1, <2>2, FS_CardinalityType DEF Typed
<1>1. CASE Start
  <2>1. Alive' = Worker
    BY <1>1 DEF Start, Alive
  <2> QED
    BY <1>1, <2>1 DEF Start, Stopping, Items
<1>2. CASE StopBegin
  BY <1>2 DEF StopBegin, workerVars, Stopping, Items, Alive
<1>3. CASE Drained
  <2>1. queue = <<>> /\ \A j \in Stored : ~Active(j)
    BY <1>3, DrainedIsIdle DEF Drained
  <2>2. Alive' = Worker /\ cancelled' = {} /\ owed' = Cardinality(Worker) /\ queue' = <<>>
    BY <1>3, <2>1 DEF Drained, workerVars, Stopping, Alive
  <2>3. Cardinality(Worker) \in Nat /\ Cardinality(Worker) > 0
    BY FS_CardinalityType, FS_EmptySet, ReviewQueueAssumption
  <2>4. \A j \in Stored' : ~Active(j)'
    BY <1>3, <2>1 DEF Drained, storeVars, Stored, Active
  <2>5. Draining'
    BY <2>2, <2>3, <2>4 DEF Draining
  <2> QED
    BY <1>3, <2>2, <2>3, <2>5 DEF Drained, Stopping
<1>4. CASE DrainTimeout
  <2>1. TimedOut'
    BY <1>4 DEF DrainTimeout, Stopping, TimedOut, Items, Alive
  <2> QED
    BY <1>4, <2>1 DEF DrainTimeout, Stopping
<1>5. CASE PutStop
  <2>1. Draining /\ owed \in Nat /\ owed > 0
    BY <1>5 DEF PutStop, Stopping, Typed
  <2>2. /\ \A i \in DOMAIN queue' : queue'[i] = Stop
        /\ Len(queue') = Len(queue) + 1
    BY <1>5, <2>1 DEF PutStop, PutItem, Draining, Typed
  <2>3. owed' = owed - 1 /\ Alive' = Alive /\ cancelled' = cancelled
    BY <1>5 DEF PutStop, workerVars, Alive
  <2>4. \A j \in Stored' : ~Active(j)'
    BY <1>5, <2>1 DEF PutStop, storeVars, Stored, Active, Draining
  <2>5. Len(queue') + owed' = Cardinality(Alive')
    BY <1>0, <2>1, <2>2, <2>3 DEF Draining
  <2>6. Draining'
    BY <2>1, <2>2, <2>3, <2>4, <2>5 DEF Draining
  <2>7. CASE owed' = 0
    BY <1>5, <2>6, <2>7 DEF PutStop, Stopping
  <2>8. CASE owed' # 0
    <3>1. phase' = "sentinels" /\ owed' > 0
      BY <1>5, <2>1, <2>3, <2>8 DEF PutStop
    <3> QED
      BY <2>6, <3>1 DEF Stopping
  <2> QED
    BY <2>7, <2>8
<1>6. CASE StopDone
  <2>1. Alive = {} /\ phase' = "stopped" /\ UNCHANGED <<queue, workerVars, owed>>
    BY <1>6 DEF StopDone, Alive
  <2>2. Stop \notin Items /\ cancelled = {} /\ owed = 0
    <3>1. CASE TimedOut
      BY <2>1, <3>1 DEF TimedOut
    <3>2. CASE Draining /\ owed = 0
      <4>1. Cardinality(Alive) = 0
        BY <2>1, FS_EmptySet
      <4>2. Len(queue) = 0
        BY <1>0, <3>2, <4>1 DEF Draining
      <4> QED
        BY <3>2, <4>2 DEF Draining, Items, Typed
    <3> QED
      BY <1>6, <3>1, <3>2 DEF StopDone, Stopping
  <2> QED
    BY <2>1, <2>2 DEF workerVars, Stopping, Items, Alive
<1>7. ASSUME phase \in {"stopped", "running", "joining"}, UNCHANGED <<phase, owed, cancelled>>,
             Items' \subseteq Items \cup JobId, Alive' = Alive
      PROVE  Stopping'
  BY <1>7, ReviewQueueAssumption DEF Stopping
<1>8. ASSUME NEW r \in Request, Admit(r) PROVE Stopping'
  BY <1>7, <1>8 DEF Admit, is_running, workerVars, Items, Alive
<1>9. ASSUME NEW j \in JobId, Enqueue(j) PROVE Stopping'
  <2>1. phase = "running" /\ UNCHANGED <<workerVars, phase, owed>>
    BY <1>9 DEF Enqueue, Locked
  <2>2. Items' \subseteq Items \cup JobId
    <3>1. CASE queue' = queue
      BY <3>1 DEF Items
    <3>2. CASE queue' = Append(queue, j)
      BY <3>2 DEF Items, Typed
    <3> QED
      BY <1>9, <3>1, <3>2 DEF Enqueue, PutItem
  <2> QED
    BY <1>7, <2>1, <2>2 DEF workerVars, Alive
<1>10. CASE Deduplicate \/ Reject \/ Withdraw
  <2>1. phase = "running" /\ UNCHANGED <<queue, workerVars, phase, owed>>
    BY <1>10 DEF Deduplicate, Reject, Withdraw, Locked
  <2> QED
    BY <1>7, <2>1 DEF workerVars, Items, Alive
<1>11. ASSUME NEW w \in Worker, Take(w) PROVE Stopping'
  <2>1. ~Draining
    BY <1>11 DEF Take, Draining, Typed
  <2>2. phase \in {"running", "joining"}
    BY <1>11, <2>1, WorkingPhase DEF Take
  <2>3. Items' \subseteq Items
    BY <1>11, TakeItem DEF Take, Items, Typed, Placed
  <2>4. Alive' = Alive
    BY <1>11 DEF Take, Alive, Typed
  <2> QED
    BY <1>7, <1>11, <2>2, <2>3, <2>4 DEF Take
<1>12. ASSUME NEW w \in Worker, TakeStop(w) PROVE Stopping'
  <2>1. Stop \in Items
    BY <1>12 DEF TakeStop, Items, Typed
  <2>2. Draining /\ phase \in {"sentinels", "gathering"}
    BY <2>1 DEF Stopping, TimedOut, Typed
  <2>3. /\ Len(queue') = Len(queue) - 1 /\ Items' \subseteq Items
        /\ UNCHANGED <<storeVars, cancelled, phase, owed>>
    BY <1>12, TakeItem DEF TakeStop, Items, Typed, Placed
  <2>4. w \in Alive /\ Alive' = Alive \ {w}
    BY <1>12 DEF TakeStop, Alive, Typed
  <2>5. Cardinality(Alive') = Cardinality(Alive) - 1
    BY <1>0, <2>4, HoldOne
  <2>6. \A i \in DOMAIN queue' : queue'[i] = Stop
    BY <2>2, <2>3 DEF Items, Draining
  <2>7. \A j \in Stored' : ~Active(j)'
    BY <2>2, <2>3 DEF storeVars, Stored, Active, Draining
  <2>8. Len(queue') + owed' = Cardinality(Alive')
    BY <1>0, <2>2, <2>3, <2>5 DEF Draining, Typed
  <2>9. Draining'
    BY <2>2, <2>3, <2>6, <2>7, <2>8 DEF Draining
  <2>10. phase = "gathering" => owed = 0
    BY <2>1, <2>2 DEF Stopping, TimedOut
  <2> QED
    BY <2>2, <2>3, <2>9, <2>10 DEF Stopping
<1>13. ASSUME NEW w \in Worker, Progress(w) \/ Complete(w) \/ Failed(w) PROVE Stopping'
  <2>1. pc[w] = "job" /\ w \notin cancelled /\ Active(held[w])
    BY <1>13 DEF Progress, Complete, Failed, Placed, NoGhost
  <2>2. ~Draining
    BY <2>1 DEF Draining, Active
  <2>3. phase \in {"running", "joining"}
    BY <2>1, <2>2, WorkingPhase
  <2>4. UNCHANGED <<queue, phase, owed, cancelled>> /\ Alive' = Alive
    BY <1>13, <2>1 DEF Progress, Complete, Failed, Finish, queueVars, workerVars, Alive, Typed
  <2> QED
    BY <1>7, <2>3, <2>4 DEF Items
<1>14. ASSUME NEW w \in Worker, CancelIdle(w) \/ CancelWorker(w) PROVE Stopping'
  <2>1. w \in cancelled
    BY <1>14 DEF CancelIdle, CancelWorker
  <2>2. phase = "gathering" /\ TimedOut
    BY <2>1, CancelledPhase
  <2>3. Alive' = Alive \ {w} /\ cancelled' = cancelled \ {w} /\ UNCHANGED <<queue, phase, owed>>
    BY <1>14 DEF CancelIdle, CancelWorker, Finish, Alive, Typed
  <2> QED
    BY <2>2, <2>3 DEF Stopping, TimedOut, Items
<1>15. ASSUME NEW w \in Worker, CancelJob(w) PROVE Stopping'
  <2>1. phase = "gathering" /\ TimedOut
    BY <1>15, CancelledPhase DEF CancelJob
  <2>2. Alive' = Alive /\ UNCHANGED <<queue, cancelled, phase, owed>>
    BY <1>15 DEF CancelJob, Alive, Typed
  <2> QED
    BY <2>1, <2>2 DEF Stopping, TimedOut, Items
<1>16. CASE Cleanup
  BY <1>7, <1>16 DEF Cleanup, queueVars, workerVars, Items, Alive
<1>17. CASE Time \/ UNCHANGED vars
  <2>1. UNCHANGED <<jobs, queueVars>>
    BY <1>17 DEF Time, Tick, vars, storeVars
  <2> QED
    BY <2>1 DEF queueVars, workerVars, Stopping, Draining, TimedOut, Items, Alive, Stored, Active
<1> QED
  BY <1>1, <1>2, <1>3, <1>4, <1>5, <1>6, <1>8, <1>9, <1>10, <1>11, <1>12, <1>13, <1>14, <1>15,
     <1>16, <1>17
  DEF Next, StopStep, EntryStep, WorkerStep

-----------------------------------------------------------------------------
(***************************************************************************)
(* Where the jobs are.                                                     *)
(***************************************************************************)
\* What is queued is a job of the queue's, not a sentinel and not "no job".
LEMMA QueuedAreIds == Typed => Queued \subseteq JobId
  BY DEF Typed, Queued

\* A step that moves no job.
LEMMA QuietKeepsPlaced ==
  ASSUME Placed, UNCHANGED <<jobs, held, refused>>, Queued' = Queued, Distinct(queue'),
         \A w \in Worker : /\ Holding(w)' <=> Holding(w)
                           /\ Holding(w) => pc'[w] = pc[w]
  PROVE  Placed'
<1>1. Stored' = Stored /\ \A j : Active(j)' <=> Active(j)
  BY DEF Stored, Active
<1>2. \A w \in Worker : pc'[w] = "job" <=> pc[w] = "job"
  BY DEF Holding
<1>3. \A w \in Worker : pc'[w] = "unwind" <=> pc[w] = "unwind"
  BY DEF Holding
<1>4. NoOrphan'
  BY <1>1, <1>2 DEF Placed, NoOrphan
<1>5. NoGhost'
  BY <1>1, <1>2, <1>3 DEF Placed, NoGhost, Stored
<1>6. \A w \in Worker : Holding(w)' =>
        /\ held'[w] \notin Queued' \cup {refused'}
        /\ \A v \in Worker \ {w} : held'[v] # held'[w]
  BY DEF Placed
<1> QED
  BY <1>4, <1>5, <1>6 DEF Placed

\* Eviction and expiry take finished jobs, and only while nothing unwinds.
LEMMA RemovalKeepsPlaced ==
  ASSUME Typed, Locked, Placed, Stopping, phase = "running", NEW gone, gone \subseteq Finished,
         Stored' = Stored \ gone, \A j \in Stored' : jobs'[j] = jobs[j],
         UNCHANGED <<queue, workerVars, refused>>
  PROVE  Placed'
<1>1. \A j : Active(j)' <=> Active(j)
  BY DEF Active, Finished
<1>2. \A w \in Worker : pc[w] # "unwind"
  BY DEF Locked, Stopping
<1>3. Queued' = Queued /\ \A w \in Worker : Holding(w)' <=> Holding(w)
  BY DEF Queued, Holding, workerVars
<1>4. NoOrphan'
  BY <1>1, <1>3 DEF Placed, NoOrphan, workerVars, Active
<1>5. \A j \in Queued \cup ({refused} \ {NoJob}) : j \in Stored' /\ jobs'[j].status = "queued"
  <2>1. \A j \in Queued \cup ({refused} \ {NoJob}) : j \notin gone
    BY DEF Placed, NoGhost, Finished, Terminal
  <2> QED
    BY <2>1 DEF Placed, NoGhost
<1>6. NoGhost'
  BY <1>1, <1>2, <1>3, <1>5 DEF Placed, NoGhost, workerVars
<1> QED
  BY <1>3, <1>4, <1>6 DEF Placed, workerVars

\* A job is created, and is queued or about to be withdrawn.
LEMMA EnqueueKeepsPlaced ==
  ASSUME StoreTypes, Typed, Locked, Placed, Stopping, NEW j \in JobId, Enqueue(j)
  PROVE  Placed'
<1>1. PICK r \in admitting :
        /\ Fresh(j) /\ GetOrCreate(j, r.key, r.post)
        /\ IF Len(queue) < MaxQueueSize
             THEN PutItem(j) /\ UNCHANGED refused
             ELSE refused' = j /\ UNCHANGED <<queue, unfinished>>
  BY DEF Enqueue
<1>2. phase = "running" /\ refused = NoJob /\ UNCHANGED workerVars
  BY DEF Enqueue, Locked
<1>3. j \notin Stored /\ j \notin Queued /\ (\A w \in Worker : held[w] # j) /\ j # Stop /\ j # NoJob
  BY <1>1, ReviewQueueAssumption DEF Fresh, GetOrCreate
<1>4. PICK gone \in Evictions : jobs' = Put(Drop(jobs, gone), j, NewJob(r.key, r.post))
  BY <1>1 DEF GetOrCreate, Insert
<1>5. gone \subseteq Finished
  BY <1>4, EvictionsAreTerminal
<1>6. /\ Stored' = (Stored \ gone) \cup {j}
      /\ \A i \in Stored \ gone : jobs'[i] = jobs[i]
      /\ jobs'[j].status = "queued"
  BY <1>3, <1>4 DEF Put, Drop, Restrict, Stored, NewJob
<1>7. \A i : Active(i)' <=> Active(i) \/ i = j
  BY <1>3, <1>5, <1>6 DEF Active, Finished, Terminal
<1>8. \A w \in Worker : pc[w] # "unwind"
  BY <1>2 DEF Locked, Stopping
<1>9. \A i \in Queued : i \notin gone
  BY <1>5 DEF Placed, NoGhost, Finished, Terminal
<1>10. \/ Queued' = Queued \cup {j} /\ refused' = refused /\ Distinct(queue')
       \/ Queued' = Queued /\ refused' = j /\ Distinct(queue')
  <2>1. CASE Len(queue) < MaxQueueSize
    <3>1. queue' = Append(queue, j) /\ refused' = refused
      BY <1>1, <2>1 DEF PutItem
    <3>2. JobsIn(queue) = Queued /\ JobsIn(queue') = Queued'
      BY DEF JobsIn, Queued
    <3> QED
      BY <1>3, <3>1, <3>2, AppendItem DEF Typed, Placed
  <2>2. CASE ~(Len(queue) < MaxQueueSize)
    BY <1>1, <2>2 DEF Queued, Placed
  <2> QED
    BY <2>1, <2>2
<1>11. \A w \in Worker : Holding(w)' <=> Holding(w)
  BY <1>2 DEF Holding, workerVars
<1>12. NoOrphan'
  <2> SUFFICES ASSUME NEW i \in Stored', Active(i)'
               PROVE  \/ i \in Queued' \/ i = refused'
                      \/ \E w \in Worker : pc'[w] = "job" /\ held'[w] = i
    BY DEF NoOrphan
  <2>1. CASE i = j
    BY <1>10, <2>1
  <2>2. CASE i # j
    <3>1. i \in Stored /\ Active(i)
      BY <1>7, <2>2 DEF Active
    <3>2. i # refused \/ i = NoJob
      BY <1>2
    <3>3. i # NoJob
      BY <3>1, ReviewQueueAssumption DEF StoreTypes
    <3> QED
      BY <1>2, <1>10, <3>1, <3>2, <3>3 DEF Placed, NoOrphan, workerVars
  <2> QED
    BY <2>1, <2>2
<1>13. NoGhost'
  <2>1. \A i \in Queued' \cup ({refused'} \ {NoJob}) : i \in Queued \/ i = j
    BY <1>2, <1>10
  <2>2. \A i \in Queued \cup {j} : i \in Stored' /\ jobs'[i].status = "queued"
    BY <1>6, <1>9 DEF Placed, NoGhost
  <2>3. \A w \in Worker : pc'[w] = "job" => Active(held[w])'
    BY <1>2, <1>7 DEF Placed, NoGhost, workerVars
  <2> QED
    BY <1>2, <1>8, <2>1, <2>2, <2>3 DEF NoGhost, workerVars
<1>14. refused' \notin Queued'
  BY <1>2, <1>3, <1>10, QueuedAreIds, ReviewQueueAssumption
<1>15. \A w \in Worker : Holding(w)' =>
         /\ held'[w] \notin Queued' \cup {refused'}
         /\ \A v \in Worker \ {w} : held'[v] # held'[w]
  BY <1>2, <1>3, <1>10, <1>11 DEF Placed, workerVars
<1> QED
  BY <1>10, <1>12, <1>13, <1>14, <1>15 DEF Placed

\* The refused job leaves the store.
LEMMA WithdrawKeepsPlaced ==
  ASSUME Typed, Locked, Placed, Withdraw
  PROVE  Placed'
<1>1. /\ refused # NoJob /\ refused' = NoJob /\ UNCHANGED <<queue, workerVars>>
      /\ jobs' = Drop(jobs, {refused})
  BY DEF Withdraw, Delete
<1>2. Stored' = Stored \ {refused} /\ \A i \in Stored' : jobs'[i] = jobs[i]
  BY <1>1 DEF Drop, Restrict, Stored
<1>3. \A i : Active(i)' <=> Active(i) /\ i # refused
  BY <1>2 DEF Active
<1>4. Queued' = Queued /\ (\A w \in Worker : Holding(w)' <=> Holding(w)) /\ NoJob \notin Queued
  BY <1>1, QueuedAreIds, ReviewQueueAssumption DEF Queued, Holding, workerVars
<1>5. NoOrphan'
  BY <1>1, <1>3, <1>4 DEF Placed, NoOrphan, workerVars, Active
<1>6. \A w \in Worker : Holding(w) => held[w] # refused
  BY DEF Placed
<1>7. NoGhost'
  <2>1. \A i \in Queued : i \in Stored' /\ jobs'[i].status = "queued"
    BY <1>2 DEF Placed, NoGhost
  <2>2. \A w \in Worker : pc[w] = "job" => Active(held[w])'
    BY <1>1, <1>3, <1>6 DEF Placed, NoGhost, Holding, workerVars
  <2>3. \A w \in Worker : pc[w] = "unwind" => held[w] \in Stored' /\ jobs'[held[w]].status = "failed"
    BY <1>2, <1>6 DEF Placed, NoGhost, Holding
  <2> QED
    BY <1>1, <1>4, <2>1, <2>2, <2>3 DEF NoGhost, workerVars
<1>8. \A w \in Worker : Holding(w)' =>
        /\ held'[w] \notin Queued' \cup {refused'}
        /\ \A v \in Worker \ {w} : held'[v] # held'[w]
  BY <1>1, <1>4 DEF Placed, Locked, workerVars
<1> QED
  BY <1>1, <1>4, <1>5, <1>7, <1>8 DEF Placed

\* The oldest job goes from the queue to a worker.
LEMMA TakeKeepsPlaced ==
  ASSUME Typed, Locked, Placed, NEW w \in Worker, Take(w)
  PROVE  Placed'
<1> DEFINE j == Head(queue)
<1>1. /\ pc[w] = "idle" /\ queue # <<>> /\ queue' = Tail(queue) /\ j # Stop
      /\ UNCHANGED <<jobs, refused>>
  BY DEF Take, storeVars, entryVars
<1>2. /\ pc'[w] = "job" /\ held'[w] = j
      /\ \A v \in Worker \ {w} : pc'[v] = pc[v] /\ held'[v] = held[v]
  BY DEF Take, Typed
<1>3. /\ Queued' = Queued \ {j} /\ j \in Queued /\ Distinct(queue')
  <2>1. JobsIn(queue) = Queued /\ JobsIn(queue') = Queued'
    BY DEF JobsIn, Queued
  <2>2. j \in {queue[i] : i \in DOMAIN queue} /\ JobsIn(Tail(queue)) = JobsIn(queue) \ {j}
        /\ Distinct(Tail(queue))
    BY <1>1, TakeItem DEF Typed, Placed
  <2> HIDE DEF j
  <2> QED
    BY <1>1, <2>1, <2>2 DEF Queued
<1> HIDE DEF j
<1>4. Stored' = Stored /\ \A i : Active(i)' <=> Active(i)
  BY <1>1 DEF Stored, Active
<1>5. Active(j) /\ j # refused
  BY <1>3 DEF Placed, NoGhost, Active, Terminal
<1>6. \A v \in Worker : Holding(v)' <=> v = w \/ Holding(v)
  BY <1>2 DEF Holding
<1>7. NoOrphan'
  <2> SUFFICES ASSUME NEW i \in Stored, Active(i)
               PROVE  \/ i \in Queued' \/ i = refused'
                      \/ \E v \in Worker : pc'[v] = "job" /\ held'[v] = i
    BY <1>4 DEF NoOrphan
  <2>1. CASE i = j
    BY <1>2, <2>1
  <2>2. CASE i # j
    BY <1>1, <1>2, <1>3, <2>2 DEF Placed, NoOrphan
  <2> QED
    BY <2>1, <2>2
<1>8. NoGhost'
  <2>1. \A i \in Queued' \cup ({refused'} \ {NoJob}) : i \in Stored' /\ jobs'[i].status = "queued"
    BY <1>1, <1>3, <1>4 DEF Placed, NoGhost
  <2>2. \A v \in Worker : pc'[v] = "job" => Active(held[v])'
    BY <1>2, <1>4, <1>5 DEF Placed, NoGhost
  <2>3. \A v \in Worker : pc'[v] = "unwind" => held'[v] \in Stored' /\ jobs'[held'[v]].status = "failed"
    BY <1>1, <1>2, <1>4 DEF Placed, NoGhost
  <2> QED
    BY <2>1, <2>2, <2>3 DEF NoGhost
<1>9. \A v \in Worker : held[v] # j
  <2>1. \A v \in Worker : Holding(v) => held[v] # j
    BY <1>3 DEF Placed
  <2>2. j # NoJob
    BY <1>3, QueuedAreIds, ReviewQueueAssumption
  <2> QED
    BY <2>1, <2>2 DEF Locked
<1>10. \A v \in Worker : Holding(v)' =>
         /\ held'[v] \notin Queued' \cup {refused'}
         /\ \A u \in Worker \ {v} : held'[u] # held'[v]
  BY <1>1, <1>2, <1>3, <1>5, <1>6, <1>9 DEF Placed
<1> QED
  BY <1>1, <1>3, <1>7, <1>8, <1>10 DEF Placed

\* What a transition of the store does to the jobs.
LEMMA TransitionEffect ==
  ASSUME NEW j, NEW s, NEW res, NEW err, Transition(j, s, res, err)
  PROVE  /\ j \in Stored /\ Stored' = Stored /\ jobs'[j].status = s
         /\ \A i \in Stored \ {j} : jobs'[i] = jobs[i]
BY DEF Transition, Moved, Stored

\* A worker reports on its job and keeps it, active, or failed and unwinding.
LEMMA KeepingKeepsPlaced ==
  ASSUME Typed, Locked, Placed, NEW w \in Worker, pc[w] = "job",
         NEW s, NEW res, NEW err, Transition(held[w], s, res, err),
         \/ s \notin Terminal /\ pc'[w] = "job"
         \/ s = "failed" /\ pc'[w] = "unwind",
         \A v \in Worker \ {w} : pc'[v] = pc[v],
         UNCHANGED <<queue, held, refused>>
  PROVE  Placed'
<1> DEFINE j == held[w]
<1>1. j \in Stored /\ Stored' = Stored /\ jobs'[j].status = s /\ \A i \in Stored \ {j} : jobs'[i] = jobs[i]
  BY TransitionEffect
<1>2. j \notin Queued \cup {refused} /\ \A v \in Worker \ {w} : held[v] # j
  BY DEF Placed, Holding
<1> HIDE DEF j
<1>3. Queued' = Queued /\ \A v \in Worker : Holding(v)' <=> Holding(v)
  BY DEF Queued, Holding
<1>4. \A i : i # j => (Active(i)' <=> Active(i))
  BY <1>1 DEF Active
<1>5. \A i : i = j => (Active(i)' <=> s \notin Terminal)
  BY <1>1 DEF Active
<1>6. NoOrphan'
  <2> SUFFICES ASSUME NEW i \in Stored, Active(i)'
               PROVE  \/ i \in Queued \/ i = refused
                      \/ \E v \in Worker : pc'[v] = "job" /\ held[v] = i
    BY <1>1, <1>3 DEF NoOrphan
  <2>1. CASE i = j
    BY <1>5, <2>1 DEF j, Terminal
  <2>2. CASE i # j
    <3>1. i \in Queued \/ i = refused \/ \E v \in Worker : pc[v] = "job" /\ held[v] = i
      BY <1>4, <2>2 DEF Placed, NoOrphan
    <3> QED
      BY <2>2, <3>1 DEF j
  <2> QED
    BY <2>1, <2>2
<1>7. NoGhost'
  <2>1. \A i \in Queued \cup ({refused} \ {NoJob}) : i \in Stored' /\ jobs'[i].status = "queued"
    BY <1>1, <1>2 DEF Placed, NoGhost
  <2>2. \A v \in Worker : pc'[v] = "job" => Active(held[v])'
    BY <1>2, <1>4, <1>5 DEF Placed, NoGhost, j
  <2>3. \A v \in Worker : pc'[v] = "unwind" => held[v] \in Stored' /\ jobs'[held[v]].status = "failed"
    BY <1>1, <1>2 DEF Placed, NoGhost, j
  <2> QED
    BY <1>3, <2>1, <2>2, <2>3 DEF NoGhost
<1> QED
  BY <1>3, <1>6, <1>7 DEF Placed

\* A worker ends its job and lets go of it.
LEMMA EndingKeepsPlaced ==
  ASSUME Typed, Locked, Placed, NEW w \in Worker, Holding(w),
         NEW s \in Terminal, NEW res, NEW err, Transition(held[w], s, res, err),
         NEW next \in {"idle", "down"}, Finish(w, next), UNCHANGED <<queue, refused>>
  PROVE  Placed'
<1> DEFINE j == held[w]
<1>1. j \in Stored /\ Stored' = Stored /\ jobs'[j].status = s /\ \A i \in Stored \ {j} : jobs'[i] = jobs[i]
  BY TransitionEffect
<1>2. j \notin Queued \cup {refused} /\ \A v \in Worker \ {w} : held[v] # j
  BY DEF Placed
<1>3. /\ pc'[w] = next /\ held'[w] = NoJob
      /\ \A v \in Worker \ {w} : pc'[v] = pc[v] /\ held'[v] = held[v]
  BY DEF Finish, Typed
<1> HIDE DEF j
<1>4. Queued' = Queued /\ \A v \in Worker : Holding(v)' <=> v # w /\ Holding(v)
  BY <1>3 DEF Queued, Holding
<1>5. \A i : Active(i)' <=> i # j /\ Active(i)
  BY <1>1 DEF Active
<1>6. NoOrphan'
  BY <1>1, <1>3, <1>4, <1>5 DEF Placed, NoOrphan, j
<1>7. NoGhost'
  <2>1. \A i \in Queued \cup ({refused} \ {NoJob}) : i \in Stored' /\ jobs'[i].status = "queued"
    BY <1>1, <1>2 DEF Placed, NoGhost
  <2>2. \A v \in Worker : pc'[v] = "job" => Active(held[v])'
    BY <1>2, <1>3, <1>5 DEF Placed, NoGhost
  <2>3. \A v \in Worker : pc'[v] = "unwind" => held'[v] \in Stored' /\ jobs'[held'[v]].status = "failed"
    BY <1>1, <1>2, <1>3 DEF Placed, NoGhost
  <2> QED
    BY <1>4, <2>1, <2>2, <2>3 DEF NoGhost
<1>8. \A v \in Worker : Holding(v) => held[v] # NoJob
  BY DEF Locked
<1>9. \A v \in Worker : Holding(v)' =>
        /\ held'[v] \notin Queued' \cup {refused'}
        /\ \A u \in Worker \ {v} : held'[u] # held'[v]
  BY <1>3, <1>4, <1>8 DEF Placed
<1> QED
  BY <1>4, <1>6, <1>7, <1>9 DEF Placed

LEMMA NextKeepsPlaced ==
  ASSUME StoreTypes, Typed, Locked, Placed, Stopping, [Next]_vars
  PROVE  Placed'
<1>1. ASSUME UNCHANGED <<jobs, queue, held, refused>>,
             \A w \in Worker : pc'[w] = pc[w] \/ (~Holding(w) /\ pc'[w] \in {"idle", "down"})
      PROVE  Placed'
  <2>1. \A w \in Worker : /\ Holding(w)' <=> Holding(w)
                          /\ Holding(w) => pc'[w] = pc[w]
    BY <1>1 DEF Holding
  <2>2. Queued' = Queued /\ Distinct(queue')
    BY <1>1 DEF Queued, Placed
  <2> QED
    BY <1>1, <2>1, <2>2, QuietKeepsPlaced
<1>2. CASE Start
  <2>1. \A w \in Worker : ~Holding(w) /\ pc'[w] = "idle"
    BY <1>2 DEF Start, Stopping, Alive, Holding
  <2> QED
    BY <1>1, <1>2, <2>1 DEF Start, storeVars, entryVars
<1>3. CASE StopBegin \/ Drained \/ DrainTimeout \/ StopDone
  BY <1>1, <1>3 DEF StopBegin, Drained, DrainTimeout, StopDone, storeVars, workerVars, entryVars
<1>4. CASE PutStop
  <2>1. UNCHANGED <<jobs, pc, held, refused>> /\ queue' = Append(queue, Stop)
    BY <1>4 DEF PutStop, PutItem, storeVars, workerVars, entryVars
  <2>2. Queued' = Queued /\ Distinct(queue')
    <3>1. JobsIn(queue) = Queued /\ JobsIn(queue') = Queued' /\ Stop \notin JobsIn(queue)
      BY DEF JobsIn, Queued
    <3>2. JobsIn(queue') = JobsIn(queue) \cup ({Stop} \ {Stop}) /\ Distinct(queue')
      BY <2>1, <3>1, AppendItem DEF Typed, Placed
    <3> QED
      BY <3>1, <3>2
  <2> QED
    BY <2>1, <2>2, QuietKeepsPlaced DEF Holding
<1>5. ASSUME NEW r \in Request, Admit(r) PROVE Placed'
  BY <1>1, <1>5 DEF Admit, storeVars, workerVars
<1>6. CASE Deduplicate \/ Reject
  BY <1>1, <1>6 DEF Deduplicate, Reject, RejectForCapacity, storeVars, workerVars
<1>7. ASSUME NEW w \in Worker, TakeStop(w) PROVE Placed'
  <2>1. /\ UNCHANGED <<jobs, held, refused>> /\ queue' = Tail(queue)
        /\ queue # <<>> /\ Head(queue) = Stop
        /\ pc[w] = "idle" /\ pc'[w] = "down" /\ \A v \in Worker \ {w} : pc'[v] = pc[v]
    BY <1>7 DEF TakeStop, storeVars, entryVars, Typed
  <2>2. Queued' = Queued /\ Distinct(queue')
    <3>1. JobsIn(queue) = Queued /\ JobsIn(queue') = Queued' /\ Stop \notin JobsIn(queue)
      BY DEF JobsIn, Queued
    <3>2. JobsIn(queue') = JobsIn(queue) \ {Stop} /\ Distinct(queue')
      BY <2>1, TakeItem DEF Typed, Placed
    <3> QED
      BY <3>1, <3>2
  <2>3. \A v \in Worker : /\ Holding(v)' <=> Holding(v)
                          /\ Holding(v) => pc'[v] = pc[v]
    BY <2>1 DEF Holding
  <2> QED
    BY <2>1, <2>2, <2>3, QuietKeepsPlaced
<1>8. ASSUME NEW w \in Worker, CancelIdle(w) PROVE Placed'
  <2>1. \A v \in Worker : pc'[v] = pc[v] \/ (~Holding(v) /\ pc'[v] \in {"idle", "down"})
    BY <1>8 DEF CancelIdle, Holding, Typed
  <2> QED
    BY <1>1, <1>8, <2>1 DEF CancelIdle, storeVars, entryVars
<1>9. ASSUME NEW w \in Worker, Progress(w) PROVE Placed'
  <2>1. PICK s \in NextStatus(jobs[held[w]]) : Transition(held[w], s, FALSE, FALSE)
    BY <1>9 DEF Progress
  <2>2. s \notin Terminal
    BY DEF NextStatus, Terminal
  <2> QED
    BY <1>9, <2>1, <2>2, KeepingKeepsPlaced DEF Progress, queueVars, workerVars, entryVars
<1>10. ASSUME NEW w \in Worker, CancelJob(w) PROVE Placed'
  <2>1. /\ pc[w] = "job" /\ pc'[w] = "unwind" /\ Transition(held[w], "failed", FALSE, TRUE)
        /\ \A v \in Worker \ {w} : pc'[v] = pc[v]
        /\ UNCHANGED <<queue, held, refused>>
    BY <1>10 DEF CancelJob, Fail, entryVars, Typed
  <2> QED
    BY <2>1, KeepingKeepsPlaced
<1>11. ASSUME NEW w \in Worker, Complete(w) PROVE Placed'
  BY <1>11, EndingKeepsPlaced DEF Complete, Holding, Terminal, entryVars
<1>12. ASSUME NEW w \in Worker, Failed(w) \/ CancelWorker(w) PROVE Placed'
  BY <1>12, EndingKeepsPlaced DEF Failed, CancelWorker, Fail, Holding, Terminal, entryVars
<1>13. CASE Cleanup
  <2> DEFINE expired == {j \in Finished : jobs[j].completed <= clock - Retention}
  <2>1. jobs' = Drop(jobs, expired) /\ phase = "running" /\ UNCHANGED <<queue, workerVars, refused>>
    BY <1>13 DEF Cleanup, CleanupExpired, queueVars, entryVars
  <2>2. expired \subseteq Finished
    OBVIOUS
  <2> HIDE DEF expired
  <2>3. Stored' = Stored \ expired /\ \A j \in Stored' : jobs'[j] = jobs[j]
    BY <2>1 DEF Drop, Restrict, Stored
  <2> QED
    BY <2>1, <2>2, <2>3, RemovalKeepsPlaced
<1>14. CASE Time \/ UNCHANGED vars
  <2>1. UNCHANGED <<jobs, pc, held, queue, refused>>
    BY <1>14 DEF Time, Tick, vars, storeVars, queueVars, workerVars, entryVars
  <2> QED
    BY <1>1, <2>1
<1> QED
  BY <1>2, <1>3, <1>4, <1>5, <1>6, <1>7, <1>8, <1>9, <1>10, <1>11, <1>12, <1>13, <1>14,
     EnqueueKeepsPlaced, WithdrawKeepsPlaced, TakeKeepsPlaced
  DEF Next, StopStep, EntryStep, WorkerStep

-----------------------------------------------------------------------------
LEMMA InitQueueInv == Init => QueueInv
<1> SUFFICES ASSUME Init PROVE QueueInv
  OBVIOUS
<1>1. Typed
  BY ReviewQueueAssumption DEF Init, Typed
<1>2. Locked
  BY DEF Init, Locked, Holding
<1>3. Stored = {} /\ Queued = {}
  BY DEF Init, StoreInit, Stored, Queued
<1>4. Placed
  BY <1>3 DEF Init, Placed, NoOrphan, NoGhost, Distinct, Holding
<1>5. Counted
  <2>1. Busy = {}
    BY DEF Init, Busy, Holding
  <2> QED
    BY <2>1, FS_EmptySet DEF Init, Counted
<1>6. Stopping
  BY DEF Init, Stopping, Items, Alive
<1> QED
  BY <1>1, <1>2, <1>4, <1>5, <1>6 DEF QueueInv

\* The store's invariant and the queue's hold together.
LEMMA QueueInvariant == Spec => [](StoreInv /\ QueueInv)
<1>1. StoreInv /\ QueueInv /\ [Next]_vars => QueueInv'
  BY NextKeepsTyped, NextKeepsLocked, NextKeepsPlaced, NextKeepsCounted, NextKeepsStopping
  DEF StoreInv, QueueInv
<1> QED
  BY <1>1, InitQueueInv, QueueImplementsStore, StoreInvariance, PTL DEF Spec

\* The state of the queue keeps its types, the queue its size, and no more sentinels
\* are owed than there are workers.
THEOREM QueueTypeCorrect == Spec => []QueueTypeOK
<1>1. QueueInv => QueueTypeOK
  <2> SUFFICES ASSUME QueueInv PROVE QueueTypeOK
    OBVIOUS
  <2>1. Alive \in SUBSET Worker
    BY DEF Alive
  <2>2. /\ Cardinality(Alive) <= Cardinality(Worker) /\ Cardinality(Alive) \in Nat
        /\ Cardinality(Worker) \in Nat
    <3>1. IsFiniteSet(Alive) /\ IsFiniteSet(Worker)
      BY <2>1, FS_Subset, ReviewQueueAssumption
    <3> QED
      BY <2>1, <3>1, FS_Subset, FS_CardinalityType
  <2>3. owed = 0 \/ Len(queue) + owed = Cardinality(Alive)
    BY DEF QueueInv, Typed, Stopping, Draining, TimedOut
  <2>4. owed \in 0..Cardinality(Worker)
    BY <2>2, <2>3 DEF QueueInv, Typed
  <2> QED
    BY <2>4 DEF QueueInv, Typed, QueueTypeOK
<1> QED
  BY <1>1, QueueInvariant, PTL

\* No accepted job is forgotten: an active job is queued, with a worker, or about
\* to be withdrawn.
THEOREM QueueNoOrphan == Spec => []NoOrphan
<1>1. QueueInv => NoOrphan
  BY DEF QueueInv, Placed
<1> QED
  BY <1>1, QueueInvariant, PTL

\* Neither eviction, nor expiry, nor withdrawal takes a job away that the queue or
\* a worker refers to.
THEOREM QueueNoGhost == Spec => []NoGhost
<1>1. QueueInv => NoGhost
  BY DEF QueueInv, Placed
<1> QED
  BY <1>1, QueueInvariant, PTL

\* A job is in one place only, and two workers never review one head at once.
THEOREM QueueSingleHandler == Spec => []SingleHandler
<1>1. QueueInv /\ UniqueActive => SingleHandler
  <2> SUFFICES ASSUME QueueInv, UniqueActive PROVE SingleHandler
    OBVIOUS
  <2>1. \A v, w \in Worker : v # w /\ pc[v] = "job" /\ pc[w] = "job" => held[v] # held[w]
    BY DEF QueueInv, Placed, Holding
  <2>2. \A w \in Worker : pc[w] = "job" => held[w] \in Stored /\ Active(held[w])
    BY DEF QueueInv, Placed, NoGhost, Active
  <2>3. \A v, w \in Worker :
          v # w /\ pc[v] = "job" /\ pc[w] = "job" /\ jobs[held[v]].key # NoKey
            => jobs[held[v]].key # jobs[held[w]].key
    BY <2>1, <2>2 DEF UniqueActive
  <2> QED
    BY <2>3 DEF QueueInv, Placed, Distinct, SingleHandler
<1> QED
  BY <1>1, QueueInvariant, QueueUniqueActive, PTL

\* The count behind join() is the work there is.
THEOREM QueueUnfinishedExact == Spec => []UnfinishedExact
<1>1. QueueInv => UnfinishedExact
  BY DEF QueueInv, Counted, Busy, UnfinishedExact
<1> QED
  BY <1>1, QueueInvariant, PTL

\* From the moment the queue is found drained no job is active, so that none can
\* land behind a sentinel.
THEOREM QueueNoJobBehindStop == Spec => []NoJobBehindStop
<1>1. QueueInv => NoJobBehindStop
  BY DEF QueueInv, Typed, Stopping, Draining, TimedOut, Items, NoJobBehindStop
<1> QED
  BY <1>1, QueueInvariant, PTL

\* A stop() that returned leaves no worker, no sentinel and no job in progress.
THEOREM QueueStopSettles == Spec => []StopSettles
<1>1. StoreInv /\ QueueInv => StopSettles
  <2> SUFFICES ASSUME StoreInv, QueueInv, phase = "stopped" PROVE StopSettles
    BY DEF StopSettles
  <2>1. \A w \in Worker : pc[w] = "down" /\ held[w] = NoJob
    BY DEF QueueInv, Stopping, Alive, Locked, Holding
  <2>2. cancelled = {} /\ owed = 0 /\ Stop \notin Items
    BY DEF QueueInv, Stopping
  <2>3. refused = NoJob /\ \A j \in Stored : j # NoJob
    BY ReviewQueueAssumption DEF QueueInv, Locked, StoreInv, StoreTypes
  <2>4. \A j \in Stored : Active(j) => j \in Queued
    BY <2>1, <2>3 DEF QueueInv, Placed, NoOrphan
  <2> QED
    BY <2>1, <2>2, <2>4 DEF StopSettles, Items
<1> QED
  BY <1>1, QueueInvariant, PTL

\* Accepted work is never evicted, expired or deleted.
THEOREM QueueAcceptedNeverDropped == Spec => AcceptedNeverDropped
<1> DEFINE Kept == \A j \in Stored : Active(j) /\ j \notin Stored' => j = refused
<1>1. ASSUME [Next]_vars PROVE Kept
  <2>1. ASSUME Stored \subseteq Stored' PROVE Kept
    BY <2>1
  <2>2. ASSUME NEW gone, gone \subseteq Finished, Stored \ gone \subseteq Stored' PROVE Kept
    BY <2>2 DEF Finished, Active
  <2>3. ASSUME UNCHANGED jobs PROVE Kept
    BY <2>1, <2>3 DEF Stored
  <2>4. ASSUME NEW j, NEW s, NEW res, NEW err, Transition(j, s, res, err) PROVE Kept
    BY <2>1, <2>4, TransitionEffect
  <2>5. ASSUME NEW j \in JobId, Enqueue(j) PROVE Kept
    <3>1. PICK r \in admitting : GetOrCreate(j, r.key, r.post)
      BY <2>5 DEF Enqueue
    <3>2. PICK gone \in Evictions : jobs' = Put(Drop(jobs, gone), j, NewJob(r.key, r.post))
      BY <3>1 DEF GetOrCreate, Insert
    <3>3. gone \subseteq Finished /\ Stored \ gone \subseteq Stored'
      BY <3>2, EvictionsAreTerminal DEF Put, Drop, Restrict, Stored
    <3> QED
      BY <2>2, <3>3
  <2>6. CASE Cleanup
    <3> DEFINE expired == {j \in Finished : jobs[j].completed <= clock - Retention}
    <3>1. jobs' = Drop(jobs, expired) /\ expired \subseteq Finished
      BY <2>6 DEF Cleanup, CleanupExpired
    <3> HIDE DEF expired
    <3>2. Stored \ expired \subseteq Stored'
      BY <3>1 DEF Drop, Restrict, Stored
    <3> QED
      BY <2>2, <3>1, <3>2
  <2>7. CASE Withdraw
    <3>1. Stored' = Stored \ {refused}
      BY <2>7 DEF Withdraw, Delete, Drop, Restrict, Stored
    <3> QED
      BY <3>1
  <2>8. ASSUME NEW w \in Worker, WorkerStep(w) PROVE Kept
    <3>1. CASE Take(w) \/ TakeStop(w) \/ CancelIdle(w)
      BY <2>3, <3>1 DEF Take, TakeStop, CancelIdle, storeVars
    <3>2. CASE Progress(w)
      BY <2>4, <3>2 DEF Progress
    <3>3. CASE Complete(w) \/ Failed(w) \/ CancelJob(w) \/ CancelWorker(w)
      BY <2>4, <3>3 DEF Complete, Failed, CancelJob, CancelWorker, Fail
    <3> QED
      BY <2>8, <3>1, <3>2, <3>3 DEF WorkerStep
  <2>9. CASE Start \/ StopBegin \/ StopStep \/ (\E r \in Request : Admit(r))
             \/ Deduplicate \/ Reject \/ Time \/ UNCHANGED vars
    <3>1. UNCHANGED jobs
      BY <2>9 DEF Start, StopBegin, StopStep, Drained, DrainTimeout, PutStop, StopDone, Admit,
                  Deduplicate, Reject, RejectForCapacity, Time, Tick, vars, storeVars
    <3> QED
      BY <2>3, <3>1
  <2> HIDE DEF Kept
  <2> QED
    BY <1>1, <2>5, <2>6, <2>7, <2>8, <2>9 DEF Next, EntryStep
<1>2. [Next]_vars => [Kept]_vars
  BY <1>1
<1> QED
  BY <1>2, PTL DEF Spec, AcceptedNeverDropped

\* A job that has reached its end is not changed any more, but for one case: the
\* worker that was cancelled in the middle of it passes two handlers, and the
\* second fails the job again and so rewrites when it ended.
EndedJobsStay ==
  [][\A j \in Stored \cap Stored' : ~Active(j) /\ jobs'[j] # jobs[j] =>
       \E w \in Worker : held[w] = j /\ pc[w] = "unwind" /\ pc'[w] = "down"]_vars

\* transition() lets a terminal job repeat its status; the queue does so only
\* there, although is_terminal promises that no change is expected.
THEOREM QueueEndedJobsStay == Spec => EndedJobsStay
<1> DEFINE Again(j) == \E w \in Worker : held[w] = j /\ pc[w] = "unwind" /\ pc'[w] = "down"
           Kept == \A j \in Stored \cap Stored' : ~Active(j) /\ jobs'[j] # jobs[j] => Again(j)
<1>1. ASSUME StoreInv, QueueInv, [Next]_vars PROVE Kept
  <2>1. ASSUME \A j \in Stored \cap Stored' : ~Active(j) => jobs'[j] = jobs[j] PROVE Kept
    BY <2>1
  <2>2. ASSUME UNCHANGED jobs PROVE Kept
    BY <2>2
  <2>3. ASSUME NEW gone, jobs' = Drop(jobs, gone) PROVE Kept
    BY <2>1, <2>3 DEF Drop, Restrict, Stored
  <2>4. ASSUME NEW j, NEW s, NEW res, NEW err, Transition(j, s, res, err), Active(j) \/ Again(j)
        PROVE  Kept
    <3>1. /\ jobs' = [jobs EXCEPT ![j] = Moved(@, s, res, err)]
          /\ \A i \in Stored : i # j => jobs'[i] = jobs[i]
      BY <2>4 DEF Transition, Stored
    <3> HIDE DEF Again
    <3> QED
      BY <2>4, <3>1
  <2>5. ASSUME NEW j \in JobId, Enqueue(j) PROVE Kept
    <3>1. PICK r \in admitting : GetOrCreate(j, r.key, r.post)
      BY <2>5 DEF Enqueue
    <3>2. PICK gone \in Evictions : jobs' = Put(Drop(jobs, gone), j, NewJob(r.key, r.post))
      BY <3>1 DEF GetOrCreate, Insert
    <3>3. j \notin Stored
      BY <3>1 DEF GetOrCreate
    <3>4. \A i \in Stored \cap Stored' : jobs'[i] = jobs[i]
      BY <3>2, <3>3 DEF Put, Drop, Restrict, Stored
    <3> QED
      BY <2>1, <3>4
  <2>6. CASE Cleanup \/ Withdraw
    BY <2>3, <2>6 DEF Cleanup, CleanupExpired, Withdraw, Delete
  <2>7. ASSUME NEW w \in Worker, WorkerStep(w) PROVE Kept
    <3>1. CASE Take(w) \/ TakeStop(w) \/ CancelIdle(w)
      BY <2>2, <3>1 DEF Take, TakeStop, CancelIdle, storeVars
    <3>2. ASSUME pc[w] = "job" PROVE Active(held[w])
      BY <1>1, <3>2 DEF QueueInv, Placed, NoGhost
    <3>3. CASE Progress(w) \/ Complete(w) \/ Failed(w) \/ CancelJob(w)
      <4>1. \E s, res, err : Transition(held[w], s, res, err)
        BY <3>3 DEF Progress, Complete, Failed, CancelJob, Fail
      <4>2. pc[w] = "job"
        BY <3>3 DEF Progress, Complete, Failed, CancelJob
      <4> QED
        BY <2>4, <3>2, <4>1, <4>2
    <3>4. CASE CancelWorker(w)
      <4>1. Transition(held[w], "failed", FALSE, TRUE) /\ Holding(w)
        BY <3>4 DEF CancelWorker, Fail
      <4>2. ASSUME pc[w] = "unwind" PROVE Again(held[w])
        <5>1. pc' = [pc EXCEPT ![w] = "down"] /\ pc \in [Worker -> {"down", "idle", "job", "unwind"}]
          BY <1>1, <3>4 DEF CancelWorker, Finish, QueueInv, Typed
        <5> QED
          BY <4>2, <5>1
      <4>3. pc[w] \in {"job", "unwind"}
        BY <4>1 DEF Holding
      <4> QED
        BY <2>4, <3>2, <4>1, <4>2, <4>3
    <3> QED
      BY <2>7, <3>1, <3>3, <3>4 DEF WorkerStep
  <2>8. CASE Start \/ StopBegin \/ StopStep \/ (\E r \in Request : Admit(r))
             \/ Deduplicate \/ Reject \/ Time \/ UNCHANGED vars
    <3>1. UNCHANGED jobs
      BY <2>8 DEF Start, StopBegin, StopStep, Drained, DrainTimeout, PutStop, StopDone, Admit,
                  Deduplicate, Reject, RejectForCapacity, Time, Tick, vars, storeVars
    <3> QED
      BY <2>2, <3>1
  <2> HIDE DEF Kept
  <2> QED
    BY <1>1, <2>5, <2>6, <2>7, <2>8 DEF Next, EntryStep
<1>2. StoreInv /\ QueueInv /\ [Next]_vars => [Kept]_vars
  BY <1>1
<1> QED
  BY <1>2, QueueInvariant, PTL DEF Spec, EndedJobsStay
=============================================================================
