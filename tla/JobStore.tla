------------------------------ MODULE JobStore ------------------------------
(***************************************************************************)
(* InMemoryJobStore (src/src/pullsage/jobs/store.py): the retained review  *)
(* jobs, and the index of the pull-request heads under review.             *)
(*                                                                         *)
(* Every method of the store changes its state inside `async with          *)
(* self._lock`, and no critical section awaits anything, so one method is  *)
(* one action.  A method that raises or returns before it assigns is a     *)
(* stuttering step and has no action.                                      *)
(***************************************************************************)
EXTENDS Integers, FiniteSets, Functions

CONSTANTS JobId,      \* the identifiers uuid4() may return
          Key,        \* repository, PR number and head SHA of a job
          Posts,      \* the values of post_comments that callers submit
          NoKey,      \* deduplication_key of a job without a head SHA
          MaxJobs,    \* max_jobs
          Retention,  \* retention_seconds
          MaxTime     \* bound on the clock

ASSUME JobStoreAssumption ==
  /\ NoKey \notin Key
  /\ Posts \subseteq BOOLEAN
  /\ MaxJobs \in Nat \ {0}
  /\ Retention \in Nat
  /\ MaxTime \in Nat

VARIABLES jobs,         \* _jobs: job id -> job
          activeByKey,  \* _active_by_key: head -> id of the job reviewing it
          clock         \* what datetime.now(UTC) returns

storeVars == <<jobs, activeByKey, clock>>

-----------------------------------------------------------------------------
(***************************************************************************)
(* Jobs.  A timestamp that is not set (None in the code) is Unset; of      *)
(* `result` and `error` the model keeps whether they are set.              *)
(***************************************************************************)
Status == {"queued", "fetching_context", "reviewing", "validating",
           "posting", "completed", "failed"}

Terminal == {"completed", "failed"}

\* _ALLOWED_TRANSITIONS
Allowed ==
  [s \in Status |->
     CASE s = "queued"           -> {"fetching_context", "failed"}
       [] s = "fetching_context" -> {"reviewing", "failed"}
       [] s = "reviewing"        -> {"validating", "posting", "completed", "failed"}
       [] s = "validating"       -> {"posting", "completed", "failed"}
       [] s = "posting"          -> {"completed", "failed"}
       [] OTHER                  -> {}]

Unset == -1
Stamp == Nat \cup {Unset}

Job == [status    : Status,
        key       : Key \cup {NoKey},
        post      : BOOLEAN,
        created   : Nat,
        started   : Stamp,
        completed : Stamp,
        result    : BOOLEAN,
        error     : BOOLEAN]

\* ReviewJob(...) as get_or_create_job builds it.
NewJob(k, p) == [status |-> "queued", key |-> k, post |-> p,
                 created |-> clock, started |-> Unset, completed |-> Unset,
                 result |-> FALSE, error |-> FALSE]

Stored == DOMAIN jobs

Active(j) == j \in Stored /\ jobs[j].status \notin Terminal

\* An active job for this head: what the lookup in the index establishes.
HasActive(k) == k \in DOMAIN activeByKey /\ Active(activeByKey[k])

-----------------------------------------------------------------------------
(***************************************************************************)
(* dict[key] = value and dict.pop(key, None)                               *)
(***************************************************************************)
Put(f, x, v) == [y \in DOMAIN f \cup {x} |-> IF y = x THEN v ELSE f[y]]
Drop(f, S)   == Restrict(f, DOMAIN f \ S)

\* Mutant: the key is popped without asking whose it is now.
Release_AnyOwner(S) ==
  Drop(activeByKey, {k \in DOMAIN activeByKey : \E j \in S : jobs[j].key = k})

\* Every removal gives the key up only if the index still names that job.
\* S is the set of jobs that leave, or reach a terminal status, in one step.
Release(S) == Drop(activeByKey,
                   {k \in DOMAIN activeByKey :
                      activeByKey[k] \in S /\ jobs[activeByKey[k]].key = k})

\* Mutant: the terminal check is left out.
Finished_IgnoresStatus == Stored

\* _ensure_capacity: the sets of jobs that may be evicted to make room.
\* There is none, and ReviewCapacityError is raised, when the store is full
\* of active jobs.
Finished == {j \in Stored : jobs[j].status \in Terminal /\ jobs[j].completed # Unset}

\* Mutant: the oldest job is the one created first.
OlderOrEqual_ByCreation(i, j) == jobs[i].created <= jobs[j].created

OlderOrEqual(i, j) ==
  \/ jobs[i].completed < jobs[j].completed
  \/ jobs[i].completed = jobs[j].completed /\ jobs[i].created <= jobs[j].created

\* Mutant: one job too many.
Evictions_OffByOne ==
  IF Cardinality(Stored) <= MaxJobs
    THEN {{}}
    ELSE {{j} : j \in {i \in Finished : \A h \in Finished : OlderOrEqual(i, h)}}

Evictions ==
  IF Cardinality(Stored) < MaxJobs
    THEN {{}}
    ELSE {{j} : j \in {i \in Finished : \A h \in Finished : OlderOrEqual(i, h)}}

-----------------------------------------------------------------------------
StoreInit == jobs = <<>> /\ activeByKey = <<>> /\ clock = 0

\* _ensure_capacity, then self._jobs[id] = job and, for a job that has a key
\* and is not terminal, self._active_by_key[key] = id.
Insert(j, job) ==
  \E gone \in Evictions :
    /\ jobs' = Put(Drop(jobs, gone), j, job)
    /\ activeByKey' = IF job.key = NoKey \/ job.status \in Terminal
                        THEN Release(gone)
                        ELSE Put(Release(gone), job.key, j)
    /\ UNCHANGED clock

\* Mutant: a job is created without looking for an active one.
GetOrCreate_NoLookup(j, k, p) == j \notin Stored /\ Insert(j, NewJob(k, p))

\* get_or_create_job, create_job: an active job for the same head is returned
\* as it is; otherwise a job is created under a fresh identifier.
GetOrCreate(j, k, p) ==
  /\ j \notin Stored
  /\ ~HasActive(k)
  /\ Insert(j, NewJob(k, p))

\* get_or_create_job when _ensure_capacity raises: the lookup has already
\* popped whatever the index held for this head.
RejectForCapacity(k) ==
  /\ ~HasActive(k)
  /\ Evictions = {}
  /\ activeByKey' = Drop(activeByKey, {k})
  /\ UNCHANGED <<jobs, clock>>

\* add: a job built by the caller, queued or already finished.
Add(j, job) ==
  /\ j \notin Stored
  /\ ~HasActive(job.key)
  /\ Insert(j, job)

\* Mutant: only completion is stamped.
Moved_FailureNotStamped(job, next, res, err) ==
  [job EXCEPT !.status = next,
              !.started = IF next # "queued" /\ @ = Unset THEN clock ELSE @,
              !.completed = IF next = "completed" THEN clock ELSE @,
              !.error = (next = "failed")]

\* Mutant: every move restarts the job's clock.
Moved_Restarts(job, next, res, err) ==
  [job EXCEPT !.status = next,
              !.started = IF next # "queued" THEN clock ELSE @,
              !.completed = IF next \in Terminal THEN clock ELSE @,
              !.result = @ \/ res,
              !.error = (next = "failed")]

\* What transition writes into the job: the first move that is not a failure
\* in the queue starts it, a terminal status completes it.
Moved(job, next, res, err) ==
  LET begins == /\ next # "queued"
                /\ next = "failed" => job.status # "queued"
  IN [status    |-> next,
      key       |-> job.key,
      post      |-> job.post,
      created   |-> job.created,
      started   |-> IF begins /\ job.started = Unset THEN clock ELSE job.started,
      completed |-> IF next \in Terminal THEN clock ELSE job.completed,
      result    |-> job.result \/ res,
      error     |-> CASE next = "failed"    -> TRUE
                      [] next = "completed" -> FALSE
                      [] OTHER              -> job.error \/ err]

\* transition, update_status: a move the table allows, or to the same status.
Transition(j, next, res, err) ==
  /\ j \in Stored
  /\ next \in Allowed[jobs[j].status] \cup {jobs[j].status}
  /\ jobs' = [jobs EXCEPT ![j] = Moved(@, next, res, err)]
  /\ activeByKey' = IF next \in Terminal THEN Release({j}) ELSE activeByKey
  /\ UNCHANGED clock

\* fail
Fail(j) == Transition(j, "failed", FALSE, TRUE)

\* cleanup_expired, cleanup: the terminal jobs that outlived their retention.
CleanupExpired ==
  LET expired == {j \in Finished : jobs[j].completed <= clock - Retention}
  IN /\ jobs' = Drop(jobs, expired)
     /\ activeByKey' = Release(expired)
     /\ UNCHANGED clock

\* delete
Delete(j) ==
  /\ j \in Stored
  /\ jobs' = Drop(jobs, {j})
  /\ activeByKey' = Release({j})
  /\ UNCHANGED clock

\* The passing of time, up to MaxTime.
Tick == clock < MaxTime /\ clock' = clock + 1 /\ UNCHANGED <<jobs, activeByKey>>

-----------------------------------------------------------------------------
\* What a caller of add can hold: a new job, or a finished one.
FinishedJob(k, p, s) ==
  [status |-> s, key |-> k, post |-> p,
   created |-> clock, started |-> clock, completed |-> clock,
   result |-> s = "completed", error |-> s = "failed"]

Importable ==
  {NewJob(k, p) : k \in Key \cup {NoKey}, p \in Posts}
    \cup {FinishedJob(k, p, s) : k \in Key \cup {NoKey}, p \in Posts, s \in Terminal}

StoreNext ==
  \/ \E j \in JobId, k \in Key \cup {NoKey}, p \in Posts : GetOrCreate(j, k, p)
  \/ \E k \in Key \cup {NoKey} : RejectForCapacity(k)
  \/ \E j \in JobId : \E job \in Importable : Add(j, job)
  \/ \E j \in Stored : \E s \in Status : \E res, err \in BOOLEAN : Transition(j, s, res, err)
  \/ CleanupExpired
  \/ \E j \in Stored : Delete(j)
  \/ Tick

StoreSpec == StoreInit /\ [][StoreNext]_storeVars

-----------------------------------------------------------------------------
(***************************************************************************)
(* What the store promises.                                                *)
(***************************************************************************)
\* The jobs are job records, the index maps heads to identifiers.
StoreTypes ==
  /\ Stored \subseteq JobId
  /\ jobs \in [Stored -> Job]
  /\ DOMAIN activeByKey \subseteq Key
  /\ activeByKey \in [DOMAIN activeByKey -> JobId]
  /\ clock \in Nat

StoreBounded == Cardinality(Stored) <= MaxJobs

\* The state is well typed, and the store never retains more than max_jobs,
\* whichever way jobs come into it.
StoreTypeOK == StoreTypes /\ StoreBounded

\* The index is exact: it names a job for a head if and only if that job is
\* stored, is for that head and is not terminal.  Creation, eviction, expiry,
\* deletion and the two terminal transitions all maintain it by hand; a stale
\* or a missing entry would block a head for ever or review it twice.
IndexExact ==
  \A k \in Key, j \in JobId :
    (k \in DOMAIN activeByKey /\ activeByKey[k] = j) <=> (Active(j) /\ jobs[j].key = k)

\* No two active jobs are for the same head ("prevents duplicate concurrent
\* work where the head SHA is known").
UniqueActive ==
  \A i, j \in Stored :
    Active(i) /\ Active(j) /\ jobs[i].key = jobs[j].key /\ jobs[i].key # NoKey => i = j

\* completed_at is set exactly on terminal jobs, running jobs have started,
\* and created_at, started_at, completed_at are in that order.
Timestamps(job) ==
  /\ job.completed # Unset <=> job.status \in Terminal
  /\ job.status \notin {"queued", "failed"} => job.started # Unset
  /\ job.status = "queued" => job.started = Unset
  /\ job.started # Unset => job.created <= job.started
  /\ job.completed # Unset => job.created <= job.completed /\ job.started <= job.completed
  /\ job.created <= clock /\ job.started <= clock /\ job.completed <= clock

\* A failed job says why, a completed one has no error.
Outcome(job) ==
  /\ job.status = "failed" => job.error
  /\ job.status = "completed" => ~job.error

\* What a client polls is consistent, after any legal sequence of transitions
\* and repeated transitions.  Cleanup and eviction skip a terminal job whose
\* completed_at is missing, so such a job would never leave the store.
LifecycleConsistent == \A j \in Stored : Timestamps(jobs[j]) /\ Outcome(jobs[j])

\* A job that leaves while another arrives was evicted: the store was full, the
\* job was terminal, and no retained terminal job finished before it.
EvictsOldestTerminal ==
  [][\A j \in Stored :
       j \notin Stored' /\ Stored' \ Stored # {} =>
         /\ Cardinality(Stored) = MaxJobs
         /\ ~Active(j)
         /\ \A i \in Stored \cap Stored' :
              ~Active(i) => jobs[j].completed <= jobs[i].completed]_storeVars

\* A job never goes back: its status only advances (a terminal one stays), its
\* identity, head and creation time are fixed, a result is not withdrawn.
Rank == [s \in Status |->
           CASE s = "queued" -> 0 [] s = "fetching_context" -> 1
             [] s = "reviewing" -> 2 [] s = "validating" -> 3
             [] s = "posting" -> 4 [] OTHER -> 5]

HistoryOnlyGrows ==
  [][\A j \in Stored \cap Stored' :
       /\ Rank[jobs[j].status] <= Rank[jobs'[j].status]
       /\ jobs[j].status \in Terminal => jobs'[j].status = jobs[j].status
       /\ jobs'[j].key = jobs[j].key /\ jobs'[j].created = jobs[j].created
       /\ jobs[j].started # Unset => jobs'[j].started = jobs[j].started
       /\ jobs[j].result => jobs'[j].result]_storeVars

\* The store implements one lock per head: the holders of a head are the active
\* jobs for it, whatever the index says.
ActiveFor == [k \in Key |-> {j \in Stored : Active(j) /\ jobs[j].key = k}]

Locks == INSTANCE HeadLocks WITH Head <- Key, Owner <- JobId, holders <- ActiveFor

ImplementsHeadLocks == Locks!Spec
=============================================================================
