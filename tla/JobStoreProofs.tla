--------------------------- MODULE JobStoreProofs ---------------------------
(***************************************************************************)
(* The index of the job store is exact in every reachable state, for every *)
(* set of heads and identifiers, every capacity and every retention.       *)
(***************************************************************************)
EXTENDS JobStore, FiniteSetTheorems, TLAPS

USE DEF Stored

-----------------------------------------------------------------------------
(***************************************************************************)
(* Jobs.                                                                   *)
(***************************************************************************)
\* A job that get_or_create_job or add is given is a job record.
LEMMA NewJobType ==
  ASSUME clock \in Nat, NEW k \in Key \cup {NoKey}, NEW p \in Posts
  PROVE  NewJob(k, p) \in Job
<1>1. p \in BOOLEAN
  BY JobStoreAssumption
<1>2. Unset \in Stamp /\ FALSE \in BOOLEAN /\ "queued" \in Status
  BY DEF Stamp, Status
<1> QED
  BY <1>1, <1>2 DEF NewJob, Job

LEMMA ImportableType ==
  ASSUME clock \in Nat, NEW job \in Importable
  PROVE  job \in Job
<1>1. CASE \E k \in Key \cup {NoKey}, p \in Posts : job = NewJob(k, p)
  BY <1>1, NewJobType
<1>2. CASE \E k \in Key \cup {NoKey}, p \in Posts, s \in Terminal : job = FinishedJob(k, p, s)
  <2>1. PICK k \in Key \cup {NoKey}, p \in Posts, s \in Terminal : job = FinishedJob(k, p, s)
    BY <1>2
  <2>2. p \in BOOLEAN
    BY JobStoreAssumption
  <2>3. s \in Status /\ clock \in Stamp
    BY DEF Terminal, Status, Stamp
  <2>4. (s = "completed") \in BOOLEAN /\ (s = "failed") \in BOOLEAN
    OBVIOUS
  <2> QED
    BY <2>1, <2>2, <2>3, <2>4 DEF FinishedJob, Job
<1> QED
  BY <1>1, <1>2 DEF Importable

\* transition leaves a job record, for the same head.
LEMMA MovedType ==
  ASSUME clock \in Nat, NEW job \in Job, NEW next \in Status,
         NEW res \in BOOLEAN, NEW err \in BOOLEAN
  PROVE  /\ Moved(job, next, res, err) \in Job
         /\ Moved(job, next, res, err).status = next
         /\ Moved(job, next, res, err).key = job.key
<1> DEFINE m == Moved(job, next, res, err)
<1>1. m.started \in Stamp /\ m.completed \in Stamp
  BY DEF Moved, Job, Stamp
<1>2. m.result \in BOOLEAN /\ m.error \in BOOLEAN
  BY DEF Moved, Job
<1>3. m.status = next /\ m.key = job.key /\ m.post = job.post /\ m.created = job.created
  BY DEF Moved
<1>4. m = [status |-> m.status, key |-> m.key, post |-> m.post, created |-> m.created,
           started |-> m.started, completed |-> m.completed, result |-> m.result, error |-> m.error]
  BY DEF Moved
<1> HIDE DEF m
<1>5. m \in Job
  BY <1>1, <1>2, <1>3, <1>4 DEF Job
<1> QED
  BY <1>3, <1>5 DEF m

\* What _ensure_capacity may evict is terminal.
LEMMA EvictionsAreTerminal ==
  ASSUME NEW gone \in Evictions
  PROVE  gone \subseteq Finished
BY DEF Evictions

-----------------------------------------------------------------------------
(***************************************************************************)
(* The inductive invariant.                                                *)
(***************************************************************************)
StoreInv == StoreTypes /\ IndexExact

\* Releasing S leaves an index of the active jobs outside S.
LEMMA ReleaseLemma ==
  ASSUME StoreInv, NEW S
  PROVE  /\ DOMAIN Release(S) \subseteq Key
         /\ Release(S) \in [DOMAIN Release(S) -> JobId]
         /\ \A k \in Key, i \in JobId :
              (k \in DOMAIN Release(S) /\ Release(S)[k] = i)
                <=> (Active(i) /\ jobs[i].key = k /\ i \notin S)
<1> DEFINE D == {k \in DOMAIN activeByKey :
                   activeByKey[k] \in S /\ jobs[activeByKey[k]].key = k}
<1>1. Release(S) = Drop(activeByKey, D)
  BY DEF Release
<1>2. /\ DOMAIN Release(S) = DOMAIN activeByKey \ D
      /\ \A k \in DOMAIN activeByKey \ D : Release(S)[k] = activeByKey[k]
      /\ Release(S) \in [DOMAIN Release(S) -> JobId]
  <2>1. activeByKey \in [DOMAIN activeByKey -> JobId]
    BY DEF StoreInv, StoreTypes
  <2> HIDE DEF D
  <2> QED
    BY <1>1, <2>1 DEF Drop, Restrict
<1>3. DOMAIN activeByKey \subseteq Key
  BY DEF StoreInv, StoreTypes
<1>4. ASSUME NEW k \in Key, NEW i \in JobId
      PROVE  (k \in DOMAIN Release(S) /\ Release(S)[k] = i)
               <=> (Active(i) /\ jobs[i].key = k /\ i \notin S)
  <2>1. (k \in DOMAIN activeByKey /\ activeByKey[k] = i) <=> (Active(i) /\ jobs[i].key = k)
    BY DEF StoreInv, IndexExact
  <2> QED
    BY <1>2, <2>1
<1> QED
  BY <1>2, <1>3, <1>4

\* No active job has the head that the index does not know as active.
LEMMA NoActiveJob ==
  ASSUME StoreInv, NEW k \in Key, ~HasActive(k), NEW i \in JobId, Active(i)
  PROVE  jobs[i].key # k
BY DEF StoreInv, IndexExact, HasActive

\* get_or_create_job and add, from the eviction on.
LEMMA InsertPreservesInv ==
  ASSUME StoreInv, NEW j \in JobId, j \notin Stored, NEW job \in Job,
         ~HasActive(job.key), Insert(j, job)
  PROVE  StoreInv'
<1>1. PICK gone \in Evictions :
        /\ jobs' = Put(Drop(jobs, gone), j, job)
        /\ activeByKey' = IF job.key = NoKey \/ job.status \in Terminal
                            THEN Release(gone)
                            ELSE Put(Release(gone), job.key, j)
        /\ clock' = clock
  BY DEF Insert
<1>2. gone \subseteq Finished
  BY EvictionsAreTerminal
<1> DEFINE R == Release(gone)
<1>3. /\ DOMAIN R \subseteq Key
      /\ R \in [DOMAIN R -> JobId]
      /\ \A k \in Key, i \in JobId :
           (k \in DOMAIN R /\ R[k] = i) <=> (Active(i) /\ jobs[i].key = k /\ i \notin gone)
  BY ReleaseLemma
<1>4. /\ DOMAIN jobs' = (DOMAIN jobs \ gone) \cup {j}
      /\ jobs'[j] = job
      /\ \A i \in DOMAIN jobs \ gone : jobs'[i] = jobs[i]
      /\ jobs' \in [DOMAIN jobs' -> Job]
  <2>1. jobs \in [DOMAIN jobs -> Job]
    BY DEF StoreInv, StoreTypes
  <2> DEFINE d == Drop(jobs, gone)
  <2>2. /\ DOMAIN d = DOMAIN jobs \ gone
        /\ \A i \in DOMAIN jobs \ gone : d[i] = jobs[i]
        /\ d \in [DOMAIN d -> Job]
    BY <2>1 DEF Drop, Restrict
  <2>3. jobs' = Put(d, j, job)
    BY <1>1
  <2> HIDE DEF d
  <2> QED
    BY <2>2, <2>3 DEF Put
<1>5. /\ activeByKey' \in [DOMAIN activeByKey' -> JobId]
      /\ DOMAIN activeByKey' \subseteq Key
      /\ \A k \in Key : k # job.key =>
           /\ k \in DOMAIN activeByKey' <=> k \in DOMAIN R
           /\ k \in DOMAIN R => activeByKey'[k] = R[k]
      /\ job.key \in Key /\ job.status \notin Terminal =>
           job.key \in DOMAIN activeByKey' /\ activeByKey'[job.key] = j
      /\ job.status \in Terminal => activeByKey' = R
  <2>1. job.key \in Key \cup {NoKey}
    BY DEF Job
  <2>2. activeByKey' = IF job.key = NoKey \/ job.status \in Terminal
                        THEN R ELSE Put(R, job.key, j)
    BY <1>1
  <2> HIDE DEF R
  <2> QED
    BY <1>3, <2>1, <2>2, JobStoreAssumption DEF Put
<1>6. StoreTypes'
  <2>1. DOMAIN jobs' \subseteq JobId
    BY <1>4 DEF StoreInv, StoreTypes
  <2>2. clock' \in Nat
    BY <1>1 DEF StoreInv, StoreTypes
  <2> QED
    BY <1>4, <1>5, <2>1, <2>2 DEF StoreTypes
<1>7. ASSUME NEW k \in Key, NEW i \in JobId
      PROVE  (k \in DOMAIN activeByKey' /\ activeByKey'[k] = i)
               <=> (Active(i)' /\ jobs'[i].key = k)
  <2>1. \A h \in gone : ~Active(h)
    BY <1>2 DEF Finished, Active
  <2>2. i # j => (Active(i)' <=> Active(i)) /\ (Active(i) => jobs'[i] = jobs[i])
    BY <1>4, <2>1 DEF Active
  <2>3. Active(j)' <=> job.status \notin Terminal
    BY <1>4 DEF Active
  <2>4. ~Active(j)
    BY DEF Active
  <2>5. k = job.key /\ Active(i) => jobs[i].key # k
    BY NoActiveJob
  <2>6. (k \in DOMAIN R /\ R[k] = i) <=> (Active(i) /\ jobs[i].key = k)
    BY <1>3, <2>1
  <2> HIDE DEF R
  <2>7. CASE k # job.key
    BY <2>7, <1>4, <1>5, <2>2, <2>4, <2>6
  <2>8. CASE k = job.key /\ job.status \in Terminal
    BY <2>8, <1>4, <1>5, <2>2, <2>3, <2>4, <2>6
  <2>9. CASE k = job.key /\ job.status \notin Terminal
    BY <2>9, <1>4, <1>5, <2>2, <2>3, <2>5
  <2> QED
    BY <2>7, <2>8, <2>9
<1> QED
  BY <1>6, <1>7 DEF StoreInv, IndexExact

\* cleanup_expired and delete.
LEMMA RemovalPreservesInv ==
  ASSUME StoreInv, NEW S,
         jobs' = Drop(jobs, S), activeByKey' = Release(S), UNCHANGED clock
  PROVE  StoreInv'
<1>1. /\ DOMAIN jobs' = DOMAIN jobs \ S
      /\ \A i \in DOMAIN jobs \ S : jobs'[i] = jobs[i]
      /\ jobs' \in [DOMAIN jobs' -> Job]
  <2>1. jobs \in [DOMAIN jobs -> Job]
    BY DEF StoreInv, StoreTypes
  <2> QED
    BY <2>1 DEF Drop, Restrict
<1>2. StoreTypes'
  BY <1>1, ReleaseLemma DEF StoreInv, StoreTypes
<1>3. \A i : /\ Active(i)' <=> Active(i) /\ i \notin S
             /\ Active(i)' => jobs'[i] = jobs[i]
  BY <1>1 DEF Active
<1>4. IndexExact'
  BY <1>3, ReleaseLemma DEF IndexExact
<1> QED
  BY <1>2, <1>4 DEF StoreInv

\* No status leads out of the terminal ones.
LEMMA TerminalIsFinal ==
  ASSUME NEW s \in Terminal, NEW next \in Allowed[s] \cup {s}
  PROVE  next \in Terminal
BY DEF Terminal, Allowed, Status

\* transition and fail.
LEMMA TransitionPreservesInv ==
  ASSUME StoreInv, NEW j, NEW next \in Status, NEW res \in BOOLEAN, NEW err \in BOOLEAN,
         Transition(j, next, res, err)
  PROVE  StoreInv'
<1> DEFINE m == Moved(jobs[j], next, res, err)
<1>1. j \in DOMAIN jobs /\ j \in JobId /\ jobs[j] \in Job /\ clock \in Nat
  BY DEF StoreInv, StoreTypes, Transition
<1>2. m \in Job /\ m.status = next /\ m.key = jobs[j].key
  BY <1>1, MovedType
<1>3. /\ DOMAIN jobs' = DOMAIN jobs
      /\ jobs'[j] = m
      /\ \A i \in DOMAIN jobs : i # j => jobs'[i] = jobs[i]
      /\ jobs' \in [DOMAIN jobs -> Job]
  <2>1. jobs \in [DOMAIN jobs -> Job]
    BY DEF StoreInv, StoreTypes
  <2>2. jobs' = [jobs EXCEPT ![j] = m]
    BY DEF Transition
  <2> HIDE DEF m
  <2> QED
    BY <1>1, <1>2, <2>1, <2>2
<1> HIDE DEF m
<1>4. /\ next \in Terminal => activeByKey' = Release({j})
      /\ next \notin Terminal => activeByKey' = activeByKey
      /\ clock' = clock
  BY DEF Transition
<1>5. StoreTypes'
  BY <1>3, <1>4, ReleaseLemma DEF StoreInv, StoreTypes
<1>6. \A i : i # j => /\ Active(i)' <=> Active(i)
                      /\ Active(i) => jobs'[i] = jobs[i]
  BY <1>3 DEF Active
<1>7. Active(j)' <=> next \notin Terminal
  BY <1>1, <1>2, <1>3 DEF Active
<1>8. CASE next \in Terminal
  <2>1. \A k \in Key, i \in JobId :
          (k \in DOMAIN activeByKey' /\ activeByKey'[k] = i)
            <=> (Active(i) /\ jobs[i].key = k /\ i # j)
    BY <1>4, <1>8, ReleaseLemma
  <2>2. IndexExact'
    BY <2>1, <1>6, <1>7, <1>8 DEF IndexExact
  <2> QED
    BY <2>2, <1>5 DEF StoreInv
<1>9. CASE next \notin Terminal
  <2>1. Active(j)
    BY <1>9, <1>1, TerminalIsFinal DEF Active, Transition
  <2>2. \A i : Active(i)' <=> Active(i)
    BY <2>1, <1>6, <1>7, <1>9
  <2>3. \A i : Active(i) => jobs'[i].key = jobs[i].key
    BY <1>2, <1>3, <1>6
  <2>4. IndexExact'
    BY <2>2, <2>3, <1>4, <1>9 DEF StoreInv, IndexExact
  <2> QED
    BY <2>4, <1>5 DEF StoreInv
<1> QED
  BY <1>8, <1>9

\* get_or_create_job when it raises.
LEMMA RejectionPreservesInv ==
  ASSUME StoreInv, NEW k \in Key \cup {NoKey}, RejectForCapacity(k)
  PROVE  StoreInv'
<1>1. k \notin DOMAIN activeByKey
  BY JobStoreAssumption DEF StoreInv, StoreTypes, IndexExact, RejectForCapacity, HasActive
<1>2. activeByKey' = activeByKey
  <2>1. activeByKey = [x \in DOMAIN activeByKey |-> activeByKey[x]]
    BY DEF StoreInv, StoreTypes
  <2> QED
    BY <1>1, <2>1 DEF RejectForCapacity, Drop, Restrict
<1> QED
  BY <1>2 DEF RejectForCapacity, StoreInv, StoreTypes, IndexExact, Active

LEMMA StoreInitInv ==
  ASSUME StoreInit
  PROVE  StoreInv
<1>1. jobs = <<>> /\ activeByKey = <<>> /\ DOMAIN jobs = {} /\ DOMAIN activeByKey = {}
  BY DEF StoreInit
<1> QED
  BY <1>1 DEF StoreInit, StoreInv, StoreTypes, IndexExact, Active

\* One step per operation of the store.
LEMMA StoreStepInv ==
  ASSUME StoreInv, [StoreNext]_storeVars
  PROVE  StoreInv'
<1>1. ASSUME NEW j \in JobId, NEW k \in Key \cup {NoKey}, NEW p \in Posts, GetOrCreate(j, k, p)
      PROVE  StoreInv'
  <2>1. NewJob(k, p) \in Job /\ NewJob(k, p).key = k
    BY NewJobType DEF StoreInv, StoreTypes, NewJob
  <2> QED
    BY <1>1, <2>1, InsertPreservesInv DEF GetOrCreate
<1>2. ASSUME NEW k \in Key \cup {NoKey}, RejectForCapacity(k)
      PROVE  StoreInv'
  BY <1>2, RejectionPreservesInv
<1>3. ASSUME NEW j \in JobId, NEW job \in Importable, Add(j, job)
      PROVE  StoreInv'
  BY <1>3, ImportableType, InsertPreservesInv DEF Add, StoreInv, StoreTypes
<1>4. ASSUME NEW j \in Stored, NEW s \in Status, NEW res \in BOOLEAN, NEW err \in BOOLEAN,
             Transition(j, s, res, err)
      PROVE  StoreInv'
  BY <1>4, TransitionPreservesInv
<1>5. CASE CleanupExpired
  BY <1>5, RemovalPreservesInv DEF CleanupExpired
<1>6. ASSUME NEW j \in Stored, Delete(j)
      PROVE  StoreInv'
  BY <1>6, RemovalPreservesInv DEF Delete
<1>7. CASE Tick
  BY <1>7 DEF Tick, StoreInv, StoreTypes, IndexExact, Active
<1>8. CASE UNCHANGED storeVars
  BY <1>8 DEF storeVars, StoreInv, StoreTypes, IndexExact, Active
<1> QED
  BY <1>1, <1>2, <1>3, <1>4, <1>5, <1>6, <1>7, <1>8 DEF StoreNext

LEMMA StoreInvariance == StoreSpec => []StoreInv
BY StoreInitInv, StoreStepInv, PTL DEF StoreSpec

-----------------------------------------------------------------------------
(***************************************************************************)
(* The theorems.                                                           *)
(***************************************************************************)
\* _active_by_key is exact after any sequence of store operations.
THEOREM StoreIndexExact == StoreSpec => []IndexExact
BY StoreInvariance, PTL DEF StoreInv

\* At most one job is active for a head, whatever is created, evicted, expired,
\* deleted or failed in whatever order.
THEOREM StoreUniqueActive == StoreSpec => []UniqueActive
<1>1. StoreInv => UniqueActive
  <2> SUFFICES ASSUME StoreInv, NEW i \in Stored, NEW j \in Stored, Active(i), Active(j),
                      jobs[i].key = jobs[j].key, jobs[i].key # NoKey
               PROVE  i = j
    BY DEF UniqueActive
  <2>1. i \in JobId /\ j \in JobId /\ jobs[i].key \in Key
    BY DEF StoreInv, StoreTypes, Job
  <2> QED
    BY <2>1 DEF StoreInv, IndexExact
<1> QED
  BY <1>1, StoreInvariance, PTL

-----------------------------------------------------------------------------
(***************************************************************************)
(* The store implements one lock per head.                                 *)
(***************************************************************************)
\* A step that leaves the set of active jobs and their heads alone.
LEMMA SameActiveStutters ==
  ASSUME \A i : /\ Active(i)' <=> Active(i)
                /\ Active(i) => jobs'[i].key = jobs[i].key
  PROVE  UNCHANGED ActiveFor
<1>1. \A i : Active(i) => i \in DOMAIN jobs
  BY DEF Active
<1>2. \A i : Active(i)' => i \in DOMAIN jobs'
  BY DEF Active
<1>3. \A k \in Key : {i \in DOMAIN jobs' : Active(i)' /\ jobs'[i].key = k}
                     = {i \in DOMAIN jobs : Active(i) /\ jobs[i].key = k}
  BY <1>1, <1>2
<1> QED
  BY <1>3 DEF ActiveFor

\* The end of the active job j, by a terminal status or by deletion.
LEMMA EndFreesHead ==
  ASSUME StoreInv, NEW j \in Stored, ~Active(j)',
         \A i : i # j => /\ Active(i)' <=> Active(i)
                         /\ Active(i) => jobs'[i].key = jobs[i].key
  PROVE  [Locks!Next]_ActiveFor
<1> DEFINE k == jobs[j].key
<1>1. CASE ~Active(j)
  BY <1>1, SameActiveStutters
<1>2. CASE Active(j) /\ k \notin Key
  <2>1. \A i : Active(i)' => i \in DOMAIN jobs' /\ i # j
    BY DEF Active
  <2>2. \A i : Active(i) => i \in DOMAIN jobs
    BY DEF Active
  <2>3. \A h \in Key : {i \in DOMAIN jobs' : Active(i)' /\ jobs'[i].key = h}
                       = {i \in DOMAIN jobs : Active(i) /\ jobs[i].key = h}
    BY <2>1, <2>2, <1>2
  <2> QED
    BY <2>3 DEF ActiveFor
<1>3. CASE Active(j) /\ k \in Key
  <2>1. j \in JobId /\ \A i \in DOMAIN jobs : i \in JobId
    BY DEF StoreInv, StoreTypes
  <2>2. \A i \in DOMAIN jobs : Active(i) /\ jobs[i].key = k => i = j
    BY <1>3, <2>1 DEF StoreInv, IndexExact
  <2>3. \A i : Active(i)' => i \in DOMAIN jobs' /\ i # j
    BY DEF Active
  <2>4. \A i : Active(i) => i \in DOMAIN jobs
    BY DEF Active
  <2>5. ActiveFor[k] # {}
    BY <1>3, <2>4 DEF ActiveFor
  <2>6. {i \in DOMAIN jobs' : Active(i)' /\ jobs'[i].key = k} = {}
    BY <2>2, <2>3, <2>4
  <2>7. \A h \in Key : h # k =>
          {i \in DOMAIN jobs' : Active(i)' /\ jobs'[i].key = h}
            = {i \in DOMAIN jobs : Active(i) /\ jobs[i].key = h}
    BY <2>3, <2>4, <1>3
  <2>8. ActiveFor' = [ActiveFor EXCEPT ![k] = {}]
    BY <2>6, <2>7 DEF ActiveFor
  <2> QED
    BY <1>3, <2>5, <2>8 DEF Locks!Next, Locks!Free
<1> QED
  BY <1>1, <1>2, <1>3

\* The arrival of a job: it takes the lock of its head, if it has one.
LEMMA InsertTakesHead ==
  ASSUME StoreInv, NEW j \in JobId, j \notin Stored, NEW job \in Job,
         ~HasActive(job.key), Insert(j, job)
  PROVE  [Locks!Next]_ActiveFor
<1>1. PICK gone \in Evictions : jobs' = Put(Drop(jobs, gone), j, job)
  BY DEF Insert
<1>2. /\ DOMAIN jobs' = (DOMAIN jobs \ gone) \cup {j}
      /\ jobs'[j] = job
      /\ \A i \in DOMAIN jobs \ gone : jobs'[i] = jobs[i]
  BY <1>1 DEF Put, Drop, Restrict
<1>3. /\ \A i \in gone : ~Active(i)
      /\ ~Active(j)
  BY EvictionsAreTerminal DEF Finished, Active
<1>4. \A i : i # j => /\ Active(i)' <=> Active(i)
                      /\ Active(i) => jobs'[i] = jobs[i]
  BY <1>2, <1>3 DEF Active
<1>5. Active(j)' <=> job.status \notin Terminal
  BY <1>2 DEF Active
<1>6. /\ \A i : Active(i) => i \in DOMAIN jobs
      /\ \A i : Active(i)' => i \in DOMAIN jobs'
      /\ DOMAIN jobs \subseteq JobId
  BY DEF Active, StoreInv, StoreTypes
<1>7. CASE job.status \in Terminal
  BY <1>3, <1>4, <1>5, <1>7, SameActiveStutters
<1>8. CASE job.status \notin Terminal /\ job.key \notin Key
  <2>1. \A h \in Key : {i \in DOMAIN jobs' : Active(i)' /\ jobs'[i].key = h}
                       = {i \in DOMAIN jobs : Active(i) /\ jobs[i].key = h}
    BY <1>2, <1>3, <1>4, <1>6, <1>8
  <2> QED
    BY <2>1 DEF ActiveFor
<1>9. CASE job.status \notin Terminal /\ job.key \in Key
  <2> DEFINE k == job.key
  <2>1. \A i \in DOMAIN jobs : Active(i) => jobs[i].key # k
    BY <1>6, <1>9, NoActiveJob
  <2>2. ActiveFor[k] = {}
    BY <1>9, <2>1 DEF ActiveFor
  <2>3. {i \in DOMAIN jobs' : Active(i)' /\ jobs'[i].key = k} = {j}
    BY <1>2, <1>4, <1>5, <1>6, <1>9, <2>1
  <2>4. \A h \in Key : h # k =>
          {i \in DOMAIN jobs' : Active(i)' /\ jobs'[i].key = h}
            = {i \in DOMAIN jobs : Active(i) /\ jobs[i].key = h}
    BY <1>2, <1>3, <1>4, <1>6
  <2>5. ActiveFor' = [ActiveFor EXCEPT ![k] = {j}]
    BY <2>3, <2>4 DEF ActiveFor
  <2> QED
    BY <1>9, <2>2, <2>5 DEF Locks!Next, Locks!Acquire
<1> QED
  BY <1>7, <1>8, <1>9

\* Every operation of the store takes a free lock, frees one, or neither.
THEOREM StoreImplementsHeadLocks == StoreSpec => ImplementsHeadLocks
<1>1. StoreInit => Locks!Init
  <2> SUFFICES ASSUME StoreInit PROVE Locks!Init
    OBVIOUS
  <2>1. DOMAIN jobs = {}
    BY DEF StoreInit
  <2> QED
    BY <2>1 DEF Locks!Init, ActiveFor
<1>2. StoreInv /\ [StoreNext]_storeVars => [Locks!Next]_ActiveFor
  <2> SUFFICES ASSUME StoreInv, [StoreNext]_storeVars
               PROVE  [Locks!Next]_ActiveFor
    OBVIOUS
  <2>1. ASSUME NEW j \in JobId, NEW k \in Key \cup {NoKey}, NEW p \in Posts, GetOrCreate(j, k, p)
        PROVE  [Locks!Next]_ActiveFor
    <3>1. NewJob(k, p) \in Job /\ NewJob(k, p).key = k
      BY NewJobType DEF StoreInv, StoreTypes, NewJob
    <3> QED
      BY <2>1, <3>1, InsertTakesHead DEF GetOrCreate
  <2>2. ASSUME NEW k \in Key \cup {NoKey}, RejectForCapacity(k)
        PROVE  [Locks!Next]_ActiveFor
    BY <2>2, SameActiveStutters DEF RejectForCapacity, Active
  <2>3. ASSUME NEW j \in JobId, NEW job \in Importable, Add(j, job)
        PROVE  [Locks!Next]_ActiveFor
    BY <2>3, ImportableType, InsertTakesHead DEF Add, StoreInv, StoreTypes
  <2>4. ASSUME NEW j \in Stored, NEW s \in Status, NEW res \in BOOLEAN, NEW err \in BOOLEAN,
               Transition(j, s, res, err)
        PROVE  [Locks!Next]_ActiveFor
    <3> DEFINE m == Moved(jobs[j], s, res, err)
    <3>1. jobs[j] \in Job /\ clock \in Nat
      BY DEF StoreInv, StoreTypes
    <3>2. m.status = s /\ m.key = jobs[j].key
      BY <3>1, MovedType
    <3>3. jobs' = [jobs EXCEPT ![j] = m]
      BY <2>4 DEF Transition
    <3> HIDE DEF m
    <3>4. \A i : i # j => /\ Active(i)' <=> Active(i)
                          /\ Active(i) => jobs'[i].key = jobs[i].key
      BY <3>3 DEF Active
    <3>5. jobs'[j] = m /\ (Active(j)' <=> s \notin Terminal)
      BY <3>2, <3>3 DEF Active
    <3>6. CASE s \in Terminal
      BY <3>4, <3>5, <3>6, EndFreesHead
    <3>7. CASE s \notin Terminal
      <4>1. Active(j)
        BY <2>4, <3>1, <3>7, TerminalIsFinal DEF Transition, Active
      <4> QED
        BY <3>2, <3>4, <3>5, <3>7, <4>1, SameActiveStutters
    <3> QED
      BY <3>6, <3>7
  <2>5. CASE CleanupExpired
    <3>1. PICK S : jobs' = Drop(jobs, S) /\ S \subseteq Finished
      BY <2>5 DEF CleanupExpired
    <3>2. \A i : /\ Active(i)' <=> Active(i)
                 /\ Active(i) => jobs'[i].key = jobs[i].key
      BY <3>1 DEF Drop, Restrict, Finished, Active
    <3> QED
      BY <3>2, SameActiveStutters
  <2>6. ASSUME NEW j \in Stored, Delete(j)
        PROVE  [Locks!Next]_ActiveFor
    <3>1. ~Active(j)' /\ \A i : i # j => /\ Active(i)' <=> Active(i)
                                         /\ Active(i) => jobs'[i].key = jobs[i].key
      BY <2>6 DEF Delete, Drop, Restrict, Active
    <3> QED
      BY <3>1, EndFreesHead
  <2>7. CASE Tick
    BY <2>7, SameActiveStutters DEF Tick, Active
  <2>8. CASE UNCHANGED storeVars
    BY <2>8, SameActiveStutters DEF storeVars, Active
  <2> QED
    BY <2>1, <2>2, <2>3, <2>4, <2>5, <2>6, <2>7, <2>8 DEF StoreNext
<1> QED
  BY <1>1, <1>2, StoreInvariance, PTL DEF StoreSpec, ImplementsHeadLocks, Locks!Spec

-----------------------------------------------------------------------------
(***************************************************************************)
(* Timestamps and outcomes.                                                *)
(***************************************************************************)
LifecycleInv == StoreInv /\ LifecycleConsistent

Lifecycle(job) == Timestamps(job) /\ Outcome(job)

LEMMA NewLifecycle ==
  ASSUME clock \in Nat,
         NEW job, job \in Importable \/ (\E k, p : job = NewJob(k, p))
  PROVE  Lifecycle(job)
<1>1. ASSUME NEW k, NEW p PROVE Lifecycle(NewJob(k, p))
  <2>1. Timestamps(NewJob(k, p))
    BY DEF NewJob, Timestamps, Terminal, Unset
  <2>2. Outcome(NewJob(k, p))
    BY DEF NewJob, Outcome
  <2> QED
    BY <2>1, <2>2 DEF Lifecycle
<1>2. ASSUME NEW k, NEW p, NEW s \in Terminal PROVE Lifecycle(FinishedJob(k, p, s))
  <2>1. Timestamps(FinishedJob(k, p, s))
    BY DEF FinishedJob, Timestamps, Terminal, Unset
  <2>2. Outcome(FinishedJob(k, p, s))
    BY DEF FinishedJob, Outcome
  <2> QED
    BY <2>1, <2>2 DEF Lifecycle
<1> QED
  BY <1>1, <1>2 DEF Importable

\* transition keeps the timestamps in order.
LEMMA MovedLifecycle ==
  ASSUME clock \in Nat, NEW job \in Job, Lifecycle(job),
         NEW next \in Allowed[job.status] \cup {job.status},
         NEW res \in BOOLEAN, NEW err \in BOOLEAN
  PROVE  Lifecycle(Moved(job, next, res, err))
<1> DEFINE m == Moved(job, next, res, err)
<1>1. /\ m.status = next /\ m.created = job.created
      /\ m.started = IF next # "queued" /\ (next = "failed" => job.status # "queued")
                        /\ job.started = Unset
                      THEN clock ELSE job.started
      /\ m.completed = IF next \in Terminal THEN clock ELSE job.completed
  BY DEF Moved
<1>2. /\ job.created \in Nat /\ job.started \in Nat \cup {-1} /\ job.completed \in Nat \cup {-1}
      /\ job.status \in Status
  BY DEF Job, Stamp, Unset
<1>3. next = "queued" => job.status = "queued"
  BY <1>2 DEF Allowed, Status
<1>4. next \notin Terminal => job.status \notin Terminal
  BY TerminalIsFinal
<1>5. Outcome(m)
  BY DEF Moved, Outcome
<1> HIDE DEF m
<1>6. Timestamps(job)
  BY DEF Lifecycle
<1>7. Timestamps(m)
  BY <1>1, <1>2, <1>3, <1>4, <1>6 DEF Timestamps, Terminal, Unset
<1>8. Lifecycle(m)
  BY <1>5, <1>7 DEF Lifecycle
<1> QED
  BY <1>8 DEF m

LEMMA LifecycleStep ==
  ASSUME LifecycleInv, [StoreNext]_storeVars
  PROVE  LifecycleConsistent'
<1>1. /\ jobs \in [Stored -> Job] /\ Stored \subseteq JobId /\ clock \in Nat
      /\ \A j \in Stored : Lifecycle(jobs[j])
  BY DEF LifecycleInv, StoreInv, StoreTypes, LifecycleConsistent, Lifecycle
<1>2. ASSUME NEW j, NEW job, j \notin Stored, Lifecycle(job), Insert(j, job)
      PROVE  LifecycleConsistent'
  <2>1. PICK gone : jobs' = Put(Drop(jobs, gone), j, job) /\ clock' = clock
    BY <1>2 DEF Insert
  <2>2. \A i \in DOMAIN jobs' : jobs'[i] = job \/ (i \in DOMAIN jobs /\ jobs'[i] = jobs[i])
    BY <2>1 DEF Put, Drop, Restrict
  <2>3. \A i \in DOMAIN jobs' : Lifecycle(jobs'[i])
    BY <1>1, <1>2, <2>2
  <2> QED
    BY <2>1, <2>3 DEF LifecycleConsistent, Lifecycle, Timestamps, Outcome
<1>3. ASSUME NEW S, jobs' = Drop(jobs, S), clock' = clock
      PROVE  LifecycleConsistent'
  <2>1. \A i \in DOMAIN jobs' : i \in DOMAIN jobs /\ jobs'[i] = jobs[i]
    BY <1>3 DEF Drop, Restrict
  <2> QED
    BY <1>1, <1>3, <2>1 DEF LifecycleConsistent, Lifecycle, Timestamps, Outcome
<1>4. ASSUME NEW j \in JobId, NEW k \in Key \cup {NoKey}, NEW p \in Posts, GetOrCreate(j, k, p)
      PROVE  LifecycleConsistent'
  BY <1>1, <1>2, <1>4, NewLifecycle DEF GetOrCreate
<1>5. ASSUME NEW k \in Key \cup {NoKey}, RejectForCapacity(k)
      PROVE  LifecycleConsistent'
  BY <1>1, <1>5 DEF RejectForCapacity, LifecycleConsistent, Lifecycle, Timestamps, Outcome
<1>6. ASSUME NEW j \in JobId, NEW job \in Importable, Add(j, job)
      PROVE  LifecycleConsistent'
  BY <1>1, <1>2, <1>6, NewLifecycle DEF Add
<1>7. ASSUME NEW j \in Stored, NEW s \in Status, NEW res \in BOOLEAN, NEW err \in BOOLEAN,
             Transition(j, s, res, err)
      PROVE  LifecycleConsistent'
  <2> DEFINE m == Moved(jobs[j], s, res, err)
  <2>1. jobs' = [jobs EXCEPT ![j] = m] /\ clock' = clock
    BY <1>7 DEF Transition
  <2>2. Lifecycle(m)
    BY <1>1, <1>7, MovedLifecycle DEF Transition
  <2> HIDE DEF m
  <2>3. \A i \in DOMAIN jobs' : jobs'[i] = m \/ (i \in DOMAIN jobs /\ jobs'[i] = jobs[i])
    BY <2>1
  <2>4. \A i \in DOMAIN jobs' : Lifecycle(jobs'[i])
    BY <1>1, <2>2, <2>3
  <2> QED
    BY <2>1, <2>4 DEF LifecycleConsistent, Lifecycle, Timestamps, Outcome
<1>8. CASE CleanupExpired
  BY <1>3, <1>8 DEF CleanupExpired
<1>9. ASSUME NEW j \in Stored, Delete(j)
      PROVE  LifecycleConsistent'
  BY <1>3, <1>9 DEF Delete
<1>10. CASE Tick
  <2>1. clock' = clock + 1 /\ jobs' = jobs
    BY <1>10 DEF Tick
  <2>2. \A i \in Stored : jobs[i].created \in Int /\ jobs[i].started \in Int /\ jobs[i].completed \in Int
    BY <1>1 DEF Job, Stamp, Unset
  <2> QED
    BY <1>1, <2>1, <2>2 DEF LifecycleConsistent, Lifecycle, Timestamps, Outcome
<1>11. CASE UNCHANGED storeVars
  BY <1>1, <1>11 DEF storeVars, LifecycleConsistent, Lifecycle, Timestamps, Outcome
<1> QED
  BY <1>4, <1>5, <1>6, <1>7, <1>8, <1>9, <1>10, <1>11 DEF StoreNext

\* What a client polls is consistent, and every terminal job can be expired.
THEOREM StoreLifecycleConsistent == StoreSpec => []LifecycleConsistent
<1>1. StoreInit => LifecycleInv
  BY StoreInitInv DEF StoreInit, LifecycleInv, LifecycleConsistent
<1>2. LifecycleInv /\ [StoreNext]_storeVars => LifecycleInv'
  BY StoreStepInv, LifecycleStep DEF LifecycleInv
<1> QED
  BY <1>1, <1>2, PTL DEF StoreSpec, LifecycleInv

-----------------------------------------------------------------------------
(***************************************************************************)
(* Capacity.                                                               *)
(***************************************************************************)
CapacityInv == IsFiniteSet(Stored) /\ StoreBounded

\* A job is inserted only after room was made for it.
LEMMA InsertWithinCapacity ==
  ASSUME CapacityInv, NEW j, NEW job, j \notin Stored, Insert(j, job)
  PROVE  CapacityInv'
<1>1. PICK gone \in Evictions : jobs' = Put(Drop(jobs, gone), j, job)
  BY DEF Insert
<1>2. DOMAIN jobs' = (DOMAIN jobs \ gone) \cup {j}
  BY <1>1 DEF Put, Drop, Restrict
<1>3. /\ IsFiniteSet(DOMAIN jobs) /\ Cardinality(DOMAIN jobs) <= MaxJobs
      /\ Cardinality(DOMAIN jobs) \in Nat /\ MaxJobs \in Nat
  BY JobStoreAssumption, FS_CardinalityType DEF CapacityInv, StoreBounded
<1>4. IsFiniteSet(DOMAIN jobs \ gone) /\ Cardinality(DOMAIN jobs \ gone) < MaxJobs
  <2>1. CASE Cardinality(DOMAIN jobs) < MaxJobs
    <3>1. gone = {}
      BY <2>1 DEF Evictions
    <3>2. DOMAIN jobs \ gone = DOMAIN jobs
      BY <3>1
    <3> QED
      BY <1>3, <2>1, <3>2
  <2>2. CASE ~(Cardinality(DOMAIN jobs) < MaxJobs)
    <3>1. PICK v \in DOMAIN jobs : gone = {v}
      BY <2>2 DEF Evictions, Finished
    <3>2. /\ IsFiniteSet(DOMAIN jobs \ {v})
          /\ Cardinality(DOMAIN jobs \ {v}) = Cardinality(DOMAIN jobs) - 1
      BY <1>3, FS_RemoveElement
    <3> QED
      BY <1>3, <3>1, <3>2
  <2> QED
    BY <2>1, <2>2
<1>5. Cardinality(DOMAIN jobs \ gone) \in Nat
  BY <1>4, FS_CardinalityType
<1>6. IsFiniteSet(DOMAIN jobs') /\ Cardinality(DOMAIN jobs') <= Cardinality(DOMAIN jobs \ gone) + 1
  <2> DEFINE rest == DOMAIN jobs \ gone
  <2>1. IsFiniteSet(rest) /\ Cardinality(rest) \in Nat /\ DOMAIN jobs' = rest \cup {j}
    BY <1>2, <1>4, <1>5
  <2> HIDE DEF rest
  <2>2. /\ IsFiniteSet(rest \cup {j})
        /\ Cardinality(rest \cup {j}) = IF j \in rest THEN Cardinality(rest)
                                         ELSE Cardinality(rest) + 1
    BY <2>1, FS_AddElement
  <2> QED
    BY <2>1, <2>2 DEF rest
<1>7. Cardinality(DOMAIN jobs') \in Nat
  BY <1>6, FS_CardinalityType
<1> QED
  BY <1>3, <1>4, <1>5, <1>6, <1>7 DEF CapacityInv, StoreBounded

LEMMA CapacityStep ==
  ASSUME CapacityInv, [StoreNext]_storeVars
  PROVE  CapacityInv'
<1>1. ASSUME DOMAIN jobs' \subseteq DOMAIN jobs
      PROVE  CapacityInv'
  <2>1. /\ IsFiniteSet(DOMAIN jobs') /\ Cardinality(DOMAIN jobs') <= Cardinality(DOMAIN jobs)
        /\ Cardinality(DOMAIN jobs') \in Nat /\ Cardinality(DOMAIN jobs) \in Nat
    BY <1>1, FS_Subset, FS_CardinalityType DEF CapacityInv
  <2> QED
    BY <2>1, JobStoreAssumption DEF CapacityInv, StoreBounded
<1>2. ASSUME NEW j \in JobId, NEW k \in Key \cup {NoKey}, NEW p \in Posts, GetOrCreate(j, k, p)
      PROVE  CapacityInv'
  BY <1>2, InsertWithinCapacity DEF GetOrCreate
<1>3. ASSUME NEW k \in Key \cup {NoKey}, RejectForCapacity(k)
      PROVE  CapacityInv'
  BY <1>1, <1>3 DEF RejectForCapacity
<1>4. ASSUME NEW j \in JobId, NEW job \in Importable, Add(j, job)
      PROVE  CapacityInv'
  BY <1>4, InsertWithinCapacity DEF Add
<1>5. ASSUME NEW j \in Stored, NEW s \in Status, NEW res \in BOOLEAN, NEW err \in BOOLEAN,
             Transition(j, s, res, err)
      PROVE  CapacityInv'
  BY <1>1, <1>5 DEF Transition
<1>6. CASE CleanupExpired
  BY <1>1, <1>6 DEF CleanupExpired, Drop, Restrict
<1>7. ASSUME NEW j \in Stored, Delete(j)
      PROVE  CapacityInv'
  BY <1>1, <1>7 DEF Delete, Drop, Restrict
<1>8. CASE Tick
  BY <1>1, <1>8 DEF Tick
<1>9. CASE UNCHANGED storeVars
  BY <1>1, <1>9 DEF storeVars
<1> QED
  BY <1>2, <1>3, <1>4, <1>5, <1>6, <1>7, <1>8, <1>9 DEF StoreNext

LEMMA StoreCapacity == StoreSpec => []CapacityInv
<1>1. StoreInit => CapacityInv
  <2> SUFFICES ASSUME StoreInit PROVE CapacityInv
    OBVIOUS
  <2>1. DOMAIN jobs = {}
    BY DEF StoreInit
  <2>2. IsFiniteSet({}) /\ Cardinality({}) = 0
    BY FS_EmptySet
  <2> QED
    BY <2>1, <2>2, JobStoreAssumption DEF CapacityInv, StoreBounded
<1>2. CapacityInv /\ [StoreNext]_storeVars => CapacityInv'
  BY CapacityStep
<1> QED
  BY <1>1, <1>2, PTL DEF StoreSpec

\* The dictionaries of the store always hold what their annotations say, and it
\* never holds more than max_jobs, even when it is full of jobs it may not evict.
THEOREM StoreTypeCorrect == StoreSpec => []StoreTypeOK
<1>1. StoreInv /\ CapacityInv => StoreTypeOK
  BY DEF CapacityInv, StoreInv, StoreTypeOK
<1> QED
  BY <1>1, StoreCapacity, StoreInvariance, PTL

-----------------------------------------------------------------------------
(***************************************************************************)
(* What no step of the store does.                                         *)
(***************************************************************************)
\* What a job that stays is after a step, of what it was.
Grows(old, new) ==
  /\ Rank[old.status] <= Rank[new.status]
  /\ old.status \in Terminal => new.status = old.status
  /\ new.key = old.key /\ new.created = old.created
  /\ old.started # Unset => new.started = old.started
  /\ old.result => new.result

LEMMA SameGrows ==
  ASSUME NEW job \in Job
  PROVE  Grows(job, job)
<1>1. job.status \in Status
  BY DEF Job
<1>2. \A s \in Status : Rank[s] \in Nat
  BY DEF Rank, Status
<1> QED
  BY <1>1, <1>2 DEF Grows

\* The table of transitions leads forward only.
LEMMA AllowedAdvances ==
  ASSUME NEW s \in Status, NEW next \in Allowed[s] \cup {s}
  PROVE  Rank[s] <= Rank[next] /\ (s \in Terminal => next = s)
<1>1. /\ Rank["queued"] = 0 /\ Rank["fetching_context"] = 1 /\ Rank["reviewing"] = 2
      /\ Rank["validating"] = 3 /\ Rank["posting"] = 4
      /\ Rank["completed"] = 5 /\ Rank["failed"] = 5
  BY DEF Rank, Status
<1>2. /\ Allowed["queued"] = {"fetching_context", "failed"}
      /\ Allowed["fetching_context"] = {"reviewing", "failed"}
      /\ Allowed["reviewing"] = {"validating", "posting", "completed", "failed"}
      /\ Allowed["validating"] = {"posting", "completed", "failed"}
      /\ Allowed["posting"] = {"completed", "failed"}
      /\ Allowed["completed"] = {} /\ Allowed["failed"] = {}
  BY DEF Allowed, Status
<1>3. CASE s \in Terminal
  BY <1>1, <1>2, <1>3 DEF Terminal
<1>4. CASE s = "queued"
  BY <1>1, <1>2, <1>4 DEF Terminal
<1>5. CASE s = "fetching_context"
  BY <1>1, <1>2, <1>5 DEF Terminal
<1>6. CASE s = "reviewing"
  BY <1>1, <1>2, <1>6 DEF Terminal
<1>7. CASE s = "validating"
  BY <1>1, <1>2, <1>7 DEF Terminal
<1>8. CASE s = "posting"
  BY <1>1, <1>2, <1>8 DEF Terminal
<1> QED
  BY <1>3, <1>4, <1>5, <1>6, <1>7, <1>8 DEF Status, Terminal

LEMMA MovedGrows ==
  ASSUME NEW job \in Job, NEW next \in Allowed[job.status] \cup {job.status}, NEW res, NEW err
  PROVE  Grows(job, Moved(job, next, res, err))
<1> DEFINE m == Moved(job, next, res, err)
<1>1. /\ m.status = next /\ m.key = job.key /\ m.created = job.created
      /\ job.started # Unset => m.started = job.started
      /\ job.result => m.result
  BY DEF Moved
<1>2. job.status \in Status
  BY DEF Job
<1> HIDE DEF m
<1>3. Grows(job, m)
  BY <1>1, <1>2, AllowedAdvances DEF Grows
<1> QED
  BY <1>3 DEF m

LEMMA HistoryStep ==
  ASSUME StoreTypes, [StoreNext]_storeVars
  PROVE  \A j \in Stored \cap Stored' : Grows(jobs[j], jobs'[j])
<1>1. \A j \in Stored : jobs[j] \in Job /\ Grows(jobs[j], jobs[j])
  BY SameGrows DEF StoreTypes
<1>2. ASSUME \A j \in Stored \cap Stored' : jobs'[j] = jobs[j]
      PROVE  \A j \in Stored \cap Stored' : Grows(jobs[j], jobs'[j])
  BY <1>1, <1>2
<1>3. ASSUME NEW j, NEW job, j \notin Stored, Insert(j, job)
      PROVE  \A i \in Stored \cap Stored' : jobs'[i] = jobs[i]
  <2>1. PICK gone : jobs' = Put(Drop(jobs, gone), j, job)
    BY <1>3 DEF Insert
  <2>2. \A i \in DOMAIN jobs' : i = j \/ (i \in DOMAIN jobs /\ jobs'[i] = jobs[i])
    BY <2>1 DEF Put, Drop, Restrict
  <2> QED
    BY <1>3, <2>2
<1>4. ASSUME NEW S, jobs' = Drop(jobs, S)
      PROVE  \A i \in Stored \cap Stored' : jobs'[i] = jobs[i]
  BY <1>4 DEF Drop, Restrict
<1>5. ASSUME NEW j \in Stored, NEW s, NEW res, NEW err, Transition(j, s, res, err)
      PROVE  \A i \in Stored \cap Stored' : Grows(jobs[i], jobs'[i])
  <2> DEFINE m == Moved(jobs[j], s, res, err)
  <2>1. jobs' = [jobs EXCEPT ![j] = m]
    BY <1>5 DEF Transition
  <2>2. Grows(jobs[j], m)
    BY <1>1, <1>5, MovedGrows DEF Transition
  <2> HIDE DEF m
  <2>3. jobs'[j] = m /\ \A i \in Stored \ {j} : jobs'[i] = jobs[i]
    BY <2>1
  <2> QED
    BY <1>1, <2>2, <2>3
<1>6. ASSUME NEW j, NEW k, NEW p, GetOrCreate(j, k, p)
      PROVE  \A i \in Stored \cap Stored' : jobs'[i] = jobs[i]
  BY <1>3, <1>6 DEF GetOrCreate
<1>7. ASSUME NEW j, NEW job, Add(j, job)
      PROVE  \A i \in Stored \cap Stored' : jobs'[i] = jobs[i]
  BY <1>3, <1>7 DEF Add
<1>8. ASSUME CleanupExpired \/ \E j \in Stored : Delete(j)
      PROVE  \A i \in Stored \cap Stored' : jobs'[i] = jobs[i]
  BY <1>4, <1>8 DEF CleanupExpired, Delete
<1>9. ASSUME UNCHANGED jobs
      PROVE  \A i \in Stored \cap Stored' : jobs'[i] = jobs[i]
  BY <1>9
<1>10. (\E k : RejectForCapacity(k)) \/ Tick \/ UNCHANGED storeVars => UNCHANGED jobs
  BY DEF RejectForCapacity, Tick, storeVars
<1> QED
  BY <1>2, <1>5, <1>6, <1>7, <1>8, <1>9, <1>10 DEF StoreNext

\* A job never goes back, and what it is about never changes, under any sequence of
\* the store's operations.
THEOREM StoreHistoryOnlyGrows == StoreSpec => HistoryOnlyGrows
<1> DEFINE Growing ==
      \A j \in Stored \cap Stored' :
        /\ Rank[jobs[j].status] <= Rank[jobs'[j].status]
        /\ jobs[j].status \in Terminal => jobs'[j].status = jobs[j].status
        /\ jobs'[j].key = jobs[j].key /\ jobs'[j].created = jobs[j].created
        /\ jobs[j].started # Unset => jobs'[j].started = jobs[j].started
        /\ jobs[j].result => jobs'[j].result
<1>1. StoreInv /\ [StoreNext]_storeVars => [Growing]_storeVars
  BY HistoryStep DEF StoreInv, Grows
<1> QED
  BY <1>1, StoreInvariance, PTL DEF StoreSpec, HistoryOnlyGrows

\* Only an insertion takes and gives, and what it takes was to be evicted.
LEMMA EvictionStep ==
  ASSUME LifecycleInv, CapacityInv, [StoreNext]_storeVars,
         NEW j \in Stored, j \notin Stored', Stored' \ Stored # {}
  PROVE  /\ Cardinality(Stored) = MaxJobs
         /\ ~Active(j)
         /\ \A i \in Stored \cap Stored' : ~Active(i) => jobs[j].completed <= jobs[i].completed
<1>1. \E h \in JobId : \E job : Insert(h, job)
  <2>1. ASSUME Stored' \subseteq Stored PROVE FALSE
    BY <2>1
  <2>2. CleanupExpired \/ (\E h \in Stored : Delete(h)) => Stored' \subseteq Stored
    BY DEF CleanupExpired, Delete, Drop, Restrict
  <2>3. (\E h, s, res, err : Transition(h, s, res, err)) => Stored' = Stored
    BY DEF Transition
  <2>4. (\E k : RejectForCapacity(k)) \/ Tick \/ UNCHANGED storeVars => Stored' = Stored
    BY DEF RejectForCapacity, Tick, storeVars
  <2> QED
    BY <2>1, <2>2, <2>3, <2>4 DEF StoreNext, GetOrCreate, Add
<1>2. PICK h, job : Insert(h, job)
  BY <1>1
<1>3. PICK gone \in Evictions : jobs' = Put(Drop(jobs, gone), h, job)
  BY <1>2 DEF Insert
<1>4. j \in gone
  BY <1>3 DEF Put, Drop, Restrict
<1>5. ~(Cardinality(Stored) < MaxJobs)
  BY <1>4 DEF Evictions
<1>6. j \in Finished /\ \A i \in Finished : OlderOrEqual(j, i)
  BY <1>4, <1>5 DEF Evictions
<1>7. Cardinality(Stored) = MaxJobs
  <2>1. Cardinality(Stored) \in Nat /\ Cardinality(Stored) <= MaxJobs /\ MaxJobs \in Nat
    BY FS_CardinalityType, JobStoreAssumption DEF CapacityInv, StoreBounded
  <2> QED
    BY <1>5, <2>1
<1>8. ASSUME NEW i \in Stored, ~Active(i) PROVE jobs[j].completed <= jobs[i].completed
  <2>1. i \in Finished
    BY <1>8 DEF Active, Finished, LifecycleInv, LifecycleConsistent, Timestamps
  <2>2. jobs[j].completed \in Int /\ jobs[i].completed \in Int
    BY DEF LifecycleInv, StoreInv, StoreTypes, Job, Stamp, Unset
  <2> QED
    BY <1>6, <2>1, <2>2 DEF OlderOrEqual
<1> QED
  BY <1>6, <1>7, <1>8 DEF Finished, Active

\* Whatever the capacity, a job is evicted only from a full store, and only if it is
\* terminal and none that stays finished before it.
THEOREM StoreEvictsOldestTerminal == StoreSpec => EvictsOldestTerminal
<1> DEFINE Evicting ==
      \A j \in Stored :
        j \notin Stored' /\ Stored' \ Stored # {} =>
          /\ Cardinality(Stored) = MaxJobs
          /\ ~Active(j)
          /\ \A i \in Stored \cap Stored' :
               ~Active(i) => jobs[j].completed <= jobs[i].completed
<1>1. LifecycleInv /\ CapacityInv /\ [StoreNext]_storeVars => [Evicting]_storeVars
  BY EvictionStep
<1> QED
  BY <1>1, StoreInvariance, StoreLifecycleConsistent, StoreCapacity, PTL
  DEF StoreSpec, LifecycleInv, EvictsOldestTerminal
=============================================================================
