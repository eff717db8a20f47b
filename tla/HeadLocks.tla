------------------------------ MODULE HeadLocks -----------------------------
(***************************************************************************)
(* What the job store promises about pull-request heads, without jobs,     *)
(* timestamps, eviction or an index: every head is a lock.  A job that is  *)
(* created takes the lock of its head, and only a free lock can be taken;  *)
(* a job that finishes, or is withdrawn, frees it.                         *)
(***************************************************************************)
CONSTANTS Head,  \* the pull-request heads
          Owner  \* who may hold one

VARIABLE holders  \* head -> the set of its holders

TypeOK == holders \in [Head -> SUBSET Owner]

Init == holders = [h \in Head |-> {}]

Acquire(h, o) == holders[h] = {} /\ holders' = [holders EXCEPT ![h] = {o}]

Free(h) == holders[h] # {} /\ holders' = [holders EXCEPT ![h] = {}]

Next == \E h \in Head : (\E o \in Owner : Acquire(h, o)) \/ Free(h)

Spec == Init /\ [][Next]_holders

\* Mutual exclusion on every head.
Exclusive == \A h \in Head : \A o, p \in holders[h] : o = p
=============================================================================
