---------------------------- MODULE WebhookRoute ----------------------------
(***************************************************************************)
(* The routes by which jobs come in (src/src/pullsage/api/routes/):        *)
(* GitHub's deliveries (webhooks.py), which are remembered in a            *)
(* DeliveryCache so that a repeated one is not queued again, and manual    *)
(* requests (reviews.py), over the review queue.                           *)
(*                                                                         *)
(* A delivery gets here once it is authentic and about a pull request that *)
(* is to be reviewed; any other changes nothing.                           *)
(***************************************************************************)
EXTENDS ReviewQueue, ExpiringCache

CONSTANTS Delivery,       \* values of X-GitHub-Delivery
          NoDelivery,     \* a manual request has none
          Client,         \* HTTP requests
          MaxDeliveries,  \* max_entries of the cache
          DeliveryTTL     \* ttl_seconds of the cache

ASSUME WebhookRouteAssumption ==
  /\ NoDelivery \notin Delivery
  /\ MaxDeliveries \in Nat \ {0} /\ DeliveryTTL \in Nat \ {0}

VARIABLES
  deliveries,  \* the DeliveryCache
  client       \* the HTTP requests

webVars == <<deliveries, client>>
allVars == <<vars, webVars>>

-----------------------------------------------------------------------------
(***************************************************************************)
(* A request is "locating" the head (manual), "pending" until it has the   *)
(* lifecycle lock, and "admitting".  It is answered "accepted", "known" (a *)
(* job for this head is active), "duplicate" (the delivery is remembered), *)
(* "unavailable" or "failed".  `at` is a history variable, the time of the *)
(* check of the cache.                                                     *)
(***************************************************************************)
Answered == {"accepted", "known", "duplicate", "unavailable", "failed"}

NewClient == [pc |-> "none", id |-> NoDelivery, asks |-> {}, at |-> 0]

WebInit ==
  /\ Init
  /\ deliveries = <<>>
  /\ client = [c \in Client |-> NewClient]

Set(c, record) == client' = [client EXCEPT ![c] = record]

\* The request is answered, and the coroutine ends with what it knew.
Respond(c, answer) == Set(c, [client[c] EXCEPT !.pc = answer, !.asks = {}])

\* DeliveryCache.discard
Forget(d) == deliveries' = Without(deliveries, d)

\* github_webhook: is_running, then check_and_store.
Deliver(c, d, r) ==
  /\ client[c].pc = "none"
  /\ LET live == Prune(deliveries, clock)
         new  == [pc |-> "pending", id |-> d, asks |-> {r}, at |-> clock]
     IN IF ~is_running
          THEN Respond(c, "unavailable") /\ UNCHANGED deliveries
        ELSE IF d \in Keys(live)
          THEN Respond(c, "duplicate") /\ deliveries' = live
          ELSE /\ Set(c, new)
               /\ deliveries' = Remember(live, d, clock + DeliveryTTL, MaxDeliveries)
  /\ UNCHANGED vars

\* create_review: is_running.
Ask(c) ==
  /\ client[c].pc = "none"
  /\ IF is_running THEN Set(c, [NewClient EXCEPT !.pc = "locating"])
                    ELSE Respond(c, "unavailable")
  /\ UNCHANGED <<vars, deliveries>>

\* create_review: get_pull_request answers, or fails.
Located(c, r) ==
  /\ client[c].pc = "locating"
  /\ \/ Set(c, [client[c] EXCEPT !.pc = "pending", !.asks = {r}])
     \/ Respond(c, "failed")
  /\ UNCHANGED <<vars, deliveries>>

\* enqueue_with_status: the lock is acquired and the queue runs.
Enter(c) ==
  /\ client[c].pc = "pending"
  /\ \E r \in client[c].asks : Admit(r)
  /\ Set(c, [client[c] EXCEPT !.pc = "admitting"])
  /\ UNCHANGED deliveries

\* enqueue_with_status raised: the delivery is forgotten.
Fails(c) == Forget(client[c].id) /\ Respond(c, "failed")

\* The lock is acquired and the queue does not run: WorkerShutdownError.
TurnAway(c) ==
  /\ client[c].pc = "pending"
  /\ LockFree /\ ~is_running
  /\ Fails(c)
  /\ UNCHANGED vars

\* Mutant: a delivery whose job did not fit stays in the cache.
Conclude_KeepsRefused(c) ==
  /\ client[c].pc = "admitting"
  /\ \/ /\ \E j \in JobId : Enqueue(j)
        /\ IF refused' = NoJob THEN Respond(c, "accepted") ELSE UNCHANGED client
        /\ UNCHANGED deliveries
     \/ Deduplicate /\ Respond(c, "known") /\ UNCHANGED deliveries
     \/ (Reject \/ Withdraw) /\ Respond(c, "failed") /\ UNCHANGED deliveries

\* Mutant: a delivery for a head with an active job is not remembered.
Conclude_ForgetsKnown(c) ==
  /\ client[c].pc = "admitting"
  /\ \/ /\ \E j \in JobId : Enqueue(j)
        /\ IF refused' = NoJob THEN Respond(c, "accepted") ELSE UNCHANGED client
        /\ UNCHANGED deliveries
     \/ Deduplicate /\ Respond(c, "known") /\ Forget(client[c].id)
     \/ (Reject \/ Withdraw) /\ Fails(c)

\* enqueue_with_status creates a job, finds one, or raises ReviewCapacityError.
Conclude(c) ==
  /\ client[c].pc = "admitting"
  /\ \/ /\ \E j \in JobId : Enqueue(j)
        /\ IF refused' = NoJob THEN Respond(c, "accepted") ELSE UNCHANGED client
        /\ UNCHANGED deliveries
     \/ Deduplicate /\ Respond(c, "known") /\ UNCHANGED deliveries
     \/ (Reject \/ Withdraw) /\ Fails(c)

-----------------------------------------------------------------------------
ClientStep(c) == Enter(c) \/ TurnAway(c) \/ Conclude(c)

QueueStep == Start \/ StopBegin \/ StopStep \/ Cleanup \/ Time \/ \E w \in Worker : WorkerStep(w)

\* A request of webhooks or of manual clients names a head.
HeadRequest == {r \in Request : r.key # NoKey}

WebNext ==
  \/ \E c \in Client, r \in HeadRequest :
       Ask(c) \/ Located(c, r) \/ \E d \in Delivery : Deliver(c, d, r)
  \/ \E c \in Client : ClientStep(c)
  \/ QueueStep /\ UNCHANGED webVars

WebSpec == WebInit /\ [][WebNext]_allVars

-----------------------------------------------------------------------------
(***************************************************************************)
(* What the routes promise.                                                *)
(***************************************************************************)
\* No delivery is lost: one that is remembered, and would be answered with
\* "already processed", is in the queue's hands or on its way there.  A refusal
\* of the store, of the queue, or because of a shutdown makes room for GitHub's
\* redelivery.  The cache keeps to its size and to the order of expiry.
RememberedIsAdmitted ==
  /\ \A d \in Keys(deliveries) : \E c \in Client :
       client[c].id = d /\ client[c].pc \in {"pending", "admitting", "accepted", "known"}
  /\ Len(deliveries) <= MaxDeliveries /\ Orderly(deliveries)

\* "A repeated ID is not queued again while cached": a delivery reaches the
\* queue twice only if it has expired, or as many others as the cache holds came
\* in, or a third copy of it failed and took its entry with it.
AdmittedOnce ==
  \A b, c \in Client :
    /\ b # c /\ client[b].id = client[c].id /\ client[b].id # NoDelivery
    /\ {client[b].pc, client[c].pc} \subseteq {"accepted", "known"}
    /\ client[b].at <= client[c].at /\ client[c].at < client[b].at + DeliveryTTL
    /\ Cardinality({client[x].id : x \in Client} \ {NoDelivery, client[b].id}) < MaxDeliveries
    => \E x \in Client : client[x].id = client[b].id /\ client[x].pc = "failed"
=============================================================================
