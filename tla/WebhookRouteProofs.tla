------------------------- MODULE WebhookRouteProofs -------------------------
(***************************************************************************)
(* The routes drive the review queue only through its admission, so that   *)
(* what is proved of the queue, and of the store under it, holds for the   *)
(* server as a whole, whatever is delivered, repeated and refused.  The    *)
(* cache of deliveries loses none, and lets one in twice for three reasons *)
(* only.                                                                   *)
(***************************************************************************)
EXTENDS WebhookRoute, ReviewQueueProofs, ExpiringCacheProofs

-----------------------------------------------------------------------------
(***************************************************************************)
(* What a client asks for is set once, from the request, and cleared when  *)
(* it is answered: whoever gets the lock asks for a head of the model.     *)
(***************************************************************************)
AskInv ==
  /\ DOMAIN client = Client
  /\ \A c \in Client : /\ {"pc", "id", "asks", "at"} \subseteq DOMAIN client[c]
                       /\ client[c].asks \subseteq Request

\* A record may replace a client's if it asks for nothing new.
LEMMA SetKeepsAsks ==
  ASSUME AskInv, NEW c \in Client, NEW record, Set(c, record),
         {"pc", "id", "asks", "at"} \subseteq DOMAIN record, record.asks \subseteq Request
  PROVE  AskInv'
BY DEF AskInv, Set

LEMMA RespondKeepsAsks ==
  ASSUME AskInv, NEW c \in Client, NEW answer, Respond(c, answer)
  PROVE  AskInv'
<1> DEFINE record == [client[c] EXCEPT !.pc = answer, !.asks = {}]
<1>1. Set(c, record)
  BY DEF Respond
<1>2. DOMAIN record = DOMAIN client[c] /\ record.asks = {}
  BY DEF AskInv
<1>3. {"pc", "id", "asks", "at"} \subseteq DOMAIN record
  BY <1>2 DEF AskInv
<1> HIDE DEF record
<1> QED
  BY <1>1, <1>2, <1>3, SetKeepsAsks

LEMMA RouteKeepsAsks ==
  ASSUME AskInv, [WebNext]_allVars
  PROVE  AskInv'
<1>1. ASSUME NEW c \in Client, NEW d \in Delivery, NEW r \in HeadRequest, Deliver(c, d, r)
      PROVE  AskInv'
  <2> DEFINE new == [pc |-> "pending", id |-> d, asks |-> {r}, at |-> clock]
  <2>1. Respond(c, "unavailable") \/ Respond(c, "duplicate") \/ Set(c, new)
    BY <1>1 DEF Deliver
  <2>2. {"pc", "id", "asks", "at"} \subseteq DOMAIN new /\ new.asks \subseteq Request
    BY DEF HeadRequest
  <2> HIDE DEF new
  <2> QED
    BY <2>1, <2>2, SetKeepsAsks, RespondKeepsAsks
<1>2. ASSUME NEW c \in Client, Ask(c) PROVE AskInv'
  <2> DEFINE new == [NewClient EXCEPT !.pc = "locating"]
  <2>1. Respond(c, "unavailable") \/ Set(c, new)
    BY <1>2 DEF Ask
  <2>2. {"pc", "id", "asks", "at"} \subseteq DOMAIN new /\ new.asks \subseteq Request
    BY DEF NewClient
  <2> HIDE DEF new
  <2> QED
    BY <2>1, <2>2, SetKeepsAsks, RespondKeepsAsks
<1>3. ASSUME NEW c \in Client, NEW r \in HeadRequest, Located(c, r) PROVE AskInv'
  <2> DEFINE new == [client[c] EXCEPT !.pc = "pending", !.asks = {r}]
  <2>1. Respond(c, "failed") \/ Set(c, new)
    BY <1>3 DEF Located
  <2>2. DOMAIN new = DOMAIN client[c] /\ new.asks = {r}
    BY DEF AskInv
  <2>3. {"pc", "id", "asks", "at"} \subseteq DOMAIN new /\ new.asks \subseteq Request
    BY <2>2 DEF AskInv, HeadRequest
  <2> HIDE DEF new
  <2> QED
    BY <2>1, <2>3, SetKeepsAsks, RespondKeepsAsks
<1>4. ASSUME NEW c \in Client, Enter(c) PROVE AskInv'
  <2> DEFINE new == [client[c] EXCEPT !.pc = "admitting"]
  <2>1. Set(c, new)
    BY <1>4 DEF Enter
  <2>2. DOMAIN new = DOMAIN client[c] /\ new.asks = client[c].asks
    BY DEF AskInv
  <2>3. {"pc", "id", "asks", "at"} \subseteq DOMAIN new /\ new.asks \subseteq Request
    BY <2>2 DEF AskInv
  <2> HIDE DEF new
  <2> QED
    BY <2>1, <2>3, SetKeepsAsks
<1>5. ASSUME NEW c \in Client, TurnAway(c) \/ Conclude(c) PROVE AskInv'
  <2>1. (\E answer \in Answered : Respond(c, answer)) \/ UNCHANGED client
    BY <1>5 DEF TurnAway, Conclude, Fails, Answered
  <2> QED
    BY <2>1, RespondKeepsAsks DEF AskInv
<1>6. CASE UNCHANGED client
  BY <1>6 DEF AskInv
<1> QED
  BY <1>1, <1>2, <1>3, <1>4, <1>5, <1>6 DEF WebNext, ClientStep, webVars, allVars

-----------------------------------------------------------------------------
\* One step per action of the routes: a step of the queue, or none.
LEMMA RouteStepsQueue ==
  ASSUME AskInv, [WebNext]_allVars
  PROVE  [Next]_vars
<1>1. ASSUME NEW c \in Client, NEW r, Ask(c) \/ Located(c, r) \/ \E d \in Delivery : Deliver(c, d, r)
      PROVE  UNCHANGED vars
  BY <1>1 DEF Ask, Located, Deliver
<1>2. ASSUME NEW c \in Client, Enter(c) PROVE Next
  BY <1>2 DEF Enter, AskInv, Next
<1>3. ASSUME NEW c \in Client, TurnAway(c) PROVE UNCHANGED vars
  BY <1>3 DEF TurnAway
<1>4. ASSUME NEW c \in Client, Conclude(c) PROVE Next
  BY <1>4 DEF Conclude, Next, EntryStep
<1>5. CASE QueueStep
  BY <1>5 DEF QueueStep, Next
<1>6. CASE UNCHANGED allVars
  BY <1>6 DEF allVars
<1> QED
  BY <1>1, <1>2, <1>3, <1>4, <1>5, <1>6 DEF WebNext, ClientStep

\* Every run of the server, with its webhooks, its manual requests and its cache
\* of deliveries, is a run of the review queue.
THEOREM RoutesImplementQueue == WebSpec => Spec
<1>1. WebInit => Init /\ AskInv
  BY DEF WebInit, AskInv, NewClient
<1> QED
  BY <1>1, RouteKeepsAsks, RouteStepsQueue, PTL DEF WebSpec, Spec

\* However deliveries and manual requests race, at most one job is active for a
\* pull-request head.
THEOREM RoutesUniqueActive == WebSpec => []UniqueActive
  BY RoutesImplementQueue, QueueUniqueActive, PTL

-----------------------------------------------------------------------------
(***************************************************************************)
(* The cache of deliveries.  A request has the delivery it came with, and  *)
(* until it is answered with an error the delivery is in its hands.  What  *)
(* is remembered is in some request's hands.                               *)
(***************************************************************************)
InHand == {"pending", "admitting", "accepted", "known"}

Ids == {client[c].id : c \in Client} \ {NoDelivery}

ClientInv ==
  /\ \A c \in Client : /\ client[c].id \in Delivery \cup {NoDelivery}
                       /\ client[c].pc \in {"none", "locating"} => client[c].id = NoDelivery
                       /\ client[c].at \in Nat /\ client[c].at <= clock
  /\ IsFiniteSet(Ids)

DeliveryInv ==
  /\ deliveries \in Seq(EntryOf(Delivery)) /\ Len(deliveries) <= MaxDeliveries
  /\ Orderly(deliveries)
  /\ \A e \in Entries(deliveries) :
       /\ e.expiry <= clock + DeliveryTTL
       /\ \E c \in Client : client[c].id = e.key /\ client[c].pc \in InHand

(***************************************************************************)
(* A step of the routes moves one request on, with its delivery, or none:  *)
(* the request goes on, is found to repeat one, fails, or brings in a      *)
(* delivery.                                                               *)
(***************************************************************************)
Moves(c) ==
  /\ DOMAIN client' = Client /\ \A b \in Client \ {c} : client'[b] = client[b]
  /\ client'[c].id = client[c].id
  /\ \/ client'[c].at = client[c].at
     \/ client'[c].at = 0 /\ client[c].id = NoDelivery
  /\ client[c].pc # "failed"
  /\ client'[c].pc \in {"none", "locating"} => client[c].id = NoDelivery

GoesOn(c) ==
  /\ Moves(c) /\ deliveries' = deliveries
  /\ client[c].id # NoDelivery => client[c].pc \in InHand /\ client'[c].pc \in InHand

Repeats(c) ==
  /\ Moves(c) /\ deliveries' = Prune(deliveries, clock)
  /\ client[c].id = NoDelivery

FailsNow(c) ==
  /\ Moves(c) /\ deliveries' = Without(deliveries, client[c].id)
  /\ client'[c].pc = "failed"

Arrives(c, d) ==
  /\ DOMAIN client' = Client /\ \A b \in Client \ {c} : client'[b] = client[b]
  /\ client[c].pc = "none" /\ client[c].id = NoDelivery
  /\ client'[c].pc = "pending" /\ client'[c].id = d /\ client'[c].at = clock
  /\ d \notin Keys(Prune(deliveries, clock))
  /\ deliveries' = Remember(Prune(deliveries, clock), d, clock + DeliveryTTL, MaxDeliveries)

LEMMA Responds ==
  ASSUME AskInv, NEW c \in Client, NEW answer, Respond(c, answer)
  PROVE  /\ DOMAIN client' = Client /\ \A b \in Client \ {c} : client'[b] = client[b]
         /\ client'[c].pc = answer
         /\ client'[c].id = client[c].id /\ client'[c].at = client[c].at
BY DEF AskInv, Respond, Set

LEMMA RouteShapes ==
  ASSUME AskInv, ClientInv, [WebNext]_allVars
  PROVE  \/ UNCHANGED webVars
         \/ \E c \in Client : GoesOn(c) \/ Repeats(c) \/ FailsNow(c) \/ \E d \in Delivery : Arrives(c, d)
<1>1. ASSUME NEW c \in Client, NEW d \in Delivery, NEW r, Deliver(c, d, r)
      PROVE  GoesOn(c) \/ Repeats(c) \/ Arrives(c, d)
  <2>1. client[c].pc = "none" /\ client[c].id = NoDelivery
    BY <1>1 DEF Deliver, ClientInv
  <2>2. CASE Respond(c, "unavailable") /\ deliveries' = deliveries
    BY <2>1, <2>2, Responds DEF GoesOn, Moves
  <2>3. CASE Respond(c, "duplicate") /\ deliveries' = Prune(deliveries, clock)
    BY <2>1, <2>3, Responds DEF Repeats, Moves
  <2>4. CASE /\ d \notin Keys(Prune(deliveries, clock))
             /\ Set(c, [pc |-> "pending", id |-> d, asks |-> {r}, at |-> clock])
             /\ deliveries' = Remember(Prune(deliveries, clock), d, clock + DeliveryTTL, MaxDeliveries)
    <3>1. client' = [client EXCEPT ![c] = [pc |-> "pending", id |-> d, asks |-> {r}, at |-> clock]]
      BY <2>4 DEF Set
    <3>2. /\ DOMAIN client' = Client /\ \A b \in Client \ {c} : client'[b] = client[b]
          /\ client'[c].pc = "pending" /\ client'[c].id = d /\ client'[c].at = clock
      BY <3>1 DEF AskInv
    <3> QED
      BY <2>1, <2>4, <3>2 DEF Arrives
  <2> QED
    BY <1>1, <2>2, <2>3, <2>4 DEF Deliver
<1>2. ASSUME NEW c \in Client, Ask(c) PROVE GoesOn(c)
  <2>1. client[c].pc = "none" /\ client[c].id = NoDelivery /\ deliveries' = deliveries
    BY <1>2 DEF Ask, ClientInv
  <2>2. CASE Respond(c, "unavailable")
    BY <2>1, <2>2, Responds DEF GoesOn, Moves
  <2>3. CASE Set(c, [NewClient EXCEPT !.pc = "locating"])
    <3>1. /\ DOMAIN client' = Client /\ \A b \in Client \ {c} : client'[b] = client[b]
          /\ client'[c].id = NoDelivery /\ client'[c].at = 0
      BY <2>3 DEF Set, NewClient, AskInv
    <3> QED
      BY <2>1, <3>1 DEF GoesOn, Moves
  <2> QED
    BY <1>2, <2>2, <2>3 DEF Ask
<1>3. ASSUME NEW c \in Client, NEW r, Located(c, r) PROVE GoesOn(c)
  <2>1. client[c].pc = "locating" /\ client[c].id = NoDelivery /\ deliveries' = deliveries
    BY <1>3 DEF Located, ClientInv
  <2>2. CASE Respond(c, "failed")
    BY <2>1, <2>2, Responds DEF GoesOn, Moves
  <2>3. CASE Set(c, [client[c] EXCEPT !.pc = "pending", !.asks = {r}])
    <3>1. /\ DOMAIN client' = Client /\ \A b \in Client \ {c} : client'[b] = client[b]
          /\ client'[c].id = NoDelivery /\ client'[c].at = client[c].at
      BY <2>1, <2>3 DEF Set, AskInv
    <3> QED
      BY <2>1, <3>1 DEF GoesOn, Moves
  <2> QED
    BY <1>3, <2>2, <2>3 DEF Located
<1>4. ASSUME NEW c \in Client, Enter(c) PROVE GoesOn(c)
  <2>1. /\ client[c].pc = "pending" /\ deliveries' = deliveries
        /\ Set(c, [client[c] EXCEPT !.pc = "admitting"])
    BY <1>4 DEF Enter
  <2>2. /\ DOMAIN client' = Client /\ \A b \in Client \ {c} : client'[b] = client[b]
        /\ client'[c].pc = "admitting"
        /\ client'[c].id = client[c].id /\ client'[c].at = client[c].at
    BY <2>1 DEF Set, AskInv
  <2> QED
    BY <2>1, <2>2 DEF GoesOn, Moves, InHand
<1>5. ASSUME NEW c \in Client, client[c].pc \in {"pending", "admitting"}, Fails(c) PROVE FailsNow(c)
  <2>1. Respond(c, "failed") /\ deliveries' = Without(deliveries, client[c].id)
    BY <1>5 DEF Fails, Forget
  <2> QED
    BY <1>5, <2>1, Responds DEF FailsNow, Moves
<1>6. ASSUME NEW c \in Client, client[c].pc = "admitting", deliveries' = deliveries,
             NEW answer \in {"accepted", "known"}, Respond(c, answer)
      PROVE  GoesOn(c)
  BY <1>6, Responds DEF GoesOn, Moves, InHand
<1>7. ASSUME NEW c \in Client, TurnAway(c) PROVE FailsNow(c)
  BY <1>5, <1>7 DEF TurnAway
<1>8. ASSUME NEW c \in Client, Conclude(c) PROVE GoesOn(c) \/ FailsNow(c) \/ UNCHANGED webVars
  <2>1. /\ client[c].pc = "admitting"
        /\ \/ Respond(c, "accepted") /\ deliveries' = deliveries
           \/ client' = client /\ deliveries' = deliveries
           \/ Respond(c, "known") /\ deliveries' = deliveries
           \/ Fails(c)
    BY <1>8 DEF Conclude
  <2> QED
    BY <1>5, <1>6, <2>1 DEF webVars
<1>9. CASE QueueStep /\ UNCHANGED webVars
  BY <1>9
<1>10. CASE UNCHANGED allVars
  BY <1>10 DEF allVars
<1> QED
  BY <1>1, <1>2, <1>3, <1>4, <1>7, <1>8, <1>9, <1>10 DEF WebNext, ClientStep

-----------------------------------------------------------------------------
(***************************************************************************)
(* Time.                                                                   *)
(***************************************************************************)
LEMMA ClockAdvances ==
  ASSUME clock \in Nat, [StoreNext]_storeVars
  PROVE  clock' \in Nat /\ clock <= clock'
<1>1. clock' = clock \/ clock' = clock + 1
  BY DEF StoreNext, storeVars, GetOrCreate, RejectForCapacity, Add, Insert, Transition,
         CleanupExpired, Delete, Tick
<1> QED
  BY <1>1

LEMMA RouteClock ==
  ASSUME clock \in Nat, AskInv, RequestsTyped, [WebNext]_allVars
  PROVE  clock' \in Nat /\ clock <= clock'
<1>1. [StoreNext]_storeVars
  BY RouteStepsQueue, QueueStepIsStoreStep
<1> QED
  BY <1>1, ClockAdvances

-----------------------------------------------------------------------------
(***************************************************************************)
(* A request that has a delivery keeps it, and the time it came in; one    *)
(* that failed stays so; and the deliveries that came in only increase.    *)
(***************************************************************************)
Onward ==
  /\ \A c \in Client : client[c].id # NoDelivery =>
       /\ client'[c].id = client[c].id /\ client'[c].at = client[c].at
       /\ client[c].pc = "failed" => client'[c].pc = "failed"
  /\ Ids \subseteq Ids'

LEMMA MovesOnward ==
  ASSUME NEW c \in Client, Moves(c)
  PROVE  Onward /\ Ids' = Ids
<1>1. \A b \in Client : client'[b].id = client[b].id
  BY DEF Moves
<1>2. Ids' = Ids
  BY <1>1 DEF Ids
<1> QED
  BY <1>2 DEF Moves, Onward

LEMMA ArrivesOnward ==
  ASSUME NEW c \in Client, NEW d \in Delivery, Arrives(c, d)
  PROVE  Onward /\ Ids' = Ids \cup {d}
<1>1. \A b \in Client \ {c} : client'[b] = client[b]
  BY DEF Arrives
<1>2. client[c].id = NoDelivery /\ client'[c].id = d /\ d # NoDelivery
  BY WebhookRouteAssumption DEF Arrives
<1>3. Ids' = Ids \cup {d}
  BY <1>1, <1>2 DEF Ids
<1> QED
  BY <1>1, <1>2, <1>3 DEF Onward

LEMMA RouteKeepsClients ==
  ASSUME AskInv, ClientInv, clock \in Nat, clock' \in Nat, clock <= clock', [WebNext]_allVars
  PROVE  ClientInv' /\ Onward
<1>1. CASE UNCHANGED webVars
  <2>1. client' = client /\ Ids' = Ids
    BY <1>1 DEF webVars, Ids
  <2> QED
    BY <2>1 DEF ClientInv, Onward
<1>2. ASSUME NEW c \in Client, Moves(c) PROVE ClientInv' /\ Onward
  <2>1. Onward /\ Ids' = Ids
    BY <1>2, MovesOnward
  <2>2. ASSUME NEW b \in Client
        PROVE  /\ client'[b].id \in Delivery \cup {NoDelivery}
               /\ client'[b].pc \in {"none", "locating"} => client'[b].id = NoDelivery
               /\ client'[b].at \in Nat /\ client'[b].at <= clock'
    <3>1. CASE b = c
      BY <1>2, <3>1 DEF Moves, ClientInv
    <3>2. CASE b # c
      BY <1>2, <3>2 DEF Moves, ClientInv
    <3> QED
      BY <3>1, <3>2
  <2> QED
    BY <2>1, <2>2 DEF ClientInv
<1>3. ASSUME NEW c \in Client, NEW d \in Delivery, Arrives(c, d) PROVE ClientInv' /\ Onward
  <2>1. Onward /\ Ids' = Ids \cup {d}
    BY <1>3, ArrivesOnward
  <2>2. IsFiniteSet(Ids \cup {d})
    BY FS_AddElement DEF ClientInv
  <2>3. ASSUME NEW b \in Client
        PROVE  /\ client'[b].id \in Delivery \cup {NoDelivery}
               /\ client'[b].pc \in {"none", "locating"} => client'[b].id = NoDelivery
               /\ client'[b].at \in Nat /\ client'[b].at <= clock'
    <3>1. CASE b = c
      BY <1>3, <3>1 DEF Arrives
    <3>2. CASE b # c
      BY <1>3, <3>2 DEF Arrives, ClientInv
    <3> QED
      BY <3>1, <3>2
  <2> QED
    BY <2>1, <2>2, <2>3 DEF ClientInv
<1> QED
  BY <1>1, <1>2, <1>3, RouteShapes DEF GoesOn, Repeats, FailsNow

-----------------------------------------------------------------------------
(***************************************************************************)
(* What each step does to the entries.                                     *)
(***************************************************************************)
LEMMA ArrivingEntries ==
  ASSUME DeliveryInv, clock \in Nat, NEW c \in Client, NEW d \in Delivery, Arrives(c, d),
         NEW live, live = Prune(deliveries, clock)
  PROVE  /\ live \in Seq(EntryOf(Delivery)) /\ d \notin Keys(live)
         /\ Entries(live) = {e \in Entries(deliveries) : e.expiry > clock}
         /\ deliveries' \in Seq(EntryOf(Delivery)) /\ Len(deliveries') <= MaxDeliveries
         /\ Orderly(deliveries')
         /\ Entries(deliveries') \subseteq Entries(live) \cup {Entry(d, clock + DeliveryTTL)}
         /\ Entry(d, clock + DeliveryTTL) \in Entries(deliveries')
         /\ Entries(live) \subseteq Entries(deliveries') \/ Cardinality(Keys(live)) = MaxDeliveries
<1>1. /\ live \in Seq(EntryOf(Delivery)) /\ Len(live) <= Len(deliveries) /\ Orderly(live)
      /\ Entries(live) = {e \in Entries(deliveries) : e.expiry > clock}
  BY PruneEntries DEF DeliveryInv
<1>2. Len(live) <= MaxDeliveries
  BY <1>1, EntriesType, WebhookRouteAssumption DEF DeliveryInv
<1>3. d \notin Keys(live) /\ deliveries' = Remember(live, d, clock + DeliveryTTL, MaxDeliveries)
  BY DEF Arrives
<1>4. clock + DeliveryTTL \in Nat /\ \A e \in Entries(live) : e.expiry <= clock + DeliveryTTL
  BY <1>1, WebhookRouteAssumption DEF DeliveryInv
<1> QED
  BY <1>1, <1>2, <1>3, <1>4, RememberEntries, WebhookRouteAssumption

\* What expires so long after an earlier time expires sooner.
LEMMA SoonerExpiry ==
  ASSUME NEW a \in Nat, NEW b \in Nat, a <= b, NEW t \in Nat
  PROVE  a + t <= b + t
OBVIOUS

LEMMA RouteKeepsDeliveries ==
  ASSUME AskInv, ClientInv, DeliveryInv, clock \in Nat, clock' \in Nat, clock <= clock',
         [WebNext]_allVars
  PROVE  DeliveryInv'
<1>0. /\ DeliveryTTL \in Nat /\ MaxDeliveries \in Nat /\ Len(deliveries) \in Nat
      /\ \A e \in Entries(deliveries) : e.expiry \in Nat
  BY EntriesType, WebhookRouteAssumption DEF DeliveryInv
<1>9. \A e \in Entries(deliveries) : e.key \in Delivery
  <2>1. \A e \in Entries(deliveries) : e \in EntryOf(Delivery)
    BY EntriesType DEF DeliveryInv
  <2>2. \A e \in EntryOf(Delivery) : e.key \in Delivery
    BY DEF EntryOf
  <2> QED
    BY <2>1, <2>2
<1>10. clock + DeliveryTTL <= clock' + DeliveryTTL
  BY SoonerExpiry, WebhookRouteAssumption
<1>1. ASSUME deliveries' \in Seq(EntryOf(Delivery)), Len(deliveries') <= Len(deliveries),
             Orderly(deliveries'), Entries(deliveries') \subseteq Entries(deliveries),
             \A e \in Entries(deliveries') :
               \E c \in Client : client'[c].id = e.key /\ client'[c].pc \in InHand
      PROVE  DeliveryInv'
  <2>1. Len(deliveries') <= MaxDeliveries
    BY <1>0, <1>1 DEF DeliveryInv
  <2>2. \A e \in Entries(deliveries') : e.expiry <= clock' + DeliveryTTL
    BY <1>0, <1>1 DEF DeliveryInv
  <2> QED
    BY <1>1, <2>1, <2>2 DEF DeliveryInv
<1>2. CASE UNCHANGED webVars
  <2>1. client' = client /\ deliveries' = deliveries
    BY <1>2 DEF webVars
  <2> QED
    BY <1>0, <1>1, <2>1 DEF DeliveryInv
<1>3. ASSUME NEW c \in Client, GoesOn(c) PROVE DeliveryInv'
  <2>1. \A e \in Entries(deliveries) :
          \E b \in Client : client'[b].id = e.key /\ client'[b].pc \in InHand
    <3> SUFFICES ASSUME NEW e \in Entries(deliveries)
                 PROVE  \E b \in Client : client'[b].id = e.key /\ client'[b].pc \in InHand
      OBVIOUS
    <3>1. e.key # NoDelivery
      BY <1>9, WebhookRouteAssumption
    <3>2. PICK b \in Client : client[b].id = e.key /\ client[b].pc \in InHand
      BY DEF DeliveryInv
    <3> QED
      BY <1>3, <3>1, <3>2 DEF GoesOn, Moves
  <2>2. deliveries' = deliveries
    BY <1>3 DEF GoesOn
  <2> QED
    BY <1>0, <1>1, <2>1, <2>2 DEF DeliveryInv
<1>4. ASSUME NEW c \in Client, Repeats(c) PROVE DeliveryInv'
  <2>1. /\ deliveries' \in Seq(EntryOf(Delivery)) /\ Len(deliveries') <= Len(deliveries)
        /\ Orderly(deliveries')
        /\ Entries(deliveries') = {e \in Entries(deliveries) : e.expiry > clock}
    BY <1>4, PruneEntries DEF Repeats, DeliveryInv
  <2>2. \A e \in Entries(deliveries) :
          \E b \in Client : client'[b].id = e.key /\ client'[b].pc \in InHand
    <3> SUFFICES ASSUME NEW e \in Entries(deliveries)
                 PROVE  \E b \in Client : client'[b].id = e.key /\ client'[b].pc \in InHand
      OBVIOUS
    <3>1. e.key # NoDelivery
      BY <1>9, WebhookRouteAssumption
    <3>2. PICK b \in Client : client[b].id = e.key /\ client[b].pc \in InHand
      BY DEF DeliveryInv
    <3> QED
      BY <1>4, <3>1, <3>2 DEF Repeats, Moves
  <2> QED
    BY <1>1, <2>1, <2>2
<1>5. ASSUME NEW c \in Client, FailsNow(c) PROVE DeliveryInv'
  <2>1. /\ deliveries' \in Seq(EntryOf(Delivery)) /\ Len(deliveries') <= Len(deliveries)
        /\ Orderly(deliveries')
        /\ Entries(deliveries') = {e \in Entries(deliveries) : e.key # client[c].id}
    BY <1>5, WithoutEntries DEF FailsNow, DeliveryInv
  <2>2. \A e \in Entries(deliveries') :
          \E b \in Client : client'[b].id = e.key /\ client'[b].pc \in InHand
    <3> SUFFICES ASSUME NEW e \in Entries(deliveries')
                 PROVE  \E b \in Client : client'[b].id = e.key /\ client'[b].pc \in InHand
      OBVIOUS
    <3>1. PICK b \in Client : client[b].id = e.key /\ client[b].pc \in InHand
      BY <2>1 DEF DeliveryInv
    <3> QED
      BY <1>5, <2>1, <3>1 DEF FailsNow, Moves
  <2> QED
    BY <1>1, <2>1, <2>2
<1>6. ASSUME NEW c \in Client, NEW d \in Delivery, Arrives(c, d) PROVE DeliveryInv'
  <2>1. /\ deliveries' \in Seq(EntryOf(Delivery)) /\ Len(deliveries') <= MaxDeliveries
        /\ Orderly(deliveries')
        /\ Entries(deliveries') \subseteq Entries(deliveries) \cup {Entry(d, clock + DeliveryTTL)}
    BY <1>6, ArrivingEntries
  <2>2. ASSUME NEW e \in Entries(deliveries')
        PROVE  /\ e.expiry <= clock' + DeliveryTTL
               /\ \E b \in Client : client'[b].id = e.key /\ client'[b].pc \in InHand
    <3>1. CASE e = Entry(d, clock + DeliveryTTL)
      <4>1. e.key = d /\ e.expiry = clock + DeliveryTTL
        BY <3>1 DEF Entry
      <4>2. client'[c].id = d /\ client'[c].pc \in InHand
        BY <1>6 DEF Arrives, InHand
      <4>3. e.expiry <= clock' + DeliveryTTL
        BY <1>10, <4>1
      <4>4. client'[c].id = e.key
        BY <4>1, <4>2
      <4> QED
        BY <4>2, <4>3, <4>4
    <3>2. CASE e \in Entries(deliveries)
      <4>1. e.expiry <= clock' + DeliveryTTL
        BY <1>0, <3>2 DEF DeliveryInv
      <4>2. PICK b \in Client : client[b].id = e.key /\ client[b].pc \in InHand
        BY <3>2 DEF DeliveryInv
      <4>3. b # c
        BY <1>6, <4>2 DEF Arrives, InHand
      <4> QED
        BY <1>6, <4>1, <4>2, <4>3 DEF Arrives
    <3> QED
      BY <2>1, <3>1, <3>2
  <2> QED
    BY <2>1, <2>2 DEF DeliveryInv
<1> QED
  BY <1>2, <1>3, <1>4, <1>5, <1>6, RouteShapes

-----------------------------------------------------------------------------
(***************************************************************************)
(* Why a delivery is in hand twice.  One that is in some request's hands   *)
(* is remembered until it expires, unless a copy of it failed (it is Lost) *)
(* or as many others came in as the cache holds (it is Crowded out): a     *)
(* second request gets it in hand only then.                               *)
(***************************************************************************)
Lost(d) == \E c \in Client : client[c].id = d /\ client[c].pc = "failed"

Crowded(d) == Cardinality(Ids \ {d}) >= MaxDeliveries

Holds(c) == client[c].id # NoDelivery /\ client[c].pc \in InHand

Kept(c) ==
  \/ clock >= client[c].at + DeliveryTTL
  \/ Crowded(client[c].id) \/ Lost(client[c].id)
  \/ \E e \in Entries(deliveries) :
       e.key = client[c].id /\ e.expiry >= client[c].at + DeliveryTTL

Excused(b, c) ==
  \/ client[c].at >= client[b].at + DeliveryTTL
  \/ Crowded(client[b].id) \/ Lost(client[b].id)

OnceInv ==
  /\ \A c \in Client : Holds(c) => Kept(c)
  /\ \A b, c \in Client :
       /\ b # c /\ Holds(b) /\ Holds(c)
       /\ client[b].id = client[c].id /\ client[b].at <= client[c].at
       => Excused(b, c)

LEMMA LostStays ==
  ASSUME ClientInv, Onward, NEW d \in Delivery, Lost(d)
  PROVE  Lost(d)'
BY WebhookRouteAssumption DEF Lost, Onward

LEMMA CrowdedStays ==
  ASSUME ClientInv', Onward, NEW d \in Delivery, Crowded(d)
  PROVE  Crowded(d)'
<1>1. /\ IsFiniteSet(Ids') /\ Ids \subseteq Ids' /\ MaxDeliveries \in Nat
      /\ Cardinality(Ids \ {d}) >= MaxDeliveries
  BY WebhookRouteAssumption DEF ClientInv, Onward, Crowded
<1>2. Cardinality(Ids' \ {d}) >= MaxDeliveries
  BY <1>1, OthersStay
<1> QED
  BY <1>2 DEF Crowded

\* A delivery in hand stays accounted for if its entry does, or has expired.
LEMMA KeptStays ==
  ASSUME ClientInv, ClientInv', Onward, clock \in Nat, clock' \in Nat, clock <= clock',
         NEW c \in Client, Holds(c), Kept(c),
         \A e \in Entries(deliveries) : e.expiry \in Nat,
         \A e \in Entries(deliveries) :
           e.key = client[c].id =>
             \/ e \in Entries(deliveries') \/ e.expiry <= clock
             \/ Crowded(client[c].id)' \/ Lost(client[c].id)'
  PROVE  Kept(c)'
<1>1. PICK d \in Delivery : d = client[c].id /\ client'[c].id = d
  BY DEF Holds, ClientInv, Onward
<1>2. PICK t \in Nat : t = client[c].at + DeliveryTTL /\ t = client'[c].at + DeliveryTTL
  BY WebhookRouteAssumption DEF Holds, ClientInv, Onward
<1>3. clock >= t => clock' >= t
  BY <1>2
<1>4. (Crowded(d) => Crowded(d)') /\ (Lost(d) => Lost(d)')
  BY CrowdedStays, LostStays
<1>5. \A e \in Entries(deliveries) :
        e.key = d => \/ e \in Entries(deliveries') \/ e.expiry <= clock
                     \/ Crowded(d)' \/ Lost(d)'
  BY <1>1
<1>6. ASSUME NEW e \in Entries(deliveries), e.key = d, e.expiry >= t
      PROVE  \/ clock' >= t \/ Crowded(d)' \/ Lost(d)'
             \/ e \in Entries(deliveries')
  <2>1. e.expiry \in Nat
    OBVIOUS
  <2>2. CASE e.expiry <= clock
    BY <1>2, <1>6, <2>1, <2>2
  <2> QED
    BY <1>5, <1>6, <2>2
<1>7. \/ clock >= t \/ Crowded(d) \/ Lost(d)
      \/ \E e \in Entries(deliveries) : e.key = d /\ e.expiry >= t
  BY <1>1, <1>2 DEF Kept
<1>8. \/ clock' >= t \/ Crowded(d)' \/ Lost(d)'
      \/ \E e \in Entries(deliveries') : e.key = d /\ e.expiry >= t
  BY <1>3, <1>4, <1>6, <1>7
<1> QED
  BY <1>1, <1>2, <1>8 DEF Kept

\* What was in hand stays accounted for, whatever the step.
LEMMA RouteKeepsKept ==
  ASSUME AskInv, ClientInv, ClientInv', Onward, DeliveryInv, clock \in Nat, clock' \in Nat,
         clock <= clock', [WebNext]_allVars,
         NEW b \in Client, Holds(b), Kept(b), Holds(b)'
  PROVE  Kept(b)'
<1>1. \A e \in Entries(deliveries) : e.expiry \in Nat
  BY EntriesType DEF DeliveryInv
<1>2. client[b].id = client'[b].id
  BY DEF Holds, Onward
<1>3. CASE deliveries' = deliveries
  <2>1. \A e \in Entries(deliveries) : e \in Entries(deliveries')
    BY <1>3
  <2> QED
    BY <1>1, <2>1, KeptStays
<1>4. ASSUME NEW c \in Client, Repeats(c) PROVE Kept(b)'
  <2>1. Entries(deliveries') = {e \in Entries(deliveries) : e.expiry > clock}
    BY <1>4, PruneEntries DEF Repeats, DeliveryInv
  <2>2. \A e \in Entries(deliveries) : e \in Entries(deliveries') \/ e.expiry <= clock
    BY <1>1, <2>1
  <2> QED
    BY <1>1, <2>2, KeptStays
<1>5. ASSUME NEW c \in Client, FailsNow(c) PROVE Kept(b)'
  <2>1. Entries(deliveries') = {e \in Entries(deliveries) : e.key # client[c].id}
    BY <1>5, WithoutEntries DEF FailsNow, DeliveryInv
  <2>2. client'[c].id = client[c].id /\ client'[c].pc = "failed"
    BY <1>5 DEF FailsNow, Moves
  <2>3. client[b].id = client[c].id => Lost(client[b].id)'
    BY <1>2, <2>2 DEF Lost
  <2>4. \A e \in Entries(deliveries) :
          e.key = client[b].id => e \in Entries(deliveries') \/ Lost(client[b].id)'
    BY <2>1, <2>3
  <2> QED
    BY <1>1, <2>4, KeptStays
<1>6. ASSUME NEW c \in Client, NEW d \in Delivery, Arrives(c, d) PROVE Kept(b)'
  <2>1. PICK live : live = Prune(deliveries, clock)
    OBVIOUS
  <2>2. /\ d \notin Keys(live)
        /\ Entries(live) = {e \in Entries(deliveries) : e.expiry > clock}
        /\ Entries(live) \subseteq Entries(deliveries') \/ Cardinality(Keys(live)) = MaxDeliveries
    BY <1>6, <2>1, ArrivingEntries
  <2>3. Ids' = Ids \cup {d}
    BY <1>6, ArrivesOnward
  <2>4. ASSUME NEW e \in Entries(deliveries), e.key = client[b].id, e.expiry > clock,
               e \notin Entries(deliveries')
        PROVE  Crowded(client[b].id)'
    <3>1. e \in Entries(live) /\ Cardinality(Keys(live)) = MaxDeliveries
      BY <2>2, <2>4
    <3>2. Keys(live) \subseteq Ids
      <4>1. ASSUME NEW x \in Entries(live) PROVE x.key \in Ids
        <5>1. PICK a \in Client : client[a].id = x.key /\ client[a].pc \in InHand
          BY <2>2 DEF DeliveryInv
        <5>2. x.key \in Delivery
          <6>1. x \in EntryOf(Delivery)
            BY <2>2, EntriesType DEF DeliveryInv
          <6> QED
            BY <6>1 DEF EntryOf
        <5> QED
          BY <5>1, <5>2, WebhookRouteAssumption DEF Ids
      <4> QED
        BY <4>1, KeysOfEntries
    <3>3. PICK k \in Keys(live) : k = e.key
      BY <3>1, KeysOfEntries
    <3>4. PICK T : T = Ids' /\ IsFiniteSet(T)
      BY DEF ClientInv
    <3>5. Keys(live) \subseteq T /\ d \in T \ Keys(live)
      BY <2>2, <2>3, <3>2, <3>4
    <3>6. MaxDeliveries \in Nat
      BY WebhookRouteAssumption
    <3>7. Cardinality(T \ {k}) >= MaxDeliveries
      BY <3>1, <3>4, <3>5, <3>6, FullOfOthers
    <3> QED
      BY <1>2, <2>4, <3>3, <3>4, <3>7 DEF Crowded
  <2>5. \A e \in Entries(deliveries) :
          e.key = client[b].id =>
            e \in Entries(deliveries') \/ e.expiry <= clock \/ Crowded(client[b].id)'
    BY <1>1, <2>4
  <2> QED
    BY <1>1, <2>5, KeptStays
<1> QED
  BY <1>3, <1>4, <1>5, <1>6, RouteShapes DEF GoesOn, webVars

\* Two requests that had the delivery in hand stay excused.
LEMMA ExcusedStays ==
  ASSUME ClientInv, ClientInv', Onward, NEW b \in Client, NEW c \in Client,
         Holds(b), Holds(c), Excused(b, c)
  PROVE  Excused(b, c)'
<1>1. PICK d \in Delivery : d = client[b].id /\ client'[b].id = d
  BY DEF Holds, ClientInv, Onward
<1>2. client'[b].at = client[b].at /\ client'[c].at = client[c].at
  BY DEF Holds, Onward
<1>3. (Crowded(d) => Crowded(d)') /\ (Lost(d) => Lost(d)')
  BY CrowdedStays, LostStays
<1> QED
  BY <1>1, <1>2, <1>3 DEF Excused

\* A delivery that arrives while some request has it in hand is excused: it was
\* not remembered any more.
LEMMA ArrivalExcused ==
  ASSUME ClientInv, ClientInv', Onward, DeliveryInv, clock \in Nat,
         NEW c \in Client, NEW d \in Delivery, Arrives(c, d),
         NEW b \in Client, b # c, Holds(b), Kept(b), client[b].id = d
  PROVE  clock >= client[b].at + DeliveryTTL \/ Crowded(d)' \/ Lost(d)'
<1>1. (Crowded(d) => Crowded(d)') /\ (Lost(d) => Lost(d)')
  BY CrowdedStays, LostStays
<1>2. PICK live : live = Prune(deliveries, clock)
  OBVIOUS
<1>3. d \notin Keys(live) /\ Entries(live) = {e \in Entries(deliveries) : e.expiry > clock}
  BY <1>2, ArrivingEntries
<1>4. ASSUME NEW e \in Entries(deliveries), e.key = d, e.expiry >= client[b].at + DeliveryTTL
      PROVE  clock >= client[b].at + DeliveryTTL
  <2>1. ~(e.expiry > clock)
    BY <1>3, <1>4, KeysOfEntries
  <2>2. e.expiry \in Nat
    BY EntriesType DEF DeliveryInv
  <2>3. PICK t \in Nat : t = client[b].at + DeliveryTTL
    BY WebhookRouteAssumption DEF ClientInv
  <2> QED
    BY <1>4, <2>1, <2>2, <2>3
<1> QED
  BY <1>1, <1>4 DEF Kept

LEMMA RouteKeepsOnce ==
  ASSUME AskInv, ClientInv, ClientInv', Onward, DeliveryInv, OnceInv,
         clock \in Nat, clock' \in Nat, clock <= clock', [WebNext]_allVars
  PROVE  OnceInv'
<1>1. ASSUME NEW b \in Client, Holds(b)'
      PROVE  \/ Holds(b)
             \/ \E d \in Delivery : Arrives(b, d)
  <2>1. ASSUME NEW c \in Client, Moves(c),
               client[c].id # NoDelivery /\ client'[c].pc \in InHand => client[c].pc \in InHand
        PROVE  Holds(b)
    BY <1>1, <2>1 DEF Holds, Moves
  <2>2. CASE UNCHANGED webVars
    BY <1>1, <2>2 DEF Holds, webVars
  <2>3. ASSUME NEW c \in Client, NEW d \in Delivery, Arrives(c, d), b # c PROVE Holds(b)
    BY <1>1, <2>3 DEF Arrives, Holds
  <2>4. ASSUME NEW c \in Client, GoesOn(c) \/ Repeats(c) \/ FailsNow(c) PROVE Holds(b)
    BY <2>1, <2>4 DEF GoesOn, Repeats, FailsNow, InHand
  <2> QED
    BY <2>2, <2>3, <2>4, RouteShapes
<1>2. ASSUME NEW b \in Client, NEW d \in Delivery, Arrives(b, d)
      PROVE  /\ client'[b].id = d /\ client'[b].at = clock /\ ~Holds(b)
             /\ Kept(b)'
             /\ \A c \in Client \ {b} : client'[c] = client[c] /\ \A x \in Delivery : ~Arrives(c, x)
  <2>1. /\ client'[b].id = d /\ client'[b].at = clock /\ client[b].id = NoDelivery
        /\ client[b].pc = "none" /\ client'[b].pc = "pending"
        /\ \A c \in Client \ {b} : client'[c] = client[c]
    BY <1>2 DEF Arrives
  <2>2. PICK e : e = Entry(d, clock + DeliveryTTL) /\ e \in Entries(deliveries')
    BY <1>2, ArrivingEntries
  <2>3. e.key = d /\ e.expiry = clock + DeliveryTTL
    BY <2>2 DEF Entry
  <2>4. e.expiry >= clock + DeliveryTTL
    BY <2>3, WebhookRouteAssumption
  <2>5. Kept(b)'
    BY <2>1, <2>2, <2>3, <2>4 DEF Kept
  <2>6. \A c \in Client \ {b} : \A x \in Delivery : ~Arrives(c, x)
    BY <2>1 DEF Arrives
  <2> QED
    BY <2>1, <2>5, <2>6 DEF Holds
<1>3. ASSUME NEW b \in Client, Holds(b)' PROVE Kept(b)'
  BY <1>1, <1>2, <1>3, RouteKeepsKept DEF OnceInv
<1>4. ASSUME NEW b \in Client, NEW c \in Client, b # c, Holds(b)', Holds(c)',
             client'[b].id = client'[c].id, client'[b].at <= client'[c].at
      PROVE  Excused(b, c)'
  <2>1. CASE Holds(b) /\ Holds(c)
    <3>1. client[b].id = client[c].id /\ client[b].at <= client[c].at
      BY <1>4, <2>1 DEF Holds, Onward
    <3>2. Excused(b, c)
      BY <1>4, <2>1, <3>1 DEF OnceInv
    <3> QED
      BY <2>1, <3>2, ExcusedStays
  <2>2. ASSUME Holds(b), NEW d \in Delivery, Arrives(c, d) PROVE Excused(b, c)'
    <3>1. client'[c].at = clock /\ client'[c].id = d /\ client'[b] = client[b] /\ client[b].id = d
      BY <1>2, <1>4, <2>2
    <3>2. clock >= client[b].at + DeliveryTTL \/ Crowded(d)' \/ Lost(d)'
      BY <1>4, <2>2, <3>1, ArrivalExcused DEF OnceInv
    <3> QED
      BY <3>1, <3>2 DEF Excused
  <2>3. ASSUME Holds(c), NEW d \in Delivery, Arrives(b, d) PROVE Excused(b, c)'
    <3>1. client'[b].at = clock /\ client'[b].id = d /\ client'[c] = client[c] /\ client[c].id = d
      BY <1>2, <1>4, <2>3
    <3>2. clock >= client[c].at + DeliveryTTL \/ Crowded(d)' \/ Lost(d)'
      BY <1>4, <2>3, <3>1, ArrivalExcused DEF OnceInv
    <3>3. PICK t \in Nat : t = client[c].at
      BY DEF ClientInv
    <3>4. ~(clock >= client[c].at + DeliveryTTL)
      BY <1>4, <3>1, <3>3, WebhookRouteAssumption
    <3> QED
      BY <3>1, <3>2, <3>4 DEF Excused
  <2> QED
    BY <1>1, <1>2, <1>4, <2>1, <2>2, <2>3
<1> QED
  BY <1>3, <1>4 DEF OnceInv

-----------------------------------------------------------------------------
RouteInv == AskInv /\ ClientInv /\ DeliveryInv /\ OnceInv

LEMMA InitRouteInv == WebInit => RouteInv
<1> SUFFICES ASSUME WebInit PROVE RouteInv
  OBVIOUS
<1>1. client = [c \in Client |-> NewClient] /\ deliveries = <<>> /\ clock = 0
  BY DEF WebInit, Init, StoreInit
<1>2. AskInv
  BY <1>1 DEF AskInv, NewClient
<1>3. Ids = {} /\ IsFiniteSet(Ids)
  <2>1. Ids = {}
    BY <1>1 DEF Ids, NewClient
  <2> QED
    BY <2>1, FS_EmptySet
<1>4. ClientInv
  BY <1>1, <1>3 DEF ClientInv, NewClient
<1>5. deliveries \in Seq(EntryOf(Delivery)) /\ Len(deliveries) <= MaxDeliveries
  <2>1. Len(deliveries) = 0
    BY <1>1
  <2> QED
    BY <1>1, <2>1, WebhookRouteAssumption
<1>6. Entries(deliveries) = {} /\ Orderly(deliveries)
  BY <1>1 DEF Entries, Orderly
<1>7. DeliveryInv
  BY <1>5, <1>6 DEF DeliveryInv
<1>8. OnceInv
  BY <1>1 DEF OnceInv, Holds, NewClient
<1> QED
  BY <1>2, <1>4, <1>7, <1>8 DEF RouteInv

LEMMA RouteInvariance == WebSpec => []RouteInv
<1>1. ASSUME StoreInv, QueueInv, RouteInv, [WebNext]_allVars PROVE RouteInv'
  <2>1. clock \in Nat /\ RequestsTyped
    BY <1>1 DEF StoreInv, StoreTypes, QueueInv, Typed, RequestsTyped
  <2>2. clock' \in Nat /\ clock <= clock'
    BY <1>1, <2>1, RouteClock DEF RouteInv
  <2>3. ClientInv' /\ Onward
    BY <1>1, <2>1, <2>2, RouteKeepsClients DEF RouteInv
  <2>4. AskInv' /\ DeliveryInv' /\ OnceInv'
    BY <1>1, <2>1, <2>2, <2>3, RouteKeepsAsks, RouteKeepsDeliveries, RouteKeepsOnce DEF RouteInv
  <2> QED
    BY <2>3, <2>4 DEF RouteInv
<1> QED
  BY <1>1, InitRouteInv, RoutesImplementQueue, QueueInvariant, PTL DEF WebSpec

\* A delivery that is remembered, and whose copies are answered as duplicates, is in
\* the queue's hands or on its way there, whatever was refused, failed or shut down;
\* and the cache keeps to its size and to the order of expiry.
THEOREM RoutesRememberedIsAdmitted == WebSpec => []RememberedIsAdmitted
<1>1. DeliveryInv => RememberedIsAdmitted
  <2> SUFFICES ASSUME DeliveryInv PROVE RememberedIsAdmitted
    OBVIOUS
  <2>1. \A d \in Keys(deliveries) : \E e \in Entries(deliveries) : e.key = d
    BY KeysOfEntries
  <2> QED
    BY <2>1 DEF DeliveryInv, RememberedIsAdmitted, InHand
<1> QED
  BY <1>1, RouteInvariance, PTL DEF RouteInv

\* A delivery reaches the queue twice only if it had expired, or as many others as
\* the cache holds came in, or a copy of it failed: for any number of requests, any
\* size of the cache and any lifetime of its entries.
THEOREM RoutesAdmittedOnce == WebSpec => []AdmittedOnce
<1>1. ClientInv /\ OnceInv => AdmittedOnce
  <2> SUFFICES ASSUME ClientInv, OnceInv, NEW b \in Client, NEW c \in Client,
                      b # c, client[b].id = client[c].id, client[b].id # NoDelivery,
                      {client[b].pc, client[c].pc} \subseteq {"accepted", "known"},
                      client[b].at <= client[c].at, client[c].at < client[b].at + DeliveryTTL,
                      Cardinality({client[x].id : x \in Client} \ {NoDelivery, client[b].id})
                        < MaxDeliveries
               PROVE  \E x \in Client : client[x].id = client[b].id /\ client[x].pc = "failed"
    BY DEF AdmittedOnce
  <2>1. Holds(b) /\ Holds(c)
    BY DEF Holds, InHand
  <2>2. Excused(b, c)
    BY <2>1 DEF OnceInv
  <2>3. ~(client[c].at >= client[b].at + DeliveryTTL)
    <3>1. client[b].at \in Nat /\ client[c].at \in Nat /\ DeliveryTTL \in Nat
      BY WebhookRouteAssumption DEF ClientInv
    <3> QED
      BY <3>1
  <2>4. ~Crowded(client[b].id)
    <3>1. PICK S : /\ S = Ids \ {client[b].id}
                   /\ S = {client[x].id : x \in Client} \ {NoDelivery, client[b].id}
      BY DEF Ids
    <3>2. IsFiniteSet(S)
      BY <3>1, FS_Subset DEF ClientInv
    <3>3. Cardinality(S) \in Nat /\ Cardinality(S) < MaxDeliveries /\ MaxDeliveries \in Nat
      BY <3>1, <3>2, FS_CardinalityType, WebhookRouteAssumption
    <3> QED
      BY <3>1, <3>3 DEF Crowded
  <2> QED
    BY <2>2, <2>3, <2>4 DEF Excused, Lost
<1> QED
  BY <1>1, RouteInvariance, PTL DEF RouteInv
=============================================================================
