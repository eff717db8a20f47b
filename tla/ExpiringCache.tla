---------------------------- MODULE ExpiringCache ---------------------------
(***************************************************************************)
(* The bounded cache with expiry that PullSage keeps twice: an OrderedDict *)
(* from a key to the time its entry expires, oldest insertion first        *)
(* (DeliveryCache in github/webhook_security.py, _post_cache in            *)
(* mcp/server.py).  Here it is a sequence of entries.                      *)
(***************************************************************************)
EXTENDS Naturals, Sequences

Entry(k, t) == [key |-> k, expiry |-> t]

Keys(cache) == {cache[i].key : i \in DOMAIN cache}

\* Expired entries are popped from the front, up to the first that is not.
Prune(cache, now) ==
  LET live  == {i \in DOMAIN cache : cache[i].expiry > now}
      first == CHOOSE i \in live : \A n \in live : i <= n
  IN IF live = {} THEN <<>> ELSE SubSeq(cache, first, Len(cache))

\* The oldest entries are popped until one more fits.
MakeRoom(cache, max) ==
  IF Len(cache) < max THEN cache ELSE SubSeq(cache, Len(cache) - max + 2, Len(cache))

\* Mutant: the new entry is put where the oldest are.
Remember_AtFront(cache, k, t, max) == <<Entry(k, t)>> \o MakeRoom(cache, max)

\* cache[key] = expiry, for a key that is not there: last in the order.
Remember(cache, k, t, max) == Append(MakeRoom(cache, max), Entry(k, t))

\* cache.pop(key, None)
Without(cache, k) ==
  LET at == {i \in DOMAIN cache : cache[i].key = k}
      n  == CHOOSE i \in at : TRUE
  IN IF at = {} THEN cache ELSE SubSeq(cache, 1, n - 1) \o SubSeq(cache, n + 1, Len(cache))

\* Insertions are in the order of expiry, and no key is twice there.  Only then
\* does popping from the front remove all that expired.
Orderly(cache) ==
  \A i, n \in DOMAIN cache :
    i < n => cache[i].expiry <= cache[n].expiry /\ cache[i].key # cache[n].key
=============================================================================
