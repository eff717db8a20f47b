------------------------ MODULE ExpiringCacheProofs -------------------------
(***************************************************************************)
(* What the operations on an orderly cache do to its entries, for any      *)
(* keys, sizes and times.                                                  *)
(***************************************************************************)
EXTENDS ExpiringCache, FiniteSetTheorems, SequenceTheorems, WellFoundedInduction, TLAPS

EntryOf(S) == [key : S, expiry : Nat]

Entries(cache) == {cache[i] : i \in DOMAIN cache}

\* The sequence names its entries' keys.
LEMMA KeysOfEntries ==
  ASSUME NEW cache
  PROVE  Keys(cache) = {e.key : e \in Entries(cache)}
BY DEF Keys, Entries

LEMMA EntriesType ==
  ASSUME NEW S, NEW cache \in Seq(EntryOf(S))
  PROVE  /\ Len(cache) \in Nat /\ DOMAIN cache = 1..Len(cache)
         /\ \A i \in DOMAIN cache : cache[i] \in EntryOf(S) /\ cache[i].expiry \in Nat
         /\ \A e \in Entries(cache) : e \in EntryOf(S) /\ e.expiry \in Nat
<1>1. \A i \in DOMAIN cache : cache[i] \in EntryOf(S)
  OBVIOUS
<1>2. \A e \in EntryOf(S) : e.expiry \in Nat
  BY DEF EntryOf
<1> QED
  BY <1>1, <1>2 DEF Entries

-----------------------------------------------------------------------------
\* A set of numbers has a smallest.
LEMMA SmallestNumber ==
  ASSUME NEW S, S \subseteq Nat, S # {}
  PROVE  \E n \in S : \A m \in S : n <= m
<1>1. \E R : IsWellFoundedOn(R, Nat) /\ \A x, y \in Nat : x < y => <<x, y>> \in R
  <2>1. \A x, y \in Nat : x < y => <<x, y>> \in OpToRel(<, Nat)
    BY DEF OpToRel
  <2> QED
    BY <2>1, NatLessThanWellFounded, Zenon
<1>2. PICK R : IsWellFoundedOn(R, Nat) /\ \A x, y \in Nat : x < y => <<x, y>> \in R
  BY <1>1
<1>3. IsWellFoundedOn(R, Nat)
  BY <1>2
<1>4. \E n \in S : \A m \in S : ~(<<m, n>> \in R)
  BY <1>3, WFMin
<1>5. PICK n \in S : \A m \in S : ~(<<m, n>> \in R)
  BY <1>4
<1>6. \A m \in S : ~(m < n)
  BY <1>2, <1>5, Zenon
<1> QED
  BY <1>6

\* Popping from the front leaves a suffix, and a suffix of an orderly cache is one.
LEMMA SuffixKeeps ==
  ASSUME NEW S, NEW cache \in Seq(EntryOf(S)), NEW m \in 1..Len(cache), Orderly(cache),
         NEW new, new = SubSeq(cache, m, Len(cache))
  PROVE  /\ new \in Seq(EntryOf(S)) /\ Len(new) = Len(cache) - m + 1 /\ Orderly(new)
         /\ Entries(new) = {cache[i] : i \in m..Len(cache)}
<1>1. m \in Int /\ Len(cache) \in Int /\ \A i \in m..Len(cache) : cache[i] \in EntryOf(S)
  BY EntriesType
<1>2. /\ new \in Seq(EntryOf(S)) /\ Len(new) = Len(cache) - m + 1
      /\ \A i \in 1..(Len(cache) - m + 1) : new[i] = cache[m + i - 1]
  BY <1>1, SubSeqProperties
<1>3. DOMAIN new = 1..(Len(cache) - m + 1)
  BY <1>2
<1>4. \A i \in DOMAIN new : m + i - 1 \in m..Len(cache) /\ new[i] = cache[m + i - 1]
  BY <1>1, <1>2, <1>3
<1>5. \A i \in m..Len(cache) : i - m + 1 \in DOMAIN new /\ new[i - m + 1] = cache[i]
  BY <1>1, <1>2, <1>3
<1>6. Orderly(new)
  <2> SUFFICES ASSUME NEW i \in DOMAIN new, NEW n \in DOMAIN new, i < n
               PROVE  new[i].expiry <= new[n].expiry /\ new[i].key # new[n].key
    BY DEF Orderly
  <2>1. /\ m + i - 1 \in DOMAIN cache /\ m + n - 1 \in DOMAIN cache
        /\ m + i - 1 < m + n - 1
    BY <1>3, EntriesType
  <2> QED
    BY <1>4, <2>1 DEF Orderly
<1>7. Entries(new) = {cache[i] : i \in m..Len(cache)}
  <2>1. ASSUME NEW i \in DOMAIN new PROVE new[i] \in {cache[n] : n \in m..Len(cache)}
    BY <1>4
  <2>2. ASSUME NEW n \in m..Len(cache) PROVE cache[n] \in {new[i] : i \in DOMAIN new}
    BY <1>5
  <2> QED
    BY <2>1, <2>2 DEF Entries
<1> QED
  BY <1>2, <1>6, <1>7

\* Pruning removes what has expired, and no more: in an orderly cache whatever is
\* behind a live entry is live.
LEMMA PruneEntries ==
  ASSUME NEW S, NEW cache \in Seq(EntryOf(S)), NEW now \in Nat, Orderly(cache),
         NEW new, new = Prune(cache, now)
  PROVE  /\ new \in Seq(EntryOf(S)) /\ Len(new) <= Len(cache) /\ Orderly(new)
         /\ Entries(new) = {e \in Entries(cache) : e.expiry > now}
<1> DEFINE live  == {i \in DOMAIN cache : cache[i].expiry > now}
           first == CHOOSE i \in live : \A n \in live : i <= n
<1>0. new = IF live = {} THEN <<>> ELSE SubSeq(cache, first, Len(cache))
  BY DEF Prune
<1>1. CASE live = {}
  <2>1. new = <<>>
    BY <1>0, <1>1
  <2>2. {e \in Entries(cache) : e.expiry > now} = {}
    BY <1>1 DEF Entries
  <2> HIDE DEF live
  <2> QED
    BY <2>1, <2>2, EntriesType DEF Orderly, Entries
<1>2. CASE live # {}
  <2>1. live \subseteq Nat /\ live \subseteq DOMAIN cache
    BY EntriesType
  <2>2. \E i \in live : \A n \in live : i <= n
    BY <1>2, <2>1, SmallestNumber
  <2>3. first \in live /\ \A n \in live : first <= n
    BY <2>2
  <2>4. \A i \in DOMAIN cache : i \in live <=> cache[i].expiry > now
    OBVIOUS
  <2> HIDE DEF live, first
  <2>5. first \in 1..Len(cache) /\ new = SubSeq(cache, first, Len(cache))
    BY <1>0, <1>2, <2>1, <2>3, EntriesType
  <2>6. /\ new \in Seq(EntryOf(S)) /\ Len(new) = Len(cache) - first + 1 /\ Orderly(new)
        /\ Entries(new) = {cache[i] : i \in first..Len(cache)}
    BY <2>5, SuffixKeeps
  <2>7. \A i \in DOMAIN cache : cache[i].expiry > now <=> i \in first..Len(cache)
    <3>1. ASSUME NEW i \in DOMAIN cache, cache[i].expiry > now PROVE i \in first..Len(cache)
      BY <2>3, <2>4, <2>5, <3>1, EntriesType
    <3>2. ASSUME NEW i \in first..Len(cache) PROVE cache[i].expiry > now
      <4>1. cache[first].expiry > now
        BY <2>1, <2>3, <2>4
      <4>2. i \in DOMAIN cache /\ first \in DOMAIN cache /\ (i = first \/ first < i)
        BY <2>5, EntriesType
      <4>3. cache[first].expiry <= cache[i].expiry
        BY <4>2, EntriesType DEF Orderly
      <4> QED
        BY <4>1, <4>2, <4>3, EntriesType
    <3> QED
      BY <3>1, <3>2
  <2>8. Entries(new) = {e \in Entries(cache) : e.expiry > now}
    <3>1. first..Len(cache) \subseteq DOMAIN cache
      BY <2>5, EntriesType
    <3>2. \A e : e \in {cache[i] : i \in first..Len(cache)}
                  <=> e \in {cache[i] : i \in DOMAIN cache} /\ e.expiry > now
      BY <2>7, <3>1
    <3> QED
      BY <2>6, <3>2 DEF Entries
  <2> QED
    BY <2>5, <2>6, <2>8, EntriesType
<1> QED
  BY <1>1, <1>2

-----------------------------------------------------------------------------
\* No key is twice in an orderly cache, so that it has as many keys as entries.
LEMMA CountedKeys ==
  ASSUME NEW S, NEW cache \in Seq(EntryOf(S)), Orderly(cache)
  PROVE  IsFiniteSet(Keys(cache)) /\ Cardinality(Keys(cache)) = Len(cache)
<1> DEFINE f == [i \in 1..Len(cache) |-> cache[i].key]
<1>1. \A i, n \in 1..Len(cache) : i # n => cache[i].key # cache[n].key
  <2> SUFFICES ASSUME NEW i \in 1..Len(cache), NEW n \in 1..Len(cache), i # n
               PROVE  cache[i].key # cache[n].key
    OBVIOUS
  <2>1. i \in DOMAIN cache /\ n \in DOMAIN cache /\ (i < n \/ n < i)
    BY EntriesType
  <2> QED
    BY <2>1 DEF Orderly
<1>2. f \in Bijection(1..Len(cache), Keys(cache))
  BY <1>1, EntriesType DEF Keys, Bijection, Injection, Surjection, IsInjective
<1>3. IsFiniteSet(1..Len(cache)) /\ Cardinality(1..Len(cache)) = Len(cache)
  <2>1. 1 \in Int /\ Len(cache) \in Int /\ Len(cache) >= 0
    BY EntriesType
  <2> QED
    BY <2>1, FS_Interval
<1>4. ExistsBijection(1..Len(cache), Keys(cache))
  BY <1>2 DEF ExistsBijection
<1> QED
  BY <1>3, <1>4, FS_Bijection

\* Making room takes nothing from a cache that is not full, and the oldest entry
\* from one that is.
LEMMA RoomEntries ==
  ASSUME NEW S, NEW cache \in Seq(EntryOf(S)), NEW max \in Nat \ {0}, Len(cache) <= max,
         Orderly(cache), NEW new, new = MakeRoom(cache, max)
  PROVE  /\ new \in Seq(EntryOf(S)) /\ Len(new) < max /\ Orderly(new)
         /\ Entries(new) \subseteq Entries(cache)
         /\ Len(cache) < max => Entries(new) = Entries(cache)
<1>1. CASE Len(cache) < max
  BY <1>1 DEF MakeRoom
<1>2. CASE Len(cache) = max /\ max = 1
  <2>1. new = SubSeq(cache, 2, Len(cache)) /\ Len(cache) < 2
    BY <1>2 DEF MakeRoom
  <2>2. new = <<>>
    BY <2>1, SubSeqEmpty, EntriesType
  <2>3. Orderly(new) /\ Entries(new) = {}
    BY <2>2 DEF Orderly, Entries
  <2>4. new \in Seq(EntryOf(S)) /\ Len(new) = 0
    BY <2>2
  <2>5. Len(new) < max /\ ~(Len(cache) < max)
    BY <1>2, <2>4
  <2>6. Entries(new) \subseteq Entries(cache)
    BY <2>3
  <2> QED
    BY <2>3, <2>4, <2>5, <2>6
<1>3. CASE Len(cache) = max /\ max # 1
  <2>1. new = SubSeq(cache, 2, Len(cache)) /\ 2 \in 1..Len(cache)
    BY <1>3, EntriesType DEF MakeRoom
  <2>2. /\ new \in Seq(EntryOf(S)) /\ Len(new) = Len(cache) - 2 + 1 /\ Orderly(new)
        /\ Entries(new) = {cache[i] : i \in 2..Len(cache)}
    BY <2>1, SuffixKeeps
  <2>3. 2..Len(cache) \subseteq DOMAIN cache
    BY EntriesType
  <2>4. Entries(new) \subseteq Entries(cache)
    BY <2>2, <2>3 DEF Entries
  <2> QED
    BY <1>3, <2>2, <2>4, EntriesType
<1> QED
  BY <1>1, <1>2, <1>3, EntriesType

\* What is remembered is there, in order, within the bound; and what was there is
\* still there unless the cache was full, of as many keys as it may hold.
LEMMA RememberEntries ==
  ASSUME NEW S, NEW cache \in Seq(EntryOf(S)), NEW max \in Nat \ {0}, Len(cache) <= max,
         Orderly(cache), NEW k \in S, k \notin Keys(cache), NEW t \in Nat,
         \A e \in Entries(cache) : e.expiry <= t,
         NEW new, new = Remember(cache, k, t, max)
  PROVE  /\ new \in Seq(EntryOf(S)) /\ Len(new) <= max /\ Orderly(new)
         /\ Entries(new) \subseteq Entries(cache) \cup {Entry(k, t)}
         /\ Entry(k, t) \in Entries(new)
         /\ Entries(cache) \subseteq Entries(new) \/ Cardinality(Keys(cache)) = max
<1> DEFINE room == MakeRoom(cache, max)
<1>1. /\ room \in Seq(EntryOf(S)) /\ Len(room) < max /\ Orderly(room)
      /\ Entries(room) \subseteq Entries(cache)
      /\ Len(cache) < max => Entries(room) = Entries(cache)
  BY RoomEntries
<1>2. new = Append(room, Entry(k, t))
  BY DEF Remember
<1>3. Entry(k, t) \in EntryOf(S) /\ Entry(k, t).key = k /\ Entry(k, t).expiry = t
  BY DEF Entry, EntryOf
<1> HIDE DEF room
<1>4. /\ new \in Seq(EntryOf(S)) /\ Len(new) = Len(room) + 1
      /\ DOMAIN new = 1..(Len(room) + 1) /\ DOMAIN room = 1..Len(room) /\ Len(room) \in Nat
      /\ \A i \in 1..Len(room) : new[i] = room[i]
      /\ new[Len(room) + 1] = Entry(k, t)
  BY <1>1, <1>2, <1>3, AppendProperties
<1>5. Entries(new) = Entries(room) \cup {Entry(k, t)}
  <2>1. \A i \in DOMAIN new : i \in DOMAIN room \/ i = Len(room) + 1
    BY <1>4
  <2> QED
    BY <1>4, <2>1 DEF Entries
<1>6. \A i \in DOMAIN room : room[i].expiry <= t /\ room[i].key # k
  <2>1. \A i \in DOMAIN room : room[i] \in Entries(cache)
    BY <1>1 DEF Entries
  <2> QED
    BY <2>1, KeysOfEntries
<1>7. Orderly(new)
  <2> SUFFICES ASSUME NEW i \in DOMAIN new, NEW n \in DOMAIN new, i < n
               PROVE  new[i].expiry <= new[n].expiry /\ new[i].key # new[n].key
    BY DEF Orderly
  <2>1. i \in DOMAIN room /\ (n \in DOMAIN room \/ n = Len(room) + 1)
    BY <1>4
  <2> QED
    BY <1>1, <1>3, <1>4, <1>6, <2>1 DEF Orderly
<1>8. Len(cache) < max \/ Cardinality(Keys(cache)) = max
  BY CountedKeys, EntriesType
<1> QED
  BY <1>1, <1>4, <1>5, <1>7, <1>8

LEMMA Joined ==
  ASSUME NEW S, NEW s \in Seq(S), NEW t \in Seq(S)
  PROVE  /\ s \o t \in Seq(S) /\ Len(s \o t) = Len(s) + Len(t)
         /\ \A i \in 1..Len(s) : (s \o t)[i] = s[i]
         /\ \A i \in 1..Len(t) : (s \o t)[Len(s) + i] = t[i]
OBVIOUS

\* One entry taken out of a sequence.
LEMMA OneOut ==
  ASSUME NEW S, NEW s \in Seq(S), NEW n \in 1..Len(s),
         NEW u, u = SubSeq(s, 1, n - 1) \o SubSeq(s, n + 1, Len(s))
  PROVE  /\ u \in Seq(S) /\ Len(u) = Len(s) - 1
         /\ \A i \in 1..(n - 1) : u[i] = s[i]
         /\ \A i \in n..(Len(s) - 1) : u[i] = s[i + 1]
<1> DEFINE fore == SubSeq(s, 1, n - 1)
           aft  == SubSeq(s, n + 1, Len(s))
<1>0. n \in Nat /\ Len(s) \in Nat /\ \A i \in 1..Len(s) : s[i] \in S
  OBVIOUS
<1>1. /\ fore \in Seq(S) /\ Len(fore) = n - 1
      /\ \A i \in 1..(n - 1) : fore[i] = s[i]
  <2>1. 1 \in Int /\ n - 1 \in Int /\ \A i \in 1..(n - 1) : s[i] \in S
    BY <1>0
  <2>2. /\ fore \in Seq(S) /\ Len(fore) = IF 1 <= n - 1 THEN (n - 1) - 1 + 1 ELSE 0
        /\ \A i \in 1..((n - 1) - 1 + 1) : fore[i] = s[1 + i - 1]
    BY <2>1, SubSeqProperties
  <2> QED
    BY <1>0, <2>2
<1>2. /\ aft \in Seq(S) /\ Len(aft) = Len(s) - n
      /\ \A i \in 1..(Len(s) - n) : aft[i] = s[n + i]
  <2>1. n + 1 \in Int /\ Len(s) \in Int /\ \A i \in (n + 1)..Len(s) : s[i] \in S
    BY <1>0
  <2>2. /\ aft \in Seq(S)
        /\ Len(aft) = IF n + 1 <= Len(s) THEN Len(s) - (n + 1) + 1 ELSE 0
        /\ \A i \in 1..(Len(s) - (n + 1) + 1) : aft[i] = s[(n + 1) + i - 1]
    BY <2>1, SubSeqProperties
  <2> QED
    BY <1>0, <2>2
<1>3. fore \in Seq(S) /\ aft \in Seq(S) /\ u = fore \o aft
  BY <1>1, <1>2
<1> HIDE DEF fore, aft
<1>4. /\ u \in Seq(S) /\ Len(u) = Len(fore) + Len(aft)
      /\ \A i \in 1..Len(fore) : u[i] = fore[i]
      /\ \A i \in 1..Len(aft) : u[Len(fore) + i] = aft[i]
  <2>1. /\ fore \o aft \in Seq(S) /\ Len(fore \o aft) = Len(fore) + Len(aft)
        /\ \A i \in 1..Len(fore) : (fore \o aft)[i] = fore[i]
        /\ \A i \in 1..Len(aft) : (fore \o aft)[Len(fore) + i] = aft[i]
    BY <1>3, Joined
  <2> QED
    BY <1>3, <2>1
<1>5. /\ Len(fore) = n - 1 /\ Len(aft) = Len(s) - n
      /\ \A i \in 1..(n - 1) : fore[i] = s[i]
      /\ \A i \in 1..(Len(s) - n) : aft[i] = s[n + i]
  BY <1>1, <1>2
<1>6. Len(u) = Len(s) - 1 /\ \A i \in 1..(n - 1) : u[i] = s[i]
  <2>1. Len(u) = (n - 1) + (Len(s) - n)
    BY <1>4, <1>5
  <2>2. (n - 1) + (Len(s) - n) = Len(s) - 1
    BY <1>0
  <2>3. \A i \in 1..(n - 1) : u[i] = fore[i]
    BY <1>4, <1>5
  <2> QED
    BY <1>5, <2>1, <2>2, <2>3
<1>7. ASSUME NEW i \in n..(Len(s) - 1) PROVE u[i] = s[i + 1]
  <2>1. PICK m \in 1..(Len(s) - n) : m = i - (n - 1) /\ (n - 1) + m = i /\ n + m = i + 1
    BY <1>0
  <2>2. u[(n - 1) + m] = aft[m] /\ aft[m] = s[n + m]
    BY <1>4, <1>5
  <2> QED
    BY <2>1, <2>2
<1> QED
  BY <1>4, <1>6, <1>7

\* Popping a key takes its entry, the only one, and leaves the others in order.
LEMMA WithoutEntries ==
  ASSUME NEW S, NEW cache \in Seq(EntryOf(S)), Orderly(cache), NEW k,
         NEW new, new = Without(cache, k)
  PROVE  /\ new \in Seq(EntryOf(S)) /\ Len(new) <= Len(cache) /\ Orderly(new)
         /\ Entries(new) = {e \in Entries(cache) : e.key # k}
<1> DEFINE at == {i \in DOMAIN cache : cache[i].key = k}
           n  == CHOOSE i \in at : TRUE
<1>1. CASE at = {}
  <2>1. new = cache
    BY <1>1 DEF Without
  <2>2. {e \in Entries(cache) : e.key # k} = Entries(cache)
    BY <1>1 DEF Entries
  <2> HIDE DEF at
  <2> QED
    BY <2>1, <2>2, EntriesType
<1>2. CASE at # {}
  <2>1. new = SubSeq(cache, 1, n - 1) \o SubSeq(cache, n + 1, Len(cache))
    BY <1>2 DEF Without
  <2>2. n \in DOMAIN cache /\ cache[n].key = k
    <3>1. n \in at
      BY <1>2
    <3> QED
      BY <3>1
  <2> HIDE DEF at, n
  <2>3. n \in 1..Len(cache) /\ Len(cache) \in Nat /\ \A i \in 1..Len(cache) : cache[i] \in EntryOf(S)
    BY <2>2, EntriesType
  <2>4. /\ new \in Seq(EntryOf(S)) /\ Len(new) = Len(cache) - 1
        /\ \A i \in 1..(n - 1) : new[i] = cache[i]
        /\ \A i \in n..(Len(cache) - 1) : new[i] = cache[i + 1]
    BY <2>1, <2>3, OneOut
  <2>5. DOMAIN new = 1..(Len(cache) - 1)
    BY <2>4
  <2>6. \A i \in DOMAIN new : new[i] = IF i < n THEN cache[i] ELSE cache[i + 1]
    BY <2>3, <2>4, <2>5
  <2> DEFINE source(i) == IF i < n THEN i ELSE i + 1
  <2>7. /\ \A i \in DOMAIN new : source(i) \in DOMAIN cache \ {n} /\ new[i] = cache[source(i)]
        /\ \A i, m \in DOMAIN new : i < m => source(i) < source(m)
    BY <2>3, <2>5, <2>6, EntriesType
  <2>8. \A m \in DOMAIN cache \ {n} : \E i \in DOMAIN new : source(i) = m
    <3> SUFFICES ASSUME NEW m \in DOMAIN cache \ {n} PROVE \E i \in DOMAIN new : source(i) = m
      OBVIOUS
    <3>1. CASE m < n
      <4>1. m \in DOMAIN new /\ source(m) = m
        BY <2>3, <2>5, <3>1, EntriesType
      <4> QED
        BY <4>1
    <3>2. CASE n < m
      <4>1. m - 1 \in DOMAIN new /\ source(m - 1) = m
        BY <2>3, <2>5, <3>2, EntriesType
      <4> QED
        BY <4>1
    <3> QED
      BY <2>3, <3>1, <3>2, EntriesType
  <2> HIDE DEF source
  <2>9. Orderly(new)
    BY <2>7 DEF Orderly
  <2>10. \A m \in DOMAIN cache : cache[m].key = k <=> m = n
    <3> SUFFICES ASSUME NEW m \in DOMAIN cache, m # n PROVE cache[m].key # cache[n].key
      BY <2>2
    <3>1. m < n \/ n < m
      BY <2>3, EntriesType
    <3> QED
      BY <2>2, <3>1 DEF Orderly
  <2>11. Entries(new) = {e \in Entries(cache) : e.key # k}
    BY <2>7, <2>8, <2>10 DEF Entries
  <2> QED
    BY <2>3, <2>4, <2>9, <2>11
<1> QED
  BY <1>1, <1>2

-----------------------------------------------------------------------------
\* Counting the keys that came in: numbered ones are finitely many, ...
LEMMA FiniteRange ==
  ASSUME NEW n \in Nat, NEW f, DOMAIN f = 1..n
  PROVE  IsFiniteSet({f[i] : i \in 1..n})
<1> DEFINE T == {f[i] : i \in 1..n}
           g == [i \in 1..n |-> f[i]]
<1>1. g \in Surjection(1..n, T)
  BY DEF Surjection
<1>2. IsFiniteSet(1..n)
  <2>1. 1 \in Int /\ n \in Int
    OBVIOUS
  <2> QED
    BY <2>1, FS_Interval
<1> HIDE DEF T, g
<1>3. IsFiniteSet(T)
  BY <1>1, <1>2, FS_Surjection
<1> QED
  BY <1>3 DEF T

\* ... others stay others when more come in, ...
LEMMA OthersStay ==
  ASSUME NEW S, NEW T, IsFiniteSet(T), S \subseteq T, NEW k, NEW max \in Nat,
         Cardinality(S \ {k}) >= max
  PROVE  Cardinality(T \ {k}) >= max
<1>1. IsFiniteSet(T \ {k}) /\ S \ {k} \in SUBSET (T \ {k})
  BY FS_Subset
<1>2. /\ Cardinality(S \ {k}) <= Cardinality(T \ {k})
      /\ IsFiniteSet(S \ {k})
  BY <1>1, FS_Subset
<1>3. Cardinality(S \ {k}) \in Nat /\ Cardinality(T \ {k}) \in Nat
  BY <1>1, <1>2, FS_CardinalityType
<1> QED
  BY <1>2, <1>3

\* ... and when one more comes in than a full cache holds, there are as many others
\* as it may hold.
LEMMA FullOfOthers ==
  ASSUME NEW K, NEW T, IsFiniteSet(T), K \subseteq T, NEW k \in K, NEW x \in T \ K,
         NEW max \in Nat, Cardinality(K) = max
  PROVE  Cardinality(T \ {k}) >= max
<1>1. IsFiniteSet(K) /\ IsFiniteSet(T \ {k})
  BY FS_Subset
<1>2. IsFiniteSet(K \ {k}) /\ Cardinality(K \ {k}) = max - 1
  BY <1>1, FS_RemoveElement
<1> DEFINE M == (K \ {k}) \cup {x}
<1>3. Cardinality(M) = (max - 1) + 1
  BY <1>2, FS_AddElement
<1>4. M \in SUBSET (T \ {k})
  OBVIOUS
<1>5. Cardinality(M) <= Cardinality(T \ {k}) /\ Cardinality(T \ {k}) \in Nat
  BY <1>1, <1>4, FS_Subset, FS_CardinalityType
<1> HIDE DEF M
<1> QED
  BY <1>3, <1>5
=============================================================================
