----------------------- MODULE ReviewValidationProofs -----------------------
(***************************************************************************)
(* Whatever the findings, the patches, the budgets and the thresholds are: *)
(* the verdict of a returned and of a posted review is one that its        *)
(* findings support; validation keeps the strongest of each group of       *)
(* duplicates; what is posted is what was returned; inline comments are on *)
(* lines that GitHub's patch adds; and what is cut, of the context, of the *)
(* lists or of the body, the posted review says.                           *)
(*                                                                         *)
(* The loops of the code are folds in the model.  For each there is a      *)
(* lemma ...Trace: there is a function of the number of passes, the state  *)
(* that the loop has after them.  What a loop keeps is then shown by       *)
(* induction on that number (UpTo).                                        *)
(***************************************************************************)
EXTENDS ReviewValidation, SequenceTheorems, FiniteSetTheorems, WellFoundedInduction, TLAPS

\* The three cases of _consistent_verdict.
LEMMA VerdictFitsFindings ==
  ASSUME NEW verdict, NEW findings
  PROVE  LET v     == ConsistentVerdict(verdict, findings)
             found == ToSet(findings)
         IN /\ v = "approve" => \A f \in found : f.severity \notin {High, Critical}
            /\ v = "request_changes" => \E f \in found : Blocker(f)
<1> DEFINE v        == ConsistentVerdict(verdict, findings)
           blockers == \E i \in DOMAIN findings : Blocker(findings[i])
           serious  == \E i \in DOMAIN findings : findings[i].severity \in {High, Critical}
<1>1. v = "approve" => ~serious
  BY DEF ConsistentVerdict
<1>2. v = "request_changes" => blockers
  BY DEF ConsistentVerdict
<1>3. v = "approve" => \A f \in ToSet(findings) : f.severity \notin {High, Critical}
  BY <1>1 DEF ToSet
<1>4. v = "request_changes" => \E f \in ToSet(findings) : Blocker(f)
  BY <1>2 DEF ToSet
<1> QED
  BY <1>3, <1>4

LEMMA ValidateSupports ==
  ASSUME NEW review, NEW list
  PROVE  Supported(Validate(review, list))
<1> DEFINE r == Validate(review, list)
<1>1. /\ r.verdict = ConsistentVerdict(review.verdict, r.findings)
      /\ r.risk = ConsistentRisk(review.risk, r.findings)
  BY DEF Validate
<1>2. ToSet(r.findings) = {} => r.risk = 0
  BY <1>1 DEF ToSet, ConsistentRisk
<1> HIDE DEF r
<1>3. /\ r.verdict = "approve" => \A f \in ToSet(r.findings) : f.severity \notin {High, Critical}
      /\ r.verdict = "request_changes" => \E f \in ToSet(r.findings) : Blocker(f)
  BY <1>1, VerdictFitsFindings
<1>4. Supported(r)
  BY <1>2, <1>3 DEF Supported
<1> QED
  BY <1>4 DEF r

\* Warnings touch nothing but the limitations.
LEMMA WarningsKeep ==
  ASSUME NEW review, NEW list, NEW system
  PROVE  LET r == Validate(review, list)
             s == AddContextLimitations(r, system)
         IN /\ s.findings = r.findings /\ s.verdict = r.verdict /\ s.risk = r.risk
            /\ s.summary = r.summary /\ s.recommendations = r.recommendations
<1> DEFINE r == Validate(review, list)
<1>1. PICK f, v, k, m, t, l : r = [findings |-> f, verdict |-> v, risk |-> k, summary |-> m,
                                   recommendations |-> t, limitations |-> l]
  BY DEF Validate
<1> HIDE DEF r
<1>2. LET s == AddContextLimitations(r, system)
      IN /\ s.findings = r.findings /\ s.verdict = r.verdict /\ s.risk = r.risk
         /\ s.summary = r.summary /\ s.recommendations = r.recommendations
  BY <1>1 DEF AddContextLimitations
<1> QED
  BY <1>2 DEF r

\* "approve is incompatible with retained high/critical findings;
\* request_changes is reserved for meaningful blockers": of every review that is
\* returned or posted, also after the second validation dropped findings.
THEOREM ReviewVerdictSupported == Spec => []VerdictSupported
<1>1. Init => VerdictSupported
  BY DEF Init, VerdictSupported, Validated, Out
<1>2. VerdictSupported /\ [Next]_vars => VerdictSupported'
  <2> SUFFICES ASSUME VerdictSupported, [Next]_vars PROVE VerdictSupported'
    OBVIOUS
  <2>1. ASSUME NEW budget \in Budgets, NEW cut \in SUBSET {"body", "diff"},
             FetchContext(budget, cut)
        PROVE  VerdictSupported'
    BY <2>1 DEF FetchContext, VerdictSupported, Validated, Out
  <2>2. ASSUME NEW review \in Reviews, Return(review) PROVE VerdictSupported'
    <3>1. Supported(returned')
      <4>1. returned' = AddContextLimitations(Validate(review, context), warnings)
        BY <2>2 DEF Return
      <4> QED
        BY <4>1, WarningsKeep, ValidateSupports DEF Supported
    <3> QED
      BY <2>2, <3>1 DEF Return, VerdictSupported, Validated, Out, Supported
  <2>3. ASSUME NEW review \in Reviews, Supply(review) PROVE VerdictSupported'
    BY <2>3 DEF Supply, VerdictSupported, Validated, Out
  <2>4. ASSUME NEW list \in {context, files}, Post(list) PROVE VerdictSupported'
    <3>1. Supported(posted')
      BY <2>4, ValidateSupports DEF Post
    <3>2. stage' = "posted" => Supported(returned')
      BY <2>4 DEF Post, VerdictSupported, Validated, Supported
    <3> QED
      BY <2>4, <3>1, <3>2 DEF Post, VerdictSupported, Validated, Out, Supported
  <2>5. CASE UNCHANGED vars
    BY <2>5 DEF vars, VerdictSupported, Validated, Out, Supported
  <2> QED
    BY <2>1, <2>2, <2>3, <2>4, <2>5 DEF Next
<1> QED
  BY <1>1, <1>2, PTL DEF Spec

-----------------------------------------------------------------------------
(***************************************************************************)
(* Loops.  FoldLeft, which the model writes the loops of the code with, is *)
(* a recursion over sets of places; that the recursion has a solution is   *)
(* shown by induction, and so is what a loop keeps.                        *)
(***************************************************************************)
\* A set of numbers has a smallest, and one with a bound a greatest.
LEMMA SmallestOf ==
  ASSUME NEW S, S \subseteq Nat, S # {}
  PROVE  \E n \in S : \A m \in S : n <= m
<1>1. \E R : IsWellFoundedOn(R, Nat) /\ \A x, y \in Nat : x < y => <<x, y>> \in R
  <2>1. \A x, y \in Nat : x < y => <<x, y>> \in OpToRel(<, Nat)
    BY DEF OpToRel
  <2> QED
    BY <2>1, NatLessThanWellFounded, Zenon
<1>2. PICK R : IsWellFoundedOn(R, Nat) /\ \A x, y \in Nat : x < y => <<x, y>> \in R
  BY <1>1
<1>3. IsWellFoundedOn(R, Nat)
  BY <1>2
<1>4. \E n \in S : \A m \in S : ~(<<m, n>> \in R)
  BY <1>3, WFMin
<1>5. PICK n \in S : \A m \in S : ~(<<m, n>> \in R)
  BY <1>4
<1>6. \A m \in S : ~(m < n)
  BY <1>2, <1>5, Zenon
<1> QED
  BY <1>6

LEMMA GreatestOf ==
  ASSUME NEW bound \in Nat, NEW S, S \subseteq 0..bound, S # {}
  PROVE  \E n \in S : \A m \in S : m <= n
<1> DEFINE T == {bound - m : m \in S}
<1>1. T \subseteq Nat /\ T # {}
  <2>1. \A m \in S : bound - m \in Nat
    OBVIOUS
  <2> QED
    BY <2>1
<1>2. PICK t \in T : \A u \in T : t <= u
  <2> HIDE DEF T
  <2> QED
    BY <1>1, SmallestOf
<1>3. PICK n \in S : t = bound - n
  BY <1>2
<1>4. \A m \in S : m \in 0..bound /\ bound - n <= bound - m
  BY <1>2, <1>3
<1> QED
  BY <1>3, <1>4

\* Induction up to n, over a set.
LEMMA UpTo ==
  ASSUME NEW n \in Nat, NEW S, 0 \in S, \A k \in 1..n : k - 1 \in S => k \in S
  PROVE  \A k \in 0..n : k \in S
<1> DEFINE T == {k \in 0..n : k \notin S}
<1> SUFFICES ASSUME T # {} PROVE FALSE
  OBVIOUS
<1>1. T \subseteq Nat
  OBVIOUS
<1>2. PICK k \in T : \A m \in T : k <= m
  <2> HIDE DEF T
  <2> QED
    BY <1>1, SmallestOf
<1>3. k \in 1..n /\ k - 1 \in 0..n /\ ~(k <= k - 1)
  BY <1>2
<1>4. k - 1 \in S
  BY <1>2, <1>3
<1> QED
  BY <1>2, <1>3, <1>4

LEMMA MaxOf ==
  ASSUME NEW n \in Nat, NEW s, s \subseteq 0..n, s # {}
  PROVE  Max(s) \in s /\ \A k \in s : k <= Max(s)
<1>1. PICK m \in s : \A k \in s : k <= m
  BY GreatestOf
<1>2. \A k \in s : m >= k
  BY <1>1
<1>3. Max(s) \in s /\ \A k \in s : Max(s) >= k
  BY <1>2 DEF Max
<1>4. \A k \in s : k \in Int
  OBVIOUS
<1> QED
  BY <1>3, <1>4

LEMMA MaxOfPlaces ==
  ASSUME NEW n \in Nat, NEW s \in SUBSET (1..n), s # {}
  PROVE  Max(s) \in 1..n
<1>1. s \subseteq 0..n
  OBVIOUS
<1> QED
  BY <1>1, MaxOf

LEMMA MaxOfFirst ==
  ASSUME NEW k \in Nat, k # 0
  PROVE  Max(1..k) = k /\ (1..k) \ {k} = 1..k - 1 /\ 1..k # {}
<1>1. k \in 1..k /\ 1..k \subseteq 0..k
  OBVIOUS
<1>2. Max(1..k) \in 1..k /\ k <= Max(1..k)
  BY <1>1, MaxOf
<1> QED
  BY <1>1, <1>2

\* The recursion over sets of places by which FoldLeft is defined.
Folds(F, A, next, base, n, seq) ==
  /\ F \in [SUBSET (1..n) -> A]
  /\ \A s \in SUBSET (1..n) :
       F[s] = IF s = {} THEN base ELSE next[<<F[s \ {Max(s)}], seq[Max(s)]>>]

LEMMA FoldExists ==
  ASSUME NEW A, NEW B, NEW next \in [A \X B -> A], NEW base \in A,
         NEW n \in Nat, NEW seq \in [1..n -> B]
  PROVE  \E F : Folds(F, A, next, base, n, seq)
<1> DEFINE Fold(F, k) == Folds(F, A, next, base, k, seq)
           Good == {k \in 0..n : \E F : Fold(F, k)}
<1>1. 0 \in Good
  <2> DEFINE F == [s \in SUBSET (1..0) |-> base]
  <2>1. \A s \in SUBSET (1..0) : s = {}
    OBVIOUS
  <2>2. Fold(F, 0)
    BY <2>1 DEF Folds
  <2> QED
    BY <2>2
<1>2. ASSUME NEW k \in 1..n, k - 1 \in Good PROVE k \in Good
  <2>1. PICK F : Fold(F, k - 1)
    BY <1>2
  <2>0. /\ F \in [SUBSET (1..k - 1) -> A]
        /\ \A s \in SUBSET (1..k - 1) :
             F[s] = IF s = {} THEN base ELSE next[<<F[s \ {Max(s)}], seq[Max(s)]>>]
    BY <2>1 DEF Folds
  <2> DEFINE G == [s \in SUBSET (1..k) |-> IF k \in s THEN next[<<F[s \ {k}], seq[k]>>]
                                           ELSE F[s]]
  <2>2. \A s \in SUBSET (1..k) : s \ {k} \in SUBSET (1..k - 1)
    OBVIOUS
  <2>3. \A s \in SUBSET (1..k) : k \notin s => s \in SUBSET (1..k - 1)
    BY <2>2
  <2>4. \A s \in SUBSET (1..k - 1) : F[s] \in A /\ s \in SUBSET (1..k) /\ k \notin s
    BY <2>0
  <2>5. G \in [SUBSET (1..k) -> A]
    <3>1. \A s \in SUBSET (1..k) : <<F[s \ {k}], seq[k]>> \in A \X B
      BY <2>2, <2>4
    <3>2. ASSUME NEW s \in SUBSET (1..k)
          PROVE  (IF k \in s THEN next[<<F[s \ {k}], seq[k]>>] ELSE F[s]) \in A
      BY <2>3, <2>4, <3>1
    <3> QED
      BY <3>2
  <2>6. ASSUME NEW s \in SUBSET (1..k)
        PROVE  G[s] = IF s = {} THEN base ELSE next[<<G[s \ {Max(s)}], seq[Max(s)]>>]
    <3>1. CASE k \in s
      <4>1. Max(s) = k
        <5>1. k \in Nat /\ s \subseteq 1..k /\ s \subseteq 0..k /\ s # {}
          BY <3>1
        <5>2. Max(s) \in s /\ k <= Max(s)
          BY <3>1, <5>1, MaxOf
        <5>3. Max(s) \in 1..k
          BY <5>1, <5>2
        <5> QED
          BY <5>2, <5>3
      <4>2. s \ {k} \in SUBSET (1..k - 1) /\ k \notin s \ {k} /\ s \ {k} \in SUBSET (1..k)
        BY <2>2
      <4>3. G[s] = next[<<F[s \ {k}], seq[k]>>] /\ G[s \ {k}] = F[s \ {k}]
        BY <3>1, <4>2
      <4> HIDE DEF G
      <4> QED
        BY <3>1, <4>1, <4>3
    <3>2. CASE k \notin s
      <4>1. s \in SUBSET (1..k - 1) /\ G[s] = F[s]
        BY <2>3, <3>2
      <4>2. s \ {Max(s)} \in SUBSET (1..k - 1) /\ G[s \ {Max(s)}] = F[s \ {Max(s)}]
        BY <2>4, <4>1
      <4>3. F[s] = IF s = {} THEN base ELSE next[<<F[s \ {Max(s)}], seq[Max(s)]>>]
        BY <2>0, <4>1
      <4> HIDE DEF G
      <4> QED
        BY <4>1, <4>2, <4>3
    <3> QED
      BY <3>1, <3>2
  <2>7. Fold(G, k)
    <3> HIDE DEF G
    <3> QED
      BY <2>5, <2>6 DEF Folds
  <2> QED
    BY <2>7
<1>3. n \in 0..n
  OBVIOUS
<1>4. n \in Good
  <2> HIDE DEF Good
  <2> QED
    BY <1>1, <1>2, <1>3, UpTo
<1> QED
  BY <1>4

\* What becomes of a finding.
LEMMA MergeCases ==
  ASSUME NEW B, NEW u \in Seq(B), NEW f
  PROVE  \/ /\ \A i \in DOMAIN u : ~Duplicate(u[i], f)
            /\ Merge(u, f) = Append(u, f)
         \/ \E i \in DOMAIN u :
              /\ Duplicate(u[i], f)
              /\ Merge(u, f) = IF Stronger(f, u[i]) THEN [u EXCEPT ![i] = f] ELSE u
<1> DEFINE twins == {i \in DOMAIN u : Duplicate(u[i], f)}
           first == CHOOSE i \in twins : \A n \in twins : i <= n
<1>1. CASE twins = {}
  BY <1>1 DEF Merge
<1>2. CASE twins # {}
  <2>1. twins \subseteq Nat
    OBVIOUS
  <2>2. Merge(u, f) = IF Stronger(f, u[first]) THEN [u EXCEPT ![first] = f] ELSE u
    BY <1>2 DEF Merge
  <2>3. first \in twins
    <3> HIDE DEF twins
    <3>1. \E i \in twins : \A n \in twins : i <= n
      BY <1>2, <2>1, SmallestOf
    <3> QED
      BY <3>1, Zenon
  <2> HIDE DEF first
  <2> QED
    BY <2>2, <2>3
<1> QED
  BY <1>1, <1>2

\* What Deduplicate has after each finding.
LEMMA DeduplicateTrace ==
  ASSUME NEW B, NEW seq \in Seq(B)
  PROVE  \E g : /\ g[0] = <<>>
                /\ \A k \in 1..Len(seq) : g[k] = Merge(g[k - 1], seq[k])
                /\ Deduplicate(seq) = g[Len(seq)]
<1> DEFINE n    == Len(seq)
           next == [p \in Seq(B) \X B |-> Merge(p[1], p[2])]
           Rec(F) == [s \in SUBSET (1..n) |->
                        IF s = {} THEN <<>> ELSE Merge(F[s \ {Max(s)}], seq[Max(s)])]
           iter == CHOOSE F : F = Rec(F)
<1>1. n \in Nat /\ seq \in [1..n -> B] /\ DOMAIN seq = 1..n
  BY LenProperties
<1>2. next \in [Seq(B) \X B -> Seq(B)]
  <2>1. ASSUME NEW u \in Seq(B), NEW f \in B PROVE Merge(u, f) \in Seq(B)
    <3>1. \A i \in DOMAIN u : [u EXCEPT ![i] = f] \in Seq(B)
      BY LenProperties, ExceptSeq
    <3>2. Append(u, f) \in Seq(B)
      OBVIOUS
    <3> QED
      BY <3>1, <3>2, MergeCases
  <2> QED
    BY <2>1
<1>3. PICK F : Folds(F, Seq(B), next, <<>>, n, seq)
  <2> HIDE DEF n, next
  <2>1. <<>> \in Seq(B)
    OBVIOUS
  <2> QED
    BY <1>1, <1>2, <2>1, FoldExists
<1>4. F = Rec(F)
  <2>0. /\ F \in [SUBSET (1..n) -> Seq(B)]
        /\ \A s \in SUBSET (1..n) :
             F[s] = IF s = {} THEN <<>> ELSE next[<<F[s \ {Max(s)}], seq[Max(s)]>>]
    BY <1>3 DEF Folds
  <2>1. ASSUME NEW s \in SUBSET (1..n), s # {}
        PROVE  F[s] = Merge(F[s \ {Max(s)}], seq[Max(s)])
    <3>1. Max(s) \in 1..n
      BY <1>1, <2>1, MaxOfPlaces
    <3>2. F[s \ {Max(s)}] \in Seq(B) /\ seq[Max(s)] \in B
      BY <1>1, <2>0, <3>1
    <3> QED
      BY <2>0, <2>1, <3>2
  <2> QED
    BY <2>0, <2>1
<1>5. iter = Rec(iter)
  <2> HIDE DEF Rec
  <2> QED
    BY <1>4, Zenon
<1>6. Deduplicate(seq) = iter[1..n]
  BY <1>1 DEF Deduplicate, FoldLeft, MapThenFoldSet
<1> HIDE DEF iter
<1> DEFINE g == [k \in 0..n |-> iter[1..k]]
<1>7. g[0] = <<>> /\ g[n] = iter[1..n]
  BY <1>1, <1>5
<1>8. ASSUME NEW k \in 1..n PROVE g[k] = Merge(g[k - 1], seq[k])
  <2>1. Max(1..k) = k /\ (1..k) \ {k} = 1..k - 1 /\ 1..k # {} /\ 1..k \in SUBSET (1..n)
    BY <1>1, MaxOfFirst
  <2>2. iter[1..k] = Merge(iter[1..k - 1], seq[k])
    BY <1>5, <2>1
  <2> QED
    BY <1>1, <2>2
<1> HIDE DEF g
<1> QED
  BY <1>6, <1>7, <1>8

LEMMA EligibleTrace ==
  ASSUME NEW B, NEW seq \in Seq(B), NEW list
  PROVE  \E g : /\ g[0] = <<>>
                /\ \A k \in 1..Len(seq) :
                     g[k] = IF seq[k].confidence >= MinConfidence /\ seq[k].path \in Paths(list)
                              THEN Append(g[k - 1], seq[k]) ELSE g[k - 1]
                /\ Eligible(seq, list) = g[Len(seq)]
<1> DEFINE n    == Len(seq)
           Keep(kept, f) == IF f.confidence >= MinConfidence /\ f.path \in Paths(list)
                              THEN Append(kept, f) ELSE kept
           next == [p \in Seq(B) \X B |-> Keep(p[1], p[2])]
           Rec(F) == [s \in SUBSET (1..n) |->
                        IF s = {} THEN <<>> ELSE Keep(F[s \ {Max(s)}], seq[Max(s)])]
           iter == CHOOSE F : F = Rec(F)
<1>1. n \in Nat /\ seq \in [1..n -> B] /\ DOMAIN seq = 1..n
  BY LenProperties
<1>2. next \in [Seq(B) \X B -> Seq(B)]
  <2>1. ASSUME NEW u \in Seq(B), NEW f \in B PROVE Keep(u, f) \in Seq(B)
    OBVIOUS
  <2> HIDE DEF Keep
  <2> QED
    BY <2>1
<1>3. PICK F : Folds(F, Seq(B), next, <<>>, n, seq)
  <2> HIDE DEF n, next
  <2>1. <<>> \in Seq(B)
    OBVIOUS
  <2> QED
    BY <1>1, <1>2, <2>1, FoldExists
<1>4. F = Rec(F)
  <2> HIDE DEF Keep
  <2>1. /\ F \in [SUBSET (1..n) -> Seq(B)]
        /\ \A s \in SUBSET (1..n) :
             F[s] = IF s = {} THEN <<>> ELSE next[<<F[s \ {Max(s)}], seq[Max(s)]>>]
    BY <1>3 DEF Folds
  <2>2. ASSUME NEW s \in SUBSET (1..n), s # {}
        PROVE  F[s] = Keep(F[s \ {Max(s)}], seq[Max(s)])
    <3>1. Max(s) \in 1..n
      BY <1>1, <2>2, MaxOfPlaces
    <3>2. F[s \ {Max(s)}] \in Seq(B) /\ seq[Max(s)] \in B
      BY <1>1, <2>1, <3>1
    <3> QED
      BY <2>1, <2>2, <3>2
  <2> QED
    BY <2>1, <2>2
<1>5. iter = Rec(iter)
  <2> HIDE DEF Rec
  <2> QED
    BY <1>4, Zenon
<1>6. Eligible(seq, list) = iter[1..n]
  BY <1>1 DEF Eligible, FoldLeft, MapThenFoldSet
<1> HIDE DEF iter
<1> DEFINE g == [k \in 0..n |-> iter[1..k]]
<1>7. g[0] = <<>> /\ g[n] = iter[1..n]
  BY <1>1, <1>5
<1>8. ASSUME NEW k \in 1..n PROVE g[k] = Keep(g[k - 1], seq[k])
  <2> HIDE DEF Keep
  <2>1. Max(1..k) = k /\ (1..k) \ {k} = 1..k - 1 /\ 1..k # {} /\ 1..k \in SUBSET (1..n)
    BY <1>1, MaxOfFirst
  <2>2. iter[1..k] = Keep(iter[1..k - 1], seq[k])
    BY <1>5, <2>1
  <2> QED
    BY <1>1, <2>2
<1> HIDE DEF g
<1> QED
  BY <1>6, <1>7, <1>8

-----------------------------------------------------------------------------
(***************************************************************************)
(* What deduplication keeps.                                               *)
(***************************************************************************)
LEMMA FindingFields ==
  ASSUME NEW f \in Findings
  PROVE  /\ f.confidence \in Nat /\ f.severity \in Nat /\ f.line \in Nat /\ f.start \in Nat
         /\ f.start <= f.line
  BY DEF Findings, Critical

\* Strength is a weak order.
LEMMA StrongerOrder ==
  ASSUME NEW f \in Findings, NEW g \in Findings, NEW h \in Findings, ~Stronger(f, g)
  PROVE  /\ ~Stronger(f, f)
         /\ Stronger(h, g) => ~Stronger(f, h)
         /\ ~Stronger(g, h) => ~Stronger(f, h)
<1> DEFINE Number(x) == x.confidence \in Nat /\ x.severity \in Nat
<1>1. Number(f) /\ Number(g) /\ Number(h)
  BY FindingFields
<1> QED
  BY <1>1 DEF Stronger

LEMMA DuplicateSymmetric ==
  ASSUME NEW f, NEW g
  PROVE  Duplicate(f, g) <=> Duplicate(g, f)
  BY DEF Duplicate

\* Eligible findings are some of the findings, and all if all are eligible.
LEMMA EligibleSome ==
  ASSUME NEW B, NEW seq \in Seq(B), NEW list
  PROVE  /\ Eligible(seq, list) \in Seq(B)
         /\ \A f \in ToSet(Eligible(seq, list)) :
              f \in ToSet(seq) /\ f.confidence >= MinConfidence /\ f.path \in Paths(list)
         /\ (\A f \in ToSet(seq) : f.confidence >= MinConfidence /\ f.path \in Paths(list))
              => Eligible(seq, list) = seq
<1> DEFINE n == Len(seq)
           Passes(f) == f.confidence >= MinConfidence /\ f.path \in Paths(list)
<1>1. PICK g : /\ g[0] = <<>>
               /\ \A k \in 1..n : g[k] = IF Passes(seq[k]) THEN Append(g[k - 1], seq[k])
                                         ELSE g[k - 1]
               /\ Eligible(seq, list) = g[n]
  BY EligibleTrace
<1> HIDE DEF Passes
<1>2. n \in Nat /\ n \in 0..n /\ DOMAIN seq = 1..n /\ \A k \in 1..n : seq[k] \in B
  BY LenProperties
<1>3. \A k \in 1..n : k - 1 \in 0..n
  OBVIOUS
<1> DEFINE Good == {k \in 0..n : /\ g[k] \in Seq(B)
                                 /\ \A i \in DOMAIN g[k] :
                                      Passes(g[k][i]) /\ \E j \in 1..n : g[k][i] = seq[j]}
<1>4. 0 \in Good
  <2>1. g[0] = <<>> /\ g[0] \in Seq(B) /\ DOMAIN g[0] = {} /\ 0 \in 0..n
    BY <1>1, <1>2
  <2> QED
    BY <2>1
<1>5. ASSUME NEW k \in 1..n, k - 1 \in Good PROVE k \in Good
  <2>1. CASE Passes(seq[k])
    <3>1. g[k] = Append(g[k - 1], seq[k])
      BY <1>1, <2>1
    <3>2. g[k] \in Seq(B)
      BY <1>2, <1>5, <3>1
    <3>3. ASSUME NEW i \in DOMAIN g[k]
          PROVE  g[k][i] = seq[k] \/ (i \in DOMAIN g[k - 1] /\ g[k][i] = g[k - 1][i])
      BY <1>2, <1>5, <3>1
    <3> QED
      BY <1>5, <2>1, <3>2, <3>3
  <2>2. CASE ~Passes(seq[k])
    BY <1>1, <1>5, <2>2
  <2> QED
    BY <2>1, <2>2
<1>6. n \in Good
  <2> HIDE DEF Good
  <2> QED
    BY <1>2, <1>4, <1>5, UpTo
<1>7. ASSUME NEW f \in ToSet(Eligible(seq, list)) PROVE f \in ToSet(seq) /\ Passes(f)
  BY <1>1, <1>2, <1>6 DEF ToSet
<1>8. ASSUME \A f \in ToSet(seq) : Passes(f) PROVE Eligible(seq, list) = seq
  <2> DEFINE Same == {k \in 0..n : g[k] \in Seq(B) /\ Len(g[k]) = k
                                     /\ \A i \in 1..k : g[k][i] = seq[i]}
  <2>1. 0 \in Same
    <3>1. g[0] = <<>> /\ g[0] \in Seq(B) /\ Len(g[0]) = 0 /\ 0 \in 0..n
          /\ \A i \in 1..0 : FALSE
      BY <1>1, <1>2
    <3> QED
      BY <3>1
  <2>2. ASSUME NEW k \in 1..n, k - 1 \in Same PROVE k \in Same
    <3>1. g[k] = Append(g[k - 1], seq[k])
      BY <1>1, <1>2, <1>8 DEF ToSet
    <3>2. g[k] \in Seq(B) /\ Len(g[k]) = k
      BY <1>2, <2>2, <3>1
    <3>3. \A i \in 1..k : g[k][i] = seq[i]
      BY <1>2, <2>2, <3>1
    <3> QED
      BY <3>2, <3>3
  <2>3. n \in Same
    <3> HIDE DEF Same
    <3> QED
      BY <1>2, <2>1, <2>2, UpTo
  <2> QED
    BY <1>1, <2>3, SeqEqual
<1> QED
  BY <1>1, <1>6, <1>7, <1>8 DEF Passes

\* Every finding so far is outdone or equalled by one that is kept, of its group.
LEMMA DeduplicateKeepsStrongest ==
  ASSUME NEW seq \in Seq(Findings)
  PROVE  /\ Deduplicate(seq) \in Seq(Findings)
         /\ ToSet(Deduplicate(seq)) \subseteq ToSet(seq)
         /\ \A group \in Groups(ToSet(seq)) : \A f \in group :
              \E h \in group \cap ToSet(Deduplicate(seq)) : ~Stronger(f, h)
<1> DEFINE n   == Len(seq)
           all == ToSet(seq)
           Safe(u, group, f) == \E i \in DOMAIN u : u[i] \in group /\ ~Stronger(f, u[i])
<1>1. PICK g : /\ g[0] = <<>>
               /\ \A k \in 1..n : g[k] = Merge(g[k - 1], seq[k])
               /\ Deduplicate(seq) = g[n]
  BY DeduplicateTrace
<1>2. /\ n \in Nat /\ n \in 0..n /\ \A k \in 1..n : seq[k] \in Findings /\ seq[k] \in all
      /\ \A f \in all : f \in Findings /\ \E k \in 1..n : f = seq[k]
  BY LenProperties DEF ToSet
<1> HIDE DEF all
<1> DEFINE Good == {k \in 0..n :
                      /\ g[k] \in Seq(Findings) /\ \A i \in DOMAIN g[k] : g[k][i] \in all
                      /\ \A group \in Groups(all) : \A j \in 1..k :
                           seq[j] \in group => Safe(g[k], group, seq[j])}
<1>3. 0 \in Good
  <2>1. g[0] = <<>> /\ g[0] \in Seq(Findings) /\ DOMAIN g[0] = {} /\ 0 \in 0..n
        /\ \A j \in 1..0 : FALSE
    BY <1>1, <1>2
  <2> QED
    BY <2>1
<1>4. ASSUME NEW k \in 1..n, k - 1 \in Good PROVE k \in Good
  <2> DEFINE u == g[k - 1]
             f == seq[k]
             v == g[k]
  <2>1. /\ u \in Seq(Findings) /\ f \in Findings /\ f \in all /\ v = Merge(u, f)
        /\ \A i \in DOMAIN u : u[i] \in all /\ u[i] \in Findings
        /\ k \in Nat /\ DOMAIN u = 1..Len(u) /\ Len(u) \in Nat
    BY <1>1, <1>2, <1>4
  <2>2. \A group \in Groups(all) : \A j \in 1..k - 1 :
          seq[j] \in group => Safe(u, group, seq[j])
    BY <1>4
  <2>3. \A j \in 1..k : (j \in 1..k - 1 \/ j = k) /\ seq[j] \in Findings
    BY <1>2
  <2> SUFFICES /\ v \in Seq(Findings) /\ \A i \in DOMAIN v : v[i] \in all
               /\ \A group \in Groups(all) : \A j \in 1..k :
                    seq[j] \in group => Safe(v, group, seq[j])
    OBVIOUS
  <2> HIDE DEF u, f, v, Good
  <2>4. seq[k] = f
    BY DEF f
  <2>5. CASE v = Append(u, f)
    <3>1. v \in Seq(Findings) /\ DOMAIN v = 1..Len(u) + 1 /\ v[Len(u) + 1] = f
      BY <2>1, <2>5
    <3>2. \A i \in DOMAIN u : i \in DOMAIN v /\ v[i] = u[i]
      BY <2>1, <2>5
    <3>3. \A i \in DOMAIN v : i \in DOMAIN u \/ v[i] = f
      BY <2>1, <3>1
    <3>4. \A i \in DOMAIN v : v[i] \in all
      BY <2>1, <3>2, <3>3
    <3>5. ASSUME NEW group \in Groups(all), NEW j \in 1..k, seq[j] \in group
          PROVE  Safe(v, group, seq[j])
      <4>1. CASE j = k
        <5>1. Len(u) + 1 \in DOMAIN v
          BY <2>1, <3>1
        <5>2. ~Stronger(f, f)
          BY <2>1, FindingFields DEF Stronger
        <5> QED
          BY <2>4, <3>1, <3>5, <4>1, <5>1, <5>2
      <4>2. CASE j \in 1..k - 1
        BY <2>2, <3>2, <3>5, <4>2
      <4> QED
        BY <2>3, <4>1, <4>2
    <3> QED
      BY <3>1, <3>4, <3>5
  <2>6. ASSUME NEW i \in DOMAIN u, Duplicate(u[i], f),
               v = IF Stronger(f, u[i]) THEN [u EXCEPT ![i] = f] ELSE u
        PROVE  /\ v \in Seq(Findings) /\ \A m \in DOMAIN v : v[m] \in all
               /\ \A group \in Groups(all) : \A j \in 1..k :
                    seq[j] \in group => Safe(v, group, seq[j])
    <3>1. /\ v \in Seq(Findings) /\ DOMAIN v = DOMAIN u
          /\ \A m \in DOMAIN u : m # i => v[m] = u[m]
          /\ v[i] = IF Stronger(f, u[i]) THEN f ELSE u[i]
      BY <2>1, <2>6
    <3>2. v[i] \in all /\ v[i] \in Findings
      BY <2>1, <2>6, <3>1
    <3>3. \A m \in DOMAIN v : v[m] \in all
      BY <2>1, <3>1, <3>2
    <3>4. ASSUME NEW group \in Groups(all)
          PROVE  u[i] \in group <=> f \in group
      BY <2>1, <2>6, DuplicateSymmetric DEF Groups
    <3>5. ~Stronger(f, v[i]) /\ ~Stronger(u[i], v[i])
      BY <2>1, <2>6, <3>1, FindingFields DEF Stronger
    <3>6. ASSUME NEW group \in Groups(all), NEW j \in 1..k, seq[j] \in group
          PROVE  Safe(v, group, seq[j])
      <4>1. CASE j = k
        <5>1. v[i] \in group
          BY <2>4, <3>1, <3>4, <3>6, <4>1
        <5> QED
          BY <2>4, <2>6, <3>1, <3>5, <4>1, <5>1
      <4>2. CASE j \in 1..k - 1
        <5>1. PICK m \in DOMAIN u : u[m] \in group /\ ~Stronger(seq[j], u[m])
          BY <2>2, <3>6, <4>2
        <5>2. CASE m = i
          <6>1. v[i] \in group
            BY <3>1, <3>4, <5>1, <5>2
          <6>2. ~Stronger(seq[j], v[i])
            BY <2>1, <2>3, <3>2, <3>5, <5>1, <5>2, StrongerOrder
          <6> QED
            BY <2>6, <3>1, <6>1, <6>2
        <5>3. CASE m # i
          BY <3>1, <5>1, <5>3
        <5> QED
          BY <5>2, <5>3
      <4> QED
        BY <2>3, <4>1, <4>2
    <3> QED
      BY <3>1, <3>3, <3>6
  <2> QED
    BY <2>1, <2>5, <2>6, MergeCases
<1>5. n \in Good
  <2> HIDE DEF Good
  <2> QED
    BY <1>2, <1>3, <1>4, UpTo
<1> DEFINE w == Deduplicate(seq)
<1>6. /\ w \in Seq(Findings) /\ \A i \in DOMAIN w : w[i] \in all
      /\ \A group \in Groups(all) : \A j \in 1..n : seq[j] \in group => Safe(w, group, seq[j])
  BY <1>1, <1>5
<1> HIDE DEF w, Good, Safe
<1>7. ToSet(w) \subseteq all
  BY <1>6 DEF ToSet
<1>8. ASSUME NEW group \in Groups(all), NEW f \in group
      PROVE  \E h \in group \cap ToSet(w) : ~Stronger(f, h)
  <2>1. PICK j \in 1..n : f = seq[j]
    BY <1>2, <1>8 DEF Groups
  <2>2. Safe(w, group, f)
    BY <1>6, <1>8, <2>1
  <2> QED
    BY <2>2 DEF Safe, ToSet
<1> QED
  BY <1>6, <1>7, <1>8 DEF w, all

\* Clearing a location is all that _safe_location does to a finding.
LEMMA LocateClears ==
  ASSUME NEW f \in Findings, NEW list
  PROVE  /\ Clears(Locate(f, list), f) /\ Locate(f, list) \in Findings
         /\ Locate(f, list).confidence = f.confidence /\ Locate(f, list).severity = f.severity
         /\ Locate(f, list).path = f.path
<1> DEFINE added == ExtractChangedLines(PatchOf(list, f.path))
           g     == Locate(f, list)
           Base  == [id : STRING, title : STRING, path : STRING, line : Nat, start : Nat,
                     severity : 0..Critical, category : STRING, confidence : 0..100]
<1>1. g = [f EXCEPT !.line  = IF f.line \in added THEN f.line ELSE 0,
                    !.start = IF f.line \in added /\ f.start \in added THEN f.start ELSE 0]
  BY DEF Locate
<1> HIDE DEF added, g
<1>2. f \in Base /\ f.start <= f.line /\ f.line \in Nat
  BY DEF Findings
<1>3. g \in {f, [f EXCEPT !.start = 0], [f EXCEPT !.line = 0, !.start = 0]}
  <2>1. f = [f EXCEPT !.line = f.line, !.start = f.start]
    BY <1>2
  <2>2. [f EXCEPT !.start = 0] = [f EXCEPT !.line = f.line, !.start = 0]
    BY <1>2
  <2> QED
    BY <1>1, <2>1, <2>2
<1>4. ASSUME NEW h \in {f, [f EXCEPT !.start = 0], [f EXCEPT !.line = 0, !.start = 0]}
      PROVE  /\ h \in Base /\ h.start <= h.line
             /\ h.confidence = f.confidence /\ h.severity = f.severity /\ h.path = f.path
  <2>1. CASE h = f
    BY <1>2, <2>1
  <2>2. CASE h = [f EXCEPT !.start = 0]
    BY <1>2, <2>2
  <2>3. CASE h = [f EXCEPT !.line = 0, !.start = 0]
    <3>1. h \in Base
      BY <1>2, <2>3
    <3>2. h.line = 0 /\ h.start = 0
      BY <1>2, <2>3
    <3>3. h.confidence = f.confidence /\ h.severity = f.severity /\ h.path = f.path
      BY <1>2, <2>3
    <3> QED
      BY <3>1, <3>2, <3>3
  <2> QED
    BY <1>4, <2>1, <2>2, <2>3
<1>5. /\ g \in Base /\ g.start <= g.line
      /\ g.confidence = f.confidence /\ g.severity = f.severity /\ g.path = f.path
  <2> HIDE DEF Base
  <2> QED
    BY <1>3, <1>4
<1>6. g \in Findings
  BY <1>5 DEF Findings
<1> QED
  BY <1>3, <1>5, <1>6 DEF Clears, g

\* The findings of a validated review.
LEMMA ValidatedFindings ==
  ASSUME NEW review, review.findings \in Seq(Findings), NEW list
  PROVE  LET unique == Deduplicate(Eligible(review.findings, list))
             mapped == Validate(review, list).findings
         IN /\ unique \in Seq(Findings) /\ mapped \in Seq(Findings)
            /\ DOMAIN mapped = DOMAIN unique
            /\ \A i \in DOMAIN unique : mapped[i] = Locate(unique[i], list)
            /\ Len(mapped) = Len(unique)
<1> DEFINE eligible == Eligible(review.findings, list)
           unique   == Deduplicate(eligible)
           mapped   == [i \in DOMAIN unique |-> Locate(unique[i], list)]
<1>1. eligible \in Seq(Findings)
  BY EligibleSome
<1> HIDE DEF eligible
<1>2. unique \in Seq(Findings)
  BY <1>1, DeduplicateKeepsStrongest
<1> HIDE DEF unique
<1>3. \A i \in DOMAIN unique : Locate(unique[i], list) \in Findings
  BY <1>2, LocateClears
<1>4. mapped \in Seq(Findings) /\ DOMAIN mapped = DOMAIN unique /\ Len(mapped) = Len(unique)
  BY <1>2, <1>3
<1>5. Validate(review, list).findings = mapped
  BY DEF Validate, unique, eligible
<1> QED
  BY <1>2, <1>4, <1>5 DEF unique, eligible

LEMMA ValidateRepresents ==
  ASSUME NEW review, review.findings \in Seq(Findings), NEW list
  PROVE  Represents(ToSet(Validate(review, list).findings),
                    ToSet(Eligible(review.findings, list)))
<1> DEFINE eligible == Eligible(review.findings, list)
           unique   == Deduplicate(eligible)
           mapped   == Validate(review, list).findings
<1>1. /\ unique \in Seq(Findings) /\ DOMAIN mapped = DOMAIN unique
      /\ \A i \in DOMAIN unique : mapped[i] = Locate(unique[i], list)
  BY ValidatedFindings
<1>2. eligible \in Seq(Findings)
  BY EligibleSome
<1> HIDE DEF eligible, mapped
<1>3. /\ ToSet(unique) \subseteq ToSet(eligible)
      /\ \A group \in Groups(ToSet(eligible)) : \A f \in group :
           \E h \in group \cap ToSet(unique) : ~Stronger(f, h)
  BY <1>2, DeduplicateKeepsStrongest
<1> HIDE DEF unique
<1>4. ASSUME NEW h \in ToSet(unique)
      PROVE  \E g \in ToSet(mapped) : Clears(g, h)
  BY <1>1, LocateClears DEF ToSet
<1>5. ASSUME NEW g \in ToSet(mapped)
      PROVE  \E h \in ToSet(unique) : Clears(g, h)
  BY <1>1, LocateClears DEF ToSet
<1>6. \A g \in ToSet(mapped) : \E f \in ToSet(eligible) : Clears(g, f)
  BY <1>3, <1>5
<1>7. ASSUME NEW group \in Groups(ToSet(eligible)), NEW f \in group
      PROVE  \E g \in ToSet(mapped), h \in group : Clears(g, h) /\ ~Stronger(f, h)
  BY <1>3, <1>4
<1> QED
  BY <1>6, <1>7 DEF Represents, eligible, mapped

LEMMA ReviewType ==
  ASSUME NEW review \in Reviews
  PROVE  /\ review.findings \in Seq(Findings) /\ review \in ReviewResult
         /\ review.limitations \in Seq(STRING) /\ Len(review.limitations) <= MaxItems
         /\ review.risk \in 0..3
  BY ReviewValidationAssumption DEF ReviewResult, Texts

\* For any findings in any order, with any chains of duplicates: a returned review
\* invents no finding, and keeps the strongest of each group of duplicates.
THEOREM ReviewStrongestKept == Spec => []StrongestKept
<1>1. Init => StrongestKept
  BY DEF Init, StrongestKept, Validated
<1>2. StrongestKept /\ [Next]_vars => StrongestKept'
  <2> SUFFICES ASSUME StrongestKept, [Next]_vars PROVE StrongestKept'
    OBVIOUS
  <2>1. ASSUME NEW budget \in Budgets, NEW cut \in SUBSET {"body", "diff"},
               FetchContext(budget, cut)
        PROVE  StrongestKept'
    BY <2>1 DEF FetchContext, StrongestKept, Validated
  <2>2. ASSUME NEW review \in Reviews, Return(review) PROVE StrongestKept'
    <3>1. /\ returned' = AddContextLimitations(Validate(review, context), warnings)
          /\ raw' = review /\ context' = context
      BY <2>2 DEF Return
    <3>2. returned'.findings = Validate(review, context).findings
      BY <3>1, WarningsKeep
    <3>3. Represents(ToSet(Validate(review, context).findings),
                     ToSet(Eligible(review.findings, context)))
      BY ValidateRepresents, ReviewType
    <3> QED
      BY <3>1, <3>2, <3>3 DEF StrongestKept
  <2>3. ASSUME NEW review \in Reviews, Supply(review) PROVE StrongestKept'
    BY <2>3 DEF Supply, StrongestKept, Validated
  <2>4. ASSUME NEW list \in {context, files}, Post(list) PROVE StrongestKept'
    BY <2>4 DEF Post, StrongestKept, Validated
  <2>5. CASE UNCHANGED vars
    BY <2>5 DEF vars, StrongestKept, Validated
  <2> QED
    BY <2>1, <2>2, <2>3, <2>4, <2>5 DEF Next
<1> QED
  BY <1>1, <1>2, PTL DEF Spec

-----------------------------------------------------------------------------
(***************************************************************************)
(* Patches: what cutting them leaves, and the lines that they add.         *)
(***************************************************************************)
LineState == [lines : SUBSET Nat, new : Nat, inside : BOOLEAN]

LEMMA ReadLineType ==
  ASSUME NEW s \in LineState, NEW d \in DiffLine
  PROVE  ReadLine(s, d) \in LineState /\ s.lines \subseteq ReadLine(s, d).lines
<1> DEFINE here == IF d.kind = "hunk" THEN d.start ELSE s.new
<1>1. here \in Nat /\ s.lines \in SUBSET Nat
  BY DEF LineState, DiffLine
<1>2. CASE d.kind # "hunk" /\ ~s.inside
  BY <1>2 DEF ReadLine
<1>3. CASE ~(d.kind # "hunk" /\ ~s.inside)
  <2>1. ReadLine(s, d)
          = [lines  |-> IF d.kind = "added" THEN s.lines \cup {here} ELSE s.lines,
             new    |-> here + IF d.kind \in {"added", "context"} THEN 1 ELSE 0,
             inside |-> TRUE]
    BY <1>3 DEF ReadLine
  <2> HIDE DEF here
  <2>2. here + (IF d.kind \in {"added", "context"} THEN 1 ELSE 0) \in Nat
    BY <1>1
  <2>3. (IF d.kind = "added" THEN s.lines \cup {here} ELSE s.lines) \in SUBSET Nat
    BY <1>1
  <2> QED
    BY <2>1, <2>2, <2>3 DEF LineState
<1> QED
  BY <1>2, <1>3

NoLines == [lines |-> {}, new |-> 0, inside |-> FALSE]

LEMMA ExtractTrace ==
  ASSUME NEW seq \in Seq(DiffLine)
  PROVE  \E g : /\ g[0] = NoLines
                /\ \A k \in 1..Len(seq) : g[k] = ReadLine(g[k - 1], seq[k])
                /\ ExtractChangedLines(seq) = g[Len(seq)].lines
<1> DEFINE n    == Len(seq)
           next == [p \in LineState \X DiffLine |-> ReadLine(p[1], p[2])]
           Rec(F) == [s \in SUBSET (1..n) |->
                        IF s = {} THEN NoLines ELSE ReadLine(F[s \ {Max(s)}], seq[Max(s)])]
           iter == CHOOSE F : F = Rec(F)
<1>1. n \in Nat /\ seq \in [1..n -> DiffLine] /\ DOMAIN seq = 1..n
  BY LenProperties
<1>2. next \in [LineState \X DiffLine -> LineState]
  BY ReadLineType
<1>3. PICK F : Folds(F, LineState, next, NoLines, n, seq)
  <2>1. NoLines \in LineState
    BY DEF NoLines, LineState
  <2> HIDE DEF n, next
  <2> QED
    BY <1>1, <1>2, <2>1, FoldExists
<1>4. F = Rec(F)
  <2>1. /\ F \in [SUBSET (1..n) -> LineState]
        /\ \A s \in SUBSET (1..n) :
             F[s] = IF s = {} THEN NoLines ELSE next[<<F[s \ {Max(s)}], seq[Max(s)]>>]
    BY <1>3 DEF Folds
  <2>2. ASSUME NEW s \in SUBSET (1..n), s # {}
        PROVE  F[s] = ReadLine(F[s \ {Max(s)}], seq[Max(s)])
    <3>1. Max(s) \in 1..n
      BY <1>1, <2>2, MaxOfPlaces
    <3>2. F[s \ {Max(s)}] \in LineState /\ seq[Max(s)] \in DiffLine
      BY <1>1, <2>1, <3>1
    <3> QED
      BY <2>1, <2>2, <3>2
  <2> QED
    BY <2>1, <2>2
<1>5. iter = Rec(iter)
  <2> HIDE DEF Rec
  <2> QED
    BY <1>4, Zenon
<1>6. ExtractChangedLines(seq) = iter[1..n].lines
  BY <1>1 DEF ExtractChangedLines, FoldLeft, MapThenFoldSet, NoLines
<1> HIDE DEF iter
<1> DEFINE g == [k \in 0..n |-> iter[1..k]]
<1>7. g[0] = NoLines /\ g[n] = iter[1..n]
  BY <1>1, <1>5
<1>8. ASSUME NEW k \in 1..n PROVE g[k] = ReadLine(g[k - 1], seq[k])
  <2>1. Max(1..k) = k /\ (1..k) \ {k} = 1..k - 1 /\ 1..k # {} /\ 1..k \in SUBSET (1..n)
    BY <1>1, MaxOfFirst
  <2>2. iter[1..k] = ReadLine(iter[1..k - 1], seq[k])
    BY <1>5, <2>1
  <2> QED
    BY <1>1, <2>2
<1> HIDE DEF g
<1> QED
  BY <1>6, <1>7, <1>8

\* A beginning of a patch adds no line that the patch does not.
LEMMA ExtractOfPrefix ==
  ASSUME NEW patch \in Seq(DiffLine), NEW m \in 0..Len(patch), NEW part,
         part = SubSeq(patch, 1, m)
  PROVE  /\ part \in Seq(DiffLine)
         /\ ExtractChangedLines(part) \subseteq ExtractChangedLines(patch)
         /\ ExtractChangedLines(patch) \subseteq Nat
<1> DEFINE n == Len(patch)
<1>1. n \in Nat /\ m \in 0..n /\ \A k \in 1..n : patch[k] \in DiffLine
  BY LenProperties
<1>2. part \in Seq(DiffLine) /\ Len(part) = m /\ \A k \in 1..m : part[k] = patch[k]
  <2>1. \A k \in 1..m : patch[k] \in DiffLine
    BY <1>1
  <2> QED
    BY <2>1, SubSeqProperties
<1>3. PICK g : /\ g[0] = NoLines
               /\ \A k \in 1..n : g[k] = ReadLine(g[k - 1], patch[k])
               /\ ExtractChangedLines(patch) = g[n].lines
  BY ExtractTrace
<1>4. PICK h : /\ h[0] = NoLines
               /\ \A k \in 1..m : h[k] = ReadLine(h[k - 1], part[k])
               /\ ExtractChangedLines(part) = h[m].lines
  BY <1>2, ExtractTrace
<1> HIDE DEF n
<1> DEFINE Good == {k \in 0..n : /\ g[k] \in LineState
                                 /\ k <= m => g[k] = h[k]
                                 /\ m <= k => g[m].lines \subseteq g[k].lines}
<1>5. 0 \in Good
  <2>1. g[0] = h[0] /\ g[0] \in LineState /\ (m <= 0 => m = 0)
    BY <1>1, <1>3, <1>4 DEF NoLines, LineState
  <2> QED
    BY <1>1, <2>1
<1>6. ASSUME NEW k \in 1..n, k - 1 \in Good PROVE k \in Good
  <2>1. g[k] = ReadLine(g[k - 1], patch[k]) /\ g[k - 1] \in LineState /\ patch[k] \in DiffLine
    BY <1>1, <1>3, <1>6
  <2>2. g[k] \in LineState /\ g[k - 1].lines \subseteq g[k].lines
    BY <2>1, ReadLineType
  <2>3. ASSUME k <= m PROVE g[k] = h[k]
    <3>1. k \in 1..m /\ k - 1 <= m
      BY <1>1, <2>3
    <3>2. h[k] = ReadLine(h[k - 1], part[k]) /\ part[k] = patch[k] /\ h[k - 1] = g[k - 1]
      BY <1>2, <1>4, <1>6, <3>1
    <3> QED
      BY <2>1, <3>2
  <2>4. ASSUME m <= k PROVE g[m].lines \subseteq g[k].lines
    <3>1. m = k \/ m <= k - 1
      BY <1>1, <2>4
    <3> QED
      BY <1>6, <2>2, <3>1
  <2> QED
    BY <2>2, <2>3, <2>4
<1>7. \A k \in 0..n : k \in Good
  <2> HIDE DEF Good
  <2> QED
    BY <1>1, <1>5, <1>6, UpTo
<1>8. g[m] = h[m] /\ g[m].lines \subseteq g[n].lines /\ g[n] \in LineState
  BY <1>1, <1>7
<1> QED
  BY <1>2, <1>3, <1>4, <1>8 DEF LineState

\* The files of a context are GitHub's, with beginnings of their patches.
Shortens(list, whole) ==
  /\ list \in Seq(ChangedFile) /\ whole \in Seq(ChangedFile) /\ Len(list) = Len(whole)
  /\ \A i \in 1..Len(whole) :
       /\ list[i].path = whole[i].path
       /\ \E m \in 0..Len(whole[i].patch) : list[i].patch = SubSeq(whole[i].patch, 1, m)

LEMMA FileFields ==
  ASSUME NEW file \in ChangedFile
  PROVE  file.patch \in Seq(DiffLine) /\ file.path \in STRING
  BY DEF ChangedFile

LEMMA UptoIsPrefix ==
  ASSUME NEW S, NEW seq \in Seq(S), NEW n \in Nat
  PROVE  /\ Upto(seq, n) \in Seq(S) /\ Len(Upto(seq, n)) <= n
         /\ \E m \in 0..Len(seq) :
              /\ Upto(seq, n) = SubSeq(seq, 1, m) /\ m = Len(Upto(seq, n))
              /\ m = IF n < Len(seq) THEN n ELSE Len(seq)
              /\ \A i \in 1..m : Upto(seq, n)[i] = seq[i]
<1> DEFINE m == IF n < Len(seq) THEN n ELSE Len(seq)
<1>1. m \in 0..Len(seq) /\ m <= n
  OBVIOUS
<1> HIDE DEF m
<1>2. \A i \in 1..m : seq[i] \in S
  BY <1>1
<1>3. /\ SubSeq(seq, 1, m) \in Seq(S) /\ Len(SubSeq(seq, 1, m)) = m
      /\ \A i \in 1..m : SubSeq(seq, 1, m)[i] = seq[i]
  BY <1>1, <1>2, SubSeqProperties
<1>4. Upto(seq, n) = SubSeq(seq, 1, m)
  BY DEF Upto, m
<1> QED
  BY <1>1, <1>3, <1>4 DEF m

LEMMA ShortensItself ==
  ASSUME NEW list \in Seq(ChangedFile)
  PROVE  Shortens(list, list)
<1>1. ASSUME NEW i \in 1..Len(list)
      PROVE  \E m \in 0..Len(list[i].patch) : list[i].patch = SubSeq(list[i].patch, 1, m)
  <2> DEFINE patch == list[i].patch
  <2>1. patch \in Seq(DiffLine)
    BY FileFields
  <2> HIDE DEF patch
  <2>2. Len(patch) \in 0..Len(patch) /\ \A k \in 1..Len(patch) : patch[k] \in DiffLine
    BY <2>1
  <2>3. SubSeq(patch, 1, Len(patch)) = patch
    BY <2>1, <2>2, SubSeqProperties, SeqEqual
  <2> QED
    BY <2>2, <2>3 DEF patch
<1> QED
  BY <1>1 DEF Shortens

\* One file of bound_changed_file_patches.
CutFile(s, file) ==
  [list |-> Append(s.list, [file EXCEPT !.patch = Upto(file.patch, s.left)]),
   left |-> s.left - Len(Upto(file.patch, s.left))]

CutState == [list : Seq(ChangedFile), left : Nat]

LEMMA CutFileType ==
  ASSUME NEW s \in CutState, NEW file \in ChangedFile
  PROVE  /\ CutFile(s, file) \in CutState
         /\ CutFile(s, file).list = Append(s.list, [file EXCEPT !.patch = Upto(file.patch, s.left)])
         /\ [file EXCEPT !.patch = Upto(file.patch, s.left)] \in ChangedFile
<1> DEFINE kept == Upto(file.patch, s.left)
<1>1. file.patch \in Seq(DiffLine) /\ s.left \in Nat /\ s.list \in Seq(ChangedFile)
  BY FileFields DEF CutState
<1>2. kept \in Seq(DiffLine) /\ Len(kept) <= s.left
  BY <1>1, UptoIsPrefix
<1> HIDE DEF kept
<1>3. [file EXCEPT !.patch = kept] \in ChangedFile
  BY <1>2 DEF ChangedFile
<1>4. Append(s.list, [file EXCEPT !.patch = kept]) \in Seq(ChangedFile)
  BY <1>1, <1>3
<1>5. s.left - Len(kept) \in Nat
  BY <1>1, <1>2
<1> QED
  BY <1>3, <1>4, <1>5 DEF CutFile, CutState, kept

LEMMA BoundTrace ==
  ASSUME NEW seq \in Seq(ChangedFile), NEW budget \in Nat
  PROVE  \E g : /\ g[0] = [list |-> <<>>, left |-> budget]
                /\ \A k \in 1..Len(seq) : g[k] = CutFile(g[k - 1], seq[k])
                /\ Bound(seq, budget) = g[Len(seq)].list
<1> DEFINE n    == Len(seq)
           base == [list |-> <<>>, left |-> budget]
           next == [p \in CutState \X ChangedFile |-> CutFile(p[1], p[2])]
           Rec(F) == [s \in SUBSET (1..n) |->
                        IF s = {} THEN base ELSE CutFile(F[s \ {Max(s)}], seq[Max(s)])]
           iter == CHOOSE F : F = Rec(F)
<1>1. n \in Nat /\ seq \in [1..n -> ChangedFile] /\ DOMAIN seq = 1..n
  BY LenProperties
<1>2. next \in [CutState \X ChangedFile -> CutState]
  BY CutFileType
<1>3. PICK F : Folds(F, CutState, next, base, n, seq)
  <2>1. base \in CutState
    BY DEF CutState
  <2> HIDE DEF n, next, base
  <2> QED
    BY <1>1, <1>2, <2>1, FoldExists
<1>4. F = Rec(F)
  <2>1. /\ F \in [SUBSET (1..n) -> CutState]
        /\ \A s \in SUBSET (1..n) :
             F[s] = IF s = {} THEN base ELSE next[<<F[s \ {Max(s)}], seq[Max(s)]>>]
    BY <1>3 DEF Folds
  <2>2. ASSUME NEW s \in SUBSET (1..n), s # {}
        PROVE  F[s] = CutFile(F[s \ {Max(s)}], seq[Max(s)])
    <3>1. Max(s) \in 1..n
      BY <1>1, <2>2, MaxOfPlaces
    <3>2. F[s \ {Max(s)}] \in CutState /\ seq[Max(s)] \in ChangedFile
      BY <1>1, <2>1, <3>1
    <3> QED
      BY <2>1, <2>2, <3>2
  <2> QED
    BY <2>1, <2>2
<1>5. iter = Rec(iter)
  <2> HIDE DEF Rec
  <2> QED
    BY <1>4, Zenon
<1>6. Bound(seq, budget) = iter[1..n].list
  BY <1>1 DEF Bound, FoldLeft, MapThenFoldSet, CutFile
<1> HIDE DEF iter
<1> DEFINE g == [k \in 0..n |-> iter[1..k]]
<1>7. g[0] = base /\ g[n] = iter[1..n]
  BY <1>1, <1>5
<1>8. ASSUME NEW k \in 1..n PROVE g[k] = CutFile(g[k - 1], seq[k])
  <2>1. Max(1..k) = k /\ (1..k) \ {k} = 1..k - 1 /\ 1..k # {} /\ 1..k \in SUBSET (1..n)
    BY <1>1, MaxOfFirst
  <2>2. iter[1..k] = CutFile(iter[1..k - 1], seq[k])
    BY <1>5, <2>1
  <2> QED
    BY <1>1, <2>2
<1> HIDE DEF g
<1> QED
  BY <1>6, <1>7, <1>8

LEMMA BoundShortens ==
  ASSUME NEW seq \in Seq(ChangedFile), NEW budget \in Nat
  PROVE  Shortens(Bound(seq, budget), seq)
<1> DEFINE n == Len(seq)
           Begins(file, whole) ==
             /\ file.path = whole.path
             /\ \E m \in 0..Len(whole.patch) : file.patch = SubSeq(whole.patch, 1, m)
<1>1. n \in Nat /\ n \in 0..n /\ \A k \in 1..n : seq[k] \in ChangedFile
  BY LenProperties
<1>2. PICK g : /\ g[0] = [list |-> <<>>, left |-> budget]
               /\ \A k \in 1..n : g[k] = CutFile(g[k - 1], seq[k])
               /\ Bound(seq, budget) = g[n].list
  BY BoundTrace
<1> HIDE DEF n
<1> DEFINE Good == {k \in 0..n : /\ g[k] \in CutState /\ Len(g[k].list) = k
                                 /\ \A i \in 1..k : Begins(g[k].list[i], seq[i])}
<1>3. 0 \in Good
  <2>1. g[0] \in CutState /\ Len(g[0].list) = 0 /\ \A i \in 1..0 : FALSE
    BY <1>2 DEF CutState
  <2> QED
    BY <1>1, <2>1
<1>4. ASSUME NEW k \in 1..n, k - 1 \in Good PROVE k \in Good
  <2> DEFINE s    == g[k - 1]
             file == seq[k]
             new  == [file EXCEPT !.patch = Upto(file.patch, s.left)]
  <2>1. /\ s \in CutState /\ file \in ChangedFile /\ Len(s.list) = k - 1
        /\ \A i \in 1..k - 1 : Begins(s.list[i], seq[i])
    BY <1>1, <1>4
  <2>2. g[k] \in CutState /\ g[k].list = Append(s.list, new)
    <3>1. g[k] = CutFile(s, file)
      BY <1>2
    <3> HIDE DEF s, file
    <3> QED
      BY <2>1, <3>1, CutFileType
  <2>3. Begins(new, file)
    <3> HIDE DEF s, file
    <3>1. file.patch \in Seq(DiffLine) /\ s.left \in Nat
      BY <2>1, FileFields DEF CutState
    <3>2. \E m \in 0..Len(file.patch) : Upto(file.patch, s.left) = SubSeq(file.patch, 1, m)
      BY <3>1, UptoIsPrefix
    <3>3. new.path = file.path /\ new.patch = Upto(file.patch, s.left)
      BY <2>1 DEF ChangedFile
    <3> QED
      BY <3>2, <3>3
  <2> HIDE DEF s, new, Begins
  <2>4. s.list \in Seq(ChangedFile) /\ k \in Nat
    BY <1>1, <2>1 DEF CutState
  <2>5. /\ Len(g[k].list) = k /\ g[k].list[k] = new
        /\ \A i \in 1..k - 1 : g[k].list[i] = s.list[i]
    BY <2>1, <2>2, <2>4
  <2>6. \A i \in 1..k : i = k \/ i \in 1..k - 1
    BY <2>4
  <2>7. \A i \in 1..k : Begins(g[k].list[i], seq[i])
    BY <2>1, <2>3, <2>5, <2>6
  <2>8. k \in 0..n
    BY <1>1
  <2> QED
    BY <2>2, <2>5, <2>7, <2>8
<1>5. n \in Good
  <2> HIDE DEF Good
  <2> QED
    BY <1>1, <1>3, <1>4, UpTo
<1> QED
  BY <1>2, <1>5 DEF Shortens, CutState, n

LEMMA ShortensSameFiles ==
  ASSUME NEW list, NEW whole, Shortens(list, whole)
  PROVE  /\ Paths(list) = Paths(whole)
         /\ \A path \in Paths(whole) :
              /\ PatchOf(whole, path) \in Seq(DiffLine)
              /\ \E m \in 0..Len(PatchOf(whole, path)) :
                   PatchOf(list, path) = SubSeq(PatchOf(whole, path), 1, m)
<1> DEFINE n == Len(whole)
<1>1. /\ n \in Nat /\ DOMAIN list = 1..n /\ DOMAIN whole = 1..n
      /\ \A i \in 1..n :
           /\ list[i].path = whole[i].path /\ whole[i] \in ChangedFile
           /\ \E m \in 0..Len(whole[i].patch) : list[i].patch = SubSeq(whole[i].patch, 1, m)
  BY DEF Shortens
<1> HIDE DEF n
<1>2. Paths(list) = Paths(whole)
  BY <1>1 DEF Paths
<1>3. ASSUME NEW path \in Paths(whole)
      PROVE  /\ PatchOf(whole, path) \in Seq(DiffLine)
             /\ \E m \in 0..Len(PatchOf(whole, path)) :
                  PatchOf(list, path) = SubSeq(PatchOf(whole, path), 1, m)
  <2> DEFINE places == {i \in DOMAIN whole : whole[i].path = path}
  <2>1. places = {i \in DOMAIN list : list[i].path = path}
    BY <1>1
  <2>2. places \in SUBSET (1..n) /\ places # {}
    BY <1>1, <1>3 DEF Paths
  <2>3. PatchOf(whole, path) = whole[Max(places)].patch
    BY DEF PatchOf
  <2>4. PatchOf(list, path) = list[Max(places)].patch
    BY <2>1 DEF PatchOf
  <2> HIDE DEF places
  <2>5. Max(places) \in 1..n
    BY <1>1, <2>2, MaxOfPlaces
  <2> QED
    BY <1>1, <2>3, <2>4, <2>5, FileFields
<1> QED
  BY <1>2, <1>3

\* So a line that a context adds is one that GitHub's patch adds.
LEMMA ShortensAdds ==
  ASSUME NEW list, NEW whole, Shortens(list, whole), NEW path \in Paths(whole)
  PROVE  /\ ExtractChangedLines(PatchOf(list, path))
              \subseteq ExtractChangedLines(PatchOf(whole, path))
         /\ ExtractChangedLines(PatchOf(whole, path)) \subseteq Nat
<1> DEFINE patch == PatchOf(whole, path)
           part  == PatchOf(list, path)
<1>1. patch \in Seq(DiffLine) /\ \E m \in 0..Len(patch) : part = SubSeq(patch, 1, m)
  BY ShortensSameFiles
<1> HIDE DEF patch, part
<1>2. PICK m \in 0..Len(patch) : part = SubSeq(patch, 1, m)
  BY <1>1
<1>3. /\ ExtractChangedLines(part) \subseteq ExtractChangedLines(patch)
      /\ ExtractChangedLines(patch) \subseteq Nat
  BY <1>1, <1>2, ExtractOfPrefix
<1> QED
  BY <1>3 DEF patch, part

-----------------------------------------------------------------------------
(***************************************************************************)
(* The second validation.                                                  *)
(***************************************************************************)
\* A set of risks has a greatest one.
LEMMA MaxOfRisks ==
  ASSUME NEW risk \in 0..3, NEW others, others \subseteq 0..3
  PROVE  LET m == Max({risk} \cup others)
         IN m \in 0..3 /\ risk <= m /\ (\A k \in others : k <= m) /\ m \in {risk} \cup others
<1>1. {risk} \cup others \subseteq 0..3 /\ {risk} \cup others # {} /\ 3 \in Nat
  OBVIOUS
<1>2. /\ Max({risk} \cup others) \in {risk} \cup others
      /\ \A k \in {risk} \cup others : k <= Max({risk} \cup others)
  BY <1>1, MaxOf
<1> QED
  BY <1>1, <1>2

LEMMA MinimumRiskType ==
  ASSUME NEW f \in Findings
  PROVE  MinimumRisk(f.severity) \in 0..3
<1>1. f.severity \in 0..4
  BY DEF Findings, Critical
<1> QED
  BY <1>1 DEF MinimumRisk, Medium

\* _consistent_risk gives a risk that is enough for every finding, and changes
\* none that is.
LEMMA RiskFits ==
  ASSUME NEW risk \in 0..3, NEW findings \in Seq(Findings)
  PROVE  LET r == ConsistentRisk(risk, findings)
         IN /\ r \in 0..3
            /\ \A f \in ToSet(findings) : MinimumRisk(f.severity) <= r
            /\ /\ ToSet(findings) # {}
               /\ \A f \in ToSet(findings) : MinimumRisk(f.severity) <= risk
               => r = risk
<1> DEFINE others == {MinimumRisk(findings[i].severity) : i \in DOMAIN findings}
           r      == ConsistentRisk(risk, findings)
<1>1. others \subseteq 0..3
  BY MinimumRiskType
<1>2. others = {MinimumRisk(f.severity) : f \in ToSet(findings)}
  BY DEF ToSet
<1>3. CASE DOMAIN findings = {}
  BY <1>3 DEF ConsistentRisk, ToSet
<1>4. CASE DOMAIN findings # {}
  <2>1. r = Max({risk} \cup others)
    BY <1>4 DEF ConsistentRisk
  <2> HIDE DEF others, r
  <2>2. r \in 0..3 /\ risk <= r /\ (\A k \in others : k <= r) /\ r \in {risk} \cup others
    BY <1>1, <2>1, MaxOfRisks
  <2>3. \A f \in ToSet(findings) : MinimumRisk(f.severity) <= r
    BY <1>2, <2>2
  <2>4. (\A f \in ToSet(findings) : MinimumRisk(f.severity) <= risk) => r <= risk
    BY <1>2, <2>2
  <2> QED
    BY <2>2, <2>3, <2>4 DEF r
<1> QED
  BY <1>3, <1>4

\* The lines of the file of a finding that the patches add.
AddedFor(list, f) == ExtractChangedLines(PatchOf(list, f.path)) \cup {0}

\* What a validation against `list` makes sure of.
Settled(review, list) ==
  /\ review.findings \in Seq(Findings)
  /\ \A f \in ToSet(review.findings) :
       /\ f.confidence >= MinConfidence /\ f.path \in Paths(list)
       /\ f.line \in AddedFor(list, f) /\ f.start \in AddedFor(list, f)
       /\ MinimumRisk(f.severity) <= review.risk
  /\ review.risk \in 0..3
  /\ Supported(review)

LEMMA LocatePlaces ==
  ASSUME NEW f \in Findings, NEW list
  PROVE  LET g == Locate(f, list)
         IN g.line \in AddedFor(list, g) /\ g.start \in AddedFor(list, g)
<1> DEFINE added == ExtractChangedLines(PatchOf(list, f.path))
           g     == Locate(f, list)
<1>1. g = [f EXCEPT !.line  = IF f.line \in added THEN f.line ELSE 0,
                    !.start = IF f.line \in added /\ f.start \in added THEN f.start ELSE 0]
  BY DEF Locate
<1>2. g.path = f.path
  BY LocateClears
<1> HIDE DEF added, g
<1>3. g.line \in added \cup {0} /\ g.start \in added \cup {0}
  BY <1>1 DEF Findings
<1> QED
  BY <1>2, <1>3 DEF AddedFor, added, g

\* A finding whose lines are added, or none, stays as it is.
LEMMA LocateKeeps ==
  ASSUME NEW f \in Findings, NEW list,
         f.line \in AddedFor(list, f), f.start \in AddedFor(list, f)
  PROVE  Locate(f, list) = f
<1> DEFINE added == ExtractChangedLines(PatchOf(list, f.path))
<1>1. Locate(f, list)
        = [f EXCEPT !.line  = IF f.line \in added THEN f.line ELSE 0,
                    !.start = IF f.line \in added /\ f.start \in added THEN f.start ELSE 0]
  BY DEF Locate
<1>2. f.line \in added \cup {0} /\ f.start \in added \cup {0}
  BY DEF AddedFor
<1> HIDE DEF added
<1>3. f.line \in Nat /\ f.start \in Nat /\ f.start <= f.line
  BY FindingFields
<1>4. f.line = IF f.line \in added THEN f.line ELSE 0
  BY <1>2
<1>5. f.start = IF f.line \in added /\ f.start \in added THEN f.start ELSE 0
  BY <1>2, <1>3
<1>6. f = [f EXCEPT !.line = f.line, !.start = f.start]
  BY DEF Findings
<1> QED
  BY <1>1, <1>4, <1>5, <1>6

LEMMA ValidateSettles ==
  ASSUME NEW review, review.findings \in Seq(Findings), review.risk \in 0..3, NEW list
  PROVE  Settled(Validate(review, list), list)
<1> DEFINE eligible == Eligible(review.findings, list)
           unique   == Deduplicate(eligible)
           r        == Validate(review, list)
<1>1. /\ unique \in Seq(Findings) /\ r.findings \in Seq(Findings)
      /\ DOMAIN r.findings = DOMAIN unique
      /\ \A i \in DOMAIN unique : r.findings[i] = Locate(unique[i], list)
  BY ValidatedFindings
<1>2. /\ eligible \in Seq(Findings)
      /\ \A f \in ToSet(eligible) : f.confidence >= MinConfidence /\ f.path \in Paths(list)
  BY EligibleSome
<1> HIDE DEF eligible
<1>3. ToSet(unique) \subseteq ToSet(eligible)
  BY <1>2, DeduplicateKeepsStrongest
<1> HIDE DEF unique
<1>4. r.risk = ConsistentRisk(review.risk, r.findings)
  BY DEF Validate
<1>5. Supported(r)
  BY ValidateSupports
<1> HIDE DEF r
<1>6. r.risk \in 0..3 /\ \A f \in ToSet(r.findings) : MinimumRisk(f.severity) <= r.risk
  BY <1>1, <1>4, RiskFits
<1>7. ASSUME NEW g \in ToSet(r.findings)
      PROVE  /\ g.confidence >= MinConfidence /\ g.path \in Paths(list)
             /\ g.line \in AddedFor(list, g) /\ g.start \in AddedFor(list, g)
  <2>1. PICK i \in DOMAIN unique : g = Locate(unique[i], list)
    BY <1>1 DEF ToSet
  <2>2. unique[i] \in Findings /\ unique[i] \in ToSet(eligible)
    <3>1. unique[i] \in ToSet(unique)
      BY <2>1 DEF ToSet
    <3> QED
      BY <1>1, <1>3, <2>1, <3>1
  <2>3. g.confidence = unique[i].confidence /\ g.path = unique[i].path
    BY <2>1, <2>2, LocateClears
  <2>4. g.line \in AddedFor(list, g) /\ g.start \in AddedFor(list, g)
    BY <2>1, <2>2, LocatePlaces
  <2> QED
    BY <1>2, <2>2, <2>3, <2>4
<1>8. Settled(r, list)
  BY <1>1, <1>5, <1>6, <1>7 DEF Settled
<1> QED
  BY <1>8 DEF r

\* So also against the whole patches: what was placed with a part stays placed.
LEMMA SettledWhole ==
  ASSUME NEW review, NEW list, NEW whole, Shortens(list, whole), Settled(review, list)
  PROVE  Settled(review, whole)
<1>1. Paths(list) = Paths(whole)
  BY ShortensSameFiles
<1>2. ASSUME NEW f \in ToSet(review.findings)
      PROVE  f.line \in AddedFor(whole, f) /\ f.start \in AddedFor(whole, f)
  <2>1. f.path \in Paths(whole) /\ f.line \in AddedFor(list, f) /\ f.start \in AddedFor(list, f)
    BY <1>1 DEF Settled
  <2>2. ExtractChangedLines(PatchOf(list, f.path))
          \subseteq ExtractChangedLines(PatchOf(whole, f.path))
    BY <2>1, ShortensAdds
  <2> QED
    BY <2>1, <2>2 DEF AddedFor
<1> QED
  BY <1>1, <1>2 DEF Settled

\* A settled review is only deduplicated again.
LEMMA ValidateSettled ==
  ASSUME NEW review, NEW list, Settled(review, list)
  PROVE  /\ Validate(review, list).findings = Deduplicate(review.findings)
         /\ Eligible(review.findings, list) = review.findings
         /\ Represents(ToSet(Validate(review, list).findings), ToSet(review.findings))
<1> DEFINE unique == Deduplicate(review.findings)
           r      == Validate(review, list)
<1>1. review.findings \in Seq(Findings)
  BY DEF Settled
<1>2. Eligible(review.findings, list) = review.findings
  <2>1. \A f \in ToSet(review.findings) :
          f.confidence >= MinConfidence /\ f.path \in Paths(list)
    BY DEF Settled
  <2> QED
    BY <1>1, <2>1, EligibleSome
<1>3. /\ unique \in Seq(Findings) /\ r.findings \in Seq(Findings)
      /\ Len(r.findings) = Len(unique) /\ DOMAIN r.findings = DOMAIN unique
      /\ \A i \in DOMAIN unique : r.findings[i] = Locate(unique[i], list)
  BY <1>1, <1>2, ValidatedFindings
<1>4. ToSet(unique) \subseteq ToSet(review.findings)
  BY <1>1, DeduplicateKeepsStrongest
<1>5. Represents(ToSet(r.findings), ToSet(review.findings))
  BY <1>1, <1>2, ValidateRepresents
<1> HIDE DEF unique, r
<1>6. ASSUME NEW i \in DOMAIN unique PROVE r.findings[i] = unique[i]
  <2>1. unique[i] \in Findings /\ unique[i] \in ToSet(review.findings)
    <3>1. unique[i] \in ToSet(unique)
      BY <1>6 DEF ToSet
    <3> QED
      BY <1>3, <1>4, <1>6, <3>1
  <2>2. /\ unique[i].line \in AddedFor(list, unique[i])
        /\ unique[i].start \in AddedFor(list, unique[i])
    BY <2>1 DEF Settled
  <2>3. Locate(unique[i], list) = unique[i]
    BY <2>1, <2>2, LocateKeeps
  <2> QED
    BY <1>3, <2>3
<1>7. r.findings = unique
  BY <1>3, <1>6, SeqEqual
<1> QED
  BY <1>2, <1>5, <1>7 DEF unique, r

LEMMA ValidateAgrees ==
  ASSUME NEW review, NEW list, Settled(review, list)
  PROVE  LET r == Validate(review, list)
         IN /\ ToSet(r.findings) \subseteq ToSet(review.findings)
            /\ Represents(ToSet(r.findings), ToSet(review.findings))
            /\ r.risk = review.risk /\ r.summary = review.summary
            /\ \/ r.verdict = review.verdict
               \/ r.verdict = "comment" /\ review.verdict = "request_changes"
<1> DEFINE r == Validate(review, list)
<1>1. /\ r.findings = Deduplicate(review.findings)
      /\ Represents(ToSet(r.findings), ToSet(review.findings))
  BY ValidateSettled
<1>2. /\ review.findings \in Seq(Findings) /\ review.risk \in 0..3 /\ Supported(review)
      /\ \A f \in ToSet(review.findings) : MinimumRisk(f.severity) <= review.risk
  BY DEF Settled
<1>3. /\ r.risk = ConsistentRisk(review.risk, r.findings)
      /\ r.verdict = ConsistentVerdict(review.verdict, r.findings)
      /\ r.summary = IF r.findings = <<>> /\ review.findings # <<>> THEN "none"
                     ELSE review.summary
  BY DEF Validate
<1> HIDE DEF r
<1>4. /\ r.findings \in Seq(Findings)
      /\ ToSet(r.findings) \subseteq ToSet(review.findings)
      /\ \A group \in Groups(ToSet(review.findings)) : \A f \in group :
           \E h \in group \cap ToSet(r.findings) : ~Stronger(f, h)
  BY <1>1, <1>2, DeduplicateKeepsStrongest
<1>5. ToSet(r.findings) = {} => ToSet(review.findings) = {}
  <2>1. ToSet(review.findings) \in Groups(ToSet(review.findings))
    BY DEF Groups
  <2> QED
    BY <1>4, <2>1
<1>6. r.summary = review.summary
  <2>1. r.findings = <<>> => ToSet(r.findings) = {}
    BY DEF ToSet
  <2>2. ToSet(review.findings) = {} => review.findings = <<>>
    <3>1. review.findings = <<>> \/ 1 \in DOMAIN review.findings
      BY <1>2
    <3>2. 1 \in DOMAIN review.findings => review.findings[1] \in ToSet(review.findings)
      BY DEF ToSet
    <3> QED
      BY <3>1, <3>2
  <2> QED
    BY <1>3, <1>5, <2>1, <2>2
<1>7. r.risk = review.risk
  <2>1. CASE ToSet(r.findings) = {}
    <3>1. r.risk = 0
      BY <1>3, <2>1 DEF ConsistentRisk, ToSet
    <3>2. review.risk = 0
      BY <1>2, <1>5, <2>1 DEF Supported
    <3> QED
      BY <3>1, <3>2
  <2>2. CASE ToSet(r.findings) # {}
    <3>1. \A f \in ToSet(r.findings) : MinimumRisk(f.severity) <= review.risk
      BY <1>2, <1>4
    <3> QED
      BY <1>2, <1>3, <1>4, <2>2, <3>1, RiskFits
  <2> QED
    BY <2>1, <2>2
<1>8. \/ r.verdict = review.verdict
      \/ r.verdict = "comment" /\ review.verdict = "request_changes"
  <2>1. review.verdict = "approve" =>
          ~\E i \in DOMAIN r.findings : r.findings[i].severity \in {High, Critical}
    <3>1. review.verdict = "approve" =>
            \A f \in ToSet(review.findings) : f.severity \notin {High, Critical}
      BY <1>2 DEF Supported
    <3>2. \A i \in DOMAIN r.findings : r.findings[i] \in ToSet(review.findings)
      BY <1>4 DEF ToSet
    <3> QED
      BY <3>1, <3>2
  <2> QED
    BY <1>3, <2>1 DEF ConsistentVerdict
<1> QED
  BY <1>1, <1>4, <1>6, <1>7, <1>8 DEF r

-----------------------------------------------------------------------------
(***************************************************************************)
(* From step to step: the context is the pull request's files with the     *)
(* beginnings of their patches, and the returned review was validated      *)
(* against it.                                                             *)
(***************************************************************************)
ContextInv == files \in Seq(ChangedFile) /\ Shortens(context, files)

ReturnedInv == Validated => Settled(returned, context)

ReviewInv == ContextInv /\ ReturnedInv

LEMMA ReviewInvInit == Init => ReviewInv
<1> SUFFICES ASSUME Init PROVE ReviewInv
  OBVIOUS
<1>1. files \in Seq(ChangedFile) /\ context = files
  BY ReviewValidationAssumption DEF Init
<1>2. Shortens(context, files)
  BY <1>1, ShortensItself
<1> QED
  BY <1>1, <1>2 DEF Init, ReviewInv, ContextInv, ReturnedInv, Validated

LEMMA ReviewInvNext == ReviewInv /\ [Next]_vars => ReviewInv'
<1> SUFFICES ASSUME ReviewInv, [Next]_vars PROVE ReviewInv'
  OBVIOUS
<1> USE DEF ReviewInv, ContextInv, ReturnedInv, Validated
<1>1. ASSUME NEW budget \in Budgets, NEW cut \in SUBSET {"body", "diff"},
             FetchContext(budget, cut)
      PROVE  ReviewInv'
  <2>1. budget \in Nat /\ files' = files /\ context' = Bound(files, budget) /\ stage' = "fetched"
    BY <1>1, ReviewValidationAssumption DEF FetchContext
  <2>2. Shortens(context', files')
    BY <2>1, BoundShortens
  <2> QED
    BY <2>1, <2>2
<1>2. ASSUME NEW review \in Reviews, Return(review) PROVE ReviewInv'
  <2>1. /\ returned' = AddContextLimitations(Validate(review, context), warnings)
        /\ files' = files /\ context' = context
    BY <1>2 DEF Return
  <2>2. Settled(Validate(review, context), context)
    BY ReviewType, ValidateSettles
  <2>3. /\ returned'.findings = Validate(review, context).findings
        /\ returned'.verdict = Validate(review, context).verdict
        /\ returned'.risk = Validate(review, context).risk
    BY <2>1, WarningsKeep
  <2>4. Settled(returned', context)
    BY <2>2, <2>3 DEF Settled, Supported
  <2> QED
    BY <2>1, <2>4
<1>3. ASSUME NEW review \in Reviews, Supply(review) PROVE ReviewInv'
  BY <1>3 DEF Supply
<1>4. ASSUME NEW list \in {context, files}, Post(list) PROVE ReviewInv'
  BY <1>4 DEF Post
<1>5. CASE UNCHANGED vars
  BY <1>5 DEF vars
<1> QED
  BY <1>1, <1>2, <1>3, <1>4, <1>5 DEF Next

\* Whatever the context was cut to, and whichever patches the second validation
\* uses: what is posted is what was returned, as PostedAgrees says.
THEOREM ReviewPostedAgrees == Spec => []PostedAgrees
<1>1. Init => PostedAgrees
  BY DEF Init, PostedAgrees
<1>2. PostedAgrees /\ ReviewInv /\ [Next]_vars => PostedAgrees'
  <2> SUFFICES ASSUME PostedAgrees, ReviewInv, [Next]_vars PROVE PostedAgrees'
    OBVIOUS
  <2>1. ASSUME NEW list \in {context, files}, Post(list), stage = "returned"
        PROVE  PostedAgrees'
    <3>1. Settled(returned, context) /\ Shortens(context, files)
      BY <2>1 DEF ReviewInv, ContextInv, ReturnedInv, Validated
    <3>2. Settled(returned, list)
      BY <2>1, <3>1, SettledWhole
    <3>3. posted' = Validate(returned, list) /\ returned' = returned
      BY <2>1 DEF Post
    <3> QED
      BY <3>2, <3>3, ValidateAgrees DEF PostedAgrees
  <2>2. ASSUME NEW list \in {context, files}, Post(list), stage # "returned"
        PROVE  PostedAgrees'
    BY <2>2 DEF Post, PostedAgrees
  <2>3. ASSUME NEW budget \in Budgets, NEW cut \in SUBSET {"body", "diff"},
               FetchContext(budget, cut)
        PROVE  PostedAgrees'
    BY <2>3 DEF FetchContext, PostedAgrees
  <2>4. ASSUME NEW review \in Reviews, Return(review) \/ Supply(review)
        PROVE  PostedAgrees'
    BY <2>4 DEF Return, Supply, PostedAgrees
  <2>5. CASE UNCHANGED vars
    BY <2>5 DEF vars, PostedAgrees
  <2> QED
    BY <2>1, <2>2, <2>3, <2>4, <2>5 DEF Next
<1> QED
  BY <1>1, <1>2, ReviewInvInit, ReviewInvNext, PTL DEF Spec

-----------------------------------------------------------------------------
(***************************************************************************)
(* Inline comments.                                                        *)
(***************************************************************************)
Counts(d) == d.kind \in {"added", "context"}

\* The numbers of the added lines among all that splitlines() gives.
ReadLines(patch) ==
  {NumberOf(patch, DOMAIN patch, i) : i \in Additions(patch, DOMAIN patch)}

\* extract_changed_lines counts the lines of each hunk.
LEMMA ExtractReads ==
  ASSUME NEW patch \in Seq(DiffLine)
  PROVE  ExtractChangedLines(patch) \subseteq ReadLines(patch)
<1> DEFINE n       == Len(patch)
           Heads(k) == {h \in 1..k : patch[h].kind = "hunk"}
           Hunk(k)  == Max(Heads(k))
           Past(k)  == {j \in Hunk(k)..k : patch[j].kind \in {"added", "context"}}
<1>1. /\ n \in Nat /\ n \in 0..n /\ DOMAIN patch = 1..n
      /\ \A k \in 1..n : patch[k] \in DiffLine /\ patch[k].start \in Nat
  <2>1. n \in Nat /\ n \in 0..n /\ DOMAIN patch = 1..n /\ \A k \in 1..n : patch[k] \in DiffLine
    BY LenProperties
  <2> QED
    BY <2>1 DEF DiffLine
<1>2. PICK g : /\ g[0] = NoLines
               /\ \A k \in 1..n : g[k] = ReadLine(g[k - 1], patch[k])
               /\ ExtractChangedLines(patch) = g[n].lines
  BY ExtractTrace
<1> HIDE DEF n
<1>4. ASSUME NEW k \in 1..n, patch[k].kind = "hunk"
      PROVE  Hunk(k) = k
  <2>1. Heads(k) \subseteq 0..k /\ k \in Heads(k) /\ k \in Nat
    BY <1>1, <1>4
  <2>2. Hunk(k) \in Heads(k) /\ k <= Hunk(k)
    <3> HIDE DEF Heads
    <3> QED
      BY <2>1, MaxOf
  <2> QED
    BY <2>1, <2>2
<1>5. ASSUME NEW k \in 1..n, patch[k].kind # "hunk"
      PROVE  Hunk(k) = Hunk(k - 1) /\ Heads(k) = Heads(k - 1)
  <2>1. Heads(k) = Heads(k - 1)
    BY <1>1, <1>5
  <2> QED
    BY <2>1
<1>6. ASSUME NEW k \in 0..n, Heads(k) # {}
      PROVE  Hunk(k) \in 1..k
  <2>1. Heads(k) \in SUBSET (1..k) /\ k \in Nat
    BY <1>1
  <2> HIDE DEF Heads
  <2> QED
    BY <1>6, <2>1, MaxOfPlaces
<1>3. ASSUME NEW i \in 1..n, patch[i].kind = "added", Heads(i) # {}
      PROVE  patch[Hunk(i)].start
               + Cardinality({k \in Hunk(i)..i - 1 : patch[k].kind \in {"added", "context"}})
               \in ReadLines(patch)
  <2>1. Headers(patch, DOMAIN patch, i) = Heads(i)
    BY <1>1 DEF Headers
  <2>2. Hunk(i) \in 1..i
    BY <1>1, <1>3, <1>6
  <2>3. i \in Additions(patch, DOMAIN patch)
    BY <1>1, <1>3, <2>1 DEF Additions
  <2> DEFINE here == {k \in Hunk(i)..i - 1 : patch[k].kind \in {"added", "context"}}
             seen == {k \in DOMAIN patch :
                        Hunk(i) <= k /\ k < i /\ patch[k].kind \in {"added", "context"}}
  <2>4. seen = here
    <3> HIDE DEF Hunk
    <3> QED
      BY <1>1, <2>2
  <2>5. NumberOf(patch, DOMAIN patch, i) = patch[Hunk(i)].start + Cardinality(seen)
    BY <2>1 DEF NumberOf
  <2> HIDE DEF seen, Heads
  <2> QED
    BY <2>3, <2>4, <2>5 DEF ReadLines
<1> HIDE DEF Hunk
<1> DEFINE Good == {k \in 0..n :
                      /\ g[k] \in LineState
                      /\ g[k].inside = (Heads(k) # {})
                      /\ g[k].inside => g[k].new = patch[Hunk(k)].start + Cardinality(Past(k))
                      /\ g[k].lines \subseteq ReadLines(patch)}
<1>7. 0 \in Good
  <2>1. Heads(0) = {} /\ 0 \in 0..n
    BY <1>1
  <2>2. g[0] \in LineState /\ g[0].lines = {} /\ g[0].inside = FALSE
    BY <1>2 DEF NoLines, LineState
  <2> HIDE DEF Heads, Past
  <2> QED
    BY <2>1, <2>2
<1>8. ASSUME NEW k \in 1..n, k - 1 \in Good PROVE k \in Good
  <2> DEFINE s == g[k - 1]
             d == patch[k]
             t == g[k]
             here == IF d.kind = "hunk" THEN d.start ELSE s.new
  <2>1. /\ s \in LineState /\ d \in DiffLine /\ t = ReadLine(s, d)
        /\ s.inside = (Heads(k - 1) # {})
        /\ s.inside => s.new = patch[Hunk(k - 1)].start + Cardinality(Past(k - 1))
        /\ s.lines \subseteq ReadLines(patch) /\ k \in 0..n /\ k - 1 \in 0..n /\ k \in Nat
    BY <1>1, <1>2, <1>8
  <2>2. t \in LineState
    BY <2>1, ReadLineType
  <2>3. CASE d.kind # "hunk" /\ ~s.inside
    <3>1. t = s
      BY <2>1, <2>3 DEF ReadLine
    <3>2. Heads(k) = Heads(k - 1)
      BY <1>5, <2>3
    <3> HIDE DEF Heads, Past
    <3> QED
      BY <2>1, <2>3, <3>1, <3>2
  <2>4. CASE ~(d.kind # "hunk" /\ ~s.inside)
    <3>1. t = [lines  |-> IF d.kind = "added" THEN s.lines \cup {here} ELSE s.lines,
               new    |-> here + IF d.kind \in {"added", "context"} THEN 1 ELSE 0,
               inside |-> TRUE]
      BY <2>1, <2>4 DEF ReadLine
    <3>2. CASE d.kind = "hunk"
      <4>1. Hunk(k) = k /\ Heads(k) # {} /\ Past(k) = {}
        <5>1. Hunk(k) = k
          BY <1>4, <3>2
        <5>2. Past(k) = {}
          BY <2>1, <3>2, <5>1
        <5>3. k \in Heads(k)
          BY <2>1, <3>2
        <5> QED
          BY <5>1, <5>2, <5>3
      <4>2. t.new = d.start /\ t.inside /\ t.lines = s.lines /\ d.start \in Nat
        BY <1>1, <2>1, <3>1, <3>2
      <4>3. Cardinality(Past(k)) = 0
        BY <4>1, FS_EmptySet
      <4>4. t.new = patch[Hunk(k)].start + Cardinality(Past(k))
        <5> HIDE DEF t, Heads, Past
        <5> QED
          BY <4>1, <4>2, <4>3
      <4> HIDE DEF s, t, Heads, Past
      <4> QED
        BY <2>1, <2>2, <4>1, <4>2, <4>4 DEF t
    <3>3. CASE d.kind # "hunk"
      <4>1. Hunk(k) = Hunk(k - 1) /\ Heads(k) = Heads(k - 1) /\ Heads(k - 1) # {}
        BY <1>5, <2>1, <2>4, <3>3
      <4>2. Hunk(k - 1) \in 1..k - 1
        BY <1>6, <2>1, <4>1
      <4>3. /\ IsFiniteSet(Past(k - 1)) /\ Cardinality(Past(k - 1)) \in Nat
            /\ k \notin Past(k - 1)
        <5>1. IsFiniteSet(1..k - 1) /\ Past(k - 1) \subseteq 1..k - 1
          <6>1. k - 1 \in Int /\ 1 \in Int /\ Past(k - 1) \subseteq 1..k - 1
            BY <2>1, <4>2
          <6> HIDE DEF Past
          <6> QED
            BY <6>1, FS_Interval
        <5>2. IsFiniteSet(Past(k - 1))
          BY <5>1, FS_Subset
        <5> QED
          BY <2>1, <5>1, <5>2, FS_CardinalityType
      <4>4. Past(k) = IF Counts(d) THEN Past(k - 1) \cup {k} ELSE Past(k - 1)
        <5>1. Hunk(k)..k = (Hunk(k - 1)..k - 1) \cup {k}
          BY <2>1, <4>1, <4>2
        <5> QED
          BY <5>1, <4>1 DEF Counts
      <4>5. Cardinality(Past(k)) = Cardinality(Past(k - 1)) + IF Counts(d) THEN 1 ELSE 0
        <5>1. CASE Counts(d)
          <6>1. Past(k) = Past(k - 1) \cup {k}
            BY <4>4, <5>1
          <6> HIDE DEF Past
          <6>2. Cardinality(Past(k - 1) \cup {k}) = Cardinality(Past(k - 1)) + 1
            BY <4>3, FS_AddElement
          <6> QED
            BY <5>1, <6>1, <6>2
        <5>2. CASE ~Counts(d)
          <6>1. Past(k) = Past(k - 1)
            BY <4>4, <5>2
          <6> HIDE DEF Past
          <6> QED
            BY <4>3, <5>2, <6>1
        <5> QED
          BY <5>1, <5>2
      <4>6. here = patch[Hunk(k)].start + Cardinality(Past(k - 1)) /\ patch[Hunk(k)].start \in Nat
        <5>1. here = s.new /\ s.inside
          BY <2>4, <3>3
        <5>2. Hunk(k) \in 1..n
          BY <1>1, <2>1, <4>1, <4>2
        <5> HIDE DEF Past, here, s
        <5> QED
          BY <1>1, <2>1, <4>1, <5>1, <5>2
      <4>7. t.lines \subseteq ReadLines(patch)
        <5>1. CASE d.kind = "added"
          <6>1. here \in ReadLines(patch)
            <7>1. Past(k - 1) = {j \in Hunk(k)..k - 1 : patch[j].kind \in {"added", "context"}}
              BY <4>1
            <7> HIDE DEF Past, here
            <7> QED
              BY <1>3, <4>1, <4>6, <5>1, <7>1
          <6> HIDE DEF here
          <6> QED
            BY <2>1, <3>1, <5>1, <6>1
        <5>2. CASE d.kind # "added"
          BY <2>1, <3>1, <5>2
        <5> QED
          BY <5>1, <5>2
      <4>8. t.inside /\ t.new = patch[Hunk(k)].start + Cardinality(Past(k))
        <5>1. t.inside /\ t.new = here + IF Counts(d) THEN 1 ELSE 0
          BY <3>1 DEF Counts
        <5> DEFINE more == IF Counts(d) THEN 1 ELSE 0
        <5>2. t.new = here + more /\ more \in Nat /\ Cardinality(Past(k)) = Cardinality(Past(k - 1)) + more
          BY <4>5, <5>1
        <5> HIDE DEF here, Past, t, more
        <5> QED
          BY <4>3, <4>6, <5>1, <5>2
      <4> HIDE DEF Heads, Past, t, here, s
      <4> QED
        BY <2>1, <2>2, <4>1, <4>7, <4>8 DEF t
    <3> QED
      BY <3>2, <3>3
  <2> QED
    BY <2>3, <2>4
<1>9. n \in Good
  <2> HIDE DEF Good
  <2> QED
    BY <1>1, <1>7, <1>8, UpTo
<1> QED
  BY <1>2, <1>9

\* A number that no break before it spoiled is GitHub's.
LEMMA ReadsAdded ==
  ASSUME NEW patch \in Seq(DiffLine)
  PROVE  ReadLines(patch) \subseteq AddedLines(patch) \cup MisreadLines(patch)
<1> DEFINE all   == DOMAIN patch
           mine  == GitLines(patch)
           Hunk(i) == Max(Headers(patch, all, i))
<1>1. all \subseteq Nat /\ mine = {k \in all : patch[k].git} /\ mine \subseteq all
  BY LenProperties DEF GitLines
<1>2. ASSUME NEW i \in Additions(patch, all), \A k \in Hunk(i)..i : patch[k].git
      PROVE  NumberOf(patch, all, i) \in AddedLines(patch)
  <2>1. i \in all /\ i \in Nat /\ patch[i].kind = "added" /\ Headers(patch, all, i) # {}
    BY <1>1 DEF Additions
  <2>2. /\ Hunk(i) \in Headers(patch, all, i)
        /\ \A h \in Headers(patch, all, i) : h <= Hunk(i)
    <3>1. Headers(patch, all, i) \subseteq 0..i
      BY <1>1, <2>1 DEF Headers
    <3> QED
      BY <2>1, <3>1, MaxOf
  <2>3. Hunk(i) \in all /\ Hunk(i) \in Nat /\ Hunk(i) <= i /\ patch[Hunk(i)].kind = "hunk"
    BY <1>1, <2>2 DEF Headers
  <2>4. i \in mine /\ Hunk(i) \in mine /\ Hunk(i) \in Headers(patch, mine, i)
    <3>1. i \in Hunk(i)..i /\ Hunk(i) \in Hunk(i)..i
      BY <2>1, <2>3
    <3> HIDE DEF Hunk
    <3> QED
      BY <1>1, <1>2, <2>1, <2>3, <3>1 DEF Headers
  <2>5. Max(Headers(patch, mine, i)) = Hunk(i)
    <3>1. Headers(patch, mine, i) \subseteq Headers(patch, all, i)
      BY <1>1 DEF Headers
    <3>2. Headers(patch, mine, i) \subseteq 0..i
      BY <1>1, <2>1 DEF Headers
    <3>3. /\ Max(Headers(patch, mine, i)) \in Headers(patch, mine, i)
          /\ Hunk(i) <= Max(Headers(patch, mine, i))
      <4> HIDE DEF Hunk
      <4> QED
        BY <2>1, <2>4, <3>2, MaxOf
    <3>4. Max(Headers(patch, mine, i)) <= Hunk(i) /\ Max(Headers(patch, mine, i)) \in Nat
      <4> HIDE DEF Hunk
      <4> QED
        BY <2>1, <2>2, <3>1, <3>2, <3>3
    <3> HIDE DEF Hunk
    <3> QED
      BY <2>3, <3>3, <3>4
  <2> DEFINE Since(seen) == {k \in seen : Hunk(i) <= k /\ k < i
                                           /\ patch[k].kind \in {"added", "context"}}
  <2>6. Since(all) = Since(mine)
    <3>1. ASSUME NEW k \in all, Hunk(i) <= k, k < i PROVE k \in mine
      <4>1. k \in Hunk(i)..i
        <5> HIDE DEF Hunk
        <5> QED
          BY <1>1, <2>1, <2>3, <3>1
      <4> HIDE DEF Hunk
      <4> QED
        BY <1>1, <1>2, <4>1
    <3> HIDE DEF Hunk, mine, all
    <3> QED
      BY <1>1, <3>1
  <2>7. NumberOf(patch, all, i) = patch[Hunk(i)].start + Cardinality(Since(all))
    BY DEF NumberOf
  <2>8. NumberOf(patch, mine, i) = patch[Hunk(i)].start + Cardinality(Since(mine))
    BY <2>5 DEF NumberOf
  <2>9. i \in Additions(patch, mine)
    BY <2>1, <2>4 DEF Additions
  <2>10. NumberOf(patch, mine, i) \in AddedLines(patch)
    BY <2>9 DEF AddedLines
  <2> HIDE DEF Since, Hunk, mine, all
  <2> QED
    BY <2>6, <2>7, <2>8, <2>10
<1>3. ASSUME NEW i \in Additions(patch, all), \E k \in Hunk(i)..i : ~patch[k].git
      PROVE  NumberOf(patch, all, i) \in MisreadLines(patch)
  BY <1>3 DEF MisreadLines
<1> HIDE DEF Hunk
<1>4. ASSUME NEW i \in Additions(patch, all)
      PROVE  NumberOf(patch, all, i) \in AddedLines(patch) \cup MisreadLines(patch)
  BY <1>2, <1>3
<1> QED
  BY <1>4 DEF ReadLines

Comment == [path : STRING, line : Nat, start : Nat, title : STRING]

AsComment(f) == [path |-> f.path, line |-> f.line, start |-> f.start, title |-> f.title]

LEMMA AddCommentCases ==
  ASSUME NEW made \in Seq(Comment), NEW f \in Findings
  PROVE  /\ AddComment(made, f) \in Seq(Comment)
         /\ \/ AddComment(made, f) = made
            \/ /\ AddComment(made, f) = Append(made, AsComment(f))
               /\ f.line # 0 /\ \A i \in DOMAIN made : ~SamePlace(made[i], f)
<1>1. AsComment(f) \in Comment
  BY DEF AsComment, Comment, Findings
<1> QED
  BY <1>1 DEF AddComment, AsComment

LEMMA CommentsTrace ==
  ASSUME NEW seq \in Seq(Findings), NEW review, review.findings = seq
  PROVE  \E g : /\ g[0] = <<>>
                /\ \A k \in 1..Len(seq) : g[k] = AddComment(g[k - 1], seq[k])
                /\ InlineComments(review) = g[Len(seq)]
<1> DEFINE n    == Len(seq)
           next == [p \in Seq(Comment) \X Findings |-> AddComment(p[1], p[2])]
           Rec(F) == [s \in SUBSET (1..n) |->
                        IF s = {} THEN <<>> ELSE AddComment(F[s \ {Max(s)}], seq[Max(s)])]
           iter == CHOOSE F : F = Rec(F)
<1>1. n \in Nat /\ seq \in [1..n -> Findings] /\ DOMAIN seq = 1..n
  BY LenProperties
<1>2. next \in [Seq(Comment) \X Findings -> Seq(Comment)]
  BY AddCommentCases
<1>3. PICK F : Folds(F, Seq(Comment), next, <<>>, n, seq)
  <2>1. <<>> \in Seq(Comment)
    OBVIOUS
  <2> HIDE DEF n, next
  <2> QED
    BY <1>1, <1>2, <2>1, FoldExists
<1>4. F = Rec(F)
  <2>1. /\ F \in [SUBSET (1..n) -> Seq(Comment)]
        /\ \A s \in SUBSET (1..n) :
             F[s] = IF s = {} THEN <<>> ELSE next[<<F[s \ {Max(s)}], seq[Max(s)]>>]
    BY <1>3 DEF Folds
  <2>2. ASSUME NEW s \in SUBSET (1..n), s # {}
        PROVE  F[s] = AddComment(F[s \ {Max(s)}], seq[Max(s)])
    <3>1. Max(s) \in 1..n
      BY <1>1, <2>2, MaxOfPlaces
    <3>2. F[s \ {Max(s)}] \in Seq(Comment) /\ seq[Max(s)] \in Findings
      BY <1>1, <2>1, <3>1
    <3> QED
      BY <2>1, <2>2, <3>2
  <2> QED
    BY <2>1, <2>2
<1>5. iter = Rec(iter)
  <2> HIDE DEF Rec
  <2> QED
    BY <1>4, Zenon
<1>6. InlineComments(review) = iter[1..n]
  BY <1>1 DEF InlineComments, FoldLeft, MapThenFoldSet
<1> HIDE DEF iter
<1> DEFINE g == [k \in 0..n |-> iter[1..k]]
<1>7. g[0] = <<>> /\ g[n] = iter[1..n]
  BY <1>1, <1>5
<1>8. ASSUME NEW k \in 1..n PROVE g[k] = AddComment(g[k - 1], seq[k])
  <2>1. Max(1..k) = k /\ (1..k) \ {k} = 1..k - 1 /\ 1..k # {} /\ 1..k \in SUBSET (1..n)
    BY <1>1, MaxOfFirst
  <2>2. iter[1..k] = AddComment(iter[1..k - 1], seq[k])
    BY <1>5, <2>1
  <2> QED
    BY <1>1, <2>2
<1> HIDE DEF g
<1> QED
  BY <1>6, <1>7, <1>8

\* Every comment is a finding with a location, and no two say the same of a line.
LEMMA CommentsOfFindings ==
  ASSUME NEW review, review.findings \in Seq(Findings)
  PROVE  LET made == InlineComments(review)
         IN /\ made \in Seq(Comment)
            /\ \A i \in DOMAIN made : \E f \in ToSet(review.findings) :
                 made[i] = AsComment(f) /\ f.line # 0
            /\ \A i, m \in DOMAIN made : i < m => ~SamePlace(made[i], made[m])
<1> DEFINE seq == review.findings
           n   == Len(seq)
<1>1. /\ n \in Nat /\ n \in 0..n
      /\ \A k \in 1..n : seq[k] \in Findings /\ seq[k] \in ToSet(seq)
  BY LenProperties DEF ToSet
<1>2. PICK g : /\ g[0] = <<>>
               /\ \A k \in 1..n : g[k] = AddComment(g[k - 1], seq[k])
               /\ InlineComments(review) = g[n]
  BY CommentsTrace
<1> HIDE DEF n, seq
<1> DEFINE From(c) == \E f \in ToSet(seq) : c = AsComment(f) /\ f.line # 0
           Fine(u) == /\ u \in Seq(Comment)
                      /\ \A i \in DOMAIN u : From(u[i])
                      /\ \A i, m \in DOMAIN u : i < m => ~SamePlace(u[i], u[m])
           Good == {k \in 0..n : Fine(g[k])}
<1>3. 0 \in Good
  <2>1. g[0] = <<>> /\ g[0] \in Seq(Comment) /\ DOMAIN g[0] = {} /\ 0 \in 0..n
    BY <1>1, <1>2
  <2> QED
    BY <2>1
<1>4. ASSUME NEW k \in 1..n, k - 1 \in Good PROVE k \in Good
  <2> DEFINE u == g[k - 1]
             f == seq[k]
             v == g[k]
  <2>1. Fine(u) /\ f \in Findings /\ f \in ToSet(seq) /\ v = AddComment(u, f) /\ k \in 0..n
    BY <1>1, <1>2, <1>4
  <2> HIDE DEF u, f, v
  <2>2. /\ v \in Seq(Comment)
        /\ \/ v = u
           \/ /\ v = Append(u, AsComment(f))
              /\ f.line # 0 /\ \A i \in DOMAIN u : ~SamePlace(u[i], f)
    BY <2>1, AddCommentCases
  <2>3. CASE v = u
    BY <2>1, <2>3 DEF v
  <2>4. CASE v = Append(u, AsComment(f)) /\ f.line # 0 /\ \A i \in DOMAIN u : ~SamePlace(u[i], f)
    <3>1. /\ Len(u) \in Nat /\ DOMAIN u = 1..Len(u) /\ DOMAIN v = 1..Len(u) + 1
          /\ v[Len(u) + 1] = AsComment(f) /\ \A i \in DOMAIN u : v[i] = u[i]
      BY <2>1, <2>4
    <3>2. \A i \in DOMAIN v : i \in DOMAIN u \/ i = Len(u) + 1
      BY <3>1
    <3>3. From(AsComment(f))
      BY <2>1, <2>4
    <3>4. \A i \in DOMAIN v : From(v[i])
      <4> HIDE DEF From
      <4> QED
        BY <2>1, <3>1, <3>2, <3>3
    <3>5. \A i \in DOMAIN u : ~SamePlace(u[i], AsComment(f))
      BY <2>4 DEF SamePlace, AsComment
    <3>6. ASSUME NEW i \in DOMAIN v, NEW m \in DOMAIN v, i < m
          PROVE  ~SamePlace(v[i], v[m])
      <4>1. i \in DOMAIN u
        BY <3>1, <3>6
      <4>2. CASE m \in DOMAIN u
        BY <2>1, <3>1, <3>6, <4>1, <4>2
      <4>3. CASE m = Len(u) + 1
        BY <3>1, <3>5, <4>1, <4>3
      <4> QED
        BY <3>2, <4>2, <4>3
    <3>7. Fine(v)
      <4> HIDE DEF From
      <4> QED
        BY <2>2, <3>4, <3>6
    <3> HIDE DEF Fine
    <3> QED
      BY <2>1, <3>7 DEF v
  <2> QED
    BY <2>2, <2>3, <2>4
<1>5. n \in Good
  <2> HIDE DEF Good
  <2> QED
    BY <1>1, <1>3, <1>4, UpTo
<1> QED
  BY <1>2, <1>5 DEF seq

\* Comments of a review that was validated against the files or their context.
LEMMA CommentsPlaced ==
  ASSUME NEW review, files \in Seq(ChangedFile), Settled(review, files)
  PROVE  LET made == InlineComments(review)
         IN /\ \A i \in DOMAIN made :
                 LET c       == made[i]
                     patch   == PatchOf(files, c.path)
                     numbers == AddedLines(patch) \cup MisreadLines(patch)
                 IN c.line \in numbers /\ c.start \in numbers \cup {0} /\ c.start <= c.line
            /\ \A i, m \in DOMAIN made : i < m => ~SamePlace(made[i], made[m])
<1> DEFINE made == InlineComments(review)
<1>1. review.findings \in Seq(Findings)
  BY DEF Settled
<1>2. /\ made \in Seq(Comment)
      /\ \A i \in DOMAIN made : \E f \in ToSet(review.findings) :
           made[i] = AsComment(f) /\ f.line # 0
      /\ \A i, m \in DOMAIN made : i < m => ~SamePlace(made[i], made[m])
  BY <1>1, CommentsOfFindings
<1> HIDE DEF made
<1> DEFINE Numbers(path) == AddedLines(PatchOf(files, path)) \cup MisreadLines(PatchOf(files, path))
<1>3. ASSUME NEW i \in DOMAIN made
      PROVE  /\ made[i].line \in Numbers(made[i].path)
             /\ made[i].start \in Numbers(made[i].path) \cup {0}
             /\ made[i].start <= made[i].line
  <2>1. PICK f \in ToSet(review.findings) : made[i] = AsComment(f) /\ f.line # 0
    BY <1>2
  <2>2. made[i].path = f.path /\ made[i].line = f.line /\ made[i].start = f.start
    BY <2>1 DEF AsComment
  <2>3. f \in Findings
    BY <1>1 DEF ToSet
  <2>4. f.path \in Paths(files) /\ f.line \in AddedFor(files, f) /\ f.start \in AddedFor(files, f)
    BY DEF Settled
  <2>5. PatchOf(files, f.path) \in Seq(DiffLine)
    BY <2>4, ShortensItself, ShortensSameFiles
  <2>6. ExtractChangedLines(PatchOf(files, f.path)) \subseteq Numbers(f.path)
    BY <2>5, ExtractReads, ReadsAdded
  <2> HIDE DEF Numbers
  <2> QED
    BY <2>1, <2>2, <2>3, <2>4, <2>6, FindingFields DEF AddedFor
<1> QED
  BY <1>2, <1>3 DEF made

LEMMA PostedSettled ==
  ASSUME ReviewInv, NEW list \in {context, files}, Post(list),
         returned.findings \in Seq(Findings), returned.risk \in 0..3
  PROVE  Settled(posted', files)
<1>1. posted' = Validate(returned, list) /\ Settled(Validate(returned, list), list)
  BY ValidateSettles DEF Post
<1>2. Shortens(context, files)
  BY DEF ReviewInv, ContextInv
<1> QED
  BY <1>1, <1>2, SettledWhole

\* What a client supplies is a review.
SuppliedInv == stage = "supplied" => returned \in Reviews

\* For any patches, cut anywhere, and any findings: a comment is on lines that
\* GitHub's patch adds, or after text of its hunk at which only Python breaks
\* lines, and no two comments say the same of one line.
THEOREM ReviewCommentsSafe == Spec => []CommentsSafe
<1>1. Init => CommentsSafe /\ SuppliedInv
  BY DEF Init, CommentsSafe, SuppliedInv, Out
<1>2. CommentsSafe /\ SuppliedInv /\ ReviewInv /\ [Next]_vars => CommentsSafe' /\ SuppliedInv'
  <2> SUFFICES ASSUME CommentsSafe, SuppliedInv, ReviewInv, [Next]_vars
               PROVE  CommentsSafe' /\ SuppliedInv'
    OBVIOUS
  <2>1. ASSUME NEW list \in {context, files}, Post(list)
        PROVE  CommentsSafe' /\ SuppliedInv'
    <3>1. returned.findings \in Seq(Findings) /\ returned.risk \in 0..3
      <4>1. CASE stage = "returned"
        BY <4>1 DEF ReviewInv, ReturnedInv, Validated, Settled
      <4>2. CASE stage = "supplied"
        BY <4>2, ReviewType DEF SuppliedInv
      <4> QED
        BY <2>1, <4>1, <4>2 DEF Post
    <3>2. Settled(posted', files)
      BY <2>1, <3>1, PostedSettled
    <3>3. /\ comments' = InlineComments(posted') /\ files' = files
          /\ stage' \in {"posted", "forwarded"}
      BY <2>1 DEF Post
    <3>4. files \in Seq(ChangedFile)
      BY DEF ReviewInv, ContextInv
    <3>5. CommentsSafe'
      BY <3>2, <3>3, <3>4, CommentsPlaced DEF CommentsSafe
    <3> QED
      BY <3>3, <3>5 DEF SuppliedInv
  <2>2. ASSUME NEW budget \in Budgets, NEW cut \in SUBSET {"body", "diff"},
               FetchContext(budget, cut)
        PROVE  CommentsSafe' /\ SuppliedInv'
    BY <2>2 DEF FetchContext, CommentsSafe, SuppliedInv, Out
  <2>3. ASSUME NEW review \in Reviews, Return(review) \/ Supply(review)
        PROVE  CommentsSafe' /\ SuppliedInv'
    BY <2>3 DEF Return, Supply, CommentsSafe, SuppliedInv, Out
  <2>4. CASE UNCHANGED vars
    BY <2>4 DEF vars, CommentsSafe, SuppliedInv, Out
  <2> QED
    BY <2>1, <2>2, <2>3, <2>4 DEF Next
<1> QED
  BY <1>1, <1>2, ReviewInvInit, ReviewInvNext, PTL DEF Spec

-----------------------------------------------------------------------------
(***************************************************************************)
(* The body of a review.                                                   *)
(***************************************************************************)
BodyLine == [part : Part, of : Nat]

LEMMA SizeTrace ==
  ASSUME NEW seq \in Seq(BodyLine)
  PROVE  \E g : /\ g[0] = 0
                /\ \A k \in 1..Len(seq) : g[k] \in Nat /\ g[k] = g[k - 1] + LineSize[seq[k].part]
                /\ Size(seq) = g[Len(seq)]
<1> DEFINE n    == Len(seq)
           Add(m, l) == m + LineSize[l.part]
           next == [p \in Nat \X BodyLine |-> Add(p[1], p[2])]
           Rec(F) == [s \in SUBSET (1..n) |->
                        IF s = {} THEN 0 ELSE Add(F[s \ {Max(s)}], seq[Max(s)])]
           iter == CHOOSE F : F = Rec(F)
<1>1. n \in Nat /\ seq \in [1..n -> BodyLine] /\ DOMAIN seq = 1..n
  BY LenProperties
<1>2. next \in [Nat \X BodyLine -> Nat]
  <2>1. \A l \in BodyLine : LineSize[l.part] \in Nat
    BY ReviewBodyAssumption DEF BodyLine
  <2> QED
    BY <2>1
<1>3. PICK F : Folds(F, Nat, next, 0, n, seq)
  <2>1. 0 \in Nat
    OBVIOUS
  <2> HIDE DEF n, next
  <2> QED
    BY <1>1, <1>2, <2>1, FoldExists
<1>4. F = Rec(F) /\ F \in [SUBSET (1..n) -> Nat]
  <2> HIDE DEF Add
  <2>1. /\ F \in [SUBSET (1..n) -> Nat]
        /\ \A s \in SUBSET (1..n) :
             F[s] = IF s = {} THEN 0 ELSE next[<<F[s \ {Max(s)}], seq[Max(s)]>>]
    BY <1>3 DEF Folds
  <2>2. ASSUME NEW s \in SUBSET (1..n), s # {}
        PROVE  F[s] = Add(F[s \ {Max(s)}], seq[Max(s)])
    <3>1. Max(s) \in 1..n
      BY <1>1, <2>2, MaxOfPlaces
    <3>2. F[s \ {Max(s)}] \in Nat /\ seq[Max(s)] \in BodyLine
      BY <1>1, <2>1, <3>1
    <3> QED
      BY <2>1, <2>2, <3>2
  <2> QED
    BY <2>1, <2>2
<1>5. iter = Rec(iter)
  <2> HIDE DEF Rec
  <2> QED
    BY <1>4, Zenon
<1>6. Size(seq) = iter[1..n]
  BY <1>1 DEF Size, FoldLeft, MapThenFoldSet
<1> HIDE DEF iter
<1> DEFINE g == [k \in 0..n |-> iter[1..k]]
<1>7. g[0] = 0 /\ g[n] = iter[1..n]
  BY <1>1, <1>5
<1>8. ASSUME NEW k \in 1..n PROVE g[k] = Add(g[k - 1], seq[k])
  <2> HIDE DEF Add
  <2>1. Max(1..k) = k /\ (1..k) \ {k} = 1..k - 1 /\ 1..k # {} /\ 1..k \in SUBSET (1..n)
    BY <1>1, MaxOfFirst
  <2>2. iter[1..k] = Add(iter[1..k - 1], seq[k])
    BY <1>5, <2>1
  <2> QED
    BY <1>1, <2>2
<1> HIDE DEF g
<1> DEFINE Good == {k \in 0..n : g[k] \in Nat}
<1>9. ASSUME NEW k \in 1..n, k - 1 \in Good PROVE k \in Good
  <2>1. LineSize[seq[k].part] \in Nat
    BY <1>1, ReviewBodyAssumption DEF BodyLine
  <2> QED
    BY <1>8, <1>9, <2>1
<1>10. \A k \in 0..n : k \in Good
  <2>1. 0 \in Good
    BY <1>1, <1>7
  <2> HIDE DEF Good
  <2> QED
    BY <1>1, <1>9, <2>1, UpTo
<1> QED
  BY <1>6, <1>7, <1>8, <1>10

LEMMA SizeOfConcat ==
  ASSUME NEW a \in Seq(BodyLine), NEW b \in Seq(BodyLine)
  PROVE  /\ Size(a) \in Nat /\ Size(b) \in Nat /\ Size(a \o b) = Size(a) + Size(b)
         /\ a \o b \in Seq(BodyLine)
<1> DEFINE m == Len(a)
           n == Len(b)
           c == a \o b
<1>1. /\ m \in Nat /\ n \in Nat /\ c \in Seq(BodyLine) /\ Len(c) = m + n
      /\ \A k \in 1..m : c[k] = a[k]
      /\ \A k \in 1..n : c[m + k] = b[k]
  OBVIOUS
<1>2. PICK f : /\ f[0] = 0
               /\ \A k \in 1..m : f[k] \in Nat /\ f[k] = f[k - 1] + LineSize[a[k].part]
               /\ Size(a) = f[m]
  BY SizeTrace
<1>3. PICK g : /\ g[0] = 0
               /\ \A k \in 1..n : g[k] \in Nat /\ g[k] = g[k - 1] + LineSize[b[k].part]
               /\ Size(b) = g[n]
  BY SizeTrace
<1>4. PICK h : /\ h[0] = 0
               /\ \A k \in 1..m + n : h[k] = h[k - 1] + LineSize[c[k].part]
               /\ Size(c) = h[m + n]
  BY <1>1, SizeTrace
<1> HIDE DEF m, n, c
<1> DEFINE Same == {k \in 0..m : h[k] = f[k]}
           Past == {k \in 0..n : h[m + k] = f[m] + g[k]}
<1>5. m \in Same
  <2>1. 0 \in Same
    BY <1>1, <1>2, <1>4
  <2>2. ASSUME NEW k \in 1..m, k - 1 \in Same PROVE k \in Same
    <3>1. k \in 1..m + n /\ k \in 0..m
      BY <1>1
    <3>2. h[k] = h[k - 1] + LineSize[a[k].part]
      BY <1>1, <1>4, <3>1
    <3>3. f[k] = f[k - 1] + LineSize[a[k].part] /\ h[k - 1] = f[k - 1]
      BY <1>2, <2>2
    <3> QED
      BY <3>1, <3>2, <3>3
  <2>3. m \in 0..m
    BY <1>1
  <2> HIDE DEF Same
  <2> QED
    BY <1>1, <2>1, <2>2, <2>3, UpTo
<1>6. f[m] \in Nat /\ g[n] \in Nat
  <2>1. (m = 0 \/ m \in 1..m) /\ (n = 0 \/ n \in 1..n)
    BY <1>1
  <2> QED
    BY <1>2, <1>3, <2>1
<1>7. n \in Past
  <2>1. 0 \in Past
    BY <1>1, <1>3, <1>5, <1>6
  <2>2. ASSUME NEW k \in 1..n, k - 1 \in Past PROVE k \in Past
    <3>1. m + k \in 1..m + n /\ (m + k) - 1 = m + (k - 1)
      BY <1>1
    <3>2. h[m + k] = h[m + (k - 1)] + LineSize[b[k].part]
      BY <1>1, <1>4, <3>1
    <3>3. g[k] = g[k - 1] + LineSize[b[k].part] /\ h[m + (k - 1)] = f[m] + g[k - 1]
      BY <1>3, <2>2
    <3>4. g[k - 1] \in Nat /\ LineSize[b[k].part] \in Nat
      <4>1. k - 1 = 0 \/ k - 1 \in 1..n
        BY <1>1
      <4>2. b[k] \in BodyLine
        BY DEF n
      <4> QED
        BY <1>3, <4>1, <4>2, ReviewBodyAssumption DEF BodyLine
    <3>5. h[m + k] = f[m] + g[k]
      BY <1>6, <3>2, <3>3, <3>4
    <3> QED
      BY <3>5
  <2>3. n \in 0..n
    BY <1>1
  <2> HIDE DEF Past
  <2> QED
    BY <1>1, <2>1, <2>2, <2>3, UpTo
<1> QED
  BY <1>1, <1>2, <1>3, <1>4, <1>6, <1>7 DEF c

\* The first k of a sequence, and the rest.
Joins(a, b, c) == c = a \o b

LEMMA SplitAt ==
  ASSUME NEW S, NEW seq \in Seq(S), NEW k \in 0..Len(seq)
  PROVE  /\ SubSeq(seq, 1, k) \in Seq(S) /\ Len(SubSeq(seq, 1, k)) = k
         /\ \A i \in 1..k : SubSeq(seq, 1, k)[i] = seq[i]
         /\ \E rest \in Seq(S) : Joins(SubSeq(seq, 1, k), rest, seq)
<1> DEFINE n    == Len(seq)
           head == SubSeq(seq, 1, k)
           rest == [i \in 1..n - k |-> seq[k + i]]
<1>1. n \in Nat /\ k \in 0..n /\ \A i \in 1..n : seq[i] \in S
  OBVIOUS
<1>2. head \in Seq(S) /\ Len(head) = k /\ \A i \in 1..k : head[i] = seq[i]
  <2>1. \A i \in 1..k : seq[i] \in S
    BY <1>1
  <2> QED
    BY <1>1, <2>1, SubSeqProperties
<1>3. rest \in Seq(S) /\ Len(rest) = n - k
  <2>1. n - k \in Nat /\ \A i \in 1..n - k : seq[k + i] \in S
    BY <1>1
  <2>2. rest \in [1..n - k -> S]
    BY <2>1
  <2> QED
    BY <2>1, <2>2
<1>4. head \o rest \in Seq(S) /\ Len(head \o rest) = n
  <2> HIDE DEF n, head, rest
  <2>1. head \o rest \in Seq(S) /\ Len(head \o rest) = Len(head) + Len(rest)
    BY <1>2, <1>3
  <2> QED
    BY <1>1, <1>2, <1>3, <2>1
<1>5. ASSUME NEW i \in 1..n PROVE (head \o rest)[i] = seq[i]
  <2>1. CASE i <= k
    BY <1>1, <1>2, <1>3, <2>1
  <2>2. CASE i > k
    <3>1. i - k \in 1..n - k /\ k + (i - k) = i
      BY <1>1, <2>2
    <3> HIDE DEF head
    <3>2. (head \o rest)[i] = rest[i - k]
      <4> HIDE DEF rest
      <4> QED
        BY <1>1, <1>2, <1>3, <2>2
    <3> QED
      BY <3>1, <3>2
  <2> QED
    BY <1>1, <2>1, <2>2
<1> HIDE DEF head, rest
<1>6. seq = head \o rest
  BY <1>4, <1>5, SeqEqual
<1> QED
  BY <1>2, <1>3, <1>6 DEF head, Joins

LEMMA FittingIs ==
  ASSUME NEW lines \in Seq(BodyLine), NEW n \in Nat
  PROVE  \E k \in 0..Len(lines) :
           /\ Fitting(lines, n) = SubSeq(lines, 1, k) /\ Size(SubSeq(lines, 1, k)) <= n
           /\ k = Len(lines) \/ Size(SubSeq(lines, 1, k + 1)) > n
<1> DEFINE First(k) == SubSeq(lines, 1, k)
           ends == {k \in 0..Len(lines) : k = Len(lines) \/ Size(First(k + 1)) > n}
           Cut(k) == Size(First(k)) <= n /\ (k = Len(lines) \/ Size(First(k + 1)) > n)
<1>1. Len(lines) \in Nat
  OBVIOUS
<1>2. \A k \in 0..Len(lines) : First(k) \in Seq(BodyLine) /\ Size(First(k)) \in Nat
  BY SplitAt, SizeOfConcat
<1>3. Size(First(0)) = 0
  <2>1. First(0) \in Seq(BodyLine) /\ Len(First(0)) = 0
    BY <1>1, SplitAt
  <2> QED
    BY <2>1, SizeTrace
<1> HIDE DEF First
<1>4. PICK k \in ends : \A m \in ends : k <= m
  <2>1. ends \subseteq Nat /\ Len(lines) \in ends
    BY <1>1
  <2> HIDE DEF ends
  <2> QED
    BY <2>1, SmallestOf
<1>5. Size(First(k)) <= n
  <2>1. CASE k = 0
    BY <1>3, <2>1
  <2>2. CASE k # 0
    <3>1. k - 1 \in 0..Len(lines) /\ k - 1 \notin ends /\ (k - 1) + 1 = k
      BY <1>1, <1>4, <2>2
    <3>2. ~(Size(First(k)) > n)
      BY <3>1
    <3> QED
      BY <1>2, <3>2
  <2> QED
    BY <2>1, <2>2
<1>6. \E m \in 0..Len(lines) : Cut(m)
  BY <1>4, <1>5
<1>7. Fitting(lines, n) = First(CHOOSE m \in 0..Len(lines) : Cut(m))
  BY DEF Fitting, First
<1> HIDE DEF Cut
<1>8. PICK m \in 0..Len(lines) : Cut(m) /\ Fitting(lines, n) = First(m)
  BY <1>6, <1>7, Zenon
<1> QED
  BY <1>8 DEF Cut, First

\* What fits is kept.
LEMMA FittingKeeps ==
  ASSUME NEW a \in Seq(BodyLine), NEW b \in Seq(BodyLine), NEW n \in Nat, Size(a) <= n
  PROVE  ToSet(a) \subseteq ToSet(Fitting(a \o b, n))
<1> DEFINE c == a \o b
<1>1. /\ c \in Seq(BodyLine) /\ Len(c) = Len(a) + Len(b) /\ Len(a) \in Nat /\ Len(b) \in Nat
      /\ \A i \in 1..Len(a) : c[i] = a[i]
  OBVIOUS
<1> HIDE DEF c
<1>2. PICK k \in 0..Len(c) : /\ Fitting(c, n) = SubSeq(c, 1, k)
                             /\ k = Len(c) \/ Size(SubSeq(c, 1, k + 1)) > n
  BY <1>1, FittingIs
<1>3. k >= Len(a)
  <2> SUFFICES ASSUME k < Len(a) PROVE FALSE
    BY <1>1
  <2> DEFINE m == k + 1
  <2>1. m \in 0..Len(a) /\ m \in 0..Len(c) /\ k # Len(c)
    BY <1>1
  <2>2. Size(SubSeq(c, 1, m)) > n
    BY <1>2, <2>1
  <2> HIDE DEF m
  <2> DEFINE u == SubSeq(c, 1, m)
             v == SubSeq(a, 1, m)
  <2>3. u = v
    <3>1. u \in Seq(BodyLine) /\ Len(u) = m /\ \A i \in 1..m : u[i] = c[i]
      BY <1>1, <2>1, SplitAt
    <3>2. v \in Seq(BodyLine) /\ Len(v) = m /\ \A i \in 1..m : v[i] = a[i]
      BY <2>1, SplitAt
    <3> HIDE DEF u, v
    <3>3. 1..m \subseteq 1..Len(a)
      BY <1>1, <2>1
    <3>4. \A i \in 1..m : u[i] = v[i]
      BY <1>1, <3>1, <3>2, <3>3
    <3> QED
      BY <3>1, <3>2, <3>4, SeqEqual
  <2>4. /\ SubSeq(a, 1, m) \in Seq(BodyLine)
        /\ \E rest \in Seq(BodyLine) : Joins(SubSeq(a, 1, m), rest, a)
    <3>1. m \in 0..Len(a)
      BY <2>1
    <3>2. SubSeq(a, 1, m) \in Seq(BodyLine)
      BY <3>1, SplitAt
    <3>3. \E rest \in Seq(BodyLine) : Joins(SubSeq(a, 1, m), rest, a)
      BY <3>1, SplitAt
    <3> QED
      BY <3>2, <3>3
  <2>5. PICK rest \in Seq(BodyLine) : Joins(SubSeq(a, 1, m), rest, a)
    BY <2>4
  <2>6. /\ Size(a) = Size(SubSeq(a, 1, m)) + Size(rest)
        /\ Size(SubSeq(a, 1, m)) \in Nat /\ Size(rest) \in Nat
    BY <2>4, <2>5, SizeOfConcat DEF Joins
  <2>7. Size(SubSeq(a, 1, m)) > n
    BY <2>2, <2>3, Zenon
  <2> QED
    BY <2>6, <2>7
<1>4. /\ Len(Fitting(c, n)) = k /\ Fitting(c, n) \in Seq(BodyLine)
      /\ \A i \in 1..k : Fitting(c, n)[i] = c[i]
  BY <1>1, <1>2, SplitAt
<1>5. \A i \in 1..Len(a) : i \in DOMAIN Fitting(c, n) /\ Fitting(c, n)[i] = a[i]
  BY <1>1, <1>3, <1>4
<1> HIDE DEF Fitting
<1>6. ToSet(a) \subseteq ToSet(Fitting(c, n))
  BY <1>5 DEF ToSet
<1> QED
  BY <1>6 DEF c

\* A beginning is within the first part or holds all of it.
LEMMA BeginningOf ==
  ASSUME NEW S, NEW a \in Seq(S), NEW b \in Seq(S), NEW k \in 0..Len(a \o b)
  PROVE  LET part == SubSeq(a \o b, 1, k)
         IN /\ ToSet(part) \subseteq ToSet(a) \/ ToSet(a) \subseteq ToSet(part)
            /\ ToSet(part) \subseteq ToSet(a \o b)
<1> DEFINE c    == a \o b
           part == SubSeq(c, 1, k)
<1>1. /\ c \in Seq(S) /\ Len(c) = Len(a) + Len(b) /\ Len(a) \in Nat /\ Len(b) \in Nat
      /\ \A i \in 1..Len(a) : c[i] = a[i]
  OBVIOUS
<1>2. part \in Seq(S) /\ Len(part) = k /\ \A i \in 1..k : part[i] = c[i]
  BY <1>1, SplitAt
<1> HIDE DEF c, part
<1>3. /\ DOMAIN part = 1..k /\ DOMAIN a = 1..Len(a) /\ DOMAIN c = 1..Len(c) /\ k \in Nat
      /\ k <= Len(c)
  BY <1>1, <1>2 DEF c
<1>4. ToSet(part) \subseteq ToSet(c)
  BY <1>1, <1>2, <1>3 DEF ToSet
<1>5. CASE k <= Len(a)
  <2>1. \A i \in DOMAIN part : i \in DOMAIN a /\ part[i] = a[i]
    BY <1>1, <1>2, <1>3, <1>5
  <2> QED
    BY <1>4, <2>1 DEF ToSet, part, c
<1>6. CASE k >= Len(a)
  <2>1. \A i \in DOMAIN a : i \in DOMAIN part /\ part[i] = a[i]
    BY <1>1, <1>2, <1>3, <1>6
  <2> QED
    BY <1>4, <2>1 DEF ToSet, part, c
<1> QED
  BY <1>1, <1>3, <1>5, <1>6

LEMMA ToSetOfConcat ==
  ASSUME NEW S, NEW a \in Seq(S), NEW b \in Seq(S)
  PROVE  ToSet(a \o b) = ToSet(a) \cup ToSet(b)
<1> DEFINE c == a \o b
<1>1. /\ c \in Seq(S) /\ Len(c) = Len(a) + Len(b) /\ Len(a) \in Nat /\ Len(b) \in Nat
      /\ DOMAIN c = 1..Len(a) + Len(b) /\ DOMAIN a = 1..Len(a) /\ DOMAIN b = 1..Len(b)
      /\ \A i \in 1..Len(a) : c[i] = a[i]
      /\ \A i \in 1..Len(b) : c[Len(a) + i] = b[i]
  OBVIOUS
<1> HIDE DEF c
<1>2. ToSet(a) \subseteq ToSet(c)
  BY <1>1 DEF ToSet
<1>3. ASSUME NEW i \in DOMAIN b PROVE b[i] \in ToSet(c)
  <2>1. Len(a) + i \in DOMAIN c /\ c[Len(a) + i] = b[i]
    BY <1>1
  <2> QED
    BY <2>1 DEF ToSet
<1>4. ASSUME NEW i \in DOMAIN c PROVE c[i] \in ToSet(a) \cup ToSet(b)
  <2>1. CASE i <= Len(a)
    <3>1. i \in DOMAIN a /\ c[i] = a[i]
      BY <1>1, <2>1
    <3> QED
      BY <3>1 DEF ToSet
  <2>2. CASE i > Len(a)
    <3>1. i - Len(a) \in DOMAIN b /\ Len(a) + (i - Len(a)) = i
      BY <1>1, <2>2
    <3>2. c[i] = b[i - Len(a)]
      BY <1>1, <3>1
    <3> QED
      BY <3>1, <3>2 DEF ToSet
  <2> QED
    BY <1>1, <2>1, <2>2
<1>5. ToSet(b) \subseteq ToSet(c) /\ ToSet(c) \subseteq ToSet(a) \cup ToSet(b)
  BY <1>3, <1>4 DEF ToSet
<1> QED
  BY <1>2, <1>5 DEF c

\* The lines of one finding.
LinesOf(i) == <<Line("title", i), Line("detail", i)>>

LEMMA LineType ==
  ASSUME NEW i \in Nat
  PROVE  \A part \in Part : Line(part, i) \in BodyLine
  BY DEF Line, BodyLine

LEMMA LinesOfType ==
  ASSUME NEW i \in Nat
  PROVE  /\ LinesOf(i) \in Seq(BodyLine)
         /\ ToSet(LinesOf(i)) = {Line("title", i), Line("detail", i)}
<1>1. Line("title", i) \in BodyLine /\ Line("detail", i) \in BodyLine
  BY LineType DEF Part
<1>2. LinesOf(i) \in Seq(BodyLine)
  BY <1>1 DEF LinesOf
<1>3. /\ DOMAIN LinesOf(i) = {1, 2}
      /\ LinesOf(i)[1] = Line("title", i) /\ LinesOf(i)[2] = Line("detail", i)
  BY DEF LinesOf
<1>4. ToSet(LinesOf(i)) = {Line("title", i), Line("detail", i)}
  BY <1>3 DEF ToSet
<1> QED
  BY <1>2, <1>4

Occurs(severity, findings) == \E i \in DOMAIN findings : findings[i].severity = severity

LEMMA GroupTrace ==
  ASSUME NEW findings \in Seq(Findings), NEW severity \in Nat, Occurs(severity, findings)
  PROVE  \E g : /\ g[0] = <<Line("heading", severity)>>
                /\ \A k \in 1..Len(findings) :
                     g[k] = IF findings[k].severity = severity
                              THEN g[k - 1] \o LinesOf(k) ELSE g[k - 1]
                /\ Group(findings, severity) = g[Len(findings)]
<1> DEFINE n    == Len(findings)
           seq  == [i \in DOMAIN findings |-> i]
           base == <<Line("heading", severity)>>
           Show(lines, i) == IF findings[i].severity = severity THEN lines \o LinesOf(i) ELSE lines
           next == [p \in Seq(BodyLine) \X (1..n) |-> Show(p[1], p[2])]
           Rec(F) == [s \in SUBSET (1..n) |->
                        IF s = {} THEN base ELSE Show(F[s \ {Max(s)}], seq[Max(s)])]
           iter == CHOOSE F : F = Rec(F)
<1>1. n \in Nat /\ DOMAIN findings = 1..n /\ seq \in [1..n -> 1..n] /\ DOMAIN seq = 1..n
      /\ \A i \in 1..n : seq[i] = i
  OBVIOUS
<1>2. next \in [Seq(BodyLine) \X (1..n) -> Seq(BodyLine)]
  <2>1. ASSUME NEW lines \in Seq(BodyLine), NEW i \in 1..n
        PROVE  Show(lines, i) \in Seq(BodyLine)
    <3>1. LinesOf(i) \in Seq(BodyLine)
      BY <1>1, LinesOfType
    <3> QED
      BY <3>1
  <2> HIDE DEF Show, n
  <2> QED
    BY <2>1
<1>3. PICK F : Folds(F, Seq(BodyLine), next, base, n, seq)
  <2>1. base \in Seq(BodyLine)
    BY LineType DEF Part
  <2> HIDE DEF n, next, base, seq
  <2> QED
    BY <1>1, <1>2, <2>1, FoldExists
<1>4. F = Rec(F)
  <2> HIDE DEF Show, base, seq
  <2>1. /\ F \in [SUBSET (1..n) -> Seq(BodyLine)]
        /\ \A s \in SUBSET (1..n) :
             F[s] = IF s = {} THEN base ELSE next[<<F[s \ {Max(s)}], seq[Max(s)]>>]
    BY <1>3 DEF Folds
  <2>2. ASSUME NEW s \in SUBSET (1..n), s # {}
        PROVE  F[s] = Show(F[s \ {Max(s)}], seq[Max(s)])
    <3>1. Max(s) \in 1..n
      BY <1>1, <2>2, MaxOfPlaces
    <3>2. F[s \ {Max(s)}] \in Seq(BodyLine) /\ seq[Max(s)] \in 1..n
      BY <1>1, <2>1, <3>1
    <3> QED
      BY <2>1, <2>2, <3>2
  <2> QED
    BY <2>1, <2>2
<1>5. iter = Rec(iter)
  <2> HIDE DEF Rec
  <2> QED
    BY <1>4, Zenon
<1>6. Group(findings, severity) = iter[1..n]
  BY <1>1 DEF Group, FoldLeft, MapThenFoldSet, LinesOf, Occurs
<1>9. n \in Nat
  OBVIOUS
<1> HIDE DEF iter, n, seq, base, Show
<1> DEFINE g == [k \in 0..n |-> iter[1..k]]
<1>7. g[0] = base /\ g[n] = iter[1..n]
  <2>1. iter[{}] = base
    BY <1>5
  <2>2. 1..0 = {} /\ 0 \in 0..n /\ n \in 0..n
    BY <1>9
  <2> QED
    BY <2>1, <2>2
<1>8. ASSUME NEW k \in 1..n PROVE g[k] = Show(g[k - 1], k)
  <2>1. Max(1..k) = k /\ (1..k) \ {k} = 1..k - 1 /\ 1..k # {} /\ 1..k \in SUBSET (1..n)
    BY <1>9, MaxOfFirst
  <2>2. iter[1..k] = Show(iter[1..k - 1], seq[k])
    BY <1>5, <2>1
  <2> QED
    BY <1>1, <2>2
<1> HIDE DEF g
<1> QED
  BY <1>6, <1>7, <1>8 DEF n, base, Show

\* Under a heading are the findings of its severity, all of them, and no others.
LEMMA GroupHolds ==
  ASSUME NEW findings \in Seq(Findings), NEW severity \in Nat
  PROVE  LET lines == Group(findings, severity)
         IN /\ lines \in Seq(BodyLine)
            /\ \A i \in DOMAIN findings :
                 findings[i].severity = severity => ToSet(LinesOf(i)) \subseteq ToSet(lines)
            /\ \A i \in DOMAIN findings :
                 Line("title", i) \in ToSet(lines) => findings[i].severity = severity
<1> DEFINE n     == Len(findings)
           lines == Group(findings, severity)
<1>1. CASE ~\E i \in DOMAIN findings : findings[i].severity = severity
  <2>1. lines = <<>>
    BY <1>1 DEF Group
  <2>2. lines \in Seq(BodyLine) /\ ToSet(lines) = {}
    BY <2>1 DEF ToSet
  <2> QED
    BY <1>1, <2>2
<1>2. CASE \E i \in DOMAIN findings : findings[i].severity = severity
  <2>1. n \in Nat /\ n \in 0..n /\ DOMAIN findings = 1..n
    OBVIOUS
  <2>2. PICK g : /\ g[0] = <<Line("heading", severity)>>
                 /\ \A k \in 1..n : g[k] = IF findings[k].severity = severity
                                             THEN g[k - 1] \o LinesOf(k) ELSE g[k - 1]
                 /\ lines = g[n]
    BY <1>2, GroupTrace DEF Occurs
  <2> HIDE DEF n, lines
  <2> DEFINE Holds(u, k) ==
               /\ u \in Seq(BodyLine)
               /\ \A i \in 1..k : findings[i].severity = severity
                                    => ToSet(LinesOf(i)) \subseteq ToSet(u)
               /\ \A i \in 1..n : Line("title", i) \in ToSet(u)
                                    => findings[i].severity = severity
             Good == {k \in 0..n : Holds(g[k], k)}
  <2>3. 0 \in Good
    <3>1. Line("heading", severity) \in BodyLine
      BY LineType DEF Part
    <3>2. g[0] \in Seq(BodyLine) /\ ToSet(g[0]) = {Line("heading", severity)}
      BY <2>2, <3>1 DEF ToSet
    <3>3. \A i \in 1..n : Line("title", i) # Line("heading", severity)
      BY DEF Line
    <3>4. \A i \in 1..0 : FALSE
      OBVIOUS
    <3> QED
      BY <2>1, <3>2, <3>3, <3>4
  <2>4. ASSUME NEW k \in 1..n, k - 1 \in Good PROVE k \in Good
    <3> DEFINE u == g[k - 1]
               v == g[k]
    <3>1. Holds(u, k - 1) /\ k \in Nat /\ k \in 0..n
      BY <2>1, <2>4
    <3>2. v = IF findings[k].severity = severity THEN u \o LinesOf(k) ELSE u
      BY <2>2
    <3> HIDE DEF u, v
    <3>3. \A i \in 1..k : i = k \/ i \in 1..k - 1
      BY <3>1
    <3>4. CASE findings[k].severity = severity
      <4>1. /\ LinesOf(k) \in Seq(BodyLine)
            /\ ToSet(LinesOf(k)) = {Line("title", k), Line("detail", k)}
        BY <3>1, LinesOfType
      <4>2. v \in Seq(BodyLine) /\ ToSet(v) = ToSet(u) \cup ToSet(LinesOf(k))
        BY <3>1, <3>2, <3>4, <4>1, ToSetOfConcat
      <4>3. ASSUME NEW i \in 1..n, Line("title", i) \in ToSet(v)
            PROVE  findings[i].severity = severity
        <5>1. CASE Line("title", i) \in ToSet(u)
          BY <3>1, <5>1
        <5>2. CASE Line("title", i) \in {Line("title", k), Line("detail", k)}
          <6>1. i = k
            BY <5>2 DEF Line
          <6> QED
            BY <3>4, <6>1
        <5> QED
          BY <4>1, <4>2, <4>3, <5>1, <5>2
      <4>4. Holds(v, k)
        BY <3>1, <3>3, <4>2, <4>3
      <4> HIDE DEF Holds
      <4> QED
        BY <3>1, <4>4 DEF v
    <3>5. CASE findings[k].severity # severity
      <4>1. Holds(v, k)
        BY <3>1, <3>2, <3>3, <3>5
      <4> HIDE DEF Holds
      <4> QED
        BY <3>1, <4>1 DEF v
    <3> QED
      BY <3>4, <3>5
  <2>5. n \in Good
    <3> HIDE DEF Good
    <3> QED
      BY <2>1, <2>3, <2>4, UpTo
  <2> QED
    BY <2>1, <2>2, <2>5 DEF lines
<1> QED
  BY <1>1, <1>2

\* The lines of the findings that are at least so severe.
Above(lines, findings, severity) ==
  /\ lines \in Seq(BodyLine)
  /\ \A i \in DOMAIN findings :
       findings[i].severity >= severity => ToSet(LinesOf(i)) \subseteq ToSet(lines)
  /\ \A i \in DOMAIN findings :
       Line("title", i) \in ToSet(lines) => findings[i].severity >= severity

LEMMA AboveNext ==
  ASSUME NEW findings \in Seq(Findings), NEW severity \in Nat, NEW lines,
         Above(lines, findings, severity + 1)
  PROVE  Above(lines \o Group(findings, severity), findings, severity)
<1> DEFINE group == Group(findings, severity)
<1>1. /\ group \in Seq(BodyLine)
      /\ \A i \in DOMAIN findings :
           findings[i].severity = severity => ToSet(LinesOf(i)) \subseteq ToSet(group)
      /\ \A i \in DOMAIN findings :
           Line("title", i) \in ToSet(group) => findings[i].severity = severity
  BY GroupHolds
<1> HIDE DEF group
<1>2. ToSet(lines \o group) = ToSet(lines) \cup ToSet(group) /\ lines \o group \in Seq(BodyLine)
  BY <1>1, ToSetOfConcat DEF Above
<1>3. \A i \in DOMAIN findings : findings[i].severity \in Nat
  BY FindingFields
<1>4. ASSUME NEW i \in DOMAIN findings, findings[i].severity >= severity
      PROVE  ToSet(LinesOf(i)) \subseteq ToSet(lines \o group)
  <2>1. findings[i].severity = severity \/ findings[i].severity >= severity + 1
    BY <1>3, <1>4
  <2> QED
    BY <1>1, <1>2, <2>1 DEF Above
<1>5. ASSUME NEW i \in DOMAIN findings, Line("title", i) \in ToSet(lines \o group)
      PROVE  findings[i].severity >= severity
  <2>1. findings[i].severity = severity \/ findings[i].severity >= severity + 1
    BY <1>1, <1>2, <1>5 DEF Above
  <2> QED
    BY <1>3, <2>1
<1> QED
  BY <1>2, <1>4, <1>5 DEF Above, group

LEMMA JoinsShift ==
  ASSUME NEW S, NEW a \in Seq(S), NEW b \in Seq(S), NEW c \in Seq(S), NEW d
  PROVE  Joins(a \o b, c, d) <=> Joins(a, b \o c, d)
<1>1. (a \o b) \o c = a \o (b \o c)
  BY ConcatAssociative
<1> QED
  BY <1>1, Zenon DEF Joins

\* The findings that are shown come before the others, and are as severe.
LEMMA FindingLinesSplit ==
  ASSUME NEW findings \in Seq(Findings)
  PROVE  LET found == FindingLines(findings)
         IN /\ found \in Seq(BodyLine)
            /\ \A i \in DOMAIN findings : ToSet(LinesOf(i)) \subseteq ToSet(found)
            /\ findings # <<>> =>
                 \A s \in 1..4 : \E a, b \in Seq(BodyLine) :
                   Joins(a, b, found) /\ Above(a, findings, s)
<1> DEFINE found == FindingLines(findings)
           G(s)  == Group(findings, s)
<1>1. CASE findings = <<>>
  <2>1. found = <<Line("none", 0)>> /\ Line("none", 0) \in BodyLine
    BY <1>1, LineType DEF FindingLines, Part
  <2>2. found \in Seq(BodyLine)
    BY <2>1
  <2> QED
    BY <1>1, <2>2
<1>2. CASE findings # <<>>
  <2>1. found = G(4) \o G(3) \o G(2) \o G(1) \o G(0)
    BY <1>2 DEF FindingLines
  <2>2. /\ G(4) \in Seq(BodyLine) /\ G(3) \in Seq(BodyLine) /\ G(2) \in Seq(BodyLine)
        /\ G(1) \in Seq(BodyLine) /\ G(0) \in Seq(BodyLine)
    BY GroupHolds
  <2>3. Above(G(4), findings, 4)
    <3>1. ASSUME NEW i \in DOMAIN findings
          PROVE  findings[i].severity \in 0..4
      BY DEF Findings, Critical
    <3>2. /\ \A i \in DOMAIN findings :
               findings[i].severity = 4 => ToSet(LinesOf(i)) \subseteq ToSet(G(4))
          /\ \A i \in DOMAIN findings :
               Line("title", i) \in ToSet(G(4)) => findings[i].severity = 4
      BY GroupHolds
    <3>3. \A i \in DOMAIN findings : findings[i].severity >= 4 <=> findings[i].severity = 4
      BY <3>1
    <3> HIDE DEF G
    <3> QED
      BY <2>2, <3>2, <3>3 DEF Above
  <2>4. Above(G(4) \o G(3), findings, 3)
    BY <2>3, AboveNext
  <2>5. Above(G(4) \o G(3) \o G(2), findings, 2)
    BY <2>4, AboveNext
  <2>6. Above(G(4) \o G(3) \o G(2) \o G(1), findings, 1)
    BY <2>5, AboveNext
  <2>7. Above(found, findings, 0)
    BY <2>1, <2>6, AboveNext
  <2> HIDE DEF G, found
  <2>8. /\ Joins(G(4), G(3) \o (G(2) \o (G(1) \o G(0))), found)
        /\ Joins(G(4) \o G(3), G(2) \o (G(1) \o G(0)), found)
        /\ Joins(G(4) \o G(3) \o G(2), G(1) \o G(0), found)
        /\ Joins(G(4) \o G(3) \o G(2) \o G(1), G(0), found)
    <3>1. /\ G(4) \o G(3) \in Seq(BodyLine) /\ G(4) \o G(3) \o G(2) \in Seq(BodyLine)
          /\ G(1) \o G(0) \in Seq(BodyLine) /\ G(2) \o (G(1) \o G(0)) \in Seq(BodyLine)
      BY <2>2
    <3>2. Joins(G(4) \o G(3) \o G(2) \o G(1), G(0), found)
      BY <2>1, Zenon DEF Joins
    <3>3. Joins(G(4) \o G(3) \o G(2), G(1) \o G(0), found)
      BY <2>2, <3>1, <3>2, JoinsShift
    <3>4. Joins(G(4) \o G(3), G(2) \o (G(1) \o G(0)), found)
      BY <2>2, <3>1, <3>3, JoinsShift
    <3>5. Joins(G(4), G(3) \o (G(2) \o (G(1) \o G(0))), found)
      BY <2>2, <3>1, <3>4, JoinsShift
    <3> QED
      BY <3>2, <3>3, <3>4, <3>5
  <2>9. ASSUME NEW s \in 1..4
        PROVE  \E a, b \in Seq(BodyLine) : Joins(a, b, found) /\ Above(a, findings, s)
    <3>1. /\ G(3) \o (G(2) \o (G(1) \o G(0))) \in Seq(BodyLine)
          /\ G(2) \o (G(1) \o G(0)) \in Seq(BodyLine) /\ G(1) \o G(0) \in Seq(BodyLine)
      BY <2>2
    <3>2. \A a : Above(a, findings, s) => a \in Seq(BodyLine)
      BY DEF Above
    <3>3. s = 4 \/ s = 3 \/ s = 2 \/ s = 1
      OBVIOUS
    <3> QED
      BY <2>2, <2>3, <2>4, <2>5, <2>6, <2>8, <3>1, <3>2, <3>3
  <2>10. \A i \in DOMAIN findings : ToSet(LinesOf(i)) \subseteq ToSet(found)
    BY <2>7, FindingFields DEF Above
  <2>11. found \in Seq(BodyLine)
    BY <2>7 DEF Above
  <2> QED
    BY <2>9, <2>10, <2>11 DEF found
<1> QED
  BY <1>1, <1>2

\* A text of a review's lists: of Codex, or a notice or a warning of the model.
Words == STRING \cup {"unmapped", "body", "diff", "patches"}

LEMMA JoinFacts ==
  ASSUME NEW a \in Seq(BodyLine), NEW b \in Seq(BodyLine), NEW c, Joins(a, b, c)
  PROVE  /\ c \in Seq(BodyLine) /\ ToSet(c) = ToSet(a) \cup ToSet(b)
         /\ Size(a) \in Nat /\ Size(b) \in Nat /\ Size(c) = Size(a) + Size(b)
<1>1. c = a \o b
  BY DEF Joins
<1>2. ToSet(a \o b) = ToSet(a) \cup ToSet(b)
  BY ToSetOfConcat
<1> QED
  BY <1>1, <1>2, SizeOfConcat

LEMMA LinesType ==
  ASSUME NEW part \in Part, NEW values \in Seq(Words)
  PROVE  /\ Lines(part, values) \in Seq(BodyLine)
         /\ \A l \in ToSet(Lines(part, values)) : l.part = part
<1>1. Len(values) \in Nat /\ DOMAIN values = 1..Len(values)
  OBVIOUS
<1>2. \A i \in 1..Len(values) : Line(part, i) \in BodyLine
  BY <1>1, LineType
<1>3. Lines(part, values) \in [1..Len(values) -> BodyLine]
  BY <1>1, <1>2 DEF Lines
<1>4. \A l \in ToSet(Lines(part, values)) : l.part = part
  BY DEF Lines, Line, ToSet
<1> QED
  BY <1>1, <1>3, <1>4

\* The parts around the findings.
LEMMA FrameType ==
  ASSUME NEW review, review.recommendations \in Seq(Words), review.limitations \in Seq(Words)
  PROVE  /\ Header \in Seq(BodyLine) /\ TailLines(review) \in Seq(BodyLine)
         /\ Suffix(review) = <<Line("notice", 0)>> \o TailLines(review)
         /\ <<Line("notice", 0)>> \in Seq(BodyLine)
         /\ Size(Header) = LineSize["header"] /\ Size(<<Line("notice", 0)>>) = LineSize["notice"]
         /\ \A l \in ToSet(Header) \cup {Line("notice", 0)} \cup ToSet(TailLines(review)) :
              l.part \notin {"title", "detail"}
<1> DEFINE R == Lines("recommendation", review.recommendations)
           L == Lines("limitation", review.limitations)
           D == <<Line("disclaimer", 0)>>
<1>1. ASSUME NEW part \in Part
      PROVE  /\ <<Line(part, 0)>> \in Seq(BodyLine) /\ Len(<<Line(part, 0)>>) = 1
             /\ ToSet(<<Line(part, 0)>>) = {Line(part, 0)} /\ Line(part, 0).part = part
             /\ Size(<<Line(part, 0)>>) = LineSize[part]
  <2> DEFINE l   == Line(part, 0)
             seq == <<l>>
  <2>1. l \in BodyLine /\ l.part = part
    BY LineType DEF Line
  <2> HIDE DEF l
  <2>2. seq \in Seq(BodyLine) /\ Len(seq) = 1 /\ seq[1] = l /\ DOMAIN seq = {1}
    BY <2>1
  <2>3. ToSet(seq) = {l}
    BY <2>2 DEF ToSet
  <2> HIDE DEF seq
  <2>4. PICK g : /\ g[0] = 0
                 /\ \A k \in 1..1 : g[k] \in Nat /\ g[k] = g[k - 1] + LineSize[seq[k].part]
                 /\ Size(seq) = g[1]
    BY <2>2, SizeTrace
  <2>5. LineSize[part] \in Nat
    BY ReviewBodyAssumption
  <2>6. Size(seq) = LineSize[part]
    BY <2>1, <2>2, <2>4, <2>5
  <2> QED
    BY <2>1, <2>2, <2>3, <2>6 DEF seq, l
<1>2. /\ R \in Seq(BodyLine) /\ L \in Seq(BodyLine) /\ D \in Seq(BodyLine)
      /\ \A l \in ToSet(R) : l.part = "recommendation"
      /\ \A l \in ToSet(L) : l.part = "limitation"
      /\ \A l \in ToSet(D) : l.part = "disclaimer"
  <2>1. "recommendation" \in Part /\ "limitation" \in Part /\ "disclaimer" \in Part
    BY DEF Part
  <2>2. R \in Seq(BodyLine) /\ \A l \in ToSet(R) : l.part = "recommendation"
    BY <2>1, LinesType
  <2>3. L \in Seq(BodyLine) /\ \A l \in ToSet(L) : l.part = "limitation"
    BY <2>1, LinesType
  <2>4. D \in Seq(BodyLine) /\ \A l \in ToSet(D) : l.part = "disclaimer"
    BY <1>1, <2>1
  <2> QED
    BY <2>2, <2>3, <2>4
<1> HIDE DEF R, L, D
<1>3. (R \o L) \o D \in Seq(BodyLine) /\ ToSet((R \o L) \o D) = ToSet(R) \cup ToSet(L) \cup ToSet(D)
  <2> DEFINE RL == R \o L
  <2>1. Joins(R, L, RL)
    BY DEF Joins
  <2> HIDE DEF RL
  <2>2. Joins(RL, D, RL \o D)
    BY DEF Joins
  <2>3. RL \in Seq(BodyLine) /\ ToSet(RL) = ToSet(R) \cup ToSet(L)
    BY <1>2, <2>1, JoinFacts
  <2>4. RL \o D \in Seq(BodyLine) /\ ToSet(RL \o D) = ToSet(RL) \cup ToSet(D)
    BY <1>2, <2>2, <2>3, JoinFacts
  <2> QED
    BY <2>3, <2>4 DEF RL
<1>4. TailLines(review) = (R \o L) \o D
  BY DEF TailLines, R, L, D
<1>5. /\ Header \in Seq(BodyLine) /\ <<Line("notice", 0)>> \in Seq(BodyLine)
      /\ Size(Header) = LineSize["header"] /\ Size(<<Line("notice", 0)>>) = LineSize["notice"]
      /\ ToSet(Header) = {Line("header", 0)} /\ Line("header", 0).part = "header"
      /\ Line("notice", 0).part = "notice"
  BY <1>1 DEF Header, Part
<1>6. \A l \in ToSet(Header) \cup {Line("notice", 0)} \cup ToSet(TailLines(review)) :
        l.part \notin {"title", "detail"}
  BY <1>2, <1>3, <1>4, <1>5
<1> QED
  BY <1>3, <1>4, <1>5, <1>6 DEF Suffix

\* A part of the findings' lines shows a finding only with all graver ones.
LEMMA GravestFirst ==
  ASSUME NEW findings \in Seq(Findings), NEW m \in 0..Len(FindingLines(findings)),
         NEW i \in DOMAIN findings, NEW n \in DOMAIN findings,
         Line("title", n) \in ToSet(SubSeq(FindingLines(findings), 1, m)),
         ~(findings[i].severity <= findings[n].severity)
  PROVE  ToSet(LinesOf(i)) \subseteq ToSet(SubSeq(FindingLines(findings), 1, m))
<1> DEFINE found == FindingLines(findings)
           part  == SubSeq(found, 1, m)
           s     == findings[n].severity + 1
<1>1. findings[i].severity \in 0..4 /\ findings[n].severity \in 0..4
  BY DEF Findings, Critical
<1>2. s \in 1..4 /\ findings[i].severity >= s /\ ~(findings[n].severity >= s)
  BY <1>1
<1>3. findings # <<>>
  OBVIOUS
<1> HIDE DEF s, found
<1>4. PICK a, b \in Seq(BodyLine) : Joins(a, b, found) /\ Above(a, findings, s)
  BY <1>2, <1>3, FindingLinesSplit DEF found
<1>5. found = a \o b
  BY <1>4 DEF Joins
<1>6. m \in 0..Len(a \o b) /\ part = SubSeq(a \o b, 1, m)
  BY <1>5 DEF found
<1> HIDE DEF part
<1>7. ToSet(part) \subseteq ToSet(a) \/ ToSet(a) \subseteq ToSet(part)
  BY <1>6, BeginningOf
<1>8. Line("title", n) \notin ToSet(a) /\ ToSet(LinesOf(i)) \subseteq ToSet(a)
  BY <1>2, <1>4 DEF Above
<1>9. Line("title", n) \in ToSet(part)
  BY DEF part, found
<1>10. ToSet(LinesOf(i)) \subseteq ToSet(part)
  BY <1>7, <1>8, <1>9
<1> QED
  BY <1>10 DEF part, found

\* The body of any review discloses what it leaves out.
LEMMA FormatDiscloses ==
  ASSUME NEW review, review.findings \in Seq(Findings),
         review.recommendations \in Seq(Words), review.limitations \in Seq(Words)
  PROVE  BodyDiscloses(review, FormatReview(review))
<1> DEFINE findings == review.findings
           found    == FindingLines(findings)
           tail     == TailLines(review)
           notice   == <<Line("notice", 0)>>
           suffix   == Suffix(review)
           whole    == Header \o found \o tail
           room     == Available(review)
           part     == Fitting(found, room)
           cut      == Header \o part \o suffix
           taken    == Size(Header) + Size(suffix)
           text     == FormatReview(review)
           Shows(i, lines) == {Line("title", i), Line("detail", i)} \subseteq ToSet(lines)
<1>1. /\ Header \in Seq(BodyLine) /\ tail \in Seq(BodyLine) /\ notice \in Seq(BodyLine)
      /\ suffix = notice \o tail
      /\ Size(Header) = LineSize["header"] /\ Size(notice) = LineSize["notice"]
      /\ \A l \in ToSet(Header) \cup {Line("notice", 0)} \cup ToSet(tail) :
           l.part \notin {"title", "detail"}
      /\ ToSet(notice) = {Line("notice", 0)}
  <2>1. ToSet(notice) = {Line("notice", 0)}
    <3> DEFINE l == Line("notice", 0)
    <3> HIDE DEF l
    <3>1. DOMAIN <<l>> = {1} /\ <<l>>[1] = l
      OBVIOUS
    <3>2. ToSet(<<l>>) = {l}
      BY <3>1 DEF ToSet
    <3> QED
      BY <3>2 DEF l
  <2> QED
    BY <2>1, FrameType
<1>2. found \in Seq(BodyLine) /\ \A i \in DOMAIN findings : ToSet(LinesOf(i)) \subseteq ToSet(found)
  BY FindingLinesSplit
<1>3. /\ MaxBody \in Nat /\ Size(Header) \in Nat /\ Size(notice) \in Nat
      /\ Size(Header) + Size(notice) <= MaxBody
  <2>1. LineSize["header"] \in Nat /\ LineSize["notice"] \in Nat
    BY ReviewBodyAssumption DEF Part
  <2> HIDE DEF notice, tail, suffix
  <2> QED
    BY <1>1, <2>1, ReviewBodyAssumption
<1>4. text = IF Size(whole) <= MaxBody THEN whole ELSE Fitting(cut, MaxBody)
  BY DEF FormatReview
<1>5. room = IF taken < MaxBody THEN MaxBody - taken ELSE 0
  BY DEF Available
<1>6. ASSUME NEW i \in DOMAIN findings
      PROVE  ToSet(LinesOf(i)) = {Line("title", i), Line("detail", i)}
  <2>1. i \in Nat
    OBVIOUS
  <2> QED
    BY <2>1, LinesOfType
<1>7. ASSUME NEW i \in DOMAIN findings
      PROVE  /\ Line("title", i) \notin ToSet(Header) \cup ToSet(notice) \cup ToSet(tail)
             /\ Line("detail", i) \notin ToSet(Header) \cup ToSet(notice) \cup ToSet(tail)
  <2>1. Line("title", i).part = "title" /\ Line("detail", i).part = "detail"
    BY DEF Line
  <2> HIDE DEF notice, tail, suffix
  <2> QED
    BY <1>1, <2>1
<1> HIDE DEF found, tail, notice, suffix, room, taken
<1>8. suffix \in Seq(BodyLine) /\ Size(suffix) \in Nat /\ taken \in Nat /\ room \in Nat
  <2>1. suffix \in Seq(BodyLine) /\ Size(suffix) \in Nat
    BY <1>1, SizeOfConcat
  <2>2. taken \in Nat
    BY <1>3, <2>1 DEF taken
  <2> QED
    BY <1>3, <1>5, <2>1, <2>2
<1>9. ASSUME NEW x \in Nat, x <= room
       PROVE  /\ Size(Header) + x + Size(notice) <= MaxBody
              /\ taken <= MaxBody => taken + x <= MaxBody
  <2>1. Joins(notice, tail, suffix)
    BY <1>1 DEF Joins
  <2>2. taken = Size(Header) + Size(notice) + Size(tail) /\ Size(tail) \in Nat
    BY <1>1, <1>3, <2>1, JoinFacts DEF taken
  <2>3. CASE taken < MaxBody
    <3>1. room = MaxBody - taken
      BY <1>5, <2>3
    <3>2. taken + x <= MaxBody
      BY <1>3, <1>8, <1>9, <3>1
    <3> QED
      BY <1>3, <1>8, <2>2, <3>2
  <2>4. CASE ~(taken < MaxBody)
    BY <1>3, <1>5, <1>8, <1>9, <2>2, <2>4
  <2> QED
    BY <2>3, <2>4
<1>10. CASE Size(whole) <= MaxBody
  <2>1. text = whole
    BY <1>4, <1>10
  <2>2. ToSet(whole) = ToSet(Header) \cup ToSet(found) \cup ToSet(tail)
    <3> DEFINE first == Header \o found
    <3>1. Joins(Header, found, first)
      BY DEF Joins
    <3> HIDE DEF first
    <3>2. Joins(first, tail, first \o tail)
      BY DEF Joins
    <3>3. first \in Seq(BodyLine) /\ ToSet(first) = ToSet(Header) \cup ToSet(found)
      BY <1>1, <1>2, <3>1, JoinFacts
    <3>4. ToSet(first \o tail) = ToSet(first) \cup ToSet(tail)
      BY <1>1, <3>2, <3>3, JoinFacts
    <3> QED
      BY <3>3, <3>4 DEF first
  <2> HIDE DEF whole, text
  <2>3. \A i \in DOMAIN findings : Shows(i, text)
    BY <1>2, <1>6, <2>1, <2>2
  <2>4. ToSet(tail) \subseteq ToSet(text)
    BY <2>1, <2>2
  <2> QED
    BY <1>10, <2>1, <2>3, <2>4 DEF BodyDiscloses, text, tail
<1>11. CASE ~(Size(whole) <= MaxBody)
  <2>1. text = Fitting(cut, MaxBody)
    BY <1>4, <1>11
  <2>2. PICK m \in 0..Len(found) :
          part = SubSeq(found, 1, m) /\ Size(SubSeq(found, 1, m)) <= room
    BY <1>2, <1>8, FittingIs
  <2>3. part \in Seq(BodyLine)
    BY <1>2, <2>2, SplitAt
  <2>4. Size(part) <= room
    BY <2>2
  <2> HIDE DEF part, whole, text
  <2> DEFINE top == Header \o part
  <2>5. /\ top \in Seq(BodyLine) /\ Size(top) = Size(Header) + Size(part) /\ Size(part) \in Nat
        /\ ToSet(top) = ToSet(Header) \cup ToSet(part)
    <3>1. Joins(Header, part, top)
      BY DEF Joins
    <3> HIDE DEF top
    <3> QED
      BY <1>1, <2>3, <3>1, JoinFacts
  <2> HIDE DEF top
  <2>6. Joins(top, suffix, cut)
    BY DEF top, cut, Joins
  <2> HIDE DEF cut
  <2>7. Joins(top \o notice, tail, cut)
    <3>1. Joins(top, notice \o tail, cut)
      BY <1>1, <2>6 DEF Joins
    <3> QED
      BY <1>1, <2>5, <3>1, JoinsShift
  <2>8. cut \in Seq(BodyLine) /\ Size(cut) = Size(top) + Size(suffix)
    BY <1>8, <2>5, <2>6, JoinFacts
  <2>9. ToSet(cut) = ToSet(top) \cup ToSet(notice) \cup ToSet(tail)
    <3>1. Joins(notice, tail, suffix)
      BY <1>1 DEF Joins
    <3>2. ToSet(suffix) = ToSet(notice) \cup ToSet(tail)
      BY <1>1, <3>1, JoinFacts
    <3>3. ToSet(cut) = ToSet(top) \cup ToSet(suffix)
      BY <1>8, <2>5, <2>6, JoinFacts
    <3> QED
      BY <3>2, <3>3
  <2>10. /\ text \in Seq(BodyLine) /\ Size(text) <= MaxBody
         /\ ToSet(text) \subseteq ToSet(cut)
    <3>1. PICK k \in 0..Len(cut) :
            text = SubSeq(cut, 1, k) /\ Size(SubSeq(cut, 1, k)) <= MaxBody
      BY <1>3, <2>1, <2>8, FittingIs
    <3>2. /\ SubSeq(cut, 1, k) \in Seq(BodyLine) /\ Len(SubSeq(cut, 1, k)) = k
          /\ \A i \in 1..k : SubSeq(cut, 1, k)[i] = cut[i]
      BY <2>8, SplitAt
    <3>3. text \in Seq(BodyLine) /\ Size(text) <= MaxBody
      BY <3>1, <3>2
    <3>4. \A i \in DOMAIN text : i \in DOMAIN cut /\ text[i] = cut[i]
      BY <2>8, <3>1, <3>2
    <3> QED
      BY <3>3, <3>4 DEF ToSet
  <2>11. ToSet(top) \cup ToSet(notice) \subseteq ToSet(text)
    <3> DEFINE head == top \o notice
    <3>0. Joins(top, notice, head)
      BY DEF Joins
    <3>1. cut = head \o tail
      BY <2>7 DEF head, Joins
    <3> HIDE DEF head
    <3>2. /\ head \in Seq(BodyLine) /\ Size(head) = Size(top) + Size(notice)
          /\ ToSet(head) = ToSet(top) \cup ToSet(notice)
      BY <1>1, <2>5, <3>0, JoinFacts
    <3>3. Size(head) <= MaxBody
      BY <1>9, <2>4, <2>5, <3>2
    <3> QED
      BY <1>1, <1>3, <2>1, <3>1, <3>2, <3>3, FittingKeeps
  <2>12. taken <= MaxBody => ToSet(tail) \subseteq ToSet(text)
    <3> SUFFICES ASSUME taken <= MaxBody PROVE ToSet(tail) \subseteq ToSet(text)
      OBVIOUS
    <3>1. Size(cut) <= MaxBody
      <4>1. Size(cut) = taken + Size(part)
        BY <1>3, <1>8, <2>5, <2>8 DEF taken
      <4> QED
        BY <1>9, <2>4, <2>5, <4>1
    <3>2. <<>> \in Seq(BodyLine) /\ cut \o <<>> = cut
      BY <2>8
    <3>3. ToSet(cut) \subseteq ToSet(Fitting(cut \o <<>>, MaxBody))
      BY <1>3, <2>8, <3>1, <3>2, FittingKeeps
    <3> QED
      BY <2>1, <2>9, <3>2, <3>3
  <2>13. ASSUME NEW i \in DOMAIN findings
         PROVE  Shows(i, text) <=> Shows(i, part)
    BY <1>7, <2>5, <2>9, <2>10, <2>11
  <2>14. ASSUME NEW i \in DOMAIN findings, NEW n \in DOMAIN findings,
                ~Shows(i, text), Shows(n, text)
         PROVE  findings[i].severity <= findings[n].severity
    <3>1. ~Shows(i, part) /\ Shows(n, part)
      BY <2>13, <2>14
    <3> HIDE DEF findings
    <3>2. Line("title", n) \in ToSet(SubSeq(found, 1, m)) /\ ~Shows(i, SubSeq(found, 1, m))
      BY <2>2, <3>1
    <3> SUFFICES ASSUME ~(findings[i].severity <= findings[n].severity) PROVE FALSE
      OBVIOUS
    <3>3. findings \in Seq(Findings)
      BY DEF findings
    <3>4. ToSet(LinesOf(i)) \subseteq ToSet(SubSeq(found, 1, m))
      BY <3>2, <3>3, GravestFirst DEF found
    <3> QED
      BY <1>6, <3>2, <3>4
  <2>15. Line("notice", 0) \in ToSet(text)
    BY <1>1, <2>11
  <2>16. /\ Size(text) <= MaxBody
         /\ (\E i \in DOMAIN findings : ~Shows(i, text)) => Line("notice", 0) \in ToSet(text)
         /\ \A i, n \in DOMAIN findings :
              ~Shows(i, text) /\ Shows(n, text) => findings[i].severity <= findings[n].severity
         /\ Size(Header) + Size(suffix) <= MaxBody => ToSet(tail) \subseteq ToSet(text)
    BY <2>10, <2>12, <2>14, <2>15 DEF taken
  <2> QED
    BY <2>16 DEF BodyDiscloses, text, suffix, tail
<1> QED
  BY <1>10, <1>11

-----------------------------------------------------------------------------
(***************************************************************************)
(* Limitations: what a review says was lost.                               *)
(***************************************************************************)
LEMMA JoinOfAny ==
  ASSUME NEW S, NEW a \in Seq(S), NEW b \in Seq(S), NEW c, Joins(a, b, c)
  PROVE  c \in Seq(S) /\ Len(c) = Len(a) + Len(b) /\ ToSet(c) = ToSet(a) \cup ToSet(b)
<1>1. ToSet(a \o b) = ToSet(a) \cup ToSet(b)
  BY ToSetOfConcat
<1>2. a \o b \in Seq(S) /\ Len(a \o b) = Len(a) + Len(b)
  OBVIOUS
<1> QED
  BY <1>1, <1>2 DEF Joins

LEMMA FreshTrace ==
  ASSUME NEW Text, NEW existing, NEW seq \in Seq(Text)
  PROVE  \E g : /\ g[0] = <<>>
                /\ \A k \in 1..Len(seq) :
                     g[k] = IF seq[k] \in ToSet(existing) \cup ToSet(g[k - 1]) THEN g[k - 1]
                            ELSE Append(g[k - 1], seq[k])
                /\ Fresh(existing, seq) = g[Len(seq)]
<1> DEFINE n    == Len(seq)
           Add(kept, v) == IF v \in ToSet(existing) \cup ToSet(kept) THEN kept ELSE Append(kept, v)
           next == [p \in Seq(Text) \X Text |-> Add(p[1], p[2])]
           Rec(F) == [s \in SUBSET (1..n) |->
                        IF s = {} THEN <<>> ELSE Add(F[s \ {Max(s)}], seq[Max(s)])]
           iter == CHOOSE F : F = Rec(F)
<1>1. n \in Nat /\ seq \in [1..n -> Text] /\ DOMAIN seq = 1..n
  BY LenProperties
<1>2. next \in [Seq(Text) \X Text -> Seq(Text)]
  <2>1. ASSUME NEW u \in Seq(Text), NEW v \in Text PROVE Add(u, v) \in Seq(Text)
    OBVIOUS
  <2> HIDE DEF Add
  <2> QED
    BY <2>1
<1>3. PICK F : Folds(F, Seq(Text), next, <<>>, n, seq)
  <2> HIDE DEF n, next
  <2>1. <<>> \in Seq(Text)
    OBVIOUS
  <2> QED
    BY <1>1, <1>2, <2>1, FoldExists
<1>4. F = Rec(F)
  <2> HIDE DEF Add
  <2>1. /\ F \in [SUBSET (1..n) -> Seq(Text)]
        /\ \A s \in SUBSET (1..n) :
             F[s] = IF s = {} THEN <<>> ELSE next[<<F[s \ {Max(s)}], seq[Max(s)]>>]
    BY <1>3 DEF Folds
  <2>2. ASSUME NEW s \in SUBSET (1..n), s # {}
        PROVE  F[s] = Add(F[s \ {Max(s)}], seq[Max(s)])
    <3>1. Max(s) \in 1..n
      BY <1>1, <2>2, MaxOfPlaces
    <3>2. F[s \ {Max(s)}] \in Seq(Text) /\ seq[Max(s)] \in Text
      BY <1>1, <2>1, <3>1
    <3> QED
      BY <2>1, <2>2, <3>2
  <2> QED
    BY <2>1, <2>2
<1>5. iter = Rec(iter)
  <2> HIDE DEF Rec
  <2> QED
    BY <1>4, Zenon
<1>6. Fresh(existing, seq) = iter[1..n]
  BY <1>1 DEF Fresh, FoldLeft, MapThenFoldSet
<1> HIDE DEF iter
<1> DEFINE g == [k \in 0..n |-> iter[1..k]]
<1>7. g[0] = <<>> /\ g[n] = iter[1..n]
  BY <1>1, <1>5
<1>8. ASSUME NEW k \in 1..n PROVE g[k] = Add(g[k - 1], seq[k])
  <2> HIDE DEF Add
  <2>1. Max(1..k) = k /\ (1..k) \ {k} = 1..k - 1 /\ 1..k # {} /\ 1..k \in SUBSET (1..n)
    BY <1>1, MaxOfFirst
  <2>2. iter[1..k] = Add(iter[1..k - 1], seq[k])
    BY <1>5, <2>1
  <2> QED
    BY <1>1, <2>2
<1> HIDE DEF g
<1> QED
  BY <1>6, <1>7, <1>8

LEMMA ToSetOfAppend ==
  ASSUME NEW S, NEW u \in Seq(S), NEW v \in S
  PROVE  ToSet(Append(u, v)) = ToSet(u) \cup {v}
<1> DEFINE w == Append(u, v)
           n == Len(u)
<1>1. /\ n \in Nat /\ DOMAIN w = 1..n + 1 /\ DOMAIN u = 1..n /\ w[n + 1] = v
      /\ \A i \in 1..n : w[i] = u[i]
  OBVIOUS
<1> HIDE DEF w, n
<1>2. \A i \in 1..n + 1 : i \in 1..n \/ i = n + 1
  BY <1>1
<1>3. n + 1 \in 1..n + 1 /\ \A i \in 1..n : i \in 1..n + 1
  BY <1>1
<1>4. ToSet(w) = ToSet(u) \cup {v}
  BY <1>1, <1>2, <1>3 DEF ToSet
<1> QED
  BY <1>4 DEF w

LEMMA FreshHolds ==
  ASSUME NEW Text, NEW existing, NEW seq \in Seq(Text)
  PROVE  /\ Fresh(existing, seq) \in Seq(Text) /\ Len(Fresh(existing, seq)) <= Len(seq)
         /\ ToSet(Fresh(existing, seq)) = ToSet(seq) \ ToSet(existing)
<1> DEFINE n   == Len(seq)
           old == ToSet(existing)
<1>1. n \in Nat /\ n \in 0..n /\ DOMAIN seq = 1..n /\ \A k \in 1..n : seq[k] \in Text
  BY LenProperties
<1>2. PICK g : /\ g[0] = <<>>
               /\ \A k \in 1..n : g[k] = IF seq[k] \in old \cup ToSet(g[k - 1]) THEN g[k - 1]
                                         ELSE Append(g[k - 1], seq[k])
               /\ Fresh(existing, seq) = g[n]
  BY FreshTrace
<1> HIDE DEF n, old
<1> DEFINE Holds(u, k) == /\ u \in Seq(Text) /\ Len(u) <= k
                          /\ ToSet(u) = {seq[j] : j \in 1..k} \ old
           Good == {k \in 0..n : Holds(g[k], k)}
<1>3. 0 \in Good
  <2>1. g[0] \in Seq(Text) /\ Len(g[0]) <= 0 /\ ToSet(g[0]) = {} /\ 1..0 = {}
    BY <1>2 DEF ToSet
  <2> QED
    BY <1>1, <2>1
<1>4. ASSUME NEW k \in 1..n, k - 1 \in Good PROVE k \in Good
  <2> DEFINE u == g[k - 1]
             v == seq[k]
             w == g[k]
  <2>1. Holds(u, k - 1) /\ v \in Text /\ k \in Nat /\ k \in 0..n
    BY <1>1, <1>4
  <2>2. w = IF v \in old \cup ToSet(u) THEN u ELSE Append(u, v)
    BY <1>2
  <2>3. {seq[j] : j \in 1..k} = {seq[j] : j \in 1..k - 1} \cup {v}
    <3>1. 1..k = 1..k - 1 \cup {k}
      BY <2>1
    <3> QED
      BY <3>1
  <2> HIDE DEF u, v, w
  <2>4. Holds(w, k)
    <3>1. CASE v \in old \cup ToSet(u)
      <4>1. w = u
        BY <2>2, <3>1
      <4>2. w \in Seq(Text) /\ Len(w) <= k
        BY <2>1, <4>1
      <4>3. ToSet(w) = {seq[j] : j \in 1..k} \ old
        BY <2>1, <2>3, <3>1, <4>1
      <4> QED
        BY <4>2, <4>3
    <3>2. CASE v \notin old \cup ToSet(u)
      <4>1. w = Append(u, v)
        BY <2>2, <3>2
      <4>2. ToSet(w) = ToSet(u) \cup {v}
        BY <2>1, <4>1, ToSetOfAppend
      <4>3. w \in Seq(Text) /\ Len(w) <= k
        BY <2>1, <4>1
      <4>4. ToSet(w) = {seq[j] : j \in 1..k} \ old
        BY <2>1, <2>3, <3>2, <4>2
      <4> QED
        BY <4>3, <4>4
    <3> QED
      BY <3>1, <3>2
  <2> HIDE DEF Holds
  <2> QED
    BY <2>1, <2>4 DEF w
<1>5. n \in Good
  <2> HIDE DEF Good
  <2> QED
    BY <1>1, <1>3, <1>4, UpTo
<1>6. ToSet(seq) = {seq[j] : j \in 1..n}
  BY <1>1 DEF ToSet
<1> QED
  BY <1>2, <1>5, <1>6 DEF n, old

LEMMA DistinctHolds ==
  ASSUME NEW Text, NEW values \in Seq(Text)
  PROVE  /\ Distinct(values) \in Seq(Text) /\ Len(Distinct(values)) <= Len(values)
         /\ ToSet(Distinct(values)) = ToSet(values)
<1>1. ToSet(<<>>) = {}
  BY DEF ToSet
<1> DEFINE d == Fresh(<<>>, values)
<1>2. d \in Seq(Text) /\ Len(d) <= Len(values) /\ ToSet(d) = ToSet(values) \ ToSet(<<>>)
  BY FreshHolds
<1>3. Distinct(values) = d
  BY DEF Distinct
<1> HIDE DEF d
<1> QED
  BY <1>1, <1>2, <1>3

\* A place of v in a list, at most the m-th.
Within(v, list, m) == \E p \in DOMAIN list : p <= m /\ list[p] = v

LEMMA LimitationsHold ==
  ASSUME NEW Text, "unmapped" \in Text,
         NEW values \in Seq(Text), Len(values) <= MaxItems, NEW unmapped
  PROVE  LET l == Limitations(values, unmapped)
             n == Len(values)
         IN /\ l \in Seq(Text) /\ Len(l) <= MaxItems
            /\ ToSet(l) \subseteq ToSet(values) \cup {"unmapped"}
            /\ n < MaxItems => \A v \in ToSet(values) : Within(v, l, n)
            /\ n < MaxItems /\ unmapped => Within("unmapped", l, n + 1)
            /\ ~unmapped => l = Distinct(values)
<1> DEFINE n    == Len(values)
           kept == Distinct(values)
           l    == Limitations(values, unmapped)
<1>1. kept \in Seq(Text) /\ Len(kept) <= n /\ ToSet(kept) = ToSet(values)
  BY DistinctHolds
<1>2. n \in Nat /\ MaxItems \in Nat /\ MaxItems >= 3 /\ n <= MaxItems
  BY ReviewValidationAssumption
<1>3. l = IF unmapped /\ "unmapped" \notin ToSet(kept)
            THEN Append(Upto(kept, MaxItems - 1), "unmapped") ELSE kept
  BY DEF Limitations
<1>4. ~unmapped => l = kept
  BY <1>3
<1> HIDE DEF n, kept, l
<1>5. \A v \in ToSet(values) : Within(v, kept, n)
  <2>1. \A p \in DOMAIN kept : p <= n
    BY <1>1, <1>2
  <2>2. \A v \in ToSet(kept) : \E p \in DOMAIN kept : kept[p] = v
    BY DEF ToSet
  <2> QED
    BY <1>1, <2>1, <2>2 DEF Within
<1>6. CASE ~(unmapped /\ "unmapped" \notin ToSet(kept))
  <2>1. l = kept
    BY <1>3, <1>6
  <2>2. unmapped => Within("unmapped", kept, n + 1)
    BY <1>1, <1>2, <1>6 DEF Within, ToSet
  <2>3. Len(kept) <= MaxItems
    BY <1>1, <1>2
  <2> QED
    BY <1>1, <1>4, <1>5, <2>1, <2>2, <2>3 DEF n, kept, l
<1>7. CASE unmapped /\ "unmapped" \notin ToSet(kept)
  <2> DEFINE some == Upto(kept, MaxItems - 1)
  <2>0. MaxItems - 1 \in Nat
    BY <1>2
  <2>1. /\ some \in Seq(Text) /\ Len(some) <= MaxItems - 1
        /\ \E m \in 0..Len(kept) :
             /\ m = Len(some)
             /\ m = IF MaxItems - 1 < Len(kept) THEN MaxItems - 1 ELSE Len(kept)
             /\ \A i \in 1..m : some[i] = kept[i]
    BY <1>1, <2>0, UptoIsPrefix
  <2> HIDE DEF some
  <2>2. PICK m \in 0..Len(kept) :
          /\ m = Len(some)
          /\ m = IF MaxItems - 1 < Len(kept) THEN MaxItems - 1 ELSE Len(kept)
          /\ \A i \in 1..m : some[i] = kept[i]
    BY <2>1
  <2>3. l = Append(some, "unmapped")
    BY <1>3, <1>7 DEF some
  <2>4. m \in Nat /\ m <= n /\ m <= MaxItems - 1 /\ Len(kept) \in Nat
    BY <1>1, <1>2, <2>1, <2>2
  <2>5. /\ l \in Seq(Text) /\ Len(l) = m + 1 /\ DOMAIN l = 1..m + 1
        /\ l[m + 1] = "unmapped" /\ \A i \in 1..m : l[i] = kept[i]
    <3> DEFINE word == "unmapped"
    <3>1. l = Append(some, word) /\ word \in Text
      BY <2>3
    <3> HIDE DEF word
    <3>2. some \in Seq(Text) /\ Len(some) = m
      BY <2>1, <2>2
    <3>3. /\ l \in Seq(Text) /\ Len(l) = m + 1 /\ DOMAIN l = 1..m + 1
          /\ l[m + 1] = word /\ \A i \in 1..m : l[i] = some[i]
      BY <2>4, <3>1, <3>2
    <3> QED
      BY <2>2, <3>3 DEF word
  <2>6. Len(l) <= MaxItems
    BY <1>2, <2>4, <2>5
  <2>7. ToSet(l) \subseteq ToSet(values) \cup {"unmapped"}
    <3>1. \A i \in 1..m + 1 : i = m + 1 \/ (i \in 1..m /\ i \in DOMAIN kept)
      BY <1>1, <2>2, <2>4
    <3>2. \A i \in DOMAIN l : l[i] = "unmapped" \/ l[i] \in ToSet(kept)
      BY <2>5, <3>1 DEF ToSet
    <3> QED
      BY <1>1, <3>2 DEF ToSet
  <2>8. ASSUME n < MaxItems PROVE \A v \in ToSet(values) : Within(v, l, n)
    <3>1. m = Len(kept)
      BY <1>1, <1>2, <2>2, <2>4, <2>8
    <3>2. \A i \in DOMAIN kept : i \in DOMAIN l /\ l[i] = kept[i]
      BY <1>1, <2>4, <2>5, <3>1
    <3> QED
      BY <1>5, <3>2 DEF Within
  <2>9. Within("unmapped", l, n + 1)
    <3>1. m + 1 \in DOMAIN l /\ m + 1 <= n + 1
      BY <1>2, <2>4, <2>5
    <3> QED
      BY <2>5, <3>1 DEF Within
  <2> QED
    BY <1>4, <2>5, <2>6, <2>7, <2>8, <2>9 DEF n, l, kept
<1> QED
  BY <1>6, <1>7

\* Warnings are added at the end, and what stands early enough stays.
LEMMA WarningsAdded ==
  ASSUME NEW Text, NEW l \in Seq(Text), Len(l) <= MaxItems,
         NEW system \in Seq(Text), Len(system) <= 3, NEW r,
         Joins(Upto(l, MaxItems - Len(Upto(Fresh(l, system), MaxItems))),
               Upto(Fresh(l, system), MaxItems), r)
  PROVE  /\ r \in Seq(Text) /\ Len(r) <= MaxItems
         /\ ToSet(system) \ ToSet(l) \subseteq ToSet(r)
         /\ \A v, m : /\ Within(v, l, m) /\ m \in Nat
                      /\ m + Len(system) <= MaxItems
                      => v \in ToSet(r)
<1> DEFINE fresh == Fresh(l, system)
           new   == Upto(fresh, MaxItems)
           some  == Upto(l, MaxItems - Len(new))
<1>1. MaxItems \in Nat /\ MaxItems >= 3 /\ Len(system) \in Nat
  BY ReviewValidationAssumption
<1>2. /\ fresh \in Seq(Text) /\ Len(fresh) <= Len(system)
      /\ ToSet(fresh) = ToSet(system) \ ToSet(l)
  BY FreshHolds
<1>3. Joins(some, new, r)
  OBVIOUS
<1> HIDE DEF fresh
<1>4. new = fresh
  <2>1. PICK m \in 0..Len(fresh) :
          /\ new \in Seq(Text) /\ m = Len(new)
          /\ m = IF MaxItems < Len(fresh) THEN MaxItems ELSE Len(fresh)
          /\ \A i \in 1..m : new[i] = fresh[i]
    BY <1>1, <1>2, UptoIsPrefix
  <2>2. m = Len(fresh)
    BY <1>1, <1>2, <2>1
  <2> HIDE DEF new
  <2> QED
    BY <1>2, <2>1, <2>2, SeqEqual
<1> HIDE DEF new
<1>5. MaxItems - Len(new) \in Nat /\ Len(new) \in Nat /\ Len(new) <= Len(system)
  BY <1>1, <1>2, <1>4
<1>6. /\ some \in Seq(Text)
      /\ \E m \in 0..Len(l) :
           /\ m = Len(some)
           /\ m = IF MaxItems - Len(new) < Len(l) THEN MaxItems - Len(new) ELSE Len(l)
           /\ \A i \in 1..m : some[i] = l[i]
  BY <1>5, UptoIsPrefix
<1> HIDE DEF some
<1>7. PICK m \in 0..Len(l) :
        /\ m = Len(some)
        /\ m = IF MaxItems - Len(new) < Len(l) THEN MaxItems - Len(new) ELSE Len(l)
        /\ \A i \in 1..m : some[i] = l[i]
  BY <1>6
<1>8. some \in Seq(Text) /\ Len(some) = m /\ DOMAIN some = 1..m /\ m \in Nat
  <2>1. some \in Seq(Text) /\ Len(some) = m
    BY <1>6, <1>7
  <2>2. m \in Nat
    OBVIOUS
  <2> QED
    BY <2>1, <2>2
<1>9. new \in Seq(Text)
  BY <1>2, <1>4
<1>10. r \in Seq(Text) /\ Len(r) = Len(some) + Len(new)
  BY <1>3, <1>8, <1>9, JoinOfAny
<1>11. Len(r) <= MaxItems
  <2>1. m <= MaxItems - Len(new)
    BY <1>1, <1>5, <1>7, <1>8
  <2> QED
    BY <1>1, <1>5, <1>10, <1>8, <2>1
<1>12. ToSet(r) = ToSet(some) \cup ToSet(new)
  BY <1>3, <1>8, <1>9, JoinOfAny
<1>13. ASSUME NEW v, NEW k \in Nat, Within(v, l, k), k + Len(system) <= MaxItems
       PROVE  v \in ToSet(r)
  <2>1. PICK p \in DOMAIN l : p <= k /\ l[p] = v
    BY <1>13 DEF Within
  <2>2. p \in 1..m
    BY <1>1, <1>5, <1>7, <1>13, <2>1
  <2>3. p \in DOMAIN some /\ some[p] = v
    <3>1. some[p] = l[p]
      BY <1>7, <2>2
    <3> QED
      BY <1>8, <2>1, <2>2, <3>1
  <2> QED
    BY <1>12, <2>3 DEF ToSet
<1> QED
  BY <1>2, <1>4, <1>10, <1>11, <1>12, <1>13

-----------------------------------------------------------------------------
(***************************************************************************)
(* What a posted review says of its losses.                                *)
(***************************************************************************)
\* The lists of texts of a validated review.
Worded(review) ==
  /\ review.findings \in Seq(Findings) /\ review.recommendations \in Seq(Words)
  /\ review.limitations \in Seq(Words) /\ Len(review.limitations) <= MaxItems

LEMMA SeqOfMore ==
  ASSUME NEW S, NEW T, S \subseteq T, NEW seq \in Seq(S)
  PROVE  seq \in Seq(T)
OBVIOUS

LEMMA GivenWords ==
  ASSUME NEW review \in Reviews
  PROVE  Worded(review)
<1>1. review \in ReviewResult
  BY ReviewValidationAssumption
<1>2. /\ review.findings \in Seq(Findings)
      /\ review.recommendations \in Texts /\ review.limitations \in Texts
  BY <1>1 DEF ReviewResult
<1>3. \A list \in Texts : list \in Seq(STRING) /\ Len(list) <= MaxItems
  BY DEF Texts
<1>4. STRING \subseteq Words
  BY DEF Words
<1>5. \A list \in Texts : list \in Seq(Words)
  BY <1>3, <1>4, SeqOfMore
<1> QED
  BY <1>2, <1>3, <1>5 DEF Worded

LEMMA ValidateWords ==
  ASSUME NEW review, Worded(review), NEW list
  PROVE  LET r      == Validate(review, list)
             unique == Deduplicate(Eligible(review.findings, list))
         IN /\ Worded(r) /\ r.limitations = Limitations(review.limitations, r.findings # unique)
            /\ ToSet(unique) \subseteq ToSet(review.findings)
            /\ BodyDiscloses(r, FormatReview(r))
<1> DEFINE eligible == Eligible(review.findings, list)
           unique   == Deduplicate(eligible)
           r        == Validate(review, list)
<1>1. /\ review.findings \in Seq(Findings) /\ review.recommendations \in Seq(Words)
      /\ review.limitations \in Seq(Words) /\ Len(review.limitations) <= MaxItems
  BY DEF Worded
<1>2. r.findings \in Seq(Findings)
  BY <1>1, ValidatedFindings
<1>3. ToSet(unique) \subseteq ToSet(review.findings)
  <2>1. eligible \in Seq(Findings) /\ ToSet(eligible) \subseteq ToSet(review.findings)
    BY <1>1, EligibleSome
  <2> HIDE DEF eligible
  <2>2. ToSet(unique) \subseteq ToSet(eligible)
    BY <2>1, DeduplicateKeepsStrongest
  <2> QED
    BY <2>1, <2>2
<1>4. /\ r.recommendations = Distinct(review.recommendations)
      /\ r.limitations = Limitations(review.limitations, r.findings # unique)
  BY DEF Validate
<1> HIDE DEF r, unique, eligible
<1>5. r.recommendations \in Seq(Words)
  BY <1>1, <1>4, DistinctHolds
<1>6. r.limitations \in Seq(Words) /\ Len(r.limitations) <= MaxItems
  <2> DEFINE lost == r.findings # unique
  <2>1. "unmapped" \in Words
    BY DEF Words
  <2> HIDE DEF lost
  <2>2. /\ Limitations(review.limitations, lost) \in Seq(Words)
        /\ Len(Limitations(review.limitations, lost)) <= MaxItems
    BY <1>1, <2>1, LimitationsHold
  <2> QED
    BY <1>4, <2>2 DEF lost
<1>7. Worded(r)
  BY <1>2, <1>5, <1>6 DEF Worded
<1>8. BodyDiscloses(r, FormatReview(r))
  BY <1>2, <1>5, <1>6, FormatDiscloses
<1> QED
  BY <1>3, <1>4, <1>7, <1>8 DEF r, unique, eligible

\* What `review` says of the losses of `own`, Codex's review, under `system` warnings.
Says(review, own, system) ==
  LET said  == ToSet(review.limitations)
      items == Len(own.limitations) + Len(system)
  IN /\ ToSet(system) \ ToSet(own.limitations) \subseteq said
     /\ items <= MaxItems => ToSet(system) \subseteq said
     /\ items < MaxItems /\ (\E g \in ToSet(review.findings) : g \notin ToSet(own.findings))
          => "unmapped" \in said

Warnings(system) ==
  /\ system \in Seq(Words) /\ Len(system) <= 3
  /\ ToSet(system) \subseteq {"body", "diff", "patches"}

LEMMA ReturnSays ==
  ASSUME NEW own, Worded(own), NEW system, Warnings(system), NEW list
  PROVE  LET r == AddContextLimitations(Validate(own, list), system)
         IN Worded(r) /\ Says(r, own, system)
<1> DEFINE v      == Validate(own, list)
           r      == AddContextLimitations(v, system)
           unique == Deduplicate(Eligible(own.findings, list))
           lost   == v.findings # unique
           values == own.limitations
           l      == v.limitations
           n      == Len(values)
<1>1. /\ Worded(v) /\ l = Limitations(values, lost)
      /\ ToSet(unique) \subseteq ToSet(own.findings)
  BY ValidateWords
<1>2. /\ r.findings = v.findings /\ r.recommendations = v.recommendations
  BY WarningsKeep
<1>3. Joins(Upto(l, MaxItems - Len(Upto(Fresh(l, system), MaxItems))),
            Upto(Fresh(l, system), MaxItems), r.limitations)
  BY DEF AddContextLimitations, Validate, Joins
<1>4. "unmapped" \in Words
  BY DEF Words
<1>5. values \in Seq(Words) /\ n <= MaxItems
  BY DEF Worded
<1>6. /\ system \in Seq(Words) /\ Len(system) <= 3
      /\ ToSet(system) \subseteq {"body", "diff", "patches"}
  BY DEF Warnings
<1>7. l \in Seq(Words) /\ Len(l) <= MaxItems
  BY <1>1 DEF Worded
<1> HIDE DEF v, r, l, unique, lost
<1>8. /\ ToSet(l) \subseteq ToSet(values) \cup {"unmapped"}
      /\ n < MaxItems => \A w \in ToSet(values) : Within(w, l, n)
      /\ n < MaxItems /\ lost => Within("unmapped", l, n + 1)
  BY <1>1, <1>4, <1>5, LimitationsHold
<1>9. /\ r.limitations \in Seq(Words) /\ Len(r.limitations) <= MaxItems
      /\ ToSet(system) \ ToSet(l) \subseteq ToSet(r.limitations)
      /\ \A w, m : Within(w, l, m) /\ m \in Nat /\ m + Len(system) <= MaxItems
                     => w \in ToSet(r.limitations)
  BY <1>3, <1>5, <1>6, <1>7, WarningsAdded
<1>10. Worded(r)
  BY <1>1, <1>2, <1>9 DEF Worded
<1>11. n \in Nat /\ Len(system) \in Nat /\ MaxItems \in Nat
  BY <1>5, <1>6, ReviewValidationAssumption
<1> HIDE DEF values, n
<1>12. ToSet(system) \ ToSet(values) \subseteq ToSet(r.limitations)
  <2>1. \A w \in ToSet(system) : w # "unmapped"
    BY <1>6
  <2> QED
    BY <1>8, <1>9, <2>1
<1>13. ASSUME n + Len(system) <= MaxItems, NEW w \in ToSet(system)
       PROVE  w \in ToSet(r.limitations)
  <2>1. CASE w \in ToSet(values)
    <3>1. Len(system) # 0
      BY <1>6, <1>13 DEF ToSet
    <3>2. n < MaxItems
      BY <1>11, <1>13, <3>1
    <3> QED
      BY <1>8, <1>9, <1>11, <1>13, <2>1, <3>2
  <2>2. CASE w \notin ToSet(values)
    BY <1>12, <1>13, <2>2
  <2> QED
    BY <2>1, <2>2
<1>14. ASSUME n + Len(system) < MaxItems, NEW g \in ToSet(r.findings), g \notin ToSet(own.findings)
       PROVE  "unmapped" \in ToSet(r.limitations)
  <2>1. lost
    BY <1>1, <1>2, <1>14 DEF lost
  <2>2. n < MaxItems /\ n + 1 \in Nat /\ (n + 1) + Len(system) <= MaxItems
    BY <1>11, <1>14
  <2>3. Within("unmapped", l, n + 1)
    BY <1>8, <2>1, <2>2
  <2> QED
    BY <1>9, <2>2, <2>3
<1>15. Says(r, own, system)
  BY <1>12, <1>13, <1>14 DEF Says, values, n
<1> QED
  BY <1>10, <1>15 DEF r, v

\* The second validation loses nothing of it.
LEMMA PostSays ==
  ASSUME NEW own, NEW system, NEW review, Worded(review), Says(review, own, system),
         NEW list, Settled(review, list)
  PROVE  LET r == Validate(review, list)
         IN Says(r, own, system) /\ Len(r.limitations) <= MaxItems
<1> DEFINE r      == Validate(review, list)
           unique == Deduplicate(Eligible(review.findings, list))
<1>1. Worded(r) /\ r.limitations = Limitations(review.limitations, r.findings # unique)
  BY ValidateWords
<1>2. /\ r.findings = Deduplicate(review.findings)
      /\ Eligible(review.findings, list) = review.findings
  BY ValidateSettled
<1>3. ToSet(r.findings) \subseteq ToSet(review.findings)
  BY ValidateAgrees
<1>4. r.findings = unique
  BY <1>2
<1> HIDE DEF r, unique
<1>5. r.limitations = Distinct(review.limitations)
  BY <1>1, <1>4 DEF Limitations
<1>6. ToSet(r.limitations) = ToSet(review.limitations)
  BY <1>5, DistinctHolds DEF Worded
<1>7. Says(r, own, system)
  BY <1>3, <1>6 DEF Says
<1> QED
  BY <1>1, <1>7 DEF Worded, r

\* The warnings are those of fetch_context, and until it is posted the review says
\* what was lost.
SaysInv ==
  /\ Warnings(warnings)
  /\ stage \in {"returned", "supplied"} => Worded(returned)
  /\ stage = "returned" => Says(returned, raw, warnings)

LEMMA WarningsOf ==
  ASSUME NEW lost
  PROVE  LET Warn(w) == IF w \in lost THEN <<w>> ELSE <<>>
         IN Warnings(Warn("body") \o Warn("diff") \o Warn("patches"))
<1> DEFINE Warn(w) == IF w \in lost THEN <<w>> ELSE <<>>
           Losses  == {"body", "diff", "patches"}
<1>1. "body" \in Losses /\ "diff" \in Losses /\ "patches" \in Losses /\ Losses \subseteq Words
  BY DEF Words
<1> HIDE DEF Losses
<1>2. ASSUME NEW w \in Losses
      PROVE  Warn(w) \in Seq(Losses) /\ Len(Warn(w)) \in {0, 1}
  <2>1. <<w>> \in Seq(Losses) /\ Len(<<w>>) = 1 /\ <<>> \in Seq(Losses) /\ Len(<<>>) = 0
    OBVIOUS
  <2> QED
    BY <2>1
<1> DEFINE a == Warn("body")
           b == Warn("diff")
           c == Warn("patches")
           all == a \o b \o c
<1>3. /\ a \in Seq(Losses) /\ b \in Seq(Losses) /\ c \in Seq(Losses)
      /\ Len(a) \in {0, 1} /\ Len(b) \in {0, 1} /\ Len(c) \in {0, 1}
  BY <1>1, <1>2
<1> HIDE DEF a, b, c
<1>4. all \in Seq(Losses) /\ Len(all) = Len(a) + Len(b) + Len(c)
  BY <1>3
<1>5. Len(all) <= 3
  <2>1. \A i, j, k \in {0, 1} : i + j + k <= 3
    OBVIOUS
  <2> QED
    BY <1>3, <1>4, <2>1
<1> HIDE DEF all
<1>6. ToSet(all) \subseteq Losses
  BY <1>4 DEF ToSet
<1>7. all \in Seq(Words)
  BY <1>1, <1>4, SeqOfMore
<1>8. Warnings(all)
  BY <1>5, <1>6, <1>7 DEF Warnings, Losses
<1> QED
  BY <1>8 DEF all, a, b, c

\* Whatever is cut, of the context, of the lists or of the body, the posted review
\* says so, as LossesDisclosed and BodyDiscloses state it.
THEOREM ReviewLossesDisclosed == Spec => []LossesDisclosed
<1>1. Init => LossesDisclosed /\ SaysInv
  <2> SUFFICES ASSUME Init PROVE LossesDisclosed /\ SaysInv
    OBVIOUS
  <2>1. Warnings(<<>>)
    <3>1. <<>> \in Seq(Words) /\ Len(<<>>) = 0 /\ ToSet(<<>>) = {}
      BY DEF ToSet
    <3> QED
      BY <3>1 DEF Warnings
  <2> QED
    BY <2>1 DEF Init, LossesDisclosed, SaysInv, Out
<1>2. ReviewInv /\ LossesDisclosed /\ SaysInv /\ [Next]_vars => LossesDisclosed' /\ SaysInv'
  <2> SUFFICES ASSUME ReviewInv, LossesDisclosed, SaysInv, [Next]_vars
               PROVE  LossesDisclosed' /\ SaysInv'
    OBVIOUS
  <2>1. ASSUME NEW budget \in Budgets, NEW cut \in SUBSET {"body", "diff"},
               FetchContext(budget, cut)
        PROVE  LossesDisclosed' /\ SaysInv'
    <3>1. Warnings(warnings')
      BY <2>1, WarningsOf DEF FetchContext
    <3>2. stage' = "fetched"
      BY <2>1 DEF FetchContext
    <3> QED
      BY <3>1, <3>2 DEF LossesDisclosed, SaysInv, Out
  <2>2. ASSUME NEW review \in Reviews, Return(review)
        PROVE  LossesDisclosed' /\ SaysInv'
    <3>1. Worded(review)
      BY GivenWords
    <3>2. /\ returned' = AddContextLimitations(Validate(review, context), warnings)
          /\ raw' = review /\ warnings' = warnings /\ stage' = "returned"
      BY <2>2 DEF Return
    <3>3. Worded(returned') /\ Says(returned', raw', warnings')
      BY <3>1, <3>2, ReturnSays DEF SaysInv
    <3> QED
      BY <3>2, <3>3 DEF LossesDisclosed, SaysInv, Out
  <2>3. ASSUME NEW review \in Reviews, Supply(review)
        PROVE  LossesDisclosed' /\ SaysInv'
    <3>1. Worded(review)
      BY GivenWords
    <3>2. returned' = review /\ warnings' = warnings /\ stage' = "supplied"
      BY <2>3 DEF Supply
    <3> QED
      BY <3>1, <3>2 DEF LossesDisclosed, SaysInv, Out
  <2>4. ASSUME NEW list \in {context, files}, Post(list)
        PROVE  LossesDisclosed' /\ SaysInv'
    <3>1. /\ posted' = Validate(returned, list) /\ body' = FormatReview(posted')
          /\ raw' = raw /\ warnings' = warnings
          /\ stage \in {"returned", "supplied"} /\ stage' \in {"posted", "forwarded"}
          /\ stage' = "posted" => stage = "returned"
      BY <2>4 DEF Post
    <3>2. BodyDiscloses(posted', body')
      BY <3>1, ValidateWords DEF SaysInv
    <3>3. ASSUME stage = "returned"
          PROVE  Says(posted', raw, warnings) /\ Len(posted'.limitations) <= MaxItems
      <4>1. Settled(returned, context) /\ Shortens(context, files)
        BY <3>3 DEF ReviewInv, ContextInv, ReturnedInv, Validated
      <4>2. Settled(returned, list)
        BY <2>4, <4>1, SettledWhole
      <4> QED
        BY <3>1, <3>3, <4>2, PostSays DEF SaysInv
    <3>4. LossesDisclosed'
      BY <3>1, <3>2, <3>3 DEF LossesDisclosed, Says
    <3> QED
      BY <3>1, <3>4 DEF SaysInv
  <2>5. CASE UNCHANGED vars
    BY <2>5 DEF vars, LossesDisclosed, SaysInv, Out, Says, Worded
  <2> QED
    BY <2>1, <2>2, <2>3, <2>4, <2>5 DEF Next
<1> QED
  BY <1>1, <1>2, ReviewInvInit, ReviewInvNext, PTL DEF Spec
=============================================================================
