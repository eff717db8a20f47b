------------------------ MODULE ReviewServiceProofs -------------------------
(***************************************************************************)
(* Theorems about ReviewService, for any number of calls, any set of       *)
(* commits and any bound on the moves of the head.                         *)
(***************************************************************************)
EXTENDS ReviewService, TLAPS

-----------------------------------------------------------------------------
(***************************************************************************)
(* Types.  What is submitted has a commit because Check compares it with   *)
(* the current head.                                                       *)
(***************************************************************************)
\* The current head is a commit.
LEMMA CurrentIsSha == ServiceTypeOK => Current \in Sha
  BY DEF ServiceTypeOK, Current

LEMMA InitType == Init => ServiceTypeOK
<1> SUFFICES ASSUME Init PROVE ServiceTypeOK
  OBVIOUS
<1>1. PICK h \in Sha : history = <<h>>
  BY DEF Init
<1>2. history \in Seq(Sha) /\ Len(history) \in 1..MaxMoves
  BY <1>1, ReviewServiceAssumption
<1>3. NewCall \in CallRecord
  BY DEF NewCall, CallRecord, CallState, Ended
<1>4. call \in [Call -> CallRecord]
  BY <1>3 DEF Init
<1> QED
  BY <1>2, <1>4 DEF ServiceTypeOK, Init

\* Whatever a call does to itself keeps the types if the new record has one.
LEMMA SetKeepsType ==
  ASSUME NEW c \in Call, NEW r \in CallRecord, ServiceTypeOK, Set(c, r),
         history' = history, wire' \subseteq Submission, reviews' = reviews
  PROVE  ServiceTypeOK'
<1>1. call' \in [Call -> CallRecord]
  BY DEF ServiceTypeOK, Set
<1> QED
  BY <1>1 DEF ServiceTypeOK

\* A page of the files.
LEMMA PageKeepsType ==
  ASSUME NEW c \in Call, NEW next \in CallState, ServiceTypeOK, NextPage(c, next),
         history' = history, wire' = wire, reviews' = reviews
  PROVE  ServiceTypeOK'
<1>1. PICK last \in BOOLEAN :
        Set(c, [call[c] EXCEPT !.pc = IF last THEN next ELSE @, !.listed = last,
                               !.files = @ \cup {Current}])
  BY DEF NextPage
<1> DEFINE r == [call[c] EXCEPT !.pc = IF last THEN next ELSE @, !.listed = last,
                                !.files = @ \cup {Current}]
<1>2. r \in CallRecord
  BY CurrentIsSha DEF ServiceTypeOK, CallRecord
<1>3. Set(c, r) /\ wire' \subseteq Submission
  BY <1>1 DEF ServiceTypeOK
<1> HIDE DEF r
<1> QED
  BY <1>2, <1>3, SetKeepsType

LEMMA EndKeepsType ==
  ASSUME NEW c \in Call, NEW outcome \in Ended, ServiceTypeOK, End(c, outcome),
         history' = history, wire' \subseteq Submission, reviews' = reviews
  PROVE  ServiceTypeOK'
<1> DEFINE r == [NewCall EXCEPT !.pc = outcome]
<1>1. r \in CallRecord
  BY DEF NewCall, CallRecord, CallState
<1>2. Set(c, r)
  BY DEF End
<1> HIDE DEF r
<1> QED
  BY <1>1, <1>2, SetKeepsType

\* A step of a call: every action that is one.
LEMMA ServiceStepKeepsType ==
  ASSUME NEW c \in Call, ServiceTypeOK, ServiceStep(c)
  PROVE  ServiceTypeOK'
<1> DEFINE old == call[c]
<1>0. old \in CallRecord /\ Current \in Sha /\ Len(history) \in Nat
      /\ wire \subseteq Submission
  BY CurrentIsSha DEF ServiceTypeOK
<1>1. CASE ReadMetadata(c)
  <2> DEFINE r == [old EXCEPT !.pc = "fetching", !.ctx = Current]
  <2>1. r \in CallRecord
    BY <1>0 DEF CallRecord, CallState
  <2>2. Set(c, r) \/ End(c, "stale")
    BY <1>1 DEF ReadMetadata, IfCurrent
  <2>3. history' = history /\ wire' = wire /\ reviews' = reviews
    BY <1>1 DEF ReadMetadata
  <2> HIDE DEF r
  <2> QED
    BY <1>0, <2>1, <2>2, <2>3, SetKeepsType, EndKeepsType DEF Ended
<1>2. CASE FetchFiles(c)
  BY <1>2, PageKeepsType DEF FetchFiles, CallState
<1>3. CASE FetchDiff(c)
  <2> DEFINE r == [old EXCEPT !.diff = Current]
  <2>1. r \in CallRecord
    BY <1>0, <1>3 DEF CallRecord, FetchDiff
  <2>2. Set(c, r) /\ history' = history /\ wire' = wire /\ reviews' = reviews
    BY <1>3 DEF FetchDiff
  <2> HIDE DEF r
  <2> QED
    BY <1>0, <2>1, <2>2, SetKeepsType
<1>4. CASE Recheck(c)
  <2> DEFINE r == [old EXCEPT !.pc = "analysing"]
  <2>1. r \in CallRecord
    BY <1>0, <1>4 DEF CallRecord, CallState, Recheck
  <2>2. Set(c, r) \/ End(c, "stale")
    BY <1>4 DEF Recheck, IfCurrent
  <2>3. history' = history /\ wire' = wire /\ reviews' = reviews
    BY <1>4 DEF Recheck
  <2> HIDE DEF r
  <2> QED
    BY <1>0, <2>1, <2>2, <2>3, SetKeepsType, EndKeepsType DEF Ended
<1>5. CASE Analyse(c)
  <2> DEFINE r == [old EXCEPT !.pc = "confirming", !.mark = Len(history)]
  <2>1. r \in CallRecord
    BY <1>0, <1>5 DEF CallRecord, CallState, Analyse
  <2>2. Set(c, r) /\ history' = history /\ wire' = wire /\ reviews' = reviews
    BY <1>5 DEF Analyse
  <2> HIDE DEF r
  <2> QED
    BY <1>0, <2>1, <2>2, SetKeepsType
<1>6. CASE Confirm(c)
  <2> DEFINE r == [old EXCEPT !.pc = IF old.posts THEN "checking" ELSE "completed"]
  <2>1. r \in CallRecord
    BY <1>0, <1>6 DEF CallRecord, CallState, Ended, Confirm
  <2>2. Set(c, r) \/ End(c, "stale")
    BY <1>6 DEF Confirm, IfCurrent
  <2>3. history' = history /\ wire' = wire /\ reviews' = reviews
    BY <1>6 DEF Confirm
  <2> HIDE DEF r
  <2> QED
    BY <1>0, <2>1, <2>2, <2>3, SetKeepsType, EndKeepsType DEF Ended
<1>7. CASE Pin(c)
  <2> DEFINE r == [old EXCEPT !.pc = "listing", !.ctx = Current]
  <2>1. r \in CallRecord
    BY <1>0 DEF CallRecord, CallState
  <2>2. Set(c, r) /\ history' = history /\ wire' = wire /\ reviews' = reviews
    BY <1>7 DEF Pin
  <2> HIDE DEF r
  <2> QED
    BY <1>0, <2>1, <2>2, SetKeepsType
<1>8. CASE ListFiles(c)
  BY <1>8, PageKeepsType DEF ListFiles, CallState
<1>9. CASE Check(c)
  <2> DEFINE r == [old EXCEPT !.pc = "submitting"]
  <2>1. r \in CallRecord
    BY <1>0 DEF CallRecord, CallState
  <2>2. history' = history /\ reviews' = reviews
    BY <1>9 DEF Check
  <2>3. CASE old.ctx = Current
    <3>1. SubmissionOf(c) \in Submission
      BY <1>0, <1>9, <2>3 DEF SubmissionOf, Submission, CallRecord, Check
    <3>2. Set(c, r) /\ wire' \subseteq Submission
      BY <1>0, <1>9, <2>3, <3>1 DEF Check, Send
    <3> HIDE DEF r
    <3> QED
      BY <2>1, <2>2, <3>2, SetKeepsType
  <2>4. CASE old.ctx # Current
    <3>1. End(c, "stale") /\ wire' = wire
      BY <1>9, <2>4 DEF Check
    <3> QED
      BY <1>0, <2>2, <3>1, EndKeepsType DEF Ended
  <2> QED
    BY <2>3, <2>4
<1>10. CASE Answer(c)
  <2>1. End(c, "posted") /\ history' = history /\ wire' = wire /\ reviews' = reviews
    BY <1>10 DEF Answer
  <2> QED
    BY <1>0, <2>1, EndKeepsType DEF Ended
<1>11. CASE GiveUp(c)
  <2>1. End(c, "failed") /\ history' = history /\ wire' \subseteq Submission /\ reviews' = reviews
    BY <1>0, <1>11 DEF GiveUp
  <2> QED
    BY <2>1, EndKeepsType DEF Ended
<1> QED
  BY <1>1, <1>2, <1>3, <1>4, <1>5, <1>6, <1>7, <1>8, <1>9, <1>10, <1>11 DEF ServiceStep

LEMMA NextKeepsType == ServiceTypeOK /\ [Next]_serviceVars => ServiceTypeOK'
<1> SUFFICES ASSUME ServiceTypeOK, [Next]_serviceVars PROVE ServiceTypeOK'
  OBVIOUS
<1>1. ASSUME NEW c \in Call, NEW h \in Known \cup {NoSha}, NEW p \in BOOLEAN,
             BeginReview(c, h, p)
      PROVE  ServiceTypeOK'
  <2> DEFINE r == [NewCall EXCEPT !.pc = "metadata", !.wanted = h, !.posts = p]
  <2>1. h \in Sha \cup {NoSha}
    BY DEF Known, ServiceTypeOK
  <2>2. r \in CallRecord
    BY <2>1 DEF NewCall, CallRecord, CallState
  <2>3. Set(c, r) /\ history' = history /\ wire' \subseteq Submission /\ reviews' = reviews
    BY <1>1 DEF BeginReview, ServiceTypeOK
  <2> HIDE DEF r
  <2> QED
    BY <2>2, <2>3, SetKeepsType
<1>2. ASSUME NEW c \in Call, NEW h \in Known \cup {NoSha}, BeginPost(c, h)
      PROVE  ServiceTypeOK'
  <2> DEFINE r == [NewCall EXCEPT !.pc = IF h = NoSha THEN "pinning" ELSE "listing",
                                  !.wanted = h, !.posts = TRUE, !.ctx = h]
  <2>1. h \in Sha \cup {NoSha}
    BY DEF Known, ServiceTypeOK
  <2>2. r \in CallRecord
    BY <2>1 DEF NewCall, CallRecord, CallState
  <2>3. Set(c, r) /\ history' = history /\ wire' \subseteq Submission /\ reviews' = reviews
    BY <1>2 DEF BeginPost, ServiceTypeOK
  <2> HIDE DEF r
  <2> QED
    BY <2>2, <2>3, SetKeepsType
<1>3. ASSUME NEW h \in Sha, Push(h) PROVE ServiceTypeOK'
  <2>1. history' \in Seq(Sha) /\ Len(history') \in 1..MaxMoves
    BY <1>3, ReviewServiceAssumption DEF Push, ServiceTypeOK
  <2> QED
    BY <1>3, <2>1 DEF Push, ServiceTypeOK
<1>4. ASSUME NEW m \in wire, Accept(m) PROVE ServiceTypeOK'
  BY <1>4 DEF Accept, ServiceTypeOK
<1>5. CASE UNCHANGED serviceVars
  BY <1>5 DEF serviceVars, ServiceTypeOK
<1> QED
  BY <1>1, <1>2, <1>3, <1>4, <1>5, ServiceStepKeepsType DEF Next, GitHubStep

\* The calls, the submissions on the wire and the reviews on GitHub keep their
\* types.
THEOREM ServiceTypeCorrect == Spec => []ServiceTypeOK
  BY InitType, NextKeepsType, PTL DEF Spec

-----------------------------------------------------------------------------
(***************************************************************************)
(* One review per call.  SubmitsOnce is not inductive: a call must also be *)
(* known to have sent something only in the states that follow a           *)
(* submission, and the wire must hold one submission of it at most.        *)
(***************************************************************************)
Sent == {"submitting", "posted", "failed"}

SubmitInv ==
  /\ \A i, n \in DOMAIN reviews : reviews[i].call = reviews[n].call => i = n
  /\ \A m \in wire : \A i \in DOMAIN reviews : reviews[i].call # m.call
  /\ \A m, n \in wire : m.call = n.call => m = n
  /\ \A m \in wire : call[m.call].pc \in Sent
  /\ \A i \in DOMAIN reviews : call[reviews[i].call].pc \in Sent

\* The wire and GitHub name calls.
LEMMA SubmissionsNameCalls ==
  ASSUME ServiceTypeOK
  PROVE  /\ \A m \in wire : m.call \in Call
         /\ \A i \in DOMAIN reviews : reviews[i].call \in Call
<1>1. \A m \in Submission : m.call \in Call
  BY DEF Submission
<1>2. wire \subseteq Submission
  BY DEF ServiceTypeOK
<1>3. \A i \in DOMAIN reviews : reviews[i] \in Submission
  <2>1. reviews \in Seq(Submission)
    BY DEF ServiceTypeOK
  <2> HIDE DEF Submission
  <2> QED
    BY <2>1
<1> QED
  BY <1>1, <1>2, <1>3

\* A step of a call that sends nothing.
LEMMA QuietKeepsSubmit ==
  ASSUME NEW c \in Call, ServiceTypeOK, SubmitInv, DOMAIN call' = Call,
         \A d \in Call \ {c} : call'[d] = call[d],
         call'[c].pc \in Sent \/ call[c].pc \notin Sent,
         wire' \subseteq wire, reviews' = reviews
  PROVE  SubmitInv'
<1>1. \A d \in Call : call[d].pc \in Sent => call'[d].pc \in Sent
  OBVIOUS
<1> QED
  BY <1>1, SubmissionsNameCalls DEF SubmitInv

LEMMA SendKeepsSubmit ==
  ASSUME NEW c \in Call, ServiceTypeOK, SubmitInv, call[c].pc = "checking", Send(c),
         reviews' = reviews
  PROVE  SubmitInv'
<1> DEFINE m == SubmissionOf(c)
<1>1. m.call = c
  BY DEF SubmissionOf
<1>2. wire' = wire \cup {m}
  BY DEF Send
<1>3. /\ call'[c].pc = "submitting"
      /\ \A d \in Call \ {c} : call'[d] = call[d]
  BY DEF Send, Set, ServiceTypeOK, CallRecord
<1> HIDE DEF m
<1>4. \A n \in wire : n.call \in Call /\ n.call # c
  BY SubmissionsNameCalls DEF SubmitInv, Sent
<1>5. \A i \in DOMAIN reviews : reviews[i].call \in Call /\ reviews[i].call # c
  BY SubmissionsNameCalls DEF SubmitInv, Sent
<1> QED
  BY <1>1, <1>2, <1>3, <1>4, <1>5 DEF SubmitInv, Sent

LEMMA AcceptKeepsSubmit ==
  ASSUME NEW m \in wire, ServiceTypeOK, SubmitInv, Accept(m)
  PROVE  SubmitInv'
<1> DEFINE k == Len(reviews) + 1
<1>1. /\ DOMAIN reviews' = DOMAIN reviews \cup {k} /\ k \notin DOMAIN reviews
      /\ reviews'[k] = m
      /\ \A i \in DOMAIN reviews : reviews'[i] = reviews[i]
  BY DEF Accept, ServiceTypeOK
<1>2. wire' = wire \ {m} /\ call' = call
  BY DEF Accept
<1> HIDE DEF k
<1> QED
  BY <1>1, <1>2 DEF SubmitInv

LEMMA NextKeepsSubmit == ServiceTypeOK /\ SubmitInv /\ [Next]_serviceVars => SubmitInv'
<1> SUFFICES ASSUME ServiceTypeOK, SubmitInv, [Next]_serviceVars PROVE SubmitInv'
  OBVIOUS
<1>0. DOMAIN call = Call /\ DOMAIN call' = Call
  BY NextKeepsType DEF ServiceTypeOK
<1>1. ASSUME NEW c \in Call, NEW h \in Known \cup {NoSha}, NEW p \in BOOLEAN,
             BeginReview(c, h, p)
      PROVE  SubmitInv'
  BY <1>0, <1>1, QuietKeepsSubmit DEF BeginReview, Set, Sent
<1>2. ASSUME NEW c \in Call, NEW h \in Known \cup {NoSha}, BeginPost(c, h)
      PROVE  SubmitInv'
  BY <1>0, <1>2, QuietKeepsSubmit DEF BeginPost, Set, Sent
<1>3. ASSUME NEW c \in Call, ServiceStep(c) PROVE SubmitInv'
  <2>1. CASE ReadMetadata(c) \/ FetchFiles(c) \/ FetchDiff(c) \/ Recheck(c)
             \/ Analyse(c) \/ Confirm(c) \/ Pin(c) \/ ListFiles(c)
    <3>1. call[c].pc \notin Sent
      BY <2>1 DEF ReadMetadata, FetchFiles, FetchDiff, Recheck, Analyse, Confirm, Pin,
                  ListFiles, Sent
    <3>2. wire' = wire /\ reviews' = reviews /\ \A d \in Call \ {c} : call'[d] = call[d]
      BY <1>0, <2>1 DEF ReadMetadata, FetchFiles, FetchDiff, Recheck, Analyse, Confirm, Pin,
                  ListFiles, NextPage, IfCurrent, Set, End
    <3> QED
      BY <1>0, <3>1, <3>2, QuietKeepsSubmit
  <2>2. CASE Check(c)
    <3>1. CASE call[c].ctx = Current
      BY <2>2, <3>1, SendKeepsSubmit DEF Check
    <3>2. CASE call[c].ctx # Current
      BY <1>0, <2>2, <3>2, QuietKeepsSubmit DEF Check, End, Set, Sent
    <3> QED
      BY <3>1, <3>2
  <2>3. CASE Answer(c) \/ GiveUp(c)
    <3>1. call'[c].pc \in Sent /\ \A d \in Call \ {c} : call'[d] = call[d]
      BY <1>0, <2>3 DEF Answer, GiveUp, End, Set, Sent, NewCall
    <3>2. wire' \subseteq wire /\ reviews' = reviews
      BY <2>3 DEF Answer, GiveUp
    <3> QED
      BY <1>0, <3>1, <3>2, QuietKeepsSubmit
  <2> QED
    BY <1>3, <2>1, <2>2, <2>3 DEF ServiceStep
<1>4. ASSUME NEW h \in Sha, Push(h) PROVE SubmitInv'
  BY <1>4 DEF Push, SubmitInv
<1>5. ASSUME NEW m \in wire, Accept(m) PROVE SubmitInv'
  BY <1>5, AcceptKeepsSubmit
<1>6. CASE UNCHANGED serviceVars
  BY <1>6 DEF serviceVars, SubmitInv
<1> QED
  BY <1>1, <1>2, <1>3, <1>4, <1>5, <1>6 DEF Next, GitHubStep

\* A call leaves at most one review on GitHub, whatever becomes of its request
\* and of the answer.
THEOREM ServiceSubmitsOnce == Spec => []SubmitsOnce
<1>1. Init => SubmitInv
  BY DEF Init, SubmitInv
<1>2. SubmitInv => SubmitsOnce
  BY DEF SubmitInv, SubmitsOnce
<1> QED
  BY <1>1, <1>2, NextKeepsSubmit, ServiceTypeCorrect, PTL DEF Spec

-----------------------------------------------------------------------------
(***************************************************************************)
(* The heads.  GitHub's history only grows, so that what was read stays    *)
(* read after what it was read after.  A call reads everything after its   *)
(* head was the current one, and when the head is the current one again    *)
(* nothing else came between, unless the head went away and came back.     *)
(***************************************************************************)
\* GitHub reported g when it had reported h, or later.
After(h, g) == \E i, j \in DOMAIN history : i <= j /\ history[i] = h /\ history[j] = g

Reads(r) == (r.files \cup {r.diff}) \ {NoSha}

\* Before a call has a head it has read nothing.
Unread(r) == r.pc \in {"metadata", "pinning"} =>
               r.files = {} /\ r.diff = NoSha /\ (r.pc = "pinning" => r.wanted = NoSha)

\* Whoever works on a head knows that GitHub reported it, that it is the one asked
\* for, and has read since.
Bound == {"fetching", "analysing", "confirming", "completed", "listing", "checking"}

ReadsAfter(r) == r.pc \in Bound =>
  /\ r.ctx \in Known
  /\ Matches(r.wanted, r.ctx)
  /\ \A g \in Reads(r) : After(r.ctx, g)

\* Files and diff are there, and the head has been read again.
Consistent(r) == r.pc \in {"analysing", "confirming", "completed"} => From(r.ctx, r.files \cup {r.diff})

\* The mark is a moment of the past, and a result was current at it or since.
Marked(r) ==
  /\ r.pc \in {"confirming", "completed"} => r.mark \in DOMAIN history
  /\ r.pc = "completed" => \E i \in r.mark..Len(history) : history[i] = r.ctx

CallInv(r) == Unread(r) /\ ReadsAfter(r) /\ Consistent(r) /\ Marked(r)

HeadInv == (\A c \in Call : CallInv(call[c])) /\ PostedConsistent

\* The history only grows.
Grows ==
  /\ Len(history) <= Len(history')
  /\ \A i \in DOMAIN history : i \in DOMAIN history' /\ history'[i] = history[i]

LEMMA HistoryGrows ==
  ASSUME ServiceTypeOK, [Next]_serviceVars
  PROVE  Grows
<1>1. ASSUME history' = history PROVE Grows
  BY <1>1 DEF Grows, ServiceTypeOK
<1>2. ASSUME NEW h \in Sha, Push(h) PROVE Grows
  BY <1>2 DEF Push, ServiceTypeOK, Grows
<1>3. ASSUME NEW c \in Call, ServiceStep(c) PROVE history' = history
  BY <1>3 DEF ServiceStep, ReadMetadata, FetchFiles, FetchDiff, Recheck, Analyse, Confirm,
              Pin, ListFiles, Check, Answer, GiveUp
<1> QED
  BY <1>1, <1>2, <1>3 DEF Next, GitHubStep, BeginReview, BeginPost, Accept, serviceVars

\* What was read after what, and what is of one commit, stays so.
LEMMA FromStays ==
  ASSUME Grows, NEW h, NEW served, From(h, served)
  PROVE  From(h, served)'
<1>1. \A g : Returned(h, g) => Returned(h, g)'
  <2> SUFFICES ASSUME NEW g, Returned(h, g) PROVE Returned(h, g)'
    OBVIOUS
  <2>1. PICK i, j, k \in DOMAIN history :
          i < j /\ j < k /\ history[i] = h /\ history[j] = g /\ history[k] = h
    BY DEF Returned
  <2>2. /\ {i, j, k} \subseteq DOMAIN history'
        /\ history'[i] = h /\ history'[j] = g /\ history'[k] = h
    BY <2>1 DEF Grows
  <2> QED
    BY <2>1, <2>2 DEF Returned
<1> QED
  BY <1>1 DEF From

LEMMA CallInvStays ==
  ASSUME ServiceTypeOK, ServiceTypeOK', Grows, NEW r \in CallRecord, CallInv(r)
  PROVE  CallInv(r)'
<1>1. \A h, g : After(h, g) => After(h, g)'
  BY DEF After, Grows
<1>2. Known \subseteq Known'
  BY DEF Known, Grows
<1>3. Consistent(r)'
  BY FromStays DEF CallInv, Consistent
<1>4. Marked(r)'
  <2>1. r.mark \in Nat /\ Len(history) \in Nat /\ Len(history') \in Nat
    BY DEF CallRecord, ServiceTypeOK
  <2>2. r.pc = "completed" => \E i \in r.mark..Len(history') : history'[i] = r.ctx
    <3> SUFFICES ASSUME r.pc = "completed" PROVE \E i \in r.mark..Len(history') : history'[i] = r.ctx
      OBVIOUS
    <3>1. PICK i \in r.mark..Len(history) : history[i] = r.ctx
      BY DEF CallInv, Marked
    <3>2. i \in DOMAIN history
      BY <2>1, <3>1 DEF CallInv, Marked, ServiceTypeOK
    <3> QED
      BY <2>1, <3>1, <3>2 DEF Grows
  <2> QED
    BY <2>2 DEF CallInv, Marked, Grows
<1> QED
  BY <1>1, <1>2, <1>3, <1>4 DEF CallInv, Unread, ReadsAfter

\* A step of one call that GitHub does not notice.
LEMMA SetKeepsHeads ==
  ASSUME ServiceTypeOK, HeadInv, NEW c \in Call, NEW r, CallInv(r), Set(c, r),
         history' = history, wire' \subseteq wire, reviews' = reviews
  PROVE  HeadInv'
<1>1. \A d \in Call : CallInv(call'[d])
  BY DEF HeadInv, ServiceTypeOK, Set
<1>2. \A s : CallInv(s)' <=> CallInv(s)
  BY DEF CallInv, Unread, ReadsAfter, Consistent, Marked, After, From, Returned, Known
<1>3. PostedConsistent'
  <2>1. \A g, served : From(g, served)' <=> From(g, served)
    BY DEF From, Returned
  <2> QED
    BY <2>1 DEF HeadInv, PostedConsistent
<1> QED
  BY <1>1, <1>2, <1>3 DEF HeadInv

\* A call that ended well or badly, and not with a result, knows nothing.
LEMMA EndKeepsHeads ==
  ASSUME ServiceTypeOK, HeadInv, NEW c \in Call, NEW outcome \in Ended \ {"completed"},
         End(c, outcome), history' = history, wire' \subseteq wire, reviews' = reviews
  PROVE  HeadInv'
<1> DEFINE r == [NewCall EXCEPT !.pc = outcome]
<1>1. CallInv(r)
  BY DEF NewCall, Ended, Bound, CallInv, Unread, ReadsAfter, Consistent, Marked
<1>2. Set(c, r)
  BY DEF End
<1> HIDE DEF r
<1> QED
  BY <1>1, <1>2, SetKeepsHeads

\* The current head was reported when anything that was reported was.
LEMMA CurrentIsLast ==
  ASSUME ServiceTypeOK
  PROVE  /\ Len(history) \in DOMAIN history /\ Current = history[Len(history)]
         /\ Current \in Known /\ Current # NoSha
         /\ \A h \in Known : After(h, Current)
<1>1. Len(history) \in DOMAIN history /\ \A i \in DOMAIN history : i <= Len(history)
  BY DEF ServiceTypeOK
<1>2. Current \in Sha /\ Current = history[Len(history)]
  BY CurrentIsSha DEF Current
<1> QED
  BY <1>1, <1>2, ReviewServiceAssumption DEF Known, After

\* What was read after h and before h again is of h, or h came back.
LEMMA AfterAndAgain ==
  ASSUME ServiceTypeOK, NEW served, \A g \in served \ {NoSha} : After(Current, g)
  PROVE  From(Current, served)
<1> SUFFICES ASSUME NEW g \in served \ {NoSha}, g # Current PROVE Returned(Current, g)
  BY DEF From
<1>1. PICK i, j \in DOMAIN history : i <= j /\ history[i] = Current /\ history[j] = g
  BY DEF After
<1>2. i < j /\ j < Len(history)
  BY <1>1, CurrentIsLast DEF ServiceTypeOK
<1> QED
  BY <1>1, <1>2, CurrentIsLast DEF Returned

\* A page of the files, or the diff, is of a head that was current after the call's.
LEMMA ReadKeepsCallInv ==
  ASSUME ServiceTypeOK, NEW r \in CallRecord, NEW s \in CallRecord, CallInv(r),
         r.pc \in {"fetching", "listing"}, s.pc \in {"fetching", "listing", "checking"},
         s.wanted = r.wanted, s.ctx = r.ctx, s.files \cup {s.diff} \subseteq r.files \cup {r.diff, Current}
  PROVE  CallInv(s)
<1>1. r.ctx \in Known /\ Matches(r.wanted, r.ctx) /\ \A g \in Reads(r) : After(r.ctx, g)
  BY DEF CallInv, ReadsAfter, Bound
<1>2. \A g \in Reads(s) : After(s.ctx, g)
  BY <1>1, CurrentIsLast DEF Reads
<1> QED
  BY <1>1, <1>2 DEF CallInv, Unread, ReadsAfter, Consistent, Marked

LEMMA PageKeepsHeads ==
  ASSUME ServiceTypeOK, HeadInv, NEW c \in Call, NEW next \in {"fetching", "checking"},
         NextPage(c, next), call[c].pc \in {"fetching", "listing"},
         history' = history, wire' = wire, reviews' = reviews
  PROVE  HeadInv'
<1> DEFINE r == call[c]
<1>1. PICK last \in BOOLEAN :
        Set(c, [call[c] EXCEPT !.pc = IF last THEN next ELSE @, !.listed = last,
                               !.files = @ \cup {Current}])
  BY DEF NextPage
<1> DEFINE s == [r EXCEPT !.pc = IF last THEN next ELSE @, !.listed = last,
                          !.files = @ \cup {Current}]
<1>2. r \in CallRecord /\ CallInv(r)
  BY DEF ServiceTypeOK, HeadInv
<1>3. s \in CallRecord
  BY <1>2, CurrentIsSha DEF CallRecord, CallState
<1>4. /\ s.pc \in {"fetching", "listing", "checking"} /\ s.wanted = r.wanted /\ s.ctx = r.ctx
      /\ s.files \cup {s.diff} \subseteq r.files \cup {r.diff, Current}
  BY <1>2 DEF CallRecord
<1> HIDE DEF r, s
<1>5. CallInv(s)
  BY <1>2, <1>3, <1>4, ReadKeepsCallInv DEF r
<1> QED
  BY <1>1, <1>5, SetKeepsHeads DEF r, s

LEMMA ServiceStepKeepsHeads ==
  ASSUME ServiceTypeOK, ServiceTypeOK', HeadInv, NEW c \in Call, ServiceStep(c)
  PROVE  HeadInv'
<1> DEFINE old == call[c]
<1>0. /\ old \in CallRecord /\ CallInv(old)
      /\ Current \in Sha /\ Current # NoSha
  BY CurrentIsLast, CurrentIsSha DEF ServiceTypeOK, HeadInv
<1>1. CASE ReadMetadata(c)
  <2>1. CASE ~Matches(old.wanted, Current)
    BY <1>1, <2>1, EndKeepsHeads DEF ReadMetadata, IfCurrent, Ended
  <2>2. CASE Matches(old.wanted, Current)
    <3> DEFINE r == [old EXCEPT !.pc = "fetching", !.ctx = Current]
    <3>1. /\ r.pc = "fetching" /\ r.ctx = Current /\ r.wanted = old.wanted
          /\ r.files = {} /\ r.diff = NoSha
      BY <1>0, <1>1 DEF CallRecord, CallInv, Unread, ReadMetadata
    <3>2. Set(c, r) /\ history' = history /\ wire' = wire /\ reviews' = reviews
      BY <1>1, <2>2 DEF ReadMetadata, IfCurrent
    <3> HIDE DEF r
    <3>3. CallInv(r)
      BY <2>2, <3>1, CurrentIsLast
      DEF CallInv, Unread, ReadsAfter, Reads, Consistent, Marked
    <3> QED
      BY <3>2, <3>3, SetKeepsHeads
  <2> QED
    BY <2>1, <2>2
<1>2. CASE FetchFiles(c)
  BY <1>2, PageKeepsHeads DEF FetchFiles
<1>3. CASE FetchDiff(c)
  <2> DEFINE r == [old EXCEPT !.diff = Current]
  <2>1. /\ r \in CallRecord /\ r.pc = "fetching" /\ r.ctx = old.ctx /\ r.wanted = old.wanted
        /\ r.files = old.files /\ r.diff = Current /\ old.pc = "fetching"
    BY <1>0, <1>3 DEF CallRecord, FetchDiff
  <2>2. Set(c, r) /\ history' = history /\ wire' = wire /\ reviews' = reviews
    BY <1>3 DEF FetchDiff
  <2> HIDE DEF r, old
  <2>3. CallInv(r)
    BY <1>0, <2>1, ReadKeepsCallInv
  <2> QED
    BY <2>2, <2>3, SetKeepsHeads DEF old
<1>4. CASE Recheck(c)
  <2>1. CASE ~Matches(old.ctx, Current)
    BY <1>4, <2>1, EndKeepsHeads DEF Recheck, IfCurrent, Ended
  <2>2. CASE Matches(old.ctx, Current)
    <3> DEFINE r == [old EXCEPT !.pc = "analysing"]
    <3>1. /\ r.pc = "analysing" /\ r.ctx = old.ctx /\ r.wanted = old.wanted
          /\ r.files = old.files /\ r.diff = old.diff /\ old.pc = "fetching"
      BY <1>0, <1>4 DEF CallRecord, Recheck
    <3>2. Set(c, r) /\ history' = history /\ wire' = wire /\ reviews' = reviews
      BY <1>4, <2>2 DEF Recheck, IfCurrent
    <3> HIDE DEF r, old
    <3>3. /\ old.ctx \in Known /\ Matches(old.wanted, old.ctx)
          /\ \A g \in Reads(old) : After(old.ctx, g)
      BY <1>0, <3>1 DEF CallInv, ReadsAfter, Bound
    <3>4. old.ctx = Current
      BY <2>2, <3>3, ReviewServiceAssumption DEF Matches, Known, ServiceTypeOK
    <3>5. From(r.ctx, r.files \cup {r.diff})
      BY <3>1, <3>3, <3>4, AfterAndAgain DEF Reads
    <3>6. CallInv(r)
      BY <3>1, <3>3, <3>5 DEF CallInv, Unread, ReadsAfter, Reads, Consistent, Marked
    <3> QED
      BY <3>2, <3>6, SetKeepsHeads
  <2> QED
    BY <2>1, <2>2
<1>5. CASE Analyse(c)
  <2> DEFINE r == [old EXCEPT !.pc = "confirming", !.mark = Len(history)]
  <2>1. /\ r.pc = "confirming" /\ r.ctx = old.ctx /\ r.wanted = old.wanted
        /\ r.files = old.files /\ r.diff = old.diff /\ r.mark = Len(history)
        /\ old.pc = "analysing"
    BY <1>0, <1>5 DEF CallRecord, Analyse
  <2>2. Set(c, r) /\ history' = history /\ wire' = wire /\ reviews' = reviews
    BY <1>5 DEF Analyse
  <2> HIDE DEF r, old
  <2>3. CallInv(r)
    BY <1>0, <2>1, CurrentIsLast
    DEF CallInv, Unread, ReadsAfter, Reads, Bound, Consistent, Marked
  <2> QED
    BY <2>2, <2>3, SetKeepsHeads
<1>6. CASE Confirm(c)
  <2>1. CASE ~Matches(old.ctx, Current)
    BY <1>6, <2>1, EndKeepsHeads DEF Confirm, IfCurrent, Ended
  <2>2. CASE Matches(old.ctx, Current)
    <3> DEFINE r == [old EXCEPT !.pc = IF old.posts THEN "checking" ELSE "completed"]
    <3>1. /\ r.pc \in {"checking", "completed"} /\ r.ctx = old.ctx /\ r.wanted = old.wanted
          /\ r.files = old.files /\ r.diff = old.diff /\ r.mark = old.mark
          /\ old.pc = "confirming"
      BY <1>0, <1>6 DEF CallRecord, Confirm
    <3>2. Set(c, r) /\ history' = history /\ wire' = wire /\ reviews' = reviews
      BY <1>6, <2>2 DEF Confirm, IfCurrent
    <3> HIDE DEF r, old
    <3>3. old.ctx \in Known /\ old.mark \in DOMAIN history
      BY <1>0, <3>1 DEF CallInv, ReadsAfter, Bound, Marked
    <3>4. old.ctx = Current
      BY <2>2, <3>3, ReviewServiceAssumption DEF Matches, Known, ServiceTypeOK
    <3>5. \E i \in r.mark..Len(history) : history[i] = r.ctx
      <4>1. Len(history) \in r.mark..Len(history)
        BY <3>1, <3>3 DEF ServiceTypeOK
      <4> QED
        BY <3>1, <3>4, <4>1, CurrentIsLast
    <3>6. CallInv(r)
      BY <1>0, <3>1, <3>3, <3>5
      DEF CallInv, Unread, ReadsAfter, Reads, Bound, Consistent, Marked
    <3> QED
      BY <3>2, <3>6, SetKeepsHeads
  <2> QED
    BY <2>1, <2>2
<1>7. CASE Pin(c)
  <2> DEFINE r == [old EXCEPT !.pc = "listing", !.ctx = Current]
  <2>1. /\ r.pc = "listing" /\ r.ctx = Current /\ r.wanted = NoSha
        /\ r.files = {} /\ r.diff = NoSha
    BY <1>0, <1>7 DEF CallRecord, CallInv, Unread, Pin
  <2>2. Set(c, r) /\ history' = history /\ wire' = wire /\ reviews' = reviews
    BY <1>7 DEF Pin
  <2> HIDE DEF r
  <2>3. CallInv(r)
    BY <2>1, CurrentIsLast
    DEF CallInv, Unread, ReadsAfter, Reads, Matches, Consistent, Marked
  <2> QED
    BY <2>2, <2>3, SetKeepsHeads
<1>8. CASE ListFiles(c)
  BY <1>8, PageKeepsHeads DEF ListFiles
<1>9. CASE Check(c)
  <2>1. CASE old.ctx # Current
    BY <1>9, <2>1, EndKeepsHeads DEF Check, Ended
  <2>2. CASE old.ctx = Current
    <3> DEFINE r == [old EXCEPT !.pc = "submitting"]
               m == SubmissionOf(c)
    <3>1. r.pc = "submitting"
      BY <1>0 DEF CallRecord
    <3>2. /\ Set(c, r) /\ history' = history /\ reviews' = reviews
          /\ wire' = wire \cup {m} /\ old.pc = "checking"
      BY <1>9, <2>2 DEF Check, Send
    <3>3. /\ m.commit = Current /\ m.wanted = old.wanted
          /\ m.files = old.files /\ m.diff = old.diff
      BY <2>2 DEF SubmissionOf
    <3> HIDE DEF r, m, old
    <3>4. Matches(m.wanted, m.commit) /\ \A g \in Reads(old) : After(Current, g)
      BY <1>0, <2>2, <3>2, <3>3 DEF CallInv, ReadsAfter, Bound
    <3>5. From(m.commit, m.files \cup {m.diff})
      BY <3>3, <3>4, AfterAndAgain DEF Reads
    <3>6. CallInv(r)
      BY <3>1 DEF CallInv, Unread, ReadsAfter, Bound, Consistent, Marked
    <3>7. \A d \in Call : CallInv(call'[d])
      BY <3>2, <3>6 DEF HeadInv, ServiceTypeOK, Set
    <3>8. \A n \in wire' \cup {reviews'[i] : i \in DOMAIN reviews'} :
            From(n.commit, n.files \cup {n.diff}) /\ Matches(n.wanted, n.commit)
      BY <3>2, <3>4, <3>5 DEF HeadInv, PostedConsistent
    <3>9. /\ \A s : CallInv(s)' <=> CallInv(s)
          /\ \A g, served : From(g, served)' <=> From(g, served)
      BY <3>2 DEF CallInv, Unread, ReadsAfter, Consistent, Marked, After, From, Returned, Known
    <3> QED
      BY <3>7, <3>8, <3>9 DEF HeadInv, PostedConsistent
  <2> QED
    BY <2>1, <2>2
<1>10. CASE Answer(c) \/ GiveUp(c)
  <2>1. /\ End(c, "posted") \/ End(c, "failed")
        /\ history' = history /\ wire' \subseteq wire /\ reviews' = reviews
    BY <1>10 DEF Answer, GiveUp
  <2> QED
    BY <2>1, EndKeepsHeads DEF Ended
<1> QED
  BY <1>1, <1>2, <1>3, <1>4, <1>5, <1>6, <1>7, <1>8, <1>9, <1>10 DEF ServiceStep

LEMMA NextKeepsHeads == ServiceTypeOK /\ HeadInv /\ [Next]_serviceVars => HeadInv'
<1> SUFFICES ASSUME ServiceTypeOK, HeadInv, [Next]_serviceVars PROVE HeadInv'
  OBVIOUS
<1>0. ServiceTypeOK' /\ Grows
  BY NextKeepsType, HistoryGrows
<1>1. ASSUME NEW c \in Call, NEW h \in Known \cup {NoSha}, NEW p \in BOOLEAN,
             BeginReview(c, h, p)
      PROVE  HeadInv'
  <2> DEFINE r == [NewCall EXCEPT !.pc = "metadata", !.wanted = h, !.posts = p]
  <2>1. CallInv(r)
    BY DEF NewCall, CallInv, Unread, ReadsAfter, Bound, Consistent, Marked
  <2>2. Set(c, r) /\ history' = history /\ wire' = wire /\ reviews' = reviews
    BY <1>1 DEF BeginReview
  <2> HIDE DEF r
  <2> QED
    BY <2>1, <2>2, SetKeepsHeads
<1>2. ASSUME NEW c \in Call, NEW h \in Known \cup {NoSha}, BeginPost(c, h)
      PROVE  HeadInv'
  <2> DEFINE r == [NewCall EXCEPT !.pc = IF h = NoSha THEN "pinning" ELSE "listing",
                                  !.wanted = h, !.posts = TRUE, !.ctx = h]
  <2>1. /\ r.pc = IF h = NoSha THEN "pinning" ELSE "listing"
        /\ r.wanted = h /\ r.ctx = h /\ r.files = {} /\ r.diff = NoSha
    BY DEF NewCall
  <2>2. Set(c, r) /\ history' = history /\ wire' = wire /\ reviews' = reviews
    BY <1>2 DEF BeginPost
  <2> HIDE DEF r
  <2>3. CallInv(r)
    BY <2>1 DEF CallInv, Unread, ReadsAfter, Reads, Bound, Matches, Consistent, Marked
  <2> QED
    BY <2>2, <2>3, SetKeepsHeads
<1>3. ASSUME NEW h \in Sha, Push(h) PROVE HeadInv'
  <2>1. /\ call' = call /\ wire' = wire /\ reviews' = reviews
        /\ \A c \in Call : call[c] \in CallRecord
    BY <1>3 DEF Push, ServiceTypeOK
  <2>2. \A r \in CallRecord : CallInv(r) => CallInv(r)'
    BY <1>0, CallInvStays
  <2>3. (\A c \in Call : CallInv(call[c]))'
    BY <2>1, <2>2 DEF HeadInv, CallInv, Unread, ReadsAfter, Consistent, Marked
  <2>4. \A g, served : From(g, served) => From(g, served)'
    BY <1>0, FromStays
  <2>5. PostedConsistent'
    BY <2>1, <2>4 DEF HeadInv, PostedConsistent
  <2> QED
    BY <2>3, <2>5 DEF HeadInv
<1>4. ASSUME NEW m \in wire, Accept(m) PROVE HeadInv'
  <2>1. /\ history' = history /\ call' = call /\ wire' \subseteq wire
        /\ {reviews'[i] : i \in DOMAIN reviews'} = {reviews[i] : i \in DOMAIN reviews} \cup {m}
    BY <1>4 DEF Accept, ServiceTypeOK
  <2>2. /\ \A s : CallInv(s)' <=> CallInv(s)
        /\ \A g, served : From(g, served)' <=> From(g, served)
    BY <2>1 DEF CallInv, Unread, ReadsAfter, Consistent, Marked, After, From, Returned, Known
  <2> QED
    BY <2>1, <2>2 DEF HeadInv, PostedConsistent
<1>5. CASE UNCHANGED serviceVars
  BY <1>5 DEF serviceVars, HeadInv, PostedConsistent, CallInv, Unread, ReadsAfter, Consistent,
              Marked, After, From, Returned, Known
<1> QED
  BY <1>0, <1>1, <1>2, <1>3, <1>4, <1>5, ServiceStepKeepsHeads DEF Next, GitHubStep

\* The heads of the calls and of the submissions, with their types.
LEMMA HeadInvariant == Spec => [](ServiceTypeOK /\ HeadInv)
<1>1. Init => HeadInv
  <2> SUFFICES ASSUME Init PROVE HeadInv
    OBVIOUS
  <2>1. \A c \in Call : CallInv(call[c])
    BY DEF Init, NewCall, CallInv, Unread, ReadsAfter, Bound, Consistent, Marked
  <2>2. wire \cup {reviews[i] : i \in DOMAIN reviews} = {}
    BY DEF Init
  <2> QED
    BY <2>1, <2>2 DEF HeadInv, PostedConsistent
<1> QED
  BY <1>1, InitType, NextKeepsType, NextKeepsHeads, PTL DEF Spec

\* Codex sees one commit, the one the job was bound to, however pushes fall among
\* the pages of the files, the diff and the reads of the head.
THEOREM ServiceContextConsistent == Spec => []ContextConsistent
<1>1. HeadInv => ContextConsistent
  BY DEF HeadInv, CallInv, ReadsAfter, Bound, Consistent, ContextConsistent
<1> QED
  BY <1>1, HeadInvariant, PTL

\* A review on GitHub is of the commit it is pinned to, in its diff, its files and
\* what the caller asked for.
THEOREM ServicePostedConsistent == Spec => []PostedConsistent
<1>1. HeadInv => PostedConsistent
  BY DEF HeadInv
<1> QED
  BY <1>1, HeadInvariant, PTL

\* A result is returned only if its head was current after Codex had answered.
THEOREM ServiceCurrentAfterAnalysis == Spec => []CurrentAfterAnalysis
<1>1. HeadInv => CurrentAfterAnalysis
  BY DEF HeadInv, CallInv, Marked, CurrentAfterAnalysis
<1> QED
  BY <1>1, HeadInvariant, PTL
=============================================================================
