--------------------------- MODULE MCPToolsProofs ---------------------------
(***************************************************************************)
(* Theorems about the MCP tools, for any number of calls and permits, and  *)
(* any size and lifetime of the cache of posts.                            *)
(***************************************************************************)
EXTENDS MCPTools, ReviewServiceProofs, ExpiringCacheProofs

-----------------------------------------------------------------------------
(***************************************************************************)
(* What the proofs need of the tools: a tool hands the service only heads  *)
(* that GitHub reported, and Locate and CallPost, the two steps that       *)
(* choose one, do so before anything is claimed.                           *)
(***************************************************************************)
ToolInv ==
  /\ tool \in [Call -> ToolStages]
  /\ target \in [Call -> Known \cup {NoSha}]

\* Heads that GitHub once reported stay known.
LEMMA KnownGrows ==
  ASSUME ServiceTypeOK, [Next]_serviceVars
  PROVE  Known \subseteq Known'
BY HistoryGrows DEF Grows, Known

LEMMA CurrentIsKnown == ServiceTypeOK => Current \in Known
  BY DEF ServiceTypeOK, Current, Known

\* Every step of the tools is one of the service, or leaves the service alone.
LEMMA ToolsStepService ==
  ASSUME ToolInv, [MCPNext]_vars
  PROVE  [Next]_serviceVars
<1>1. ASSUME NEW c \in Call, Acquire(c) PROVE Next
  <2>1. BeginReview(c, target[c], FALSE) /\ target[c] \in Known \cup {NoSha}
    BY <1>1 DEF Acquire, ToolInv
  <2> QED
    BY <2>1 DEF Next
<1>2. ASSUME NEW c \in Call, Claim(c) PROVE [Next]_serviceVars
  <2>1. UNCHANGED serviceVars \/ BeginPost(c, target[c])
    BY <1>2 DEF Claim
  <2>2. target[c] \in Known \cup {NoSha}
    BY DEF ToolInv
  <2> QED
    BY <2>1, <2>2 DEF Next
<1>3. ASSUME NEW c \in Call, Serve(c) PROVE Next
  BY <1>3 DEF Serve, Next
<1>4. ASSUME GitHub PROVE Next
  BY <1>4 DEF GitHub, Next
<1>5. ASSUME NEW c \in Call, Locate(c) \/ Reviewed(c) \/ Verify(c) \/ Finish(c) \/ Abort(c)
      PROVE  UNCHANGED serviceVars
  BY <1>5 DEF Locate, Reviewed, Verify, Finish, Abort
<1>6. ASSUME NEW c \in Call, NEW post, CallReview(c, post) PROVE UNCHANGED serviceVars
  BY <1>6 DEF CallReview
<1>7. ASSUME NEW c \in Call, NEW h, CallPost(c, h) PROVE UNCHANGED serviceVars
  BY <1>7 DEF CallPost
<1>8. CASE Tick \/ UNCHANGED vars
  BY <1>8 DEF Tick, vars
<1> QED
  BY <1>1, <1>2, <1>3, <1>4, <1>5, <1>6, <1>7, <1>8 DEF MCPNext, ToolStep

LEMMA ToolsKeepInv ==
  ASSUME ServiceTypeOK, ToolInv, [MCPNext]_vars
  PROVE  ToolInv'
<1>0. Known \subseteq Known'
  BY ToolsStepService, KnownGrows
<1> DEFINE Kept == tool' \in [Call -> ToolStages] /\ target' \in [Call -> Known \cup {NoSha}]
<1>1. ASSUME NEW c \in Call, NEW post \in BOOLEAN, CallReview(c, post) PROVE Kept
  BY <1>1 DEF CallReview, GoTo, ToolInv, ToolStages
<1>2. ASSUME NEW c \in Call, Locate(c) PROVE Kept
  BY <1>2, CurrentIsKnown DEF Locate, GoTo, ToolInv, ToolStages
<1>3. ASSUME NEW c \in Call, Acquire(c) PROVE Kept
  BY <1>3 DEF Acquire, GoTo, ToolInv, ToolStages
<1>4. ASSUME NEW c \in Call, Reviewed(c) PROVE Kept
  BY <1>4 DEF Reviewed, GoTo, ToolInv, ToolStages, Answers
<1>5. ASSUME NEW c \in Call, NEW h \in Known, CallPost(c, h) PROVE Kept
  BY <1>5 DEF CallPost, GoTo, ToolInv, ToolStages
<1>6. ASSUME NEW c \in Call, Verify(c) PROVE Kept
  BY <1>6 DEF Verify, GoTo, ToolInv, ToolStages, Answers
<1>7. ASSUME NEW c \in Call, Claim(c) PROVE Kept
  BY <1>7 DEF Claim, GoTo, ToolInv, ToolStages, Answers
<1>8. ASSUME NEW c \in Call, Finish(c) PROVE Kept
  BY <1>8 DEF Finish, GoTo, ToolInv, ToolStages, Answers
<1>9. ASSUME NEW c \in Call, Abort(c) PROVE Kept
  BY <1>9 DEF Abort, GoTo, ToolInv, ToolStages, Answers
<1>10. ASSUME NEW c \in Call, Serve(c) PROVE Kept
  BY <1>10 DEF Serve, toolVars, ToolInv
<1>11. ASSUME GitHub \/ Tick \/ UNCHANGED vars PROVE Kept
  BY <1>11 DEF GitHub, Tick, vars, toolVars, ToolInv
<1>12. Kept
  BY <1>1, <1>2, <1>3, <1>4, <1>5, <1>6, <1>7, <1>8, <1>9, <1>10, <1>11 DEF MCPNext, ToolStep
<1> HIDE DEF Kept
<1>13. target' \in [Call -> Known' \cup {NoSha}]
  BY <1>0, <1>12 DEF Kept
<1> QED
  BY <1>12, <1>13 DEF ToolInv, Kept

\* Both at once: the tools keep the service's types and their own.
LEMMA ToolsInvariant == MCPSpec => [](ServiceTypeOK /\ ToolInv)
<1>1. MCPInit => ServiceTypeOK /\ ToolInv
  BY InitType DEF MCPInit, ToolInv, ToolStages
<1>2. ServiceTypeOK /\ ToolInv /\ [MCPNext]_vars => (ServiceTypeOK /\ ToolInv)'
  BY ToolsStepService, ToolsKeepInv, NextKeepsType
<1> QED
  BY <1>1, <1>2, PTL DEF MCPSpec

\* The tools use the service as the service expects to be used: every run of
\* concurrent tool calls, with its semaphore, claims and cache, is a run of the
\* service specification.
THEOREM ToolsImplementService == MCPSpec => Spec
<1>1. MCPInit => Init
  BY DEF MCPInit
<1>2. ServiceTypeOK /\ ToolInv /\ [MCPNext]_vars => [Next]_serviceVars
  BY ToolsStepService
<1> QED
  BY <1>1, <1>2, ToolsInvariant, PTL DEF MCPSpec, Spec

\* One tool call leaves at most one review on GitHub.
THEOREM ToolsSubmitOnce == MCPSpec => []SubmitsOnce
  BY ToolsImplementService, ServiceSubmitsOnce, PTL

-----------------------------------------------------------------------------
(***************************************************************************)
(* Claims.  A claim is taken and given back in one step each, and a call   *)
(* that posts keeps its target, so that ClaimsExact is inductive with the  *)
(* types of the tools.                                                     *)
(***************************************************************************)
\* A step of call c that takes no claim and gives none back.
LEMMA BystanderKeepsClaims ==
  ASSUME ToolInv, ToolInv', ClaimsExact, NEW c \in Call,
         \A d \in Call \ {c} : tool'[d] = tool[d] /\ target'[d] = target[d],
         tool[c] # "posting", tool'[c] # "posting", inFlight' = inFlight
  PROVE  ClaimsExact'
<1>1. \A d \in Call : /\ tool'[d] = "posting" <=> tool[d] = "posting"
                      /\ tool[d] = "posting" => target'[d] = target[d]
  OBVIOUS
<1>2. {target'[d] : d \in {e \in Call : tool'[e] = "posting"}}
      = {target[d] : d \in {e \in Call : tool[e] = "posting"}}
  BY <1>1
<1> QED
  BY <1>1, <1>2 DEF ClaimsExact

LEMMA ClaimKeepsClaims ==
  ASSUME ToolInv, ToolInv', ClaimsExact, NEW c \in Call, Claim(c)
  PROVE  ClaimsExact'
<1>1. tool[c] = "claiming" /\ target' = target
  BY DEF Claim
<1>2. CASE target[c] \in Keys(postCache') \cup inFlight
  BY <1>1, <1>2, BystanderKeepsClaims DEF Claim, GoTo, ToolInv
<1>3. CASE target[c] \notin Keys(postCache') \cup inFlight
  <2>1. inFlight' = inFlight \cup {target[c]} /\ tool' = [tool EXCEPT ![c] = "posting"]
    BY <1>3 DEF Claim, GoTo
  <2>2. \A d \in Call : tool'[d] = "posting" <=> d = c \/ tool[d] = "posting"
    BY <2>1 DEF ToolInv
  <2>3. \A d \in Call : tool[d] = "posting" => target[d] # target[c]
    BY <1>3 DEF ClaimsExact
  <2> QED
    BY <1>1, <2>1, <2>2, <2>3 DEF ClaimsExact
<1> QED
  BY <1>2, <1>3

LEMMA FinishKeepsClaims ==
  ASSUME ToolInv, ToolInv', ClaimsExact, NEW c \in Call, Finish(c)
  PROVE  ClaimsExact'
<1>1. /\ tool[c] = "posting" /\ target' = target
      /\ inFlight' = inFlight \ {target[c]}
      /\ tool' = [tool EXCEPT ![c] = "ok"] \/ tool' = [tool EXCEPT ![c] = "error"]
  BY DEF Finish, GoTo
<1>2. \A d \in Call : tool'[d] = "posting" <=> d # c /\ tool[d] = "posting"
  BY <1>1 DEF ToolInv
<1>3. \A d \in Call : tool[d] = "posting" /\ target[d] = target[c] => d = c
  BY <1>1 DEF ClaimsExact
<1> QED
  BY <1>1, <1>2, <1>3 DEF ClaimsExact

LEMMA ToolsKeepClaims ==
  ASSUME ServiceTypeOK, ToolInv, ClaimsExact, [MCPNext]_vars
  PROVE  ClaimsExact'
<1>0. ToolInv'
  BY ToolsKeepInv
<1>1. ASSUME NEW c \in Call, NEW post \in BOOLEAN, CallReview(c, post) PROVE ClaimsExact'
  BY <1>0, <1>1, BystanderKeepsClaims DEF CallReview, GoTo, ToolInv
<1>2. ASSUME NEW c \in Call, NEW h \in Known, CallPost(c, h) PROVE ClaimsExact'
  BY <1>0, <1>2, BystanderKeepsClaims DEF CallPost, GoTo, ToolInv
<1>3. ASSUME NEW c \in Call,
             Locate(c) \/ Acquire(c) \/ Reviewed(c) \/ Verify(c) \/ Abort(c)
      PROVE  ClaimsExact'
  <2>1. /\ tool[c] # "posting" /\ tool'[c] # "posting" /\ inFlight' = inFlight
        /\ \A d \in Call \ {c} : tool'[d] = tool[d] /\ target'[d] = target[d]
    BY <1>3 DEF Locate, Acquire, Reviewed, Verify, Abort, GoTo, ToolInv
  <2> QED
    BY <1>0, <2>1, BystanderKeepsClaims
<1>4. CASE UNCHANGED <<tool, target, inFlight>>
  BY <1>4 DEF ClaimsExact
<1>5. ASSUME NEW c \in Call, Serve(c) PROVE ClaimsExact'
  BY <1>4, <1>5 DEF Serve, toolVars
<1>6. CASE GitHub \/ Tick \/ UNCHANGED vars
  BY <1>4, <1>6 DEF GitHub, Tick, vars, toolVars
<1> QED
  BY <1>0, <1>1, <1>2, <1>3, <1>5, <1>6, ClaimKeepsClaims, FinishKeepsClaims DEF MCPNext, ToolStep

\* Two calls never submit reviews of one head at the same time, and no claim
\* outlives its post, however the calls interleave, fail or are cancelled.
THEOREM ToolsClaimsExact == MCPSpec => []ClaimsExact
<1>1. MCPInit => ClaimsExact
  BY DEF MCPInit, ClaimsExact
<1>2. ServiceTypeOK /\ ToolInv /\ ClaimsExact /\ [MCPNext]_vars => ClaimsExact'
  BY ToolsKeepClaims
<1> QED
  BY <1>1, <1>2, ToolsInvariant, PTL DEF MCPSpec
-----------------------------------------------------------------------------
(***************************************************************************)
(* What the tools know of the service's calls.  A tool hands the service a *)
(* review that does not post, then perhaps a post of its target, and a     *)
(* submission says which target it is of.                                  *)
(***************************************************************************)
Looking  == {"metadata", "fetching", "analysing", "confirming"}
Sending  == {"listing", "checking", "submitting"}
Unposted == {"completed", "stale", "failed"}

\* Where the service is with a call, at each stage of its tool.
Served(c) ==
  /\ tool[c] \in {"idle", "locating", "waiting", "verifying"} => call[c].pc = "idle"
  /\ tool[c] = "reviewing" => /\ call[c].pc \in Looking \cup Unposted
                              /\ call[c].pc \in Looking => ~call[c].posts
  /\ tool[c] \in {"claiming", "posting", "duplicate"} => target[c] # NoSha
  /\ tool[c] \in {"claiming", "duplicate"} => call[c].pc \in {"idle", "completed"}
  /\ tool[c] = "posting" => /\ call[c].pc \in Sending \cup {"posted", "stale", "failed"}
                            /\ call[c].pc \in Sending => call[c].ctx = target[c]
  /\ tool[c] = "ok" => call[c].pc = IF target[c] = NoSha THEN "completed" ELSE "posted"
  /\ tool[c] = "error" => call[c].pc \in {"idle"} \cup Unposted

\* What is submitted is of the target of a tool that posts it, or posted it.
OfTarget(m) == tool[m.call] \in {"posting", "ok", "error"} /\ m.commit = target[m.call]

PostInv ==
  /\ \A c \in Call : Served(c)
  /\ \A m \in wire : OfTarget(m)
  /\ \A i \in DOMAIN reviews : OfTarget(reviews[i])
  /\ \A c \in Call : call[c].pc = "posted" => \E i \in DOMAIN reviews : reviews[i].call = c

\* One step of a call that looks at a head, or sends a review of it.
Looks(r, s) ==
  \/ s.pc \in Looking /\ s.posts = r.posts
  \/ s.pc = IF r.posts THEN "checking" ELSE "completed"
  \/ s.pc \in {"stale", "failed"}

Sends(r, s) ==
  \/ s.pc \in Sending /\ s.ctx = r.ctx
  \/ s.pc \in {"posted", "stale", "failed"}

LEMMA ServiceMoves ==
  ASSUME ServiceTypeOK, NEW c \in Call, ServiceStep(c)
  PROVE  /\ Running(c) /\ reviews' = reviews /\ \A d \in Call \ {c} : call'[d] = call[d]
         /\ call[c].pc \in Looking => Looks(call[c], call'[c])
         /\ call[c].pc \in Sending => Sends(call[c], call'[c])
         /\ call'[c].pc = "posted" => \E i \in DOMAIN reviews : reviews[i].call = c
         /\ \A m \in wire' : m \in wire \/ (m.call = c /\ m.commit = call[c].ctx)
<1> DEFINE old == call[c]
<1>0. /\ old \in CallRecord /\ c \in DOMAIN call
      /\ NewCall \in CallRecord
  BY DEF ServiceTypeOK, NewCall, CallRecord, CallState
<1>00. /\ \A r : Set(c, r) => call'[c] = r
       /\ \A o : End(c, o) => call'[c].pc = o
  BY <1>0 DEF Set, End, NewCall
<1>1. CASE ReadMetadata(c) \/ Recheck(c) \/ Analyse(c) \/ Confirm(c)
  <2>1. /\ reviews' = reviews /\ wire' = wire
        /\ old.pc \in Looking /\ \A d \in Call \ {c} : call'[d] = call[d]
    BY <1>1 DEF ReadMetadata, Recheck, Analyse, Confirm, IfCurrent, Set, End, ServiceTypeOK, Looking
  <2>2. \/ End(c, "stale")
        \/ Set(c, [old EXCEPT !.pc = "fetching", !.ctx = Current])
        \/ Set(c, [old EXCEPT !.pc = "analysing"])
        \/ Set(c, [old EXCEPT !.pc = "confirming", !.mark = Len(history)])
        \/ Set(c, [old EXCEPT !.pc = IF old.posts THEN "checking" ELSE "completed"])
    BY <1>1 DEF ReadMetadata, Recheck, Analyse, Confirm, IfCurrent
  <2>3. \/ call'[c].pc \in Looking /\ call'[c].posts = old.posts
        \/ call'[c].pc = IF old.posts THEN "checking" ELSE "completed"
        \/ call'[c].pc = "stale"
    BY <1>0, <1>00, <2>2 DEF Looking, CallRecord
  <2> HIDE DEF old
  <2> QED
    BY <2>1, <2>3 DEF Looks, Looking, Sending, Running, Ended, old
<1>2. CASE FetchFiles(c) \/ FetchDiff(c)
  <2>1. /\ reviews' = reviews /\ wire' = wire
        /\ old.pc = "fetching" /\ \A d \in Call \ {c} : call'[d] = call[d]
    BY <1>2 DEF FetchFiles, FetchDiff, NextPage, Set, ServiceTypeOK
  <2>2. \/ \E last \in BOOLEAN :
             Set(c, [old EXCEPT !.pc = IF last THEN "fetching" ELSE @, !.listed = last,
                                !.files = @ \cup {Current}])
        \/ Set(c, [old EXCEPT !.diff = Current])
    BY <1>2 DEF FetchFiles, FetchDiff, NextPage
  <2>3. call'[c].pc = "fetching" /\ call'[c].posts = old.posts
    BY <1>0, <1>00, <2>1, <2>2 DEF CallRecord
  <2> HIDE DEF old
  <2> QED
    BY <2>1, <2>3 DEF Looks, Looking, Sending, Running, Ended, old
<1>3. CASE Pin(c)
  <2>1. /\ reviews' = reviews /\ wire' = wire /\ old.pc = "pinning"
        /\ call'[c].pc = "listing" /\ \A d \in Call \ {c} : call'[d] = call[d]
    BY <1>0, <1>3 DEF Pin, Set, ServiceTypeOK, CallRecord
  <2> QED
    BY <2>1 DEF Looking, Sending, Running, Ended
<1>4. CASE ListFiles(c)
  <2>1. /\ reviews' = reviews /\ wire' = wire
        /\ old.pc = "listing" /\ \A d \in Call \ {c} : call'[d] = call[d]
    BY <1>4 DEF ListFiles, NextPage, Set, ServiceTypeOK
  <2>2. \E last \in BOOLEAN :
          Set(c, [old EXCEPT !.pc = IF last THEN "checking" ELSE @, !.listed = last,
                             !.files = @ \cup {Current}])
    BY <1>4 DEF ListFiles, NextPage
  <2>3. call'[c].pc \in Sending /\ call'[c].ctx = old.ctx
    BY <1>0, <1>00, <2>1, <2>2 DEF CallRecord, Sending
  <2> HIDE DEF old
  <2> QED
    BY <2>1, <2>3 DEF Sends, Looking, Sending, Running, Ended, old
<1>5. CASE Check(c)
  <2>1. /\ reviews' = reviews /\ old.pc = "checking"
        /\ \A d \in Call \ {c} : call'[d] = call[d]
    BY <1>5 DEF Check, Send, End, Set, ServiceTypeOK
  <2>2. \/ call'[c].pc = "submitting" /\ call'[c].ctx = old.ctx
        \/ call'[c].pc = "stale"
    BY <1>0, <1>5 DEF Check, Send, End, Set, CallRecord
  <2>3. \A m \in wire' : m \in wire \/ (m.call = c /\ m.commit = old.ctx)
    BY <1>5 DEF Check, Send, SubmissionOf
  <2> HIDE DEF old
  <2> QED
    BY <2>1, <2>2, <2>3 DEF Sends, Looking, Sending, Running, Ended, old
<1>6. CASE Answer(c) \/ GiveUp(c)
  <2>1. /\ reviews' = reviews /\ wire' \subseteq wire /\ old.pc \notin Ended \cup {"idle"}
        /\ \A d \in Call \ {c} : call'[d] = call[d]
    BY <1>6 DEF Answer, GiveUp, Running, End, Set, ServiceTypeOK, Ended
  <2>2. /\ call'[c].pc \in {"posted", "failed"}
        /\ old.pc # "submitting" => call'[c].pc = "failed"
        /\ call'[c].pc = "posted" => \E i \in DOMAIN reviews : reviews[i].call = c
    BY <1>0, <1>6 DEF Answer, GiveUp, End, Set, NewCall
  <2> HIDE DEF old
  <2> QED
    BY <2>1, <2>2 DEF Looks, Sends, Looking, Sending, Running, Ended, old
<1> QED
  BY <1>1, <1>2, <1>3, <1>4, <1>5, <1>6 DEF ServiceStep

\* A step of a tool that has submitted nothing, and of the service on its behalf.
LEMMA QuietKeepsPost ==
  ASSUME ServiceTypeOK, PostInv, NEW c \in Call, Served(c)',
         \A d \in Call \ {c} : /\ tool'[d] = tool[d] /\ target'[d] = target[d]
                               /\ call'[d] = call[d],
         \/ tool[c] \notin {"posting", "ok", "error"}
         \/ tool'[c] \in {"posting", "ok", "error"} /\ target'[c] = target[c],
         call'[c].pc = "posted" => \E i \in DOMAIN reviews : reviews[i].call = c,
         wire' \subseteq wire, reviews' = reviews
  PROVE  PostInv'
<1>1. \A d \in Call \ {c} : Served(d)'
  <2> SUFFICES ASSUME NEW d \in Call \ {c} PROVE Served(d)'
    OBVIOUS
  <2>1. Served(d)
    BY DEF PostInv
  <2> QED
    BY <2>1 DEF Served
<1>2. \A m : m.call \in Call /\ OfTarget(m) => OfTarget(m)'
  BY DEF OfTarget
<1>3. \A m \in wire' : OfTarget(m)'
  BY <1>2, SubmissionsNameCalls DEF PostInv
<1>4. \A i \in DOMAIN reviews : OfTarget(reviews[i])'
  BY <1>2, SubmissionsNameCalls DEF PostInv, OfTarget
<1>5. (\A i \in DOMAIN reviews : OfTarget(reviews[i]))'
  BY <1>4 DEF OfTarget
<1>6. \A d \in Call : call'[d].pc = "posted" => \E i \in DOMAIN reviews : reviews[i].call = d
  BY DEF PostInv
<1> QED
  BY <1>1, <1>3, <1>5, <1>6 DEF PostInv

\* A step of a tool alone.
LEMMA GoToKeepsPost ==
  ASSUME ServiceTypeOK, PostInv, NEW c \in Call, ToolInv, ToolInv', Served(c)',
         \A d \in Call \ {c} : tool'[d] = tool[d] /\ target'[d] = target[d],
         \/ tool[c] \notin {"posting", "ok", "error"}
         \/ tool'[c] \in {"posting", "ok", "error"} /\ target'[c] = target[c],
         UNCHANGED serviceVars
  PROVE  PostInv'
BY QuietKeepsPost DEF serviceVars, PostInv

LEMMA ServeKeepsPost ==
  ASSUME ServiceTypeOK, PostInv, NEW c \in Call, Serve(c)
  PROVE  PostInv'
<1>1. tool' = tool /\ target' = target /\ ServiceStep(c) /\ tool[c] \in {"reviewing", "posting"}
  BY DEF Serve, toolVars
<1>2. /\ Running(c) /\ reviews' = reviews /\ \A d \in Call \ {c} : call'[d] = call[d]
      /\ call[c].pc \in Looking => Looks(call[c], call'[c])
      /\ call[c].pc \in Sending => Sends(call[c], call'[c])
      /\ call'[c].pc = "posted" => \E i \in DOMAIN reviews : reviews[i].call = c
      /\ \A m \in wire' : m \in wire \/ (m.call = c /\ m.commit = call[c].ctx)
  BY <1>1, ServiceMoves
<1>3. Served(c)
  BY DEF PostInv
<1>4. CASE tool[c] = "reviewing"
  <2>1. call[c].pc \in Looking /\ ~call[c].posts
    BY <1>2, <1>3, <1>4 DEF Served, Running, Ended, Unposted
  <2>2. (call'[c].pc \in Looking /\ ~call'[c].posts) \/ call'[c].pc \in Unposted
    BY <1>2, <2>1 DEF Looks, Unposted
  <2>3. Served(c)'
    BY <1>1, <1>4, <2>2 DEF Served, Looking, Unposted
  <2>4. wire' \subseteq wire
    <3>1. ServiceStep(c) /\ call[c].pc \in Looking
      BY <1>1, <2>1
    <3> QED
      BY <3>1 DEF ServiceStep, ReadMetadata, FetchFiles, FetchDiff, Recheck, Analyse, Confirm,
                  Pin, ListFiles, Check, Answer, GiveUp, Looking
  <2> QED
    BY <1>1, <1>2, <1>4, <2>3, <2>4, QuietKeepsPost
<1>5. CASE tool[c] = "posting"
  <2>1. call[c].pc \in Sending /\ call[c].ctx = target[c] /\ target[c] # NoSha
    BY <1>2, <1>3, <1>5 DEF Served, Running, Ended
  <2>2. Served(c)'
    BY <1>1, <1>2, <1>5, <2>1 DEF Served, Sends, Sending
  <2>3. \A d \in Call \ {c} : Served(d)'
    <3> SUFFICES ASSUME NEW d \in Call \ {c} PROVE Served(d)'
      OBVIOUS
    <3>1. Served(d)
      BY DEF PostInv
    <3> QED
      BY <1>1, <1>2, <3>1 DEF Served
  <2>4. \A m \in wire' : OfTarget(m)'
    BY <1>1, <1>2, <1>5, <2>1 DEF PostInv, OfTarget
  <2>5. (\A i \in DOMAIN reviews : OfTarget(reviews[i]))'
    BY <1>1, <1>2 DEF PostInv, OfTarget
  <2>6. \A d \in Call : call'[d].pc = "posted" => \E i \in DOMAIN reviews : reviews[i].call = d
    BY <1>2 DEF PostInv
  <2> QED
    BY <1>2, <2>2, <2>3, <2>4, <2>5, <2>6 DEF PostInv
<1> QED
  BY <1>1, <1>4, <1>5

LEMMA ToolsKeepPost ==
  ASSUME ServiceTypeOK, ToolInv, PostInv, [MCPNext]_vars
  PROVE  PostInv'
<1>0. ToolInv' /\ DOMAIN tool = Call /\ DOMAIN target = Call /\ DOMAIN call = Call
  BY ToolsKeepInv DEF ToolInv, ServiceTypeOK
<1>00. \A c \in Call : Served(c)
  BY DEF PostInv
<1>1. ASSUME NEW c \in Call, NEW post \in BOOLEAN, CallReview(c, post) PROVE PostInv'
  <2>1. Served(c)'
    BY <1>0, <1>00, <1>1 DEF CallReview, GoTo, Served, serviceVars
  <2> QED
    BY <1>0, <1>1, <2>1, GoToKeepsPost DEF CallReview, GoTo
<1>2. ASSUME NEW c \in Call, Locate(c) PROVE PostInv'
  <2>1. Served(c)'
    BY <1>0, <1>00, <1>2 DEF Locate, GoTo, Served, serviceVars
  <2>2. /\ tool[c] = "locating" /\ UNCHANGED serviceVars
        /\ \A d \in Call \ {c} : tool'[d] = tool[d] /\ target'[d] = target[d]
    BY <1>0, <1>2 DEF Locate, GoTo
  <2> QED
    BY <1>0, <2>1, <2>2, GoToKeepsPost
<1>3. ASSUME NEW c \in Call, Acquire(c) PROVE PostInv'
  <2>1. /\ call'[c].pc = "metadata" /\ call'[c].posts = FALSE
        /\ \A d \in Call \ {c} : call'[d] = call[d]
        /\ wire' = wire /\ reviews' = reviews
    BY <1>0, <1>3 DEF Acquire, BeginReview, Set, NewCall
  <2>2. /\ tool[c] = "waiting" /\ tool'[c] = "reviewing" /\ target' = target
        /\ \A d \in Call \ {c} : tool'[d] = tool[d]
    BY <1>0, <1>3 DEF Acquire, GoTo
  <2>3. Served(c)'
    BY <2>1, <2>2 DEF Served, Looking
  <2> QED
    BY <2>1, <2>2, <2>3, QuietKeepsPost
<1>4. ASSUME NEW c \in Call, Reviewed(c) PROVE PostInv'
  <2>1. /\ tool[c] = "reviewing" /\ call[c].pc \in Ended /\ UNCHANGED serviceVars
        /\ target' = target /\ \A d \in Call \ {c} : tool'[d] = tool[d]
        /\ tool'[c] = IF call[c].pc # "completed" THEN "error"
                      ELSE IF target[c] = NoSha THEN "ok" ELSE "claiming"
    BY <1>0, <1>4 DEF Reviewed, GoTo
  <2>2. call[c].pc \in Unposted /\ call' = call
    BY <1>00, <2>1 DEF Served, serviceVars, Looking, Ended, Unposted
  <2>3. Served(c)'
    BY <2>1, <2>2 DEF Served, Unposted
  <2> QED
    BY <1>0, <2>1, <2>3, GoToKeepsPost
<1>5. ASSUME NEW c \in Call, NEW h \in Known, CallPost(c, h) PROVE PostInv'
  <2>1. Served(c)'
    BY <1>0, <1>00, <1>5 DEF CallPost, GoTo, Served, serviceVars
  <2>2. /\ tool[c] = "idle" /\ UNCHANGED serviceVars
        /\ \A d \in Call \ {c} : tool'[d] = tool[d] /\ target'[d] = target[d]
    BY <1>0, <1>5 DEF CallPost, GoTo
  <2> QED
    BY <1>0, <2>1, <2>2, GoToKeepsPost
<1>6. ASSUME NEW c \in Call, Verify(c) PROVE PostInv'
  <2>1. Current # NoSha
    BY CurrentIsLast
  <2>2. /\ tool[c] = "verifying" /\ call[c].pc = "idle" /\ UNCHANGED serviceVars
        /\ target' = target /\ \A d \in Call \ {c} : tool'[d] = tool[d]
        /\ tool'[c] = IF target[c] = Current THEN "claiming" ELSE "error"
    BY <1>0, <1>00, <1>6 DEF Verify, GoTo, Served
  <2>3. Served(c)'
    BY <2>1, <2>2 DEF Served, serviceVars
  <2> QED
    BY <1>0, <2>2, <2>3, GoToKeepsPost
<1>7. ASSUME NEW c \in Call, Claim(c) PROVE PostInv'
  <2>1. /\ tool[c] = "claiming" /\ target' = target
        /\ target[c] # NoSha /\ call[c].pc \in {"idle", "completed"}
    BY <1>00, <1>7 DEF Claim, Served
  <2>2. CASE target[c] \in Keys(postCache') \cup inFlight
    <3>1. tool' = [tool EXCEPT ![c] = "duplicate"] /\ UNCHANGED serviceVars
      BY <1>7, <2>2 DEF Claim, GoTo
    <3>2. Served(c)'
      BY <1>0, <2>1, <3>1 DEF Served, serviceVars
    <3> QED
      BY <1>0, <2>1, <3>1, <3>2, GoToKeepsPost
  <2>3. CASE target[c] \notin Keys(postCache') \cup inFlight
    <3>1. tool' = [tool EXCEPT ![c] = "posting"] /\ BeginPost(c, target[c])
      BY <1>7, <2>3 DEF Claim, GoTo
    <3>2. /\ call'[c].pc = "listing" /\ call'[c].ctx = target[c]
          /\ \A d \in Call \ {c} : call'[d] = call[d]
          /\ wire' = wire /\ reviews' = reviews
      BY <1>0, <2>1, <3>1 DEF BeginPost, Set, NewCall
    <3>3. tool'[c] = "posting" /\ \A d \in Call \ {c} : tool'[d] = tool[d]
      BY <1>0, <3>1
    <3>4. Served(c)'
      BY <2>1, <3>2, <3>3 DEF Served, Sending
    <3> QED
      BY <2>1, <3>2, <3>3, <3>4, QuietKeepsPost
  <2> QED
    BY <2>2, <2>3
<1>8. ASSUME NEW c \in Call, Finish(c) PROVE PostInv'
  <2>1. /\ tool[c] = "posting" /\ call[c].pc \in Ended /\ UNCHANGED serviceVars
        /\ target' = target /\ \A d \in Call \ {c} : tool'[d] = tool[d]
        /\ call[c].pc = "posted" => tool'[c] = "ok"
        /\ call[c].pc # "posted" => tool'[c] = "error"
    BY <1>0, <1>8 DEF Finish, GoTo
  <2>2. /\ call[c].pc \in {"posted", "stale", "failed"} /\ target[c] # NoSha
        /\ tool'[c] \in {"ok", "error"}
        /\ tool'[c] = "ok" <=> call[c].pc = "posted"
    BY <1>00, <2>1 DEF Served, Sending, Ended
  <2>3. Served(c)'
    BY <2>1, <2>2 DEF Served, serviceVars, Unposted
  <2> QED
    BY <1>0, <2>1, <2>2, <2>3, GoToKeepsPost
<1>9. ASSUME NEW c \in Call, Abort(c) PROVE PostInv'
  <2>1. /\ tool[c] \in {"locating", "waiting", "verifying", "claiming"} /\ tool'[c] = "error"
        /\ target' = target /\ \A d \in Call \ {c} : tool'[d] = tool[d]
        /\ UNCHANGED serviceVars
    BY <1>0, <1>9 DEF Abort, GoTo
  <2>2. Served(c)'
    BY <1>00, <2>1 DEF Served, serviceVars, Unposted
  <2> QED
    BY <1>0, <2>1, <2>2, GoToKeepsPost
<1>10. ASSUME NEW h \in Sha, Push(h), UNCHANGED toolVars PROVE PostInv'
  BY <1>10 DEF Push, toolVars, PostInv, Served, OfTarget
<1>11. ASSUME NEW m \in wire, Accept(m), UNCHANGED toolVars PROVE PostInv'
  <2>1. /\ \A c \in Call : Served(c)'
        /\ \A n : OfTarget(n)' <=> OfTarget(n)
        /\ call' = call /\ wire' \subseteq wire
    BY <1>11, <1>00 DEF Accept, toolVars, Served, OfTarget
  <2>2. \A i \in DOMAIN reviews : i \in DOMAIN reviews' /\ reviews'[i] = reviews[i]
    BY <1>11 DEF Accept, ServiceTypeOK
  <2>3. \A i \in DOMAIN reviews' : reviews'[i] = m \/ i \in DOMAIN reviews
    BY <1>11 DEF Accept, ServiceTypeOK
  <2>4. (\A i \in DOMAIN reviews : OfTarget(reviews[i]))'
    <3>1. \A i \in DOMAIN reviews' : OfTarget(reviews'[i])
      BY <2>2, <2>3 DEF PostInv
    <3> QED
      BY <1>11, <3>1 DEF toolVars, OfTarget
  <2> QED
    BY <2>1, <2>2, <2>4 DEF PostInv
<1>12. CASE Tick \/ UNCHANGED vars
  BY <1>12 DEF Tick, vars, serviceVars, toolVars, PostInv, Served, OfTarget
<1> QED
  BY <1>1, <1>2, <1>3, <1>4, <1>5, <1>6, <1>7, <1>8, <1>9, <1>10, <1>11, <1>12, ServeKeepsPost
  DEF MCPNext, ToolStep, GitHub, GitHubStep

\* The claims and what the service does for them, with their types.
LEMMA PostInvariant ==
  MCPSpec => [](ServiceTypeOK /\ ToolInv /\ SubmitInv /\ ClaimsExact /\ PostInv)
<1>1. MCPInit => PostInv /\ SubmitInv
  BY DEF MCPInit, Init, NewCall, PostInv, Served, SubmitInv
<1>2. ServiceTypeOK /\ ToolInv /\ PostInv /\ [MCPNext]_vars => PostInv'
  BY ToolsKeepPost
<1>3. ServiceTypeOK /\ ToolInv /\ SubmitInv /\ [MCPNext]_vars => SubmitInv'
  BY ToolsStepService, NextKeepsSubmit
<1> QED
  BY <1>1, <1>2, <1>3, ToolsInvariant, ToolsClaimsExact, PTL DEF MCPSpec

\* A tool that answers "ok" to a post has posted: a review of that very head, of
\* this call, is on GitHub.
THEOREM ToolsAnswerHonest == MCPSpec => []AnswerHonest
<1>1. ServiceTypeOK /\ PostInv => AnswerHonest
  BY DEF PostInv, Served, OfTarget, AnswerHonest
<1> QED
  BY <1>1, PostInvariant, PTL

-----------------------------------------------------------------------------
(***************************************************************************)
(* The cache of posts.  What is remembered is of a review on GitHub and is *)
(* not in flight, and its expiry lies within TTL from now, so that an      *)
(* entry that is added is the last to expire.                              *)
(***************************************************************************)
Commits == {reviews[i].commit : i \in DOMAIN reviews}

CacheInv ==
  /\ now \in Nat
  /\ postCache \in Seq(EntryOf(Sha)) /\ Len(postCache) <= MaxEntries /\ Orderly(postCache)
  /\ \A e \in Entries(postCache) :
       e.expiry <= now + TTL /\ e.key \notin inFlight /\ e.key \in Commits

\* No review leaves GitHub, and the clock does not go back.
Later ==
  /\ now <= now'
  /\ \A i \in DOMAIN reviews : i \in DOMAIN reviews' /\ reviews'[i] = reviews[i]

LEMMA AcceptAppends ==
  ASSUME ServiceTypeOK, NEW m \in wire, Accept(m), NEW n, n = Len(reviews) + 1
  PROVE  /\ Len(reviews) \in Nat /\ DOMAIN reviews = 1..Len(reviews)
         /\ Len(reviews') = n /\ DOMAIN reviews' = 1..n
         /\ reviews'[n] = m /\ \A i \in DOMAIN reviews : i < n /\ reviews'[i] = reviews[i]
BY DEF Accept, ServiceTypeOK

LEMMA TimePasses ==
  ASSUME ServiceTypeOK, ToolInv, now \in Nat, [MCPNext]_vars
  PROVE  Later /\ now' \in Nat
<1>1. ASSUME NEW c \in Call, Serve(c) PROVE reviews' = reviews /\ now' = now
  BY <1>1, ServiceMoves DEF Serve, toolVars
<1>2. ASSUME NEW c \in Call, Claim(c) PROVE reviews' = reviews /\ now' = now
  BY <1>2 DEF Claim, BeginPost, serviceVars
<1>3. ASSUME NEW c \in Call, Locate(c) \/ Acquire(c) \/ Reviewed(c) \/ Verify(c) \/ Finish(c) \/ Abort(c)
      PROVE  reviews' = reviews /\ now' = now
  BY <1>3 DEF Locate, Acquire, BeginReview, Reviewed, Verify, Finish, Abort, serviceVars
<1>4. ASSUME NEW c \in Call, NEW post, CallReview(c, post) PROVE reviews' = reviews /\ now' = now
  BY <1>4 DEF CallReview, serviceVars
<1>5. ASSUME NEW c \in Call, NEW h, CallPost(c, h) PROVE reviews' = reviews /\ now' = now
  BY <1>5 DEF CallPost, serviceVars
<1>6. CASE Tick
  BY <1>6 DEF Tick, Later, serviceVars
<1>7. CASE GitHub
  <2>1. now' = now
    BY <1>7 DEF GitHub, toolVars
  <2>2. \A i \in DOMAIN reviews : i \in DOMAIN reviews' /\ reviews'[i] = reviews[i]
    <3>1. ASSUME NEW m \in wire, Accept(m)
          PROVE  \A i \in DOMAIN reviews : i \in DOMAIN reviews' /\ reviews'[i] = reviews[i]
      BY <3>1, AcceptAppends
    <3>2. (\E m \in wire : Accept(m)) \/ reviews' = reviews
      BY <1>7 DEF GitHub, GitHubStep, Push
    <3> QED
      BY <3>1, <3>2
  <2> QED
    BY <2>1, <2>2 DEF Later
<1>8. CASE UNCHANGED vars
  BY <1>8 DEF vars, serviceVars, toolVars, Later
<1>9. CASE reviews' = reviews /\ now' = now
  BY <1>9 DEF Later
<1> QED
  BY <1>1, <1>2, <1>3, <1>4, <1>5, <1>6, <1>7, <1>8, <1>9 DEF MCPNext, ToolStep

LEMMA CommitsStay == Later => Commits \subseteq Commits'
  BY DEF Later, Commits

\* Heads that are reviewed or posted are commits.
LEMMA TargetsAreShas ==
  ASSUME ServiceTypeOK, ToolInv, NEW c \in Call, target[c] # NoSha
  PROVE  target[c] \in Sha
BY DEF ServiceTypeOK, ToolInv, Known

\* A step that remembers nothing and claims nothing.
LEMMA QuietKeepsCache ==
  ASSUME CacheInv, Later, now' \in Nat, postCache' = postCache, inFlight' \subseteq inFlight
  PROVE  CacheInv'
<1>1. Commits \subseteq Commits'
  BY CommitsStay
<1>2. \A e \in Entries(postCache) : e.expiry <= now' + TTL
  BY EntriesType, MCPToolsAssumption DEF CacheInv, Later
<1>3. Entries(postCache') = Entries(postCache)
  OBVIOUS
<1> QED
  BY <1>1, <1>2, <1>3 DEF CacheInv

LEMMA ClaimKeepsCache ==
  ASSUME CacheInv, NEW c \in Call, Claim(c), Later, now' \in Nat
  PROVE  CacheInv'
<1> DEFINE new == postCache'
<1>1. /\ new = Prune(postCache, now) /\ now' = now
      /\ inFlight' \subseteq inFlight \/ (inFlight' = inFlight \cup {target[c]} /\ target[c] \notin Keys(new))
  BY DEF Claim
<1>2. /\ new \in Seq(EntryOf(Sha)) /\ Len(new) <= Len(postCache) /\ Orderly(new)
      /\ Entries(new) = {e \in Entries(postCache) : e.expiry > now}
  BY <1>1, PruneEntries DEF CacheInv
<1>3. Len(new) <= MaxEntries
  BY <1>2, EntriesType, MCPToolsAssumption DEF CacheInv
<1>4. \A e \in Entries(new) : e.key \notin inFlight'
  BY <1>1, <1>2, KeysOfEntries DEF CacheInv
<1>5. Commits \subseteq Commits'
  BY CommitsStay
<1> HIDE DEF new
<1>6. \A e \in Entries(new) : e.expiry <= now + TTL /\ e.key \in Commits
  BY <1>2 DEF CacheInv
<1> QED
  BY <1>1, <1>2, <1>3, <1>4, <1>5, <1>6 DEF CacheInv, new

\* A post that succeeded: its claim becomes an entry.
LEMMA FinishRemembers ==
  ASSUME ServiceTypeOK, ToolInv, PostInv, ClaimsExact, CacheInv, NEW c \in Call, Finish(c),
         call[c].pc = "posted"
  PROVE  /\ postCache' \in Seq(EntryOf(Sha)) /\ Len(postCache') <= MaxEntries
         /\ Orderly(postCache')
         /\ Entries(postCache') \subseteq Entries(postCache) \cup {Entry(target[c], now + TTL)}
         /\ Entry(target[c], now + TTL) \in Entries(postCache')
         /\ \/ Entries(postCache) \subseteq Entries(postCache')
            \/ Cardinality(Keys(postCache)) = MaxEntries
         /\ target[c] \in Commits /\ target[c] \notin Keys(postCache)
<1>1. tool[c] = "posting" /\ postCache' = Remember(postCache, target[c], now + TTL, MaxEntries)
  BY DEF Finish
<1>2. target[c] \in inFlight /\ target[c] # NoSha
  BY <1>1 DEF ClaimsExact, PostInv, Served
<1>3. target[c] \in Sha /\ target[c] \notin Keys(postCache)
  BY <1>2, TargetsAreShas, KeysOfEntries DEF CacheInv
<1>4. now + TTL \in Nat /\ MaxEntries \in Nat \ {0}
  BY MCPToolsAssumption DEF CacheInv
<1>5. target[c] \in Commits
  <2>1. PICK i \in DOMAIN reviews : reviews[i].call = c
    BY DEF PostInv
  <2>2. reviews[i].commit = target[c]
    BY <2>1 DEF PostInv, OfTarget
  <2> QED
    BY <2>2 DEF Commits
<1>6. \A e \in Entries(postCache) : e.expiry <= now + TTL
  BY DEF CacheInv
<1>7. postCache \in Seq(EntryOf(Sha)) /\ Len(postCache) <= MaxEntries /\ Orderly(postCache)
  BY DEF CacheInv
<1> QED
  BY <1>1, <1>3, <1>4, <1>5, <1>6, <1>7, RememberEntries

LEMMA FinishKeepsCache ==
  ASSUME ServiceTypeOK, ToolInv, PostInv, ClaimsExact, CacheInv, NEW c \in Call, Finish(c),
         Later, now' \in Nat
  PROVE  CacheInv'
<1>1. inFlight' = inFlight \ {target[c]} /\ now' = now
  BY DEF Finish
<1>2. CASE call[c].pc # "posted"
  BY <1>1, <1>2, QuietKeepsCache DEF Finish
<1>3. CASE call[c].pc = "posted"
  <2> DEFINE new == postCache'
             e0 == Entry(target[c], now + TTL)
  <2>1. /\ new \in Seq(EntryOf(Sha)) /\ Len(new) <= MaxEntries /\ Orderly(new)
        /\ Entries(new) \subseteq Entries(postCache) \cup {e0} /\ target[c] \in Commits
    BY <1>3, FinishRemembers
  <2>2. e0.key = target[c] /\ e0.expiry = now + TTL
    BY DEF Entry
  <2>3. Commits \subseteq Commits'
    BY CommitsStay
  <2>4. now + TTL <= now + TTL
    BY MCPToolsAssumption DEF CacheInv
  <2> HIDE DEF new, e0
  <2>5. \A e \in Entries(new) : e.expiry <= now + TTL /\ e.key \notin inFlight' /\ e.key \in Commits
    BY <1>1, <2>1, <2>2, <2>4 DEF CacheInv
  <2> QED
    BY <1>1, <2>1, <2>3, <2>5 DEF CacheInv, new
<1> QED
  BY <1>2, <1>3

LEMMA ToolsKeepCache ==
  ASSUME ServiceTypeOK, ToolInv, ClaimsExact, PostInv, CacheInv, [MCPNext]_vars
  PROVE  CacheInv'
<1>0. Later /\ now' \in Nat
  BY TimePasses DEF CacheInv
<1>1. ASSUME NEW c \in Call, NEW post, CallReview(c, post) PROVE CacheInv'
  BY <1>0, <1>1, QuietKeepsCache DEF CallReview
<1>2. ASSUME NEW c \in Call, NEW h, CallPost(c, h) PROVE CacheInv'
  BY <1>0, <1>2, QuietKeepsCache DEF CallPost
<1>3. ASSUME NEW c \in Call,
             Locate(c) \/ Acquire(c) \/ Reviewed(c) \/ Verify(c) \/ Abort(c) \/ Serve(c)
      PROVE  CacheInv'
  <2>1. postCache' = postCache /\ inFlight' = inFlight
    BY <1>3 DEF Locate, Acquire, Reviewed, Verify, Abort, Serve, toolVars
  <2> QED
    BY <1>0, <2>1, QuietKeepsCache
<1>4. CASE GitHub \/ Tick \/ UNCHANGED vars
  <2>1. postCache' = postCache /\ inFlight' = inFlight
    BY <1>4 DEF GitHub, Tick, vars, toolVars
  <2> QED
    BY <1>0, <2>1, QuietKeepsCache
<1> QED
  BY <1>0, <1>1, <1>2, <1>3, <1>4, ClaimKeepsCache, FinishKeepsCache DEF MCPNext, ToolStep

LEMMA CacheInvariant ==
  MCPSpec => [](ServiceTypeOK /\ ToolInv /\ SubmitInv /\ ClaimsExact /\ PostInv /\ CacheInv)
<1>1. MCPInit => CacheInv
  <2> SUFFICES ASSUME MCPInit PROVE CacheInv
    OBVIOUS
  <2>1. postCache = <<>> /\ now = 0
    BY DEF MCPInit
  <2>2. postCache \in Seq(EntryOf(Sha)) /\ Len(postCache) = 0
    BY <2>1
  <2>3. Orderly(postCache) /\ Entries(postCache) = {}
    BY <2>1 DEF Orderly, Entries
  <2> QED
    BY <2>1, <2>2, <2>3, MCPToolsAssumption DEF CacheInv
<1> QED
  BY <1>1, ToolsKeepCache, PostInvariant, PTL DEF MCPSpec

\* The cache keeps to its bound and to the order of expiry for any number of
\* calls, and what it holds is on GitHub and not being posted again.
THEOREM ToolsCacheOrderly == MCPSpec => []CacheOrderly
<1>1. CacheInv => CacheOrderly
  <2> SUFFICES ASSUME CacheInv PROVE CacheOrderly
    OBVIOUS
  <2>1. \A e \in Entries(postCache) : e.key \notin inFlight /\ e.key \in Commits
    BY DEF CacheInv
  <2>2. Keys(postCache) \cap inFlight = {} /\ Keys(postCache) \subseteq Commits
    BY <2>1, KeysOfEntries
  <2> QED
    BY <2>2 DEF CacheInv, CacheOrderly, Commits
<1> QED
  BY <1>1, CacheInvariant, PTL

-----------------------------------------------------------------------------
(***************************************************************************)
(* Reviews of one commit.  A review whose call was answered "ok" is in the *)
(* cache, unless it is late by now: TTL went by, or as many other commits  *)
(* were reviewed as the cache holds.  Until then no other call posts its   *)
(* commit, except where one of the two calls fails.                        *)
(***************************************************************************)
TimesInv ==
  /\ acceptedAt \in Seq(Nat) /\ Len(acceptedAt) = Len(reviews)
  /\ \A i \in DOMAIN reviews : acceptedAt[i] <= now

Late(i) ==
  \/ now >= acceptedAt[i] + TTL
  \/ Cardinality(Commits \ {reviews[i].commit}) >= MaxEntries

Failed(c) == call[c].pc = "failed"

Remembered(i) ==
  tool[reviews[i].call] = "ok" =>
    \/ Late(i)
    \/ \E e \in Entries(postCache) :
         e.key = reviews[i].commit /\ e.expiry >= acceptedAt[i] + TTL

\* Another call posts the commit of review i.
Again(i, c) == c # reviews[i].call /\ tool[c] = "posting" /\ target[c] = reviews[i].commit

Excused(i, c) == Late(i) \/ Failed(c) \/ Failed(reviews[i].call)

RepeatInv ==
  /\ \A i \in DOMAIN reviews : Remembered(i)
  /\ \A i \in DOMAIN reviews : \A c \in Call : Again(i, c) => Excused(i, c)
  /\ RepeatsExplained

LEMMA TimesType ==
  ASSUME TimesInv, NEW i \in DOMAIN reviews, reviews \in Seq(Submission)
  PROVE  i \in 1..Len(reviews) /\ acceptedAt[i] \in Nat
BY DEF TimesInv

LEMMA CommitsFinite ==
  ASSUME NEW r \in Seq(Submission)
  PROVE  IsFiniteSet({r[i].commit : i \in DOMAIN r})
<1> DEFINE f == [i \in 1..Len(r) |-> r[i].commit]
<1>1. Len(r) \in Nat /\ DOMAIN r = 1..Len(r)
  OBVIOUS
<1>2. IsFiniteSet({f[i] : i \in 1..Len(r)})
  <2>1. DOMAIN f = 1..Len(r)
    OBVIOUS
  <2> HIDE DEF f
  <2> QED
    BY <1>1, <2>1, FiniteRange
<1>3. {f[i] : i \in 1..Len(r)} = {r[i].commit : i \in DOMAIN r}
  BY <1>1
<1> QED
  BY <1>2, <1>3

\* The times of the reviews on GitHub stand.
TimesStand == \A i \in DOMAIN reviews : acceptedAt'[i] = acceptedAt[i]

LEMMA TimesKept ==
  ASSUME ServiceTypeOK, ToolInv, CacheInv, TimesInv, [MCPNext]_vars
  PROVE  TimesInv' /\ TimesStand
<1>1. Later /\ now' \in Nat /\ now \in Nat
  BY TimePasses DEF CacheInv
<1>2. DOMAIN reviews = 1..Len(reviews) /\ \A i \in DOMAIN reviews : acceptedAt[i] \in Nat
  BY DEF ServiceTypeOK, TimesInv
<1>3. CASE reviews' = reviews /\ acceptedAt' = acceptedAt
  BY <1>1, <1>2, <1>3 DEF TimesInv, TimesStand, Later
<1>4. ASSUME NEW m \in wire, Accept(m), GitHub PROVE TimesInv' /\ TimesStand
  <2> DEFINE n == Len(reviews) + 1
  <2>1. /\ Len(reviews') = n /\ DOMAIN reviews' = 1..n /\ reviews' # reviews
        /\ \A i \in DOMAIN reviews' : i \in DOMAIN reviews \/ i = n
    BY <1>4, <1>2, AcceptAppends
  <2>2. acceptedAt' = Append(acceptedAt, now) /\ now' = now
    BY <1>4, <2>1 DEF GitHub, toolVars
  <2>3. /\ acceptedAt' \in Seq(Nat) /\ Len(acceptedAt') = n /\ acceptedAt'[n] = now
        /\ \A i \in DOMAIN reviews : acceptedAt'[i] = acceptedAt[i]
    BY <1>1, <1>2, <2>2 DEF TimesInv
  <2> HIDE DEF n
  <2>4. \A i \in DOMAIN reviews' : acceptedAt'[i] <= now'
    BY <1>1, <2>1, <2>2, <2>3 DEF TimesInv
  <2> QED
    BY <2>1, <2>3, <2>4 DEF TimesInv, TimesStand
<1>5. CASE GitHub
  <2>1. (\E m \in wire : Accept(m)) \/ reviews' = reviews
    BY <1>5 DEF GitHub, GitHubStep, Push
  <2> QED
    BY <1>3, <1>4, <1>5, <2>1 DEF GitHub
<1>6. ASSUME NEW c \in Call, ToolStep(c) PROVE reviews' = reviews /\ acceptedAt' = acceptedAt
  <2>1. acceptedAt' = acceptedAt
    BY <1>6 DEF ToolStep, Locate, Acquire, Reviewed, Verify, Claim, Finish, Abort, Serve
  <2>2. Serve(c) => reviews' = reviews
    BY ServiceMoves DEF Serve
  <2>3. Locate(c) \/ Reviewed(c) \/ Verify(c) \/ Finish(c) \/ Abort(c) => reviews' = reviews
    BY DEF Locate, Reviewed, Verify, Finish, Abort, serviceVars
  <2>4. Acquire(c) \/ Claim(c) => reviews' = reviews
    BY DEF Acquire, Claim, BeginReview, BeginPost, serviceVars
  <2> QED
    BY <1>6, <2>1, <2>2, <2>3, <2>4 DEF ToolStep
<1>7. ASSUME NEW c \in Call, NEW post, CallReview(c, post)
      PROVE  reviews' = reviews /\ acceptedAt' = acceptedAt
  BY <1>7 DEF CallReview, serviceVars
<1>8. ASSUME NEW c \in Call, NEW h, CallPost(c, h)
      PROVE  reviews' = reviews /\ acceptedAt' = acceptedAt
  BY <1>8 DEF CallPost, serviceVars
<1>9. CASE Tick \/ UNCHANGED vars
  BY <1>3, <1>9 DEF Tick, vars, serviceVars
<1> QED
  BY <1>3, <1>5, <1>6, <1>7, <1>8, <1>9 DEF MCPNext

\* Late reviews stay late.
LEMMA LateStays ==
  ASSUME ServiceTypeOK, ServiceTypeOK', CacheInv, now' \in Nat, TimesInv, TimesStand, Later,
         NEW i \in DOMAIN reviews, Late(i)
  PROVE  Late(i)'
<1>1. /\ acceptedAt[i] \in Nat /\ acceptedAt'[i] = acceptedAt[i] /\ reviews'[i] = reviews[i]
      /\ now \in Nat /\ now <= now'
  BY TimesType DEF ServiceTypeOK, TimesStand, Later, CacheInv
<1>2. CASE now >= acceptedAt[i] + TTL
  BY <1>1, <1>2, MCPToolsAssumption DEF Late
<1>3. CASE Cardinality(Commits \ {reviews[i].commit}) >= MaxEntries
  <2> DEFINE S == Commits
             T == Commits'
  <2>1. IsFiniteSet(T)
    BY CommitsFinite DEF Commits, ServiceTypeOK
  <2>2. S \subseteq T /\ MaxEntries \in Nat
    BY CommitsStay, MCPToolsAssumption
  <2>3. Cardinality(S \ {reviews[i].commit}) >= MaxEntries
    BY <1>3
  <2> HIDE DEF S, T
  <2>4. Cardinality(T \ {reviews[i].commit}) >= MaxEntries
    BY <2>1, <2>2, <2>3, OthersStay
  <2> QED
    BY <1>1, <2>4 DEF Late, T
<1> QED
  BY <1>2, <1>3 DEF Late

\* So do failures of calls that have begun to post.
LEMMA FailuresStay ==
  ASSUME ServiceTypeOK, ToolInv, [MCPNext]_vars, NEW c \in Call,
         tool[c] \in {"posting", "ok", "error"}, Failed(c)
  PROVE  Failed(c)'
<1>0. DOMAIN call = Call
  BY DEF ServiceTypeOK
<1>1. ASSUME NEW d \in Call, Acquire(d) PROVE call'[c] = call[c]
  BY <1>0, <1>1 DEF Acquire, BeginReview, Set
<1>2. ASSUME NEW d \in Call, Claim(d) PROVE call'[c] = call[c]
  BY <1>0, <1>2 DEF Claim, BeginPost, Set, serviceVars
<1>3. ASSUME NEW d \in Call, Serve(d) PROVE call'[c] = call[c]
  <2>1. Running(d) /\ \A x \in Call \ {d} : call'[x] = call[x]
    BY <1>3, ServiceMoves DEF Serve
  <2> QED
    BY <2>1 DEF Running, Failed, Ended
<1>4. ASSUME NEW d \in Call, Locate(d) \/ Reviewed(d) \/ Verify(d) \/ Finish(d) \/ Abort(d)
      PROVE  call' = call
  BY <1>4 DEF Locate, Reviewed, Verify, Finish, Abort, serviceVars
<1>5. ASSUME NEW d \in Call, NEW post, CallReview(d, post) PROVE call' = call
  BY <1>5 DEF CallReview, serviceVars
<1>6. ASSUME NEW d \in Call, NEW h, CallPost(d, h) PROVE call' = call
  BY <1>6 DEF CallPost, serviceVars
<1>7. ASSUME GitHub \/ Tick \/ UNCHANGED vars PROVE call' = call
  BY <1>7 DEF GitHub, GitHubStep, Push, Accept, Tick, vars, serviceVars, Failed
<1> QED
  BY <1>1, <1>2, <1>3, <1>4, <1>5, <1>6, <1>7 DEF MCPNext, ToolStep, Failed

ToolsInv == /\ ServiceTypeOK /\ ToolInv /\ SubmitInv
            /\ ClaimsExact /\ PostInv /\ CacheInv /\ TimesInv

LEMMA ToolsInvariants == MCPSpec => []ToolsInv
<1>1. MCPInit => TimesInv
  BY DEF MCPInit, Init, TimesInv
<1>2. ServiceTypeOK /\ ToolInv /\ CacheInv /\ TimesInv /\ [MCPNext]_vars => TimesInv'
  BY TimesKept
<1> QED
  BY <1>1, <1>2, CacheInvariant, PTL DEF MCPSpec, ToolsInv

LEMMA StepOfTools ==
  ASSUME ToolsInv, [MCPNext]_vars
  PROVE  /\ ServiceTypeOK' /\ Later /\ TimesStand /\ now \in Nat /\ now' \in Nat
         /\ \A i \in DOMAIN reviews : /\ reviews[i].call \in Call /\ OfTarget(reviews[i])
                                      /\ reviews'[i] = reviews[i] /\ i \in DOMAIN reviews'
                                      /\ acceptedAt'[i] = acceptedAt[i] /\ acceptedAt[i] \in Nat
<1>1. ServiceTypeOK' /\ Later /\ now' \in Nat /\ now \in Nat
  BY ToolsStepService, NextKeepsType, TimePasses DEF ToolsInv, CacheInv
<1>2. TimesStand
  BY TimesKept DEF ToolsInv
<1>3. \A i \in DOMAIN reviews : reviews[i].call \in Call /\ OfTarget(reviews[i]) /\ acceptedAt[i] \in Nat
  BY SubmissionsNameCalls, TimesType DEF ToolsInv, PostInv, ServiceTypeOK
<1> QED
  BY <1>1, <1>2, <1>3 DEF Later, TimesStand

LEMMA ExcusesStay ==
  ASSUME ToolsInv, [MCPNext]_vars, NEW i \in DOMAIN reviews, NEW c \in Call,
         tool[c] \in {"posting", "ok", "error"}, Excused(i, c)
  PROVE  Excused(i, c)'
<1>1. /\ reviews[i].call \in Call /\ tool[reviews[i].call] \in {"posting", "ok", "error"}
      /\ reviews'[i] = reviews[i]
  BY StepOfTools DEF OfTarget
<1>2. Late(i) => Late(i)'
  BY StepOfTools, LateStays DEF ToolsInv
<1>3. Failed(c) => Failed(c)'
  BY FailuresStay DEF ToolsInv
<1>4. Failed(reviews[i].call) => Failed(reviews[i].call)'
  <2> DEFINE b == reviews[i].call
  <2>1. b \in Call /\ tool[b] \in {"posting", "ok", "error"}
    BY <1>1
  <2>2. ASSUME NEW d \in Call, tool[d] \in {"posting", "ok", "error"}, Failed(d)
        PROVE  call'[d].pc = "failed"
    BY <2>2, FailuresStay DEF ToolsInv, Failed
  <2> QED
    BY <1>1, <2>1, <2>2 DEF Failed
<1> QED
  BY <1>1, <1>2, <1>3, <1>4 DEF Excused

\* What explains two reviews that are on GitHub still does.
LEMMA ExplainedStays ==
  ASSUME ToolsInv, RepeatsExplained, [MCPNext]_vars,
         NEW i \in DOMAIN reviews, NEW j \in DOMAIN reviews
  PROVE  (/\ i < j /\ reviews[i].commit = reviews[j].commit /\ Suppressed(i, j)
          => "failed" \in {call[reviews[i].call].pc, call[reviews[j].call].pc})'
<1> DEFINE b == reviews[i].call
           d == reviews[j].call
<1>1. /\ b \in Call /\ tool[b] \in {"posting", "ok", "error"} /\ reviews'[i] = reviews[i]
      /\ d \in Call /\ tool[d] \in {"posting", "ok", "error"} /\ reviews'[j] = reviews[j]
      /\ acceptedAt'[i] = acceptedAt[i] /\ acceptedAt'[j] = acceptedAt[j]
  BY StepOfTools DEF OfTarget
<1>2. {reviews'[k].commit : k \in 1..j} = {reviews[k].commit : k \in 1..j}
  <2>1. \A k \in 1..j : k \in DOMAIN reviews
    BY DEF ToolsInv, ServiceTypeOK
  <2> QED
    BY <2>1, StepOfTools
<1>3. Suppressed(i, j)' => Suppressed(i, j)
  BY <1>1, <1>2 DEF Suppressed
<1>4. ASSUME NEW c \in Call, tool[c] \in {"posting", "ok", "error"}, call[c].pc = "failed"
      PROVE  call'[c].pc = "failed"
  BY <1>4, FailuresStay DEF ToolsInv, Failed
<1>5. i < j /\ reviews[i].commit = reviews[j].commit /\ Suppressed(i, j)
      => call[b].pc = "failed" \/ call[d].pc = "failed"
  BY DEF RepeatsExplained
<1> QED
  BY <1>1, <1>3, <1>4, <1>5

\* A step by which GitHub accepts nothing.
LEMMA KeepsRepeat ==
  ASSUME ToolsInv, RepeatInv, [MCPNext]_vars, reviews' = reviews,
         \A i \in DOMAIN reviews : Remembered(i)',
         \A i \in DOMAIN reviews : \A c \in Call :
           tool'[c] = "posting" => /\ tool[c] = "posting" \/ Excused(i, c)' \/ ~Again(i, c)'
                                   /\ tool[c] = "posting" => target'[c] = target[c]
  PROVE  RepeatInv'
<1>1. ASSUME NEW i \in DOMAIN reviews, NEW c \in Call, Again(i, c)' PROVE Excused(i, c)'
  <2>1. CASE tool[c] = "posting"
    <3>1. Again(i, c)
      BY <1>1, <2>1 DEF Again
    <3> QED
      BY <2>1, <3>1, ExcusesStay DEF RepeatInv
  <2>2. CASE tool[c] # "posting"
    BY <1>1, <2>2 DEF Again
  <2> QED
    BY <2>1, <2>2
<1>2. RepeatsExplained'
  <2>1. \A i, j \in DOMAIN reviews' :
          (/\ i < j /\ reviews[i].commit = reviews[j].commit /\ Suppressed(i, j)
           => "failed" \in {call[reviews[i].call].pc, call[reviews[j].call].pc})'
    BY ExplainedStays DEF RepeatInv
  <2> QED
    BY <2>1 DEF RepeatsExplained
<1> QED
  BY <1>1, <1>2 DEF RepeatInv

\* A step that does not touch the cache either.
LEMMA QuietKeepsRepeat ==
  ASSUME ToolsInv, RepeatInv, [MCPNext]_vars, reviews' = reviews, postCache' = postCache,
         NEW c \in Call, \A d \in Call \ {c} : tool'[d] = tool[d] /\ target'[d] = target[d],
         \/ tool'[c] = tool[c] /\ target'[c] = target[c]
         \/ tool[c] \notin {"posting", "ok", "error"} /\ tool'[c] # "posting"
         \/ tool'[c] \notin {"posting", "ok"}
  PROVE  RepeatInv'
<1>1. ASSUME NEW i \in DOMAIN reviews PROVE Remembered(i)'
  <2>0. SUFFICES ASSUME tool'[reviews[i].call] = "ok"
                 PROVE  \/ Late(i)'
                        \/ \E e \in Entries(postCache') :
                             e.key = reviews'[i].commit /\ e.expiry >= acceptedAt'[i] + TTL
    BY DEF Remembered
  <2>1. /\ reviews[i].call \in Call /\ tool[reviews[i].call] \in {"posting", "ok", "error"}
        /\ acceptedAt'[i] = acceptedAt[i]
    BY StepOfTools DEF OfTarget
  <2>2. tool[reviews[i].call] = "ok"
    BY <2>0, <2>1
  <2>3. \/ Late(i)
        \/ \E e \in Entries(postCache) :
             e.key = reviews[i].commit /\ e.expiry >= acceptedAt[i] + TTL
    BY <2>2 DEF RepeatInv, Remembered
  <2>4. Late(i) => Late(i)'
    BY StepOfTools, LateStays DEF ToolsInv
  <2> QED
    BY <2>1, <2>3, <2>4
<1>2. \A d \in Call : tool'[d] = "posting" => tool[d] = "posting" /\ target'[d] = target[d]
  OBVIOUS
<1> QED
  BY <1>1, <1>2, KeepsRepeat

\* What the cache forgets when it is pruned is late.
LEMMA PruneKeepsRemembered ==
  ASSUME ToolsInv, NEW i \in DOMAIN reviews, NEW e \in Entries(postCache),
         e.expiry >= acceptedAt[i] + TTL
  PROVE  Late(i) \/ e \in Entries(Prune(postCache, now))
<1>1. /\ Entries(Prune(postCache, now)) = {x \in Entries(postCache) : x.expiry > now}
      /\ e.expiry \in Nat /\ now \in Nat
  BY PruneEntries, EntriesType DEF ToolsInv, CacheInv
<1>2. acceptedAt[i] \in Nat /\ TTL \in Nat
  BY TimesType, MCPToolsAssumption DEF ToolsInv, ServiceTypeOK
<1>3. CASE e.expiry > now
  BY <1>1, <1>3
<1>4. CASE ~(e.expiry > now)
  BY <1>1, <1>2, <1>4 DEF Late
<1> QED
  BY <1>3, <1>4

\* A claim is taken for a reviewed commit only if that review is late, or failed.
LEMMA ClaimIsExcused ==
  ASSUME ToolsInv, RepeatInv, NEW c \in Call, Claim(c), tool'[c] = "posting",
         NEW i \in DOMAIN reviews, reviews[i].commit = target[c]
  PROVE  Late(i) \/ Failed(reviews[i].call)
<1> DEFINE b == reviews[i].call
<1>1. /\ target[c] \notin Keys(Prune(postCache, now)) /\ target[c] \notin inFlight
  BY DEF Claim, GoTo, ToolsInv, ToolInv
<1>2. b \in Call /\ OfTarget(reviews[i])
  BY SubmissionsNameCalls DEF ToolsInv, PostInv
<1>3. call[b].pc \in Sent /\ Served(b)
  BY <1>2 DEF ToolsInv, SubmitInv, PostInv
<1>4. tool[b] \in {"posting", "ok", "error"} /\ reviews[i].commit = target[b]
  BY <1>2 DEF OfTarget
<1>5. tool[b] # "posting"
  BY <1>1, <1>2, <1>4 DEF ToolsInv, ClaimsExact
<1>6. CASE tool[b] = "error"
  BY <1>3, <1>6 DEF Served, Sent, Unposted, Failed
<1>7. CASE tool[b] = "ok"
  <2>1. \/ Late(i)
        \/ \E e \in Entries(postCache) :
             e.key = reviews[i].commit /\ e.expiry >= acceptedAt[i] + TTL
    BY <1>7 DEF RepeatInv, Remembered
  <2>2. ASSUME NEW e \in Entries(postCache), e.key = reviews[i].commit,
               e.expiry >= acceptedAt[i] + TTL
        PROVE  Late(i)
    <3>1. Late(i) \/ e \in Entries(Prune(postCache, now))
      BY <2>2, PruneKeepsRemembered
    <3>2. e \notin Entries(Prune(postCache, now))
      BY <1>1, <2>2, KeysOfEntries
    <3> QED
      BY <3>1, <3>2
  <2> QED
    BY <2>1, <2>2
<1> QED
  BY <1>4, <1>5, <1>6, <1>7

LEMMA ClaimKeepsRepeat ==
  ASSUME ToolsInv, RepeatInv, [MCPNext]_vars, NEW c \in Call, Claim(c)
  PROVE  RepeatInv'
<1>1. /\ tool[c] = "claiming" /\ target' = target /\ reviews' = reviews
      /\ postCache' = Prune(postCache, now) /\ tool'[c] \in {"duplicate", "posting"}
      /\ \A d \in Call \ {c} : tool'[d] = tool[d]
  BY DEF Claim, GoTo, BeginPost, serviceVars, ToolsInv, ToolInv
<1>2. ASSUME NEW i \in DOMAIN reviews, Late(i) PROVE Late(i)'
  BY <1>2, StepOfTools, LateStays DEF ToolsInv
<1>3. ASSUME NEW i \in DOMAIN reviews PROVE Remembered(i)'
  <2>0. SUFFICES ASSUME tool'[reviews[i].call] = "ok"
                 PROVE  \/ Late(i)'
                        \/ \E e \in Entries(postCache') :
                             e.key = reviews[i].commit /\ e.expiry >= acceptedAt[i] + TTL
    BY <1>1, StepOfTools DEF Remembered
  <2>1. tool[reviews[i].call] = "ok"
    BY <1>1, <2>0, StepOfTools
  <2>2. \/ Late(i)
        \/ \E e \in Entries(postCache) :
             e.key = reviews[i].commit /\ e.expiry >= acceptedAt[i] + TTL
    BY <2>1 DEF RepeatInv, Remembered
  <2>3. ASSUME NEW e \in Entries(postCache), e.expiry >= acceptedAt[i] + TTL
        PROVE  Late(i) \/ e \in Entries(postCache')
    BY <1>1, <2>3, PruneKeepsRemembered
  <2> QED
    BY <1>2, <2>2, <2>3
<1>4. ASSUME NEW i \in DOMAIN reviews, NEW d \in Call, tool'[d] = "posting", tool[d] # "posting"
      PROVE  Excused(i, d)' \/ ~Again(i, d)'
  <2> SUFFICES ASSUME Again(i, d)' PROVE Excused(i, d)'
    OBVIOUS
  <2>1. d = c
    BY <1>1, <1>4
  <2>2. reviews[i].commit = target[c] /\ tool'[c] = "posting"
    BY <1>1, <1>4, <2>1 DEF Again
  <2>3. Late(i) \/ Failed(reviews[i].call)
    BY <2>2, ClaimIsExcused
  <2>4. CASE Late(i)
    BY <1>2, <2>4 DEF Excused
  <2>5. CASE Failed(reviews[i].call)
    <3>1. reviews[i].call \in Call /\ tool[reviews[i].call] \in {"posting", "ok", "error"}
      BY StepOfTools DEF OfTarget
    <3>2. ASSUME NEW b \in Call, tool[b] \in {"posting", "ok", "error"}, Failed(b)
          PROVE  call'[b].pc = "failed"
      BY <3>2, FailuresStay DEF ToolsInv, Failed
    <3> QED
      BY <1>1, <2>5, <3>1, <3>2 DEF Excused, Failed
  <2> QED
    BY <2>3, <2>4, <2>5
<1> QED
  BY <1>1, <1>3, <1>4, KeepsRepeat

LEMMA FinishKeepsRepeat ==
  ASSUME ToolsInv, RepeatInv, [MCPNext]_vars, NEW c \in Call, Finish(c)
  PROVE  RepeatInv'
<1>1. /\ tool[c] = "posting" /\ target' = target /\ reviews' = reviews /\ now' = now
      /\ \A d \in Call \ {c} : tool'[d] = tool[d]
      /\ tool'[c] = IF call[c].pc = "posted" THEN "ok" ELSE "error"
  BY DEF Finish, GoTo, serviceVars, ToolsInv, ToolInv
<1>2. CASE call[c].pc # "posted"
  <2>1. postCache' = postCache
    BY <1>2 DEF Finish
  <2> QED
    BY <1>1, <1>2, <2>1, QuietKeepsRepeat
<1>3. CASE call[c].pc = "posted"
  <2> DEFINE new == postCache'
             e0 == Entry(target[c], now + TTL)
  <2>1. /\ e0 \in Entries(new)
        /\ Entries(postCache) \subseteq Entries(new) \/ Cardinality(Keys(postCache)) = MaxEntries
        /\ target[c] \in Commits /\ target[c] \notin Keys(postCache)
    BY <1>3, FinishRemembers DEF ToolsInv
  <2>2. e0.key = target[c] /\ e0.expiry = now + TTL
    BY DEF Entry
  <2>3. Keys(postCache) \subseteq Commits /\ IsFiniteSet(Commits) /\ MaxEntries \in Nat
    BY KeysOfEntries, CommitsFinite, MCPToolsAssumption
    DEF ToolsInv, CacheInv, Commits, ServiceTypeOK
  <2> HIDE DEF new, e0
  <2>4. ASSUME NEW i \in DOMAIN reviews, Late(i) PROVE Late(i)'
    BY <2>4, StepOfTools, LateStays DEF ToolsInv
  <2>5. ASSUME NEW i \in DOMAIN reviews PROVE Remembered(i)'
    <3>0. SUFFICES ASSUME tool'[reviews[i].call] = "ok"
                   PROVE  \/ Late(i)'
                          \/ \E e \in Entries(new) :
                               e.key = reviews[i].commit /\ e.expiry >= acceptedAt[i] + TTL
      BY <1>1, StepOfTools DEF Remembered, new
    <3>1. CASE reviews[i].call = c
      <4>1. reviews[i].commit = target[c]
        BY <3>1, StepOfTools DEF OfTarget
      <4>2. now + TTL >= acceptedAt[i] + TTL
        <5>1. acceptedAt[i] \in Nat /\ now \in Nat /\ TTL \in Nat /\ acceptedAt[i] <= now
          BY StepOfTools, MCPToolsAssumption DEF ToolsInv, TimesInv
        <5> QED
          BY <5>1
      <4> QED
        BY <2>1, <2>2, <4>1, <4>2
    <3>2. CASE reviews[i].call # c
      <4>1. tool[reviews[i].call] = "ok"
        BY <1>1, <3>0, <3>2, StepOfTools
      <4>2. \/ Late(i)
            \/ \E e \in Entries(postCache) :
                 e.key = reviews[i].commit /\ e.expiry >= acceptedAt[i] + TTL
        BY <4>1 DEF RepeatInv, Remembered
      <4>3. ASSUME NEW e \in Entries(postCache), e.key = reviews[i].commit,
                   Cardinality(Keys(postCache)) = MaxEntries
            PROVE  Late(i)
        <5>1. reviews[i].commit \in Keys(postCache)
          BY <4>3, KeysOfEntries
        <5>2. Cardinality(Commits \ {reviews[i].commit}) >= MaxEntries
          BY <2>1, <2>3, <4>3, <5>1, FullOfOthers
        <5> QED
          BY <5>2 DEF Late
      <4> QED
        BY <2>1, <2>4, <4>2, <4>3
    <3> QED
      BY <3>1, <3>2
  <2>6. \A d \in Call : tool'[d] = "posting" => tool[d] = "posting" /\ target'[d] = target[d]
    BY <1>1, <1>3
  <2> QED
    BY <1>1, <2>5, <2>6, KeepsRepeat
<1> QED
  BY <1>2, <1>3

\* A submission on the wire is of a call that still posts, or has failed.
LEMMA WireCalls ==
  ASSUME ToolsInv, NEW m \in wire
  PROVE  /\ m.call \in Call /\ m.commit = target[m.call]
         /\ \A i \in DOMAIN reviews : reviews[i].call # m.call
         /\ tool[m.call] = "posting" \/ Failed(m.call)
         /\ tool[m.call] # "ok"
<1> DEFINE b == m.call
<1>1. b \in Call /\ m.commit = target[b] /\ tool[b] \in {"posting", "ok", "error"}
  BY SubmissionsNameCalls DEF ToolsInv, PostInv, OfTarget
<1>2. \A i \in DOMAIN reviews : reviews[i].call # b
  BY DEF ToolsInv, SubmitInv
<1>3. call[b].pc \in Sent /\ call[b].pc # "posted" /\ Served(b)
  BY <1>1, <1>2 DEF ToolsInv, SubmitInv, PostInv
<1> HIDE DEF b
<1>4. tool[b] # "ok" /\ (tool[b] = "error" => call[b].pc = "failed")
  BY <1>3 DEF Served, Sent, Unposted
<1> QED
  BY <1>1, <1>2, <1>4 DEF Failed, b

LEMMA AcceptKeepsRepeat ==
  ASSUME ToolsInv, RepeatInv, [MCPNext]_vars, NEW m \in wire, Accept(m), GitHub
  PROVE  RepeatInv'
<1> DEFINE b == m.call
<1>0. PICK n : n = Len(reviews) + 1
  OBVIOUS
<1>1. /\ n \in Nat /\ DOMAIN reviews = 1..Len(reviews) /\ DOMAIN reviews' = 1..n
      /\ reviews'[n] = m /\ \A i \in DOMAIN reviews : i < n /\ reviews'[i] = reviews[i]
      /\ \A i \in DOMAIN reviews' : i \in DOMAIN reviews \/ i = n
  BY <1>0, AcceptAppends DEF ToolsInv
<1>2. tool' = tool /\ target' = target /\ postCache' = postCache /\ now' = now /\ call' = call
  BY DEF GitHub, Accept, toolVars
<1>3. acceptedAt'[n] = now
  <2>1. reviews' # reviews
    <3>1. n \in DOMAIN reviews' /\ n \notin DOMAIN reviews
      BY <1>0, <1>1
    <3> QED
      BY <3>1
  <2>2. acceptedAt' = Append(acceptedAt, now) /\ acceptedAt \in Seq(Nat) /\ Len(acceptedAt) + 1 = n
    BY <1>0, <2>1 DEF GitHub, ToolsInv, TimesInv
  <2> QED
    BY <2>2
<1>4. /\ b \in Call /\ m.commit = target[b] /\ \A i \in DOMAIN reviews : reviews[i].call # b
      /\ tool[b] = "posting" \/ Failed(b)
      /\ tool[b] # "ok"
  BY WireCalls
<1>5. ASSUME NEW i \in DOMAIN reviews, Late(i) PROVE Late(i)'
  BY <1>5, StepOfTools, LateStays DEF ToolsInv
<1> HIDE DEF b
<1>6. ASSUME NEW i \in DOMAIN reviews' PROVE Remembered(i)'
  <2>1. CASE i \in DOMAIN reviews
    <3>1. Remembered(i) /\ reviews'[i] = reviews[i] /\ acceptedAt'[i] = acceptedAt[i]
      BY <2>1, StepOfTools DEF RepeatInv
    <3> QED
      BY <1>2, <1>5, <2>1, <3>1 DEF Remembered
  <2>2. CASE i = n
    BY <1>1, <1>2, <1>4, <2>2 DEF Remembered, b
  <2> QED
    BY <1>1, <2>1, <2>2
<1>7. ASSUME NEW i \in DOMAIN reviews', NEW c \in Call, Again(i, c)' PROVE Excused(i, c)'
  <2>1. CASE i \in DOMAIN reviews
    <3>1. Again(i, c) /\ tool[c] = "posting"
      BY <1>1, <1>2, <1>7, <2>1 DEF Again
    <3> QED
      BY <2>1, <3>1, ExcusesStay DEF RepeatInv
  <2>2. CASE i = n
    <3>1. c # b /\ tool[c] = "posting" /\ target[c] = target[b]
      BY <1>1, <1>2, <1>4, <1>7, <2>2 DEF Again, b
    <3>2. Failed(b)
      BY <1>4, <3>1 DEF ToolsInv, ClaimsExact
    <3> QED
      BY <1>1, <1>2, <2>2, <3>2 DEF Excused, Failed, b
  <2> QED
    BY <1>1, <2>1, <2>2
<1>8. ASSUME NEW i \in DOMAIN reviews, reviews[i].commit = m.commit, Suppressed(i, n)'
      PROVE  Failed(reviews[i].call) \/ Failed(b)
  <2>1. ~Late(i)'
    <3>1. {reviews'[k].commit : k \in 1..n} = Commits'
      BY <1>1 DEF Commits
    <3>2. now < acceptedAt'[i] + TTL /\ Cardinality(Commits' \ {reviews'[i].commit}) < MaxEntries
      BY <1>3, <1>8, <3>1 DEF Suppressed
    <3>3. Cardinality(Commits' \ {reviews'[i].commit}) \in Nat
      <4>1. IsFiniteSet(Commits')
        BY StepOfTools, CommitsFinite DEF Commits, ServiceTypeOK
      <4>2. IsFiniteSet(Commits' \ {reviews'[i].commit})
        BY <4>1, FS_Subset
      <4> QED
        BY <4>2, FS_CardinalityType
    <3>4. now' = now /\ now \in Nat /\ acceptedAt'[i] \in Nat
      BY <1>2, StepOfTools
    <3> QED
      BY <3>2, <3>3, <3>4, MCPToolsAssumption DEF Late
  <2>2. Again(i, b) \/ Failed(b)
    BY <1>4, <1>8 DEF Again
  <2>3. Again(i, b) => Late(i) \/ Failed(b) \/ Failed(reviews[i].call)
    BY <1>4 DEF RepeatInv, Excused
  <2> QED
    BY <1>5, <2>1, <2>2, <2>3
<1>9. RepeatsExplained'
  <2> DEFINE Explained(i, j) ==
        /\ i < j /\ reviews[i].commit = reviews[j].commit /\ Suppressed(i, j)
        => "failed" \in {call[reviews[i].call].pc, call[reviews[j].call].pc}
  <2>1. ASSUME NEW i \in DOMAIN reviews', NEW j \in DOMAIN reviews' PROVE Explained(i, j)'
    <3>1. CASE i \in DOMAIN reviews /\ j \in DOMAIN reviews
      BY <3>1, ExplainedStays DEF RepeatInv
    <3>2. CASE i \in DOMAIN reviews /\ j = n
      <4>1. reviews'[i] = reviews[i] /\ reviews'[n] = m
        BY <1>1, <3>2
      <4> QED
        BY <1>2, <1>8, <3>2, <4>1 DEF Failed, b
    <3>3. CASE i = n
      <4>1. ~(i < j)
        BY <1>1, <3>3
      <4> QED
        BY <4>1
    <3> QED
      BY <1>1, <3>1, <3>2, <3>3
  <2> QED
    BY <2>1 DEF RepeatsExplained
<1> QED
  BY <1>6, <1>7, <1>9 DEF RepeatInv

LEMMA ToolsKeepRepeat ==
  ASSUME ToolsInv, RepeatInv, [MCPNext]_vars
  PROVE  RepeatInv'
<1>0. DOMAIN tool = Call /\ DOMAIN target = Call
  BY DEF ToolsInv, ToolInv
<1>1. ASSUME NEW c \in Call, NEW post, CallReview(c, post) PROVE RepeatInv'
  <2>1. /\ tool[c] = "idle" /\ tool'[c] # "posting" /\ reviews' = reviews /\ postCache' = postCache
        /\ \A d \in Call \ {c} : tool'[d] = tool[d] /\ target'[d] = target[d]
    BY <1>0, <1>1 DEF CallReview, GoTo, serviceVars
  <2> QED
    BY <2>1, QuietKeepsRepeat
<1>2. ASSUME NEW c \in Call, NEW h, CallPost(c, h) PROVE RepeatInv'
  <2>1. /\ tool[c] = "idle" /\ tool'[c] # "posting" /\ reviews' = reviews /\ postCache' = postCache
        /\ \A d \in Call \ {c} : tool'[d] = tool[d] /\ target'[d] = target[d]
    BY <1>0, <1>2 DEF CallPost, GoTo, serviceVars
  <2> QED
    BY <2>1, QuietKeepsRepeat
<1>3. ASSUME NEW c \in Call, Locate(c) \/ Acquire(c) \/ Reviewed(c) \/ Verify(c) \/ Abort(c)
      PROVE  RepeatInv'
  <2>1. /\ tool[c] \notin {"posting", "ok", "error"} /\ tool'[c] # "posting"
        /\ reviews' = reviews /\ postCache' = postCache
        /\ \A d \in Call \ {c} : tool'[d] = tool[d] /\ target'[d] = target[d]
    BY <1>0, <1>3 DEF Locate, Acquire, BeginReview, Reviewed, Verify, Abort, GoTo, serviceVars
  <2> QED
    BY <2>1, QuietKeepsRepeat
<1>4. ASSUME NEW c \in Call, Serve(c) PROVE RepeatInv'
  <2>1. reviews' = reviews
    BY <1>4, ServiceMoves DEF Serve, ToolsInv
  <2>2. tool' = tool /\ target' = target /\ postCache' = postCache
    BY <1>4 DEF Serve, toolVars
  <2> QED
    BY <2>1, <2>2, QuietKeepsRepeat
<1>5. ASSUME reviews' = reviews, UNCHANGED <<tool, target, postCache>> PROVE RepeatInv'
  <2>1. ASSUME NEW c \in Call PROVE RepeatInv'
    BY <1>5, QuietKeepsRepeat
  <2>2. CASE Call = {}
    <3>1. DOMAIN reviews' = {}
      BY <1>5, <2>2, StepOfTools
    <3> QED
      BY <3>1 DEF RepeatInv, RepeatsExplained
  <2> QED
    BY <2>1, <2>2
<1>6. CASE GitHub
  <2>1. (\E m \in wire : Accept(m)) \/ reviews' = reviews
    BY <1>6 DEF GitHub, GitHubStep, Push
  <2> QED
    BY <1>5, <1>6, <2>1, AcceptKeepsRepeat DEF GitHub, toolVars
<1>7. CASE Tick \/ UNCHANGED vars
  BY <1>5, <1>7 DEF Tick, vars, serviceVars, toolVars
<1> QED
  BY <1>1, <1>2, <1>3, <1>4, <1>6, <1>7, ClaimKeepsRepeat, FinishKeepsRepeat DEF MCPNext, ToolStep

\* Two reviews of one commit within the lifetime of its entry: one of the two calls
\* failed and gave its claim back, or the cache was crowded out.  Nothing else lets
\* a second review through, however the calls interleave.
THEOREM ToolsRepeatsExplained == MCPSpec => []RepeatsExplained
<1>1. MCPInit => RepeatInv
  BY DEF MCPInit, Init, RepeatInv, RepeatsExplained
<1>2. ToolsInv /\ RepeatInv /\ [MCPNext]_vars => RepeatInv'
  BY ToolsKeepRepeat
<1>3. RepeatInv => RepeatsExplained
  BY DEF RepeatInv
<1> QED
  BY <1>1, <1>2, <1>3, ToolsInvariants, PTL DEF MCPSpec
=============================================================================
