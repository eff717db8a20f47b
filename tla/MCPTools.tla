------------------------------ MODULE MCPTools ------------------------------
(***************************************************************************)
(* PullSageMCPTools (src/src/pullsage/mcp/server.py): the two tools that   *)
(* run or post a review, concurrently, over the review service.  A post is *)
(* claimed before it is sent and remembered after it succeeded.            *)
(***************************************************************************)
EXTENDS ReviewService, ExpiringCache

CONSTANTS AllowWrites,           \* allow_mcp_write_tools
          MaxConcurrentReviews,  \* permits of _review_semaphore
          MaxEntries,            \* _MAX_POST_IDEMPOTENCY_ENTRIES
          TTL,                   \* _POST_IDEMPOTENCY_TTL_SECONDS
          MaxTime                \* bound on the clock

ASSUME MCPToolsAssumption ==
  /\ AllowWrites \in BOOLEAN
  /\ MaxConcurrentReviews \in Nat \ {0}
  /\ MaxEntries \in Nat \ {0}
  /\ TTL \in Nat \ {0}
  /\ MaxTime \in Nat

VARIABLES
  tool,        \* where each tool call is
  target,      \* the head it reviews and posts, NoSha for a dry run
  inFlight,    \* _posts_in_flight
  postCache,   \* _post_cache
  now,         \* time.monotonic()
  acceptedAt   \* history variable: when GitHub accepted each review

toolVars == <<tool, target, inFlight, postCache, now>>
vars     == <<serviceVars, toolVars, acceptedAt>>

-----------------------------------------------------------------------------
(***************************************************************************)
(* review_pull_request is "locating" the head if it is to post, "waiting"  *)
(* for a permit and "reviewing"; post_review is "verifying" the head.      *)
(* Both are then "claiming" the post and "posting".                        *)
(***************************************************************************)
Answers    == {"ok", "duplicate", "error"}
ToolStages == {"idle", "locating", "waiting", "reviewing", "verifying",
               "claiming", "posting"} \cup Answers

MCPInit ==
  /\ Init
  /\ tool = [c \in Call |-> "idle"]
  /\ target = [c \in Call |-> NoSha]
  /\ inFlight = {} /\ postCache = <<>>
  /\ now = 0 /\ acceptedAt = <<>>

GoTo(c, stage) == tool' = [tool EXCEPT ![c] = stage]

\* Posting is refused at once while the write gate is closed.
Allowed(post) == post => AllowWrites

\* pullsage_review_pull_request
CallReview(c, post) ==
  /\ tool[c] = "idle" /\ Allowed(post)
  /\ GoTo(c, IF post THEN "locating" ELSE "waiting")
  /\ UNCHANGED <<serviceVars, target, inFlight, postCache, now, acceptedAt>>

\* get_pull_request: the head that is reviewed and posted.
Locate(c) ==
  /\ tool[c] = "locating"
  /\ GoTo(c, "waiting")
  /\ target' = [target EXCEPT ![c] = Current]
  /\ UNCHANGED <<serviceVars, inFlight, postCache, now, acceptedAt>>

\* A permit of the semaphore is free: the service reviews, without posting.
Acquire(c) ==
  /\ tool[c] = "waiting"
  /\ Cardinality({d \in Call : tool[d] = "reviewing"}) < MaxConcurrentReviews
  /\ BeginReview(c, target[c], FALSE)
  /\ GoTo(c, "reviewing")
  /\ UNCHANGED <<target, inFlight, postCache, now, acceptedAt>>

\* Mutant: the tool answers that it posted, and does not.
Reviewed_SkipsPost(c) ==
  /\ tool[c] = "reviewing" /\ call[c].pc \in Ended
  /\ GoTo(c, IF call[c].pc = "completed" THEN "ok" ELSE "error")
  /\ UNCHANGED <<serviceVars, target, inFlight, postCache, now, acceptedAt>>

\* The service's review ends and the permit is released.
Reviewed(c) ==
  /\ tool[c] = "reviewing" /\ call[c].pc \in Ended
  /\ GoTo(c, IF call[c].pc # "completed" THEN "error"
             ELSE IF target[c] = NoSha THEN "ok" ELSE "claiming")
  /\ UNCHANGED <<serviceVars, target, inFlight, postCache, now, acceptedAt>>

\* pullsage_post_review, for a head that the client has seen.
CallPost(c, h) ==
  /\ tool[c] = "idle" /\ AllowWrites
  /\ GoTo(c, "verifying")
  /\ target' = [target EXCEPT ![c] = h]
  /\ UNCHANGED <<serviceVars, inFlight, postCache, now, acceptedAt>>

\* get_pull_request: the head must be the reviewed one.
Verify(c) ==
  /\ tool[c] = "verifying"
  /\ GoTo(c, IF target[c] = Current THEN "claiming" ELSE "error")
  /\ UNCHANGED <<serviceVars, target, inFlight, postCache, now, acceptedAt>>

\* Mutant: posts that are under way are not looked at.
Claim_ForgetsInFlight(c) ==
  /\ tool[c] = "claiming"
  /\ postCache' = Prune(postCache, now)
  /\ IF target[c] \in Keys(postCache')
       THEN GoTo(c, "duplicate") /\ UNCHANGED <<serviceVars, inFlight>>
       ELSE /\ inFlight' = inFlight \cup {target[c]}
            /\ BeginPost(c, target[c])
            /\ GoTo(c, "posting")
  /\ UNCHANGED <<target, now, acceptedAt>>

\* _claim_post, and the answer "duplicate_review_post" or the post itself.
Claim(c) ==
  /\ tool[c] = "claiming"
  /\ postCache' = Prune(postCache, now)
  /\ IF target[c] \in Keys(postCache') \cup inFlight
       THEN GoTo(c, "duplicate") /\ UNCHANGED <<serviceVars, inFlight>>
       ELSE /\ inFlight' = inFlight \cup {target[c]}
            /\ BeginPost(c, target[c])
            /\ GoTo(c, "posting")
  /\ UNCHANGED <<target, now, acceptedAt>>

\* Mutant: nothing is remembered once the post is out.
Finish_Forgets(c) ==
  /\ tool[c] = "posting" /\ call[c].pc \in Ended
  /\ inFlight' = inFlight \ {target[c]}
  /\ GoTo(c, IF call[c].pc = "posted" THEN "ok" ELSE "error")
  /\ UNCHANGED <<serviceVars, target, postCache, now, acceptedAt>>

\* The service's post ends: _finish_post, in the finally clause.
Finish(c) ==
  /\ tool[c] = "posting" /\ call[c].pc \in Ended
  /\ inFlight' = inFlight \ {target[c]}
  /\ IF call[c].pc = "posted"
       THEN /\ postCache' = Remember(postCache, target[c], now + TTL, MaxEntries)
            /\ GoTo(c, "ok")
       ELSE UNCHANGED postCache /\ GoTo(c, "error")
  /\ UNCHANGED <<serviceVars, target, now, acceptedAt>>

\* GitHub fails or the call is cancelled outside the service.
Abort(c) ==
  /\ tool[c] \in {"locating", "waiting", "verifying", "claiming"}
  /\ GoTo(c, "error")
  /\ UNCHANGED <<serviceVars, target, inFlight, postCache, now, acceptedAt>>

\* The service works on behalf of the tool.
Serve(c) ==
  /\ tool[c] \in {"reviewing", "posting"}
  /\ ServiceStep(c)
  /\ UNCHANGED <<toolVars, acceptedAt>>

\* The head moves, or GitHub processes a submission.
GitHub ==
  /\ GitHubStep
  /\ acceptedAt' = IF reviews' = reviews THEN acceptedAt ELSE Append(acceptedAt, now)
  /\ UNCHANGED toolVars

Tick ==
  /\ now < MaxTime /\ now' = now + 1
  /\ UNCHANGED <<serviceVars, tool, target, inFlight, postCache, acceptedAt>>

-----------------------------------------------------------------------------
ToolStep(c) ==
  \/ Locate(c) \/ Acquire(c) \/ Reviewed(c)
  \/ Verify(c) \/ Claim(c) \/ Finish(c)
  \/ Abort(c) \/ Serve(c)

MCPNext ==
  \/ \E c \in Call, post \in BOOLEAN : CallReview(c, post)
  \/ \E c \in Call, h \in Known : CallPost(c, h)
  \/ \E c \in Call : ToolStep(c)
  \/ GitHub
  \/ Tick

MCPSpec == MCPInit /\ [][MCPNext]_vars

-----------------------------------------------------------------------------
(***************************************************************************)
(* What the tools promise.                                                 *)
(***************************************************************************)
\* A head is in flight exactly while one call posts it, so that two calls never
\* submit reviews of the same head at the same time and no claim is left behind.
ClaimsExact ==
  /\ inFlight = {target[c] : c \in {d \in Call : tool[d] = "posting"}}
  /\ \A c, d \in Call :
       tool[c] = "posting" /\ tool[d] = "posting" /\ target[c] = target[d] => c = d

\* The remembered posts are no more than the cache may hold and in the order in
\* which they expire, none of them is being posted again, and each is of a review
\* on GitHub.
CacheOrderly ==
  /\ Len(postCache) <= MaxEntries /\ Orderly(postCache)
  /\ Keys(postCache) \cap inFlight = {}
  /\ Keys(postCache) \subseteq {reviews[i].commit : i \in DOMAIN reviews}

\* The post of another review of the same commit is refused for TTL.  Entries
\* are lost only if as many other heads as the cache holds were posted.
Suppressed(i, j) ==
  /\ acceptedAt[j] < acceptedAt[i] + TTL
  /\ Cardinality({reviews[k].commit : k \in 1..j} \ {reviews[i].commit}) < MaxEntries

\* Two reviews of one commit within the window: one of the two calls failed to
\* see GitHub's answer, so that its claim was given back.
RepeatsExplained ==
  \A i, j \in DOMAIN reviews :
    /\ i < j /\ reviews[i].commit = reviews[j].commit /\ Suppressed(i, j)
    => "failed" \in {call[reviews[i].call].pc, call[reviews[j].call].pc}

\* docs/mcp-setup.md: "A process-local, bounded TTL cache rejects a second post
\* for the same repository/PR/head with `duplicate_review_post`."
SecondPostRejected ==
  \A i, j \in DOMAIN reviews :
    i < j /\ Suppressed(i, j) => reviews[i].commit # reviews[j].commit

\* The answer of a tool is honest: "ok" to a post means that a review of that
\* very head is on GitHub.
AnswerHonest ==
  \A c \in Call :
    tool[c] = "ok" /\ target[c] # NoSha =>
      \E i \in DOMAIN reviews : reviews[i].call = c /\ reviews[i].commit = target[c]
=============================================================================
