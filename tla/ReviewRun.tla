------------------------------ MODULE ReviewRun -----------------------------
(***************************************************************************)
(* One review_pull_request, a dry run (src/src/pullsage/reviews/           *)
(* service.py): what it starts and what becomes of it.  It composes the    *)
(* reads of GitHubClient, two of them concurrent, with the Codex process   *)
(* of CodexRunner.                                                         *)
(*                                                                         *)
(* Anything may fail or be cancelled at any time.  The application closes  *)
(* the client after the queue has stopped, when no review runs.            *)
(***************************************************************************)
EXTENDS GitHubClient, CodexRunner

VARIABLE stage  \* where the coroutine is

runnerVars == vars
runVars    == <<stage, clientVars, runnerVars>>

-----------------------------------------------------------------------------
\* The metadata of the pull request are read three times.
Asking  == {"metadata", "rechecking", "confirming"}
Fetched == {"files", "diff"}
Over    == {"completed", "raised"}

RunInit == stage = "idle" /\ ClientInit /\ Init

Ask(reads) == request' = [r \in Reads |-> IF r \in reads THEN "sending" ELSE request[r]]

AllDone(reads) == \A r \in reads : request[r] = "done"

-----------------------------------------------------------------------------
(***************************************************************************)
(* The coroutine.                                                          *)
(***************************************************************************)
BeginRun ==
  /\ stage = "idle" /\ stage' = "metadata" /\ Ask({"pull"})
  /\ UNCHANGED <<open, bodyVars, listVars, diffVars, runnerVars>>

\* fetch_context: files and diff are gathered.  What GitHub has is settled here,
\* where it begins to matter; the count that it reported before may differ.
Gather(reported, pull) ==
  /\ stage = "metadata" /\ AllDone({"pull"})
  /\ reported <= MaxFiles
  /\ stage' = "fetching" /\ Ask(Fetched)
  /\ total' = pull.files /\ diff' = pull.diff
  /\ page' = 1 /\ listing' = <<>>
  /\ UNCHANGED <<result, open, bodyVars, runnerVars>>

\* TooManyChangedFilesError.
TooMany(reported) ==
  /\ stage = "metadata" /\ AllDone({"pull"})
  /\ reported > MaxFiles
  /\ stage' = "raised"
  /\ UNCHANGED <<clientVars, runnerVars>>

\* _require_expected_head: another head raises StalePullRequestHeadError.
Stale ==
  /\ stage \in Asking /\ AllDone({"pull"})
  /\ stage' = "raised"
  /\ UNCHANGED <<clientVars, runnerVars>>

\* Both have arrived: _assert_current_head.
Recheck ==
  /\ stage = "fetching" /\ AllDone(Fetched)
  /\ stage' = "rechecking" /\ Ask({"pull"})
  /\ UNCHANGED <<open, bodyVars, listVars, diffVars, runnerVars>>

\* The context is built, and Codex is called.
Analyse(found) ==
  /\ stage = "rechecking" /\ AllDone({"pull"})
  /\ stage' = "analysing"
  /\ Forget
  /\ Review(found)

\* Codex has ended with a review: _assert_current_head again.
Confirm ==
  /\ stage = "analysing" /\ pc = "result"
  /\ stage' = "confirming" /\ Ask({"pull"})
  /\ UNCHANGED <<open, bodyVars, listVars, diffVars, runnerVars>>

Complete ==
  /\ stage = "confirming" /\ AllDone({"pull"})
  /\ stage' = "completed"
  /\ UNCHANGED <<clientVars, runnerVars>>

\* A read has raised.  gather() raises at once: the other read goes on, and nobody
\* waits for it.
ReadFails ==
  /\ stage \in Asking \cup {"fetching"}
  /\ \E r \in Reads : request[r] \in Failed
  /\ stage' = "raised"
  /\ UNCHANGED <<clientVars, runnerVars>>

AnalysisFails ==
  /\ stage = "analysing" /\ pc \in Ended \ {"result"}
  /\ stage' = "raised"
  /\ UNCHANGED <<clientVars, runnerVars>>

\* The worker or the tool call is cancelled while the coroutine waits for GitHub;
\* while it waits for Codex, see Cancel.
CancelRun ==
  /\ stage \in Asking \cup {"fetching"}
  /\ IF \E r \in Reads : request[r] \in Busy
       THEN CancelReads /\ UNCHANGED stage
       ELSE stage' = "raised" /\ UNCHANGED clientVars
  /\ UNCHANGED runnerVars

\* The lifespan of the application ends.
EndLifespan ==
  /\ stage \in Over
  /\ CloseClient
  /\ UNCHANGED <<stage, runnerVars>>

-----------------------------------------------------------------------------
Coroutine ==
  \/ \E reported \in 0..MaxFiles + 1 :
       TooMany(reported) \/ \E pull \in Pulls : Gather(reported, pull)
  \/ Stale \/ Recheck
  \/ \E found \in BOOLEAN : Analyse(found)
  \/ Confirm \/ Complete \/ ReadFails \/ AnalysisFails

GitHub(r) == ReadStep(r) /\ UNCHANGED <<stage, runnerVars>>

Elsewhere == UNCHANGED <<stage, clientVars>>

Codex ==
  \/ \E n \in 1..PipeSize : WriteOutput(n) /\ Elsewhere
  \/ \E ok \in BOOLEAN : WriteResult(ok) /\ Elsewhere
  \/ \E status \in {0, 1}, leaves \in BOOLEAN : Exit(status, leaves) /\ Elsewhere
  \/ Die /\ Elsewhere
  \/ DescendantEnds /\ Elsewhere
  \/ Spawn /\ Elsewhere
  \/ SpawnFails /\ Elsewhere
  \/ \E n \in 1..PipeSize : Read(n) /\ Elsewhere
  \/ ReadEnd /\ Elsewhere
  \/ Waited /\ Elsewhere
  \/ ExitedWithError /\ Elsewhere
  \/ \E c \in Candidate : Collect(c) /\ Elsewhere
  \/ Timeout /\ Elsewhere
  \/ Reaped /\ Elsewhere
  \/ ReapTimeout /\ Elsewhere
  \/ Gathered /\ Elsewhere
  \/ Cancel /\ Elsewhere

RunNext ==
  \/ BeginRun \/ Coroutine \/ CancelRun \/ EndLifespan
  \/ \E r \in Reads : GitHub(r)
  \/ Codex

RunSpec == RunInit /\ [][RunNext]_runVars

\* The event loop runs what can run and fires its timers, those of httpx included,
\* so that a read always has a next step; nothing is assumed of the Codex process.
FairRunSpec ==
  /\ RunSpec
  /\ WF_runVars(Coroutine)
  /\ \A r \in Reads : WF_runVars(GitHub(r))
  /\ WF_runVars(Start /\ Elsewhere) /\ WF_runVars(Drain /\ Elsewhere)
  /\ WF_runVars(Finish /\ Elsewhere) /\ WF_runVars(Timeout /\ Elsewhere)
  /\ WF_runVars(Reap /\ Elsewhere)

-----------------------------------------------------------------------------
(***************************************************************************)
(* What a review promises.                                                 *)
(***************************************************************************)
\* A response is open only while its read is under way.  None is while Codex runs,
\* nor when the review has ended, unless it ended because the other one of two
\* gathered reads failed.
ResponsesClosed ==
  /\ \A r \in open : request[r] \in {"reading", "closing"}
  /\ stage \in Asking                        => open \subseteq {"pull"}
  /\ stage = "fetching"                      => open \subseteq Fetched
  /\ stage \in {"analysing", "completed"}    => open = {}
  /\ stage = "raised" /\ open # {}           =>
       \E r \in Fetched : open = Fetched \ {r} /\ request[r] \in Failed

\* A review ends, and the reads it has left behind do, however GitHub answers,
\* whatever fails or is cancelled, and even if the Codex process neither exits
\* nor dies, or a descendant keeps its output open.
RunEnds == stage = "metadata" ~> stage \in Over /\ \A r \in Reads : request[r] \notin Busy
=============================================================================
