---------------------------- MODULE CodexRunner -----------------------------
(***************************************************************************)
(* CodexRunner (src/src/pullsage/ai/codex_runner.py): one review, in at    *)
(* most two attempts, each a Codex process whose output is drained while   *)
(* it runs and which a timeout or a cancellation kills.                    *)
(*                                                                         *)
(* The process may do anything: write as much as the pipe takes, leave a   *)
(* result file or not, never exit, not even die when it is killed, or      *)
(* leave a descendant that keeps the pipe open.  The prompt is shorter     *)
(* than any pipe, so that writing it never waits; stderr is drained as     *)
(* stdout is.                                                              *)
(***************************************************************************)
EXTENDS Naturals

CONSTANTS
  MaxCapture,  \* _MAX_RESULT_BYTES
  PipeSize,    \* what the pipe holds
  MaxOutput    \* bound on what one process writes

ASSUME CodexRunnerAssumption ==
  MaxCapture \in Nat /\ PipeSize \in Nat \ {0} /\ MaxOutput \in Nat

VARIABLES
  pc,          \* where the review is
  why,         \* the exception that is raised after the process is reaped
  attempt,     \* 0 before the first process
  child,       \* the process of this attempt
  killed,      \* it was sent SIGKILL
  descendant,  \* a process that it left holds the pipe open
  code,        \* its exit code
  written,     \* what it wrote to stdout
  pipe,        \* what of it is not read yet
  reader,      \* the task that drains stdout
  capture,     \* what the task has retained
  file,        \* the result file
  taken        \* the candidate that was parsed last

processVars == <<child, killed, descendant, code>>
streamVars  == <<written, pipe, reader, capture>>
vars == <<pc, why, attempt, processVars, streamVars, file, taken>>

-----------------------------------------------------------------------------
\* A candidate, by the attempt that wrote it; `ok` says that it parses.
Candidate == [by : 1..2, ok : BOOLEAN]
None      == [by |-> 0, ok |-> FALSE]

Ended == {"result", "invalid", "timeout", "runtime_error", "not_found", "cancelled"}

Fresh == [retained |-> 0, truncated |-> FALSE]

Init ==
  /\ pc = "idle" /\ why = "none" /\ attempt = 0
  /\ child = "none" /\ killed = FALSE /\ descendant = FALSE /\ code = 0
  /\ written = 0 /\ pipe = 0 /\ reader = "off" /\ capture = Fresh
  /\ file = None /\ taken = None

\* review: the executable is resolved.
Review(found) ==
  /\ pc = "idle"
  /\ IF found THEN pc' = "starting" /\ attempt' = 1
              ELSE pc' = "not_found" /\ UNCHANGED attempt
  /\ UNCHANGED <<why, processVars, streamVars, file, taken>>

\* _execute: create_subprocess_exec, the readers, and the prompt.
Spawn ==
  /\ pc = "starting" /\ pc' = "waiting"
  /\ child' = "running" /\ killed' = FALSE /\ descendant' = FALSE /\ code' = 0
  /\ written' = 0 /\ pipe' = 0 /\ reader' = "reading" /\ capture' = Fresh
  /\ UNCHANGED <<why, attempt, file, taken>>

SpawnFails ==
  /\ pc = "starting" /\ pc' = "runtime_error"
  /\ UNCHANGED <<why, attempt, processVars, streamVars, file, taken>>

-----------------------------------------------------------------------------
(***************************************************************************)
(* The process.                                                            *)
(***************************************************************************)
Alive == child = "running" /\ ~killed

WriteOutput(n) ==
  /\ Alive /\ pipe + n <= PipeSize /\ written + n <= MaxOutput
  /\ written' = written + n /\ pipe' = pipe + n
  /\ UNCHANGED <<pc, why, attempt, processVars, reader, capture, file, taken>>

WriteResult(ok) ==
  /\ Alive /\ file' = [by |-> attempt, ok |-> ok]
  /\ UNCHANGED <<pc, why, attempt, processVars, streamVars, taken>>

Exit(status, leaves) ==
  /\ Alive
  /\ child' = "exited" /\ code' = status /\ descendant' = leaves
  /\ UNCHANGED <<pc, why, attempt, killed, streamVars, file, taken>>

Die ==
  /\ child = "running" /\ killed
  /\ child' = "exited"
  /\ UNCHANGED <<pc, why, attempt, killed, descendant, code, streamVars, file, taken>>

DescendantEnds ==
  /\ descendant /\ descendant' = FALSE
  /\ UNCHANGED <<pc, why, attempt, child, killed, code, streamVars, file, taken>>

-----------------------------------------------------------------------------
(***************************************************************************)
(* _read_stream_bounded.                                                   *)
(***************************************************************************)
\* Mutant: a full capture counts as truncated.
Keep_FullIsTruncated(c, n) ==
  LET room == MaxCapture - c.retained
  IN [retained  |-> c.retained + IF n < room THEN n ELSE room,
      truncated |-> c.truncated \/ n >= room]

\* A chunk of n arrives.
Keep(c, n) ==
  LET room == MaxCapture - c.retained
  IN [retained  |-> c.retained + IF n < room THEN n ELSE room,
      truncated |-> c.truncated \/ n > room]

Read(n) ==
  /\ reader = "reading" /\ n \in 1..pipe
  /\ pipe' = pipe - n /\ capture' = Keep(capture, n)
  /\ UNCHANGED <<pc, why, attempt, processVars, written, reader, file, taken>>

\* The end of the stream: nobody holds the other end any more.
ReadEnd ==
  /\ reader = "reading" /\ pipe = 0
  /\ child = "exited" /\ ~descendant
  /\ reader' = "ended"
  /\ UNCHANGED <<pc, why, attempt, processVars, written, pipe, capture, file, taken>>

-----------------------------------------------------------------------------
(***************************************************************************)
(* The review.                                                             *)
(***************************************************************************)
\* process.wait() returns.
Waited ==
  /\ pc = "waiting" /\ child = "exited" /\ pc' = "draining"
  /\ UNCHANGED <<why, attempt, processVars, streamVars, file, taken>>

\* _read_candidate: the result file, and without one the output.  A truncated
\* output is marked and does not parse.
IsCandidate(c) ==
  IF file # None THEN c = file
  ELSE c.by = attempt /\ (c.ok => written > 0 /\ ~capture.truncated)

\* Mutant: the result file of the first attempt stays.
Collect_KeepsFile(c) ==
  /\ pc = "draining" /\ reader = "ended" /\ code = 0
  /\ IsCandidate(c) /\ taken' = c
  /\ IF ~c.ok /\ attempt = 1
       THEN pc' = "starting" /\ attempt' = 2
       ELSE pc' = (IF c.ok THEN "result" ELSE "invalid") /\ UNCHANGED attempt
  /\ UNCHANGED <<why, processVars, streamVars, file>>

\* The streams are at their end: the candidate is parsed, and repaired once.
Collect(c) ==
  /\ pc = "draining" /\ reader = "ended" /\ code = 0
  /\ IsCandidate(c) /\ taken' = c
  /\ IF ~c.ok /\ attempt = 1
       THEN pc' = "starting" /\ attempt' = 2 /\ file' = None
       ELSE pc' = (IF c.ok THEN "result" ELSE "invalid") /\ UNCHANGED <<attempt, file>>
  /\ UNCHANGED <<why, processVars, streamVars>>

\* _raise_runtime_error
ExitedWithError ==
  /\ pc = "draining" /\ reader = "ended" /\ code # 0 /\ pc' = "runtime_error"
  /\ UNCHANGED <<why, attempt, processVars, streamVars, file, taken>>

\* Mutant: the readers are awaited and not cancelled.
Abandon_WaitsForReaders(reason) ==
  /\ pc \in {"waiting", "draining"} /\ pc' = "reaping" /\ why' = reason
  /\ killed' = (child = "running")
  /\ UNCHANGED <<attempt, child, descendant, code, streamVars, file, taken>>

\* The readers are cancelled and the process is killed, if it has not exited.
Abandon(reason) ==
  /\ pc \in {"waiting", "draining"} /\ pc' = "reaping" /\ why' = reason
  /\ reader' = "ended"
  /\ killed' = (child = "running")
  /\ UNCHANGED <<attempt, child, descendant, code, written, pipe, capture, file, taken>>

\* asyncio.wait_for: codex_timeout_seconds for exit and streams together.
Timeout == Abandon("timeout")

\* _terminate_process: the process was reaped, or is not within the timeout.
Reaped ==
  /\ pc = "reaping" /\ child = "exited" /\ pc' = "gathering"
  /\ UNCHANGED <<why, attempt, processVars, streamVars, file, taken>>

ReapTimeout ==
  /\ pc = "reaping" /\ child = "running" /\ pc' = "gathering"
  /\ UNCHANGED <<why, attempt, processVars, streamVars, file, taken>>

\* Both readers have ended, and the exception is raised.
Gathered ==
  /\ pc = "gathering" /\ reader = "ended" /\ pc' = why
  /\ UNCHANGED <<why, attempt, processVars, streamVars, file, taken>>

\* Mutant: only a timeout kills.
Cancel_LeavesProcess ==
  /\ pc \in {"starting", "waiting", "draining", "reaping", "gathering"} /\ pc' = "cancelled"
  /\ UNCHANGED <<why, attempt, processVars, streamVars, file, taken>>

\* The task of the review is cancelled.  While a process is being created,
\* asyncio takes it back; in the handlers nothing catches it again.
Cancel ==
  \/ Abandon("cancelled")
  \/ /\ pc \in {"starting", "reaping", "gathering"} /\ pc' = "cancelled"
     /\ UNCHANGED <<why, attempt, processVars, streamVars, file, taken>>

-----------------------------------------------------------------------------
Process ==
  \/ \E n \in 1..PipeSize : WriteOutput(n)
  \/ \E ok \in BOOLEAN : WriteResult(ok)
  \/ \E status \in {0, 1}, leaves \in BOOLEAN : Exit(status, leaves)
  \/ Die \/ DescendantEnds

Start  == Spawn \/ SpawnFails
Drain  == (\E n \in 1..PipeSize : Read(n)) \/ ReadEnd
Finish == Waited \/ ExitedWithError \/ \E c \in Candidate : Collect(c)
Reap   == Reaped \/ ReapTimeout \/ Gathered

Next ==
  \/ \E found \in BOOLEAN : Review(found)
  \/ Process \/ Start \/ Drain \/ Finish \/ Timeout \/ Reap \/ Cancel

Spec == Init /\ [][Next]_vars

-----------------------------------------------------------------------------
(***************************************************************************)
(* What the runner promises.                                               *)
(***************************************************************************)
\* However a review ends, its process has exited or was killed, and a second
\* process is started only after the first has exited.
NothingLeftRunning ==
  /\ pc \in Ended     => child # "running" \/ killed
  /\ pc = "starting" => child # "running"

\* The review ends with what its own last attempt produced: a result that
\* parses, or invalid output, twice.  No attempt is judged by the file that an
\* earlier one has left.
OwnOutput ==
  pc \in {"result", "invalid"} =>
    /\ taken.by = attempt
    /\ taken.ok <=> pc = "result"
    /\ pc = "invalid" => attempt = 2

\* The capture is the longest prefix of the output within the limit, and marked
\* as truncated exactly if it is not the whole, in whatever chunks it arrived.
CaptureExact ==
  LET seen == written - pipe
  IN /\ capture.retained = IF seen < MaxCapture THEN seen ELSE MaxCapture
     /\ capture.truncated <=> seen > MaxCapture
=============================================================================
