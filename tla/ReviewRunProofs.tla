-------------------------- MODULE ReviewRunProofs ---------------------------
(***************************************************************************)
(* Theorems about CodexRunner and about ReviewRun, which composes it with  *)
(* the reads of GitHub, for any limits, page sizes, pull requests, pipes   *)
(* and chunks.                                                             *)
(***************************************************************************)
EXTENDS ReviewRun, SequenceTheorems, FiniteSetTheorems, WellFoundedInduction, TLAPS

-----------------------------------------------------------------------------
(***************************************************************************)
(* The Codex process.  Each safety property has an inductive invariant of  *)
(* its own over the types.                                                 *)
(***************************************************************************)
RunnerTypeOK ==
  /\ pc \in {"idle", "starting", "waiting", "draining", "reaping", "gathering"} \cup Ended
  /\ why \in {"none", "timeout", "cancelled"}
  /\ attempt \in 0..2
  /\ child \in {"none", "running", "exited"}
  /\ killed \in BOOLEAN /\ descendant \in BOOLEAN /\ code \in {0, 1}
  /\ written \in Nat /\ pipe \in 0..written
  /\ reader \in {"off", "reading", "ended"}
  /\ capture \in [retained : Nat, truncated : BOOLEAN]
  /\ file \in Candidate \cup {None} /\ taken \in Candidate \cup {None}
  /\ pc # "idle" /\ pc # "not_found" => attempt \in 1..2
  /\ child = "running" => attempt \in 1..2

\* Where the process is while the review is at a certain place.
ProcessInv ==
  /\ NothingLeftRunning
  /\ pc \in {"idle", "draining"}          => child # "running"
  /\ pc \in {"reaping", "gathering"}      => child # "running" \/ killed
  /\ pc \in {"reaping", "gathering"}      => why \in {"timeout", "cancelled"}

\* The result file, where there is one, is of this attempt.
OutputInv ==
  /\ OwnOutput
  /\ file # None => file.by = attempt
  /\ pc \in {"idle", "starting"} => file = None

-----------------------------------------------------------------------------
LEMMA FreshCapture == Fresh \in [retained : Nat, truncated : BOOLEAN] /\ Fresh.retained = 0
  BY DEF Fresh

LEMMA InitInv == Init => RunnerTypeOK /\ ProcessInv /\ OutputInv /\ CaptureExact
<1> SUFFICES ASSUME Init PROVE RunnerTypeOK /\ ProcessInv /\ OutputInv /\ CaptureExact
  OBVIOUS
<1>1. RunnerTypeOK
  <2>1. pipe \in 0..written /\ written \in Nat
    BY DEF Init
  <2>2. killed \in BOOLEAN /\ descendant \in BOOLEAN /\ code \in {0, 1}
    BY DEF Init
  <2>3. capture \in [retained : Nat, truncated : BOOLEAN]
    BY FreshCapture DEF Init
  <2> QED
    BY <2>1, <2>2, <2>3 DEF Init, RunnerTypeOK, Ended
<1>2. ProcessInv
  BY DEF Init, ProcessInv, NothingLeftRunning, Ended
<1>3. OutputInv
  BY DEF Init, OutputInv, OwnOutput
<1>4. CaptureExact
  BY CodexRunnerAssumption DEF Init, CaptureExact, Fresh
<1> QED
  BY <1>1, <1>2, <1>3, <1>4

\* The capture and the types, step by step; the streams change only in Spawn,
\* WriteOutput, Read, ReadEnd and Abandon.
LEMMA NextKeepsCapture ==
  RunnerTypeOK /\ CaptureExact /\ [Next]_vars => CaptureExact'
<1> SUFFICES ASSUME RunnerTypeOK, CaptureExact, [Next]_vars PROVE CaptureExact'
  OBVIOUS
<1>1. CASE Spawn
  BY <1>1, CodexRunnerAssumption DEF Spawn, Fresh, CaptureExact
<1>2. ASSUME NEW n \in 1..PipeSize, WriteOutput(n) PROVE CaptureExact'
  BY <1>2, CodexRunnerAssumption DEF WriteOutput, CaptureExact, RunnerTypeOK
<1>3. ASSUME NEW n \in 1..PipeSize, Read(n) PROVE CaptureExact'
  <2>1. /\ n \in 1..pipe /\ pipe' = pipe - n /\ written' = written
        /\ capture' = Keep(capture, n)
    BY <1>3 DEF Read
  <2>2. /\ capture'.retained = capture.retained
                                 + IF n < MaxCapture - capture.retained
                                     THEN n ELSE MaxCapture - capture.retained
        /\ capture'.truncated = (capture.truncated \/ n > MaxCapture - capture.retained)
    BY <2>1 DEF Keep
  <2> DEFINE seen == written - pipe
  <2>3. written' - pipe' = seen + n /\ seen \in Nat /\ n \in Nat \ {0}
    BY <2>1, CodexRunnerAssumption DEF RunnerTypeOK
  <2>4. /\ capture.retained = IF seen < MaxCapture THEN seen ELSE MaxCapture
        /\ capture.truncated <=> seen > MaxCapture
    BY DEF CaptureExact
  <2> HIDE DEF seen
  <2>5. capture'.retained = IF seen + n < MaxCapture THEN seen + n ELSE MaxCapture
    BY <2>2, <2>3, <2>4, CodexRunnerAssumption
  <2>6. (n > MaxCapture - capture.retained) <=> (seen + n > MaxCapture)
    BY <2>3, <2>4, CodexRunnerAssumption
  <2>7. seen > MaxCapture => seen + n > MaxCapture
    BY <2>3, CodexRunnerAssumption
  <2>8. capture'.truncated <=> seen + n > MaxCapture
    BY <2>2, <2>4, <2>6, <2>7
  <2> QED
    BY <2>3, <2>5, <2>8 DEF CaptureExact
<1>4. CASE UNCHANGED <<written, pipe, capture>>
  BY <1>4 DEF CaptureExact
<1> QED
  BY <1>1, <1>2, <1>3, <1>4
  DEF Next, vars, streamVars, Process, Start, Drain, Finish, Reap, Timeout, Cancel, Review,
      SpawnFails, WriteResult, Exit, Die, DescendantEnds, ReadEnd, Waited, Collect,
      ExitedWithError, Abandon, Reaped, ReapTimeout, Gathered

-----------------------------------------------------------------------------
LEMMA NextKeepsType ==
  RunnerTypeOK /\ ProcessInv /\ CaptureExact /\ [Next]_vars => RunnerTypeOK'
<1> SUFFICES ASSUME RunnerTypeOK, ProcessInv, CaptureExact, [Next]_vars PROVE RunnerTypeOK'
  OBVIOUS
<1> USE DEF RunnerTypeOK, processVars, streamVars
<1>1. ASSUME NEW found \in BOOLEAN, Review(found) PROVE RunnerTypeOK'
  BY <1>1 DEF Review, ProcessInv, Ended
<1>2. CASE Spawn
  <2>1. pipe' \in 0..written' /\ written' \in Nat
    BY <1>2 DEF Spawn
  <2>2. killed' \in BOOLEAN /\ descendant' \in BOOLEAN /\ code' \in {0, 1}
    BY <1>2 DEF Spawn
  <2>3. capture' \in [retained : Nat, truncated : BOOLEAN]
    BY <1>2, FreshCapture DEF Spawn
  <2> QED
    BY <1>2, <2>1, <2>2, <2>3 DEF Spawn, Ended
<1>3. CASE SpawnFails
  BY <1>3 DEF SpawnFails, Ended
<1>4. ASSUME NEW n \in 1..PipeSize, WriteOutput(n) PROVE RunnerTypeOK'
  <2>1. written' \in Nat /\ pipe' \in 0..written'
    BY <1>4, CodexRunnerAssumption DEF WriteOutput
  <2> QED
    BY <1>4, <2>1 DEF WriteOutput
<1>5. ASSUME NEW ok \in BOOLEAN, WriteResult(ok) PROVE RunnerTypeOK'
  <2>1. file' \in Candidate
    BY <1>5 DEF WriteResult, Alive, Candidate
  <2> QED
    BY <1>5, <2>1 DEF WriteResult
<1>6. ASSUME NEW status \in {0, 1}, NEW leaves \in BOOLEAN, Exit(status, leaves)
      PROVE  RunnerTypeOK'
  BY <1>6 DEF Exit
<1>7. CASE Die \/ DescendantEnds
  BY <1>7 DEF Die, DescendantEnds
<1>8. ASSUME NEW n \in 1..PipeSize, Read(n) PROVE RunnerTypeOK'
  <2>1. pipe' \in 0..written'
    BY <1>8 DEF Read
  <2>2. capture' \in [retained : Nat, truncated : BOOLEAN]
    <3>1. capture.retained <= MaxCapture
      BY CodexRunnerAssumption DEF CaptureExact
    <3>2. capture' = [retained  |-> capture.retained
                                      + IF n < MaxCapture - capture.retained
                                          THEN n ELSE MaxCapture - capture.retained,
                      truncated |-> capture.truncated \/ n > MaxCapture - capture.retained]
      BY <1>8 DEF Read, Keep
    <3>3. capture.retained + (IF n < MaxCapture - capture.retained
                                THEN n ELSE MaxCapture - capture.retained) \in Nat
      BY <3>1, CodexRunnerAssumption
    <3> QED
      BY <3>2, <3>3
  <2> QED
    BY <1>8, <2>1, <2>2 DEF Read
<1>9. CASE ReadEnd
  BY <1>9 DEF ReadEnd
<1>10. CASE Waited \/ ExitedWithError \/ Reaped \/ ReapTimeout
  BY <1>10 DEF Waited, ExitedWithError, Reaped, ReapTimeout, Ended
<1>11. ASSUME NEW c \in Candidate, Collect(c) PROVE RunnerTypeOK'
  BY <1>11 DEF Collect, Ended, None
<1>12. ASSUME NEW reason \in {"timeout", "cancelled"}, Abandon(reason) PROVE RunnerTypeOK'
  BY <1>12 DEF Abandon, Ended
<1>13. CASE Gathered
  BY <1>13 DEF Gathered, ProcessInv, Ended
<1>14. CASE Cancel
  BY <1>12, <1>14 DEF Cancel, Ended
<1>15. CASE UNCHANGED vars
  BY <1>15 DEF vars
<1> QED
  BY <1>1, <1>2, <1>3, <1>4, <1>5, <1>6, <1>7, <1>8, <1>9, <1>10, <1>11, <1>12, <1>13,
     <1>14, <1>15
  DEF Next, Process, Start, Drain, Finish, Reap, Timeout

-----------------------------------------------------------------------------
LEMMA NextKeepsProcess == RunnerTypeOK /\ ProcessInv /\ [Next]_vars => ProcessInv'
<1> SUFFICES ASSUME RunnerTypeOK, ProcessInv, [Next]_vars PROVE ProcessInv'
  OBVIOUS
<1> USE DEF ProcessInv, NothingLeftRunning, Ended, processVars
<1>1. CASE Process
  BY <1>1 DEF Process, WriteOutput, WriteResult, Exit, Die, DescendantEnds, Alive
<1>2. CASE Start \/ \E found \in BOOLEAN : Review(found)
  BY <1>2 DEF Start, Spawn, SpawnFails, Review
<1>3. CASE Drain
  BY <1>3 DEF Drain, Read, ReadEnd
<1>4. CASE Waited \/ ExitedWithError
  BY <1>4 DEF Waited, ExitedWithError
<1>5. ASSUME NEW c \in Candidate, Collect(c) PROVE ProcessInv'
  BY <1>5 DEF Collect
<1>6. ASSUME NEW reason \in {"timeout", "cancelled"}, Abandon(reason) PROVE ProcessInv'
  BY <1>6 DEF Abandon
<1>7. CASE Reap
  BY <1>7 DEF Reap, Reaped, ReapTimeout, Gathered
<1>8. CASE Cancel
  BY <1>6, <1>8 DEF Cancel
<1>9. CASE UNCHANGED vars
  BY <1>9 DEF vars
<1> QED
  BY <1>1, <1>2, <1>3, <1>4, <1>5, <1>6, <1>7, <1>8, <1>9 DEF Next, Finish, Timeout

\* A file is written by a process that lives, and then the review waits for it.
LEMMA AliveIsWaitedFor ==
  RunnerTypeOK /\ ProcessInv /\ Alive => pc = "waiting"
  BY DEF RunnerTypeOK, ProcessInv, NothingLeftRunning, Alive, Ended

LEMMA NextKeepsOutput == RunnerTypeOK /\ ProcessInv /\ OutputInv /\ [Next]_vars => OutputInv'
<1> SUFFICES ASSUME RunnerTypeOK, ProcessInv, OutputInv, [Next]_vars PROVE OutputInv'
  OBVIOUS
<1> USE DEF OutputInv, OwnOutput, Ended
<1>1. ASSUME NEW ok \in BOOLEAN, WriteResult(ok) PROVE OutputInv'
  BY <1>1, AliveIsWaitedFor DEF WriteResult
<1>2. CASE Process /\ file' = file
  BY <1>2 DEF Process, WriteOutput, WriteResult, Exit, Die, DescendantEnds
<1>3. CASE Start \/ \E found \in BOOLEAN : Review(found)
  BY <1>3 DEF Start, Spawn, SpawnFails, Review
<1>4. CASE Drain
  BY <1>4 DEF Drain, Read, ReadEnd
<1>5. CASE Waited \/ ExitedWithError
  BY <1>5 DEF Waited, ExitedWithError
<1>6. ASSUME NEW c \in Candidate, Collect(c) PROVE OutputInv'
  <2>1. c.by = attempt
    BY <1>6 DEF Collect, IsCandidate
  <2>2. CASE ~c.ok /\ attempt = 1
    BY <1>6, <2>2 DEF Collect
  <2>3. CASE ~(~c.ok /\ attempt = 1)
    <3>1. /\ taken' = c /\ attempt' = attempt /\ file' = file
          /\ pc' = IF c.ok THEN "result" ELSE "invalid"
      BY <1>6, <2>3 DEF Collect
    <3>2. attempt \in 1..2
      BY <1>6 DEF Collect, RunnerTypeOK
    <3>3. c.ok <=> pc' = "result"
      BY <3>1
    <3>4. pc' = "invalid" => attempt' = 2
      BY <2>3, <3>1, <3>2
    <3>5. pc' \in {"result", "invalid"}
      BY <3>1
    <3> QED
      BY <2>1, <3>1, <3>3, <3>4, <3>5
  <2> QED
    BY <2>2, <2>3
<1>7. ASSUME NEW reason \in {"timeout", "cancelled"}, Abandon(reason) PROVE OutputInv'
  BY <1>7 DEF Abandon
<1>8. CASE Reap
  BY <1>8 DEF Reap, Reaped, ReapTimeout, Gathered, ProcessInv
<1>9. CASE Cancel
  BY <1>7, <1>9 DEF Cancel
<1>10. CASE UNCHANGED vars
  BY <1>10 DEF vars
<1>11. Process => file' = file \/ \E ok \in BOOLEAN : WriteResult(ok)
  BY DEF Process, WriteOutput, Exit, Die, DescendantEnds
<1> QED
  BY <1>1, <1>2, <1>3, <1>4, <1>5, <1>6, <1>7, <1>8, <1>9, <1>10, <1>11
  DEF Next, Finish, Timeout

-----------------------------------------------------------------------------
LEMMA RunnerInvariant == Spec => [](RunnerTypeOK /\ ProcessInv /\ OutputInv /\ CaptureExact)
<1> DEFINE Inv == RunnerTypeOK /\ ProcessInv /\ OutputInv /\ CaptureExact
<1>1. Init => Inv
  BY InitInv
<1>2. Inv /\ [Next]_vars => Inv'
  BY NextKeepsType, NextKeepsProcess, NextKeepsOutput, NextKeepsCapture
<1> HIDE DEF Inv
<1>3. Spec => []Inv
  BY <1>1, <1>2, PTL DEF Spec
<1> QED
  BY <1>3 DEF Inv

\* However a review ends, its process has exited or was killed, whatever the
\* interleaving of exit, timeout and cancellation.
THEOREM RunnerNothingLeftRunning == Spec => []NothingLeftRunning
<1>1. ProcessInv => NothingLeftRunning
  BY DEF ProcessInv
<1> QED
  BY <1>1, RunnerInvariant, PTL

\* A review is judged by the output of its own last attempt.
THEOREM RunnerOwnOutput == Spec => []OwnOutput
<1>1. OutputInv => OwnOutput
  BY DEF OutputInv
<1> QED
  BY <1>1, RunnerInvariant, PTL

\* The capture is an exact prefix, whatever the limit and the chunks.
THEOREM RunnerCaptureExact == Spec => []CaptureExact
  BY RunnerInvariant, PTL

-----------------------------------------------------------------------------
(***************************************************************************)
(* The reads of GitHub: a run implements the runner, and responses do not  *)
(* stay open.                                                              *)
(***************************************************************************)
RequestState == {"none", "done"} \cup Busy \cup Failed

RunTypeOK ==
  /\ stage \in {"idle", "fetching", "analysing"} \cup Asking \cup Over
  /\ request \in [Reads -> RequestState]
  /\ open \subseteq Reads

\* Which reads can be under way, by the place of the coroutine.
ReadsInv ==
  /\ \A r \in open : request[r] \in {"reading", "closing"}
  /\ stage \notin {"fetching", "raised"}     => \A r \in Fetched : request[r] \in {"none", "done"}
  /\ stage \notin Asking                     => request["pull"] \notin Busy
  /\ stage = "fetching"                      => request["pull"] = "done"
  /\ stage = "raised"                        => \/ \A r \in Reads : request[r] \notin Busy
                                                \/ \E r \in Fetched : request[r] \in Failed

\* The files of the pages before this one.
Before == (page - 1) * PageSize

Endings == {"none", "whole", "cut", "too_large", "failed", "cancelled"}

\* While the loop runs the list is all of them, and they are within the limit.
ListInv ==
  /\ total \in Nat /\ ending \in [Reads -> Endings]
  /\ request["files"] \in Busy =>
       /\ page \in Nat \ {0} /\ listing = [i \in 1..Before |-> i]
       /\ Before <= total /\ Before <= MaxFiles
  /\ FilesWhole

-----------------------------------------------------------------------------
(***************************************************************************)
(* The composition implements the runner.                                  *)
(***************************************************************************)
LEMMA CodexIsRunner == Codex => Next
  BY DEF Codex, Next, Process, Start, Drain, Finish, Reap

LEMMA RunStepIsRunnerStep == [RunNext]_runVars => [Next]_vars
<1> SUFFICES ASSUME [RunNext]_runVars PROVE [Next]_vars
  OBVIOUS
<1>1. CASE \E found \in BOOLEAN : Analyse(found)
  BY <1>1 DEF Analyse, Next
<1>2. CASE Codex
  BY <1>2, CodexIsRunner
<1>3. CASE \E r \in Reads : GitHub(r)
  BY <1>3 DEF GitHub, runnerVars
<1>4. CASE BeginRun \/ CancelRun \/ EndLifespan
  BY <1>4 DEF BeginRun, CancelRun, EndLifespan, runnerVars
<1>5. CASE Coroutine /\ ~\E found \in BOOLEAN : Analyse(found)
  BY <1>5 DEF Coroutine, TooMany, Gather, Stale, Recheck, Confirm, Complete, ReadFails,
              AnalysisFails, runnerVars
<1>6. CASE UNCHANGED runVars
  BY <1>6 DEF runVars, runnerVars
<1> QED
  BY <1>1, <1>2, <1>3, <1>4, <1>5, <1>6 DEF RunNext

\* Every run of a review, with its reads and their failures, is a run of the Codex
\* runner: what it promises holds of the composition.
THEOREM RunImplementsRunner == RunSpec => Spec
<1>1. RunInit => Init
  BY DEF RunInit
<1> QED
  BY <1>1, RunStepIsRunnerStep, PTL DEF RunSpec, Spec

\* However the review ends, its Codex process has exited or was killed.
THEOREM RunNothingLeftRunning == RunSpec => []NothingLeftRunning
  BY RunImplementsRunner, RunnerNothingLeftRunning, PTL

-----------------------------------------------------------------------------
(***************************************************************************)
(* The reads.                                                              *)
(***************************************************************************)
\* A step of the network or the event loop is of a read that is under way, and
\* leaves its response open only if the read goes on.
LEMMA ReadStepEffect ==
  ASSUME NEW r \in Reads, RunTypeOK, ReadsInv, ReadStep(r)
  PROVE  /\ request[r] \in Busy
         /\ open' \subseteq open \cup {r}
         /\ \E v \in RequestState :
              /\ request' = [request EXCEPT ![r] = v]
              /\ r \in open' => v \in {"reading", "closing"}
<1> DEFINE Effect == /\ request[r] \in Busy
                     /\ open' \subseteq open \cup {r}
                     /\ \E v \in RequestState :
                          /\ request' = [request EXCEPT ![r] = v]
                          /\ r \in open' => v \in {"reading", "closing"}
<1> USE DEF RequestState, Busy, Failed
<1>1. ASSUME NEW size, Respond(r, size) PROVE Effect
  BY <1>1 DEF Respond
<1>2. ASSUME NEW n, Receive(r, n) PROVE Effect
  <2>1. request[r] = "reading" /\ open' = open
    BY <1>2 DEF Receive
  <2>2. request' = request \/ request' = [request EXCEPT ![r] = "closing"]
    BY <1>2 DEF Receive, StopReading
  <2> QED
    BY <2>1, <2>2 DEF RunTypeOK
<1>3. ASSUME EndOfBody(r) PROVE Effect
  BY <1>3 DEF EndOfBody, StopReading
<1>4. ASSUME Interrupt(r) PROVE Effect
  BY <1>4 DEF Interrupt, StopReading, ReadsInv
<1>5. ASSUME CloseFailed(r) \/ CloseBad(r) PROVE Effect
  BY <1>5 DEF CloseFailed, CloseBad
<1>6. ASSUME r = "pull", ClosePull PROVE Effect
  BY <1>6 DEF ClosePull, Close
<1>7. ASSUME r = "diff", CloseDiff PROVE Effect
  BY <1>7 DEF CloseDiff, Close
<1>8. ASSUME r = "files", ClosePage PROVE Effect
  <2>1. PICK next \in {"too_many", "done", "sending"} : Close("files", next)
    BY <1>8 DEF ClosePage, AfterPage
  <2> QED
    BY <1>8, <2>1 DEF Close
<1>9. Effect
  <2> HIDE DEF Effect
  <2> QED
    BY <1>1, <1>2, <1>3, <1>4, <1>5, <1>6, <1>7, <1>8 DEF ReadStep
<1> QED
  BY <1>9

LEMMA GitHubKeepsReads ==
  ASSUME NEW r \in Reads, RunTypeOK, ReadsInv, GitHub(r)
  PROVE  RunTypeOK' /\ ReadsInv'
<1>1. /\ request[r] \in Busy /\ open' \subseteq open \cup {r} /\ stage' = stage
      /\ \E v \in RequestState : /\ request' = [request EXCEPT ![r] = v]
                                 /\ r \in open' => v \in {"reading", "closing"}
  BY ReadStepEffect DEF GitHub
<1>2. PICK v \in RequestState : /\ request' = [request EXCEPT ![r] = v]
                                /\ r \in open' => v \in {"reading", "closing"}
  BY <1>1
<1>3. RunTypeOK'
  BY <1>1, <1>2 DEF RunTypeOK
<1>4. \A s \in Reads \ {r} : request'[s] = request[s]
  BY <1>2 DEF RunTypeOK
<1>5. \A s \in open' : request'[s] \in {"reading", "closing"}
  BY <1>1, <1>2, <1>4 DEF RunTypeOK, ReadsInv
<1>6. r # "pull" \/ stage \in Asking
  BY <1>1 DEF ReadsInv
<1>7. r = "pull" \/ stage \in {"fetching", "raised"}
  BY <1>1 DEF ReadsInv, Reads, Fetched, Busy
<1>8. ASSUME stage = "raised" PROVE \E s \in Fetched : request'[s] \in Failed
  <2>1. PICK s \in Fetched : request[s] \in Failed
    BY <1>1, <1>8 DEF ReadsInv
  <2>2. s # r /\ s \in Reads
    BY <1>1, <2>1 DEF Busy, Failed, Fetched, Reads
  <2> QED
    BY <1>4, <2>1, <2>2
<1> QED
  BY <1>1, <1>3, <1>4, <1>5, <1>6, <1>7, <1>8 DEF ReadsInv, Reads, Fetched, Asking

\* What the coroutine changes besides its place: the reads that it begins.
LEMMA AskEffect ==
  ASSUME NEW S \in SUBSET Reads, RunTypeOK, Ask(S)
  PROVE  /\ request' \in [Reads -> RequestState]
         /\ \A r \in S : request'[r] = "sending"
         /\ \A r \in Reads \ S : request'[r] = request[r]
  BY DEF Ask, RunTypeOK, RequestState, Busy

LEMMA InitReads == RunInit => RunTypeOK /\ ReadsInv
  BY DEF RunInit, ClientInit, Idle, RunTypeOK, ReadsInv, RequestState, Reads, Fetched, Asking,
         Busy, Failed

\* A review that raises leaves no read under way, or one beside a read that failed.
LEMMA RaiseKeepsReads ==
  ASSUME RunTypeOK, ReadsInv, stage' = "raised", request' = request, open' = open,
         \/ \A r \in Reads : request[r] \notin Busy
         \/ \E r \in Fetched : request[r] \in Failed
  PROVE  RunTypeOK' /\ ReadsInv'
<1>1. request["pull"] \notin Busy
  BY DEF ReadsInv, Reads, Fetched, Asking, Failed
<1> QED
  BY <1>1 DEF RunTypeOK, ReadsInv, Over, Asking

LEMMA CoroutineKeepsReads == RunTypeOK /\ ReadsInv /\ Coroutine => RunTypeOK' /\ ReadsInv'
<1> SUFFICES ASSUME RunTypeOK, ReadsInv, Coroutine PROVE RunTypeOK' /\ ReadsInv'
  OBVIOUS
<1> USE DEF Reads, Fetched, Asking, Over
<1>1. ASSUME NEW reported, NEW pull, Gather(reported, pull) PROVE RunTypeOK' /\ ReadsInv'
  <2>1. /\ request' \in [Reads -> RequestState] /\ request'["pull"] = request["pull"]
        /\ \A r \in Fetched : request'[r] = "sending"
    BY <1>1, AskEffect DEF Gather
  <2>2. request["pull"] = "done" /\ open = {} /\ open' = open /\ stage' = "fetching"
    BY <1>1 DEF Gather, AllDone, ReadsInv, RunTypeOK
  <2> QED
    BY <2>1, <2>2 DEF RunTypeOK, ReadsInv, Busy
<1>2. CASE Recheck
  <2>1. /\ request' \in [Reads -> RequestState] /\ request'["pull"] = "sending"
        /\ \A r \in Fetched : request'[r] = request[r]
    BY <1>2, AskEffect DEF Recheck
  <2>2. /\ \A r \in Reads : request[r] = "done"
        /\ open = {} /\ open' = open /\ stage' = "rechecking"
    BY <1>2 DEF Recheck, AllDone, ReadsInv, RunTypeOK
  <2> QED
    BY <2>1, <2>2 DEF RunTypeOK, ReadsInv
<1>3. CASE Confirm
  <2>1. /\ request' \in [Reads -> RequestState] /\ request'["pull"] = "sending"
        /\ \A r \in Fetched : request'[r] = request[r]
    BY <1>3, AskEffect DEF Confirm
  <2>2. open = {} /\ open' = open /\ stage = "analysing" /\ stage' = "confirming"
    BY <1>3 DEF Confirm, ReadsInv, RunTypeOK, Busy
  <2> QED
    BY <2>1, <2>2 DEF RunTypeOK, ReadsInv
<1>4. ASSUME NEW found, Analyse(found) PROVE RunTypeOK' /\ ReadsInv'
  <2>1. open = {} /\ open' = open /\ stage' = "analysing"
    BY <1>4 DEF Analyse, Forget, AllDone, ReadsInv, RunTypeOK
  <2>2. request' = [r \in Reads |-> "none"]
    BY <1>4 DEF Analyse, Forget, Idle
  <2> QED
    BY <2>1, <2>2 DEF RunTypeOK, ReadsInv, RequestState, Busy
<1>5. CASE Complete
  <2>1. /\ stage = "confirming" /\ stage' = "completed" /\ request["pull"] = "done"
        /\ request' = request /\ open' = open
    BY <1>5 DEF Complete, AllDone, clientVars
  <2> QED
    BY <2>1 DEF RunTypeOK, ReadsInv, Busy
<1>6. ASSUME NEW reported, TooMany(reported) \/ Stale PROVE RunTypeOK' /\ ReadsInv'
  <2>1. /\ stage \in Asking /\ stage' = "raised" /\ request["pull"] = "done"
        /\ request' = request /\ open' = open
    BY <1>6 DEF TooMany, Stale, AllDone, clientVars
  <2>2. \A r \in Reads : request[r] \notin Busy
    BY <2>1 DEF ReadsInv, Busy
  <2> QED
    BY <2>1, <2>2, RaiseKeepsReads
<1>7. CASE ReadFails
  <2>1. /\ stage \in Asking \cup {"fetching"} /\ stage' = "raised"
        /\ request' = request /\ open' = open
    BY <1>7 DEF ReadFails, clientVars
  <2>2. PICK r \in Reads : request[r] \in Failed
    BY <1>7 DEF ReadFails
  <2>3. CASE r \in Fetched
    BY <2>1, <2>2, <2>3, RaiseKeepsReads
  <2>4. CASE r = "pull"
    <3>1. stage \in Asking
      BY <2>1, <2>2, <2>4 DEF ReadsInv, Failed
    <3>2. \A s \in Reads : request[s] \notin Busy
      BY <2>2, <2>4, <3>1 DEF ReadsInv, Busy, Failed
    <3> QED
      BY <2>1, <3>2, RaiseKeepsReads
  <2> QED
    BY <2>3, <2>4
<1>8. CASE AnalysisFails
  <2>1. /\ stage = "analysing" /\ stage' = "raised" /\ request' = request /\ open' = open
    BY <1>8 DEF AnalysisFails, clientVars
  <2>2. \A r \in Reads : request[r] \notin Busy
    BY <2>1 DEF ReadsInv, Busy
  <2> QED
    BY <2>1, <2>2, RaiseKeepsReads
<1> QED
  BY <1>1, <1>2, <1>3, <1>4, <1>5, <1>6, <1>7, <1>8 DEF Coroutine

LEMMA NextKeepsReads == RunTypeOK /\ ReadsInv /\ [RunNext]_runVars => RunTypeOK' /\ ReadsInv'
<1> SUFFICES ASSUME RunTypeOK, ReadsInv, [RunNext]_runVars PROVE RunTypeOK' /\ ReadsInv'
  OBVIOUS
<1> USE DEF Reads, Fetched, Asking, Over
<1>1. CASE BeginRun
  <2>1. /\ request' \in [Reads -> RequestState] /\ request'["pull"] = "sending"
        /\ \A r \in Fetched : request'[r] = request[r]
    BY <1>1, AskEffect DEF BeginRun
  <2>2. open = {} /\ open' = open /\ stage = "idle" /\ stage' = "metadata"
    BY <1>1 DEF BeginRun, ReadsInv, RunTypeOK, Busy
  <2> QED
    BY <2>1, <2>2 DEF RunTypeOK, ReadsInv
<1>2. CASE Coroutine
  BY <1>2, CoroutineKeepsReads
<1>3. CASE CancelRun
  <2>1. CASE \A r \in Reads : request[r] \notin Busy
    <3>1. stage' = "raised" /\ request' = request /\ open' = open
      BY <1>3, <2>1 DEF CancelRun, clientVars
    <3> QED
      BY <2>1, <3>1, RaiseKeepsReads
  <2>2. CASE \E r \in Reads : request[r] \in Busy
    <3>1. stage' = stage /\ open' = open /\ stage \in Asking \cup {"fetching"}
      BY <1>3, <2>2 DEF CancelRun, CancelReads
    <3>2. request' = [r \in Reads |-> IF request[r] = "sending" THEN "cancelled"
                                      ELSE IF request[r] = "reading" THEN "closing"
                                      ELSE request[r]]
      BY <1>3, <2>2, Zenon DEF CancelRun, CancelReads
    <3> QED
      BY <3>1, <3>2 DEF RunTypeOK, ReadsInv, RequestState, Busy, Failed
  <2> QED
    BY <2>1, <2>2
<1>4. CASE EndLifespan
  <2>1. stage \in Over /\ stage' = stage /\ open' = {}
    BY <1>4 DEF EndLifespan, CloseClient
  <2>2. request' = [r \in Reads |-> IF request[r] \in Busy THEN "failed" ELSE request[r]]
    BY <1>4 DEF EndLifespan, CloseClient
  <2> QED
    BY <2>1, <2>2 DEF RunTypeOK, ReadsInv, RequestState, Busy, Failed
<1>5. ASSUME NEW r \in Reads, GitHub(r) PROVE RunTypeOK' /\ ReadsInv'
  BY <1>5, GitHubKeepsReads
<1>6. CASE Codex \/ UNCHANGED runVars
  <2>1. stage' = stage /\ request' = request /\ open' = open
    BY <1>6 DEF Codex, Elsewhere, runVars, clientVars
  <2> QED
    BY <2>1 DEF RunTypeOK, ReadsInv
<1> QED
  BY <1>1, <1>2, <1>3, <1>4, <1>5, <1>6 DEF RunNext

LEMMA ReadsInvariant == RunSpec => [](RunTypeOK /\ ReadsInv)
  BY InitReads, NextKeepsReads, PTL DEF RunSpec

\* No response stays open behind a review, except beside a read that failed.
THEOREM RunResponsesClosed == RunSpec => []ResponsesClosed
<1>1. RunTypeOK /\ ReadsInv => ResponsesClosed
  <2> SUFFICES ASSUME RunTypeOK, ReadsInv PROVE ResponsesClosed
    OBVIOUS
  <2> USE DEF Reads, Fetched, Asking
  <2>1. \A r \in open : request[r] \in {"reading", "closing"}
    BY DEF ReadsInv
  <2>2. stage \in Asking => open \subseteq {"pull"}
    BY <2>1 DEF ReadsInv, RunTypeOK
  <2>3. stage = "fetching" => open \subseteq Fetched
    BY <2>1 DEF ReadsInv, RunTypeOK
  <2>4. stage \in {"analysing", "completed"} => open = {}
    BY <2>1 DEF ReadsInv, RunTypeOK, Busy
  <2>5. ASSUME stage = "raised", open # {}
        PROVE  \E r \in Fetched : open = Fetched \ {r} /\ request[r] \in Failed
    <3>1. PICK r \in Fetched : request[r] \in Failed
      BY <2>1, <2>5 DEF ReadsInv, RunTypeOK, Busy
    <3>2. open \subseteq Fetched \ {r}
      BY <2>1, <2>5, <3>1 DEF ReadsInv, RunTypeOK, Busy, Failed
    <3> QED
      BY <2>5, <3>1, <3>2
  <2> QED
    BY <2>1, <2>2, <2>3, <2>4, <2>5 DEF ResponsesClosed
<1> QED
  BY <1>1, ReadsInvariant, PTL

-----------------------------------------------------------------------------
(***************************************************************************)
(* The files.                                                              *)
(***************************************************************************)
LEMMA PageSizeType == PageSize \in Nat \ {0}
  BY GitHubClientAssumption DEF PageSize, Smaller

LEMMA FirstNumbers ==
  ASSUME NEW t \in Nat, NEW n \in 0..t
  PROVE  SubSeq([i \in 1..t |-> i], 1, n) = [i \in 1..n |-> i]
<1> DEFINE all == [i \in 1..t |-> i]
<1>1. \A i \in 1..n : all[i] = i /\ i \in Nat
  OBVIOUS
<1>2. [i \in 1..n |-> i] \in Seq(Nat) /\ Len([i \in 1..n |-> i]) = n
  OBVIOUS
<1> HIDE DEF all
<1>3. /\ SubSeq(all, 1, n) \in Seq(Nat) /\ Len(SubSeq(all, 1, n)) = n
      /\ \A i \in 1..n : SubSeq(all, 1, n)[i] = i
  BY <1>1, SubSeqProperties
<1>4. SubSeq(all, 1, n) = [i \in 1..n |-> i]
  BY <1>2, <1>3, SeqEqual
<1> QED
  BY <1>4 DEF all

\* The first a of t numbers, and the next of them up to b, are the first b.
LEMMA NextPageJoins ==
  ASSUME NEW a \in Nat, NEW b \in Nat, NEW t \in Nat, a <= b, b <= t
  PROVE  [i \in 1..a |-> i] \o SubSeq([i \in 1..t |-> i], a + 1, b) = [i \in 1..b |-> i]
<1> DEFINE all == [i \in 1..t |-> i]
<1>1. all \in Seq(Nat) /\ Len(all) = t
  OBVIOUS
<1>2. SubSeq(all, 1, a) = [i \in 1..a |-> i] /\ SubSeq(all, 1, b) = [i \in 1..b |-> i]
  BY FirstNumbers
<1> HIDE DEF all
<1>3. SubSeq(all, 1, a) \o SubSeq(all, a + 1, b) = SubSeq(all, 1, b)
  <2>1. 1 \in 1..Len(all) + 1 /\ a \in 1 - 1..Len(all) /\ b \in a..Len(all)
    BY <1>1
  <2> QED
    BY <1>1, <2>1, ConcatAdjacentSubSeq
<1>4. [i \in 1..a |-> i] \o SubSeq(all, a + 1, b) = [i \in 1..b |-> i]
  BY <1>2, <1>3
<1> QED
  BY <1>4 DEF all

\* A step that leaves the list alone, and its read as it is, under way or failed.
LEMMA ListKept ==
  ASSUME ListInv, UNCHANGED listVars, ending' \in [Reads -> Endings],
         \/ request'["files"] = request["files"]
         \/ request["files"] \in Busy /\ request'["files"] \in Busy
         \/ request'["files"] \notin Busy \cup {"done", "too_many"}
  PROVE  ListInv'
  BY DEF ListInv, FilesWhole, Before, PageSize, listVars, Busy

\* One turn of the loop.
LEMMA ClosePageKeepsList == RunTypeOK /\ ListInv /\ ClosePage => ListInv'
<1> SUFFICES ASSUME RunTypeOK, ListInv, ClosePage PROVE ListInv'
  OBVIOUS
<1> DEFINE size  == PageSize
           a     == Before
           b     == Smaller(a + size, total)
           files == listing \o FilesOf(page)
           next  == AfterPage(files, page)
<1>1. /\ request["files"] = "closing" /\ request' = [request EXCEPT !["files"] = next]
      /\ listing' = IF next = "too_many" THEN listing ELSE files
      /\ page' = IF next = "sending" THEN page + 1 ELSE page
      /\ total' = total /\ ending' = ending
  BY DEF ClosePage, Close, bodyVars
<1>2. /\ page \in Nat \ {0} /\ listing = [i \in 1..a |-> i] /\ a <= total /\ a <= MaxFiles
      /\ total \in Nat /\ ending \in [Reads -> Endings]
  BY <1>1 DEF ListInv, Busy
<1>3. size \in Nat \ {0} /\ MaxFiles \in Nat
  BY PageSizeType, GitHubClientAssumption
<1>4. a \in Nat /\ page * size = a + size
  <2> HIDE DEF size
  <2>1. a = (page - 1) * size
    BY DEF Before, size
  <2>2. page - 1 \in Nat
    BY <1>2
  <2> QED
    BY <1>2, <1>3, <2>1, <2>2
<1>5. /\ b \in Nat /\ a <= b /\ b <= total
      /\ IF a + size < total THEN b = a + size ELSE b = total
  <2> HIDE DEF size, a
  <2> QED
    BY <1>2, <1>3, <1>4 DEF Smaller
<1>6. FilesOf(page) = SubSeq([i \in 1..total |-> i], a + 1, b)
  BY <1>4 DEF FilesOf, Before
<1>7. files = [i \in 1..b |-> i]
  <2> HIDE DEF a, b
  <2> QED
    BY <1>2, <1>4, <1>5, <1>6, NextPageJoins
<1>8. Len(files) = b /\ Len(FilesOf(page)) = b - a
  <2> HIDE DEF a, b, files
  <2>1. [i \in 1..total |-> i] \in Seq(Nat) /\ Len([i \in 1..total |-> i]) = total
    BY <1>2
  <2> QED
    BY <1>2, <1>4, <1>5, <1>6, <1>7, <2>1
<1>9. HasNext(page) <=> a + size < total
  BY <1>4 DEF HasNext
<1> HIDE DEF next
<1>10. request'["files"] = next
  BY <1>1 DEF RunTypeOK, Reads
<1>11. \/ next = "too_many" /\ b > MaxFiles
       \/ next = "done" /\ ~(b > MaxFiles) /\ (b - a < size \/ ~HasNext(page))
       \/ next = "sending" /\ ~(b > MaxFiles) /\ ~(b - a < size) /\ HasNext(page)
  <2> HIDE DEF b, a, files
  <2> QED
    BY <1>8 DEF next, AfterPage
<1> HIDE DEF a, b, files, size
<1>12. CASE next = "too_many"
  <2>1. total > MaxFiles
    BY <1>2, <1>3, <1>5, <1>11, <1>12
  <2> QED
    BY <1>1, <1>2, <1>10, <1>12, <2>1 DEF ListInv, FilesWhole, Busy
<1>13. CASE next = "done"
  <2>1. b = total /\ total <= MaxFiles
    BY <1>2, <1>3, <1>4, <1>5, <1>9, <1>11, <1>13
  <2> QED
    BY <1>1, <1>2, <1>7, <1>10, <1>13, <2>1 DEF ListInv, FilesWhole, Busy
<1>14. CASE next = "sending"
  <2>1. b = a + size /\ b <= total /\ b <= MaxFiles
    BY <1>2, <1>3, <1>4, <1>5, <1>9, <1>11, <1>14
  <2>2. page' = page + 1 /\ listing' = files
    BY <1>1, <1>14
  <2>3. Before' = b
    BY <1>2, <1>4, <2>1, <2>2 DEF Before, PageSize, size
  <2> QED
    BY <1>1, <1>2, <1>7, <1>10, <1>14, <2>1, <2>2, <2>3 DEF ListInv, FilesWhole, Busy
<1> QED
  BY <1>11, <1>12, <1>13, <1>14

\* Every other step of a read.
LEMMA ReadStepKeepsList ==
  ASSUME NEW r \in Reads, RunTypeOK, ReadsInv, ListInv, ReadStep(r)
  PROVE  ListInv'
<1> USE DEF Reads
<1>1. ASSUME NEW size, Respond(r, size) PROVE ListInv'
  <2>1. UNCHANGED listVars /\ ending' = ending
    BY <1>1 DEF Respond
  <2>2. \/ request'["files"] = request["files"]
        \/ request["files"] \in Busy /\ request'["files"] \in Busy
    BY <1>1 DEF Respond, RunTypeOK, Busy
  <2> QED
    BY <2>1, <2>2, ListKept DEF ListInv
<1>2. ASSUME NEW n, Receive(r, n) PROVE ListInv'
  <2>1. UNCHANGED listVars /\ ending' \in [Reads -> Endings]
    BY <1>2 DEF Receive, StopReading, ListInv, Endings
  <2>2. \/ request'["files"] = request["files"]
        \/ request["files"] \in Busy /\ request'["files"] \in Busy
    BY <1>2 DEF Receive, StopReading, RunTypeOK, Busy
  <2> QED
    BY <2>1, <2>2, ListKept
<1>3. ASSUME EndOfBody(r) \/ Interrupt(r) PROVE ListInv'
  <2>1. UNCHANGED listVars /\ ending' \in [Reads -> Endings]
    BY <1>3 DEF EndOfBody, Interrupt, StopReading, bodyVars, ListInv, Endings
  <2>2. \/ request'["files"] = request["files"]
        \/ request["files"] \in Busy /\ request'["files"] \in Busy
        \/ request'["files"] = "failed"
    BY <1>3 DEF EndOfBody, Interrupt, StopReading, RunTypeOK, Busy
  <2> QED
    BY <2>1, <2>2, ListKept DEF Busy
<1>4. ASSUME CloseFailed(r) PROVE ListInv'
  <2>1. UNCHANGED listVars /\ ending' = ending
    BY <1>4 DEF CloseFailed, bodyVars
  <2>2. \/ request'["files"] = request["files"]
        \/ request'["files"] = ending["files"] /\ ending["files"] \in Failed
    BY <1>4 DEF CloseFailed, RunTypeOK
  <2>3. ending["files"] \in Failed => ending["files"] \notin Busy \cup {"done", "too_many"}
    BY DEF ListInv, Endings, Failed, Busy
  <2> QED
    BY <2>1, <2>2, <2>3, ListKept DEF ListInv
<1>5. ASSUME CloseBad(r) PROVE ListInv'
  <2>1. UNCHANGED listVars /\ ending' = ending
    BY <1>5 DEF CloseBad, bodyVars
  <2>2. request'["files"] = request["files"] \/ request'["files"] = "failed"
    BY <1>5 DEF CloseBad, RunTypeOK
  <2> QED
    BY <2>1, <2>2, ListKept DEF ListInv, Busy
<1>6. ASSUME ClosePull \/ CloseDiff PROVE ListInv'
  <2>1. UNCHANGED listVars /\ ending' = ending
    BY <1>6 DEF ClosePull, CloseDiff, Close, bodyVars
  <2>2. request'["files"] = request["files"]
    BY <1>6 DEF ClosePull, CloseDiff, Close, RunTypeOK
  <2> QED
    BY <2>1, <2>2, ListKept DEF ListInv
<1>7. CASE ClosePage
  BY <1>7, ClosePageKeepsList
<1> HIDE DEF Reads
<1> QED
  BY <1>1, <1>2, <1>3, <1>4, <1>5, <1>6, <1>7 DEF ReadStep

LEMMA InitList == RunInit => ListInv
  BY DEF RunInit, ClientInit, Idle, ListInv, FilesWhole, Reads, Busy, Endings

LEMMA NextKeepsList ==
  RunTypeOK /\ ReadsInv /\ ListInv /\ [RunNext]_runVars => ListInv'
<1> SUFFICES ASSUME RunTypeOK, ReadsInv, ListInv, [RunNext]_runVars PROVE ListInv'
  OBVIOUS
<1>1. CASE BeginRun \/ Recheck \/ Confirm
  <2>1. UNCHANGED listVars /\ ending' = ending
    BY <1>1 DEF BeginRun, Recheck, Confirm, bodyVars
  <2>2. request'["files"] = request["files"]
    BY <1>1 DEF BeginRun, Recheck, Confirm, Ask, Reads
  <2> QED
    BY <2>1, <2>2, ListKept DEF ListInv
<1>2. ASSUME NEW reported, NEW pull \in Pulls, Gather(reported, pull) PROVE ListInv'
  <2>1. /\ total' = pull.files /\ page' = 1 /\ listing' = <<>> /\ ending' = ending
        /\ request'["files"] = "sending"
    BY <1>2 DEF Gather, Ask, Fetched, Reads, bodyVars
  <2>2. total' \in Nat /\ MaxFiles \in Nat
    BY <2>1, GitHubClientAssumption
  <2>3. Before' = 0
    BY <2>1, PageSizeType DEF Before, PageSize
  <2>4. listing' = [i \in 1..0 |-> i]
    BY <2>1
  <2> QED
    BY <2>1, <2>2, <2>3, <2>4 DEF ListInv, FilesWhole, Busy
<1>3. ASSUME NEW found, Analyse(found) PROVE ListInv'
  BY <1>3 DEF Analyse, Forget, Idle, ListInv, FilesWhole, Reads, Busy, Endings
<1>4. ASSUME NEW reported,
             TooMany(reported) \/ Stale \/ Complete \/ ReadFails \/ AnalysisFails
      PROVE  ListInv'
  <2>1. UNCHANGED <<listVars, ending, request>>
    BY <1>4 DEF TooMany, Stale, Complete, ReadFails, AnalysisFails, clientVars, bodyVars
  <2> QED
    BY <2>1, ListKept DEF ListInv
<1>5. CASE CancelRun
  <2>1. CASE UNCHANGED clientVars
    BY <2>1, ListKept DEF clientVars, bodyVars, ListInv
  <2>2. CASE CancelReads
    <3>1. UNCHANGED listVars /\ ending' \in [Reads -> Endings]
      BY <2>2 DEF CancelReads, ListInv, Endings
    <3>2. \/ request'["files"] = request["files"]
          \/ request["files"] = "sending" /\ request'["files"] = "cancelled"
          \/ request["files"] = "reading" /\ request'["files"] = "closing"
      BY <2>2 DEF CancelReads, Reads
    <3> QED
      BY <3>1, <3>2, ListKept DEF Busy
  <2> QED
    BY <1>5, <2>1, <2>2 DEF CancelRun
<1>6. CASE EndLifespan
  <2>1. UNCHANGED listVars /\ ending' = ending
    BY <1>6 DEF EndLifespan, CloseClient, bodyVars
  <2>2. request'["files"] = request["files"] \/ request'["files"] = "failed"
    BY <1>6 DEF EndLifespan, CloseClient, Reads
  <2> QED
    BY <2>1, <2>2, ListKept DEF ListInv, Busy
<1>7. ASSUME NEW r \in Reads, GitHub(r) PROVE ListInv'
  BY <1>7, ReadStepKeepsList DEF GitHub
<1>8. CASE Codex \/ UNCHANGED runVars
  <2>1. UNCHANGED clientVars
    BY <1>8 DEF Codex, Elsewhere, runVars
  <2> QED
    BY <2>1, ListKept DEF clientVars, bodyVars, ListInv
<1> QED
  BY <1>1, <1>2, <1>3, <1>4, <1>5, <1>6, <1>7, <1>8 DEF RunNext, Coroutine

\* For any limit, page size and number of files, the list that is returned is
\* whole, and one is refused only for being longer than the limit.
THEOREM RunFilesWhole == RunSpec => []FilesWhole
<1> DEFINE Inv == RunTypeOK /\ ReadsInv /\ ListInv
<1>1. RunInit => Inv
  BY InitReads, InitList
<1>2. Inv /\ [RunNext]_runVars => Inv'
  BY NextKeepsReads, NextKeepsList
<1>3. Inv => FilesWhole
  BY DEF ListInv
<1> HIDE DEF Inv
<1> QED
  BY <1>1, <1>2, <1>3, PTL DEF RunSpec

-----------------------------------------------------------------------------
(***************************************************************************)
(* The diff: what its first characters weigh, and what cutting its bytes   *)
(* leaves of it.                                                           *)
(***************************************************************************)
Char == {"narrow", "wide", "newline"}

Wide(chars) == {i \in DOMAIN chars : chars[i] = "wide"}

\* A set of numbers has a smallest, and one with a bound a greatest.
LEMMA SmallestOf ==
  ASSUME NEW S, S \subseteq Nat, S # {}
  PROVE  \E n \in S : \A m \in S : n <= m
<1>1. \E R : IsWellFoundedOn(R, Nat) /\ \A x, y \in Nat : x < y => <<x, y>> \in R
  <2>1. \A x, y \in Nat : x < y => <<x, y>> \in OpToRel(<, Nat)
    BY DEF OpToRel
  <2> QED
    BY <2>1, NatLessThanWellFounded, Zenon
<1>2. PICK R : IsWellFoundedOn(R, Nat) /\ \A x, y \in Nat : x < y => <<x, y>> \in R
  BY <1>1
<1>3. IsWellFoundedOn(R, Nat)
  BY <1>2
<1>4. \E n \in S : \A m \in S : ~(<<m, n>> \in R)
  BY <1>3, WFMin
<1>5. PICK n \in S : \A m \in S : ~(<<m, n>> \in R)
  BY <1>4
<1>6. \A m \in S : ~(m < n)
  BY <1>2, <1>5, Zenon
<1> QED
  BY <1>6

LEMMA GreatestOf ==
  ASSUME NEW bound \in Nat, NEW S, S \subseteq 0..bound, S # {}
  PROVE  \E n \in S : \A m \in S : m <= n
<1> DEFINE T == {bound - m : m \in S}
<1>1. T \subseteq Nat /\ T # {}
  <2>1. \A m \in S : bound - m \in Nat
    OBVIOUS
  <2> QED
    BY <2>1
<1>2. PICK t \in T : \A u \in T : t <= u
  <2> HIDE DEF T
  <2> QED
    BY <1>1, SmallestOf
<1>3. PICK n \in S : t = bound - n
  BY <1>2
<1>4. \A m \in S : m \in 0..bound /\ bound - n <= bound - m
  BY <1>2, <1>3
<1> QED
  BY <1>3, <1>4

\* values[:n] of a sequence.
LEMMA FirstOfProperties ==
  ASSUME NEW S, NEW s \in Seq(S), NEW n \in Nat
  PROVE  /\ FirstOf(s, n) \in Seq(S)
         /\ Len(FirstOf(s, n)) = Smaller(n, Len(s))
         /\ \A i \in 1..Smaller(n, Len(s)) : FirstOf(s, n)[i] = s[i]
         /\ n >= Len(s) => FirstOf(s, n) = s
<1> DEFINE k == Smaller(n, Len(s))
<1>1. Len(s) \in Nat /\ k \in 0..Len(s) /\ \A i \in 1..Len(s) : s[i] \in S
  BY DEF Smaller
<1>2. n >= Len(s) => k = Len(s)
  BY DEF Smaller
<1> HIDE DEF k
<1>3. \A i \in 1..k : s[i] \in S
  BY <1>1
<1>4. /\ SubSeq(s, 1, k) \in Seq(S) /\ Len(SubSeq(s, 1, k)) = k
      /\ \A i \in 1..k : SubSeq(s, 1, k)[i] = s[i]
  BY <1>1, <1>3, SubSeqProperties
<1>5. k = Len(s) => SubSeq(s, 1, k) = s
  BY <1>4, SeqEqual
<1> QED
  BY <1>2, <1>4, <1>5 DEF FirstOf, k

LEMMA FirstOfAll ==
  ASSUME NEW S, NEW s \in Seq(S)
  PROVE  Len(s) \in Nat /\ FirstOf(s, Len(s)) = s
<1>1. Len(s) \in Nat /\ Len(s) >= Len(s)
  OBVIOUS
<1> QED
  BY <1>1, FirstOfProperties

\* Cutting twice is cutting once, at the nearer place.
LEMMA FirstOfFirst ==
  ASSUME NEW S, NEW s \in Seq(S), NEW m \in Nat, NEW n \in Nat, m <= n
  PROVE  FirstOf(FirstOf(s, n), m) = FirstOf(s, m)
<1> DEFINE t == FirstOf(s, n)
           u == FirstOf(t, m)
           v == FirstOf(s, m)
<1>1. /\ t \in Seq(S) /\ Len(t) = Smaller(n, Len(s))
      /\ \A i \in 1..Smaller(n, Len(s)) : t[i] = s[i]
  BY FirstOfProperties
<1>2. /\ v \in Seq(S) /\ Len(v) = Smaller(m, Len(s))
      /\ \A i \in 1..Smaller(m, Len(s)) : v[i] = s[i]
  BY FirstOfProperties
<1> HIDE DEF t, v
<1>3. /\ u \in Seq(S) /\ Len(u) = Smaller(m, Len(t))
      /\ \A i \in 1..Smaller(m, Len(t)) : u[i] = t[i]
  BY <1>1, FirstOfProperties
<1>4. Smaller(m, Len(t)) = Smaller(m, Len(s)) /\ Smaller(m, Len(s)) <= Smaller(n, Len(s))
  BY <1>1 DEF Smaller
<1> HIDE DEF u
<1>5. \A i \in 1..Smaller(m, Len(s)) : u[i] = v[i]
  <2>1. \A i \in 1..Smaller(m, Len(s)) : i \in 1..Smaller(n, Len(s))
    BY <1>4 DEF Smaller
  <2> QED
    BY <1>1, <1>2, <1>3, <1>4, <2>1
<1>6. u = v
  BY <1>2, <1>3, <1>4, <1>5, SeqEqual
<1> QED
  BY <1>6 DEF t, u, v

\* A beginning of a text weighs its length and three more for each wide character
\* in it.
LEMMA BytesOfFirst ==
  ASSUME NEW s \in Seq(Char), NEW k \in 0..Len(s)
  PROVE  /\ Bytes(FirstOf(s, k)) = k + 3 * Cardinality(Wide(s) \cap 1..k)
         /\ Cardinality(Wide(s) \cap 1..k) \in 0..k
<1>1. Len(FirstOf(s, k)) = k /\ \A i \in 1..k : FirstOf(s, k)[i] = s[i]
  BY FirstOfProperties DEF Smaller
<1>2. DOMAIN FirstOf(s, k) = 1..k /\ DOMAIN s = 1..Len(s)
  BY <1>1, FirstOfProperties
<1>3. {i \in DOMAIN FirstOf(s, k) : FirstOf(s, k)[i] = "wide"} = Wide(s) \cap 1..k
  BY <1>1, <1>2 DEF Wide
<1>4. IsFiniteSet(1..k) /\ Cardinality(1..k) = k
  BY FS_Interval
<1>5. IsFiniteSet(Wide(s) \cap 1..k) /\ Cardinality(Wide(s) \cap 1..k) <= k
  BY <1>4, FS_Subset
<1>6. Cardinality(Wide(s) \cap 1..k) \in Nat
  BY <1>5, FS_CardinalityType
<1>7. Bytes(FirstOf(s, k)) = k + 3 * Cardinality(Wide(s) \cap 1..k)
  BY <1>1, <1>3 DEF Bytes
<1>8. \A c \in Nat : c <= k => c \in 0..k
  OBVIOUS
<1> QED
  BY <1>5, <1>6, <1>7, <1>8

\* A longer beginning weighs more; no character weighs more than four bytes.
LEMMA BytesGrow ==
  ASSUME NEW s \in Seq(Char), NEW k \in 0..Len(s), NEW m \in 0..Len(s), k <= m
  PROVE  /\ Bytes(FirstOf(s, k)) \in Nat /\ Bytes(FirstOf(s, m)) \in Nat
         /\ Bytes(FirstOf(s, k)) + (m - k) <= Bytes(FirstOf(s, m))
         /\ Bytes(FirstOf(s, k)) <= 4 * k
<1> DEFINE a == Cardinality(Wide(s) \cap 1..k)
           b == Cardinality(Wide(s) \cap 1..m)
<1>1. Bytes(FirstOf(s, k)) = k + 3 * a /\ a \in 0..k
  BY BytesOfFirst
<1>2. Bytes(FirstOf(s, m)) = m + 3 * b /\ b \in 0..m
  BY BytesOfFirst
<1>3. a <= b
  <2>1. IsFiniteSet(1..m)
    BY FS_Interval
  <2>2. IsFiniteSet(Wide(s) \cap 1..m)
    BY <2>1, FS_Subset
  <2>3. Wide(s) \cap 1..k \subseteq Wide(s) \cap 1..m
    OBVIOUS
  <2> QED
    BY <2>2, <2>3, FS_Subset
<1> HIDE DEF a, b
<1> QED
  BY <1>1, <1>2, <1>3

\* The newline that rfind finds.
LEMMA LastNewlineFound ==
  ASSUME NEW S, NEW s \in Seq(S)
  PROVE  /\ LastNewline(s) \in 0..Len(s)
         /\ LastNewline(s) # 0 => s[LastNewline(s)] = "newline"
<1> DEFINE Newlines == {i \in DOMAIN s : s[i] = "newline"}
<1>1. CASE Newlines = {}
  BY <1>1 DEF LastNewline
<1>2. CASE Newlines # {}
  <2>1. Newlines \subseteq 0..Len(s) /\ Len(s) \in Nat
    OBVIOUS
  <2>2. LastNewline(s) = CHOOSE i \in Newlines : \A k \in Newlines : k <= i
    BY <1>2 DEF LastNewline
  <2>3. \E i \in Newlines : \A k \in Newlines : k <= i
    <3> HIDE DEF Newlines
    <3> QED
      BY <1>2, <2>1, GreatestOf
  <2>4. LastNewline(s) \in Newlines
    <3> HIDE DEF Newlines
    <3> QED
      BY <2>2, <2>3, Zenon
  <2> QED
    BY <2>1, <2>4
<1> QED
  BY <1>1, <1>2

\* Where the whole characters end among the first n bytes.
LEMMA CutExists ==
  ASSUME NEW s \in Seq(Char), NEW n \in Nat
  PROVE  \E k \in 0..Len(s) : /\ Bytes(FirstOf(s, k)) <= n
                              /\ k = Len(s) \/ Bytes(FirstOf(s, k + 1)) > n
<1> DEFINE Fits(k) == Bytes(FirstOf(s, k)) <= n
           Cuts    == {k \in 0..Len(s) : Fits(k)}
<1>1. Len(s) \in Nat /\ 0 \in 0..Len(s)
  OBVIOUS
<1>2. 0 \in Cuts
  <2>1. Bytes(FirstOf(s, 0)) \in Nat /\ Bytes(FirstOf(s, 0)) <= 4 * 0
    BY <1>1, BytesGrow
  <2> QED
    BY <1>1, <2>1
<1>3. PICK k \in Cuts : \A m \in Cuts : m <= k
  <2>1. Cuts \subseteq 0..Len(s)
    OBVIOUS
  <2> HIDE DEF Cuts
  <2> QED
    BY <1>1, <1>2, <2>1, GreatestOf
<1>4. CASE k = Len(s)
  BY <1>3, <1>4
<1>5. CASE k # Len(s)
  <2>1. k \in 0..Len(s) /\ k + 1 \in 0..Len(s) /\ ~(k + 1 <= k)
    BY <1>1, <1>5
  <2>2. k + 1 \notin Cuts
    <3> HIDE DEF Cuts
    <3> QED
      BY <1>3, <2>1
  <2>3. ~(Bytes(FirstOf(s, k + 1)) <= n)
    BY <2>1, <2>2
  <2>4. Bytes(FirstOf(s, k + 1)) \in Nat
    BY <2>1, BytesGrow
  <2>5. Bytes(FirstOf(s, k + 1)) > n
    BY <2>3, <2>4
  <2>6. Bytes(FirstOf(s, k)) <= n
    OBVIOUS
  <2> QED
    BY <2>1, <2>5, <2>6
<1> QED
  BY <1>4, <1>5

\* All the bytes decode to the text; fewer, to a proper beginning of it with
\* perhaps one more character, that stands for the one that was cut.
LEMMA DecodedWhole ==
  ASSUME diff \in Seq(Char)
  PROVE  Decoded(Bytes(diff)) = diff
<1> DEFINE n == Bytes(diff)
           Cut(k) == /\ Bytes(FirstOf(diff, k)) <= n
                     /\ k = Len(diff) \/ Bytes(FirstOf(diff, k + 1)) > n
           length == CHOOSE k \in 0..Len(diff) : Cut(k)
<1>1. Len(diff) \in Nat /\ FirstOf(diff, Len(diff)) = diff
  BY FirstOfAll
<1>2. n \in Nat
  BY <1>1, BytesGrow
<1>3. length \in 0..Len(diff) /\ Cut(length)
  BY <1>2, CutExists
<1> HIDE DEF length
<1>4. length = Len(diff)
  <2> SUFFICES ASSUME length # Len(diff) PROVE FALSE
    OBVIOUS
  <2>1. length + 1 \in 0..Len(diff) /\ Len(diff) \in 0..Len(diff) /\ length + 1 <= Len(diff)
    BY <1>1, <1>3
  <2>2. /\ Bytes(FirstOf(diff, length + 1)) \in Nat
        /\ Bytes(FirstOf(diff, length + 1)) + (Len(diff) - (length + 1)) <= n
    BY <1>1, <2>1, BytesGrow
  <2> QED
    BY <1>1, <1>2, <1>3, <2>1, <2>2
<1>5. Decoded(n) = IF Bytes(FirstOf(diff, length)) = n THEN FirstOf(diff, length)
                   ELSE Append(FirstOf(diff, length), "replacement")
  BY DEF Decoded, length
<1> QED
  BY <1>1, <1>4, <1>5

LEMMA DecodedCut ==
  ASSUME diff \in Seq(Char), NEW n \in Nat, Bytes(diff) > n
  PROVE  \E k \in Nat :
           /\ k < Len(diff) /\ 4 * (k + 1) > n
           /\ Decoded(n) \in {FirstOf(diff, k), Append(FirstOf(diff, k), "replacement")}
<1> DEFINE Cut(k) == /\ Bytes(FirstOf(diff, k)) <= n
                     /\ k = Len(diff) \/ Bytes(FirstOf(diff, k + 1)) > n
           length == CHOOSE k \in 0..Len(diff) : Cut(k)
<1>1. Len(diff) \in Nat /\ FirstOf(diff, Len(diff)) = diff
  BY FirstOfAll
<1>2. length \in 0..Len(diff) /\ Cut(length)
  BY CutExists
<1>3. Decoded(n) = IF Bytes(FirstOf(diff, length)) = n THEN FirstOf(diff, length)
                   ELSE Append(FirstOf(diff, length), "replacement")
  BY DEF Decoded, length
<1> HIDE DEF length
<1>4. Bytes(diff) \in Nat
  BY <1>1, BytesGrow
<1>5. length # Len(diff)
  BY <1>1, <1>2, <1>4
<1>6. length + 1 \in 0..Len(diff) /\ length < Len(diff) /\ length \in Nat
  BY <1>1, <1>2, <1>5
<1>7. /\ Bytes(FirstOf(diff, length + 1)) \in Nat
      /\ Bytes(FirstOf(diff, length + 1)) <= 4 * (length + 1)
      /\ Bytes(FirstOf(diff, length + 1)) > n
  BY <1>2, <1>5, <1>6, BytesGrow
<1>8. 4 * (length + 1) > n
  BY <1>6, <1>7
<1> QED
  BY <1>3, <1>6, <1>8

\* What DiffKept says of a result.
Kept(r) ==
  LET content == r.content
      left    == FirstOf(diff, MaxChars)
  IN /\ content = FirstOf(diff, Len(content)) /\ Len(content) <= MaxChars
     /\ r.truncated <=> content # diff
     /\ r.truncated <=> r.length > MaxChars
     /\ r.length <= Len(diff) + 1
     /\ r.truncated =>
          /\ Len(content) > Threshold
          /\ \/ content[Len(content)] = "newline"
             \/ content = left /\ LastNewline(left) <= Threshold

LEMMA DiffKeptSays == DiffKept <=> (request["diff"] = "done" => Kept(result))
  BY DEF DiffKept, Kept

LEMMA ThresholdBelow == Threshold \in Nat /\ Threshold < MaxChars
  BY GitHubClientAssumption DEF Threshold

\* A text that is cut at the budget, or at its last line there if that is close.
LEMMA CutTextKept ==
  ASSUME diff \in Seq(Char), Len(diff) > MaxChars, NEW r,
         NEW left, left = FirstOf(diff, MaxChars),
         r.content = IF LastNewline(left) > Threshold
                       THEN FirstOf(left, LastNewline(left)) ELSE left,
         r.length \in Nat, r.length > MaxChars, r.length <= Len(diff) + 1, r.truncated = TRUE
  PROVE  Kept(r)
<1> DEFINE line == LastNewline(left)
           content == r.content
<1>1. MaxChars \in Nat /\ Threshold \in Nat /\ Threshold < MaxChars /\ Len(diff) \in Nat
  BY GitHubClientAssumption, ThresholdBelow
<1>2. left \in Seq(Char) /\ Len(left) = MaxChars
  BY <1>1, FirstOfProperties DEF Smaller
<1>3. line \in 0..MaxChars /\ (line # 0 => left[line] = "newline")
  BY <1>2, LastNewlineFound
<1> HIDE DEF line
<1>4. \E n \in Nat : /\ content = FirstOf(diff, n) /\ n <= MaxChars /\ n > Threshold
                     /\ \/ content[n] = "newline"
                        \/ content = left /\ line <= Threshold
  <2>1. CASE line > Threshold
    <3>1. line \in Nat /\ line <= MaxChars /\ line \in 1..MaxChars
      BY <1>1, <1>3, <2>1
    <3>2. content = FirstOf(left, line) /\ FirstOf(left, line) = FirstOf(diff, line)
      BY <1>1, <2>1, <3>1, FirstOfFirst DEF line
    <3>3. content[line] = left[line]
      <4>1. line \in 1..Smaller(line, Len(left))
        BY <1>2, <3>1 DEF Smaller
      <4>2. \A i \in 1..Smaller(line, Len(left)) : FirstOf(left, line)[i] = left[i]
        BY <1>2, <3>1, FirstOfProperties
      <4> QED
        BY <3>2, <4>1, <4>2
    <3> QED
      BY <1>3, <2>1, <3>1, <3>2, <3>3
  <2>2. CASE ~(line > Threshold)
    <3>1. content = left /\ line <= Threshold
      BY <1>1, <1>3, <2>2 DEF line
    <3> QED
      BY <1>1, <3>1
  <2> QED
    BY <2>1, <2>2
<1>5. PICK n \in Nat : /\ content = FirstOf(diff, n) /\ n <= MaxChars /\ n > Threshold
                       /\ \/ content[n] = "newline"
                          \/ content = left /\ line <= Threshold
  BY <1>4
<1>6. Len(content) = n
  BY <1>1, <1>5, FirstOfProperties DEF Smaller
<1>7. content # diff
  BY <1>1, <1>5, <1>6
<1> QED
  BY <1>5, <1>6, <1>7 DEF Kept, line

LEMMA WholeKept ==
  ASSUME diff \in Seq(Char)
  PROVE  Kept(Bounded(Decoded(Bytes(diff)), FALSE))
<1> DEFINE r == Bounded(diff, FALSE)
<1> HIDE DEF r
<1>1. MaxChars \in Nat /\ Len(diff) \in Nat
  BY GitHubClientAssumption
<1>2. ASSUME Len(diff) <= MaxChars PROVE Kept(r)
  <2>1. r = [content |-> diff, length |-> Len(diff), truncated |-> FALSE]
    BY <1>2 DEF Bounded, r
  <2>2. /\ r.content = diff /\ r.length = Len(diff) /\ r.truncated = FALSE
    BY <2>1
  <2> QED
    BY <1>1, <1>2, <2>2, FirstOfAll DEF Kept
<1>3. ASSUME ~(Len(diff) <= MaxChars) PROVE Kept(r)
  <2> DEFINE left == FirstOf(diff, MaxChars)
  <2>1. r = [content   |-> IF LastNewline(left) > Threshold
                             THEN FirstOf(left, LastNewline(left)) ELSE left,
             length    |-> Len(diff),
             truncated |-> TRUE]
    BY <1>3 DEF Bounded, r
  <2>2. /\ r.content = IF LastNewline(left) > Threshold
                         THEN FirstOf(left, LastNewline(left)) ELSE left
        /\ r.length = Len(diff) /\ r.truncated = TRUE
    BY <2>1
  <2>3. Len(diff) > MaxChars /\ Len(diff) <= Len(diff) + 1
    BY <1>1, <1>3
  <2> HIDE DEF left
  <2>4. left = FirstOf(diff, MaxChars)
    BY DEF left
  <2> QED
    BY <1>1, <2>2, <2>3, <2>4, CutTextKept
<1>4. Kept(r)
  BY <1>2, <1>3
<1> QED
  BY <1>4, DecodedWhole DEF r

\* The bytes that are kept of a diff that is cut hold more characters than the
\* budget, so that the character that was cut is not among those that are left.
LEMMA CutKept ==
  ASSUME diff \in Seq(Char), Bytes(diff) > (MaxChars + 1) * 4
  PROVE  Kept(Bounded(Decoded((MaxChars + 1) * 4), TRUE))
<1> DEFINE n    == (MaxChars + 1) * 4
           text == Decoded(n)
           r    == Bounded(text, TRUE)
<1>1. MaxChars \in Nat /\ n \in Nat /\ Len(diff) \in Nat
  BY GitHubClientAssumption
<1>2. PICK k \in Nat :
        /\ k < Len(diff) /\ 4 * (k + 1) > n
        /\ text \in {FirstOf(diff, k), Append(FirstOf(diff, k), "replacement")}
  <2> HIDE DEF text
  <2>1. Bytes(diff) > n
    OBVIOUS
  <2> HIDE DEF n
  <2> QED
    BY <1>1, <2>1, DecodedCut DEF text
<1>3. k > MaxChars
  BY <1>1, <1>2
<1> HIDE DEF text, n
<1> DEFINE begin == FirstOf(diff, k)
           S     == Char \cup {"replacement"}
<1>4. begin \in Seq(Char) /\ Len(begin) = k
  BY <1>1, <1>2, FirstOfProperties DEF Smaller
<1>5. begin \in Seq(S) /\ Append(begin, "replacement") \in Seq(S)
  <2>1. begin \in Seq(S)
    BY <1>4, SeqMonotonic
  <2> HIDE DEF begin
  <2> QED
    BY <2>1
<1>6. /\ text \in Seq(S) /\ Len(text) \in {k, k + 1}
      /\ \A i \in 1..k : text[i] = begin[i]
  <2> HIDE DEF begin
  <2>1. text \in {begin, Append(begin, "replacement")}
    BY <1>2 DEF begin
  <2>2. CASE text = begin
    BY <1>4, <1>5, <2>2
  <2>3. CASE text = Append(begin, "replacement")
    <3>1. /\ Len(text) = k + 1
          /\ \A i \in 1..k : text[i] = begin[i]
      BY <1>4, <2>3
    <3> QED
      BY <1>5, <2>3, <3>1
  <2> QED
    BY <2>1, <2>2, <2>3
<1>7. FirstOf(text, MaxChars) = FirstOf(diff, MaxChars)
  <2> DEFINE a == FirstOf(text, MaxChars)
             b == FirstOf(begin, MaxChars)
  <2>1. a \in Seq(S) /\ Len(a) = MaxChars /\ \A i \in 1..MaxChars : a[i] = text[i]
    BY <1>1, <1>3, <1>6, FirstOfProperties DEF Smaller
  <2>2. b \in Seq(S) /\ Len(b) = MaxChars /\ \A i \in 1..MaxChars : b[i] = begin[i]
    BY <1>1, <1>3, <1>4, <1>5, FirstOfProperties DEF Smaller
  <2>3. \A i \in 1..MaxChars : text[i] = begin[i]
    BY <1>1, <1>3, <1>6
  <2> HIDE DEF a, b, begin, S
  <2>4. a = b
    BY <1>1, <2>1, <2>2, <2>3, SeqEqual
  <2>5. b = FirstOf(diff, MaxChars)
    BY <1>1, <1>3, FirstOfFirst DEF b, begin
  <2> QED
    BY <2>4, <2>5 DEF a
<1> DEFINE left == FirstOf(diff, MaxChars)
<1>8. /\ Larger(Len(text) + 1, MaxChars + 1) = Len(text) + 1
      /\ Len(text) + 1 > MaxChars /\ Len(text) + 1 <= Len(diff) + 1
  BY <1>1, <1>2, <1>3, <1>6 DEF Larger
<1>9. ~(Larger(Len(text) + 1, MaxChars + 1) <= MaxChars)
  BY <1>1, <1>6, <1>8
<1>10. r = [content   |-> IF LastNewline(left) > Threshold
                            THEN FirstOf(left, LastNewline(left)) ELSE left,
            length    |-> Len(text) + 1,
            truncated |-> TRUE]
  BY <1>7, <1>8, <1>9 DEF Bounded
<1> HIDE DEF r
<1>11. /\ r.content = IF LastNewline(left) > Threshold
                        THEN FirstOf(left, LastNewline(left)) ELSE left
       /\ r.length = Len(text) + 1 /\ r.truncated = TRUE
  BY <1>10
<1>12. left = FirstOf(diff, MaxChars) /\ Len(diff) > MaxChars
  BY <1>1, <1>2, <1>3
<1> HIDE DEF left
<1>13. r.length \in Nat
  BY <1>6, <1>11
<1>14. Kept(r)
  BY <1>8, <1>11, <1>12, <1>13, CutTextKept
<1> QED
  BY <1>14 DEF r, text, n

\* The bytes of the diff that are kept while its response is read, and after.
DiffInv ==
  /\ diff \in Seq(Char) /\ kept \in [Reads -> Nat] /\ unsent \in [Reads -> Nat]
  /\ request["diff"] = "reading" =>
       /\ kept["diff"] + unsent["diff"] = Bytes(diff)
       /\ kept["diff"] <= Ceiling("diff")
  /\ request["diff"] = "closing" =>
       /\ ending["diff"] \in {"whole", "cut"} \cup Failed
       /\ ending["diff"] = "whole" => kept["diff"] = Bytes(diff)
       /\ ending["diff"] = "cut" => /\ kept["diff"] = Ceiling("diff")
                                    /\ Bytes(diff) > Ceiling("diff")
  /\ DiffKept

LEMMA BytesType ==
  ASSUME NEW s \in Seq(Char)
  PROVE  Bytes(s) \in Nat
<1>1. Len(s) \in 0..Len(s) /\ FirstOf(s, Len(s)) = s
  BY FirstOfAll
<1> QED
  BY <1>1, BytesGrow

LEMMA CeilingOfDiff == Ceiling("diff") = (MaxChars + 1) * 4 /\ Ceiling("diff") \in Nat
  BY GitHubClientAssumption DEF Ceiling

LEMMA CeilingType ==
  ASSUME NEW r \in Reads
  PROVE  Ceiling(r) \in Nat
  BY GitHubClientAssumption DEF Ceiling

\* A step that leaves the read of the diff alone, or begins or fails it.
LEMMA DiffUntouched ==
  ASSUME DiffInv, UNCHANGED <<diff, result>>,
         kept' \in [Reads -> Nat], unsent' \in [Reads -> Nat],
         \/ /\ request'["diff"] = request["diff"] /\ ending'["diff"] = ending["diff"]
            /\ kept'["diff"] = kept["diff"] /\ unsent'["diff"] = unsent["diff"]
         \/ request'["diff"] \notin {"reading", "closing", "done"}
         \/ request'["diff"] = "closing" /\ ending'["diff"] \in Failed
  PROVE  DiffInv'
<1>1. DiffKept'
  BY DEF DiffInv, DiffKept
<1> QED
  BY <1>1 DEF DiffInv, Failed, Ceiling

LEMMA ReceiveKeepsDiff ==
  ASSUME NEW r \in Reads, NEW n \in Chunks, RunTypeOK, ListInv, DiffInv, Receive(r, n)
  PROVE  DiffInv'
<1> DEFINE chunk == Smaller(n, unsent[r])
<1>1. n \in Nat /\ Ceiling(r) \in Nat
  BY GitHubClientAssumption, CeilingType
<1>2. kept[r] \in Nat /\ unsent[r] \in Nat
  BY DEF DiffInv
<1>3. chunk \in Nat /\ chunk <= unsent[r]
  BY <1>1, <1>2 DEF Smaller
<1>4. /\ unsent' = [unsent EXCEPT ![r] = unsent[r] - chunk]
      /\ kept' = [kept EXCEPT ![r] = Smaller(kept[r] + chunk, Ceiling(r))]
      /\ UNCHANGED <<diff, result>>
      /\ request[r] = "reading"
      /\ IF kept[r] + chunk <= Ceiling(r)
           THEN UNCHANGED <<request, ending>>
           ELSE StopReading(r, IF r = "diff" THEN "cut" ELSE "too_large")
  BY DEF Receive, diffVars
<1> HIDE DEF chunk
<1>5. Smaller(kept[r] + chunk, Ceiling(r)) \in Nat /\ unsent[r] - chunk \in Nat
  BY <1>1, <1>2, <1>3 DEF Smaller
<1>6. kept' \in [Reads -> Nat] /\ unsent' \in [Reads -> Nat]
  BY <1>4, <1>5 DEF DiffInv
<1>7. CASE r # "diff"
  <2>1. request'["diff"] = request["diff"] /\ ending'["diff"] = ending["diff"]
    BY <1>4, <1>7 DEF StopReading, RunTypeOK, ListInv, Reads
  <2>2. kept'["diff"] = kept["diff"] /\ unsent'["diff"] = unsent["diff"]
    BY <1>4, <1>7 DEF DiffInv, Reads
  <2> QED
    BY <1>4, <1>6, <2>1, <2>2, DiffUntouched
<1>8. CASE r = "diff"
  <2>1. /\ kept'["diff"] = Smaller(kept["diff"] + chunk, Ceiling("diff"))
        /\ unsent'["diff"] = unsent["diff"] - chunk
    BY <1>4, <1>8 DEF DiffInv, Reads
  <2>2. kept["diff"] + unsent["diff"] = Bytes(diff) /\ Bytes(diff) \in Nat
    BY <1>4, <1>8, BytesType DEF DiffInv
  <2>3. CASE kept[r] + chunk <= Ceiling(r)
    <3>1. request'["diff"] = "reading"
      BY <1>4, <1>8, <2>3
    <3>2. kept'["diff"] = kept["diff"] + chunk
      BY <1>1, <1>2, <1>3, <1>8, <2>1, <2>3 DEF Smaller
    <3>3. /\ kept'["diff"] + unsent'["diff"] = Bytes(diff)
          /\ kept'["diff"] <= Ceiling("diff")
      BY <1>2, <1>3, <1>8, <2>1, <2>2, <2>3, <3>2
    <3> QED
      BY <1>4, <1>6, <3>1, <3>3 DEF DiffInv, DiffKept, Ceiling
  <2>4. CASE ~(kept[r] + chunk <= Ceiling(r))
    <3>1. request'["diff"] = "closing" /\ ending'["diff"] = "cut"
      BY <1>4, <1>8, <2>4 DEF StopReading, RunTypeOK, ListInv, Reads
    <3>2. kept'["diff"] = Ceiling("diff")
      BY <1>1, <1>2, <1>3, <1>8, <2>1, <2>4 DEF Smaller
    <3>3. Bytes(diff) > Ceiling("diff")
      BY <1>1, <1>2, <1>3, <1>8, <2>2, <2>4
    <3> QED
      BY <1>4, <1>6, <3>1, <3>2, <3>3 DEF DiffInv, DiffKept, Ceiling, Failed
  <2> QED
    BY <2>3, <2>4
<1> QED
  BY <1>7, <1>8

\* The step that a result is made in.
LEMMA CloseDiffKeepsDiff ==
  ASSUME RunTypeOK, DiffInv, CloseDiff
  PROVE  DiffInv'
<1>1. /\ request["diff"] = "closing" /\ ending["diff"] \notin Failed
      /\ request' = [request EXCEPT !["diff"] = "done"]
      /\ UNCHANGED <<unsent, kept, ending, diff>>
      /\ result' = Bounded(Decoded(kept["diff"]), ending["diff"] = "cut")
  BY DEF CloseDiff, Close, bodyVars
<1>2. request'["diff"] = "done"
  BY <1>1 DEF RunTypeOK, Reads
<1>3. Kept(result')
  <2>1. CASE ending["diff"] = "whole"
    <3>1. result' = Bounded(Decoded(Bytes(diff)), FALSE)
      BY <1>1, <2>1 DEF DiffInv
    <3> QED
      BY <3>1, WholeKept DEF DiffInv
  <2>2. CASE ending["diff"] = "cut"
    <3>1. result' = Bounded(Decoded((MaxChars + 1) * 4), TRUE)
      BY <1>1, <2>2, CeilingOfDiff DEF DiffInv
    <3>2. Bytes(diff) > (MaxChars + 1) * 4
      BY <1>1, <2>2, CeilingOfDiff DEF DiffInv
    <3> QED
      BY <3>1, <3>2, CutKept DEF DiffInv
  <2> QED
    BY <1>1, <2>1, <2>2 DEF DiffInv
<1>4. DiffKept'
  BY <1>1, <1>3 DEF DiffKept, Kept
<1> QED
  BY <1>1, <1>2, <1>4 DEF DiffInv

LEMMA ReadStepKeepsDiff ==
  ASSUME NEW r \in Reads, RunTypeOK, ListInv, DiffInv, ReadStep(r)
  PROVE  DiffInv'
<1>1. ASSUME NEW size \in SizesOf(r), Respond(r, size) PROVE DiffInv'
  <2>1. size \in Nat
    BY GitHubClientAssumption, BytesType DEF SizesOf, DiffInv
  <2>2. /\ request[r] = "sending" /\ request' = [request EXCEPT ![r] = "reading"]
        /\ unsent' = [unsent EXCEPT ![r] = size] /\ kept' = [kept EXCEPT ![r] = 0]
        /\ UNCHANGED <<ending, diff, result>>
    BY <1>1 DEF Respond, diffVars
  <2>3. kept' \in [Reads -> Nat] /\ unsent' \in [Reads -> Nat]
    BY <2>1, <2>2 DEF DiffInv
  <2>4. CASE r # "diff"
    BY <2>2, <2>3, <2>4, DiffUntouched DEF RunTypeOK, DiffInv, Reads
  <2>5. CASE r = "diff"
    <3>1. size = Bytes(diff)
      BY <1>1, <2>5 DEF SizesOf
    <3>2. request'["diff"] = "reading" /\ kept'["diff"] = 0 /\ unsent'["diff"] = Bytes(diff)
      BY <2>2, <2>5, <3>1 DEF RunTypeOK, DiffInv, Reads
    <3>3. kept'["diff"] + unsent'["diff"] = Bytes(diff) /\ kept'["diff"] <= Ceiling("diff")
      BY <2>1, <3>1, <3>2, CeilingOfDiff
    <3> QED
      BY <2>2, <2>3, <3>2, <3>3 DEF DiffInv, DiffKept, Ceiling
  <2> QED
    BY <2>4, <2>5
<1>2. ASSUME NEW n \in Chunks, Receive(r, n) PROVE DiffInv'
  BY <1>2, ReceiveKeepsDiff
<1>3. CASE EndOfBody(r)
  <2>1. /\ request[r] = "reading" /\ unsent[r] = 0
        /\ request' = [request EXCEPT ![r] = "closing"]
        /\ ending' = [ending EXCEPT ![r] = "whole"]
        /\ UNCHANGED <<unsent, kept, diff, result>>
    BY <1>3 DEF EndOfBody, StopReading, diffVars
  <2>2. CASE r # "diff"
    BY <2>1, <2>2, DiffUntouched DEF RunTypeOK, ListInv, DiffInv, Reads
  <2>3. CASE r = "diff"
    <3>1. request'["diff"] = "closing" /\ ending'["diff"] = "whole"
      BY <2>1, <2>3 DEF RunTypeOK, ListInv, Reads
    <3>2. kept["diff"] = Bytes(diff)
      BY <2>1, <2>3 DEF DiffInv, Reads
    <3> QED
      BY <2>1, <3>1, <3>2 DEF DiffInv, DiffKept
  <2> QED
    BY <2>2, <2>3
<1>4. CASE Interrupt(r)
  <2>1. UNCHANGED <<unsent, kept, diff, result>>
    BY <1>4 DEF Interrupt, bodyVars, diffVars
  <2>2. CASE r # "diff"
    <3>1. request'["diff"] = request["diff"] /\ ending'["diff"] = ending["diff"]
      BY <1>4, <2>2 DEF Interrupt, StopReading, bodyVars, RunTypeOK, ListInv, Reads
    <3> QED
      BY <2>1, <3>1, DiffUntouched DEF DiffInv
  <2>3. CASE r = "diff"
    <3>1. \/ request'["diff"] = "failed"
          \/ request'["diff"] = "closing" /\ ending'["diff"] = "failed"
      BY <1>4, <2>3 DEF Interrupt, StopReading, RunTypeOK, ListInv, Reads
    <3> QED
      BY <2>1, <3>1, DiffUntouched DEF DiffInv, Failed
  <2> QED
    BY <2>2, <2>3
<1>5. CASE CloseFailed(r) \/ CloseBad(r)
  <2>1. UNCHANGED <<unsent, kept, ending, diff, result>>
    BY <1>5 DEF CloseFailed, CloseBad, bodyVars, diffVars
  <2>2. request'["diff"] = request["diff"] \/ request'["diff"] \in Failed
    <3>1. \E v \in Failed : request' = [request EXCEPT ![r] = v]
      BY <1>5 DEF CloseFailed, CloseBad, Failed
    <3> QED
      BY <3>1 DEF RunTypeOK, Reads
  <2> QED
    BY <2>1, <2>2, DiffUntouched DEF DiffInv, Failed
<1>6. CASE ClosePull \/ ClosePage
  <2>1. UNCHANGED <<unsent, kept, ending, diff, result>>
    BY <1>6 DEF ClosePull, ClosePage, Close, bodyVars, diffVars
  <2>2. request'["diff"] = request["diff"]
    <3>1. \E s \in {"pull", "files"} : \E v : request' = [request EXCEPT ![s] = v]
      BY <1>6 DEF ClosePull, ClosePage, Close
    <3> QED
      BY <3>1 DEF RunTypeOK, Reads
  <2> QED
    BY <2>1, <2>2, DiffUntouched DEF DiffInv
<1>7. CASE CloseDiff
  BY <1>7, CloseDiffKeepsDiff
<1> QED
  BY <1>1, <1>2, <1>3, <1>4, <1>5, <1>6, <1>7 DEF ReadStep

LEMMA InitDiff == RunInit => DiffInv
<1> SUFFICES ASSUME RunInit PROVE DiffInv
  OBVIOUS
<1>1. /\ diff = <<>> /\ request = [r \in Reads |-> "none"]
      /\ kept = [r \in Reads |-> 0] /\ unsent = [r \in Reads |-> 0]
  BY DEF RunInit, ClientInit, Idle
<1>2. request["diff"] = "none"
  BY <1>1 DEF Reads
<1>3. kept \in [Reads -> Nat] /\ unsent \in [Reads -> Nat] /\ diff \in Seq(Char)
  BY <1>1
<1> QED
  BY <1>2, <1>3 DEF DiffInv, DiffKept

LEMMA NextKeepsDiff ==
  RunTypeOK /\ ListInv /\ DiffInv /\ [RunNext]_runVars => DiffInv'
<1> SUFFICES ASSUME RunTypeOK, ListInv, DiffInv, [RunNext]_runVars PROVE DiffInv'
  OBVIOUS
<1>1. CASE BeginRun \/ Recheck \/ Confirm
  <2>1. UNCHANGED <<unsent, kept, ending, diff, result>>
    BY <1>1 DEF BeginRun, Recheck, Confirm, bodyVars, diffVars
  <2>2. request'["diff"] = request["diff"]
    BY <1>1 DEF BeginRun, Recheck, Confirm, Ask, Reads
  <2> QED
    BY <2>1, <2>2, DiffUntouched DEF DiffInv
<1>2. ASSUME NEW reported, NEW pull \in Pulls, Gather(reported, pull) PROVE DiffInv'
  <2>1. /\ diff' = pull.diff /\ UNCHANGED <<unsent, kept>> /\ request'["diff"] = "sending"
    BY <1>2 DEF Gather, Ask, Fetched, Reads, bodyVars
  <2>2. pull.diff \in Seq(Char)
    BY GitHubClientAssumption DEF Char
  <2> QED
    BY <2>1, <2>2 DEF DiffInv, DiffKept
<1>3. ASSUME NEW found, Analyse(found) PROVE DiffInv'
  <2>1. /\ diff' = <<>> /\ request' = [r \in Reads |-> "none"]
        /\ kept' = [r \in Reads |-> 0] /\ unsent' = [r \in Reads |-> 0]
    BY <1>3 DEF Analyse, Forget, Idle
  <2>2. request'["diff"] = "none"
    BY <2>1 DEF Reads
  <2>3. kept' \in [Reads -> Nat] /\ unsent' \in [Reads -> Nat] /\ diff' \in Seq(Char)
    BY <2>1
  <2> QED
    BY <2>2, <2>3 DEF DiffInv, DiffKept
<1>4. ASSUME NEW reported,
             \/ TooMany(reported) \/ Stale \/ Complete \/ ReadFails \/ AnalysisFails
             \/ Codex \/ UNCHANGED runVars
      PROVE  DiffInv'
  <2>1. UNCHANGED clientVars
    BY <1>4 DEF TooMany, Stale, Complete, ReadFails, AnalysisFails, Codex, Elsewhere, runVars
  <2> QED
    BY <2>1, DiffUntouched DEF clientVars, bodyVars, diffVars, DiffInv
<1>5. CASE CancelRun
  <2>1. CASE UNCHANGED clientVars
    BY <2>1, DiffUntouched DEF clientVars, bodyVars, diffVars, DiffInv
  <2>2. CASE CancelReads
    <3>1. UNCHANGED <<unsent, kept, diff, result>>
      BY <2>2 DEF CancelReads, diffVars
    <3>2. \/ request'["diff"] = request["diff"] /\ ending'["diff"] = ending["diff"]
          \/ request'["diff"] = "cancelled"
          \/ request'["diff"] = "closing" /\ ending'["diff"] = "cancelled"
      BY <2>2 DEF CancelReads, Reads
    <3> QED
      BY <3>1, <3>2, DiffUntouched DEF DiffInv, Failed
  <2> QED
    BY <1>5, <2>1, <2>2 DEF CancelRun
<1>6. CASE EndLifespan
  <2>1. UNCHANGED <<unsent, kept, ending, diff, result>>
    BY <1>6 DEF EndLifespan, CloseClient, bodyVars, diffVars
  <2>2. request'["diff"] = request["diff"] \/ request'["diff"] = "failed"
    BY <1>6 DEF EndLifespan, CloseClient, Reads
  <2> QED
    BY <2>1, <2>2, DiffUntouched DEF DiffInv
<1>7. ASSUME NEW r \in Reads, GitHub(r) PROVE DiffInv'
  BY <1>7, ReadStepKeepsDiff DEF GitHub
<1> QED
  BY <1>1, <1>2, <1>3, <1>4, <1>5, <1>6, <1>7 DEF RunNext, Coroutine

\* For any diff, budget and chunks, what is kept of the diff is a beginning of it
\* in whole characters, wherever its bytes were cut, and says whether it is all.
THEOREM RunDiffKept == RunSpec => []DiffKept
<1> DEFINE Inv == RunTypeOK /\ ReadsInv /\ ListInv /\ DiffInv
<1>1. RunInit => Inv
  BY InitReads, InitList, InitDiff
<1>2. Inv /\ [RunNext]_runVars => Inv'
  BY NextKeepsReads, NextKeepsList, NextKeepsDiff
<1>3. Inv => DiffKept
  BY DEF DiffInv
<1> HIDE DEF Inv
<1> QED
  BY <1>1, <1>2, <1>3, PTL DEF RunSpec
=============================================================================
