---------------------------- MODULE GitHubClient ----------------------------
(***************************************************************************)
(* GitHubClient (src/src/pullsage/github/client.py): the reads of one      *)
(* review, each a streamed response whose body is bounded while it         *)
(* arrives; the loop over the pages of the changed files; the diff with    *)
(* its character budget.                                                   *)
(*                                                                         *)
(* GitHub serves full pages, except the last, and announces a next one if  *)
(* there is one.  It may answer late, badly or not at all.  That the head  *)
(* may move between two answers is in ReviewService.                       *)
(***************************************************************************)
EXTENDS Naturals, Sequences, FiniteSets

CONSTANTS
  MaxFiles,  \* max_changed_files
  PageCap,   \* the most files that GitHub serves in a page, 100
  MaxChars,  \* max_diff_chars
  MaxBytes,  \* DEFAULT_MAX_RESPONSE_BYTES
  Pulls,     \* pull requests, with the number of their files and their diff
  Sizes,     \* bodies of the other answers, in bytes
  Chunks     \* what may arrive at a time, in bytes

ASSUME GitHubClientAssumption ==
  /\ MaxFiles \in Nat \ {0} /\ PageCap \in Nat \ {0}
  /\ MaxChars \in Nat \ {0} /\ MaxBytes \in Nat \ {0}
  /\ Pulls \subseteq [files : Nat, diff : Seq({"narrow", "wide", "newline"})]
  /\ Sizes \subseteq Nat /\ Chunks \subseteq Nat \ {0}

VARIABLES
  total,    \* GitHub: the files of the pull request
  diff,     \* GitHub: its diff
  request,  \* where each read is
  unsent,   \* what of the body has not arrived
  kept,     \* what of it is retained
  ending,   \* how the reading of the body ended
  open,     \* the reads whose response is open
  page,     \* the page asked for
  listing,  \* the files so far
  result    \* the PullRequestDiff

bodyVars   == <<unsent, kept, ending>>
listVars   == <<total, page, listing>>
diffVars   == <<diff, result>>
clientVars == <<request, open, bodyVars, listVars, diffVars>>

-----------------------------------------------------------------------------
\* get_pull_request, get_changed_files, get_pull_request_diff.
Reads == {"pull", "files", "diff"}

Busy   == {"sending", "reading", "closing"}
Failed == {"failed", "cancelled", "too_large", "too_many"}

NoDiff == [content |-> <<>>, length |-> 0, truncated |-> FALSE]

Smaller(m, n) == IF m < n THEN m ELSE n
Larger(m, n)  == IF m < n THEN n ELSE m

\* values[:n]
FirstOf(values, n) == SubSeq(values, 1, Smaller(n, Len(values)))

\* UTF-8: four bytes for a wide character, one for any other.
Bytes(chars) == Len(chars) + 3 * Cardinality({i \in DOMAIN chars : chars[i] = "wide"})

Idle(value) == [r \in Reads |-> value]

ClientInit ==
  /\ total = 0 /\ diff = <<>>
  /\ request = Idle("none") /\ open = {}
  /\ unsent = Idle(0) /\ kept = Idle(0) /\ ending = Idle("none")
  /\ page = 0 /\ listing = <<>> /\ result = NoDiff

\* What the reads have left is dropped, with the coroutines that held it.
Forget ==
  /\ total' = 0 /\ diff' = <<>>
  /\ request' = Idle("none")
  /\ unsent' = Idle(0) /\ kept' = Idle(0) /\ ending' = Idle("none")
  /\ page' = 0 /\ listing' = <<>> /\ result' = NoDiff
  /\ UNCHANGED open

-----------------------------------------------------------------------------
(***************************************************************************)
(* _request.                                                               *)
(***************************************************************************)
\* Mutant: one byte for a character.
Ceiling_BytesAsChars(r) == IF r = "diff" THEN MaxChars + 1 ELSE MaxBytes

\* max_response_bytes
Ceiling(r) == IF r = "diff" THEN (MaxChars + 1) * 4 ELSE MaxBytes

\* send: the headers of the response arrive.
Respond(r, size) ==
  /\ request[r] = "sending" /\ request' = [request EXCEPT ![r] = "reading"]
  /\ open' = open \cup {r}
  /\ unsent' = [unsent EXCEPT ![r] = size] /\ kept' = [kept EXCEPT ![r] = 0]
  /\ UNCHANGED <<ending, listVars, diffVars>>

\* The try block is left; the response is closed in its finally clause.
StopReading(r, how) ==
  /\ request' = [request EXCEPT ![r] = "closing"]
  /\ ending' = [ending EXCEPT ![r] = how]

\* _read_response_bounded: a chunk arrives.  The diff is cut at the ceiling;
\* anything else is PullRequestTooLargeError.
Receive(r, n) ==
  LET chunk == Smaller(n, unsent[r])
      fits  == kept[r] + chunk <= Ceiling(r)
  IN /\ request[r] = "reading" /\ unsent[r] > 0
     /\ unsent' = [unsent EXCEPT ![r] = @ - chunk]
     /\ kept' = [kept EXCEPT ![r] = Smaller(@ + chunk, Ceiling(r))]
     /\ IF fits THEN UNCHANGED <<request, ending>>
                ELSE StopReading(r, IF r = "diff" THEN "cut" ELSE "too_large")
     /\ UNCHANGED <<open, listVars, diffVars>>

EndOfBody(r) ==
  /\ request[r] = "reading" /\ unsent[r] = 0
  /\ StopReading(r, "whole")
  /\ UNCHANGED <<open, unsent, kept, listVars, diffVars>>

\* Mutant: the response is closed only after a body that was read.
Interrupt_LeavesOpen(r) ==
  /\ request[r] \in {"sending", "reading"}
  /\ request' = [request EXCEPT ![r] = "failed"]
  /\ UNCHANGED <<open, bodyVars, listVars, diffVars>>

\* A timeout or a lost connection; while the request is being sent, httpx closes
\* what there is.
Interrupt(r) ==
  \/ /\ request[r] = "sending"
     /\ request' = [request EXCEPT ![r] = "failed"]
     /\ UNCHANGED <<open, bodyVars, listVars, diffVars>>
  \/ /\ request[r] = "reading"
     /\ StopReading(r, "failed")
     /\ UNCHANGED <<open, unsent, kept, listVars, diffVars>>

\* The task that waits for the reads is cancelled, and they with it; the finally
\* clause is not cut short.
CancelReads ==
  /\ request' = [r \in Reads |-> CASE request[r] = "sending" -> "cancelled"
                                   [] request[r] = "reading" -> "closing"
                                   [] OTHER                  -> request[r]]
  /\ ending' = [r \in Reads |-> IF request[r] \in {"reading", "closing"} THEN "cancelled"
                                 ELSE ending[r]]
  /\ UNCHANGED <<open, unsent, kept, listVars, diffVars>>

\* aclose of the client: connections are closed under the reads that use them.
CloseClient ==
  /\ request' = [r \in Reads |-> IF request[r] \in Busy THEN "failed" ELSE request[r]]
  /\ open' = {}
  /\ UNCHANGED <<bodyVars, listVars, diffVars>>

\* aclose: a read that failed raises.
CloseFailed(r) ==
  /\ request[r] = "closing" /\ ending[r] \in Failed
  /\ open' = open \ {r}
  /\ request' = [request EXCEPT ![r] = ending[r]]
  /\ UNCHANGED <<bodyVars, listVars, diffVars>>

\* _raise_api_error, or an answer that is malformed or fails its schema.
CloseBad(r) ==
  /\ request[r] = "closing" /\ ending[r] \notin Failed
  /\ open' = open \ {r}
  /\ request' = [request EXCEPT ![r] = "failed"]
  /\ UNCHANGED <<bodyVars, listVars, diffVars>>

\* The answer of r was read and is good: the read goes on to `next`.
Close(r, next) ==
  /\ request[r] = "closing" /\ ending[r] \notin Failed
  /\ open' = open \ {r}
  /\ request' = [request EXCEPT ![r] = next]
  /\ UNCHANGED bodyVars

\* get_pull_request
ClosePull == Close("pull", "done") /\ UNCHANGED <<listVars, diffVars>>

-----------------------------------------------------------------------------
(***************************************************************************)
(* get_changed_files.                                                      *)
(***************************************************************************)
\* per_page
PageSize == Smaller(PageCap, MaxFiles + 1)

\* GitHub's answer: some files, named by their place among all, and whether its
\* Link header has rel="next".
FilesOf(n)  == SubSeq([i \in 1..total |-> i],
                      (n - 1) * PageSize + 1, Smaller(n * PageSize, total))
HasNext(n) == n * PageSize < total

\* Mutant: as many files as the limit are too many.
AfterPage_AtLimit(files, n) ==
  IF Len(files) >= MaxFiles THEN "too_many"
  ELSE IF Len(FilesOf(n)) < PageSize \/ ~HasNext(n) THEN "done"
  ELSE "sending"

\* What comes after page n, with which the list is `files`.
AfterPage(files, n) ==
  IF Len(files) > MaxFiles THEN "too_many"
  ELSE IF Len(FilesOf(n)) < PageSize \/ ~HasNext(n) THEN "done"
  ELSE "sending"

\* One turn of the loop; TooManyChangedFilesError is raised in the middle of it.
ClosePage ==
  LET files == listing \o FilesOf(page)
      next  == AfterPage(files, page)
  IN /\ Close("files", next)
     /\ listing' = IF next = "too_many" THEN listing ELSE files
     /\ page' = IF next = "sending" THEN page + 1 ELSE page
     /\ UNCHANGED <<total, diffVars>>

-----------------------------------------------------------------------------
(***************************************************************************)
(* get_pull_request_diff.                                                  *)
(***************************************************************************)
\* response.content.decode: a character that was cut is replaced by one.
Decoded(n) ==
  LET length == CHOOSE k \in 0..Len(diff) :
                  /\ Bytes(FirstOf(diff, k)) <= n
                  /\ k = Len(diff) \/ Bytes(FirstOf(diff, k + 1)) > n
      chars  == FirstOf(diff, length)
  IN IF Bytes(chars) = n THEN chars ELSE Append(chars, "replacement")

\* int(limit * 0.8)
Threshold == (MaxChars * 8) \div 10

\* rfind("\n") + 1
LastNewline(chars) ==
  LET Newlines == {i \in DOMAIN chars : chars[i] = "newline"}
  IN IF Newlines = {} THEN 0 ELSE CHOOSE i \in Newlines : \A k \in Newlines : k <= i

\* The budget, and a line boundary close to it.
Bounded(content, cut) ==
  LET length  == IF cut THEN Larger(Len(content) + 1, MaxChars + 1) ELSE Len(content)
      bounded == FirstOf(content, MaxChars)
      line    == LastNewline(bounded)
  IN IF length <= MaxChars
       THEN [content |-> content, length |-> length, truncated |-> FALSE]
       ELSE [content   |-> IF line > Threshold THEN FirstOf(bounded, line) ELSE bounded,
             length    |-> length,
             truncated |-> TRUE]

CloseDiff ==
  /\ Close("diff", "done")
  /\ result' = Bounded(Decoded(kept["diff"]), ending["diff"] = "cut")
  /\ UNCHANGED <<listVars, diff>>

-----------------------------------------------------------------------------
SizesOf(r) == IF r = "diff" THEN {Bytes(diff)} ELSE Sizes

\* A step of a read that the network or the event loop takes.
ReadStep(r) ==
  \/ \E size \in SizesOf(r) : Respond(r, size)
  \/ \E n \in Chunks : Receive(r, n)
  \/ EndOfBody(r)
  \/ Interrupt(r)
  \/ CloseFailed(r) \/ CloseBad(r)
  \/ r = "pull" /\ ClosePull
  \/ r = "files" /\ ClosePage
  \/ r = "diff" /\ CloseDiff

-----------------------------------------------------------------------------
(***************************************************************************)
(* What the client promises.                                               *)
(***************************************************************************)
\* A list that is returned is all of the files, once and in order, in however
\* many pages they came, and a list is refused only for having more than the
\* limit: a last page that is full, a single file too many and an empty pull
\* request included.
FilesWhole ==
  /\ request["files"] = "done"     => listing = [i \in 1..total |-> i] /\ total <= MaxFiles
  /\ request["files"] = "too_many" => total > MaxFiles

\* The diff that is returned is a beginning of the real one, in whole characters
\* and within the budget, wherever the response was cut; it says that it is
\* truncated exactly if it is, and then keeps more than 80 % of the budget and,
\* if it can, whole lines.
DiffKept ==
  request["diff"] = "done" =>
    LET content == result.content
        left    == FirstOf(diff, MaxChars)
    IN /\ content = FirstOf(diff, Len(content)) /\ Len(content) <= MaxChars
       /\ result.truncated <=> content # diff
       /\ result.truncated <=> result.length > MaxChars
       /\ result.length <= Len(diff) + 1
       /\ result.truncated =>
            /\ Len(content) > Threshold
            /\ \/ content[Len(content)] = "newline"
               \/ content = left /\ LastNewline(left) <= Threshold
=============================================================================
