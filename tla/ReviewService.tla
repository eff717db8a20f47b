---------------------------- MODULE ReviewService ---------------------------
(***************************************************************************)
(* ReviewService (src/src/pullsage/reviews/service.py) against a pull      *)
(* request whose head moves: review_pull_request and post_review, and what *)
(* GitHub makes of their requests.                                         *)
(*                                                                         *)
(* GitHub answers a read with the head, a page of the files or the diff of *)
(* that moment.  A step of a call is one answer and all that the code does *)
(* with it up to its next request.                                         *)
(***************************************************************************)
EXTENDS Naturals, Sequences, FiniteSets

CONSTANTS Call,     \* calls of the service
          Sha,     \* commits
          NoSha,   \* expected_head_sha is None, or nothing was read yet
          MaxMoves  \* bound on the heads the pull request ever has

ASSUME ReviewServiceAssumption ==
  /\ Sha # {} /\ NoSha \notin Sha
  /\ MaxMoves \in Nat \ {0}

VARIABLES
  history,  \* GitHub: the heads of the pull request, the current one last
  call,     \* the calls
  wire,     \* submissions sent and not yet processed by GitHub
  reviews   \* GitHub: the reviews of the pull request, oldest first

serviceVars == <<history, call, wire, reviews>>

-----------------------------------------------------------------------------
(***************************************************************************)
(* A call: `wanted` is expected_head_sha, `posts` is post_comments, `ctx`  *)
(* the head it works on; `files` are the heads at which GitHub served the  *)
(* pages of the files, which are all `listed` or not, and `diff` the head  *)
(* at which it served the diff.  `mark` is a history variable: the length  *)
(* of `history` when Codex answered.                                       *)
(*                                                                         *)
(* review_pull_request reads the "metadata", is "fetching" files and diff, *)
(* "analysing", "confirming" the head; post_review is "pinning" the head,  *)
(* "listing" the files, "checking" the head and "submitting".              *)
(***************************************************************************)
Ended == {"completed", "posted", "stale", "failed"}

CallState == {"idle", "metadata", "fetching", "analysing", "confirming",
              "pinning", "listing", "checking", "submitting"} \cup Ended

CallRecord == [pc : CallState, wanted : Sha \cup {NoSha}, posts : BOOLEAN,
               ctx : Sha \cup {NoSha}, files : SUBSET Sha, listed : BOOLEAN,
               diff : Sha \cup {NoSha}, mark : Nat]

Submission == [call : Call, wanted : Sha \cup {NoSha}, commit : Sha,
               files : SUBSET Sha, diff : Sha \cup {NoSha}]

Current == history[Len(history)]
Known   == {history[i] : i \in DOMAIN history}

Running(c) == call[c].pc \notin Ended \cup {"idle"}

NewCall == [pc |-> "idle", wanted |-> NoSha, posts |-> FALSE, ctx |-> NoSha,
            files |-> {}, listed |-> FALSE, diff |-> NoSha, mark |-> 0]

Init ==
  /\ \E h \in Sha : history = <<h>>
  /\ call = [c \in Call |-> NewCall]
  /\ wire = {} /\ reviews = <<>>

-----------------------------------------------------------------------------
(***************************************************************************)
(* GitHub.                                                                 *)
(***************************************************************************)
\* A push, or a force push to a commit that was the head before.
Push(h) ==
  /\ Len(history) < MaxMoves /\ h # Current
  /\ history' = Append(history, h)
  /\ UNCHANGED <<call, wire, reviews>>

\* A submission is processed; GitHub takes commit_id as it comes.
Accept(m) ==
  /\ m \in wire
  /\ wire' = wire \ {m}
  /\ reviews' = Append(reviews, m)
  /\ UNCHANGED <<history, call>>

-----------------------------------------------------------------------------
Set(c, record) == call' = [call EXCEPT ![c] = record]

\* The coroutine ends, and with it what it knew.
End(c, outcome) == Set(c, [NewCall EXCEPT !.pc = outcome])

\* A call of review_pull_request.
BeginReview(c, wanted, posts) ==
  /\ call[c].pc = "idle"
  /\ Set(c, [NewCall EXCEPT !.pc = "metadata", !.wanted = wanted, !.posts = posts])
  /\ UNCHANGED <<history, wire, reviews>>

\* A call of post_review without changed_files, perhaps after a dry run.
BeginPost(c, wanted) ==
  /\ call[c].pc \in {"idle", "completed"}
  /\ Set(c, [NewCall EXCEPT !.pc = IF wanted = NoSha THEN "pinning" ELSE "listing",
                            !.wanted = wanted, !.posts = TRUE, !.ctx = wanted])
  /\ UNCHANGED <<history, wire, reviews>>

\* _require_expected_head
Matches(expected, actual) == expected \in {NoSha, actual}

\* The call goes on if the head it expects is the current one, and otherwise
\* raises StalePullRequestHeadError.
IfCurrent(c, expected, next) ==
  IF Matches(expected, Current) THEN Set(c, next) ELSE End(c, "stale")

\* Mutant: the head the job is bound to is not compared.
ReadMetadata_AnyHead(c) ==
  /\ call[c].pc = "metadata"
  /\ Set(c, [call[c] EXCEPT !.pc = "fetching", !.ctx = Current])
  /\ UNCHANGED <<history, wire, reviews>>

\* fetch_context: the metadata of the pull request.
ReadMetadata(c) ==
  /\ call[c].pc = "metadata"
  /\ IfCurrent(c, call[c].wanted, [call[c] EXCEPT !.pc = "fetching", !.ctx = Current])
  /\ UNCHANGED <<history, wire, reviews>>

\* get_changed_files: one page.  The call goes on when it is the last; more files
\* than the limit are an error (GiveUp).
NextPage(c, next) ==
  \E last \in BOOLEAN :
    Set(c, [call[c] EXCEPT !.pc = IF last THEN next ELSE @, !.listed = last,
                           !.files = @ \cup {Current}])

\* fetch_context: files and diff are gathered concurrently.
FetchFiles(c) ==
  /\ call[c].pc = "fetching" /\ ~call[c].listed
  /\ NextPage(c, "fetching")
  /\ UNCHANGED <<history, wire, reviews>>

FetchDiff(c) ==
  /\ call[c].pc = "fetching" /\ call[c].diff = NoSha
  /\ Set(c, [call[c] EXCEPT !.diff = Current])
  /\ UNCHANGED <<history, wire, reviews>>

\* Mutant: the head is not read again once files and diff are there.
Recheck_Skipped(c) ==
  /\ call[c].pc = "fetching" /\ call[c].listed /\ call[c].diff # NoSha
  /\ Set(c, [call[c] EXCEPT !.pc = "analysing"])
  /\ UNCHANGED <<history, wire, reviews>>

\* fetch_context: _assert_current_head, when both have arrived.
Recheck(c) ==
  /\ call[c].pc = "fetching" /\ call[c].listed /\ call[c].diff # NoSha
  /\ IfCurrent(c, call[c].ctx, [call[c] EXCEPT !.pc = "analysing"])
  /\ UNCHANGED <<history, wire, reviews>>

\* The Codex process ends with a review.
Analyse(c) ==
  /\ call[c].pc = "analysing"
  /\ Set(c, [call[c] EXCEPT !.pc = "confirming", !.mark = Len(history)])
  /\ UNCHANGED <<history, wire, reviews>>

\* Mutant: a result is taken however long Codex took.
Confirm_Skipped(c) ==
  /\ call[c].pc = "confirming"
  /\ Set(c, [call[c] EXCEPT !.pc = IF call[c].posts THEN "checking" ELSE "completed"])
  /\ UNCHANGED <<history, wire, reviews>>

\* _assert_current_head, validation; a dry run ends here.
Confirm(c) ==
  /\ call[c].pc = "confirming"
  /\ IfCurrent(c, call[c].ctx,
       [call[c] EXCEPT !.pc = IF call[c].posts THEN "checking" ELSE "completed"])
  /\ UNCHANGED <<history, wire, reviews>>

\* post_review without a head: the current one.
Pin(c) ==
  /\ call[c].pc = "pinning"
  /\ Set(c, [call[c] EXCEPT !.pc = "listing", !.ctx = Current])
  /\ UNCHANGED <<history, wire, reviews>>

\* post_review: the files that inline comments are mapped to.
ListFiles(c) ==
  /\ call[c].pc = "listing"
  /\ NextPage(c, "checking")
  /\ UNCHANGED <<history, wire, reviews>>

\* Mutant: the submission is pinned by the argument, which may be None.
SubmissionOf_Argument(c) == [call |-> c, wanted |-> call[c].wanted, commit |-> call[c].wanted,
                             files |-> call[c].files, diff |-> call[c].diff]

\* The request of post_pull_request_review.
SubmissionOf(c) == [call |-> c, wanted |-> call[c].wanted, commit |-> call[c].ctx,
                    files |-> call[c].files, diff |-> call[c].diff]

Send(c) ==
  /\ Set(c, [call[c] EXCEPT !.pc = "submitting"])
  /\ wire' = wire \cup {SubmissionOf(c)}

\* Mutant: the head is not checked before the submission.
Check_Skipped(c) == call[c].pc = "checking" /\ Send(c) /\ UNCHANGED <<history, reviews>>

\* post_review: _assert_current_head, then the submission pinned by commit_id.
Check(c) ==
  /\ call[c].pc = "checking"
  /\ IF call[c].ctx = Current
       THEN Send(c)
       ELSE End(c, "stale") /\ UNCHANGED wire
  /\ UNCHANGED <<history, reviews>>

\* GitHub's answer arrives.
Answer(c) ==
  /\ call[c].pc = "submitting"
  /\ \E i \in DOMAIN reviews : reviews[i].call = c
  /\ End(c, "posted")
  /\ UNCHANGED <<history, wire, reviews>>

\* Mutant: a submission whose answer is missing is sent again.
GiveUp_Resubmits(c) ==
  /\ Running(c)
  /\ IF call[c].pc = "submitting" /\ SubmissionOf(c) \notin wire
       THEN wire' = wire \cup {SubmissionOf(c)} /\ UNCHANGED call
       ELSE End(c, "failed") /\ UNCHANGED wire
  /\ UNCHANGED <<history, reviews>>

\* A request or the Codex process fails or times out, or the call is cancelled.
\* A submission that was sent stays on its way, or is lost.
GiveUp(c) ==
  /\ Running(c)
  /\ End(c, "failed")
  /\ wire' \in {wire, {m \in wire : m.call # c}}
  /\ UNCHANGED <<history, reviews>>

-----------------------------------------------------------------------------
ServiceStep(c) ==
  \/ ReadMetadata(c) \/ FetchFiles(c) \/ FetchDiff(c) \/ Recheck(c)
  \/ Analyse(c) \/ Confirm(c)
  \/ Pin(c) \/ ListFiles(c) \/ Check(c) \/ Answer(c)
  \/ GiveUp(c)

GitHubStep == (\E h \in Sha : Push(h)) \/ (\E m \in wire : Accept(m))

\* A caller's expected head is one that GitHub reported to it.
Next ==
  \/ \E c \in Call, h \in Known \cup {NoSha}, p \in BOOLEAN : BeginReview(c, h, p)
  \/ \E c \in Call, h \in Known \cup {NoSha} : BeginPost(c, h)
  \/ \E c \in Call : ServiceStep(c)
  \/ GitHubStep

Spec == Init /\ [][Next]_serviceVars

-----------------------------------------------------------------------------
(***************************************************************************)
(* What the service promises.                                              *)
(***************************************************************************)
\* Types.
ServiceTypeOK ==
  /\ history \in Seq(Sha) /\ Len(history) \in 1..MaxMoves
  /\ call \in [Call -> CallRecord]
  /\ wire \subseteq Submission
  /\ reviews \in Seq(Submission)

\* The head was h, then g, then h again.
Returned(h, g) ==
  \E i, j, k \in DOMAIN history :
    i < j /\ j < k /\ history[i] = h /\ history[j] = g /\ history[k] = h

\* Nothing read for head h came from another head, unless a force push took h
\* away and brought it back: reads of the head cannot see that.
From(h, served) == \A g \in served \ {NoSha} : g = h \/ Returned(h, g)

\* Codex sees one commit: diff and files, read page by page and concurrently
\* while pushes arrive, are all of the head that the context names, and that is the
\* head the job was bound to.
ContextConsistent ==
  \A c \in Call :
    call[c].pc \in {"analysing", "confirming", "completed"} =>
      /\ From(call[c].ctx, call[c].files \cup {call[c].diff})
      /\ Matches(call[c].wanted, call[c].ctx)

\* A review on GitHub is of the commit it is pinned to: its analysis saw that
\* commit's diff, its inline comments are mapped to that commit's files, and it
\* is the commit the caller asked for.
PostedConsistent ==
  \A m \in wire \cup {reviews[i] : i \in DOMAIN reviews} :
    /\ From(m.commit, m.files \cup {m.diff})
    /\ Matches(m.wanted, m.commit)

\* "Head-SHA verification before and after review": a result is returned only
\* if its head was the current one at some time after Codex had answered.
CurrentAfterAnalysis ==
  \A c \in Call :
    call[c].pc = "completed" =>
      \E i \in call[c].mark..Len(history) : history[i] = call[c].ctx

\* One call leaves at most one review on GitHub, whatever becomes of its
\* request and of the answer.
SubmitsOnce ==
  /\ \A i, j \in DOMAIN reviews : reviews[i].call = reviews[j].call => i = j
  /\ \A m \in wire : m.call \notin {reviews[i].call : i \in DOMAIN reviews}

\* docs/architecture.md: "PR head changed | Typed stale-head failure; no review
\* is posted".
NoReviewOfMovedHead ==
  [][\A m \in wire : Accept(m) => m.commit = Current]_serviceVars
=============================================================================
