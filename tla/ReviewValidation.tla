-------------------------- MODULE ReviewValidation --------------------------
(***************************************************************************)
(* What becomes of a structured review (src/src/pullsage/reviews/): it is  *)
(* validated against the changed files that Codex saw (validation.py),     *)
(* completed with warnings about the context (service.py), returned, and,  *)
(* to be posted, validated a second time and turned into a body and inline *)
(* comments (formatter.py).                                                *)
(*                                                                         *)
(* Texts are values that differ if their normalized forms differ.  Lines   *)
(* are numbers, 0 for None; confidences are in percent; a severity and a   *)
(* risk level is its rank.                                                 *)
(***************************************************************************)
EXTENDS ReviewBody, FiniteSets

CONSTANTS
  Reviews,        \* reviews that Codex or an MCP client may produce
  Changes,        \* lists of changed files that a pull request may have
  Budgets,        \* values of max_diff_chars, in lines of a patch
  MinConfidence,  \* PULLSAGE_MIN_CONFIDENCE
  MaxItems,       \* MAX_REVIEW_LIST_ITEMS
  MaxComments     \* max_comments of build_inline_comments

Medium == 2
High == 3
Critical == 4

\* A line of a patch as str.splitlines() gives it; its kind is what its first
\* characters are taken for.  `git` is FALSE of what begins within a line of git,
\* after a character that breaks lines for Python only, as a form feed or U+2028.
DiffLine == [kind : {"hunk", "added", "removed", "context", "note"}, start : Nat, git : BOOLEAN]

ChangedFile == [path : STRING, patch : Seq(DiffLine)]

\* ReviewFinding, and ReviewResult with its bounded lists.
Findings ==
  {f \in [id : STRING, title : STRING, path : STRING, line : Nat, start : Nat,
          severity : 0..Critical, category : STRING, confidence : 0..100] : f.start <= f.line}

Texts == {list \in Seq(STRING) : Len(list) <= MaxItems}

ReviewResult ==
  [findings : Seq(Findings), verdict : {"approve", "comment", "request_changes"}, risk : 0..3,
   summary : STRING, recommendations : Texts, limitations : Texts]

ASSUME ReviewValidationAssumption ==
  /\ MinConfidence \in 0..100
  /\ MaxItems \in Nat /\ MaxItems >= 3   \* the warnings that a context may have
  /\ MaxComments \in Nat
  /\ Budgets \subseteq Nat
  /\ Changes \subseteq Seq(ChangedFile)
  /\ Reviews \subseteq ReviewResult

VARIABLES
  stage,     \* of the review
  files,     \* the changed files as GitHub lists them
  context,   \* the changed files as Codex saw them
  warnings,  \* of the context
  raw,       \* the review as Codex or the client wrote it
  returned,  \* the result of the job or the tool
  posted,    \* the review that is posted
  body,      \* its body
  comments   \* its inline comments

vars == <<stage, files, context, warnings, raw, returned, posted, body, comments>>

\* The first n, which [:n] and _truncate_at_line_boundary give; a line that is cut
\* short is read as the line it was.
Upto(values, n) == SubSeq(values, 1, IF n < Len(values) THEN n ELSE Len(values))

-----------------------------------------------------------------------------
(***************************************************************************)
(* Patches.                                                                *)
(***************************************************************************)
\* Mutant: lines that only the old file has are counted.
ReadLine_CountsRemoved(s, d) ==
  LET here == IF d.kind = "hunk" THEN d.start ELSE s.new
  IN IF d.kind # "hunk" /\ ~s.inside THEN s
     ELSE [lines  |-> IF d.kind = "added" THEN s.lines \cup {here} ELSE s.lines,
           new    |-> here + IF d.kind \in {"hunk", "note"} THEN 0 ELSE 1,
           inside |-> TRUE]

\* One line of the patch, whether git began it or not; nothing counts before the
\* first hunk.
ReadLine(s, d) ==
  LET here == IF d.kind = "hunk" THEN d.start ELSE s.new
  IN IF d.kind # "hunk" /\ ~s.inside THEN s
     ELSE [lines  |-> IF d.kind = "added" THEN s.lines \cup {here} ELSE s.lines,
           new    |-> here + IF d.kind \in {"added", "context"} THEN 1 ELSE 0,
           inside |-> TRUE]

\* extract_changed_lines
ExtractChangedLines(patch) ==
  FoldLeft(ReadLine, [lines |-> {}, new |-> 0, inside |-> FALSE], patch).lines

Paths(list) == {list[i].path : i \in DOMAIN list}

\* In changed_by_path the last file of a name counts.
PatchOf(list, path) == list[Max({i \in DOMAIN list : list[i].path = path})].patch

\* bound_changed_file_patches: the patches share one budget, in order.
Bound(list, budget) ==
  LET Cut(s, file) ==
        LET kept == Upto(file.patch, s.left)
        IN [list |-> Append(s.list, [file EXCEPT !.patch = kept]),
            left |-> s.left - Len(kept)]
  IN FoldLeft(Cut, [list |-> <<>>, left |-> budget], list).list

-----------------------------------------------------------------------------
(***************************************************************************)
(* validate_and_filter_review.                                             *)
(***************************************************************************)
\* _duplicate
Duplicate(f, g) ==
  \/ f.id = g.id
  \/ f.path = g.path /\ f.line = g.line /\ f.title = g.title

\* _finding_rank(f) > _finding_rank(g)
Stronger(f, g) ==
  \/ f.confidence > g.confidence
  \/ f.confidence = g.confidence /\ f.severity > g.severity

\* Mutant: the first occurrence stays.
Merge_KeepsFirst(unique, f) ==
  IF \E i \in DOMAIN unique : Duplicate(unique[i], f) THEN unique ELSE Append(unique, f)

\* The stronger one of a finding and its first duplicate stays, in the place of
\* the latter.
Merge(unique, f) ==
  LET twins == {i \in DOMAIN unique : Duplicate(unique[i], f)}
      first == CHOOSE i \in twins : \A n \in twins : i <= n
  IN IF twins = {} THEN Append(unique, f)
     ELSE IF Stronger(f, unique[first]) THEN [unique EXCEPT ![first] = f]
     ELSE unique

\* deduplicate_findings
Deduplicate(findings) == FoldLeft(Merge, <<>>, findings)

\* The findings confident enough and about a changed file.
Eligible(findings, list) ==
  LET Keep(kept, f) == IF f.confidence >= MinConfidence /\ f.path \in Paths(list)
                         THEN Append(kept, f) ELSE kept
  IN FoldLeft(Keep, <<>>, findings)

\* _safe_location: a line that was not added is no location.
Locate(f, list) ==
  LET added == ExtractChangedLines(PatchOf(list, f.path))
  IN [f EXCEPT !.line  = IF @ \in added THEN @ ELSE 0,
               !.start = IF f.line \in added /\ @ \in added THEN @ ELSE 0]

\* _is_meaningful_blocker
Blocker(f) ==
  \/ f.severity = Critical
  \/ /\ f.severity = High
     /\ f.category \in {"correctness", "security", "reliability"}
     /\ f.confidence >= Max({90, MinConfidence})

\* Mutant: a verdict is only ever weakened.
ConsistentVerdict_TrustsApprove(verdict, findings) ==
  IF verdict = "request_changes" /\ ~\E i \in DOMAIN findings : Blocker(findings[i])
    THEN "comment" ELSE verdict

\* _consistent_verdict, and the verdict of a review without findings.
ConsistentVerdict(verdict, findings) ==
  LET blockers == \E i \in DOMAIN findings : Blocker(findings[i])
      serious  == \E i \in DOMAIN findings : findings[i].severity \in {High, Critical}
  IN CASE verdict = "approve" /\ serious /\ blockers      -> "request_changes"
       [] verdict = "approve" /\ serious /\ ~blockers     -> "comment"
       [] verdict = "request_changes" /\ ~blockers        -> "comment"
       [] OTHER                                           -> verdict

\* The risk that a severity calls for.
MinimumRisk(severity) == IF severity < Medium THEN 0 ELSE severity - 1

\* Mutant: the risk is that of the findings.
ConsistentRisk_OfFindings(risk, findings) ==
  Max({0} \cup {MinimumRisk(findings[i].severity) : i \in DOMAIN findings})

\* _consistent_risk, and the risk of a review without findings.
ConsistentRisk(risk, findings) ==
  IF DOMAIN findings = {} THEN 0
  ELSE Max({risk} \cup {MinimumRisk(findings[i].severity) : i \in DOMAIN findings})

\* The values that are neither `existing` nor repeated.
Fresh(existing, values) ==
  LET Add(kept, v) == IF v \in ToSet(existing) \cup ToSet(kept) THEN kept ELSE Append(kept, v)
  IN FoldLeft(Add, <<>>, values)

\* _deduplicate_strings
Distinct(values) == Fresh(<<>>, values)

\* The limitations, with UNMAPPED_LOCATION_LIMITATION if a location was lost.
Limitations(values, unmapped) ==
  LET kept == Distinct(values)
  IN IF unmapped /\ "unmapped" \notin ToSet(kept)
       THEN Append(Upto(kept, MaxItems - 1), "unmapped") ELSE kept

Validate(review, list) ==
  LET unique == Deduplicate(Eligible(review.findings, list))
      mapped == [i \in DOMAIN unique |-> Locate(unique[i], list)]
  IN [findings        |-> mapped,
      verdict         |-> ConsistentVerdict(review.verdict, mapped),
      risk            |-> ConsistentRisk(review.risk, mapped),
      summary         |-> IF mapped = <<>> /\ review.findings # <<>>
                            THEN "none" ELSE review.summary,
      recommendations |-> Distinct(review.recommendations),
      limitations     |-> Limitations(review.limitations, mapped # unique)]

-----------------------------------------------------------------------------
\* _add_context_limitations: warnings come last and are never cut.
AddContextLimitations(review, system) ==
  LET new == Upto(Fresh(review.limitations, system), MaxItems)
  IN [review EXCEPT !.limitations = Upto(review.limitations, MaxItems - Len(new)) \o new]

SamePlace(c, d) == c.path = d.path /\ c.line = d.line /\ c.title = d.title

\* build_inline_comments: one finding of a validated review.
AddComment(made, f) ==
  IF \/ f.line = 0
     \/ \E i \in DOMAIN made : SamePlace(made[i], f)
     \/ Len(made) >= MaxComments
    THEN made
    ELSE Append(made, [path |-> f.path, line |-> f.line, start |-> f.start, title |-> f.title])

InlineComments(review) == FoldLeft(AddComment, <<>>, review.findings)

-----------------------------------------------------------------------------
(***************************************************************************)
(* The way of a review.                                                    *)
(***************************************************************************)
NoReview == [findings |-> <<>>, verdict |-> "comment", risk |-> 0, summary |-> "own",
             recommendations |-> <<>>, limitations |-> <<>>]

Init ==
  /\ stage = "start" /\ files \in Changes /\ context = files /\ warnings = <<>>
  /\ raw = NoReview /\ returned = NoReview /\ posted = NoReview
  /\ body = <<>> /\ comments = <<>>

\* fetch_context; `cut` says what else was truncated, the body of the pull request
\* or the diff, each with its warning.
FetchContext(budget, cut) ==
  /\ stage = "start" /\ stage' = "fetched"
  /\ context' = Bound(files, budget)
  /\ LET lost    == cut \cup IF context' = files THEN {} ELSE {"patches"}
         Warn(w) == IF w \in lost THEN <<w>> ELSE <<>>
     IN warnings' = Warn("body") \o Warn("diff") \o Warn("patches")
  /\ UNCHANGED <<files, raw, returned, posted, body, comments>>

\* review_pull_request: Codex's review is validated and completed.
Return(review) ==
  /\ stage = "fetched" /\ stage' = "returned"
  /\ raw' = review
  /\ returned' = AddContextLimitations(Validate(review, context), warnings)
  /\ UNCHANGED <<files, context, warnings, posted, body, comments>>

\* An MCP client brings a review of its own.
Supply(review) ==
  /\ stage = "start" /\ stage' = "supplied"
  /\ raw' = review /\ returned' = review
  /\ UNCHANGED <<files, context, warnings, posted, body, comments>>

\* post_review, with the files of the context or as GitHub lists them.
Post(list) ==
  /\ \/ stage = "returned" /\ list \in {context, files} /\ stage' = "posted"
     \/ stage = "supplied" /\ list = files /\ stage' = "forwarded"
  /\ posted' = Validate(returned, list)
  /\ body' = FormatReview(posted')
  /\ comments' = InlineComments(posted')
  /\ UNCHANGED <<files, context, warnings, raw, returned>>

Next ==
  \/ \E budget \in Budgets, cut \in SUBSET {"body", "diff"} : FetchContext(budget, cut)
  \/ \E review \in Reviews : Return(review) \/ Supply(review)
  \/ \E list \in {context, files} : Post(list)

Spec == Init /\ [][Next]_vars

-----------------------------------------------------------------------------
(***************************************************************************)
(* What validation promises.                                               *)
(***************************************************************************)
Validated == stage \in {"returned", "posted"}
Out       == stage \in {"posted", "forwarded"}

\* g is f, perhaps without its location or the start of it.
Clears(g, f) == g \in {f, [f EXCEPT !.start = 0], [f EXCEPT !.line = 0, !.start = 0]}

\* Sets of findings that no duplicate connects to the rest.
Groups(all) == {group \in SUBSET all : \A f \in group, g \in all \ group : ~Duplicate(f, g)}

\* `kept` are findings of `all`, and every group is represented by one that is
\* as strong as any of the group.
Represents(kept, all) ==
  /\ \A g \in kept : \E f \in all : Clears(g, f)
  /\ \A group \in Groups(all) : \A f \in group :
       \E g \in kept, h \in group : Clears(g, h) /\ ~Stronger(f, h)

\* deduplicate_findings replaces findings in place while it compares with the
\* first duplicate only; whatever the order of the findings and the chains of
\* duplicates, nothing is invented and the strongest of each group survives.
StrongestKept ==
  Validated => Represents(ToSet(returned.findings), ToSet(Eligible(raw.findings, context)))

\* What is posted is what was returned, although it is validated again and
\* perhaps against longer patches: no finding is altered, the strongest of each
\* group stays, risk and summary are the same, and the verdict is, or it is a
\* comment where changes were requested.
PostedAgrees ==
  stage = "posted" =>
    /\ ToSet(posted.findings) \subseteq ToSet(returned.findings)
    /\ Represents(ToSet(posted.findings), ToSet(returned.findings))
    /\ posted.risk = returned.risk /\ posted.summary = returned.summary
    /\ \/ posted.verdict = returned.verdict
       \/ posted.verdict = "comment" /\ returned.verdict = "request_changes"

Supported(review) ==
  LET found == ToSet(review.findings)
  IN /\ review.verdict = "approve" => \A f \in found : f.severity \notin {High, Critical}
     /\ review.verdict = "request_changes" => \E f \in found : Blocker(f)
     /\ found = {} => review.risk = 0

\* "approve is incompatible with retained high/critical findings;
\* request_changes is reserved for meaningful blockers": of what is returned
\* and, after findings were dropped again, of what is posted.
VerdictSupported ==
  /\ Validated => Supported(returned)
  /\ Out       => Supported(posted)

\* The posted review says what was lost on its way: that the pull request's text,
\* the diff or patches were cut, unless Codex has written the same and its list
\* is cut for other warnings; that a location was lost, if there is room to; and
\* in its body what BodyDiscloses says.
LossesDisclosed ==
  /\ stage = "posted" =>
       LET own   == ToSet(raw.limitations)
           said  == ToSet(posted.limitations)
           items == Len(raw.limitations) + Len(warnings)
       IN /\ ToSet(warnings) \ own \subseteq said
          /\ items <= MaxItems => ToSet(warnings) \subseteq said
          /\ items < MaxItems /\ (\E g \in ToSet(posted.findings) : g \notin ToSet(raw.findings))
               => "unmapped" \in said
          /\ Len(posted.limitations) <= MaxItems
  /\ Out => BodyDiscloses(posted, body)

\* The hunk headers up to line i of a patch, among the lines `seen` of it.
Headers(patch, seen, i) == {h \in seen : h <= i /\ patch[h].kind = "hunk"}

\* The number of line i in the new file: the start of its hunk and the lines since
\* then that the new file has.
NumberOf(patch, seen, i) ==
  LET hunk == Max(Headers(patch, seen, i))
  IN patch[hunk].start
       + Cardinality({k \in seen : hunk <= k /\ k < i /\ patch[k].kind \in {"added", "context"}})

\* The added lines among those `seen`, which are in a hunk.
Additions(patch, seen) ==
  {i \in seen : patch[i].kind = "added" /\ Headers(patch, seen, i) # {}}

GitLines(patch) == {i \in DOMAIN patch : patch[i].git}

\* The lines a patch adds, as GitHub numbers them.
AddedLines(patch) ==
  {NumberOf(patch, GitLines(patch), i) : i \in Additions(patch, GitLines(patch))}

\* The numbers that Python's lines give after a break within a line of the hunk.
MisreadLines(patch) ==
  LET all       == DOMAIN patch
      Broken(i) == \E k \in Max(Headers(patch, all, i))..i : ~patch[k].git
  IN {NumberOf(patch, all, i) : i \in {n \in Additions(patch, all) : Broken(n)}}

\* Every inline comment is on lines that the patch on GitHub adds, even if it was
\* placed with a truncated patch, unless its hunk has text before it at which only
\* Python breaks lines: the next header sets the count right.  No two comments say
\* the same of one line.
CommentsSafe ==
  Out =>
    /\ \A i \in DOMAIN comments :
         LET c       == comments[i]
             patch   == PatchOf(files, c.path)
             numbers == AddedLines(patch) \cup MisreadLines(patch)
         IN c.line \in numbers /\ c.start \in numbers \cup {0} /\ c.start <= c.line
    /\ \A i, n \in DOMAIN comments : i < n => ~SamePlace(comments[i], comments[n])

\* formatter.py: "Build only comments whose locations still map to an added diff
\* line"; docs/api.md: "unsafe-line findings do not become inline comments".
CommentsOnAddedLines ==
  Out => \A i \in DOMAIN comments :
           comments[i].line \in AddedLines(PatchOf(files, comments[i].path))

\* docs/architecture.md: "duplicate findings are removed".
NoDuplicates ==
  Validated => \A i, n \in DOMAIN returned.findings :
                 i < n => ~Duplicate(returned.findings[i], returned.findings[n])
=============================================================================
