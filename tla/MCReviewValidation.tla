------------------------- MODULE MCReviewValidation -------------------------
(***************************************************************************)
(* Reviews of up to three findings, drawn from a set in which duplicates   *)
(* by identifier and by place form chains, locations are added, context,   *)
(* or unknown lines, and the text of one added line has form feeds, which  *)
(* begin what looks like an added line and like a hunk header.  The body   *)
(* of a review overflows with three findings, and with three               *)
(* recommendations and three limitations.                                  *)
(***************************************************************************)
EXTENDS ReviewValidation

Finding(id, title, path, line, start, severity, category, confidence) ==
  [id |-> id, title |-> title, path |-> path, line |-> line, start |-> start,
   severity |-> severity, category |-> category, confidence |-> confidence]

MCFindings ==
  { Finding("i1", "t1", "a", 6, 0, 1,        "testing",  95),
    Finding("i2", "t2", "a", 8, 6, High,     "security", 92),
    Finding("i1", "t2", "a", 8, 0, High,     "testing",  97),
    Finding("i3", "t1", "a", 5, 0, Critical, "security", 85),
    Finding("i4", "t1", "a", 9, 9, Medium,   "testing",  95),
    Finding("i2", "t1", "a", 8, 5, High,     "security", 85),
    Finding("i4", "t3", "b", 4, 1, 1,        "testing",  90),
    Finding("i1", "t3", "c", 1, 0, Critical, "security", 95),
    Finding("i5", "t3", "a", 6, 0, Critical, "security", 70) }

Change(kind)    == [kind |-> kind, start |-> 0, git |-> TRUE]
HunkAt(start)   == [kind |-> "hunk", start |-> start, git |-> TRUE]
Fragment(start) == [kind |-> IF start = 0 THEN "added" ELSE "hunk", start |-> start, git |-> FALSE]

PatchA == <<HunkAt(5), Change("context"), Change("added"), Change("removed"),
            Change("context"), Change("added"), Change("note")>>

\* Git adds lines 1, 2 and 9, and the code reads 1, 2, 4 and 9.
PatchB == <<HunkAt(1), Change("added"), Fragment(0), Fragment(4), Change("added"),
            HunkAt(9), Change("added")>>

MCChanges == { <<[path |-> "a", patch |-> PatchA], [path |-> "b", patch |-> PatchB]>>,
               <<[path |-> "b", patch |-> <<>>], [path |-> "a", patch |-> PatchA]>> }

MCReview(findings, verdict, risk, recommendations, limitations) ==
  [findings |-> findings, verdict |-> verdict, risk |-> risk, summary |-> "own",
   recommendations |-> recommendations, limitations |-> limitations]

Lists(n) == UNION {[1..k -> MCFindings] : k \in 0..n}
Verdicts == {"approve", "comment", "request_changes"}

MCReviews ==
  {MCReview(f, v, 0, <<>>, <<>>) : f \in Lists(3), v \in Verdicts} \cup
  {MCReview(f, v, 2, r, l) : f \in Lists(1), v \in Verdicts,
                             r \in {<<"r1">>, <<"r1", "r2", "r3">>},
                             l \in {<<"l1">>, <<"l1", "l1">>, <<"l1", "diff">>,
                                    <<"l1", "l2", "l3">>}}

MCLineSize ==
  [p \in Part |-> CASE p \in {"header", "detail", "recommendation"} -> 2 [] OTHER -> 1]
=============================================================================
