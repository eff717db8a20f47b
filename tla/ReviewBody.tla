------------------------------ MODULE ReviewBody ----------------------------
(***************************************************************************)
(* The Markdown body of a posted review (format_review_markdown in         *)
(* src/src/pullsage/reviews/formatter.py) and how it is cut to the size    *)
(* that GitHub takes.                                                      *)
(*                                                                         *)
(* A body is a sequence of lines, each a part of the review: `of` is the   *)
(* place of the finding, recommendation or limitation that it shows, or a  *)
(* severity.  Of a line's text only its size matters.                      *)
(***************************************************************************)
EXTENDS Naturals, Sequences, SequencesExt

CONSTANTS
  MaxBody,   \* _MAX_REVIEW_BODY_CHARS
  LineSize   \* the characters of each part, escaped, with its line break

Part == {"header", "none", "heading", "title", "detail",
         "notice", "recommendation", "limitation", "disclaimer"}

\* A summary has at most 4,000 characters, so the header leaves room for the notice.
ASSUME ReviewBodyAssumption ==
  /\ MaxBody \in Nat /\ LineSize \in [Part -> Nat]
  /\ LineSize["header"] + LineSize["notice"] <= MaxBody

-----------------------------------------------------------------------------
Line(part, i)       == [part |-> part, of |-> i]
Lines(part, values) == [i \in DOMAIN values |-> Line(part, i)]

Size(lines) ==
  LET Add(n, l) == n + LineSize[l.part]
  IN FoldLeft(Add, 0, lines)

\* [:n], cut back to a line break.  A line that is cut short is no line.
Fitting(lines, n) ==
  LET First(k) == SubSeq(lines, 1, k)
  IN First(CHOOSE k \in 0..Len(lines) :
             /\ Size(First(k)) <= n
             /\ k = Len(lines) \/ Size(First(k + 1)) > n)

\* header: verdict, risk, confidence and summary.
Header == <<Line("header", 0)>>

\* The findings of one severity, under its heading.
Group(findings, severity) ==
  LET Show(lines, i) == IF findings[i].severity = severity
                          THEN lines \o <<Line("title", i), Line("detail", i)>> ELSE lines
  IN IF \E i \in DOMAIN findings : findings[i].severity = severity
       THEN FoldLeft(Show, <<Line("heading", severity)>>, [i \in DOMAIN findings |-> i])
       ELSE <<>>

\* finding_lines: by severity, the gravest first.
FindingLines(findings) ==
  IF findings = <<>> THEN <<Line("none", 0)>>
  ELSE Group(findings, 4) \o Group(findings, 3) \o Group(findings, 2)
         \o Group(findings, 1) \o Group(findings, 0)

\* tail
TailLines(review) ==
  Lines("recommendation", review.recommendations) \o Lines("limitation", review.limitations)
    \o <<Line("disclaimer", 0)>>

\* suffix: the truncation notice and the tail.
Suffix(review) == <<Line("notice", 0)>> \o TailLines(review)

\* Mutant: room is left for the notice alone.
Available_ForNotice(review) ==
  LET taken == Size(Header) + LineSize["notice"]
  IN IF taken < MaxBody THEN MaxBody - taken ELSE 0

\* What the findings may take.
Available(review) ==
  LET taken == Size(Header) + Size(Suffix(review))
  IN IF taken < MaxBody THEN MaxBody - taken ELSE 0

FormatReview(review) ==
  LET found == FindingLines(review.findings)
      body  == Header \o found \o TailLines(review)
  IN IF Size(body) <= MaxBody THEN body
     ELSE Fitting(Header \o Fitting(found, Available(review)) \o Suffix(review), MaxBody)

-----------------------------------------------------------------------------
\* The body of a review fits, and discloses what it does not show: findings are
\* left out, the gravest last, only with a notice, and for the sake of findings no
\* limitation or recommendation is.
BodyDiscloses(review, body) ==
  LET shown    == ToSet(body)
      Shows(i) == {Line("title", i), Line("detail", i)} \subseteq shown
      found    == review.findings
  IN /\ Size(body) <= MaxBody
     /\ (\E i \in DOMAIN found : ~Shows(i)) => Line("notice", 0) \in shown
     /\ \A i, n \in DOMAIN found : ~Shows(i) /\ Shows(n) => found[i].severity <= found[n].severity
     /\ Size(Header) + Size(Suffix(review)) <= MaxBody => ToSet(TailLines(review)) \subseteq shown
=============================================================================
