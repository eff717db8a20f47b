----------------------------- MODULE MCReviewRun ----------------------------
(***************************************************************************)
(* Small instances of ReviewRun: pages of two files against a limit of     *)
(* three, diffs around a budget of six characters and a ceiling of 28      *)
(* bytes, bodies around a ceiling of two bytes; a Codex process that can   *)
(* fill its pipe and write more than is captured.                          *)
(***************************************************************************)
EXTENDS ReviewRun

Text(n, char) == [i \in 1..n |-> char]

Pull(count, text) == [files |-> count, diff |-> text]

MCPulls ==
  { Pull(0, <<>>),
    Pull(2, Text(6, "wide")),
    Pull(3, Text(4, "narrow") \o <<"newline">> \o Text(2, "narrow")),
    Pull(4, Text(3, "narrow") \o <<"newline">> \o Text(3, "wide")),
    Pull(5, Text(7, "wide")),
    Pull(3, <<"narrow">> \o Text(7, "wide")),
    Pull(2, <<"wide", "newline">> \o Text(8, "wide")) }
=============================================================================
