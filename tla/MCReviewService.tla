-------------------------- MODULE MCReviewService ---------------------------
(***************************************************************************)
(* Small instances of ReviewService.  Calls and commits are                *)
(* interchangeable.                                                        *)
(***************************************************************************)
EXTENDS ReviewService, TLC

ServiceSymmetry == Permutations(Call) \cup Permutations(Sha)
=============================================================================
