----------------------------- MODULE MCJobStore -----------------------------
(***************************************************************************)
(* Small instances of JobStore: the identifiers are interchangeable.       *)
(***************************************************************************)
EXTENDS JobStore, TLC

IdSymmetry == Permutations(JobId)
=============================================================================
