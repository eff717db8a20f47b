--------------------------- MODULE MCReviewQueue ----------------------------
(***************************************************************************)
(* Small instances of ReviewQueue.  Identifiers and workers are            *)
(* interchangeable; only the safety runs use it.                           *)
(***************************************************************************)
EXTENDS ReviewQueue, TLC

QueueSymmetry == Permutations(JobId) \cup Permutations(Worker)
=============================================================================
