---------------------------- MODULE MCMCPTools -----------------------------
(***************************************************************************)
(* Small instances of MCPTools.  Calls and commits are interchangeable.    *)
(***************************************************************************)
EXTENDS MCPTools, TLC

ToolSymmetry == Permutations(Call) \cup Permutations(Sha)
=============================================================================
