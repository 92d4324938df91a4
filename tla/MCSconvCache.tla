---------------------------- MODULE MCSconvCache ----------------------------
(***************************************************************************)
(* SconvCache on a small instance.                                         *)
(***************************************************************************)
EXTENDS SconvCache, TLC

Symmetry == Permutations(Reqs) \cup Permutations(Inputs)
=============================================================================
