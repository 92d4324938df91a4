--------------------------- MODULE MCDraftExtend ----------------------------
(***************************************************************************)
(* DraftExtend on a small instance.                                        *)
(***************************************************************************)
EXTENDS DraftExtend, TLC

Tokens == Reqs \X (1..(Prefill + Rounds * DraftTokens)) \X (0..Rounds)

Symmetry == Permutations(Reqs)
=============================================================================
