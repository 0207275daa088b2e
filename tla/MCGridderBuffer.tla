--------------------------- MODULE MCGridderBuffer ---------------------------
(* GridderBuffer with model values for the baselines. *)
EXTENDS GridderBuffer, TLC

CONSTANTS b1, b2

(* The baselines only index the buffers. *)
BaselineSymmetry == Permutations(Baselines)
=============================================================================
