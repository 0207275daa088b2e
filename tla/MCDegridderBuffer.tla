-------------------------- MODULE MCDegridderBuffer -------------------------
(* DegridderBuffer with model values for the baselines. *)
EXTENDS DegridderBuffer, TLC

CONSTANTS b1, b2

(* The baselines only index the buffers. *)
BaselineSymmetry == Permutations(Baselines)
=============================================================================
