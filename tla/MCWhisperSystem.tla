--------------------------- MODULE MCWhisperSystem ---------------------------
(* Instances of WhisperSystem for TLC. *)
EXTENDS WhisperSystem, TLC

TeamSymmetry == Permutations(Teams)
=============================================================================
