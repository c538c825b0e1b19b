--------------------------- MODULE MCWhisperPool ---------------------------
(* Instances of WhisperPool for TLC. *)
EXTENDS WhisperPods, TLC

\* Teams are interchangeable when all or none of their flags are pushed.
TeamSymmetry == Permutations(Teams)
=============================================================================
