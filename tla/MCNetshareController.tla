------------------------- MODULE MCNetshareController -------------------------
(* NetshareController for TLC.  No symmetry: its run checks liveness. *)
EXTENDS NetshareController
=============================================================================
