------------------------- MODULE MCTrustedHashPortal -------------------------
EXTENDS TrustedHashPortal, TLC

RequestSymmetry == Permutations(Starts) \cup Permutations(Restarts)
=============================================================================
