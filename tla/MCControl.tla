-------------------------------- MODULE MCControl --------------------------------
EXTENDS Control, TLC

Symmetry == Permutations(Hosts) \cup Permutations(SteerIds)
=============================================================================
