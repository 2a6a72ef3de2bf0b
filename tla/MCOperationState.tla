---------------------------- MODULE MCOperationState ----------------------------
EXTENDS OperationRecovery, TLC

Symmetry == Permutations(ActionIds) \cup Permutations(Bindings) \cup Permutations(Turns)
=============================================================================
