------------------------------ MODULE MCSubmission ------------------------------
EXTENDS Submission, TLC

Symmetry == Permutations(Hosts) \cup Permutations(ActionIds)
=============================================================================
