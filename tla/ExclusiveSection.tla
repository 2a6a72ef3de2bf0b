---------------------------- MODULE ExclusiveSection ----------------------------
(***************************************************************************)
(* What the lock of an operation promises to the code that runs under it:  *)
(* one process at a time.  A process that dies inside leaves.              *)
(***************************************************************************)
CONSTANT Procs

VARIABLE inside     \* the processes in the section

Init == inside = {}

Enter(p) == inside = {} /\ inside' = {p}

Leave(p) == p \in inside /\ inside' = inside \ {p}

Next == \E p \in Procs : Enter(p) \/ Leave(p)

Spec == Init /\ [][Next]_inside
=============================================================================
