-------------------------------- MODULE SendOnce --------------------------------
(***************************************************************************)
(* What a durable operation promises about its Send, with hosts, journal   *)
(* and browser left out: the intent is durable before the provider can be  *)
(* activated, the activation happens at most once and only in the target   *)
(* the intent named, and a submission is reported only after it happened.  *)
(***************************************************************************)
EXTENDS Sequences

CONSTANTS Targets, NoTarget

VARIABLES
    intended,   \* the target of the durable Send intent, or NoTarget
    activated,  \* the targets in which the provider was activated, in order
    proven      \* the operation reports a submission

vars == <<intended, activated, proven>>

Init == intended = NoTarget /\ activated = <<>> /\ proven = FALSE

Intend == \E t \in Targets :
    /\ intended = NoTarget
    /\ intended' = t
    /\ UNCHANGED <<activated, proven>>

Activate ==
    /\ intended # NoTarget /\ activated = <<>>
    /\ activated' = <<intended>>
    /\ UNCHANGED <<intended, proven>>

\* The report may be withdrawn: an observer that could not prove the turn puts
\* the operation back to uncertain.
Report ==
    /\ activated # <<>>
    /\ proven' = ~proven
    /\ UNCHANGED <<intended, activated>>

Next == Intend \/ Activate \/ Report

Spec == Init /\ [][Next]_vars

\* The provider was activated never, or once in the target the durable intent
\* names, and nothing is reported before that.
ActivatedAsIntended ==
    /\ activated # <<>> => intended # NoTarget /\ activated = <<intended>>
    /\ proven => activated # <<>>
=============================================================================
