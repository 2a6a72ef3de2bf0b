---------------------------- MODULE OperationRecord ----------------------------
(***************************************************************************)
(* What the journal promises about one operation: what it once answered it *)
(* goes on answering, longer or expired, until a purge was asked for.      *)
(***************************************************************************)
EXTENDS Sequences, SequencesExt

CONSTANT Histories      \* the event sequences an operation may have

VARIABLES
    record,     \* the last answer about the operation
    requests,   \* creations and purges that were begun and may have taken effect
    excused     \* power failed after something was built on an unsynced directory

vars == <<record, requests, excused>>

None == [status |-> "none", lines |-> <<>>]
Live(lines) == [status |-> "live", lines |-> lines]
Expired == [status |-> "expired", lines |-> <<>>]

Init == record = None /\ requests = {} /\ excused = FALSE

\* A creation begins by finding nothing.
Create ==
    /\ record # None => "purge" \in requests
    /\ record' = None /\ requests' = {"create"}
    /\ UNCHANGED excused

Purge == requests' = requests \cup {"purge"} /\ UNCHANGED <<record, excused>>

Answer(lines) ==
    /\ \/ record = None /\ "create" \in requests
       \/ record.status = "live" /\ IsPrefix(record.lines, lines)
       \/ record = Expired /\ "purge" \in requests
    /\ record' = Live(lines)
    /\ UNCHANGED <<requests, excused>>

Expire ==
    /\ record = None => "create" \in requests
    /\ record' = Expired
    /\ UNCHANGED <<requests, excused>>

Forget ==
    /\ record # None => "purge" \in requests
    /\ record' = None /\ requests' = {}
    /\ UNCHANGED excused

Excuse == excused' = TRUE /\ UNCHANGED <<record, requests>>

Next ==
    \/ Create \/ Purge
    \/ \E lines \in Histories : Answer(lines)
    \/ Expire \/ Forget \/ Excuse

Spec == Init /\ [][Next \/ excused]_vars
=============================================================================
