---------------------------- MODULE OperationRecovery ----------------------------
(***************************************************************************)
(* What a restarted caller may do next (recovery.ts,                       *)
(* decideOperationRecovery), from the durable operation and one look at    *)
(* its target and turn.  A decision is a kind with the action or code it   *)
(* names; turn ids and the phase that a continued observation reports are  *)
(* left out.  Decisions is a set because the record does not keep the      *)
(* order in which two controls were recorded.                              *)
(***************************************************************************)
EXTENDS OperationState

Targets == {"matches", "mismatch", "unavailable"}
TurnSights == {"not_observed", "owned_user_turn", "generating", "terminal", "ambiguous"}

Decision(kind, of) == [kind |-> kind, of |-> of]
Observe(a) == Decision("observe_action_postcondition", a)
EnterUncertain(code) == Decision("enter_uncertain", code)
MayStart == Decision("continue_preparation", "none")
Capture == Decision("capture_owned_turn", "none")
KeepLooking == Decision("continue_owned_turn_observation", "none")
Inconsistent == Decision("block", "operation_state_inconsistent")

\* Mutant: an intent counts from its phase event on.
PendingByPhase(o) ==
    {a \in Recorded(o) :
        CASE o.actions[a].kind = "file_handoff" -> o.phase \in {"handoff_pending", "uncertain"}
          [] o.actions[a].kind = "send" -> o.phase \in {"send_pending", "uncertain"}
          [] o.actions[a].kind \in {"work_steer", "stop"} -> o.phase \in {"generating", "uncertain"}
          [] OTHER -> FALSE}

\* pendingNonRepeatableAction: an intent counts before its phase event is appended.
Pending(o) ==
    {a \in Recorded(o) :
        CASE o.actions[a].kind = "file_handoff" ->
                 o.phase \in {"prepared", "handoff_pending", "uncertain"}
          [] o.actions[a].kind = "send" -> o.phase \in {"ready", "send_pending", "uncertain"}
          [] o.actions[a].kind \in {"work_steer", "stop"} -> o.phase \in {"generating", "uncertain"}
          [] OTHER -> FALSE}

\* latestAction: a handoff is recorded before the Send, and the Send before any control.
Latest(o, as) ==
    {a \in as : \A c \in as : BoundaryRank[BoundaryForAction(o.actions[c].kind)]
                              <= BoundaryRank[BoundaryForAction(o.actions[a].kind)]}

OwnedTurnDecision(turn) ==
    CASE turn = "ambiguous" -> EnterUncertain("turn_ownership_ambiguous")
      [] turn = "terminal" -> Capture
      [] OTHER -> KeepLooking

\* decisionForPendingAction: files are proven by their manifest, not by a turn.
PendingDecision(o, a, turn) ==
    IF o.actions[a].kind = "file_handoff" \/ turn = "not_observed"
    THEN Observe(a) ELSE OwnedTurnDecision(turn)

\* Where nothing is pending, an uncertain operation has no action to observe either.
PhaseDecision(o, turn) ==
    CASE o.phase \in {"prepared", "ready"} -> MayStart
      [] o.phase = "capturing" ->
             IF turn = "terminal" THEN Capture ELSE EnterUncertain("capture_ownership_lost")
      [] o.phase \in {"submitted", "generating"} -> OwnedTurnDecision(turn)
      [] o.phase = "uncertain" /\ o.boundary \in {"send", "control"} -> OwnedTurnDecision(turn)
      [] OTHER -> Inconsistent

Decisions(o, target, turn) ==
    CASE o.phase = "completed" ->
             {IF o.receipt = "none" THEN Inconsistent
                                    ELSE Decision("return_completed_receipt", "none")}
      [] o.phase # "completed" /\ target = "mismatch" ->
             {Decision("block", "target_binding_mismatch")}
      [] o.phase # "completed" /\ target = "unavailable" ->
             {IF o.boundary = "none" THEN Decision("block", "target_evidence_unavailable")
                                     ELSE EnterUncertain("target_evidence_unavailable")}
      [] o.phase # "completed" /\ target = "matches" ->
             IF Pending(o) = {} THEN {PhaseDecision(o, turn)}
             ELSE {PendingDecision(o, a, turn) : a \in Latest(o, Pending(o))}

\* "This function never authorizes replay of an action whose intent is already durable"
\* (recovery.ts:77): a caller that is told to go on preparing finds no Send in the
\* ledger, whatever uncertain episode brought the phase back, and no handoff either where
\* a handoff could start.
RecoveryNeverReplays ==
    \A target \in Targets, turn \in TurnSights :
        MayStart \in Decisions(s, target, turn) =>
            /\ OfKind(s, "send") = {}
            /\ s.phase = "prepared" => OfKind(s, "file_handoff") = {}

\* Recovery is never at a loss in a state that events can reach, unless the operation
\* became uncertain before it touched anything; and it follows a turn as the operation's
\* own only when a Send was recorded that may have made it.
RecoveryDecides ==
    \A target \in Targets, turn \in TurnSights :
        /\ Inconsistent \in Decisions(s, target, turn) =>
               s.phase = "uncertain" /\ s.boundary = "none"
        /\ {Capture, KeepLooking} \cap Decisions(s, target, turn) # {} =>
               OfKind(s, "send") # {}
=============================================================================
