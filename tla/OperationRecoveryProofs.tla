------------------------- MODULE OperationRecoveryProofs -------------------------
(***************************************************************************)
(* That a restarted caller is never sent back to a mutation it may already *)
(* have made, for every set of actions, bindings, turns, artifacts and     *)
(* destinations.  The decision looks at the phase and at the pending       *)
(* intents only; what makes it safe is that no event leads an operation    *)
(* with a recorded Send back to a phase before ready.                      *)
(***************************************************************************)
EXTENDS OperationRecovery, OperationStateProofs

\* No Send is recorded before the operation is ready for one.
NoSendBeforeReady ==
    s.phase \in {"prepared", "handoff_pending"} => OfKind(s, "send") = {}

\* Only an intent adds to a kind, and only to its own.
LEMMA IntentOfKind ==
    ASSUME NEW st \in OperationStates, NEW a \in ActionIds, NEW k \in Kinds,
           NEW b \in Bindings
    PROVE  /\ ActionIntent(st, a, k, b).phase = st.phase
           /\ \A j \in Kinds : j # k =>
                  OfKind(ActionIntent(st, a, k, b), j) \subseteq OfKind(st, j)
BY DEF ActionIntent, OfKind, OperationStates

LEMMA BaselineOfKind ==
    ASSUME NEW st \in OperationStates, NEW a \in ActionIds
    PROVE  /\ OwnershipBaseline(st, a).phase = st.phase
           /\ OwnershipBaseline(st, a).actions = st.actions
BY DEF OwnershipBaseline, OperationStates

LEMMA ReceiptOfKind ==
    ASSUME NEW st \in OperationStates, NEW a \in ActionIds, NEW o, NEW k
    PROVE  /\ ActionReceipt(st, a, o).phase = st.phase
           /\ OfKind(ActionReceipt(st, a, o), k) = OfKind(st, k)
<1>1. \A c \in ActionIds : ActionReceipt(st, a, o).actions[c].kind = st.actions[c].kind
  BY DEF ActionReceipt, OperationStates, ActionRecord, NoAction
<1> QED
  BY <1>1 DEF ActionReceipt, OfKind, OperationStates

\* A Send intent is accepted in ready only.
LEMMA SendIntentPhase ==
    ASSUME NEW st, NEW a, NEW b, ActionIntentLegal(st, a, "send", b)
    PROVE  st.phase = "ready"
BY DEF ActionIntentLegal, ActionPhases, RearmStaging, Kinds

LEMMA NoSendBeforeReadyInit == Init => NoSendBeforeReady
<1> SUFFICES ASSUME NEW p \in Policies, s = Created(p) PROVE NoSendBeforeReady
  BY DEF Init
<1> QED
  BY DEF Created, NoSendBeforeReady, OfKind, NoAction

LEMMA NoSendBeforeReadyNext ==
    TypeOK /\ NoSendBeforeReady /\ [Next]_s => NoSendBeforeReady'
<1> SUFFICES ASSUME TypeOK, NoSendBeforeReady, [Next]_s PROVE NoSendBeforeReady'
  OBVIOUS
<1> USE DEF TypeOK
\* Most events change neither the phase nor the kinds of the ledger.
<1>0. ASSUME s'.phase = s.phase, OfKind(s', "send") \subseteq OfKind(s, "send")
      PROVE  NoSendBeforeReady'
  BY <1>0 DEF NoSendBeforeReady
<1>1. CASE BindTarget
  <2>1. s'.phase = s.phase /\ s'.actions = s.actions
    BY <1>1 DEF BindTarget, TargetBound, OperationStates
  <2> QED
    BY <2>1, <1>0 DEF OfKind
<1>2. CASE EstablishTarget
  <2>1. s'.phase = s.phase /\ s'.actions = s.actions
    BY <1>2 DEF EstablishTarget, TargetEstablished, OperationStates
  <2> QED
    BY <2>1, <1>0 DEF OfKind
<1>3. CASE RecordIntent
  <2>1. PICK a \in ActionIds, k \in UsedKinds, b \in Bindings :
            ActionIntentLegal(s, a, k, b) /\ s' = ActionIntent(s, a, k, b)
    BY <1>3 DEF RecordIntent
  <2>2. k \in Kinds
    BY UsedKindsAssumption
  <2>3. CASE k = "send"
    BY <2>1, <2>2, <2>3, SendIntentPhase, IntentOfKind DEF NoSendBeforeReady
  <2>4. CASE k # "send"
    BY <2>1, <2>2, <2>4, <1>0, IntentOfKind DEF Kinds
  <2> QED
    BY <2>3, <2>4
<1>4. CASE RecordPrepared
  <2>1. PICK a \in ActionIds, k \in UsedKinds, b \in Bindings :
            ActionIntentLegal(s, a, k, b) /\ s' = OwnershipBaseline(ActionIntent(s, a, k, b), a)
    BY <1>4 DEF RecordPrepared, ActionPreparedLegal, ActionPrepared
  <2>2. k \in Kinds
    BY UsedKindsAssumption
  <2> DEFINE st1 == ActionIntent(s, a, k, b)
  <2>3. s'.phase = s.phase /\ s'.actions = st1.actions
    <3>1. s'.phase = st1.phase /\ s'.actions = st1.actions
      BY <2>1 DEF OwnershipBaseline, ActionIntent, OperationStates
    <3> QED
      BY <3>1, <2>2, IntentOfKind
  <2>4. CASE k = "send"
    BY <2>1, <2>3, <2>4, SendIntentPhase DEF NoSendBeforeReady
  <2>5. CASE k # "send"
    <3>1. OfKind(st1, "send") \subseteq OfKind(s, "send")
      BY <2>2, <2>5, IntentOfKind DEF Kinds
    <3>2. OfKind(s', "send") = OfKind(st1, "send")
      BY <2>3 DEF OfKind
    <3> QED
      BY <3>1, <3>2, <2>3, <1>0
  <2> QED
    BY <2>4, <2>5
<1>5. CASE RecordBaseline
  <2>1. s'.phase = s.phase /\ s'.actions = s.actions
    BY <1>5, BaselineOfKind DEF RecordBaseline
  <2> QED
    BY <2>1, <1>0 DEF OfKind
<1>6. CASE RecordReceipt
  BY <1>6, <1>0, ReceiptOfKind DEF RecordReceipt
<1>7. CASE RecordWitness
  <2>1. s'.phase = s.phase /\ s'.actions = s.actions
    BY <1>7 DEF RecordWitness, SubmissionWitness, OperationStates
  <2> QED
    BY <2>1, <1>0 DEF OfKind
<1>8. CASE RecordTransferIntent
  <2>1. s.phase = "capturing" /\ s'.phase = s.phase
    BY <1>8 DEF RecordTransferIntent, ArtifactTransferIntentLegal, ArtifactTransferIntent,
                ActionIntent, OperationStates
  <2> QED
    BY <2>1 DEF NoSendBeforeReady
<1>9. CASE RecordTransferReceipt
  <2>1. s.phase = "capturing" /\ s'.phase = s.phase
    BY <1>9 DEF RecordTransferReceipt, ArtifactTransferReceiptLegal, ArtifactTransferReceipt,
                ActionReceipt, OperationStates
  <2> QED
    BY <2>1 DEF NoSendBeforeReady
\* An edge into handoff_pending starts in prepared; none leads into prepared.
<1>10. CASE ChangePhase
  <2>1. PICK to \in Phases, c \in ActionIds \cup {"none"} :
            PhaseChangeLegal(s, to, c) /\ s' = PhaseChange(s, to)
    BY <1>10 DEF ChangePhase
  <2>2. s'.phase = to /\ s'.actions = s.actions
    BY <2>1 DEF PhaseChange, OperationStates
  <2>3. to \in LegalEdges[s.phase] /\ s.phase \in Phases
    BY <2>1 DEF PhaseChangeLegal, OperationStates
  <2>4. to # "prepared" /\ (to = "handoff_pending" => s.phase = "prepared")
    BY <2>3 DEF LegalEdges, Phases
  <2> QED
    BY <2>2, <2>4 DEF NoSendBeforeReady, OfKind
<1>11. CASE AuthorizeRearm
  <2>1. s'.phase = s.phase /\ s'.actions = s.actions
    BY <1>11 DEF AuthorizeRearm, RearmAuthorized, OperationStates
  <2> QED
    BY <2>1, <1>0 DEF OfKind
<1>12. CASE AttemptRearm
  <2>1. s'.phase = s.phase /\ s'.actions = s.actions
    BY <1>12 DEF AttemptRearm, RearmIntent, OperationStates
  <2> QED
    BY <2>1, <1>0 DEF OfKind
<1>13. CASE Complete
  BY <1>13 DEF Complete, ReceiptCompleted, OperationStates, NoSendBeforeReady
<1>14. CASE WithholdContent
  <2>1. s'.phase = s.phase /\ s'.actions = s.actions
    BY <1>14 DEF WithholdContent, ContentWithheld, OperationStates
  <2> QED
    BY <2>1, <1>0 DEF OfKind
<1>15. CASE UNCHANGED s
  BY <1>15, <1>0
<1> QED
  BY <1>1, <1>2, <1>3, <1>4, <1>5, <1>6, <1>7, <1>8, <1>9, <1>10, <1>11, <1>12, <1>13,
     <1>14, <1>15 DEF Next

\* A pending intent is never answered by the leave to go on preparing.
LEMMA PendingIsObserved ==
    ASSUME NEW o, NEW a, NEW turn
    PROVE  PendingDecision(o, a, turn) # MayStart
BY DEF PendingDecision, OwnedTurnDecision, Observe, EnterUncertain, Capture, KeepLooking,
       MayStart, Decision

\* The leave to go on preparing comes from the phase, with no intent pending.
LEMMA MayStartOnly ==
    ASSUME NEW target \in Targets, NEW turn, MayStart \in Decisions(s, target, turn)
    PROVE  Pending(s) = {} /\ s.phase \in {"prepared", "ready"}
<1>1. target = "matches" /\ s.phase # "completed"
  BY DEF Decisions, Targets, MayStart, Inconsistent, Decision, EnterUncertain
<1>2. CASE Pending(s) # {}
  <2>1. PICK a \in Latest(s, Pending(s)) : PendingDecision(s, a, turn) = MayStart
    BY <1>1, <1>2 DEF Decisions
  <2> QED
    BY <2>1, PendingIsObserved
<1>3. CASE Pending(s) = {}
  <2>1. PhaseDecision(s, turn) = MayStart
    BY <1>1, <1>3 DEF Decisions
  <2>2. s.phase \in {"prepared", "ready"}
    BY <2>1 DEF PhaseDecision, OwnedTurnDecision, EnterUncertain, Capture, KeepLooking,
                Inconsistent, MayStart, Decision
  <2> QED
    BY <1>3, <2>2
<1> QED
  BY <1>2, <1>3

LEMMA PreparationIsFresh == NoSendBeforeReady => RecoveryNeverReplays
<1> SUFFICES ASSUME NoSendBeforeReady, NEW target \in Targets, NEW turn \in TurnSights,
                    MayStart \in Decisions(s, target, turn)
             PROVE  /\ OfKind(s, "send") = {}
                    /\ s.phase = "prepared" => OfKind(s, "file_handoff") = {}
  BY DEF RecoveryNeverReplays
<1>1. Pending(s) = {} /\ s.phase \in {"prepared", "ready"}
  BY MayStartOnly
<1>2. s.phase = "prepared" => OfKind(s, "file_handoff") = {}
  BY <1>1 DEF Pending, OfKind, Recorded
<1>3. CASE s.phase = "ready"
  BY <1>1, <1>3 DEF Pending, OfKind, Recorded
<1>4. CASE s.phase = "prepared"
  BY <1>2, <1>4 DEF NoSendBeforeReady
<1> QED
  BY <1>1, <1>2, <1>3, <1>4

\* A restarted caller that recovery.ts sends on to prepare has no recorded Send, and no
\* recorded handoff where a handoff could start: in whatever order hosts append, crash
\* and leave uncertain episodes, no non-repeatable action is authorized twice.
THEOREM RecoveryIsSafe == Spec => []RecoveryNeverReplays
<1>1. Init => TypeOK
  BY TypeInit
<1>2. TypeOK /\ [Next]_s => TypeOK'
  BY TypeNext
<1> QED
  BY <1>1, <1>2, NoSendBeforeReadyInit, NoSendBeforeReadyNext, PreparationIsFresh, PTL DEF Spec

(***************************************************************************)
(* That recovery always has an answer, and follows only a turn its Send    *)
(* may have made.                                                          *)
(***************************************************************************)
Controls == OfKind(s, "work_steer") \cup OfKind(s, "stop")

\* A control is recorded for a generating operation only, which has its Send.
ControlFollowsSend == Controls # {} => OfKind(s, "send") # {}

\* The events that leave the actions alone.
LEMMA ActionsFrame ==
    ASSUME TypeOK, \/ BindTarget \/ EstablishTarget \/ RecordBaseline \/ RecordWitness
                   \/ ChangePhase \/ AuthorizeRearm \/ AttemptRearm \/ Complete \/ WithholdContent
    PROVE  s'.actions = s.actions
<1> s \in OperationStates
  BY DEF TypeOK
<1>1. CASE BindTarget \/ EstablishTarget
  BY <1>1 DEF BindTarget, TargetBound, EstablishTarget, TargetEstablished, OperationStates
<1>2. CASE RecordBaseline \/ RecordWitness
  BY <1>2 DEF RecordBaseline, OwnershipBaseline, RecordWitness, SubmissionWitness, OperationStates
<1>3. CASE ChangePhase \/ AuthorizeRearm \/ AttemptRearm
  BY <1>3 DEF ChangePhase, PhaseChange, AuthorizeRearm, RearmAuthorized, AttemptRearm,
              RearmIntent, OperationStates
<1>4. CASE Complete \/ WithholdContent
  BY <1>4 DEF Complete, ReceiptCompleted, WithholdContent, ContentWithheld, OperationStates
<1> QED
  BY <1>1, <1>2, <1>3, <1>4

\* A control's intent is the only thing that makes an action a control.
LEMMA ControlRecorded ==
    ASSUME TypeOK, Coherent, Next, Controls' # Controls
    PROVE  s.phase = "generating"
<1> USE DEF TypeOK, OperationStates
<1>1. CASE BindTarget \/ EstablishTarget \/ RecordBaseline \/ RecordWitness \/ ChangePhase
           \/ AuthorizeRearm \/ AttemptRearm \/ Complete \/ WithholdContent
  <2>1. s'.actions = s.actions
    BY <1>1, ActionsFrame DEF TypeOK, OperationStates
  <2> QED
    BY <2>1 DEF Controls, OfKind
<1>2. CASE RecordIntent \/ RecordPrepared
  <2>1. PICK a \in ActionIds, k \in UsedKinds, b \in Bindings :
            /\ ActionIntentLegal(s, a, k, b)
            /\ s' = ActionIntent(s, a, k, b) \/ s' = OwnershipBaseline(ActionIntent(s, a, k, b), a)
    BY <1>2 DEF RecordIntent, RecordPrepared, ActionPreparedLegal, ActionPrepared
  <2>2. s'.actions = [s.actions EXCEPT ![a] = [kind |-> k, target |-> b, outcome |-> "open"]]
    BY <2>1 DEF ActionIntent, OwnershipBaseline
  <2>3. k \in Kinds
    BY UsedKindsAssumption
  <2>4. CASE k \in {"work_steer", "stop"}
    BY <2>1, <2>4 DEF ActionIntentLegal, ActionPhases, RearmStaging, Kinds
  <2>5. CASE k \notin {"work_steer", "stop"}
    <3>1. s.actions[a].kind = "absent"
      BY <2>1 DEF ActionIntentLegal
    <3> QED
      BY <2>2, <2>5, <3>1 DEF Controls, OfKind
  <2> QED
    BY <2>4, <2>5
<1>3. CASE RecordReceipt \/ RecordTransferReceipt
  <2>1. PICK a \in ActionIds, o \in Outcomes :
            /\ ActionReceiptLegal(s, a)
            /\ s'.actions = [s.actions EXCEPT ![a].outcome = o]
    <3>1. CASE RecordReceipt
      <4>1. PICK a \in ActionIds, o \in Outcomes :
                ActionReceiptLegal(s, a) /\ s' = ActionReceipt(s, a, o)
        BY <3>1 DEF RecordReceipt
      <4>2. s'.actions = [s.actions EXCEPT ![a].outcome = o]
        BY <4>1 DEF ActionReceipt
      <4> QED
        BY <4>1, <4>2
    <3>2. CASE RecordTransferReceipt
      <4>1. PICK a \in ActionIds, r \in TransferResults :
                ArtifactTransferReceiptLegal(s, a) /\ s' = ArtifactTransferReceipt(s, a, r)
        BY <3>2 DEF RecordTransferReceipt
      <4>2. TransferOutcome(r) \in Outcomes
        BY DEF TransferOutcome, Outcomes
      <4>3. s'.actions = [s.actions EXCEPT ![a].outcome = TransferOutcome(r)]
        BY <4>1 DEF ArtifactTransferReceipt, ActionReceipt
      <4> QED
        BY <4>1, <4>2, <4>3 DEF ArtifactTransferReceiptLegal
    <3> QED
      BY <1>3, <3>1, <3>2
  <2>2. \A c \in ActionIds : s'.actions[c].kind = s.actions[c].kind
    BY <2>1 DEF ActionRecord, NoAction, ActionReceiptLegal, Recorded
  <2> QED
    BY <2>2 DEF Controls, OfKind
<1>4. CASE RecordTransferIntent
  <2>1. PICK a \in ActionIds, x \in Artifacts, d \in Destinations :
            /\ ArtifactTransferIntentLegal(s, a, x, d)
            /\ s' = ArtifactTransferIntent(s, a, x, d)
    BY <1>4 DEF RecordTransferIntent
  <2> DEFINE b == s.actions[CHOOSE e \in OfKind(s, "send") : TRUE].target
  <2> HIDE DEF b
  <2>2. s' = [ActionIntent(s, a, "local_output_commit", b)
                EXCEPT !.transfers[a] = [artifact |-> x, dest |-> d, result |-> "open"]]
    BY <2>1 DEF ArtifactTransferIntent, b
  <2>3. s'.actions =
            [s.actions EXCEPT ![a] = [kind |-> "local_output_commit", target |-> b, outcome |-> "open"]]
    BY <2>2 DEF ActionIntent
  <2>4. s.actions[a].kind = "absent"
    BY <2>1 DEF ArtifactTransferIntentLegal, ActionIntentLegal
  <2> QED
    BY <2>3, <2>4 DEF Controls, OfKind
<1> QED
  BY <1>1, <1>2, <1>3, <1>4 DEF Next

LEMMA ControlInit == Init => ControlFollowsSend
<1> SUFFICES ASSUME NEW p \in Policies, s = Created(p) PROVE ControlFollowsSend
  BY DEF Init
<1> QED
  BY DEF Created, ControlFollowsSend, Controls, OfKind, NoAction

LEMMA ControlNext ==
    TypeOK /\ Coherent /\ ControlFollowsSend /\ [Next]_s => ControlFollowsSend'
<1> SUFFICES ASSUME TypeOK, Coherent, ControlFollowsSend, [Next]_s, Controls' # {}
             PROVE  OfKind(s, "send")' # {}
  BY DEF ControlFollowsSend
<1>1. CASE s' = s
  BY <1>1 DEF ControlFollowsSend, Controls, OfKind
<1>2. CASE Next /\ s' # s
  <2>1. OfKind(s, "send") # {}
    <3>1. CASE Controls' = Controls
      BY <3>1 DEF ControlFollowsSend
    <3>2. CASE Controls' # Controls
      BY <1>2, <3>2, ControlRecorded DEF Coherent, OwnedPhaseIsProven, OwnedPhases, SendOwned
    <3> QED
      BY <3>1, <3>2
  <2>2. OfKind(s, "send") \subseteq OfKind(s, "send")'
    BY <1>2, LedgerGrowsNext DEF LedgerGrows, OfKind, Recorded
  <2> QED
    BY <2>1, <2>2
<1> QED
  BY <1>1, <1>2

\* What decideOperationRecovery may answer at all, by the place that answers.
LEMMA DecisionPlace ==
    ASSUME NEW target \in Targets, NEW turn \in TurnSights, NEW d,
           d \in Decisions(s, target, turn), d \in {Inconsistent, Capture, KeepLooking}
    PROVE  \/ s.phase = "completed" /\ s.receipt = "none" /\ d = Inconsistent
           \/ s.phase # "completed" /\ Pending(s) = {} /\ d = PhaseDecision(s, turn)
           \/ \E a \in Pending(s) : d # Inconsistent /\ s.actions[a].kind # "file_handoff"
<1> USE DEF Decision, Inconsistent, Capture, KeepLooking, EnterUncertain, Observe
<1>1. CASE s.phase = "completed"
  BY <1>1 DEF Decisions
<1>2. CASE s.phase # "completed" /\ target # "matches"
  BY <1>2 DEF Decisions, Targets
<1>3. CASE s.phase # "completed" /\ target = "matches" /\ Pending(s) = {}
  BY <1>3 DEF Decisions
<1>4. CASE s.phase # "completed" /\ target = "matches" /\ Pending(s) # {}
  <2>1. PICK a \in Latest(s, Pending(s)) : d = PendingDecision(s, a, turn)
    BY <1>4 DEF Decisions
  <2>2. a \in Pending(s)
    BY <2>1 DEF Latest
  <2>3. d # Inconsistent /\ s.actions[a].kind # "file_handoff"
    BY <2>1 DEF PendingDecision, OwnedTurnDecision
  <2> QED
    BY <2>2, <2>3
<1> QED
  BY <1>1, <1>2, <1>3, <1>4 DEF Targets

\* The kinds whose intents are pending.
LEMMA PendingKind ==
    ASSUME NEW a \in Pending(s)
    PROVE  /\ a \in ActionIds
           /\ s.actions[a].kind \in {"file_handoff", "send", "work_steer", "stop"}
BY DEF Pending, Recorded

\* An uncertain operation that touched something has an intent to observe.
LEMMA UncertainIsPending ==
    ASSUME TypeOK, Coherent, s.phase = "uncertain", Pending(s) = {}
    PROVE  s.boundary = "none"
<1> SUFFICES ASSUME s.boundary # "none" PROVE FALSE
  OBVIOUS
<1>1. PICK a \in Recorded(s) : BoundaryForAction(s.actions[a].kind) = s.boundary
  BY DEF Coherent, BoundaryMatchesLedger
<1>2. s.actions[a].kind \in {"file_handoff", "send", "work_steer", "stop"}
  BY <1>1 DEF BoundaryForAction
<1>3. a \in Pending(s)
  BY <1>1, <1>2 DEF Pending
<1> QED
  BY <1>3

LEMMA RecoveryAnswers ==
    TypeOK /\ Coherent /\ TerminalAccountsForTransfers /\ ControlFollowsSend => RecoveryDecides
<1> SUFFICES ASSUME TypeOK, Coherent, TerminalAccountsForTransfers, ControlFollowsSend,
                    NEW target \in Targets, NEW turn \in TurnSights
             PROVE  /\ Inconsistent \in Decisions(s, target, turn) =>
                           s.phase = "uncertain" /\ s.boundary = "none"
                    /\ {Capture, KeepLooking} \cap Decisions(s, target, turn) # {} =>
                           OfKind(s, "send") # {}
  BY DEF RecoveryDecides
<1> USE DEF Decision, Inconsistent, Capture, KeepLooking, EnterUncertain, MayStart
<1>1. ~(s.phase = "completed" /\ s.receipt = "none")
  BY DEF TerminalAccountsForTransfers
<1>2. s.phase \in Phases
  BY DEF TypeOK, OperationStates
\* The phases that wait for a postcondition have the intent they wait for.
<1>3. s.phase \in {"handoff_pending", "send_pending"} => Pending(s) # {}
  BY DEF Coherent, PendingPhaseHasIntent, OfKind, Pending, Recorded
<1>4. ASSUME Inconsistent \in Decisions(s, target, turn)
      PROVE  s.phase = "uncertain" /\ s.boundary = "none"
  <2>1. Pending(s) = {} /\ Inconsistent = PhaseDecision(s, turn) /\ s.phase # "completed"
    BY <1>1, <1>4, DecisionPlace
  <2>2. s.phase = "uncertain"
    BY <1>2, <1>3, <2>1 DEF PhaseDecision, OwnedTurnDecision, Phases
  <2> QED
    BY <2>1, <2>2, UncertainIsPending
<1>5. ASSUME NEW d \in {Capture, KeepLooking}, d \in Decisions(s, target, turn)
      PROVE  OfKind(s, "send") # {}
  <2>1. CASE \E a \in Pending(s) : s.actions[a].kind # "file_handoff"
    BY <2>1, PendingKind DEF ControlFollowsSend, Controls, OfKind
  <2>2. CASE Pending(s) = {} /\ d = PhaseDecision(s, turn)
    <3>1. s.phase \in {"capturing", "submitted", "generating"}
      BY <2>2, UncertainIsPending DEF PhaseDecision
    <3> QED
      BY <3>1 DEF Coherent, OwnedPhaseIsProven, OwnedPhases, SendOwned
  <2>3. d # Inconsistent
    OBVIOUS
  <2> QED
    BY <1>5, <2>1, <2>2, <2>3, DecisionPlace
<1> QED
  BY <1>4, <1>5

\* Recovery is never at a loss in a state that events can reach, save one that became
\* uncertain before it touched anything, and follows a turn only behind a recorded Send.
THEOREM RecoveryIsComplete == Spec => []RecoveryDecides
<1>1. Init => TypeOK /\ Coherent
  BY TypeInit, CoherentInit
<1>2. (TypeOK /\ Coherent) /\ [Next]_s => (TypeOK /\ Coherent)'
  BY TypeNext, CoherentNext
<1> QED
  BY <1>1, <1>2, TerminalInit, TerminalNext, ControlInit, ControlNext, RecoveryAnswers,
     PTL DEF Spec
=============================================================================
