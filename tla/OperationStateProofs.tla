-------------------------- MODULE OperationStateProofs --------------------------
(***************************************************************************)
(* Proofs about OperationState, for every set of actions, bindings, turns, *)
(* artifacts and destinations.                                             *)
(***************************************************************************)
EXTENDS OperationState, TLAPS

\* The type of a boundary that an intent raises.
LEMMA HigherType ==
    ASSUME NEW b \in Boundaries, NEW c \in Boundaries
    PROVE  Higher(b, c) \in {b, c}
BY DEF Higher

LEMMA BoundaryForActionType ==
    ASSUME NEW k \in Kinds
    PROVE  BoundaryForAction(k) \in Boundaries
BY DEF Kinds, BoundaryForAction, Boundaries

LEMMA ActionIntentType ==
    ASSUME NEW st \in OperationStates, NEW a \in ActionIds, NEW k \in Kinds,
           NEW b \in Bindings
    PROVE  ActionIntent(st, a, k, b) \in OperationStates
<1>1. Higher(BoundaryForAction(k), st.boundary) \in Boundaries
  BY HigherType, BoundaryForActionType DEF OperationStates
<1>2. [kind |-> k, target |-> b, outcome |-> "open"] \in ActionRecord
  BY DEF ActionRecord
<1> QED
  BY <1>1, <1>2 DEF ActionIntent, OperationStates

LEMMA OwnershipBaselineType ==
    ASSUME NEW st \in OperationStates, NEW a \in ActionIds
    PROVE  OwnershipBaseline(st, a) \in OperationStates
BY DEF OwnershipBaseline, OperationStates

LEMMA ActionReceiptType ==
    ASSUME NEW st \in OperationStates, NEW a \in Recorded(st), NEW o \in Outcomes
    PROVE  ActionReceipt(st, a, o) \in OperationStates
<1>1. /\ a \in ActionIds
      /\ st.actions[a] \in [kind: Kinds, target: Bindings, outcome: Outcomes \cup {"open"}]
  BY DEF Recorded, OperationStates, ActionRecord, NoAction
<1>2. [st.actions[a] EXCEPT !.outcome = o] \in ActionRecord
  BY <1>1 DEF ActionRecord
<1> QED
  BY <1>1, <1>2 DEF ActionReceipt, OperationStates

LEMMA TransferIntentType ==
    ASSUME NEW st \in OperationStates, NEW a \in ActionIds,
           NEW x \in Artifacts, NEW d \in Destinations, OfKind(st, "send") # {}
    PROVE  ArtifactTransferIntent(st, a, x, d) \in OperationStates
<1> DEFINE b == st.actions[CHOOSE c \in OfKind(st, "send") : TRUE].target
           st1 == ActionIntent(st, a, "local_output_commit", b)
<1>1. PICK c \in ActionIds : st.actions[c].kind = "send" /\ b = st.actions[c].target
  BY DEF OfKind
<1>2. b \in Bindings
  BY <1>1 DEF OperationStates, ActionRecord, NoAction
<1> HIDE DEF b
<1>3. st1 \in OperationStates
  BY <1>2, ActionIntentType DEF Kinds
<1>4. [artifact |-> x, dest |-> d, result |-> "open"] \in TransferRecord
  BY DEF TransferRecord
<1> HIDE DEF st1
<1>5. [st1 EXCEPT !.transfers[a] = [artifact |-> x, dest |-> d, result |-> "open"]]
         \in OperationStates
  BY <1>3, <1>4 DEF OperationStates
<1> QED
  BY <1>5 DEF ArtifactTransferIntent, st1, b

LEMMA TransferReceiptType ==
    ASSUME NEW st \in OperationStates, NEW a \in ActionIds, NEW r \in TransferResults,
           ArtifactTransferReceiptLegal(st, a)
    PROVE  ArtifactTransferReceipt(st, a, r) \in OperationStates
<1> DEFINE st1 == ActionReceipt(st, a, TransferOutcome(r))
<1>1. TransferOutcome(r) \in Outcomes
  BY DEF TransferOutcome, Outcomes
<1>2. st1 \in OperationStates /\ st1.transfers = st.transfers
  <2>1. a \in Recorded(st)
    BY DEF ArtifactTransferReceiptLegal, ActionReceiptLegal
  <2>2. st1 \in OperationStates
    BY <1>1, <2>1, ActionReceiptType
  <2>3. st1.transfers = st.transfers
    BY DEF ActionReceipt, OperationStates
  <2> QED
    BY <2>2, <2>3
<1> HIDE DEF st1
<1>3. st1.transfers[a] \in [artifact: Artifacts, dest: Destinations,
                            result: TransferResults \cup {"open"}]
  BY <1>2 DEF ArtifactTransferReceiptLegal, OperationStates, TransferRecord, NoTransfer
<1>4. [st1.transfers[a] EXCEPT !.result = r] \in TransferRecord
  BY <1>3 DEF TransferRecord
<1>5. [st1 EXCEPT !.transfers[a].result = r] \in OperationStates
  BY <1>2, <1>4 DEF OperationStates
<1> QED
  BY <1>5 DEF ArtifactTransferReceipt, st1

\* A receipt that matches the ledger lists settled transfers of real artifacts.
LEMMA DeliveredType ==
    ASSUME NEW st \in OperationStates, NEW items, ReceiptMatchesTransfers(st, items)
    PROVE  items \subseteq Artifacts \X TransferResults
<1>1. CASE st.policy # "transfer"
  BY <1>1 DEF ReceiptMatchesTransfers
<1>2. CASE st.policy = "transfer"
  <2>1. items = SettledTransfers(st) /\ \A a \in Transfers(st) : st.transfers[a].result # "open"
    BY <1>2 DEF ReceiptMatchesTransfers
  <2>2. \A a \in Transfers(st) :
            st.transfers[a].artifact \in Artifacts /\ st.transfers[a].result \in TransferResults
    BY <2>1 DEF Transfers, OperationStates, TransferRecord, NoTransfer
  <2> QED
    BY <2>1, <2>2 DEF SettledTransfers
<1> QED
  BY <1>1, <1>2

\* Type correctness of the operation record.
LEMMA TypeInit == Init => TypeOK
<1> SUFFICES ASSUME NEW p \in Policies, s = Created(p) PROVE TypeOK
  BY DEF Init
<1>1. p \in {"unset", "receipt_only", "transfer"}
  BY PoliciesAssumption
<1>2. [a \in ActionIds |-> NoAction] \in [ActionIds -> ActionRecord]
  BY DEF ActionRecord
<1>3. [a \in ActionIds |-> NoTransfer] \in [ActionIds -> TransferRecord]
  BY DEF TransferRecord
<1> QED
  BY <1>1, <1>2, <1>3 DEF Created, TypeOK, OperationStates, Phases, Boundaries

LEMMA TypeNext == TypeOK /\ [Next]_s => TypeOK'
<1> SUFFICES ASSUME TypeOK, [Next]_s PROVE TypeOK'
  OBVIOUS
<1> USE DEF TypeOK
<1>1. CASE BindTarget
  <2>1. PICK l \in {"fixed", "new_pending", "new_established"}, b \in Bindings :
            s' = TargetBound(s, l, b)
    BY <1>1 DEF BindTarget
  <2> QED
    BY <2>1 DEF TargetBound, OperationStates
<1>2. CASE EstablishTarget
  <2>1. PICK t \in Turns : s' = TargetEstablished(s, t)
    BY <1>2 DEF EstablishTarget
  <2> QED
    BY <2>1 DEF TargetEstablished, OperationStates
<1>3. CASE RecordIntent
  BY <1>3, UsedKindsAssumption, ActionIntentType DEF RecordIntent
<1>4. CASE RecordPrepared
  BY <1>4, UsedKindsAssumption, ActionIntentType, OwnershipBaselineType
     DEF RecordPrepared, ActionPrepared
<1>5. CASE RecordBaseline
  BY <1>5, OwnershipBaselineType DEF RecordBaseline
<1>6. CASE RecordReceipt
  BY <1>6, ActionReceiptType DEF RecordReceipt, ActionReceiptLegal
<1>7. CASE RecordWitness
  <2>1. PICK a \in ActionIds, t \in Turns : s' = SubmissionWitness(s, a, t)
    BY <1>7 DEF RecordWitness
  <2> QED
    BY <2>1 DEF SubmissionWitness, OperationStates
<1>8. CASE RecordTransferIntent
  <2>1. PICK a \in ActionIds, x \in Artifacts, d \in Destinations :
            /\ ArtifactTransferIntentLegal(s, a, x, d)
            /\ s' = ArtifactTransferIntent(s, a, x, d)
    BY <1>8 DEF RecordTransferIntent
  <2> QED
    BY <2>1, TransferIntentType DEF ArtifactTransferIntentLegal
<1>9. CASE RecordTransferReceipt
  BY <1>9, TransferReceiptType DEF RecordTransferReceipt
<1>10. CASE ChangePhase
  <2>1. PICK to \in Phases : s' = PhaseChange(s, to)
    BY <1>10 DEF ChangePhase
  <2> QED
    BY <2>1 DEF PhaseChange, OperationStates
<1>11. CASE AuthorizeRearm
  <2>1. PICK b \in Bindings : s' = RearmAuthorized(s, b)
    BY <1>11 DEF AuthorizeRearm
  <2> QED
    BY <2>1 DEF RearmAuthorized, OperationStates
<1>12. CASE AttemptRearm
  <2>1. s' = RearmIntent(s)
    BY <1>12 DEF AttemptRearm
  <2> QED
    BY <2>1 DEF RearmIntent, OperationStates
<1>13. CASE Complete
  <2>1. PICK items \in {{}, SettledTransfers(s)}, content \in {"available", "withheld"} :
            /\ ReceiptMatchesTransfers(s, items)
            /\ s' = ReceiptCompleted(s, items, content)
    BY <1>13 DEF Complete, ReceiptCompletedLegal
  <2>2. items \subseteq Artifacts \X TransferResults
    BY <2>1, DeliveredType
  <2> DEFINE moved == [s EXCEPT !.phase = "completed"]
             given == [moved EXCEPT !.receipt = content]
  <2>3. moved \in OperationStates
    BY DEF OperationStates, Phases
  <2>4. s' = [given EXCEPT !.delivered = items]
    BY <2>1 DEF ReceiptCompleted
  <2> HIDE DEF moved
  <2>5. given \in OperationStates
    BY <2>3 DEF OperationStates
  <2> HIDE DEF given
  <2> QED
    BY <2>2, <2>4, <2>5 DEF OperationStates
<1>14. CASE WithholdContent
  BY <1>14 DEF WithholdContent, ContentWithheld, OperationStates
<1>15. CASE UNCHANGED s
  BY <1>15
<1> QED
  BY <1>1, <1>2, <1>3, <1>4, <1>5, <1>6, <1>7, <1>8, <1>9, <1>10, <1>11, <1>12, <1>13,
     <1>14, <1>15 DEF Next

\* Every state the reducer reaches is a well-typed operation record.
THEOREM TypeCorrect == Spec => []TypeOK
BY TypeInit, TypeNext, PTL DEF Spec

(***************************************************************************)
(* Coherence is inductive together with the type of the record.            *)
(***************************************************************************)
LEMMA CoherentInit == Init => Coherent
<1> SUFFICES ASSUME NEW p \in Policies, s = Created(p) PROVE Coherent
  BY DEF Init
<1>1. /\ s.phase = "prepared" /\ s.boundary = "none" /\ s.lifecycle = "unbound"
      /\ s.actions = [a \in ActionIds |-> NoAction] /\ s.baselines = {} /\ s.rearm = "none"
      /\ s.witnesses = [a \in ActionIds |-> "none"] /\ s.establishedTurn = "none"
      /\ s.transfers = [a \in ActionIds |-> NoTransfer]
  BY DEF Created
<1>2. Recorded(s) = {} /\ Transfers(s) = {}
  BY <1>1 DEF Recorded, Transfers, NoAction, NoTransfer
<1>3. BoundaryMatchesLedger /\ AtMostOneSend /\ OwnedPhaseIsProven
  BY <1>1, <1>2
     DEF BoundaryMatchesLedger, AtMostOneSend, OwnedPhaseIsProven, OwnedPhases,
         SingleIntentKinds, NoAction
<1>4. RearmIsProven /\ OwnershipLedger /\ EstablishedBySend /\ TransferLedger
      /\ PendingPhaseHasIntent
  BY <1>1, <1>2
     DEF RearmIsProven, OwnershipLedger, RejectedAfterWitness, EstablishedBySend, TransferLedger,
         PendingPhaseHasIntent
<1> QED
  BY <1>3, <1>4 DEF Coherent

LEMMA CoherentBindTarget == TypeOK /\ Coherent /\ BindTarget => Coherent'
<1> SUFFICES ASSUME TypeOK, Coherent, BindTarget PROVE Coherent'
  OBVIOUS
<1> USE DEF Coherent
<1>1. PICK l \in {"fixed", "new_pending", "new_established"}, b \in Bindings :
          TargetBoundLegal(s, l, b) /\ s' = TargetBound(s, l, b)
  BY DEF BindTarget
<1>2. /\ s'.phase = s.phase /\ s'.boundary = s.boundary /\ s'.actions = s.actions
      /\ s'.baselines = s.baselines /\ s'.witnesses = s.witnesses
      /\ s'.establishedTurn = s.establishedTurn
      /\ s'.rearm = s.rearm /\ s'.transfers = s.transfers /\ s'.policy = s.policy
      /\ s'.lifecycle = l
  BY <1>1 DEF TargetBound, TypeOK, OperationStates
<1>3. BoundaryMatchesLedger' /\ AtMostOneSend' /\ RearmIsProven' /\ TransferLedger'
      /\ PendingPhaseHasIntent'
  BY <1>2
     DEF BoundaryMatchesLedger, AtMostOneSend, RearmIsProven, TransferLedger,
         PendingPhaseHasIntent, Recorded, OfKind, Transfers
<1>4. OwnedPhaseIsProven'
  BY <1>1, <1>2, SentinelAssumption
     DEF OwnedPhaseIsProven, OfKind, SendOwned, OwnershipLedger, RejectedAfterWitness,
         TargetBoundLegal, Bound, TypeOK, OperationStates
<1>5. OwnershipLedger'
  BY <1>1, <1>2, SentinelAssumption
     DEF OwnershipLedger, RejectedAfterWitness, TargetBoundLegal, Bound, TypeOK, OperationStates
<1>6. EstablishedBySend'
  BY <1>1, <1>2, SentinelAssumption
     DEF EstablishedBySend, OfKind, TargetBoundLegal, Bound, TypeOK, OperationStates
<1> QED
  BY <1>3, <1>4, <1>5, <1>6

LEMMA CoherentEstablishTarget == TypeOK /\ Coherent /\ EstablishTarget => Coherent'
<1> SUFFICES ASSUME TypeOK, Coherent, EstablishTarget PROVE Coherent'
  OBVIOUS
<1> USE DEF Coherent
<1>1. PICK a \in ActionIds, t \in Turns :
          TargetEstablishedLegal(s, a) /\ s' = TargetEstablished(s, t)
  BY DEF EstablishTarget
<1>2. /\ s'.phase = s.phase /\ s'.boundary = s.boundary /\ s'.actions = s.actions
      /\ s'.baselines = s.baselines /\ s'.witnesses = s.witnesses /\ s'.rearm = s.rearm
      /\ s'.transfers = s.transfers /\ s'.policy = s.policy
      /\ s'.lifecycle = "new_established" /\ s'.establishedTurn = t
  BY <1>1 DEF TargetEstablished, TypeOK, OperationStates
<1>3. BoundaryMatchesLedger' /\ AtMostOneSend' /\ RearmIsProven' /\ TransferLedger'
      /\ PendingPhaseHasIntent'
  BY <1>2
     DEF BoundaryMatchesLedger, AtMostOneSend, RearmIsProven, TransferLedger,
         PendingPhaseHasIntent, Recorded, OfKind, Transfers
<1>4. OwnedPhaseIsProven'
  BY <1>1, <1>2, SentinelAssumption
     DEF OwnedPhaseIsProven, OfKind, SendOwned, TypeOK, OperationStates
<1>5. OwnershipLedger'
  BY <1>1, <1>2, SentinelAssumption
     DEF OwnershipLedger, RejectedAfterWitness, TargetEstablishedLegal, TypeOK, OperationStates
<1>6. EstablishedBySend'
  BY <1>1, <1>2, SentinelAssumption
     DEF EstablishedBySend, OfKind, TargetEstablishedLegal, TypeOK, OperationStates
<1> QED
  BY <1>3, <1>4, <1>5, <1>6

LEMMA CoherentRecordBaseline == TypeOK /\ Coherent /\ RecordBaseline => Coherent'
<1> SUFFICES ASSUME TypeOK, Coherent, RecordBaseline PROVE Coherent'
  OBVIOUS
<1> USE DEF Coherent
<1>1. PICK a \in ActionIds :
          OwnershipBaselineLegal(s, a) /\ s' = OwnershipBaseline(s, a)
  BY DEF RecordBaseline
<1>2. /\ s'.phase = s.phase /\ s'.boundary = s.boundary /\ s'.lifecycle = s.lifecycle
      /\ s'.actions = s.actions /\ s'.witnesses = s.witnesses
      /\ s'.establishedTurn = s.establishedTurn
      /\ s'.rearm = s.rearm /\ s'.transfers = s.transfers /\ s'.policy = s.policy
      /\ s'.baselines = s.baselines \cup {a}
  BY <1>1 DEF OwnershipBaseline, TypeOK, OperationStates
<1>3. BoundaryMatchesLedger' /\ AtMostOneSend' /\ RearmIsProven' /\ EstablishedBySend'
      /\ TransferLedger' /\ PendingPhaseHasIntent'
  BY <1>2
     DEF BoundaryMatchesLedger, AtMostOneSend, RearmIsProven, EstablishedBySend,
         TransferLedger, PendingPhaseHasIntent, Recorded, OfKind, Transfers
<1>4. OwnedPhaseIsProven'
  BY <1>1, <1>2, SentinelAssumption
     DEF OwnedPhaseIsProven, OfKind, SendOwned, TypeOK, OperationStates
<1>5. OwnershipLedger'
  BY <1>1, <1>2, SentinelAssumption
     DEF OwnershipLedger, RejectedAfterWitness, OwnershipBaselineLegal, TypeOK, OperationStates
<1> QED
  BY <1>3, <1>4, <1>5

LEMMA CoherentRecordWitness == TypeOK /\ Coherent /\ RecordWitness => Coherent'
<1> SUFFICES ASSUME TypeOK, Coherent, RecordWitness PROVE Coherent'
  OBVIOUS
<1> USE DEF Coherent
<1>1. PICK a \in ActionIds, t \in Turns :
          SubmissionWitnessLegal(s, a, t) /\ s' = SubmissionWitness(s, a, t)
  BY DEF RecordWitness
<1>2. /\ s'.phase = s.phase /\ s'.boundary = s.boundary /\ s'.lifecycle = s.lifecycle
      /\ s'.actions = s.actions /\ s'.baselines = s.baselines
      /\ s'.establishedTurn = s.establishedTurn
      /\ s'.rearm = s.rearm /\ s'.transfers = s.transfers /\ s'.policy = s.policy
      /\ s'.witnesses = [s.witnesses EXCEPT ![a] = t]
  BY <1>1 DEF SubmissionWitness, TypeOK, OperationStates
<1>3. s'.witnesses[a] = t /\ \A c \in ActionIds \ {a} : s'.witnesses[c] = s.witnesses[c]
  BY <1>2 DEF TypeOK, OperationStates
<1>4. BoundaryMatchesLedger' /\ AtMostOneSend' /\ RearmIsProven' /\ EstablishedBySend'
      /\ TransferLedger' /\ PendingPhaseHasIntent'
  BY <1>2, <1>3
     DEF BoundaryMatchesLedger, AtMostOneSend, RearmIsProven, EstablishedBySend,
         TransferLedger, PendingPhaseHasIntent, Recorded, OfKind, Transfers
<1>5. OwnedPhaseIsProven'
  BY <1>1, <1>2, <1>3, SentinelAssumption
     DEF OwnedPhaseIsProven, OfKind, SendOwned, TypeOK, OperationStates
<1>6. s.actions[a].outcome \in {"open", "satisfied"}
  BY <1>1
     DEF SubmissionWitnessLegal, TypeOK, OperationStates, ActionRecord, NoAction, Outcomes
<1>7. OwnershipLedger'
  BY <1>1, <1>2, <1>3, <1>6, SentinelAssumption
     DEF OwnershipLedger, RejectedAfterWitness, SubmissionWitnessLegal, Bound
<1> QED
  BY <1>4, <1>5, <1>7

LEMMA CoherentChangePhase == TypeOK /\ Coherent /\ ChangePhase => Coherent'
<1> SUFFICES ASSUME TypeOK, Coherent, ChangePhase PROVE Coherent'
  OBVIOUS
<1> USE DEF Coherent
<1>1. PICK to \in Phases, c \in ActionIds \cup {"none"} :
          PhaseChangeLegal(s, to, c) /\ s' = PhaseChange(s, to)
  BY DEF ChangePhase
<1>2. /\ s'.boundary = s.boundary /\ s'.lifecycle = s.lifecycle /\ s'.actions = s.actions
      /\ s'.baselines = s.baselines /\ s'.witnesses = s.witnesses
      /\ s'.establishedTurn = s.establishedTurn
      /\ s'.rearm = s.rearm /\ s'.transfers = s.transfers /\ s'.policy = s.policy
      /\ s'.phase = to
  BY <1>1 DEF PhaseChange, TypeOK, OperationStates
<1>3. BoundaryMatchesLedger' /\ AtMostOneSend' /\ OwnershipLedger' /\ EstablishedBySend'
      /\ TransferLedger'
  BY <1>2
     DEF BoundaryMatchesLedger, AtMostOneSend, OwnershipLedger, RejectedAfterWitness,
         EstablishedBySend, TransferLedger, Recorded, OfKind, Transfers
<1>4. OwnedPhaseIsProven'
  BY <1>1, <1>2, SentinelAssumption
     DEF OwnedPhaseIsProven, OfKind, SendOwned, PhaseChangeLegal, CausalTransition,
         LegalEdges, OwnedPhases, Phases, TypeOK, OperationStates
<1>5. RearmIsProven'
  BY <1>1, <1>2
     DEF RearmIsProven, OfKind, PhaseChangeLegal, CausalTransition, CausedBy, LegalEdges,
         Phases
<1>6. PendingPhaseHasIntent'
  BY <1>1, <1>2
     DEF PendingPhaseHasIntent, OfKind, PhaseChangeLegal, CausalTransition, CausedBy
<1> QED
  BY <1>3, <1>4, <1>5, <1>6

LEMMA CoherentAuthorizeRearm == TypeOK /\ Coherent /\ AuthorizeRearm => Coherent'
<1> SUFFICES ASSUME TypeOK, Coherent, AuthorizeRearm PROVE Coherent'
  OBVIOUS
<1> USE DEF Coherent
<1>1. PICK a \in ActionIds, b \in Bindings :
          RearmAuthorizedLegal(s, a) /\ s' = RearmAuthorized(s, b)
  BY DEF AuthorizeRearm
<1>2. /\ s'.phase = s.phase /\ s'.boundary = s.boundary /\ s'.lifecycle = s.lifecycle
      /\ s'.actions = s.actions /\ s'.baselines = s.baselines /\ s'.witnesses = s.witnesses
      /\ s'.establishedTurn = s.establishedTurn /\ s'.transfers = s.transfers
      /\ s'.policy = s.policy
      /\ s'.rearm = "authorized"
  BY <1>1 DEF RearmAuthorized, TypeOK, OperationStates
<1>3. BoundaryMatchesLedger' /\ AtMostOneSend' /\ OwnedPhaseIsProven' /\ OwnershipLedger'
      /\ EstablishedBySend' /\ TransferLedger' /\ PendingPhaseHasIntent'
  BY <1>2
     DEF BoundaryMatchesLedger, AtMostOneSend,
         OwnedPhaseIsProven, OwnershipLedger, RejectedAfterWitness,
         EstablishedBySend, TransferLedger, PendingPhaseHasIntent, Recorded, OfKind,
         SendOwned, Transfers
<1>4. RearmIsProven'
  BY <1>1, <1>2
     DEF RearmIsProven, OfKind, RearmAuthorizedLegal
<1> QED
  BY <1>3, <1>4

LEMMA CoherentAttemptRearm == TypeOK /\ Coherent /\ AttemptRearm => Coherent'
<1> SUFFICES ASSUME TypeOK, Coherent, AttemptRearm PROVE Coherent'
  OBVIOUS
<1> USE DEF Coherent
<1>1. PICK a \in ActionIds :
          RearmIntentLegal(s, a) /\ s' = RearmIntent(s)
  BY DEF AttemptRearm
<1>2. /\ s'.phase = s.phase /\ s'.boundary = s.boundary /\ s'.lifecycle = s.lifecycle
      /\ s'.actions = s.actions /\ s'.baselines = s.baselines /\ s'.witnesses = s.witnesses
      /\ s'.establishedTurn = s.establishedTurn /\ s'.transfers = s.transfers
      /\ s'.policy = s.policy
      /\ s'.rearm = "attempted"
  BY <1>1 DEF RearmIntent, TypeOK, OperationStates
<1>3. BoundaryMatchesLedger' /\ AtMostOneSend' /\ OwnedPhaseIsProven' /\ OwnershipLedger'
      /\ EstablishedBySend' /\ TransferLedger' /\ PendingPhaseHasIntent'
  BY <1>2
     DEF BoundaryMatchesLedger, AtMostOneSend,
         OwnedPhaseIsProven, OwnershipLedger, RejectedAfterWitness,
         EstablishedBySend, TransferLedger, PendingPhaseHasIntent, Recorded, OfKind,
         SendOwned, Transfers
<1>4. RearmIsProven'
  BY <1>1, <1>2
     DEF RearmIsProven, OfKind, RearmIntentLegal
<1> QED
  BY <1>3, <1>4

LEMMA CoherentComplete == TypeOK /\ Coherent /\ Complete => Coherent'
<1> SUFFICES ASSUME TypeOK, Coherent, Complete PROVE Coherent'
  OBVIOUS
<1> USE DEF Coherent
<1>1. PICK items \in {{}, SettledTransfers(s)}, content \in {"available", "withheld"} :
          ReceiptCompletedLegal(s, items) /\ s' = ReceiptCompleted(s, items, content)
  BY DEF Complete
<1>2. /\ s'.boundary = s.boundary /\ s'.lifecycle = s.lifecycle /\ s'.actions = s.actions
      /\ s'.baselines = s.baselines /\ s'.witnesses = s.witnesses
      /\ s'.establishedTurn = s.establishedTurn
      /\ s'.rearm = s.rearm /\ s'.transfers = s.transfers /\ s'.policy = s.policy
      /\ s'.phase = "completed"
  BY <1>1 DEF ReceiptCompleted, TypeOK, OperationStates
<1>3. BoundaryMatchesLedger' /\ AtMostOneSend' /\ OwnershipLedger' /\ EstablishedBySend'
      /\ TransferLedger'
  BY <1>2
     DEF BoundaryMatchesLedger, AtMostOneSend, OwnershipLedger, RejectedAfterWitness,
         EstablishedBySend, TransferLedger, Recorded, OfKind, Transfers
<1>4. OwnedPhaseIsProven'
  BY <1>1, <1>2, SentinelAssumption
     DEF OwnedPhaseIsProven, OfKind, SendOwned, ReceiptCompletedLegal, TypeOK,
         OperationStates
<1>5. RearmIsProven'
  BY <1>1, <1>2
     DEF RearmIsProven, OfKind, ReceiptCompletedLegal, SendOwned
<1>6. PendingPhaseHasIntent'
  BY <1>1, <1>2
     DEF PendingPhaseHasIntent, OfKind
<1> QED
  BY <1>3, <1>4, <1>5, <1>6

LEMMA CoherentWithholdContent == TypeOK /\ Coherent /\ WithholdContent => Coherent'
<1> SUFFICES ASSUME TypeOK, Coherent, WithholdContent PROVE Coherent'
  OBVIOUS
<1> USE DEF Coherent
<1>2. /\ s'.phase = s.phase /\ s'.boundary = s.boundary /\ s'.lifecycle = s.lifecycle
      /\ s'.actions = s.actions /\ s'.baselines = s.baselines /\ s'.witnesses = s.witnesses
      /\ s'.establishedTurn = s.establishedTurn /\ s'.rearm = s.rearm
      /\ s'.transfers = s.transfers
      /\ s'.policy = s.policy
  BY DEF WithholdContent, ContentWithheld, TypeOK, OperationStates
<1>3. BoundaryMatchesLedger' /\ AtMostOneSend' /\ OwnedPhaseIsProven' /\ RearmIsProven'
      /\ OwnershipLedger' /\ EstablishedBySend' /\ TransferLedger' /\ PendingPhaseHasIntent'
  BY <1>2
     DEF BoundaryMatchesLedger, AtMostOneSend, OwnedPhaseIsProven, RearmIsProven,
         OwnershipLedger, RejectedAfterWitness,
         EstablishedBySend, TransferLedger, PendingPhaseHasIntent,
         Recorded, OfKind, SendOwned, Transfers
<1> QED
  BY <1>3

LEMMA CoherentRecordReceipt == TypeOK /\ Coherent /\ RecordReceipt => Coherent'
<1> SUFFICES ASSUME TypeOK, Coherent, RecordReceipt PROVE Coherent'
  OBVIOUS
<1> USE DEF Coherent
<1>1. PICK a \in ActionIds, o \in Outcomes :
          ActionReceiptLegal(s, a) /\ CallerOutcome(a, o) /\ s' = ActionReceipt(s, a, o)
  BY DEF RecordReceipt
<1>2. /\ s'.phase = s.phase /\ s'.boundary = s.boundary /\ s'.lifecycle = s.lifecycle
      /\ s'.baselines = s.baselines /\ s'.witnesses = s.witnesses
      /\ s'.establishedTurn = s.establishedTurn
      /\ s'.rearm = s.rearm /\ s'.transfers = s.transfers /\ s'.policy = s.policy
      /\ s'.actions = [s.actions EXCEPT ![a].outcome = o]
  BY <1>1 DEF ActionReceipt, TypeOK, OperationStates
<1>3. \A c \in ActionIds : /\ s'.actions[c].kind = s.actions[c].kind
                                /\ c # a => s'.actions[c] = s.actions[c]
                                /\ s'.actions[a].outcome = o
  BY <1>1, <1>2 DEF TypeOK, OperationStates, ActionRecord, NoAction, ActionReceiptLegal, Recorded
<1>4. BoundaryMatchesLedger'
  BY <1>1, <1>2, <1>3
     DEF BoundaryMatchesLedger, Recorded, ActionReceiptLegal
<1>5. AtMostOneSend'
  BY <1>1, <1>2, <1>3
     DEF AtMostOneSend, ActionReceiptLegal
<1>6. OwnedPhaseIsProven'
  BY <1>1, <1>2, <1>3, SentinelAssumption
     DEF OwnedPhaseIsProven, OfKind, SendOwned, ActionReceiptLegal, TypeOK, OperationStates
<1>7. RearmIsProven'
  BY <1>1, <1>2, <1>3
     DEF RearmIsProven, OfKind, ActionReceiptLegal
<1>8. OwnershipLedger'
  BY <1>1, <1>2, <1>3, SentinelAssumption
     DEF OwnershipLedger, RejectedAfterWitness,
         ActionReceiptLegal, CallerOutcome, Outcomes, TypeOK,
         OperationStates
<1>9. EstablishedBySend'
  BY <1>1, <1>2, <1>3, SentinelAssumption
     DEF EstablishedBySend, OfKind, ActionReceiptLegal, TypeOK, OperationStates
<1>10. TransferLedger'
  BY <1>1, <1>2, <1>3
     DEF TransferLedger, Transfers, ActionReceiptLegal, CallerOutcome, Outcomes, TypeOK,
         OperationStates
<1>11. PendingPhaseHasIntent'
  BY <1>1, <1>2, <1>3
     DEF PendingPhaseHasIntent, OfKind, ActionReceiptLegal
<1> QED
  BY <1>4, <1>5, <1>6, <1>7, <1>8, <1>9, <1>10, <1>11

LEMMA CoherentRecordTransferReceipt ==
    TypeOK /\ Coherent /\ RecordTransferReceipt => Coherent'
<1> SUFFICES ASSUME TypeOK, Coherent, RecordTransferReceipt PROVE Coherent'
  OBVIOUS
<1> USE DEF Coherent
<1>1. PICK a \in ActionIds, r \in TransferResults :
          ArtifactTransferReceiptLegal(s, a) /\ s' = ArtifactTransferReceipt(s, a, r)
  BY DEF RecordTransferReceipt
<1>2. /\ s'.phase = s.phase /\ s'.boundary = s.boundary /\ s'.lifecycle = s.lifecycle
      /\ s'.baselines = s.baselines /\ s'.witnesses = s.witnesses
      /\ s'.establishedTurn = s.establishedTurn /\ s'.rearm = s.rearm
      /\ s'.policy = s.policy
      /\ s'.actions = [s.actions EXCEPT ![a].outcome = TransferOutcome(r)]
      /\ s'.transfers = [s.transfers EXCEPT ![a].result = r]
  BY <1>1 DEF ArtifactTransferReceipt, ActionReceipt, TypeOK, OperationStates
<1>3. s.transfers[a].result = "open" /\ s.actions[a].kind = "local_output_commit"
  BY <1>1 DEF ArtifactTransferReceiptLegal, TransferLedger, Transfers
<1>4. /\ \A c \in ActionIds : s'.actions[c].kind = s.actions[c].kind
      /\ \A c \in ActionIds \ {a} : s'.actions[c] = s.actions[c]
      /\ s'.actions[a].outcome = TransferOutcome(r)
  BY <1>1, <1>2 DEF TypeOK, OperationStates, ActionRecord, NoAction,
                    ArtifactTransferReceiptLegal,
     ActionReceiptLegal, Recorded
<1>5. /\ \A c \in ActionIds \ {a} : s'.transfers[c] = s.transfers[c]
      /\ \A c \in ActionIds : /\ s'.transfers[c].artifact = s.transfers[c].artifact
                              /\ s'.transfers[c].dest = s.transfers[c].dest
      /\ s'.transfers[a].result = r
  <2>1. s.transfers[a] \in [artifact: Artifacts, dest: Destinations,
                            result: TransferResults \cup {"open"}]
    BY <1>3 DEF TypeOK, OperationStates, TransferRecord, NoTransfer
  <2> QED
    BY <1>2, <2>1 DEF TypeOK, OperationStates
<1>6. BoundaryMatchesLedger' /\ AtMostOneSend' /\ EstablishedBySend'
      /\ PendingPhaseHasIntent'
  BY <1>2, <1>4
     DEF BoundaryMatchesLedger, AtMostOneSend, EstablishedBySend, PendingPhaseHasIntent,
         Recorded, OfKind
<1>7. OfKind(s, "send")' = OfKind(s, "send") /\ OfKind(s, "file_handoff")' = OfKind(s, "file_handoff")
  BY <1>4 DEF OfKind
<1>8. \A c \in OfKind(s, "send") \cup OfKind(s, "file_handoff") : s'.actions[c] = s.actions[c]
  BY <1>3, <1>4 DEF OfKind
<1>9. OwnedPhaseIsProven' /\ RearmIsProven'
  BY <1>2, <1>7, <1>8 DEF OwnedPhaseIsProven, RearmIsProven, SendOwned
<1>10. OwnershipLedger'
  <2>1. a \notin s.baselines
    BY <1>3 DEF OwnershipLedger, RejectedAfterWitness
  <2>2. s.witnesses[a] = "none"
    BY <1>1, <2>1 DEF OwnershipLedger, RejectedAfterWitness
  <2>3. s.baselines \subseteq ActionIds
    BY DEF TypeOK, OperationStates
  <2> QED
    BY <1>2, <1>4, <2>1, <2>2, <2>3 DEF OwnershipLedger, RejectedAfterWitness
<1>11. TransferLedger'
  <2>1. Transfers(s)' = Transfers(s)
    BY <1>3, <1>5 DEF Transfers, TransferResults
  <2>2. r # "open"
    BY DEF TransferResults
  <2> QED
    BY <1>2, <1>4, <1>5, <2>1, <2>2 DEF TransferLedger, Transfers
<1> QED
  BY <1>6, <1>9, <1>10, <1>11

(***************************************************************************)
(* What every event that records an intent has in common: action_intent,   *)
(* action_prepared (which adds the baseline) and the transfer's intent.    *)
(***************************************************************************)
LEMMA CoherentIntent ==
    ASSUME TypeOK, Coherent, NEW a \in ActionIds, NEW k \in Kinds, NEW b \in Bindings,
           ActionIntentLegal(s, a, k, b),
           s'.actions = [s.actions EXCEPT ![a] = [kind |-> k, target |-> b, outcome |-> "open"]],
           s'.boundary = Higher(BoundaryForAction(k), s.boundary),
           s'.phase = s.phase, s'.lifecycle = s.lifecycle, s'.witnesses = s.witnesses,
           s'.establishedTurn = s.establishedTurn, s'.rearm = s.rearm,
           \/ s'.baselines = s.baselines
           \/ s'.baselines = s.baselines \cup {a} /\ k \in {"send", "work_steer"}
    PROVE  /\ BoundaryMatchesLedger' /\ AtMostOneSend' /\ OwnedPhaseIsProven'
           /\ RearmIsProven' /\ OwnershipLedger' /\ EstablishedBySend'
           /\ PendingPhaseHasIntent'
<1> USE DEF Coherent
<1>1. /\ s'.actions[a].kind = k /\ s'.actions[a].outcome = "open"
      /\ s.actions[a].kind = "absent"
      /\ \A c \in ActionIds \ {a} : s'.actions[c] = s.actions[c]
  BY DEF TypeOK, OperationStates, ActionIntentLegal
<1>2. BoundaryMatchesLedger'
  <2>1. /\ BoundaryForAction(k) \in Boundaries /\ s.boundary \in Boundaries
        /\ \A c \in Recorded(s) : BoundaryForAction(s.actions[c].kind) \in Boundaries
    BY BoundaryForActionType DEF TypeOK, OperationStates, Recorded, ActionRecord, NoAction
  <2>2. /\ BoundaryRank[BoundaryForAction(k)] <= BoundaryRank[s'.boundary]
        /\ BoundaryRank[s.boundary] <= BoundaryRank[s'.boundary]
    BY <2>1 DEF Higher, BoundaryRank, Boundaries
  <2>3. Recorded(s)' = Recorded(s) \cup {a}
    BY <1>1 DEF Recorded, Kinds
  <2>4. ASSUME NEW c \in Recorded(s)'
        PROVE  BoundaryRank[BoundaryForAction(s'.actions[c].kind)] <= BoundaryRank[s'.boundary]
    <3>1. CASE c = a
      BY <1>1, <2>2, <3>1
    <3>2. CASE c # a
      <4>1. c \in Recorded(s) /\ s'.actions[c].kind = s.actions[c].kind
        BY <1>1, <2>3, <3>2 DEF Recorded
      <4>2. BoundaryRank[BoundaryForAction(s.actions[c].kind)] <= BoundaryRank[s.boundary]
        BY <4>1 DEF BoundaryMatchesLedger, Recorded
      <4>3. \A u, v, w \in Boundaries :
                BoundaryRank[u] <= BoundaryRank[v] /\ BoundaryRank[v] <= BoundaryRank[w]
                    => BoundaryRank[u] <= BoundaryRank[w]
        <5>1. \A u \in Boundaries : BoundaryRank[u] \in 0..3
          BY DEF BoundaryRank, Boundaries
        <5> QED
          BY <5>1
      <4>4. s'.boundary \in Boundaries
        BY <2>1 DEF Higher
      <4> QED
        BY <2>1, <2>2, <4>1, <4>2, <4>3, <4>4
    <3> QED
      BY <3>1, <3>2
  <2>5. s'.boundary # "none" =>
            \E c \in Recorded(s)' : BoundaryForAction(s'.actions[c].kind) = s'.boundary
    BY <1>1, <2>3 DEF BoundaryMatchesLedger, Higher, Recorded
  <2> QED
    BY <2>4, <2>5 DEF BoundaryMatchesLedger
<1>3. AtMostOneSend'
  BY <1>1 DEF AtMostOneSend, ActionIntentLegal, OfKind
<1>4. k = "send" => s.phase = "ready"
  BY DEF ActionIntentLegal, ActionPhases, RearmStaging, Kinds
<1>5. \A c \in OfKind(s, "send") \cup OfKind(s, "file_handoff") :
          c # a /\ s'.actions[c] = s.actions[c]
  BY <1>1 DEF OfKind
<1>6. k # "send" => OfKind(s, "send")' = OfKind(s, "send")
  BY <1>1 DEF OfKind
<1>7. OwnedPhaseIsProven'
  BY <1>4, <1>5, <1>6 DEF OwnedPhaseIsProven, OwnedPhases, SendOwned
<1>8. OfKind(s, "send") \subseteq OfKind(s, "send")'
      /\ OfKind(s, "file_handoff") \subseteq OfKind(s, "file_handoff")'
  BY <1>1 DEF OfKind
<1>9. RearmIsProven'
  BY <1>4, <1>5, <1>6, <1>8 DEF RearmIsProven
<1>10. EstablishedBySend' /\ PendingPhaseHasIntent'
  BY <1>8 DEF EstablishedBySend, PendingPhaseHasIntent
<1>11. OwnershipLedger'
  <2>1. a \notin s.baselines /\ s.baselines \subseteq ActionIds
    BY <1>1 DEF OwnershipLedger, RejectedAfterWitness, TypeOK, OperationStates
  <2>2. s.witnesses[a] = "none"
    BY <2>1 DEF OwnershipLedger, RejectedAfterWitness
  <2> QED
    BY <1>1, <2>1, <2>2 DEF OwnershipLedger, RejectedAfterWitness
<1> QED
  BY <1>2, <1>3, <1>7, <1>9, <1>10, <1>11

\* An intent that is not a transfer leaves the transfers as they are.
LEMMA TransfersKept ==
    ASSUME TypeOK, TransferLedger, NEW a \in ActionIds, s.actions[a].kind = "absent", NEW rec,
           s'.actions = [s.actions EXCEPT ![a] = rec],
           s'.transfers = s.transfers, s'.policy = s.policy
    PROVE  TransferLedger'
<1>1. Transfers(s)' = Transfers(s) /\ a \notin Transfers(s)
  BY DEF Transfers, TransferLedger
<1>2. \A c \in Transfers(s) : s'.actions[c] = s.actions[c]
  BY <1>1 DEF Transfers, TypeOK, OperationStates
<1> QED
  BY <1>1, <1>2 DEF TransferLedger

LEMMA CoherentRecordIntent == TypeOK /\ Coherent /\ RecordIntent => Coherent'
<1> SUFFICES ASSUME TypeOK, Coherent, RecordIntent PROVE Coherent'
  OBVIOUS
<1>1. PICK a \in ActionIds, k \in UsedKinds, b \in Bindings :
          ActionIntentLegal(s, a, k, b) /\ s' = ActionIntent(s, a, k, b)
  BY DEF RecordIntent
<1>2. /\ s'.actions = [s.actions EXCEPT ![a] = [kind |-> k, target |-> b, outcome |-> "open"]]
      /\ s'.boundary = Higher(BoundaryForAction(k), s.boundary)
      /\ s'.phase = s.phase /\ s'.lifecycle = s.lifecycle /\ s'.witnesses = s.witnesses
      /\ s'.establishedTurn = s.establishedTurn /\ s'.rearm = s.rearm
      /\ s'.baselines = s.baselines /\ s'.transfers = s.transfers /\ s'.policy = s.policy
  BY <1>1 DEF ActionIntent, TypeOK, OperationStates
<1>3. TransferLedger'
  BY <1>1, <1>2, TransfersKept DEF Coherent, ActionIntentLegal
<1> QED
  BY <1>1, <1>2, <1>3, CoherentIntent, UsedKindsAssumption DEF Coherent

LEMMA CoherentRecordPrepared == TypeOK /\ Coherent /\ RecordPrepared => Coherent'
<1> SUFFICES ASSUME TypeOK, Coherent, RecordPrepared PROVE Coherent'
  OBVIOUS
<1>1. PICK a \in ActionIds, k \in UsedKinds, b \in Bindings :
          ActionPreparedLegal(s, a, k, b) /\ s' = ActionPrepared(s, a, k, b)
  BY DEF RecordPrepared
<1>2. /\ s'.actions = [s.actions EXCEPT ![a] = [kind |-> k, target |-> b, outcome |-> "open"]]
      /\ s'.boundary = Higher(BoundaryForAction(k), s.boundary)
      /\ s'.phase = s.phase /\ s'.lifecycle = s.lifecycle /\ s'.witnesses = s.witnesses
      /\ s'.establishedTurn = s.establishedTurn /\ s'.rearm = s.rearm
      /\ s'.baselines = s.baselines \cup {a} /\ s'.transfers = s.transfers
      /\ s'.policy = s.policy
  BY <1>1 DEF ActionPrepared, OwnershipBaseline, ActionIntent, TypeOK, OperationStates
<1>3. k \in {"send", "work_steer"} /\ ActionIntentLegal(s, a, k, b)
  BY <1>1 DEF ActionPreparedLegal
<1>4. TransferLedger'
  BY <1>2, <1>3, TransfersKept DEF Coherent, ActionIntentLegal
<1> QED
  BY <1>2, <1>3, <1>4, CoherentIntent, UsedKindsAssumption DEF Coherent

LEMMA CoherentRecordTransferIntent == TypeOK /\ Coherent /\ RecordTransferIntent => Coherent'
<1> SUFFICES ASSUME TypeOK, Coherent, RecordTransferIntent PROVE Coherent'
  OBVIOUS
<1>1. PICK a \in ActionIds, x \in Artifacts, d \in Destinations :
          /\ ArtifactTransferIntentLegal(s, a, x, d)
          /\ s' = ArtifactTransferIntent(s, a, x, d)
  BY DEF RecordTransferIntent
<1> DEFINE c == CHOOSE c \in OfKind(s, "send") : TRUE
           k == "local_output_commit"
           b == s.actions[c].target
<1>2. OfKind(s, "send") = {c}
  <2>1. PICK e \in OfKind(s, "send") : TRUE
    BY <1>1 DEF ArtifactTransferIntentLegal
  <2> QED
    BY <2>1 DEF Coherent, AtMostOneSend, OfKind, SingleIntentKinds
<1>3. b \in Bindings /\ ActionIntentLegal(s, a, k, b)
  <2>1. c \in ActionIds /\ s.actions[c].kind = "send"
    BY <1>2 DEF OfKind
  <2>2. b \in Bindings
    BY <2>1 DEF TypeOK, OperationStates, ActionRecord, NoAction
  <2> QED
    BY <1>1, <1>2, <2>2 DEF ArtifactTransferIntentLegal
<1>4. s' = [ActionIntent(s, a, k, b)
               EXCEPT !.transfers[a] = [artifact |-> x, dest |-> d, result |-> "open"]]
  BY <1>1 DEF ArtifactTransferIntent
<1> HIDE DEF b
<1>5. /\ s'.actions = [s.actions EXCEPT ![a] = [kind |-> k, target |-> b, outcome |-> "open"]]
      /\ s'.boundary = Higher(BoundaryForAction(k), s.boundary)
      /\ s'.phase = s.phase /\ s'.lifecycle = s.lifecycle /\ s'.witnesses = s.witnesses
      /\ s'.establishedTurn = s.establishedTurn /\ s'.rearm = s.rearm
      /\ s'.baselines = s.baselines /\ s'.policy = s.policy
     
      /\ s'.transfers = [s.transfers EXCEPT ![a] = [artifact |-> x, dest |-> d, result |-> "open"]]
  BY <1>4 DEF ActionIntent, TypeOK, OperationStates
<1>6. /\ s'.actions[a].kind = k /\ s'.actions[a].outcome = "open"
      /\ \A e \in ActionIds \ {a} : s'.actions[e] = s.actions[e]
      /\ s'.transfers[a] = [artifact |-> x, dest |-> d, result |-> "open"]
      /\ \A e \in ActionIds \ {a} : s'.transfers[e] = s.transfers[e]
  BY <1>5 DEF TypeOK, OperationStates
<1>7. Transfers(s)' = Transfers(s) \cup {a} /\ a \notin Transfers(s)
  BY <1>1, <1>6 DEF Transfers, ArtifactTransferIntentLegal
<1>8. TransferLedger'
  <2>1. s'.policy = "transfer"
    BY <1>1, <1>5 DEF ArtifactTransferIntentLegal
  <2>2. ASSUME NEW e \in Transfers(s)', NEW f \in Transfers(s)',
               s'.transfers[e].artifact = s'.transfers[f].artifact,
               s'.transfers[e].dest = s'.transfers[f].dest
        PROVE  e = f
    <3>1. \A g \in Transfers(s) : s.transfers[g].artifact # x \/ s.transfers[g].dest # d
      BY <1>1 DEF ArtifactTransferIntentLegal
    <3>2. \A g \in Transfers(s) : g \in ActionIds \ {a}
      BY <1>7 DEF Transfers
    <3>3. CASE e = a /\ f # a
      BY <1>6, <1>7, <2>2, <3>1, <3>2, <3>3
    <3>4. CASE e # a /\ f = a
      BY <1>6, <1>7, <2>2, <3>1, <3>2, <3>4
    <3>5. CASE e # a /\ f # a
      BY <1>6, <1>7, <2>2, <3>2, <3>5 DEF Coherent, TransferLedger
    <3> QED
      BY <3>3, <3>4, <3>5
  <2>3. ASSUME NEW e \in Transfers(s)'
        PROVE  /\ s'.actions[e].kind = "local_output_commit"
               /\ s'.actions[e].outcome =
                      IF s'.transfers[e].result = "open" THEN "open"
                      ELSE TransferOutcome(s'.transfers[e].result)
    <3>1. CASE e = a
      BY <1>6, <3>1
    <3>2. CASE e # a
      BY <1>6, <1>7, <3>2 DEF Coherent, TransferLedger, Transfers
    <3> QED
      BY <3>1, <3>2
  <2> QED
    BY <2>1, <2>2, <2>3 DEF TransferLedger
<1>9. k \in Kinds
  BY DEF Kinds
<1> QED
  BY <1>3, <1>5, <1>8, <1>9, CoherentIntent DEF Coherent

LEMMA CoherentNext == TypeOK /\ Coherent /\ [Next]_s => Coherent'
<1>1. TypeOK /\ Coherent /\ UNCHANGED s => Coherent'
  BY DEF Coherent, BoundaryMatchesLedger, AtMostOneSend, OwnedPhaseIsProven, RearmIsProven,
     OwnershipLedger, RejectedAfterWitness,
     EstablishedBySend, TransferLedger, PendingPhaseHasIntent,
     Recorded, OfKind, Transfers, SendOwned
<1> QED
  BY <1>1, CoherentBindTarget, CoherentEstablishTarget, CoherentRecordIntent,
     CoherentRecordPrepared, CoherentRecordBaseline, CoherentRecordReceipt,
     CoherentRecordWitness, CoherentRecordTransferIntent, CoherentRecordTransferReceipt,
     CoherentChangePhase, CoherentAuthorizeRearm, CoherentAttemptRearm, CoherentComplete,
     CoherentWithholdContent
     DEF Next

\* validateStateCoherence never refuses a state the events led to: one Send and
\* one handoff at most, a boundary that matches the ledger, submissions
\* reported on full proof, and transfers that agree with their actions.
THEOREM CoherenceHolds == Spec => []Coherent
<1>1. Init => TypeOK /\ Coherent
  BY TypeInit, CoherentInit
<1>2. (TypeOK /\ Coherent) /\ [Next]_s => (TypeOK /\ Coherent)'
  BY TypeNext, CoherentNext
<1> QED
  BY <1>1, <1>2, PTL DEF Spec

(***************************************************************************)
(* What a step does to the ledger.                                         *)
(***************************************************************************)
\* Everything an event may append to, in one formula.
LedgerGrows ==
    /\ BoundaryRank[s.boundary] <= BoundaryRank[s'.boundary]
    /\ \A a \in Recorded(s) :
          /\ s'.actions[a].kind = s.actions[a].kind /\ s'.actions[a].target = s.actions[a].target
          /\ s.actions[a].outcome \in {"open", s'.actions[a].outcome}
    /\ s.baselines \subseteq s'.baselines
    /\ \A a \in ActionIds : s.witnesses[a] \in {"none", s'.witnesses[a]}
    /\ s.establishedTurn \in {"none", s'.establishedTurn}
    /\ s.rearm = "attempted" => s'.rearm = "attempted"

LEMMA SameLedgerGrows ==
    ASSUME TypeOK, s'.boundary = s.boundary, s'.actions = s.actions,
           s'.baselines = s.baselines, s'.witnesses = s.witnesses,
           s'.establishedTurn = s.establishedTurn, s'.rearm = s.rearm
    PROVE  LedgerGrows
<1>1. BoundaryRank[s.boundary] \in 0..3
  BY DEF TypeOK, OperationStates, BoundaryRank, Boundaries
<1> QED
  BY <1>1 DEF LedgerGrows

\* An intent fills an empty place of the ledger and may raise the boundary.
LEMMA IntentGrows ==
    ASSUME TypeOK, NEW a \in ActionIds, NEW k \in Kinds, NEW rec,
           s.actions[a].kind = "absent",
           s'.actions = [s.actions EXCEPT ![a] = rec],
           s'.boundary = Higher(BoundaryForAction(k), s.boundary),
           s.baselines \subseteq s'.baselines, s'.witnesses = s.witnesses,
           s'.establishedTurn = s.establishedTurn, s'.rearm = s.rearm
    PROVE  LedgerGrows
<1>1. BoundaryForAction(k) \in Boundaries /\ s.boundary \in Boundaries
  BY BoundaryForActionType DEF TypeOK, OperationStates
<1>2. BoundaryRank[s.boundary] <= BoundaryRank[s'.boundary]
  BY <1>1 DEF Higher, BoundaryRank, Boundaries
<1>3. \A c \in Recorded(s) : c # a /\ s'.actions[c] = s.actions[c]
  BY DEF Recorded, TypeOK, OperationStates
<1> QED
  BY <1>2, <1>3 DEF LedgerGrows

\* A receipt settles an open action and nothing else.
LEMMA ReceiptGrows ==
    ASSUME TypeOK, NEW a \in ActionIds, NEW o, ActionReceiptLegal(s, a),
           s'.actions = [s.actions EXCEPT ![a].outcome = o],
           s'.boundary = s.boundary, s'.baselines = s.baselines, s'.witnesses = s.witnesses,
           s'.establishedTurn = s.establishedTurn, s'.rearm = s.rearm
    PROVE  LedgerGrows
<1>1. BoundaryRank[s.boundary] \in 0..3
  BY DEF TypeOK, OperationStates, BoundaryRank, Boundaries
<1>2. \A c \in ActionIds : /\ s'.actions[c].kind = s.actions[c].kind
                           /\ s'.actions[c].target = s.actions[c].target
                           /\ c # a => s'.actions[c] = s.actions[c]
  BY DEF TypeOK, OperationStates, ActionRecord, NoAction, ActionReceiptLegal, Recorded
<1>3. s.actions[a].outcome = "open"
  BY DEF ActionReceiptLegal
<1> QED
  BY <1>1, <1>2, <1>3 DEF LedgerGrows, Recorded

LEMMA LedgerGrowsNext == TypeOK /\ Coherent /\ [Next]_s => [LedgerGrows]_s
<1> SUFFICES ASSUME TypeOK, Coherent, Next PROVE LedgerGrows
  OBVIOUS
<1>1. CASE BindTarget
  BY <1>1, SameLedgerGrows DEF BindTarget, TargetBound, TypeOK, OperationStates
\* The conversation is established once: before that the lifecycle is new_pending.
<1>2. CASE EstablishTarget
  <2>1. PICK a \in ActionIds, t \in Turns :
            TargetEstablishedLegal(s, a) /\ s' = TargetEstablished(s, t)
    BY <1>2 DEF EstablishTarget
  <2>2. s.establishedTurn = "none"
    BY <2>1 DEF TargetEstablishedLegal, Coherent, EstablishedBySend
  <2>3. BoundaryRank[s.boundary] \in 0..3
    BY DEF TypeOK, OperationStates, BoundaryRank, Boundaries
  <2>4. /\ s'.boundary = s.boundary /\ s'.actions = s.actions /\ s'.baselines = s.baselines
        /\ s'.witnesses = s.witnesses /\ s'.rearm = s.rearm
    BY <2>1 DEF TargetEstablished, TypeOK, OperationStates
  <2> QED
    BY <2>2, <2>3, <2>4 DEF LedgerGrows
<1>3. CASE RecordIntent
  <2>1. PICK a \in ActionIds, k \in UsedKinds, b \in Bindings :
            ActionIntentLegal(s, a, k, b) /\ s' = ActionIntent(s, a, k, b)
    BY <1>3 DEF RecordIntent
  <2> QED
    BY <2>1, IntentGrows, UsedKindsAssumption
       DEF ActionIntentLegal, ActionIntent, TypeOK, OperationStates
<1>4. CASE RecordPrepared
  <2>1. PICK a \in ActionIds, k \in UsedKinds, b \in Bindings :
            ActionPreparedLegal(s, a, k, b) /\ s' = ActionPrepared(s, a, k, b)
    BY <1>4 DEF RecordPrepared
  <2> QED
    BY <2>1, IntentGrows, UsedKindsAssumption
       DEF ActionPreparedLegal, ActionIntentLegal, ActionPrepared, OwnershipBaseline,
           ActionIntent, TypeOK, OperationStates
<1>5. CASE RecordBaseline
  <2>1. BoundaryRank[s.boundary] \in 0..3
    BY DEF TypeOK, OperationStates, BoundaryRank, Boundaries
  <2>2. /\ s'.boundary = s.boundary /\ s'.actions = s.actions
        /\ s.baselines \subseteq s'.baselines /\ s'.witnesses = s.witnesses
        /\ s'.establishedTurn = s.establishedTurn /\ s'.rearm = s.rearm
    BY <1>5 DEF RecordBaseline, OwnershipBaseline, TypeOK, OperationStates
  <2> QED
    BY <2>1, <2>2 DEF LedgerGrows
<1>6. CASE RecordReceipt
  <2>1. PICK a \in ActionIds, o \in Outcomes :
            ActionReceiptLegal(s, a) /\ s' = ActionReceipt(s, a, o)
    BY <1>6 DEF RecordReceipt
  <2> QED
    BY <2>1, ReceiptGrows DEF ActionReceipt, TypeOK, OperationStates
<1>7. CASE RecordWitness
  <2>1. PICK a \in ActionIds, t \in Turns :
            SubmissionWitnessLegal(s, a, t) /\ s' = SubmissionWitness(s, a, t)
    BY <1>7 DEF RecordWitness
  <2>2. s.witnesses[a] \in {"none", t}
    BY <2>1 DEF SubmissionWitnessLegal
  <2>3. BoundaryRank[s.boundary] \in 0..3
    BY DEF TypeOK, OperationStates, BoundaryRank, Boundaries
  <2>4. /\ s'.boundary = s.boundary /\ s'.actions = s.actions /\ s'.baselines = s.baselines
        /\ s'.establishedTurn = s.establishedTurn /\ s'.rearm = s.rearm
        /\ s'.witnesses = [s.witnesses EXCEPT ![a] = t]
    BY <2>1 DEF SubmissionWitness, TypeOK, OperationStates
  <2>5. \A c \in ActionIds : s.witnesses[c] \in {"none", s'.witnesses[c]}
    BY <2>2, <2>4 DEF TypeOK, OperationStates
  <2> QED
    BY <2>3, <2>4, <2>5 DEF LedgerGrows
<1>8. CASE RecordTransferIntent
  <2>1. PICK a \in ActionIds, x \in Artifacts, d \in Destinations :
            /\ ArtifactTransferIntentLegal(s, a, x, d)
            /\ s' = ArtifactTransferIntent(s, a, x, d)
    BY <1>8 DEF RecordTransferIntent
  <2> DEFINE b == s.actions[CHOOSE c \in OfKind(s, "send") : TRUE].target
             rec == [kind |-> "local_output_commit", target |-> b, outcome |-> "open"]
  <2>2. s.actions[a].kind = "absent" /\ "local_output_commit" \in Kinds
    BY <2>1 DEF ArtifactTransferIntentLegal, ActionIntentLegal, Kinds
  <2>3. /\ s'.actions = [s.actions EXCEPT ![a] = rec]
        /\ s'.boundary = Higher(BoundaryForAction("local_output_commit"), s.boundary)
        /\ s'.baselines = s.baselines /\ s'.witnesses = s.witnesses
        /\ s'.establishedTurn = s.establishedTurn /\ s'.rearm = s.rearm
    <3> HIDE DEF b
    <3>1. s' = [ActionIntent(s, a, "local_output_commit", b)
                  EXCEPT !.transfers[a] = [artifact |-> x, dest |-> d, result |-> "open"]]
      BY <2>1 DEF ArtifactTransferIntent, b
    <3> QED
      BY <3>1 DEF ActionIntent, TypeOK, OperationStates
  <2> HIDE DEF rec
  <2> QED
    BY <2>2, <2>3, IntentGrows
<1>9. CASE RecordTransferReceipt
  <2>1. PICK a \in ActionIds, r \in TransferResults :
            ArtifactTransferReceiptLegal(s, a) /\ s' = ArtifactTransferReceipt(s, a, r)
    BY <1>9 DEF RecordTransferReceipt
  <2>2. /\ s'.actions = [s.actions EXCEPT ![a].outcome = TransferOutcome(r)]
        /\ s'.boundary = s.boundary /\ s'.baselines = s.baselines
        /\ s'.witnesses = s.witnesses /\ s'.establishedTurn = s.establishedTurn
        /\ s'.rearm = s.rearm
    BY <2>1 DEF ArtifactTransferReceipt, ActionReceipt, TypeOK, OperationStates
  <2> QED
    BY <2>1, <2>2, ReceiptGrows DEF ArtifactTransferReceiptLegal
<1>10. CASE ChangePhase
  BY <1>10, SameLedgerGrows DEF ChangePhase, PhaseChange, TypeOK, OperationStates
<1>11. CASE AuthorizeRearm \/ AttemptRearm
  <2>1. BoundaryRank[s.boundary] \in 0..3
    BY DEF TypeOK, OperationStates, BoundaryRank, Boundaries
  <2>2. /\ s'.boundary = s.boundary /\ s'.actions = s.actions /\ s'.baselines = s.baselines
        /\ s'.witnesses = s.witnesses /\ s'.establishedTurn = s.establishedTurn
        /\ s.rearm # "attempted"
    <3>1. CASE AuthorizeRearm
      BY <3>1 DEF AuthorizeRearm, RearmAuthorizedLegal, RearmAuthorized, TypeOK, OperationStates
    <3>2. CASE AttemptRearm
      BY <3>2 DEF AttemptRearm, RearmIntentLegal, RearmIntent, TypeOK, OperationStates
    <3> QED
      BY <1>11, <3>1, <3>2
  <2> QED
    BY <2>1, <2>2 DEF LedgerGrows
<1>12. CASE Complete
  BY <1>12, SameLedgerGrows DEF Complete, ReceiptCompleted, TypeOK, OperationStates
<1>13. CASE WithholdContent
  BY <1>13, SameLedgerGrows DEF WithholdContent, ContentWithheld, TypeOK, OperationStates
<1> QED
  BY <1>1, <1>2, <1>3, <1>4, <1>5, <1>6, <1>7, <1>8, <1>9, <1>10, <1>11, <1>12, <1>13 DEF Next

\* No event of the reducer takes evidence back: what a recovered caller finds in the
\* journal can only have grown since.
THEOREM EvidenceStays == Spec => EvidenceIsImmutable
<1>1. Init => TypeOK /\ Coherent
  BY TypeInit, CoherentInit
<1>2. (TypeOK /\ Coherent) /\ [Next]_s => (TypeOK /\ Coherent)'
  BY TypeNext, CoherentNext
<1>3. TypeOK /\ Coherent /\ [Next]_s => [LedgerGrows]_s
  BY LedgerGrowsNext
<1> QED
  BY <1>1, <1>2, <1>3, PTL DEF Spec, EvidenceIsImmutable, LedgerGrows

(***************************************************************************)
(* The target, the terminal receipt and the steers.                        *)
(***************************************************************************)
\* Which events may touch the binding, the phase, the receipt and the transfers.
LEMMA EventFrame ==
    ASSUME TypeOK, Next
    PROVE  /\ BindTarget \/ AuthorizeRearm \/ s'.binding = s.binding
           /\ ChangePhase \/ Complete \/ s'.phase = s.phase
           /\ Complete \/ WithholdContent \/ s'.receipt = s.receipt
           /\ Complete \/ s'.delivered = s.delivered
           /\ RecordTransferIntent \/ RecordTransferReceipt \/ s'.transfers = s.transfers
<1> USE DEF TypeOK, OperationStates
<1>1. CASE BindTarget
  BY <1>1 DEF BindTarget, TargetBound
<1>8. CASE EstablishTarget
  BY <1>8 DEF EstablishTarget, TargetEstablished
<1>2. CASE RecordIntent \/ RecordBaseline
  BY <1>2 DEF RecordIntent, RecordBaseline, OwnershipBaseline, ActionIntent
<1>9. CASE RecordPrepared
  BY <1>9 DEF RecordPrepared, ActionPrepared, OwnershipBaseline, ActionIntent
<1>3. CASE RecordReceipt \/ RecordWitness
  BY <1>3 DEF RecordReceipt, ActionReceipt, RecordWitness, SubmissionWitness
<1>4. CASE RecordTransferIntent
  <2>1. PICK a \in ActionIds, x \in Artifacts, d \in Destinations :
            s' = ArtifactTransferIntent(s, a, x, d)
    BY <1>4 DEF RecordTransferIntent
  <2> DEFINE b == s.actions[CHOOSE c \in OfKind(s, "send") : TRUE].target
  <2> HIDE DEF b
  <2>2. s' = [ActionIntent(s, a, "local_output_commit", b)
                EXCEPT !.transfers[a] = [artifact |-> x, dest |-> d, result |-> "open"]]
    BY <2>1 DEF ArtifactTransferIntent, b
  <2> QED
    BY <1>4, <2>2 DEF ActionIntent
<1>5. CASE RecordTransferReceipt
  BY <1>5 DEF RecordTransferReceipt, ArtifactTransferReceipt, ActionReceipt
<1>6. CASE ChangePhase \/ AuthorizeRearm \/ AttemptRearm
  BY <1>6 DEF ChangePhase, PhaseChange, AuthorizeRearm, RearmAuthorized, AttemptRearm, RearmIntent
<1>7. CASE Complete \/ WithholdContent
  BY <1>7 DEF Complete, ReceiptCompleted, WithholdContent, ContentWithheld
<1> QED
  BY <1>1, <1>2, <1>3, <1>4, <1>5, <1>6, <1>7, <1>8, <1>9 DEF Next

LEMMA TargetNext == TypeOK /\ [Next]_s =>
    [Bound(s) /\ s'.binding # s.binding =>
        s.rearm = "none" /\ s'.rearm = "authorized" /\ OfKind(s', "send") = {}]_s
<1> SUFFICES ASSUME TypeOK, Next, Bound(s), s'.binding # s.binding
             PROVE  s.rearm = "none" /\ s'.rearm = "authorized" /\ OfKind(s', "send") = {}
  OBVIOUS
<1>1. CASE BindTarget
  <2>1. PICK l \in {"fixed", "new_pending", "new_established"}, b \in Bindings :
            TargetBoundLegal(s, l, b) /\ s' = TargetBound(s, l, b)
    BY <1>1 DEF BindTarget
  <2>2. b = s.binding
    BY <2>1 DEF TargetBoundLegal
  <2> QED
    BY <2>1, <2>2 DEF TargetBound, TypeOK, OperationStates
<1>2. CASE AuthorizeRearm
  <2>1. PICK a \in ActionIds, b \in Bindings :
            RearmAuthorizedLegal(s, a) /\ s' = RearmAuthorized(s, b)
    BY <1>2 DEF AuthorizeRearm
  <2>2. s'.rearm = "authorized" /\ s'.actions = s.actions
    BY <2>1 DEF RearmAuthorized, TypeOK, OperationStates
  <2> QED
    BY <2>1, <2>2 DEF RearmAuthorizedLegal, OfKind
<1> QED
  BY <1>1, <1>2, EventFrame

\* The target of an operation is replaced only by spending the one recovery
\* authorization, and only while no Send is recorded.
THEOREM TargetStays == Spec => TargetReplacedOnlyByRearm
<1>1. Init => TypeOK
  BY TypeInit
<1>2. TypeOK /\ [Next]_s => TypeOK'
  BY TypeNext
<1> QED
  BY <1>1, <1>2, TargetNext, PTL DEF Spec, TargetReplacedOnlyByRearm

LEMMA CompletionNext == TypeOK /\ [Next]_s =>
    [s.phase = "completed" =>
        /\ s'.phase = "completed" /\ s'.delivered = s.delivered /\ s'.transfers = s.transfers
        /\ s'.receipt \in {s.receipt, "withheld"}]_s
<1> SUFFICES ASSUME TypeOK, Next, s.phase = "completed"
             PROVE  /\ s'.phase = "completed" /\ s'.delivered = s.delivered
                    /\ s'.transfers = s.transfers /\ s'.receipt \in {s.receipt, "withheld"}
  OBVIOUS
<1>1. ~Complete
  BY DEF Complete, ReceiptCompletedLegal
<1>2. ~ChangePhase
  BY DEF ChangePhase, PhaseChangeLegal, LegalEdges, Phases
<1>3. ~RecordTransferIntent /\ ~RecordTransferReceipt
  BY DEF RecordTransferIntent, ArtifactTransferIntentLegal,
         RecordTransferReceipt, ArtifactTransferReceiptLegal
<1>4. WithholdContent => s'.receipt = "withheld"
  BY DEF WithholdContent, ContentWithheld, TypeOK, OperationStates
<1> QED
  BY <1>1, <1>2, <1>3, <1>4, EventFrame

\* A completed operation is final: no event reopens it or changes what it delivered.
THEOREM CompletionStays == Spec => CompletionIsFinal
<1>1. Init => TypeOK
  BY TypeInit
<1>2. TypeOK /\ [Next]_s => TypeOK'
  BY TypeNext
<1> QED
  BY <1>1, <1>2, CompletionNext, PTL DEF Spec, CompletionIsFinal

LEMMA TerminalInit == Init => TerminalAccountsForTransfers
<1> SUFFICES ASSUME NEW p \in Policies, s = Created(p) PROVE TerminalAccountsForTransfers
  BY DEF Init
<1> QED
  BY DEF Created, TerminalAccountsForTransfers

\* The receipt lists the settled transfers, also where the policy knows of none.
LEMMA TerminalComplete ==
    TypeOK /\ Coherent /\ Complete => TerminalAccountsForTransfers'
<1> SUFFICES ASSUME TypeOK, Coherent, Complete PROVE TerminalAccountsForTransfers'
  OBVIOUS
<1>1. PICK items \in {{}, SettledTransfers(s)}, content \in {"available", "withheld"} :
          ReceiptCompletedLegal(s, items) /\ s' = ReceiptCompleted(s, items, content)
  BY DEF Complete
<1>2. /\ s'.phase = "completed" /\ s'.receipt = content /\ s'.delivered = items
      /\ s'.transfers = s.transfers
  BY <1>1 DEF ReceiptCompleted, TypeOK, OperationStates
<1>3. \A a \in Transfers(s) : s.transfers[a].result # "open"
  BY <1>1 DEF ReceiptCompletedLegal, ReceiptMatchesTransfers, Coherent, TransferLedger
<1>4. items = SettledTransfers(s)
  <2>1. CASE s.policy = "transfer"
    BY <1>1, <2>1 DEF ReceiptCompletedLegal, ReceiptMatchesTransfers
  <2>2. CASE s.policy # "transfer"
    <3>1. Transfers(s) = {} /\ items = {}
      BY <1>1, <2>2 DEF ReceiptCompletedLegal, ReceiptMatchesTransfers, Coherent, TransferLedger
    <3> QED
      BY <3>1 DEF SettledTransfers
  <2> QED
    BY <2>1, <2>2
<1>5. Transfers(s)' = Transfers(s) /\ SettledTransfers(s)' = SettledTransfers(s)
  BY <1>2 DEF Transfers, SettledTransfers
<1> QED
  BY <1>2, <1>3, <1>4, <1>5 DEF TerminalAccountsForTransfers

LEMMA TerminalNext ==
    TypeOK /\ Coherent /\ TerminalAccountsForTransfers /\ [Next]_s => TerminalAccountsForTransfers'
<1> SUFFICES ASSUME TypeOK, Coherent, TerminalAccountsForTransfers, [Next]_s
             PROVE  TerminalAccountsForTransfers'
  OBVIOUS
<1>1. ASSUME s'.phase = s.phase, s'.receipt = s.receipt, s'.delivered = s.delivered,
             s.phase = "completed" => s'.transfers = s.transfers
      PROVE  TerminalAccountsForTransfers'
  BY <1>1 DEF TerminalAccountsForTransfers, Transfers, SettledTransfers
<1>2. CASE Complete
  BY <1>2, TerminalComplete
\* No edge of the phase graph leads into or out of completed.
<1>3. CASE ChangePhase
  <2>1. s'.phase # "completed" /\ s.phase # "completed"
    BY <1>3 DEF ChangePhase, PhaseChangeLegal, PhaseChange, LegalEdges, Phases, TypeOK,
                OperationStates
  <2>2. s'.receipt = s.receipt
    BY <1>3 DEF ChangePhase, PhaseChange, TypeOK, OperationStates
  <2> QED
    BY <2>1, <2>2 DEF TerminalAccountsForTransfers
<1>4. CASE WithholdContent
  <2>1. /\ s'.phase = s.phase /\ s.phase = "completed" /\ s'.receipt = "withheld"
        /\ s'.delivered = s.delivered /\ s'.transfers = s.transfers
    BY <1>4 DEF WithholdContent, ContentWithheldLegal, ContentWithheld, TypeOK, OperationStates
  <2> QED
    BY <2>1 DEF TerminalAccountsForTransfers, Transfers, SettledTransfers
<1>5. CASE Next /\ ~Complete /\ ~ChangePhase /\ ~WithholdContent
  <2>1. s.phase = "completed" => s'.transfers = s.transfers
    BY <1>5, CompletionNext
  <2> QED
    BY <1>1, <1>5, <2>1, EventFrame
<1>6. CASE UNCHANGED s
  BY <1>1, <1>6
<1> QED
  BY <1>2, <1>3, <1>4, <1>5, <1>6

\* A terminal receipt never omits a transfer and never leaves one open, whichever hosts
\* started, settled and completed.
THEOREM TerminalAccounts == Spec => []TerminalAccountsForTransfers
<1>1. Init => TypeOK /\ Coherent
  BY TypeInit, CoherentInit
<1>2. (TypeOK /\ Coherent) /\ [Next]_s => (TypeOK /\ Coherent)'
  BY TypeNext, CoherentNext
<1> QED
  BY <1>1, <1>2, TerminalInit, TerminalNext, PTL DEF Spec
=============================================================================
