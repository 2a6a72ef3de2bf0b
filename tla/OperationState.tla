----------------------------- MODULE OperationState -----------------------------
(***************************************************************************)
(* One durable operation driven by every event its reducer accepts.  The   *)
(* order of events is left open: several hosts append to the same journal  *)
(* and a crash may end any of their sequences, so any legal event can be   *)
(* the next one.  Only action receipts are restricted, to the outcomes the *)
(* callers write (CallerOutcome).                                          *)
(***************************************************************************)
EXTENDS OperationReducer

CONSTANTS
    UsedKinds,      \* the action kinds this instance exercises
    Policies        \* the capture policies an operation may be created with

ASSUME UsedKindsAssumption == UsedKinds \subseteq Kinds
ASSUME PoliciesAssumption == Policies \subseteq {"unset", "receipt_only", "transfer"}
ASSUME SentinelAssumption == "none" \notin Bindings \cup Turns \cup Artifacts \cup Destinations

VARIABLE s      \* the operation state all replays of the journal agree on

\* What the callers of the reducer write.  A Send is receipted only as satisfied
\* (persistSubmissionEvidence, persistProgress, advanceToCapturing); a steer
\* as satisfied after its witness, or as not_satisfied by the host that prepared
\* it, which does not look for a witness that another host found in the meantime
\* (persistControlReceipt); a transfer's action only by its typed receipt.
CallerOutcome(a, o) ==
    CASE s.actions[a].kind = "send" -> o = "satisfied"
      [] s.actions[a].kind = "work_steer" ->
             \/ o = "satisfied" /\ s.witnesses[a] # "none"
             \/ o = "not_satisfied"
      [] s.actions[a].kind = "local_output_commit" -> a \notin Transfers(s)
      [] OTHER -> TRUE

Init == s \in {Created(p) : p \in Policies}

BindTarget == \E l \in {"fixed", "new_pending", "new_established"}, b \in Bindings :
    TargetBoundLegal(s, l, b) /\ s' = TargetBound(s, l, b)

EstablishTarget == \E a \in ActionIds, t \in Turns :
    TargetEstablishedLegal(s, a) /\ s' = TargetEstablished(s, t)

RecordIntent == \E a \in ActionIds, k \in UsedKinds, b \in Bindings :
    ActionIntentLegal(s, a, k, b) /\ s' = ActionIntent(s, a, k, b)

RecordPrepared == \E a \in ActionIds, k \in UsedKinds, b \in Bindings :
    ActionPreparedLegal(s, a, k, b) /\ s' = ActionPrepared(s, a, k, b)

RecordBaseline == \E a \in ActionIds :
    OwnershipBaselineLegal(s, a) /\ s' = OwnershipBaseline(s, a)

RecordReceipt == \E a \in ActionIds, o \in Outcomes :
    ActionReceiptLegal(s, a) /\ CallerOutcome(a, o) /\ s' = ActionReceipt(s, a, o)

RecordWitness == \E a \in ActionIds, t \in Turns :
    SubmissionWitnessLegal(s, a, t) /\ s' = SubmissionWitness(s, a, t)

RecordTransferIntent == \E a \in ActionIds, x \in Artifacts, d \in Destinations :
    ArtifactTransferIntentLegal(s, a, x, d) /\ s' = ArtifactTransferIntent(s, a, x, d)

RecordTransferReceipt == \E a \in ActionIds, r \in TransferResults :
    ArtifactTransferReceiptLegal(s, a) /\ s' = ArtifactTransferReceipt(s, a, r)

ChangePhase == \E to \in Phases, c \in ActionIds \cup {"none"} :
    PhaseChangeLegal(s, to, c) /\ s' = PhaseChange(s, to)

AuthorizeRearm == \E a \in ActionIds, b \in Bindings :
    RearmAuthorizedLegal(s, a) /\ s' = RearmAuthorized(s, b)

AttemptRearm == \E a \in ActionIds :
    RearmIntentLegal(s, a) /\ s' = RearmIntent(s)

Complete == \E items \in {{}, SettledTransfers(s)}, content \in {"available", "withheld"} :
    ReceiptCompletedLegal(s, items) /\ s' = ReceiptCompleted(s, items, content)

WithholdContent == ContentWithheldLegal(s) /\ s' = ContentWithheld(s)

\* blocker_observed replaces only the last blocker, which no rule of the reducer
\* reads; it is a stuttering step of this state.
Next ==
    \/ BindTarget \/ EstablishTarget
    \/ RecordIntent \/ RecordPrepared \/ RecordBaseline \/ RecordReceipt \/ RecordWitness
    \/ RecordTransferIntent \/ RecordTransferReceipt
    \/ ChangePhase \/ AuthorizeRearm \/ AttemptRearm
    \/ Complete \/ WithholdContent

Spec == Init /\ [][Next]_s

-----------------------------------------------------------------------------
\* Type correctness of the operation record (types.ts, OperationStateV1).
TypeOK == s \in OperationStates

(***************************************************************************)
(* validateStateCoherence, part by part: the tests the snapshot and wire   *)
(* validators put to a whole state, held by what the reducer accepted      *)
(* event by event.  One test is missing, because the reducer does not keep *)
(* it: see OwnershipLedger.                                                *)
(***************************************************************************)
\* The boundary is the highest one the recorded intents imply: no event can
\* make a mutation look as if it had not been attempted, or invent one.
BoundaryMatchesLedger ==
    /\ \A a \in ActionIds :
          a \in Recorded(s) =>
              BoundaryRank[BoundaryForAction(s.actions[a].kind)] <= BoundaryRank[s.boundary]
    /\ s.boundary # "none" =>
          \E a \in Recorded(s) : BoundaryForAction(s.actions[a].kind) = s.boundary

\* At most one file handoff and one original Send over the operation's life,
\* whatever the number of uncertain episodes in between.
AtMostOneSend ==
    \A a, c \in ActionIds :
        s.actions[a].kind = s.actions[c].kind /\ s.actions[a].kind \in SingleIntentKinds => a = c

\* A phase that reports a submission rests on the complete ownership proof.
OwnedPhaseIsProven == s.phase \in OwnedPhases => SendOwned(s) /\ s.lifecycle # "new_pending"

\* A recovered handoff is proven before anything builds on it.
RearmIsProven ==
    s.rearm # "none" =>
        \E a \in OfKind(s, "file_handoff") :
            \/ s.actions[a].outcome = "satisfied"
            \/ s.phase = "uncertain" /\ OfKind(s, "send") = {}

\* The one state a validator refuses and the reducer reaches: a host rejects the
\* steer it prepared after another host has recorded a witness for it.
RejectedAfterWitness(a) ==
    /\ s.actions[a].kind = "work_steer" /\ s.actions[a].outcome = "not_satisfied"
    /\ s.witnesses[a] # "none"

\* Baselines and witnesses belong to Send or steer actions, a witness rests on a
\* baseline, and neither survives an unproven outcome of its action, except for a
\* witness whose steer is rejected afterwards: validateSubmissionWitnessValues
\* refuses that state, and this part does not.
OwnershipLedger ==
    /\ \A a \in s.baselines :
          /\ s.actions[a].kind \in {"send", "work_steer"}
          /\ s.actions[a].outcome # "uncertain"
          /\ s.actions[a].kind = "send" => s.actions[a].outcome # "not_satisfied"
    /\ \A a \in ActionIds :
          s.witnesses[a] # "none" =>
              /\ a \in s.baselines
              /\ s.actions[a].outcome \in {"open", "satisfied"} \/ RejectedAfterWitness(a)
              /\ s.lifecycle \notin {"unbound", "new_pending"}
              /\ s.establishedTurn # "none" /\ s.actions[a].kind = "send" =>
                     s.witnesses[a] = s.establishedTurn

\* An established conversation has the Send that caused it.
EstablishedBySend ==
    (s.lifecycle = "new_established") = (s.establishedTurn # "none")
    /\ (s.lifecycle = "new_established" => OfKind(s, "send") # {})

\* Transfers exist only under the transfer policy, on one local_output_commit
\* action each, with the outcome their receipt implies and no tuple twice.
TransferLedger ==
    /\ Transfers(s) # {} => s.policy = "transfer"
    /\ \A a \in Transfers(s) :
          /\ s.actions[a].kind = "local_output_commit"
          /\ s.actions[a].outcome =
                 IF s.transfers[a].result = "open" THEN "open"
                 ELSE TransferOutcome(s.transfers[a].result)
          /\ \A c \in Transfers(s) :
                 s.transfers[a].artifact = s.transfers[c].artifact
                     /\ s.transfers[a].dest = s.transfers[c].dest => a = c

PendingPhaseHasIntent ==
    /\ s.phase = "handoff_pending" => OfKind(s, "file_handoff") # {}
    /\ s.phase = "send_pending" => OfKind(s, "send") # {}

\* A record that any legal order of events leaves behind passes every test of the
\* validator but the refusal of a witnessed steer that was rejected.
Coherent ==
    /\ BoundaryMatchesLedger /\ AtMostOneSend /\ OwnedPhaseIsProven /\ RearmIsProven
    /\ OwnershipLedger /\ EstablishedBySend /\ TransferLedger /\ PendingPhaseHasIntent

\* A terminal receipt exists exactly in the completed phase and accounts for
\* every transfer the operation ever started: none open, none unreported
\* (validateTerminalArtifactCapturePolicy), however late it is read.
TerminalAccountsForTransfers ==
    /\ (s.phase = "completed") = (s.receipt # "none")
    /\ s.phase = "completed" =>
          /\ \A a \in Transfers(s) : s.transfers[a].result # "open"
          /\ s.delivered = SettledTransfers(s)

\* No event takes evidence back: intents, settled outcomes, baselines,
\* witnesses, the established conversation and a spent recovery stay, and the
\* boundary never falls, not even when uncertain returns to an earlier phase.
EvidenceIsImmutable == [][
    /\ BoundaryRank[s.boundary] <= BoundaryRank[s'.boundary]
    /\ \A a \in Recorded(s) :
          /\ s'.actions[a].kind = s.actions[a].kind /\ s'.actions[a].target = s.actions[a].target
          /\ s.actions[a].outcome \in {"open", s'.actions[a].outcome}
    /\ s.baselines \subseteq s'.baselines
    /\ \A a \in ActionIds : s.witnesses[a] \in {"none", s'.witnesses[a]}
    /\ s.establishedTurn \in {"none", s'.establishedTurn}
    /\ s.rearm = "attempted" => s'.rearm = "attempted"
    ]_s

\* The target an action may have touched can be replaced only while no Send is
\* recorded and only by spending the single recovery authorization.
TargetReplacedOnlyByRearm == [][
    Bound(s) /\ s'.binding # s.binding =>
        s.rearm = "none" /\ s'.rearm = "authorized" /\ OfKind(s', "send") = {}
    ]_s

\* A completed operation stays completed with the same deliverables; content
\* availability changes at most once, from available to withheld.
CompletionIsFinal == [][
    s.phase = "completed" =>
        /\ s'.phase = "completed" /\ s'.delivered = s.delivered /\ s'.transfers = s.transfers
        /\ s'.receipt \in {s.receipt, "withheld"}
    ]_s
=============================================================================
