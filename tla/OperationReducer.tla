---------------------------- MODULE OperationReducer ----------------------------
(***************************************************************************)
(* The pure event reducer of a durable operation                           *)
(* (packages/node/src/operations/state-machine.ts).  An operation is one   *)
(* record s; for every journal event there is a guard XLegal(s, ...),      *)
(* which holds exactly when applyOperationEvent accepts the event, and the *)
(* record X(s, ...) it then returns.                                       *)
(*                                                                         *)
(* Digests, UUIDs, timestamps and revision numbers are validated by the    *)
(* code and left out here; a binding stands for the target identity whose  *)
(* digest an action carries, a turn for the evidence of one user turn.     *)
(***************************************************************************)
EXTENDS Integers, FiniteSets

CONSTANTS
    ActionIds,      \* identities a caller may give to an action
    Bindings,       \* target identities (provider, browser, tab, anchor)
    Turns,          \* user turns a page can show as the submitted one
    Artifacts,      \* exact artifact identities of the assistant turn
    Destinations    \* output destinations a transfer may name

Phases == {"prepared", "handoff_pending", "ready", "send_pending", "submitted",
           "generating", "capturing", "completed", "uncertain"}

OwnedPhases == {"submitted", "generating", "capturing", "completed"}

Boundaries == {"none", "handoff", "send", "control"}

BoundaryRank == [b \in Boundaries |->
    CASE b = "none" -> 0 [] b = "handoff" -> 1 [] b = "send" -> 2 [] b = "control" -> 3]

\* Mutant: a completed operation may be reopened.
LegalEdgesReopening == [p \in Phases |->
    CASE p = "prepared"        -> {"handoff_pending", "ready", "uncertain"}
      [] p = "handoff_pending" -> {"ready", "uncertain"}
      [] p = "ready"           -> {"send_pending", "uncertain"}
      [] p = "send_pending"    -> {"submitted", "uncertain"}
      [] p = "submitted"       -> {"generating", "capturing", "uncertain"}
      [] p = "generating"      -> {"capturing", "uncertain"}
      [] p \in {"capturing", "completed"} -> {"uncertain"}
      [] p = "uncertain"       -> {"ready", "submitted", "generating", "capturing"}]

LegalEdges == [p \in Phases |->
    CASE p = "prepared"        -> {"handoff_pending", "ready", "uncertain"}
      [] p = "handoff_pending" -> {"ready", "uncertain"}
      [] p = "ready"           -> {"send_pending", "uncertain"}
      [] p = "send_pending"    -> {"submitted", "uncertain"}
      [] p = "submitted"       -> {"generating", "capturing", "uncertain"}
      [] p = "generating"      -> {"capturing", "uncertain"}
      [] p = "capturing"       -> {"uncertain"}
      [] p = "completed"       -> {}
      [] p = "uncertain"       -> {"ready", "submitted", "generating", "capturing"}]

\* configuration_set, tool_set, composer_set and power_select share every rule
\* of the reducer, so one staging kind stands for the four; download and
\* clipboard_capture_restore likewise behave as "download".
Kinds == {"status_read", "composer_set", "power_discovery", "file_handoff", "send",
          "work_steer", "stop", "download", "local_output_commit"}

ActionPhases == [k \in Kinds |->
    CASE k = "status_read" -> Phases
      [] k \in {"composer_set", "power_discovery", "file_handoff"} -> {"prepared"}
      [] k = "send" -> {"ready"}
      [] k \in {"work_steer", "stop"} -> {"generating"}
      [] k \in {"download", "local_output_commit"} -> {"capturing"}]

SingleIntentKinds == {"file_handoff", "send"}

BoundaryForAction(k) ==
    CASE k = "file_handoff" -> "handoff"
      [] k = "send" -> "send"
      [] k \in {"work_steer", "stop"} -> "control"
      [] OTHER -> "none"

Higher(b, c) == IF BoundaryRank[b] > BoundaryRank[c] THEN b ELSE c

Outcomes == {"satisfied", "not_satisfied", "uncertain"}

TransferResults == {"transferred", "partial", "blocked", "output_collision"}

NoAction == [kind |-> "absent", target |-> "none", outcome |-> "open"]
NoTransfer == [artifact |-> "none", dest |-> "none", result |-> "absent"]

ActionRecord ==
    [kind: Kinds, target: Bindings, outcome: Outcomes \cup {"open"}] \cup {NoAction}
TransferRecord ==
    [artifact: Artifacts, dest: Destinations, result: TransferResults \cup {"open"}]
        \cup {NoTransfer}

OperationStates ==
    [phase: Phases, boundary: Boundaries,
     lifecycle: {"unbound", "fixed", "new_pending", "new_established"},
     binding: Bindings \cup {"none"},
     actions: [ActionIds -> ActionRecord],
     baselines: SUBSET ActionIds,
     witnesses: [ActionIds -> Turns \cup {"none"}],
     establishedTurn: Turns \cup {"none"},
     rearm: {"none", "authorized", "attempted"},
     transfers: [ActionIds -> TransferRecord],
     policy: {"unset", "receipt_only", "transfer"},
     receipt: {"none", "available", "withheld"},
     delivered: SUBSET (Artifacts \X TransferResults)]

(***************************************************************************)
(* Reading the ledger.                                                     *)
(***************************************************************************)
Recorded(s) == {a \in ActionIds : s.actions[a].kind # "absent"}
OfKind(s, k) == {a \in ActionIds : s.actions[a].kind = k}
Transfers(s) == {a \in ActionIds : s.transfers[a].result # "absent"}
Bound(s) == s.lifecycle # "unbound"

\* requireDurableOriginalSendOwnership: the Send, its pre-action baseline and
\* its post-action witness.  The two compatibility projections are written by
\* the same events and are not kept apart here.
SendOwned(s) ==
    \E a \in OfKind(s, "send") :
        /\ OfKind(s, "send") = {a}
        /\ s.actions[a].outcome = "satisfied"
        /\ a \in s.baselines
        /\ s.witnesses[a] # "none"

(***************************************************************************)
(* operation_created, target_bound, target_established.                    *)
(***************************************************************************)
Created(policy) ==
    [phase |-> "prepared", boundary |-> "none", lifecycle |-> "unbound", binding |-> "none",
     actions |-> [a \in ActionIds |-> NoAction], baselines |-> {},
     witnesses |-> [a \in ActionIds |-> "none"], establishedTurn |-> "none",
     rearm |-> "none", transfers |-> [a \in ActionIds |-> NoTransfer],
     policy |-> policy, receipt |-> "none", delivered |-> {}]

\* Mutant: a bound target may be bound again to another identity.
TargetReboundLegal(s, l, b) ==
    \/ ~Bound(s) /\ l \in {"fixed", "new_pending"}
    \/ Bound(s) /\ s.lifecycle = l

TargetBoundLegal(s, l, b) ==
    \/ ~Bound(s) /\ l \in {"fixed", "new_pending"}
    \/ Bound(s) /\ s.lifecycle = l /\ s.binding = b

TargetBound(s, l, b) == [s EXCEPT !.lifecycle = l, !.binding = b]

\* The establishment names the causal Send and repeats the digest of its target
\* and the anchor of the pending binding.
TargetEstablishedLegal(s, a) ==
    /\ s.lifecycle = "new_pending"
    /\ s.actions[a].kind = "send"
    /\ s.actions[a].outcome # "not_satisfied"
    /\ s.phase \notin {"prepared", "handoff_pending", "completed"}

\* Mutant: the lifecycle is set to a name no reader knows.
TargetEstablishedMisnamed(s, t) == [s EXCEPT !.lifecycle = "established", !.establishedTurn = t]

TargetEstablished(s, t) == [s EXCEPT !.lifecycle = "new_established", !.establishedTurn = t]

(***************************************************************************)
(* Action intents.                                                         *)
(***************************************************************************)
\* isAttachmentRearmStagingAction: composer staging on the replacement target
\* between the rearm authorization and its attempt.
RearmStaging(s, k, b) ==
    /\ s.phase = "uncertain" /\ s.boundary = "handoff"
    /\ s.rearm = "authorized"
    /\ b = s.binding
    /\ k = "composer_set"

\* Mutant: a second Send or handoff is not refused.
ActionIntentRepeatable(s, a, k, b) ==
    /\ s.actions[a].kind = "absent"
    /\ s.phase \in ActionPhases[k] \/ RearmStaging(s, k, b)
    /\ k # "status_read" => Bound(s)

ActionIntentLegal(s, a, k, b) ==
    /\ s.actions[a].kind = "absent"
    /\ s.phase \in ActionPhases[k] \/ RearmStaging(s, k, b)
    /\ k # "status_read" => Bound(s)
    /\ k \in SingleIntentKinds => OfKind(s, k) = {}

ActionIntent(s, a, k, b) ==
    [s EXCEPT !.actions[a] = [kind |-> k, target |-> b, outcome |-> "open"],
              !.boundary = Higher(BoundaryForAction(k), s.boundary)]

\* The baseline repeats the action's target digest and observes the identity of
\* the bound target (here: the current binding).
OwnershipBaselineLegal(s, a) ==
    /\ s.actions[a].kind \in {"send", "work_steer"}
    /\ Bound(s)
    /\ s.actions[a].target = s.binding
    /\ \/ s.actions[a].outcome \in {"open", "satisfied"}
       \/ s.actions[a].kind = "work_steer" /\ s.actions[a].outcome = "not_satisfied"
    /\ a \notin s.baselines

OwnershipBaseline(s, a) == [s EXCEPT !.baselines = @ \cup {a}]

\* action_prepared: intent and baseline in one event.
ActionPreparedLegal(s, a, k, b) ==
    /\ k \in {"send", "work_steer"}
    /\ ActionIntentLegal(s, a, k, b)
    /\ OwnershipBaselineLegal(ActionIntent(s, a, k, b), a)

ActionPrepared(s, a, k, b) == OwnershipBaseline(ActionIntent(s, a, k, b), a)

(***************************************************************************)
(* Action receipts and submission witnesses.                               *)
(***************************************************************************)
ActionReceiptLegal(s, a) == a \in Recorded(s) /\ s.actions[a].outcome = "open"

ActionReceipt(s, a, o) == [s EXCEPT !.actions[a].outcome = o]

\* An established target fixed the user turn of the Send, and the Send's
\* witness has to name the same one.
SubmissionWitnessLegal(s, a, t) ==
    /\ s.actions[a].kind \in {"send", "work_steer"}
    /\ s.actions[a].outcome \notin {"not_satisfied", "uncertain"}
    /\ Bound(s) /\ s.lifecycle # "new_pending"
    /\ a \in s.baselines
    /\ s.witnesses[a] \in {"none", t}
    /\ s.establishedTurn # "none" /\ s.actions[a].kind = "send" => s.establishedTurn = t

SubmissionWitness(s, a, t) == [s EXCEPT !.witnesses[a] = t]

(***************************************************************************)
(* Artifact transfers: a local_output_commit action with a typed receipt.  *)
(***************************************************************************)
ArtifactTransferIntentLegal(s, a, x, d) ==
    /\ s.policy = "transfer"
    /\ s.phase = "capturing"
    /\ OfKind(s, "send") # {}
    /\ s.transfers[a].result = "absent"
    /\ \A c \in Transfers(s) : s.transfers[c].artifact # x \/ s.transfers[c].dest # d
    /\ \E c \in OfKind(s, "send") :
           ActionIntentLegal(s, a, "local_output_commit", s.actions[c].target)

ArtifactTransferIntent(s, a, x, d) ==
    [ActionIntent(s, a, "local_output_commit",
                  s.actions[CHOOSE c \in OfKind(s, "send") : TRUE].target)
        EXCEPT !.transfers[a] = [artifact |-> x, dest |-> d, result |-> "open"]]

TransferOutcome(r) ==
    CASE r = "transferred" -> "satisfied"
      [] r = "output_collision" -> "not_satisfied"
      [] OTHER -> "uncertain"

ArtifactTransferReceiptLegal(s, a) ==
    /\ s.phase = "capturing"
    /\ s.transfers[a].result = "open"
    /\ ActionReceiptLegal(s, a)

ArtifactTransferReceipt(s, a, r) ==
    [ActionReceipt(s, a, TransferOutcome(r)) EXCEPT !.transfers[a].result = r]

(***************************************************************************)
(* Phase changes.  c is the causal action, "none" when the event names     *)
(* none; every phase event the callers build carries evidence.             *)
(***************************************************************************)
CausedBy(s, c, k, o) == c \in OfKind(s, k) /\ s.actions[c].outcome = o

\* Mutant: ready does not ask for the handoff's receipt.
CausalTransitionUncaused(s, to, c) ==
    /\ s.phase = "uncertain" =>
           /\ c \in Recorded(s) /\ s.actions[c].outcome = "satisfied"
           /\ to = "ready" => CausedBy(s, c, "file_handoff", "satisfied")
           /\ to \in {"generating", "capturing"} => CausedBy(s, c, "send", "satisfied")
    /\ to = "handoff_pending" =>
           CausedBy(s, c, "file_handoff", "open") /\ BoundaryRank[s.boundary] >= 1
    /\ to = "send_pending" =>
           CausedBy(s, c, "send", "open") /\ BoundaryRank[s.boundary] >= 2
    /\ to = "submitted" => CausedBy(s, c, "send", "satisfied") /\ SendOwned(s)
    /\ to \in {"generating", "capturing"} => SendOwned(s)

\* Mutant: send_pending does not ask for a recorded Send intent.
CausalTransitionUnintended(s, to, c) ==
    /\ s.phase = "uncertain" =>
           /\ c \in Recorded(s) /\ s.actions[c].outcome = "satisfied"
           /\ to = "ready" => CausedBy(s, c, "file_handoff", "satisfied")
           /\ to \in {"generating", "capturing"} => CausedBy(s, c, "send", "satisfied")
    /\ to = "handoff_pending" =>
           CausedBy(s, c, "file_handoff", "open") /\ BoundaryRank[s.boundary] >= 1
    /\ to = "submitted" => CausedBy(s, c, "send", "satisfied") /\ SendOwned(s)
    /\ to = "ready" /\ s.phase = "handoff_pending" => CausedBy(s, c, "file_handoff", "satisfied")
    /\ to \in {"generating", "capturing"} => SendOwned(s)

CausalTransition(s, to, c) ==
    /\ s.phase = "uncertain" =>
           /\ c \in Recorded(s) /\ s.actions[c].outcome = "satisfied"
           /\ to = "ready" => CausedBy(s, c, "file_handoff", "satisfied")
           /\ to \in {"generating", "capturing"} => CausedBy(s, c, "send", "satisfied")
    /\ to = "handoff_pending" =>
           CausedBy(s, c, "file_handoff", "open") /\ BoundaryRank[s.boundary] >= 1
    /\ to = "send_pending" =>
           CausedBy(s, c, "send", "open") /\ BoundaryRank[s.boundary] >= 2
    /\ to = "submitted" => CausedBy(s, c, "send", "satisfied") /\ SendOwned(s)
    /\ to = "ready" /\ s.phase = "handoff_pending" => CausedBy(s, c, "file_handoff", "satisfied")
    /\ to \in {"generating", "capturing"} => SendOwned(s)

PhaseChangeLegal(s, to, c) ==
    /\ Bound(s) \/ to = "uncertain"
    /\ s.lifecycle = "new_pending" => to \notin OwnedPhases
    /\ to \in LegalEdges[s.phase]
    /\ c = "none" \/ c \in Recorded(s)
    /\ CausalTransition(s, to, c)

\* Mutant: leaving uncertain forgets the mutation boundary.
PhaseChangeForgetful(s, to) ==
    [s EXCEPT !.phase = to, !.boundary = IF to = "ready" THEN "none" ELSE @]

PhaseChange(s, to) == [s EXCEPT !.phase = to]

(***************************************************************************)
(* The one-use attachment recovery.                                        *)
(***************************************************************************)
RearmAuthorizedLegal(s, a) ==
    /\ s.rearm = "none"
    /\ s.phase = "uncertain" /\ s.boundary = "handoff"
    /\ s.lifecycle = "new_pending"
    /\ OfKind(s, "send") = {}
    /\ OfKind(s, "file_handoff") = {a}
    /\ s.actions[a].outcome = "open"

RearmAuthorized(s, b) == [s EXCEPT !.rearm = "authorized", !.binding = b]

RearmIntentLegal(s, a) ==
    /\ s.rearm = "authorized"
    /\ s.phase = "uncertain" /\ s.boundary = "handoff"
    /\ s.actions[a].kind = "file_handoff" /\ s.actions[a].outcome = "open"
    /\ OfKind(s, "send") = {}

RearmIntent(s) == [s EXCEPT !.rearm = "attempted"]

(***************************************************************************)
(* The terminal receipt.  items is the receipt's artifact list as pairs    *)
(* <<artifact, status>>; "available" is the status of an untransferred one.*)
(***************************************************************************)
SettledTransfers(s) ==
    {<<s.transfers[a].artifact, s.transfers[a].result>> : a \in Transfers(s)}

\* Mutant: an unsettled transfer does not hold back the terminal receipt.
ReceiptIgnoresOpenTransfers(s, items) ==
    CASE s.policy = "receipt_only" -> Transfers(s) = {} /\ items = {}
      [] s.policy = "transfer" -> items = SettledTransfers(s)
      [] OTHER -> items = {}

\* validateTerminalArtifactCapturePolicy for the two policies; a receipt-only
\* receipt lists only artifacts that were not transferred (items is then {}).
ReceiptMatchesTransfers(s, items) ==
    CASE s.policy = "receipt_only" -> Transfers(s) = {} /\ items = {}
      [] s.policy = "transfer" ->
             /\ \A a \in Transfers(s) : s.transfers[a].result # "open"
             /\ \A a, c \in Transfers(s) : s.transfers[a].artifact = s.transfers[c].artifact => a = c
             /\ items = SettledTransfers(s)
      [] OTHER -> items = {}

ReceiptCompletedLegal(s, items) ==
    /\ s.phase \in {"capturing", "uncertain"}
    /\ s.receipt = "none"
    /\ Bound(s) /\ s.lifecycle # "new_pending"
    /\ SendOwned(s)
    /\ ReceiptMatchesTransfers(s, items)

ReceiptCompleted(s, items, content) ==
    [s EXCEPT !.phase = "completed", !.receipt = content, !.delivered = items]

ContentWithheldLegal(s) == s.phase = "completed" /\ s.receipt = "available"

ContentWithheld(s) == [s EXCEPT !.receipt = "withheld"]
=============================================================================
