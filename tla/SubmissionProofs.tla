---------------------------- MODULE SubmissionProofs ----------------------------
(***************************************************************************)
(* Proofs about Submission, for every set of hosts, tabs and identities.   *)
(*                                                                         *)
(* The durable record is driven through OperationReducer, so Record, the   *)
(* reducer driven by every event it accepts, is instantiated on it: each   *)
(* journal append of a host is a step of Record, and what is proved of     *)
(* Record (type, coherence, no Send before ready, evidence that stays)     *)
(* is known of the journal here.  Inv adds what the hosts and the page     *)
(* contribute.                                                             *)
(***************************************************************************)
EXTENDS Submission, TLAPS

Record == INSTANCE OperationRecoveryProofs WITH
    UsedKinds <- {"file_handoff", "send"}, Policies <- {"receipt_only"}

LEMMA UsedKindsHold == Record!UsedKindsAssumption
BY DEF Record!UsedKindsAssumption, Record!Kinds

LEMMA PoliciesHold == Record!PoliciesAssumption
BY DEF Record!PoliciesAssumption

LEMMA SentinelHolds == Record!SentinelAssumption
BY SentinelAssumption DEF Record!SentinelAssumption, Turns, Artifacts, Destinations

\* The record as its own proofs know it.
RecordInv == Record!TypeOK /\ Record!Coherent /\ Record!NoSendBeforeReady

LEMMA RecordNext == RecordInv /\ [Record!Next]_s => RecordInv' /\ [Record!LedgerGrows]_s
<1> SUFFICES ASSUME RecordInv, [Record!Next]_s
             PROVE  RecordInv' /\ [Record!LedgerGrows]_s
  OBVIOUS
<1>1. Record!TypeOK'
  BY UsedKindsHold, PoliciesHold, SentinelHolds, Record!TypeNext DEF RecordInv
<1>2. Record!Coherent'
  BY UsedKindsHold, PoliciesHold, SentinelHolds, Record!CoherentNext DEF RecordInv
<1>3. Record!NoSendBeforeReady'
  BY UsedKindsHold, PoliciesHold, SentinelHolds, Record!NoSendBeforeReadyNext DEF RecordInv
<1>4. [Record!LedgerGrows]_s
  BY UsedKindsHold, PoliciesHold, SentinelHolds, Record!LedgerGrowsNext DEF RecordInv
<1> QED
  BY <1>1, <1>2, <1>3, <1>4 DEF RecordInv

LEMMA StatesAgree == OperationStates = Record!OperationStates
BY DEF OperationStates, Record!OperationStates, Phases, Record!Phases, Boundaries,
       Record!Boundaries, ActionRecord, Record!ActionRecord, Kinds, Record!Kinds, Outcomes,
       Record!Outcomes, NoAction, Record!NoAction, TransferRecord, Record!TransferRecord,
       TransferResults, Record!TransferResults, NoTransfer, Record!NoTransfer

LEMMA RulesAgree ==
    /\ ActionPhases = Record!ActionPhases /\ BoundaryRank = Record!BoundaryRank
    /\ LegalEdges = Record!LegalEdges /\ OwnedPhases = Record!OwnedPhases
BY DEF ActionPhases, Record!ActionPhases, BoundaryRank, Record!BoundaryRank, LegalEdges,
       Record!LegalEdges, OwnedPhases, Record!OwnedPhases, Kinds, Record!Kinds, Phases,
       Record!Phases, Boundaries, Record!Boundaries

LEMMA KindsAgree ==
    ASSUME NEW st
    PROVE  /\ \A k : OfKind(st, k) = Record!OfKind(st, k)
           /\ Recorded(st) = Record!Recorded(st) /\ (Bound(st) <=> Record!Bound(st))
BY DEF OfKind, Record!OfKind, Recorded, Record!Recorded, Bound, Record!Bound

LEMMA IntentAgrees ==
    ASSUME NEW st, NEW a, NEW k \in {"file_handoff", "send"}, NEW b
    PROVE  /\ ActionIntentLegal(st, a, k, b) <=> Record!ActionIntentLegal(st, a, k, b)
           /\ ActionIntent(st, a, k, b) = Record!ActionIntent(st, a, k, b)
<1>1. RearmStaging(st, k, b) <=> Record!RearmStaging(st, k, b)
  BY DEF RearmStaging, Record!RearmStaging
<1> QED
  BY <1>1, RulesAgree, KindsAgree
     DEF ActionIntentLegal, Record!ActionIntentLegal, ActionIntent, Record!ActionIntent,
         SingleIntentKinds, Record!SingleIntentKinds, BoundaryForAction,
         Record!BoundaryForAction, Higher, Record!Higher

LEMMA PreparedAgrees ==
    ASSUME NEW st, NEW a, NEW b
    PROVE  /\ ActionPreparedLegal(st, a, "send", b) <=> Record!ActionPreparedLegal(st, a, "send", b)
           /\ ActionPrepared(st, a, "send", b) = Record!ActionPrepared(st, a, "send", b)
<1>1. \A t : /\ OwnershipBaselineLegal(t, a) <=> Record!OwnershipBaselineLegal(t, a)
             /\ OwnershipBaseline(t, a) = Record!OwnershipBaseline(t, a)
  BY DEF OwnershipBaselineLegal, Record!OwnershipBaselineLegal, OwnershipBaseline,
         Record!OwnershipBaseline, Bound, Record!Bound
<1> QED
  BY <1>1, IntentAgrees
     DEF ActionPreparedLegal, Record!ActionPreparedLegal, ActionPrepared, Record!ActionPrepared

LEMMA PhaseChangeAgrees ==
    ASSUME NEW st, NEW to, NEW c
    PROVE  /\ PhaseChangeLegal(st, to, c) <=> Record!PhaseChangeLegal(st, to, c)
           /\ PhaseChange(st, to) = Record!PhaseChange(st, to)
<1>1. SendOwned(st) <=> Record!SendOwned(st)
  BY KindsAgree DEF SendOwned, Record!SendOwned
<1>2. \A k, o : CausedBy(st, c, k, o) <=> Record!CausedBy(st, c, k, o)
  BY KindsAgree DEF CausedBy, Record!CausedBy
<1>3. CausalTransition(st, to, c) <=> Record!CausalTransition(st, to, c)
  BY <1>1, <1>2, KindsAgree, RulesAgree DEF CausalTransition, Record!CausalTransition
<1> QED
  BY <1>3, KindsAgree, RulesAgree
     DEF PhaseChangeLegal, Record!PhaseChangeLegal, PhaseChange, Record!PhaseChange

LEMMA ReceiptAgrees ==
    ASSUME NEW st, NEW a, NEW o
    PROVE  /\ ActionReceiptLegal(st, a) <=> Record!ActionReceiptLegal(st, a)
           /\ ActionReceipt(st, a, o) = Record!ActionReceipt(st, a, o)
BY KindsAgree DEF ActionReceiptLegal, Record!ActionReceiptLegal, ActionReceipt, Record!ActionReceipt

LEMMA TargetAgrees ==
    ASSUME NEW st, NEW l, NEW b
    PROVE  /\ TargetBoundLegal(st, l, b) <=> Record!TargetBoundLegal(st, l, b)
           /\ TargetBound(st, l, b) = Record!TargetBound(st, l, b)
BY KindsAgree DEF TargetBoundLegal, Record!TargetBoundLegal, TargetBound, Record!TargetBound

LEMMA TurnAgrees ==
    ASSUME NEW st, NEW a, NEW t
    PROVE  /\ TargetEstablishedLegal(st, a) <=> Record!TargetEstablishedLegal(st, a)
           /\ TargetEstablished(st, t) = Record!TargetEstablished(st, t)
           /\ SubmissionWitnessLegal(st, a, t) <=> Record!SubmissionWitnessLegal(st, a, t)
           /\ SubmissionWitness(st, a, t) = Record!SubmissionWitness(st, a, t)
BY KindsAgree DEF TargetEstablishedLegal, Record!TargetEstablishedLegal, TargetEstablished,
       Record!TargetEstablished, SubmissionWitnessLegal, Record!SubmissionWitnessLegal,
       SubmissionWitness, Record!SubmissionWitness

LEMMA RearmAgrees ==
    ASSUME NEW st, NEW a, NEW b
    PROVE  /\ RearmIntentLegal(st, a) <=> Record!RearmIntentLegal(st, a)
           /\ RearmIntent(st) = Record!RearmIntent(st)
           /\ RearmAuthorized(st, b) = Record!RearmAuthorized(st, b)
BY KindsAgree DEF RearmIntentLegal, Record!RearmIntentLegal, RearmIntent, Record!RearmIntent,
       RearmAuthorized, Record!RearmAuthorized

-----------------------------------------------------------------------------
(***************************************************************************)
(* The inductive invariant.                                                *)
(***************************************************************************)
Pages == [staged: BOOLEAN, files: Nat, seen: Nat, turns: Nat]

Shapes ==
    /\ newTarget \in BOOLEAN /\ page \in [Bindings -> Pages]
    /\ pc \in [Hosts -> Steps] /\ snap \in [Hosts -> OperationStates]
    /\ tab \in [Hosts -> Bindings] /\ hid \in [Hosts -> ActionIds \cup {"none"}]
    /\ auth \in [Hosts -> BOOLEAN] /\ opened \in [Hosts -> BOOLEAN]
    /\ prep \in [Hosts -> Nat] /\ anchor \in Nat
    /\ handoffs \in Nat /\ activated \in Seq(Bindings)

\* The ledger holds handoffs and Sends, on the tab the operation is bound to;
\* a handoff is left on another tab only by a rearm.
Ledger ==
    /\ \A a \in ActionIds : s.actions[a].kind \in {"absent", "file_handoff", "send"}
    /\ Bound(s) => s.binding \in Bindings
    /\ Recorded(s) # {} => Bound(s)
    /\ \A a \in Send(s) : s.actions[a].target = s.binding
    /\ s.rearm = "none" => \A a \in Handoff(s) : s.actions[a].target = s.binding
    /\ s.rearm # "none" => s.phase # "prepared"

\* What a host loaded is still in the journal.
Behind == \A h \in Hosts :
    /\ Handoff(snap[h]) \subseteq Handoff(s)
    /\ Send(snap[h]) \subseteq Send(s)
    /\ Send(snap[h]) # {} => snap[h].binding = s.binding
    /\ snap[h].rearm # "none" => s.rearm # "none"

\* A host past the resolution of its target works on the bound tab.
Unresolved == {"idle", "resolve", "rearmResolve", "blocker"}
OnBinding == \A h \in Hosts :
    pc[h] \notin Unresolved /\ s.rearm = "none" => Bound(s) /\ tab[h] = s.binding

\* Who may activate, who has, and what the page shows of it.
AfterIntent == {"sendPhase", "lostSend", "execute", "verify", "recover", "establish", "witness",
                "repair", "sendReceipt", "submitted"}
AfterSight == {"establish", "witness", "repair", "sendReceipt", "submitted"}
Sending == {"sendPhase", "execute"}

Activation ==
    /\ \A h \in Hosts : pc[h] \in AfterIntent => Send(s) # {}
    /\ \A h \in Hosts : pc[h] \in AfterSight => activated # <<>>
    /\ \A h \in Hosts : pc[h] \in Sending =>
          activated = <<>> /\ \A a \in Send(s) : s.actions[a].target = tab[h]
    /\ \A g, h \in Hosts : pc[g] \in Sending /\ pc[h] \in Sending => g = h
    /\ activated # <<>> => Send(s) # {} /\ \A a \in Send(s) : activated = <<s.actions[a].target>>
    /\ Settled(s, "send", "satisfied") => activated # <<>>
    /\ \A b \in Bindings : page[b].turns # 0 => activated # <<>>

TurnCounts ==
    /\ \A b \in Bindings : page[b].turns \in 0..1
    /\ \A h \in Hosts : prep[h] \in 0..1
    /\ anchor \in 0..1

\* The handoff a host reports on is the recorded one.
Unnamed == {"resolve", "stage", "run", "attach", "intent", "rearmResolve", "rearmStage",
            "preflight", "rearmIntent"}
Named == \A h \in Hosts :
    /\ pc[h] \in Unnamed => hid[h] = "none"
    /\ pc[h] \in {"pending", "handoff", "observe", "receipt"} => hid[h] \in Handoff(s)
    /\ pc[h] = "ready" => \/ hid[h] = "none"
                          \/ hid[h] \in Handoff(s) /\ s.actions[hid[h]].outcome = "satisfied"

\* One host at most holds the authority of the spent rearm.
Authority ==
    /\ \A h \in Hosts : auth[h] =>
        /\ s.rearm = "attempted"
        /\ pc[h] \notin {"resolve", "stage", "intent", "pending", "rearmResolve", "rearmStage",
                         "preflight", "rearmIntent", "observe"}
        /\ pc[h] \in {"run", "attach"} => Handoff(snap[h]) # {}
    /\ \A g, h \in Hosts : auth[g] /\ auth[h] => g = h

\* Handoffs executed and still to be executed are covered by the intents recorded.
Owing(h) == pc[h] \in {"pending", "handoff"} /\ ~auth[h]
One(p) == IF p THEN 1 ELSE 0
Budget ==
    /\ \A g, h \in Hosts : Owing(g) /\ Owing(h) => g = h
    /\ handoffs + One(\E h \in Hosts : Owing(h)) + One(\E h \in Hosts : auth[h])
          <= One(Handoff(s) # {}) + One(s.rearm = "attempted")
    /\ s.phase = "prepared" => handoffs = 0 /\ \A h \in Hosts : pc[h] # "handoff"

\* The composer holds what was handed over, or what was left in it before.
AwaitsFiles(h) ==
    \/ pc[h] \in {"intent", "pending", "handoff", "rearmIntent"}
    \/ auth[h] /\ pc[h] \in {"run", "attach"}
Composer ==
    /\ \A b \in Bindings :
          /\ page[b].seen <= page[b].files
          /\ \/ page[b].files <= handoffs
             \/ page[b].files = 1 /\ page[b].seen = 1
    /\ \A h \in Hosts : AwaitsFiles(h) => page[tab[h]].files <= handoffs

\* While the operation is prepared, the host that found the files there and the
\* host that did not cannot both have looked at the bound tab.
Prepared == s.phase = "prepared" =>
    /\ Handoff(s) # {} => page[s.binding].files = 0
    /\ \A h \in Hosts : pc[h] = "ready" /\ hid[h] = "none" => page[tab[h]].files # 0

Readied ==
    s.phase = "ready" \/ Send(s) # {} => \A a \in Handoff(s) : s.actions[a].outcome = "satisfied"

Inv ==
    /\ RecordInv /\ Shapes /\ Ledger /\ Behind /\ OnBinding /\ Activation /\ TurnCounts
    /\ Named /\ Authority /\ Budget /\ Composer /\ Prepared /\ Readied

-----------------------------------------------------------------------------
(***************************************************************************)
(* Every journal append is an event the reducer accepts.                   *)
(***************************************************************************)
LEMMA PhaseAppendStep ==
    ASSUME NEW h, NEW to \in Phases, NEW c \in ActionIds \cup {"none"}, NEW next, NEW failed,
           PhaseAppend(h, to, c, next, failed)
    PROVE  Record!ChangePhase \/ UNCHANGED s
BY PhaseChangeAgrees
   DEF PhaseAppend, Record!ChangePhase, Phases, Record!Phases

LEMMA TheSendRecorded ==
    ASSUME Send(s) # {} PROVE TheSend(s) \in Send(s) /\ TheSend(s) \in ActionIds
BY DEF TheSend, Send, OfKind

LEMMA JournalStep == Inv /\ Next => Record!Next \/ UNCHANGED s
<1> SUFFICES ASSUME Inv, Next PROVE Record!Next \/ UNCHANGED s
  OBVIOUS
<1> RecordInv /\ Shapes /\ Named /\ Activation
  BY DEF Inv
<1>1. ASSUME NEW h \in Hosts, ResolveTarget(h) PROVE Record!BindTarget \/ UNCHANGED s
  BY <1>1, FirstTabAssumption, TargetAgrees DEF ResolveTarget, Record!BindTarget
<1>2. ASSUME NEW h \in Hosts, HandoffIntent(h) PROVE Record!RecordIntent \/ UNCHANGED s
  <2>1. ASSUME NEW a \in ActionIds, ActionIntentLegal(s, a, "file_handoff", tab[h]),
               s' = ActionIntent(s, a, "file_handoff", tab[h])
        PROVE  Record!RecordIntent
    <3>1. tab[h] \in Bindings
      BY DEF Shapes
    <3>2. Record!ActionIntentLegal(s, a, "file_handoff", tab[h])
      BY <2>1, IntentAgrees
    <3>3. s' = Record!ActionIntent(s, a, "file_handoff", tab[h])
      BY <2>1, IntentAgrees
    <3> QED
      BY <3>1, <3>2, <3>3 DEF Record!RecordIntent
  <2> QED
    BY <1>2, <2>1 DEF HandoffIntent
<1>3. ASSUME NEW h \in Hosts, HandoffPending(h) PROVE Record!ChangePhase \/ UNCHANGED s
  BY <1>3, PhaseAppendStep DEF HandoffPending, Phases, Shapes
<1>4. ASSUME NEW h \in Hosts, HandoffReceipt(h) PROVE Record!RecordReceipt \/ UNCHANGED s
  <2>1. hid[h] \in Handoff(s)
    BY <1>4 DEF HandoffReceipt, At, Named
  <2>2. Record!CallerOutcome(hid[h], "satisfied")
    BY <2>1 DEF Record!CallerOutcome, Handoff, OfKind
  <2> QED
    BY <1>4, <2>1, <2>2, ReceiptAgrees
       DEF HandoffReceipt, Record!RecordReceipt, Record!Outcomes, Handoff, OfKind
<1>5. ASSUME NEW h \in Hosts, Ready(h) PROVE Record!ChangePhase \/ UNCHANGED s
  BY <1>5, PhaseAppendStep DEF Ready, Phases, Shapes
<1>6. ASSUME NEW h \in Hosts, PersistSend(h) PROVE Record!RecordPrepared \/ UNCHANGED s
  <2>1. ASSUME NEW a \in ActionIds, ActionPreparedLegal(s, a, "send", tab[h]),
               s' = ActionPrepared(s, a, "send", tab[h])
        PROVE  Record!RecordPrepared
    <3>1. tab[h] \in Bindings
      BY DEF Shapes
    <3>2. Record!ActionPreparedLegal(s, a, "send", tab[h])
      BY <2>1, PreparedAgrees
    <3>3. s' = Record!ActionPrepared(s, a, "send", tab[h])
      BY <2>1, PreparedAgrees
    <3> QED
      BY <3>1, <3>2, <3>3 DEF Record!RecordPrepared
  <2> QED
    BY <1>6, <2>1 DEF PersistSend, journal
<1>7. ASSUME NEW h \in Hosts, SendPhase(h) \/ LostSend(h) \/ Repair(h) \/ Submitted(h)
      PROVE  Record!ChangePhase \/ UNCHANGED s
  <2>1. TheSend(s) \in ActionIds
    BY <1>7, TheSendRecorded
       DEF SendPhase, LostSend, Repair, Submitted, At, Activation, AfterIntent
  <2> QED
    BY <1>7, <2>1, PhaseAppendStep DEF SendPhase, LostSend, Repair, Submitted, Phases
<1>8. ASSUME NEW h \in Hosts, Establish(h) \/ Witness(h)
      PROVE  Record!EstablishTarget \/ Record!RecordWitness \/ UNCHANGED s
  <2>1. TheSend(s) \in ActionIds
    BY <1>8, TheSendRecorded DEF Establish, Witness, At, Activation, AfterIntent
  <2>2. NewTurn \in Turns
    BY DEF NewTurn, Turns
  <2> QED
    BY <1>8, <2>1, <2>2, TurnAgrees
       DEF Establish, Witness, Record!EstablishTarget, Record!RecordWitness
<1>9. ASSUME NEW h \in Hosts, SendReceipt(h) PROVE Record!RecordReceipt \/ UNCHANGED s
  <2>1. TheSend(s) \in ActionIds /\ s.actions[TheSend(s)].kind = "send"
    BY <1>9, TheSendRecorded DEF SendReceipt, At, Activation, AfterIntent, Send, OfKind
  <2>2. Record!CallerOutcome(TheSend(s), "satisfied")
    BY <2>1 DEF Record!CallerOutcome
  <2> QED
    BY <1>9, <2>1, <2>2, ReceiptAgrees DEF SendReceipt, Record!RecordReceipt, Record!Outcomes
<1>10. ASSUME NEW h \in Hosts, PersistBlocker(h) PROVE Record!ChangePhase \/ UNCHANGED s
  <2>1. ASSUME s.phase \notin {"uncertain", "completed"}
        PROVE  Record!PhaseChangeLegal(s, "uncertain", "none")
    BY <2>1 DEF RecordInv, Record!TypeOK, Record!OperationStates, Record!Phases,
                Record!PhaseChangeLegal, Record!CausalTransition, Record!LegalEdges,
                Record!OwnedPhases
  <2> QED
    BY <1>10, <2>1, PhaseChangeAgrees DEF PersistBlocker, Record!ChangePhase, Record!Phases
<1>11. ASSUME NEW h \in Hosts, RearmAuthorize(h) PROVE Record!AuthorizeRearm \/ UNCHANGED s
  <2>1. ASSUME RearmEligible(s), s.rearm = "none"
        PROVE  \E a \in ActionIds : Record!RearmAuthorizedLegal(s, a)
    <3>1. PICK a \in Handoff(s) : s.actions[a].outcome = "open"
      BY <2>1 DEF RearmEligible, Settled, Handoff
    <3>2. a \in ActionIds /\ Record!OfKind(s, "file_handoff") = {a}
      BY <3>1 DEF RecordInv, Record!Coherent, Record!AtMostOneSend, Record!SingleIntentKinds,
                  Handoff, OfKind, Record!OfKind
    <3> QED
      BY <2>1, <3>1, <3>2, KindsAgree DEF RearmEligible, Record!RearmAuthorizedLegal, Send
  <2> QED
    BY <1>11, <2>1, RearmAgrees DEF RearmAuthorize, Record!AuthorizeRearm
<1>12. ASSUME NEW h \in Hosts, RearmAttempt(h) PROVE Record!AttemptRearm \/ UNCHANGED s
  <2>1. ASSUME s.rearm = "authorized" PROVE TheHandoff(s) \in ActionIds
    BY <2>1, KindsAgree
       DEF RecordInv, Record!Coherent, Record!RearmIsProven, TheHandoff, Handoff, OfKind
  <2> QED
    BY <1>12, <2>1, RearmAgrees DEF RearmAttempt, Record!AttemptRearm, RearmIntentLegal
<1>13. ASSUME NEW h \in Hosts,
              \/ Begin(h) \/ Stage(h) \/ Run(h) \/ Attach(h) \/ ExecuteHandoff(h)
              \/ ObserveHandoff(h) \/ PrepareSend(h) \/ ExecuteSend(h) \/ Verify(h)
              \/ RearmStage(h) \/ Preflight(h) \/ Crash(h)
       PROVE  UNCHANGED s
  BY <1>13 DEF Begin, Stage, Run, Attach, ExecuteHandoff, ObserveHandoff, PrepareSend,
       ExecuteSend, Verify, RearmStage, Preflight, Crash, journal
<1>14. ASSUME NEW b \in Bindings, Render(b) PROVE UNCHANGED s
  BY <1>14 DEF Render, journal
<1> QED
  BY <1>1, <1>2, <1>3, <1>4, <1>5, <1>6, <1>7, <1>8, <1>9, <1>10, <1>11, <1>12, <1>13, <1>14
     DEF Next, Record!Next

-----------------------------------------------------------------------------
(***************************************************************************)
(* Frames: what each action leaves alone.                                  *)
(***************************************************************************)
\* The actions that append to the journal, by the field they write.
Appending(h) ==
    \/ HandoffPending(h) \/ Ready(h) \/ SendPhase(h) \/ LostSend(h) \/ Repair(h)
    \/ Submitted(h) \/ PersistBlocker(h)
Settling(h) == HandoffReceipt(h) \/ SendReceipt(h)
Rearming(h) == RearmAuthorize(h) \/ RearmAttempt(h)
Writing(h) ==
    \/ Appending(h) \/ Settling(h) \/ Rearming(h) \/ ResolveTarget(h) \/ HandoffIntent(h)
    \/ PersistSend(h) \/ Establish(h) \/ Witness(h)
Reading(h) ==
    \/ Begin(h) \/ Stage(h) \/ Run(h) \/ Attach(h) \/ ExecuteHandoff(h) \/ ObserveHandoff(h)
    \/ PrepareSend(h) \/ ExecuteSend(h) \/ Verify(h) \/ RearmStage(h) \/ Preflight(h) \/ Crash(h)
HostNext(h) == Writing(h) \/ Reading(h)

LEMMA NextIsHostNext == Next => (\E h \in Hosts : HostNext(h)) \/ \E b \in Bindings : Render(b)
BY DEF Next, HostNext, Writing, Reading, Appending, Settling, Rearming

LEMMA ReadingFrame == ASSUME NEW h, Reading(h) PROVE s' = s
BY DEF Reading, Begin, Stage, Run, Attach, ExecuteHandoff, ObserveHandoff, PrepareSend,
       ExecuteSend, Verify, RearmStage, Preflight, Crash, journal

LEMMA AppendingFrame ==
    ASSUME RecordInv, NEW h, Appending(h)
    PROVE  /\ s'.actions = s.actions /\ s'.binding = s.binding /\ s'.lifecycle = s.lifecycle
           /\ s'.rearm = s.rearm /\ s'.boundary = s.boundary
           /\ s'.phase # s.phase => s'.phase # "prepared"
BY DEF RecordInv, Record!TypeOK, Record!OperationStates, Appending, HandoffPending, Ready,
       SendPhase, LostSend, Repair, Submitted, PersistBlocker, PhaseAppend, PhaseChange

LEMMA SettlingFrame ==
    ASSUME RecordInv, NEW h, Settling(h)
    PROVE  /\ s'.phase = s.phase /\ s'.binding = s.binding /\ s'.lifecycle = s.lifecycle
           /\ s'.rearm = s.rearm
           /\ \A a \in ActionIds : /\ s'.actions[a].kind = s.actions[a].kind
                                   /\ s'.actions[a].target = s.actions[a].target
BY DEF RecordInv, Record!TypeOK, Record!OperationStates, Record!ActionRecord, Record!NoAction,
       Settling, HandoffReceipt, SendReceipt, ActionReceipt

LEMMA RearmingFrame ==
    ASSUME RecordInv, NEW h, Rearming(h)
    PROVE  /\ s'.phase = s.phase /\ s'.actions = s.actions /\ s'.lifecycle = s.lifecycle
           /\ s'.binding # s.binding => s.phase = "uncertain" /\ Send(s) = {} /\ s'.rearm = "authorized"
                                        /\ s'.binding \in Bindings
           /\ s'.rearm # s.rearm => s'.rearm # "none" /\ s.phase = "uncertain"
<1>1. s \in Record!OperationStates
  BY DEF RecordInv, Record!TypeOK
<1>2. CASE RearmAuthorize(h)
  <2>1. CASE UNCHANGED s
    BY <2>1
  <2>2. CASE s' # s
    <3>1. PICK b \in Bindings : s' = RearmAuthorized(s, b)
      BY <1>2, <2>2 DEF RearmAuthorize
    <3>2. s.phase = "uncertain" /\ Send(s) = {}
      BY <1>2, <2>2 DEF RearmAuthorize, RearmEligible
    <3> QED
      BY <1>1, <3>1, <3>2 DEF RearmAuthorized, Record!OperationStates
  <2> QED
    BY <2>1, <2>2
<1>3. CASE RearmAttempt(h)
  <2>1. CASE UNCHANGED s
    BY <2>1
  <2>2. CASE s' = RearmIntent(s) /\ s.phase = "uncertain"
    BY <1>1, <2>2 DEF RearmIntent, Record!OperationStates
  <2> QED
    BY <1>3, <2>1, <2>2 DEF RearmAttempt, RearmIntentLegal
<1> QED
  BY <1>2, <1>3 DEF Rearming

BindingMoves ==
    /\ s'.phase = s.phase /\ s'.actions = s.actions /\ s'.rearm = s.rearm
    /\ Bound(s) => Bound(s') /\ s'.binding = s.binding
    /\ s'.binding # s.binding => s'.binding \in Bindings /\ Bound(s')
    /\ Bound(s') # Bound(s) => s'.binding \in Bindings

LEMMA BindingFrame ==
    ASSUME RecordInv, NEW h, ResolveTarget(h) \/ Establish(h) \/ Witness(h)
    PROVE  BindingMoves
<1>1. s \in Record!OperationStates
  BY DEF RecordInv, Record!TypeOK
<1>2. CASE s' = s
  BY <1>2 DEF BindingMoves, Bound
<1>3. ASSUME NEW l, NEW b \in Bindings, TargetBoundLegal(s, l, b), s' = TargetBound(s, l, b)
      PROVE  BindingMoves
  BY <1>1, <1>3 DEF BindingMoves, Bound, TargetBoundLegal, TargetBound, Record!OperationStates
<1>4. ASSUME TargetEstablishedLegal(s, TheSend(s)), s' = TargetEstablished(s, NewTurn)
      PROVE  BindingMoves
  BY <1>1, <1>4
     DEF BindingMoves, Bound, TargetEstablishedLegal, TargetEstablished, Record!OperationStates
<1>5. ASSUME s' = SubmissionWitness(s, TheSend(s), NewTurn) PROVE BindingMoves
  BY <1>1, <1>5 DEF BindingMoves, Bound, SubmissionWitness, Record!OperationStates
<1>6. CASE ResolveTarget(h)
  BY <1>2, <1>3, <1>6, FirstTabAssumption DEF ResolveTarget
<1>7. CASE Establish(h)
  BY <1>2, <1>4, <1>7 DEF Establish
<1>8. CASE Witness(h)
  BY <1>2, <1>5, <1>8 DEF Witness
<1> QED
  BY <1>6, <1>7, <1>8

\* An intent adds one action of its kind, on the host's tab.
Adds(k, b) ==
    /\ Bound(s) /\ OfKind(s, k) = {}
    /\ \E a \in ActionIds :
          /\ s.actions[a].kind = "absent"
          /\ s'.actions = [s.actions EXCEPT ![a] = [kind |-> k, target |-> b, outcome |-> "open"]]

LEMMA AddsOne ==
    ASSUME RecordInv, NEW k \in {"file_handoff", "send"}, NEW b, Adds(k, b)
    PROVE  \E a \in ActionIds :
              /\ OfKind(s', k) = {a} /\ s'.actions[a].kind = k
              /\ s'.actions[a].target = b /\ s'.actions[a].outcome = "open"
              /\ \A c \in ActionIds : c # a => s'.actions[c] = s.actions[c]
              /\ s.actions[a].kind = "absent"
<1>1. PICK a \in ActionIds :
          /\ s.actions[a].kind = "absent"
          /\ s'.actions = [s.actions EXCEPT ![a] = [kind |-> k, target |-> b, outcome |-> "open"]]
  BY DEF Adds
<1>2. /\ s'.actions[a] = [kind |-> k, target |-> b, outcome |-> "open"]
      /\ \A c \in ActionIds : c # a => s'.actions[c] = s.actions[c]
  BY <1>1 DEF RecordInv, Record!TypeOK, Record!OperationStates
<1>3. OfKind(s', k) = {a}
  BY <1>2 DEF Adds, OfKind
<1> QED
  BY <1>1, <1>2, <1>3

LEMMA HandoffIntentFrame ==
    ASSUME RecordInv, NEW h, HandoffIntent(h)
    PROVE  /\ s'.phase = s.phase /\ s'.rearm = s.rearm
           /\ s'.binding = s.binding /\ s'.lifecycle = s.lifecycle
           /\ \/ s' = s
              \/ s.phase = "prepared" /\ Adds("file_handoff", tab[h])
<1>1. ActionPhases["file_handoff"] = {"prepared"}
  BY DEF ActionPhases, Kinds
<1>2. ASSUME NEW a \in ActionIds, ActionIntentLegal(s, a, "file_handoff", tab[h]),
             s' = ActionIntent(s, a, "file_handoff", tab[h])
      PROVE  /\ s.phase = "prepared" /\ Adds("file_handoff", tab[h])
             /\ s'.phase = s.phase /\ s'.rearm = s.rearm
             /\ s'.binding = s.binding /\ s'.lifecycle = s.lifecycle
  BY <1>1, <1>2
     DEF RecordInv, Record!TypeOK, Record!OperationStates, ActionIntent, ActionIntentLegal,
         RearmStaging, SingleIntentKinds, Adds
<1> QED
  BY <1>2 DEF HandoffIntent

LEMMA PersistSendFrame ==
    ASSUME RecordInv, Shapes, NEW h \in Hosts, PersistSend(h)
    PROVE  /\ s'.phase = s.phase /\ s'.rearm = s.rearm
           /\ s'.binding = s.binding /\ s'.lifecycle = s.lifecycle
           /\ \/ s' = s /\ anchor' = anchor /\ pc'[h] \notin {"sendPhase", "lostSend"}
              \/ s.phase = "ready" /\ s.binding = tab[h] /\ Adds("send", tab[h])
<1>1. ActionPhases["send"] = {"ready"}
  BY DEF ActionPhases, Kinds
<1>2. ASSUME NEW a \in ActionIds, ActionPreparedLegal(s, a, "send", tab[h]),
             s' = ActionPrepared(s, a, "send", tab[h])
      PROVE  /\ s.phase = "ready" /\ Adds("send", tab[h])
             /\ s'.phase = s.phase /\ s'.rearm = s.rearm
             /\ s'.binding = s.binding /\ s'.lifecycle = s.lifecycle
  BY <1>1, <1>2
     DEF RecordInv, Record!TypeOK, Record!OperationStates, ActionIntent, ActionIntentLegal,
         ActionPrepared, ActionPreparedLegal, OwnershipBaseline,
         RearmStaging, SingleIntentKinds, Adds
<1> QED
  BY <1>2 DEF PersistSend, journal, Go, Shapes

\* Over one step the ledger keeps every action with its kind, target and settled
\* outcome, and there is never a second handoff or Send.
LEMMA JournalNext ==
    ASSUME Inv, Next
    PROVE  /\ RecordInv'
           /\ Handoff(s) \subseteq Handoff(s') /\ Send(s) \subseteq Send(s')
           /\ Handoff(s) # {} => Handoff(s') = Handoff(s)
           /\ Send(s) # {} => Send(s') = Send(s)
           /\ \A a \in Handoff(s) \cup Send(s) :
                 /\ s'.actions[a].target = s.actions[a].target
                 /\ s.actions[a].outcome = "satisfied" => s'.actions[a].outcome = "satisfied"
           /\ s.rearm = "attempted" => s'.rearm = "attempted"
<1>1. RecordInv' /\ [Record!LedgerGrows]_s
  BY JournalStep, RecordNext DEF Inv
<1>2. CASE s' = s
  BY <1>1, <1>2
<1>3. CASE Record!LedgerGrows
  <2>1. \A a \in Recorded(s) :
            /\ s'.actions[a].kind = s.actions[a].kind /\ s'.actions[a].target = s.actions[a].target
            /\ s.actions[a].outcome \in {"open", s'.actions[a].outcome}
    BY <1>3, KindsAgree DEF Record!LedgerGrows
  <2>2. \A a, c \in ActionIds :
            s'.actions[a].kind = s'.actions[c].kind /\ s'.actions[a].kind \in {"file_handoff", "send"}
               => a = c
    BY <1>1 DEF RecordInv, Record!Coherent, Record!AtMostOneSend, Record!SingleIntentKinds
  <2>3. s.rearm = "attempted" => s'.rearm = "attempted"
    BY <1>3 DEF Record!LedgerGrows
  <2> QED
    BY <1>1, <2>1, <2>2, <2>3 DEF Handoff, Send, OfKind, Recorded
<1> QED
  BY <1>1, <1>2, <1>3

-----------------------------------------------------------------------------
(***************************************************************************)
(* Preservation, part by part.                                             *)
(***************************************************************************)
LEMMA LedgerNext == Inv /\ Next => Ledger'
<1> SUFFICES ASSUME Inv, Next PROVE Ledger'
  OBVIOUS
<1> USE DEF Inv
<1>1. ASSUME s' = s PROVE Ledger'
  BY <1>1 DEF Ledger, Bound, Recorded, Send, Handoff, OfKind
<1>2. ASSUME NEW h \in Hosts, Appending(h) PROVE Ledger'
  BY <1>2, AppendingFrame DEF Ledger, Bound, Recorded, Send, Handoff, OfKind
<1>3. ASSUME NEW h \in Hosts, Settling(h) PROVE Ledger'
  BY <1>3, SettlingFrame DEF Ledger, Bound, Recorded, Send, Handoff, OfKind
<1>4. ASSUME NEW h \in Hosts, Rearming(h) PROVE Ledger'
  BY <1>4, RearmingFrame DEF Ledger, Bound, Recorded, Send, Handoff, OfKind
<1>5. ASSUME NEW h \in Hosts, ResolveTarget(h) \/ Establish(h) \/ Witness(h) PROVE Ledger'
  BY <1>5, BindingFrame DEF BindingMoves, Ledger, Recorded, Send, Handoff, OfKind
<1>6. ASSUME NEW h \in Hosts, HandoffIntent(h) PROVE Ledger'
  <2>1. s.phase = "prepared" => s.binding = tab[h]
    BY <1>6 DEF HandoffIntent, At, OnBinding, Ledger, Unresolved
  <2>2. ASSUME Adds("file_handoff", tab[h]), s'.binding = s.binding,
               s'.lifecycle = s.lifecycle, s.binding = tab[h],
               s'.rearm = s.rearm, s'.phase = s.phase
        PROVE  Ledger'
    BY <2>2, AddsOne DEF Adds, Ledger, Bound, Recorded, Send, Handoff, OfKind
  <2> QED
    BY <1>6, <1>1, <2>1, <2>2, HandoffIntentFrame DEF Ledger, Bound
<1>7. ASSUME NEW h \in Hosts, PersistSend(h) PROVE Ledger'
  <2>1. ASSUME Adds("send", tab[h]), s'.binding = s.binding, s'.lifecycle = s.lifecycle,
               s.binding = tab[h], s'.rearm = s.rearm, s'.phase = s.phase
        PROVE  Ledger'
    BY <2>1, AddsOne DEF Adds, Ledger, Bound, Recorded, Send, Handoff, OfKind
  <2> QED
    BY <1>7, <1>1, <2>1, PersistSendFrame
<1>8. ASSUME NEW b \in Bindings, Render(b) PROVE s' = s
  BY <1>8 DEF Render, journal
<1> QED
  BY <1>1, <1>2, <1>3, <1>4, <1>5, <1>6, <1>7, <1>8, NextIsHostNext, ReadingFrame
     DEF HostNext, Writing

\* What a host knows is changed by its own steps only.
Elsewhere(h) == \A g \in Hosts \ {h} :
    /\ pc'[g] = pc[g] /\ snap'[g] = snap[g] /\ tab'[g] = tab[g] /\ hid'[g] = hid[g]
    /\ auth'[g] = auth[g] /\ opened'[g] = opened[g] /\ prep'[g] = prep[g]

LEMMA HostFrame == ASSUME Shapes, NEW h \in Hosts, HostNext(h) PROVE Elsewhere(h)
<1> USE DEF Elsewhere, Shapes, Go, local
<1>1. CASE Appending(h)
  BY <1>1 DEF Appending, HandoffPending, Ready, SendPhase, LostSend, Repair, Submitted,
     PersistBlocker, PhaseAppend
<1>2. CASE Settling(h)
  BY <1>2 DEF Settling, HandoffReceipt, SendReceipt
<1>3. CASE Rearming(h)
  BY <1>3 DEF Rearming, RearmAuthorize, RearmAttempt
<1>4. CASE ResolveTarget(h) \/ HandoffIntent(h) \/ PersistSend(h) \/ Establish(h) \/ Witness(h)
  BY <1>4 DEF ResolveTarget, HandoffIntent, PersistSend, Establish, Witness
<1>5. CASE Begin(h) \/ Stage(h) \/ Run(h) \/ Attach(h) \/ ExecuteHandoff(h) \/ ObserveHandoff(h)
  BY <1>5 DEF Begin, Stage, Run, Attach, ExecuteHandoff, ObserveHandoff
<1>6. CASE \/ PrepareSend(h) \/ ExecuteSend(h) \/ Verify(h) \/ RearmStage(h) \/ Preflight(h)
           \/ Crash(h)
  BY <1>6 DEF PrepareSend, ExecuteSend, Verify, RearmStage, Preflight, Crash
<1> QED
  BY <1>1, <1>2, <1>3, <1>4, <1>5, <1>6 DEF HostNext, Writing, Reading

LEMMA RenderFrame ==
    ASSUME NEW b \in Bindings, Render(b)
    PROVE  /\ s' = s /\ pc' = pc /\ snap' = snap /\ tab' = tab /\ hid' = hid /\ auth' = auth
           /\ opened' = opened /\ prep' = prep /\ anchor' = anchor /\ handoffs' = handoffs
           /\ activated' = activated /\ newTarget' = newTarget
BY DEF Render, journal, local

\* A bound operation stays bound, to the same tab unless a rearm replaces it
\* before any Send.
LEMMA BindingNext ==
    ASSUME Inv, Next
    PROVE  /\ Bound(s) => Bound(s') /\ (s'.binding = s.binding \/ s'.rearm # "none")
           /\ Send(s) # {} => s'.binding = s.binding
           /\ s.rearm # "none" => s'.rearm # "none"
<1>1. Send(s) # {} => Bound(s)
  BY DEF Inv, Ledger, Recorded, Send, OfKind
<1>2. ASSUME NEW h \in Hosts, HostNext(h)
      PROVE  /\ Bound(s) => Bound(s') /\ (s'.binding = s.binding \/ s'.rearm # "none")
             /\ Send(s) # {} => s'.binding = s.binding
             /\ s.rearm # "none" => s'.rearm # "none"
  BY <1>1, <1>2, ReadingFrame, AppendingFrame, SettlingFrame, RearmingFrame, BindingFrame,
     HandoffIntentFrame, PersistSendFrame DEF BindingMoves, HostNext, Writing, Inv, Bound
<1> QED
  BY <1>2, NextIsHostNext, RenderFrame

LEMMA SnapFrame == ASSUME Shapes, NEW h \in Hosts, HostNext(h) PROVE snap'[h] \in {snap[h], s, s'}
<1> USE DEF Shapes, local
<1>1. CASE Appending(h) \/ Settling(h)
  BY <1>1 DEF Appending, HandoffPending, Ready, SendPhase, LostSend, Repair, Submitted,
     PersistBlocker, Settling, HandoffReceipt, SendReceipt
<1>2. CASE Rearming(h) \/ ResolveTarget(h)
  BY <1>2 DEF Rearming, RearmAuthorize, RearmAttempt, ResolveTarget
<1>3. CASE HandoffIntent(h) \/ PersistSend(h) \/ Establish(h) \/ Witness(h)
  BY <1>3 DEF HandoffIntent, PersistSend, Establish, Witness
<1>4. CASE Reading(h)
  BY <1>4 DEF Reading, Begin, Stage, Run, Attach, ExecuteHandoff, ObserveHandoff, PrepareSend,
     ExecuteSend, Verify, RearmStage, Preflight, Crash
<1> QED
  BY <1>1, <1>2, <1>3, <1>4 DEF HostNext, Writing

LEMMA BehindNext == Inv /\ Next => Behind'
<1> SUFFICES ASSUME Inv, Next PROVE Behind'
  OBVIOUS
<1> DEFINE B(t) == /\ Handoff(t) \subseteq Handoff(s') /\ Send(t) \subseteq Send(s')
                   /\ Send(t) # {} => t.binding = s'.binding
                   /\ t.rearm # "none" => s'.rearm # "none"
<1>1. /\ Send(s) # {} => s'.binding = s.binding
      /\ s.rearm # "none" => s'.rearm # "none"
  BY BindingNext
<1>2. B(s')
  OBVIOUS
<1>3. ASSUME NEW g \in Hosts, snap'[g] = snap[g] PROVE B(snap'[g])
  BY <1>1, <1>3, JournalNext DEF Inv, Behind
<1>4. B(s)
  BY <1>1, JournalNext
<1>5. \A g \in Hosts : snap'[g] \in {snap[g], s, s'}
  BY SnapFrame, NextIsHostNext, RenderFrame, HostFrame DEF Elsewhere, Inv
<1>6. \A g \in Hosts : B(snap'[g])
  BY <1>2, <1>3, <1>4, <1>5
<1> QED
  BY <1>6 DEF Behind, Handoff, Send, OfKind

LEMMA OnBindingNext == Inv /\ Next => OnBinding'
<1> SUFFICES ASSUME Inv, Next, NEW g \in Hosts, pc'[g] \notin Unresolved, s'.rearm = "none"
             PROVE  Bound(s') /\ tab'[g] = s'.binding
  BY DEF OnBinding, Bound, Unresolved
<1> USE DEF Inv, Shapes
<1>1. ASSUME pc[g] \notin Unresolved, tab'[g] = tab[g] PROVE Bound(s') /\ tab'[g] = s'.binding
  BY <1>1, BindingNext DEF OnBinding
<1>2. ASSUME NEW h \in Hosts, HostNext(h), g # h PROVE Bound(s') /\ tab'[g] = s'.binding
  BY <1>1, <1>2, HostFrame DEF Elsewhere
<1>3. ASSUME HostNext(g) PROVE Bound(s') /\ tab'[g] = s'.binding
  <2> USE DEF local, At, Go, Unresolved
  <2>1. CASE Appending(g) \/ Settling(g)
    BY <2>1, <1>1 DEF Appending, HandoffPending, Ready, SendPhase, LostSend, Repair, Submitted,
       PersistBlocker, Settling, HandoffReceipt, SendReceipt
  <2>2. CASE ResolveTarget(g)
    <3>1. CASE Send(snap[g]) # {}
      <4>1. Send(s) # {} /\ s' = s /\ tab'[g] = s.binding
        BY <2>2, <3>1 DEF ResolveTarget, Behind
      <4> QED
        BY <4>1 DEF Ledger, Recorded, Send, OfKind
    <3>2. CASE Send(snap[g]) = {}
      <4>1. PICK b \in Bindings, l \in {"new_pending", "fixed"} :
                tab'[g] = b /\ s' = TargetBound(s, l, b)
        BY <2>2, <3>2, FirstTabAssumption DEF ResolveTarget
      <4> QED
        BY <4>1 DEF TargetBound, Bound, RecordInv, Record!TypeOK, Record!OperationStates
    <3> QED
      BY <3>1, <3>2
  <2>3. CASE Rearming(g)
    <3>1. CASE RearmAttempt(g)
      BY <3>1, <1>1 DEF RearmAttempt
    <3>2. CASE RearmAuthorize(g)
      <4>1. s'.rearm # "none"
        BY <3>2 DEF RearmAuthorize, RearmAuthorized, Behind, RecordInv, Record!TypeOK,
                    Record!OperationStates
      <4> QED
        BY <4>1
    <3> QED
      BY <2>3, <3>1, <3>2 DEF Rearming
  <2>4. CASE HandoffIntent(g) \/ PersistSend(g) \/ Establish(g) \/ Witness(g)
    BY <2>4, <1>1 DEF HandoffIntent, PersistSend, Establish, Witness
  <2>5. CASE Reading(g)
    BY <2>5, <1>1 DEF Reading, Begin, Stage, Run, Attach, ExecuteHandoff, ObserveHandoff,
       PrepareSend, ExecuteSend, Verify, RearmStage, Preflight, Crash
  <2> QED
    BY <1>3, <2>1, <2>2, <2>3, <2>4, <2>5 DEF HostNext, Writing
<1> QED
  BY <1>1, <1>2, <1>3, NextIsHostNext, RenderFrame

LEMMA NamedNext == Inv /\ Next => Named'
<1> DEFINE N(g) ==
        /\ pc'[g] \in Unnamed => hid'[g] = "none"
        /\ pc'[g] \in {"pending", "handoff", "observe", "receipt"} => hid'[g] \in Handoff(s')
        /\ pc'[g] = "ready" => \/ hid'[g] = "none"
                               \/ /\ hid'[g] \in Handoff(s')
                                  /\ s'.actions[hid'[g]].outcome = "satisfied"
<1> SUFFICES ASSUME Inv, Next, NEW g \in Hosts PROVE N(g)
  BY DEF Named, Unnamed, Handoff, OfKind
<1> USE DEF Inv, Shapes, Unnamed
<1>1. ASSUME pc'[g] = pc[g], hid'[g] = hid[g] PROVE N(g)
  BY <1>1, JournalNext DEF Named
<1>2. ASSUME NEW h \in Hosts, HostNext(h), g # h PROVE N(g)
  BY <1>1, <1>2, HostFrame DEF Elsewhere
<1>3. ASSUME HostNext(g) PROVE N(g)
  <2> USE DEF local, At, Go, Named
  <2>1. CASE Appending(g)
    BY <2>1, JournalNext DEF Appending, HandoffPending, Ready, SendPhase, LostSend, Repair,
       Submitted, PersistBlocker, PhaseAppend
  <2>2. CASE HandoffReceipt(g)
    <3>1. hid[g] \in ActionIds /\ hid[g] \in Handoff(s)
      BY <2>2 DEF HandoffReceipt, Handoff, OfKind
    <3>2. ActionReceipt(s, hid[g], "satisfied").actions[hid[g]].outcome = "satisfied"
      BY <3>1 DEF ActionReceipt, RecordInv, Record!TypeOK, Record!OperationStates,
                  Record!ActionRecord, Record!NoAction
    <3> QED
      BY <2>2, <3>1, <3>2, JournalNext DEF HandoffReceipt
  <2>3. CASE SendReceipt(g) \/ Rearming(g) \/ ResolveTarget(g)
    BY <2>3, JournalNext DEF SendReceipt, Rearming, RearmAuthorize, RearmAttempt, ResolveTarget
  <2>4. CASE HandoffIntent(g)
    <3>1. ASSUME NEW a \in ActionIds PROVE a \in Handoff(ActionIntent(s, a, "file_handoff", tab[g]))
      BY DEF ActionIntent, Handoff, OfKind, RecordInv, Record!TypeOK, Record!OperationStates
    <3> QED
      BY <2>4, <3>1 DEF HandoffIntent
  <2>5. CASE PersistSend(g) \/ Establish(g) \/ Witness(g)
    BY <2>5, JournalNext DEF PersistSend, Establish, Witness
  <2>6. CASE Attach(g)
    <3>1. s' = s /\ (TheHandoff(snap[g]) \in Handoff(s) \/ Handoff(snap[g]) = {})
      BY <2>6 DEF Attach, journal, TheHandoff, Behind
    <3> QED
      BY <2>6, <3>1, JournalNext DEF Attach
  <2>7. CASE \/ Begin(g) \/ Stage(g) \/ Run(g) \/ ExecuteHandoff(g) \/ ObserveHandoff(g)
             \/ PrepareSend(g) \/ ExecuteSend(g) \/ Verify(g) \/ RearmStage(g) \/ Preflight(g)
             \/ Crash(g)
    BY <2>7, JournalNext DEF Begin, Stage, Run, ExecuteHandoff, ObserveHandoff,
       PrepareSend, ExecuteSend, Verify, RearmStage, Preflight, Crash
  <2> QED
    BY <1>3, <2>1, <2>2, <2>3, <2>4, <2>5, <2>6, <2>7 DEF HostNext, Writing, Reading, Settling
<1> QED
  BY <1>1, <1>2, <1>3, NextIsHostNext, RenderFrame

\* ready is reached over proven handoffs only.
LEMMA ReadyPhase ==
    ASSUME Inv, NEW h \in Hosts, Ready(h), s'.phase = "ready", s.phase # "ready"
    PROVE  \A a \in Handoff(s) : s.actions[a].outcome = "satisfied"
<1> USE DEF Inv
<1>1. PhaseChangeLegal(s, "ready", hid[h]) /\ At(h, "ready")
  BY DEF Ready, PhaseAppend
<1>2. s.phase \in {"prepared", "handoff_pending", "uncertain"}
  BY <1>1 DEF PhaseChangeLegal, LegalEdges, Phases, RecordInv, Record!TypeOK,
     Record!OperationStates, Record!Phases
<1>3. ASSUME NEW a \in Handoff(s), s.actions[a].outcome = "satisfied"
      PROVE  \A c \in Handoff(s) : s.actions[c].outcome = "satisfied"
  BY <1>3 DEF RecordInv, Record!Coherent, Record!AtMostOneSend, Record!SingleIntentKinds,
     Handoff, OfKind
<1>4. CASE hid[h] # "none"
  BY <1>1, <1>3, <1>4 DEF Named, At
<1>5. CASE hid[h] = "none" /\ s.phase = "prepared"
  <2>1. tab[h] = s.binding /\ page[tab[h]].files # 0
    BY <1>1, <1>5 DEF At, Ledger, OnBinding, Unresolved, Prepared
  <2> QED
    BY <1>5, <2>1 DEF Prepared
<1>6. CASE hid[h] = "none" /\ s.phase # "prepared"
  BY <1>1, <1>2, <1>6, SentinelAssumption
     DEF PhaseChangeLegal, CausalTransition, CausedBy, OfKind, Recorded
<1> QED
  BY <1>4, <1>5, <1>6

LEMMA ReadyOnlyBy ==
    ASSUME RecordInv, NEW h, Appending(h), s'.phase = "ready", s.phase # "ready"
    PROVE  Ready(h)
BY DEF RecordInv, Record!TypeOK, Record!OperationStates, Appending, HandoffPending,
       SendPhase, LostSend, Repair, Submitted, PersistBlocker, PhaseAppend, PhaseChange

LEMMA ReadiedNext == Inv /\ Next => Readied'
<1> SUFFICES ASSUME Inv, Next PROVE Readied'
  OBVIOUS
<1> USE DEF Inv
<1>1. ASSUME s'.phase = "ready" => s.phase = "ready", s'.actions = s.actions PROVE Readied'
  BY <1>1 DEF Readied, Send, Handoff, OfKind
<1>2. ASSUME NEW h \in Hosts, Appending(h) PROVE Readied'
  <2>1. CASE s'.phase = "ready" /\ s.phase # "ready"
    BY <1>2, <2>1, ReadyOnlyBy, ReadyPhase, AppendingFrame DEF Readied, Send, Handoff, OfKind
  <2> QED
    BY <1>1, <1>2, <2>1, AppendingFrame
<1>3. ASSUME NEW h \in Hosts, Settling(h) PROVE Readied'
  <2>1. /\ s'.phase = s.phase /\ Send(s') = Send(s) /\ Handoff(s') = Handoff(s)
        /\ \A a \in Handoff(s) :
              s.actions[a].outcome = "satisfied" => s'.actions[a].outcome = "satisfied"
    BY <1>3, SettlingFrame, JournalNext DEF Send, Handoff, OfKind
  <2> QED
    BY <2>1 DEF Readied
<1>4. ASSUME NEW h \in Hosts, HandoffIntent(h) PROVE Readied'
  <2>1. ASSUME s.phase = "prepared", Adds("file_handoff", tab[h])
        PROVE  Send(s') = {}
    BY <2>1, AddsOne DEF RecordInv, Record!NoSendBeforeReady, Record!OfKind, Send, OfKind
  <2> QED
    BY <1>1, <1>4, <2>1, HandoffIntentFrame DEF Readied
<1>5. ASSUME NEW h \in Hosts, PersistSend(h) PROVE Readied'
  <2>1. ASSUME s.phase = "ready", Adds("send", tab[h]) PROVE Readied'
    BY <2>1, AddsOne DEF Readied, Handoff, OfKind
  <2> QED
    BY <1>1, <1>5, <2>1, PersistSendFrame
<1> QED
  BY <1>1, <1>2, <1>3, <1>4, <1>5, NextIsHostNext, ReadingFrame, RearmingFrame, BindingFrame,
     RenderFrame DEF BindingMoves, HostNext, Writing

(***************************************************************************)
(* The Send.                                                               *)
(***************************************************************************)
LEMMA SendFrame ==
    ASSUME Inv, NEW h \in Hosts, HostNext(h), ~PersistSend(h)
    PROVE  /\ Send(s') = Send(s)
           /\ Settled(s', "send", "satisfied") => Settled(s, "send", "satisfied") \/ SendReceipt(h)
<1> USE DEF Inv, Send, Settled
<1>1. CASE s'.actions = s.actions
  BY <1>1 DEF OfKind
<1>2. CASE HandoffReceipt(h)
  <2>1. hid[h] \in Handoff(s)
    BY <1>2 DEF HandoffReceipt, At, Named
  <2>2. \A a \in ActionIds : s.actions[a].kind = "send" => s'.actions[a] = s.actions[a]
    BY <1>2, <2>1 DEF HandoffReceipt, ActionReceipt, RecordInv, Record!TypeOK,
       Record!OperationStates, Record!ActionRecord, Record!NoAction, Handoff, OfKind
  <2> QED
    BY <1>2, <2>2, SettlingFrame DEF Settling, OfKind
<1>3. CASE SendReceipt(h)
  BY <1>3, SettlingFrame DEF Settling, OfKind
<1>4. CASE HandoffIntent(h)
  <2>1. CASE Adds("file_handoff", tab[h])
    BY <2>1, AddsOne DEF OfKind
  <2> QED
    BY <1>1, <1>4, <2>1, HandoffIntentFrame
<1> QED
  BY <1>1, <1>2, <1>3, <1>4, ReadingFrame, AppendingFrame, RearmingFrame, BindingFrame
     DEF BindingMoves, HostNext, Writing, Settling

LEMMA BrowserFrame ==
    ASSUME Shapes, NEW h \in Hosts, HostNext(h), ~ExecuteSend(h)
    PROVE  activated' = activated /\ \A b \in Bindings : page'[b].turns = page[b].turns
<1> USE DEF Shapes, Pages, browser, journal
<1>1. CASE Appending(h) \/ Settling(h) \/ Rearming(h)
  BY <1>1 DEF Appending, HandoffPending, Ready, SendPhase, LostSend, Repair, Submitted,
     PersistBlocker, Settling, HandoffReceipt, SendReceipt, Rearming, RearmAuthorize, RearmAttempt
<1>2. CASE ResolveTarget(h) \/ HandoffIntent(h) \/ PersistSend(h) \/ Establish(h) \/ Witness(h)
  BY <1>2 DEF ResolveTarget, HandoffIntent, PersistSend, Establish, Witness
<1>3. CASE \/ Begin(h) \/ Run(h) \/ Attach(h) \/ ObserveHandoff(h) \/ PrepareSend(h)
           \/ Verify(h) \/ Preflight(h) \/ Crash(h)
  BY <1>3 DEF Begin, Run, Attach, ObserveHandoff, PrepareSend, Verify, Preflight, Crash
<1>4. CASE Stage(h) \/ RearmStage(h)
  <2>1. \A b \in Bindings : [page EXCEPT ![tab[h]].staged = TRUE][b].turns = page[b].turns
    OBVIOUS
  <2> QED
    BY <1>4, <2>1 DEF Stage, RearmStage
<1>5. CASE ExecuteHandoff(h)
  <2>1. \A b \in Bindings : [page EXCEPT ![tab[h]].files = @ + 1][b].turns = page[b].turns
    OBVIOUS
  <2> QED
    BY <1>5, <2>1 DEF ExecuteHandoff
<1> QED
  BY <1>1, <1>2, <1>3, <1>4, <1>5 DEF HostNext, Writing, Reading

\* How a host gets to a step of the Send.
LEMMA SendEntry ==
    ASSUME Inv, NEW h \in Hosts, HostNext(h)
    PROVE  /\ pc'[h] \in AfterIntent =>
                  pc[h] \in AfterIntent \/ PersistSend(h) \/ Send(s) # {}
           /\ pc'[h] \in AfterSight =>
                  pc[h] \in AfterSight \/ (Verify(h) /\ page[tab[h]].turns > anchor)
           /\ pc'[h] \in Sending => PersistSend(h) \/ pc[h] = "sendPhase"
           /\ tab'[h] # tab[h] => pc'[h] \notin AfterIntent
<1> USE DEF Inv, Shapes, AfterIntent, AfterSight, Sending, At, Go, local, journal, browser
<1>1. CASE \/ HandoffPending(h) \/ Ready(h) \/ Submitted(h) \/ PersistBlocker(h)
           \/ HandoffReceipt(h) \/ SendReceipt(h)
  BY <1>1 DEF HandoffPending, Ready, Submitted, PersistBlocker, HandoffReceipt, SendReceipt,
     PhaseAppend
<1>2. CASE SendPhase(h) \/ LostSend(h) \/ Repair(h)
  BY <1>2 DEF SendPhase, LostSend, Repair, PhaseAppend
<1>3. CASE \/ ResolveTarget(h) \/ HandoffIntent(h) \/ PersistSend(h) \/ Establish(h) \/ Witness(h)
           \/ Rearming(h)
  BY <1>3 DEF ResolveTarget, HandoffIntent, PersistSend, Establish, Witness, Rearming,
     RearmAuthorize, RearmAttempt
<1>4. CASE \/ Begin(h) \/ Attach(h) \/ ObserveHandoff(h) \/ PrepareSend(h) \/ Verify(h)
           \/ Preflight(h) \/ Crash(h)
  BY <1>4 DEF Begin, Attach, ObserveHandoff, PrepareSend, Verify, Preflight, Crash
<1>5. CASE Stage(h) \/ RearmStage(h) \/ ExecuteHandoff(h) \/ ExecuteSend(h)
  BY <1>5 DEF Stage, RearmStage, ExecuteHandoff, ExecuteSend
<1>6. CASE Run(h)
  BY <1>6 DEF Run, Behind
<1> QED
  BY <1>1, <1>2, <1>3, <1>4, <1>5, <1>6 DEF HostNext, Writing, Reading, Appending, Settling

LEMMA PersistSendPc ==
    ASSUME Shapes, NEW h \in Hosts, PersistSend(h)
    PROVE  /\ tab' = tab /\ pc'[h] \in {"sendPhase", "lostSend", "blocker", "idle"}
           /\ anchor' \in {anchor, prep[h]}
BY DEF PersistSend, journal, browser, local, Go, Shapes

LEMMA ActivationNext == Inv /\ Next => Activation'
<1> SUFFICES ASSUME Inv, Next PROVE Activation'
  OBVIOUS
<1> USE DEF Inv, Activation
<1> DEFINE Same == activated' = activated /\ \A b \in Bindings : page'[b].turns = page[b].turns
\* A step that adds no Send and activates nothing.
<1>1. ASSUME NEW h \in Hosts, Elsewhere(h), Same, Send(s') = Send(s),
             Settled(s', "send", "satisfied") => activated # <<>>,
             pc'[h] \in AfterIntent => Send(s) # {},
             pc'[h] \in AfterSight => activated # <<>>,
             pc'[h] \in Sending => pc[h] = "sendPhase" /\ tab'[h] = tab[h]
      PROVE  Activation'
  <2>1. \A a \in Send(s') : s'.actions[a].target = s.actions[a].target
    BY <1>1, JournalNext
  <2>2. \A g \in Hosts : pc'[g] \in AfterIntent => Send(s') # {}
    BY <1>1 DEF Elsewhere
  <2>3. \A g \in Hosts : pc'[g] \in AfterSight => activated' # <<>>
    BY <1>1 DEF Elsewhere
  <2>4. \A g \in Hosts : pc'[g] \in Sending => pc[g] \in Sending /\ tab'[g] = tab[g]
    BY <1>1 DEF Elsewhere, Sending
  <2>5. \A g \in Hosts : pc'[g] \in Sending =>
            activated' = <<>> /\ \A a \in Send(s') : s'.actions[a].target = tab'[g]
    BY <1>1, <2>1, <2>4
  <2>6. activated' # <<>> =>
            Send(s') # {} /\ \A a \in Send(s') : activated' = <<s'.actions[a].target>>
    BY <1>1, <2>1
  <2> QED
    BY <1>1, <2>2, <2>3, <2>4, <2>5, <2>6
       DEF AfterIntent, AfterSight, Sending, Settled, OfKind, Send
<1>2. ASSUME NEW b \in Bindings, Render(b) PROVE Activation'
  <2>1. \A c \in Bindings : page'[c].turns = page[c].turns
    <3>1. \A c \in Bindings :
              [page EXCEPT ![b].seen = page[b].files][c].turns = page[c].turns
      BY DEF Shapes, Pages
    <3> QED
      BY <1>2, <3>1 DEF Render
  <2> QED
    BY <1>2, <2>1, RenderFrame DEF Send, Settled, OfKind, AfterIntent, AfterSight, Sending
<1>3. ASSUME NEW h \in Hosts, PersistSend(h), s' # s PROVE Activation'
  <2>1. s.phase = "ready" /\ Adds("send", tab[h])
    BY <1>3, PersistSendFrame
  <2>2. /\ Send(s) = {} /\ activated = <<>>
        /\ \A b \in Bindings : page[b].turns = 0
        /\ \A g \in Hosts : pc[g] \notin AfterIntent
    BY <2>1 DEF Adds, Send
  <2>3. /\ activated' = <<>> /\ tab'[h] = tab[h]
        /\ \A b \in Bindings : page'[b].turns = 0
    BY <1>3, <2>2, PersistSendPc DEF PersistSend, browser
  <2>4. PICK a \in ActionIds : /\ Send(s') = {a} /\ s'.actions[a].target = tab[h]
                               /\ s'.actions[a].outcome = "open"
    BY <2>1, AddsOne DEF Send
  <2>5. \A g \in Hosts : /\ pc'[g] \in AfterIntent \cup Sending => g = h
                         /\ pc'[g] \notin AfterSight
    BY <1>3, <2>2, PersistSendPc, HostFrame
       DEF Elsewhere, HostNext, Writing, AfterIntent, AfterSight, Sending
  <2>6. \A g \in Hosts : pc'[g] \in Sending =>
            activated' = <<>> /\ \A c \in Send(s') : s'.actions[c].target = tab'[g]
    BY <2>3, <2>4, <2>5
  <2> QED
    BY <2>3, <2>4, <2>5, <2>6 DEF Send, Settled, OfKind, AfterIntent, AfterSight, Sending
<1>4. ASSUME NEW h \in Hosts, ExecuteSend(h), activated' # activated PROVE Activation'
  <2>1. /\ pc[h] = "execute" /\ s' = s /\ activated' = Append(activated, tab[h])
        /\ pc' = [pc EXCEPT ![h] = "verify"] /\ tab' = tab
    BY <1>4 DEF ExecuteSend, At, Go, journal, local
  <2>2. /\ activated = <<>> /\ Send(s) # {} /\ \A a \in Send(s) : s.actions[a].target = tab[h]
        /\ \A g \in Hosts : g # h => pc[g] \notin Sending
    BY <2>1 DEF AfterIntent, Sending
  <2>3. activated' = <<tab[h]>> /\ activated' # <<>>
    BY <2>1, <2>2
  <2>4. \A g \in Hosts : pc'[g] \notin Sending
    BY <2>1, <2>2 DEF Shapes, Sending
  <2>5. activated' # <<>> =>
            Send(s') # {} /\ \A a \in Send(s') : activated' = <<s'.actions[a].target>>
    BY <2>1, <2>2, <2>3
  <2> QED
    BY <2>1, <2>2, <2>3, <2>4, <2>5 DEF Send, OfKind, Sending
<1>5. ASSUME NEW h \in Hosts, HostNext(h), ~(PersistSend(h) /\ s' # s),
             ~(ExecuteSend(h) /\ activated' # activated)
      PROVE  Activation'
  <2>1. Same
    <3>1. CASE ExecuteSend(h)
      <4>1. UNCHANGED page \/ activated' = Append(activated, tab[h])
        BY <3>1 DEF ExecuteSend
      <4>2. Append(activated, tab[h]) # activated
        BY DEF Shapes
      <4> QED
        BY <1>5, <3>1, <4>1, <4>2
    <3> QED
      BY <1>5, <3>1, BrowserFrame
  <2>2. /\ Send(s') = Send(s)
        /\ Settled(s', "send", "satisfied") => activated # <<>>
    <3>1. CASE s' = s
      BY <3>1 DEF Settled, OfKind, Send
    <3>2. CASE ~PersistSend(h)
      BY <1>5, <3>2, SendFrame DEF SendReceipt, At, AfterSight
    <3> QED
      BY <1>5, <3>1, <3>2
  <2>3. PersistSend(h) => pc'[h] \in {"blocker", "idle"}
    <3>1. ASSUME PersistSend(h), Adds("send", tab[h]) PROVE s' # s
      BY <3>1, AddsOne
    <3> QED
      BY <1>5, <3>1, PersistSendFrame, PersistSendPc
  <2>4. pc'[h] \in AfterIntent => Send(s) # {}
    <3>1. CASE PersistSend(h)
      BY <1>5, <2>3, <3>1 DEF AfterIntent
    <3> QED
      BY <1>5, <3>1, SendEntry
  <2>5. pc'[h] \in AfterSight => activated # <<>>
    <3>1. page[tab[h]].turns > anchor => page[tab[h]].turns # 0
      BY DEF Shapes, Pages
    <3> QED
      BY <1>5, <3>1, SendEntry DEF Shapes
  <2>6. pc'[h] \in Sending => pc[h] = "sendPhase" /\ tab'[h] = tab[h]
    <3>1. CASE PersistSend(h)
      BY <1>5, <2>3, <3>1 DEF Sending
    <3> QED
      BY <1>5, <3>1, SendEntry DEF Sending, AfterIntent
  <2> QED
    BY <1>1, <1>5, <2>1, <2>2, <2>4, <2>5, <2>6, HostFrame
<1> QED
  BY <1>2, <1>3, <1>4, <1>5, NextIsHostNext

\* The counts of user turns.
LEMMA CountFrame ==
    ASSUME Shapes, NEW h \in Hosts, HostNext(h)
    PROVE  prep'[h] \in {prep[h], page[tab[h]].turns} /\ anchor' \in {anchor, prep[h]}
<1> USE DEF Shapes, journal, local
<1>1. CASE Appending(h) \/ Settling(h) \/ Rearming(h)
  BY <1>1 DEF Appending, HandoffPending, Ready, SendPhase, LostSend, Repair, Submitted,
     PersistBlocker, Settling, HandoffReceipt, SendReceipt, Rearming, RearmAuthorize, RearmAttempt
<1>2. CASE ResolveTarget(h) \/ HandoffIntent(h) \/ PersistSend(h) \/ Establish(h) \/ Witness(h)
  BY <1>2 DEF ResolveTarget, HandoffIntent, PersistSend, Establish, Witness
<1>3. CASE Reading(h)
  BY <1>3 DEF Reading, Begin, Stage, Run, Attach, ExecuteHandoff, ObserveHandoff, PrepareSend,
     ExecuteSend, Verify, RearmStage, Preflight, Crash
<1> QED
  BY <1>1, <1>2, <1>3 DEF HostNext, Writing

LEMMA SendTurns ==
    ASSUME Inv, NEW h \in Hosts, ExecuteSend(h), NEW b \in Bindings
    PROVE  page'[b].turns \in 0..1
<1> Shapes /\ Activation /\ TurnCounts
  BY DEF Inv
<1>1. CASE page' = page
  BY <1>1 DEF TurnCounts
<1>2. CASE page' # page
  <2>1. /\ page[tab[h]].turns = prep[h]
        /\ page' = [page EXCEPT ![tab[h]] =
                       [staged |-> FALSE, files |-> 0, seen |-> 0, turns |-> prep[h] + 1]]
    BY <1>2 DEF ExecuteSend
  <2>2. activated = <<>> /\ tab[h] \in Bindings
    BY DEF ExecuteSend, At, Activation, Sending, Shapes
  <2>3. page[tab[h]].turns = 0
    BY <2>2 DEF Activation
  <2>4. CASE b = tab[h]
    <3>1. page'[b].turns = prep[h] + 1
      BY <2>1, <2>2, <2>4 DEF Shapes
    <3> QED
      BY <2>1, <2>3, <3>1
  <2>5. CASE b # tab[h]
    <3>1. page'[b] = page[b]
      BY <2>1, <2>5 DEF Shapes
    <3> QED
      BY <3>1 DEF TurnCounts
  <2> QED
    BY <2>4, <2>5
<1> QED
  BY <1>1, <1>2

LEMMA TurnCountsNext == Inv /\ Next => TurnCounts'
<1> SUFFICES ASSUME Inv, Next PROVE TurnCounts'
  OBVIOUS
<1> USE DEF Inv
<1>1. ASSUME NEW h \in Hosts, HostNext(h) PROVE TurnCounts'
  <2>1. \A b \in Bindings : page'[b].turns \in 0..1
    BY <1>1, SendTurns, BrowserFrame DEF TurnCounts
  <2>2. prep'[h] \in 0..1 /\ anchor' \in 0..1
    <3>1. prep[h] \in 0..1 /\ anchor \in 0..1 /\ page[tab[h]].turns \in 0..1
      BY DEF TurnCounts, Shapes
    <3> QED
      BY <1>1, <3>1, CountFrame
  <2>3. \A g \in Hosts : g # h => prep'[g] = prep[g]
    BY <1>1, HostFrame DEF Elsewhere
  <2> QED
    BY <2>1, <2>2, <2>3 DEF TurnCounts
<1>2. ASSUME NEW b \in Bindings, Render(b) PROVE TurnCounts'
  <2>1. \A c \in Bindings :
            [page EXCEPT ![b].seen = page[b].files][c].turns = page[c].turns
    BY DEF Shapes, Pages
  <2> QED
    BY <1>2, <2>1, RenderFrame DEF Render, TurnCounts
<1> QED
  BY <1>1, <1>2, NextIsHostNext

(***************************************************************************)
(* The handoff.                                                            *)
(***************************************************************************)
\* Authority comes from an acknowledged rearm intent and is kept on the way to
\* the handoff only.
LEMMA AuthEntry ==
    ASSUME Inv, NEW h \in Hosts, HostNext(h), auth'[h]
    PROVE  /\ pc'[h] \notin {"resolve", "stage", "intent", "pending", "rearmResolve", "rearmStage",
                             "preflight", "rearmIntent", "observe"}
           /\ pc'[h] \in {"run", "attach"} => Handoff(snap'[h]) # {}
           /\ \/ auth[h] /\ s.rearm = "attempted"
              \/ RearmAttempt(h) /\ s.rearm = "authorized" /\ s'.rearm = "attempted"
<1> USE DEF Inv, Shapes, Authority, At, Go, local
<1>1. CASE Appending(h) \/ Settling(h)
  BY <1>1 DEF Appending, HandoffPending, Ready, SendPhase, LostSend, Repair, Submitted,
     PersistBlocker, PhaseAppend, Settling, HandoffReceipt, SendReceipt
<1>2. CASE ResolveTarget(h) \/ HandoffIntent(h) \/ PersistSend(h) \/ Establish(h) \/ Witness(h)
  BY <1>2 DEF ResolveTarget, HandoffIntent, PersistSend, Establish, Witness
<1>3. CASE RearmAuthorize(h)
  BY <1>3 DEF RearmAuthorize
<1>4. CASE RearmAttempt(h)
  <2>1. ~auth[h]
    BY <1>4 DEF RearmAttempt
  <2>2. /\ s = snap[h] /\ RearmIntentLegal(s, TheHandoff(s)) /\ s' = RearmIntent(s)
        /\ snap' = [snap EXCEPT ![h] = s'] /\ pc' = [pc EXCEPT ![h] = "run"]
    BY <1>4, <2>1 DEF RearmAttempt
  <2>3. Handoff(s) # {}
    BY <2>2, KindsAgree DEF RecordInv, Record!Coherent, Record!RearmIsProven, RearmIntentLegal,
       Handoff
  <2>4. Handoff(s') # {}
    BY <1>4, <2>3, RearmingFrame DEF Rearming, Handoff, OfKind
  <2>5. s.rearm = "authorized" /\ s'.rearm = "attempted"
    BY <2>2 DEF RearmIntentLegal, RearmIntent, RecordInv, Record!TypeOK, Record!OperationStates
  <2> QED
    BY <1>4, <2>2, <2>4, <2>5
<1>5. CASE Begin(h) \/ Run(h) \/ Attach(h) \/ ExecuteHandoff(h) \/ ObserveHandoff(h)
  BY <1>5 DEF Begin, Run, Attach, ExecuteHandoff, ObserveHandoff
<1>6. CASE \/ Stage(h) \/ PrepareSend(h) \/ ExecuteSend(h) \/ Verify(h) \/ RearmStage(h)
           \/ Preflight(h) \/ Crash(h)
  BY <1>6 DEF Stage, PrepareSend, ExecuteSend, Verify, RearmStage, Preflight, Crash
<1> QED
  BY <1>1, <1>2, <1>3, <1>4, <1>5, <1>6 DEF HostNext, Writing, Reading, Rearming

LEMMA AuthorityNext == Inv /\ Next => Authority'
<1> SUFFICES ASSUME Inv, Next PROVE Authority'
  OBVIOUS
<1> USE DEF Inv
<1>1. ASSUME NEW h \in Hosts, HostNext(h) PROVE Authority'
  <2>1. ASSUME NEW g \in Hosts, auth'[g]
        PROVE  /\ s'.rearm = "attempted"
               /\ pc'[g] \notin {"resolve", "stage", "intent", "pending", "rearmResolve",
                                 "rearmStage", "preflight", "rearmIntent", "observe"}
               /\ pc'[g] \in {"run", "attach"} => Handoff(snap'[g]) # {}
    BY <1>1, <2>1, AuthEntry, JournalNext, HostFrame DEF Authority, Elsewhere
  <2>2. ASSUME NEW f \in Hosts, NEW g \in Hosts, auth'[f], auth'[g] PROVE f = g
    BY <1>1, <2>2, AuthEntry, HostFrame DEF Authority, Elsewhere
  <2> QED
    BY <2>1, <2>2 DEF Authority, Handoff, OfKind
<1> QED
  BY <1>1, NextIsHostNext, RenderFrame DEF Authority, Handoff, OfKind

\* A host is on its way to a handoff it owes because it recorded the intent.
LEMMA OwingEntry ==
    ASSUME Inv, NEW h \in Hosts, HostNext(h), Owing(h)'
    PROVE  Owing(h) \/ (HandoffIntent(h) /\ pc'[h] = "pending")
<1> USE DEF Inv, Shapes, Owing, At, Go, local
<1>1. CASE Appending(h) \/ Settling(h)
  BY <1>1 DEF Appending, HandoffPending, Ready, SendPhase, LostSend, Repair, Submitted,
     PersistBlocker, PhaseAppend, Settling, HandoffReceipt, SendReceipt
<1>2. CASE HandoffIntent(h)
  BY <1>2 DEF HandoffIntent
<1>3. CASE ResolveTarget(h) \/ PersistSend(h) \/ Establish(h) \/ Witness(h) \/ Rearming(h)
  BY <1>3 DEF ResolveTarget, PersistSend, Establish, Witness, Rearming, RearmAuthorize,
     RearmAttempt
<1>4. CASE Begin(h) \/ Run(h) \/ Attach(h) \/ ExecuteHandoff(h) \/ ObserveHandoff(h)
  BY <1>4 DEF Begin, Run, Attach, ExecuteHandoff, ObserveHandoff
<1>5. CASE \/ Stage(h) \/ PrepareSend(h) \/ ExecuteSend(h) \/ Verify(h) \/ RearmStage(h)
           \/ Preflight(h) \/ Crash(h)
  BY <1>5 DEF Stage, PrepareSend, ExecuteSend, Verify, RearmStage, Preflight, Crash
<1> QED
  BY <1>1, <1>2, <1>3, <1>4, <1>5 DEF HostNext, Writing, Reading

\* The files are handed over by ExecuteHandoff, on the way out of the debt.
LEMMA HandoffFrame ==
    ASSUME Shapes, NEW h \in Hosts, HostNext(h)
    PROVE  \/ handoffs' = handoffs
           \/ /\ pc[h] = "handoff" /\ handoffs' = handoffs + 1
              /\ ~auth'[h] /\ pc'[h] = "observe"
<1> USE DEF Shapes, browser
<1>1. CASE Appending(h) \/ Settling(h) \/ Rearming(h)
  BY <1>1 DEF Appending, HandoffPending, Ready, SendPhase, LostSend, Repair, Submitted,
     PersistBlocker, Settling, HandoffReceipt, SendReceipt, Rearming, RearmAuthorize, RearmAttempt
<1>2. CASE ResolveTarget(h) \/ HandoffIntent(h) \/ PersistSend(h) \/ Establish(h) \/ Witness(h)
  BY <1>2 DEF ResolveTarget, HandoffIntent, PersistSend, Establish, Witness
<1>3. CASE \/ Begin(h) \/ Run(h) \/ Attach(h) \/ ObserveHandoff(h) \/ PrepareSend(h)
           \/ Verify(h) \/ Preflight(h) \/ Crash(h) \/ Stage(h) \/ RearmStage(h)
           \/ ExecuteSend(h)
  BY <1>3 DEF Begin, Run, Attach, ObserveHandoff, PrepareSend, Verify, Preflight, Crash,
     Stage, RearmStage, ExecuteSend
<1>4. CASE ExecuteHandoff(h)
  BY <1>4 DEF ExecuteHandoff, At, Go
<1> QED
  BY <1>1, <1>2, <1>3, <1>4 DEF HostNext, Writing, Reading

\* The first phase is never entered again.
LEMMA PreparedFrame ==
    ASSUME Inv, Next, s'.phase = "prepared"
    PROVE  s.phase = "prepared" /\ s.rearm = "none" /\ s'.rearm = "none"
<1>1. ASSUME NEW h \in Hosts, HostNext(h) PROVE s.phase = "prepared"
  BY <1>1, ReadingFrame, AppendingFrame, SettlingFrame, RearmingFrame, BindingFrame,
     HandoffIntentFrame, PersistSendFrame DEF BindingMoves, HostNext, Writing, Inv
<1> QED
  BY <1>1, NextIsHostNext, RenderFrame, LedgerNext DEF Inv, Ledger

LEMMA HandoffEntry ==
    ASSUME Inv, NEW h \in Hosts, HostNext(h), pc'[h] = "handoff"
    PROVE  s'.phase # "prepared"
<1> USE DEF Inv, Shapes, At, Go, local
<1>1. CASE HandoffPending(h)
  <2>1. ~PhaseReached("prepared", "handoff_pending")
    BY DEF PhaseReached, PhaseOrder
  <2> QED
    BY <1>1, <2>1 DEF HandoffPending, PhaseAppend, PhaseChange, RecordInv, Record!TypeOK,
       Record!OperationStates
<1>2. CASE Attach(h)
  BY <1>2 DEF Attach, Authority, Ledger, journal
<1>3. CASE \/ Ready(h) \/ SendPhase(h) \/ LostSend(h) \/ Repair(h) \/ Submitted(h)
           \/ PersistBlocker(h) \/ Settling(h)
  BY <1>3 DEF Ready, SendPhase, LostSend, Repair, Submitted,
     PersistBlocker, PhaseAppend, Settling, HandoffReceipt, SendReceipt
<1>4. CASE \/ HandoffIntent(h) \/ ResolveTarget(h) \/ PersistSend(h) \/ Establish(h)
           \/ Witness(h) \/ Rearming(h)
  BY <1>4 DEF HandoffIntent, ResolveTarget, PersistSend, Establish, Witness, Rearming,
     RearmAuthorize, RearmAttempt
<1>5. CASE Begin(h) \/ Run(h) \/ ExecuteHandoff(h) \/ ObserveHandoff(h)
  BY <1>5 DEF Begin, Run, ExecuteHandoff, ObserveHandoff
<1>6. CASE \/ Stage(h) \/ PrepareSend(h) \/ ExecuteSend(h) \/ Verify(h) \/ RearmStage(h)
           \/ Preflight(h) \/ Crash(h)
  BY <1>6 DEF Stage, PrepareSend, ExecuteSend, Verify, RearmStage, Preflight, Crash
<1> QED
  BY <1>1, <1>2, <1>3, <1>4, <1>5, <1>6 DEF HostNext, Writing, Reading, Appending

LEMMA BudgetNext == Inv /\ Next => Budget'
<1> SUFFICES ASSUME Inv, Next PROVE Budget'
  OBVIOUS
<1> USE DEF Inv, Budget
<1> DEFINE owing == \E h \in Hosts : Owing(h)
           trusted == \E h \in Hosts : auth[h]
           recorded == Handoff(s) # {}
           attempted == s.rearm = "attempted"
<1>0. handoffs + One(owing) + One(trusted) <= One(recorded) + One(attempted)
  OBVIOUS
<1>1. ASSUME NEW h \in Hosts, HostNext(h)
      PROVE  /\ \A f, g \in Hosts : Owing(f)' /\ Owing(g)' => f = g
             /\ handoffs' + One(owing') + One(trusted') <= One(recorded') + One(attempted')
  <2>1. (recorded => recorded') /\ (attempted => attempted')
    BY JournalNext
  <2>2. \A g \in Hosts : g # h => (Owing(g)' <=> Owing(g)) /\ (auth'[g] <=> auth[g])
    BY <1>1, HostFrame DEF Elsewhere, Owing
  <2>3. CASE HandoffIntent(h) /\ pc'[h] = "pending"
    <3>1. /\ s.phase = "prepared" /\ Handoff(s) = {} /\ handoffs' = handoffs
          /\ Handoff(s') # {} /\ s'.rearm = s.rearm
      <4>1. handoffs' = handoffs /\ Handoff(s') # {}
        BY <1>1, <2>3, NamedNext DEF Named, HandoffIntent, browser
      <4>2. PICK a \in ActionIds : ActionIntentLegal(s, a, "file_handoff", tab[h])
        BY <2>3 DEF HandoffIntent, Go, Shapes
      <4>3. Handoff(s) = {}
        BY <4>2 DEF ActionIntentLegal, SingleIntentKinds, Handoff
      <4>4. s' # s
        BY <4>1, <4>3
      <4> QED
        BY <2>3, <4>1, <4>3, <4>4, HandoffIntentFrame
    <3>2. \A g \in Hosts : ~Owing(g)
      BY <3>1 DEF Owing, Named
    <3>3. \A g \in Hosts : ~auth[g] /\ ~auth'[g]
      BY <1>1, <2>2, <2>3, <3>1, AuthEntry DEF Authority, Ledger, Shapes
    <3>4. /\ handoffs' = 0 /\ recorded' /\ ~trusted' /\ (attempted' <=> attempted)
          /\ \A f, g \in Hosts : Owing(f)' /\ Owing(g)' => f = g
      BY <2>2, <3>1, <3>2, <3>3 DEF Handoff, OfKind
    <3> HIDE DEF owing, trusted, recorded, attempted
    <3> QED
      BY <3>4 DEF One
  <2>4. CASE ~(HandoffIntent(h) /\ pc'[h] = "pending")
    <3>1. \A g \in Hosts : Owing(g)' => Owing(g)
      BY <1>1, <2>2, <2>4, OwingEntry
    <3>2. owing' => owing
      BY <3>1
    <3>3. trusted' => trusted \/ (~attempted /\ attempted')
      BY <1>1, <2>2, AuthEntry
    <3>4. CASE handoffs' = handoffs
      <4>1. One(owing') <= One(owing)
        BY <3>2 DEF One
      <4>2. One(recorded) <= One(recorded')
        BY <2>1 DEF One
      <4>3. One(trusted') - One(trusted) <= One(attempted') - One(attempted)
        <5> HIDE DEF trusted, attempted
        <5> QED
          BY <2>1, <3>3 DEF One
      <4> QED
        BY <1>0, <3>1, <3>4, <4>1, <4>2, <4>3 DEF Shapes, One
    <3>5. CASE /\ pc[h] = "handoff" /\ handoffs' = handoffs + 1
               /\ ~auth'[h] /\ pc'[h] = "observe"
      <4>1. ~Owing(h)'
        BY <3>5 DEF Owing
      <4>2. \A g \in Hosts : auth'[g] => auth[g]
        BY <2>2, <3>5
      <4>3. CASE auth[h]
        <5>1. trusted /\ ~trusted'
          BY <2>2, <3>5, <4>3 DEF Authority
        <5> HIDE DEF owing, trusted, recorded, attempted
        <5> QED
          BY <1>0, <2>1, <3>1, <3>2, <3>5, <5>1 DEF Shapes, One
      <4>4. CASE ~auth[h]
        <5>1. Owing(h)
          BY <3>5, <4>4 DEF Owing
        <5>2. owing /\ ~owing' /\ (trusted' => trusted)
          BY <2>2, <4>1, <4>2, <5>1
        <5> HIDE DEF owing, trusted, recorded, attempted
        <5> QED
          BY <1>0, <2>1, <3>1, <3>5, <5>2 DEF Shapes, One
      <4> QED
        BY <4>3, <4>4
    <3> QED
      BY <1>1, <3>4, <3>5, HandoffFrame
  <2> QED
    BY <2>3, <2>4
<1>2. ASSUME NEW h \in Hosts, HostNext(h), s'.phase = "prepared"
      PROVE  handoffs' = 0 /\ \A g \in Hosts : pc'[g] # "handoff"
  BY <1>2, PreparedFrame, HandoffEntry, HandoffFrame, HostFrame DEF Elsewhere
<1> QED
  BY <1>1, <1>2, NextIsHostNext, RenderFrame DEF Handoff, OfKind, Owing

(***************************************************************************)
(* The composer.                                                           *)
(***************************************************************************)
\* What a step makes of the files in a tab.
LEMMA FilesFrame ==
    ASSUME Shapes, NEW h \in Hosts, HostNext(h), NEW b \in Bindings
    PROVE  \/ page'[b].files = page[b].files /\ page'[b].seen = page[b].seen
           \/ /\ pc[h] = "handoff" /\ b = tab[h] /\ handoffs' = handoffs + 1
              /\ page'[b].files = page[b].files + 1 /\ page'[b].seen = page[b].seen
           \/ pc[h] = "execute" /\ page'[b].files = 0 /\ page'[b].seen = 0
<1> USE DEF Shapes, Pages, browser
<1>1. CASE Appending(h) \/ Settling(h) \/ Rearming(h)
  BY <1>1 DEF Appending, HandoffPending, Ready, SendPhase, LostSend, Repair, Submitted,
     PersistBlocker, Settling, HandoffReceipt, SendReceipt, Rearming, RearmAuthorize, RearmAttempt
<1>2. CASE ResolveTarget(h) \/ HandoffIntent(h) \/ PersistSend(h) \/ Establish(h) \/ Witness(h)
  BY <1>2 DEF ResolveTarget, HandoffIntent, PersistSend, Establish, Witness
<1>3. CASE \/ Begin(h) \/ Run(h) \/ Attach(h) \/ ObserveHandoff(h) \/ PrepareSend(h)
           \/ Verify(h) \/ Preflight(h) \/ Crash(h)
  BY <1>3 DEF Begin, Run, Attach, ObserveHandoff, PrepareSend, Verify, Preflight, Crash
<1>4. CASE Stage(h) \/ RearmStage(h)
  <2>1. /\ [page EXCEPT ![tab[h]].staged = TRUE][b].files = page[b].files
        /\ [page EXCEPT ![tab[h]].staged = TRUE][b].seen = page[b].seen
    OBVIOUS
  <2> QED
    BY <1>4, <2>1 DEF Stage, RearmStage
<1>5. CASE ExecuteHandoff(h)
  <2> DEFINE p == [page EXCEPT ![tab[h]].files = @ + 1]
  <2>1. /\ p[b].seen = page[b].seen
        /\ p[b].files = IF b = tab[h] THEN page[b].files + 1 ELSE page[b].files
    OBVIOUS
  <2> HIDE DEF p
  <2>2. page' = page \/ (page' = p /\ handoffs' = handoffs + 1 /\ pc[h] = "handoff")
    BY <1>5 DEF ExecuteHandoff, At, p
  <2> QED
    BY <2>1, <2>2
<1>6. CASE ExecuteSend(h)
  <2> DEFINE p == [page EXCEPT ![tab[h]] =
                      [staged |-> FALSE, files |-> 0, seen |-> 0, turns |-> prep[h] + 1]]
  <2>1. p[b] = IF b = tab[h]
               THEN [staged |-> FALSE, files |-> 0, seen |-> 0, turns |-> prep[h] + 1]
               ELSE page[b]
    OBVIOUS
  <2> HIDE DEF p
  <2>2. page' = page \/ (page' = p /\ pc[h] = "execute")
    BY <1>6 DEF ExecuteSend, At, p
  <2> QED
    BY <2>1, <2>2
<1> QED
  BY <1>1, <1>2, <1>3, <1>4, <1>5, <1>6 DEF HostNext, Writing, Reading

LEMMA RenderFiles ==
    ASSUME Shapes, NEW c \in Bindings, Render(c), NEW b \in Bindings
    PROVE  /\ page'[b].files = page[b].files
           /\ page'[b].seen \in {page[b].seen, page[b].files}
<1>1. [page EXCEPT ![c].seen = page[c].files][b]
          = IF b = c THEN [page[b] EXCEPT !.seen = page[b].files] ELSE page[b]
  BY DEF Shapes
<1> QED
  BY <1>1 DEF Render, Shapes, Pages

\* A host hands the files over to a tab in which it has seen none.
LEMMA AwaitsEntry ==
    ASSUME Inv, NEW h \in Hosts, HostNext(h), AwaitsFiles(h)'
    PROVE  tab'[h] = tab[h] /\ (AwaitsFiles(h) \/ page[tab[h]].seen = 0)
<1> USE DEF Inv, Shapes, AwaitsFiles, At, Go, local
<1>1. CASE Appending(h) \/ Settling(h)
  BY <1>1 DEF Appending, HandoffPending, Ready, SendPhase, LostSend, Repair, Submitted,
     PersistBlocker, PhaseAppend, Settling, HandoffReceipt, SendReceipt
<1>2. CASE ResolveTarget(h)
  BY <1>2 DEF ResolveTarget, Authority
<1>3. CASE HandoffIntent(h) \/ PersistSend(h) \/ Establish(h) \/ Witness(h)
  BY <1>3 DEF HandoffIntent, PersistSend, Establish, Witness
<1>4. CASE RearmAuthorize(h)
  BY <1>4 DEF RearmAuthorize
<1>5. CASE RearmAttempt(h)
  BY <1>5 DEF RearmAttempt
<1>6. CASE Attach(h) \/ Preflight(h)
  <2>1. Observed(tab[h]) = "absent" => page[tab[h]].seen = 0
    BY DEF Observed
  <2> QED
    BY <1>6, <2>1 DEF Attach, Preflight, Authority
<1>7. CASE Begin(h) \/ Run(h) \/ ExecuteHandoff(h) \/ ObserveHandoff(h)
  BY <1>7 DEF Begin, Run, ExecuteHandoff, ObserveHandoff
<1>8. CASE \/ Stage(h) \/ PrepareSend(h) \/ ExecuteSend(h) \/ Verify(h) \/ RearmStage(h)
           \/ Crash(h)
  BY <1>8 DEF Stage, PrepareSend, ExecuteSend, Verify, RearmStage, Crash, Authority
<1> QED
  BY <1>1, <1>2, <1>3, <1>4, <1>5, <1>6, <1>7, <1>8
     DEF HostNext, Writing, Reading, Rearming

LEMMA ComposerNext == Inv /\ Next => Composer'
<1> SUFFICES ASSUME Inv, Next PROVE Composer'
  OBVIOUS
<1> USE DEF Inv
<1>0. /\ handoffs \in Nat
      /\ \A b \in Bindings : page[b].files \in Nat /\ page[b].seen \in Nat
  BY DEF Shapes, Pages
<1>1. ASSUME NEW h \in Hosts, HostNext(h) PROVE Composer'
  <2>1. handoffs' \in Nat /\ handoffs <= handoffs'
    BY <1>0, <1>1, HandoffFrame
  <2>2. ASSUME NEW b \in Bindings
        PROVE  /\ page'[b].seen <= page'[b].files
               /\ page[b].files <= handoffs => page'[b].files <= handoffs'
               /\ \/ page'[b].files <= handoffs'
                  \/ page'[b].files = 1 /\ page'[b].seen = 1
    <3>1. CASE page'[b].files = page[b].files /\ page'[b].seen = page[b].seen
      BY <1>0, <2>1, <3>1 DEF Composer
    <3>2. CASE /\ pc[h] = "handoff" /\ b = tab[h] /\ handoffs' = handoffs + 1
               /\ page'[b].files = page[b].files + 1 /\ page'[b].seen = page[b].seen
      BY <1>0, <3>2 DEF Composer, AwaitsFiles
    <3>3. CASE page'[b].files = 0 /\ page'[b].seen = 0
      BY <1>0, <2>1, <3>3
    <3> QED
      BY <1>1, <3>1, <3>2, <3>3, FilesFrame
  <2>3. ASSUME NEW g \in Hosts, AwaitsFiles(g)' PROVE page'[tab'[g]].files <= handoffs'
    <3>1. tab'[g] = tab[g] /\ (AwaitsFiles(g) \/ page[tab[g]].seen = 0)
      <4>1. CASE g = h
        BY <1>1, <2>3, <4>1, AwaitsEntry
      <4>2. CASE g # h
        BY <1>1, <2>3, <4>2, HostFrame DEF Elsewhere, AwaitsFiles
      <4> QED
        BY <4>1, <4>2
    <3>2. tab[g] \in Bindings
      BY DEF Shapes
    <3>3. page[tab[g]].files <= handoffs
      BY <3>1, <3>2 DEF Composer
    <3> QED
      BY <2>2, <3>1, <3>2, <3>3
  <2> QED
    BY <2>2, <2>3 DEF Composer
<1>2. ASSUME NEW c \in Bindings, Render(c) PROVE Composer'
  <2>1. ASSUME NEW b \in Bindings
        PROVE  /\ page'[b].seen <= page'[b].files /\ page'[b].files = page[b].files
               /\ \/ page'[b].files <= handoffs
                  \/ page'[b].files = 1 /\ page'[b].seen = 1
    BY <1>0, <1>2, RenderFiles DEF Composer
  <2>2. \A g \in Hosts : (AwaitsFiles(g)' <=> AwaitsFiles(g)) /\ tab'[g] = tab[g]
                         /\ tab[g] \in Bindings
    BY <1>2, RenderFrame DEF AwaitsFiles, Shapes
  <2> QED
    BY <1>2, <2>1, <2>2, RenderFrame DEF Composer
<1> QED
  BY <1>1, <1>2, NextIsHostNext

\* A host that goes on to ready without a handoff has seen the files there.
LEMMA ReadyEntry ==
    ASSUME Inv, NEW h \in Hosts, HostNext(h), pc'[h] = "ready", hid'[h] = "none"
    PROVE  /\ tab'[h] = tab[h]
           /\ \/ pc[h] = "ready" /\ hid[h] = "none"
              \/ page[tab[h]].seen = 1
<1> USE DEF Inv, Shapes, At, Go, local
<1>1. CASE Appending(h) \/ SendReceipt(h)
  BY <1>1 DEF Appending, HandoffPending, Ready, SendPhase, LostSend, Repair, Submitted,
     PersistBlocker, PhaseAppend, SendReceipt
<1>2. CASE HandoffReceipt(h)
  BY <1>2, SentinelAssumption DEF HandoffReceipt, Named, Handoff, OfKind
<1>3. CASE \/ ResolveTarget(h) \/ HandoffIntent(h) \/ PersistSend(h) \/ Establish(h) \/ Witness(h)
           \/ Rearming(h)
  BY <1>3 DEF ResolveTarget, HandoffIntent, PersistSend, Establish, Witness, Rearming,
     RearmAuthorize, RearmAttempt
<1>4. CASE Attach(h)
  <2>1. Observed(tab[h]) = "exact" => page[tab[h]].seen = 1
    BY DEF Observed
  <2> QED
    BY <1>4, <2>1 DEF Attach
<1>5. CASE \/ Begin(h) \/ Stage(h) \/ Run(h) \/ ExecuteHandoff(h) \/ ObserveHandoff(h)
           \/ PrepareSend(h) \/ ExecuteSend(h) \/ Verify(h) \/ RearmStage(h) \/ Preflight(h)
           \/ Crash(h)
  BY <1>5 DEF Begin, Stage, Run, ExecuteHandoff, ObserveHandoff, PrepareSend, ExecuteSend,
     Verify, RearmStage, Preflight, Crash
<1> QED
  BY <1>1, <1>2, <1>3, <1>4, <1>5 DEF HostNext, Writing, Reading, Settling

LEMMA PreparedNext == Inv /\ Next => Prepared'
<1> SUFFICES ASSUME Inv, Next, s'.phase = "prepared" PROVE Prepared'
  BY DEF Prepared, Handoff, OfKind
<1> USE DEF Inv
<1>1. s.phase = "prepared" /\ s.rearm = "none" /\ s'.rearm = "none"
  BY PreparedFrame
<1>2. /\ handoffs = 0 /\ Send(s) = {}
      /\ \A h \in Hosts : pc[h] \notin {"handoff", "execute"}
  BY <1>1 DEF Budget, RecordInv, Record!NoSendBeforeReady, Record!OfKind, Send, OfKind,
     Activation, AfterIntent
<1>3. \A b \in Bindings : page'[b].files = page[b].files
  BY <1>2, FilesFrame, RenderFiles, NextIsHostNext
<1>4. ASSUME NEW g \in Hosts, pc'[g] = "ready", hid'[g] = "none"
      PROVE  page'[tab'[g]].files # 0
  <2>1. /\ tab'[g] = tab[g]
        /\ \/ pc[g] = "ready" /\ hid[g] = "none"
           \/ page[tab[g]].seen = 1
    BY <1>4, ReadyEntry, HostFrame, RenderFrame, NextIsHostNext DEF Elsewhere
  <2>2. tab[g] \in Bindings
    BY DEF Shapes
  <2>3. page[tab[g]].files # 0
    BY <1>1, <2>1, <2>2 DEF Prepared, Composer, Shapes, Pages
  <2> QED
    BY <1>3, <2>1, <2>2, <2>3
<1>5. ASSUME Handoff(s') # {} PROVE page'[s'.binding].files = 0
  <2>1. CASE Handoff(s) # {}
    <3>1. Bound(s) /\ s.binding \in Bindings
      BY <2>1 DEF Ledger, Recorded, Handoff, OfKind
    <3>2. s'.binding = s.binding
      BY <1>1, <3>1, BindingNext
    <3> QED
      BY <1>1, <1>3, <2>1, <3>1, <3>2 DEF Prepared
  <2>2. CASE Handoff(s) = {}
    <3>1. PICK h \in Hosts : HandoffIntent(h)
      <4>1. ASSUME NEW h \in Hosts, HostNext(h), ~HandoffIntent(h) PROVE Handoff(s') = {}
        <5>1. CASE s'.actions = s.actions
          BY <2>2, <5>1 DEF Handoff, OfKind
        <5>2. CASE Settling(h)
          BY <2>2, <5>2, SettlingFrame DEF Handoff, OfKind
        <5>3. CASE PersistSend(h)
          BY <1>1, <5>3, <2>2, PersistSendFrame
        <5> QED
          BY <4>1, <5>1, <5>2, <5>3, ReadingFrame, AppendingFrame, RearmingFrame, BindingFrame
             DEF BindingMoves, HostNext, Writing
      <4> QED
        BY <1>5, <2>2, <4>1, NextIsHostNext, RenderFrame
    <3>2. pc[h] = "intent" /\ s'.binding = s.binding
      BY <3>1, HandoffIntentFrame DEF HandoffIntent, At
    <3>3. tab[h] = s.binding /\ tab[h] \in Bindings
      BY <1>1, <3>2 DEF OnBinding, Unresolved, Shapes
    <3>4. page[tab[h]].files = 0
      BY <1>2, <3>2, <3>3 DEF Composer, AwaitsFiles, Shapes, Pages
    <3> QED
      BY <1>3, <3>2, <3>3, <3>4
  <2> QED
    BY <2>1, <2>2
<1> QED
  BY <1>4, <1>5 DEF Prepared, Handoff, OfKind

-----------------------------------------------------------------------------
(***************************************************************************)
(* The invariant holds.                                                    *)
(***************************************************************************)
LEMMA PageShape == ASSUME Shapes, NEW h \in Hosts, HostNext(h) PROVE page' \in [Bindings -> Pages]
<1> USE DEF Shapes, Pages, browser
<1>1. CASE Appending(h) \/ Settling(h) \/ Rearming(h)
  BY <1>1 DEF Appending, HandoffPending, Ready, SendPhase, LostSend, Repair, Submitted,
     PersistBlocker, Settling, HandoffReceipt, SendReceipt, Rearming, RearmAuthorize, RearmAttempt
<1>2. CASE ResolveTarget(h) \/ HandoffIntent(h) \/ PersistSend(h) \/ Establish(h) \/ Witness(h)
  BY <1>2 DEF ResolveTarget, HandoffIntent, PersistSend, Establish, Witness
<1>3. CASE \/ Begin(h) \/ Run(h) \/ Attach(h) \/ ObserveHandoff(h) \/ PrepareSend(h)
           \/ Verify(h) \/ Preflight(h) \/ Crash(h)
  BY <1>3 DEF Begin, Run, Attach, ObserveHandoff, PrepareSend, Verify, Preflight, Crash
<1>4. CASE Stage(h) \/ RearmStage(h)
  <2>1. [page EXCEPT ![tab[h]].staged = TRUE] \in [Bindings -> Pages]
    OBVIOUS
  <2> QED
    BY <1>4, <2>1 DEF Stage, RearmStage
<1>5. CASE ExecuteHandoff(h)
  <2>1. ASSUME NEW p \in Pages PROVE [p EXCEPT !.files = p.files + 1] \in Pages
    <3>1. p.files + 1 \in Nat
      OBVIOUS
    <3> QED
      BY <3>1
  <2>2. [page EXCEPT ![tab[h]].files = @ + 1] \in [Bindings -> Pages]
    BY <2>1 DEF Shapes
  <2> QED
    BY <1>5, <2>2 DEF ExecuteHandoff
<1>6. CASE ExecuteSend(h)
  <2>1. [page EXCEPT ![tab[h]] =
            [staged |-> FALSE, files |-> 0, seen |-> 0, turns |-> prep[h] + 1]]
           \in [Bindings -> Pages]
    OBVIOUS
  <2> QED
    BY <1>6, <2>1 DEF ExecuteSend
<1> QED
  BY <1>1, <1>2, <1>3, <1>4, <1>5, <1>6 DEF HostNext, Writing, Reading

LEMMA LocalShape ==
    ASSUME Inv, NEW h \in Hosts, HostNext(h)
    PROVE  /\ newTarget' \in BOOLEAN /\ pc' \in [Hosts -> Steps] /\ tab' \in [Hosts -> Bindings]
           /\ hid' \in [Hosts -> ActionIds \cup {"none"}]
           /\ auth' \in [Hosts -> BOOLEAN] /\ opened' \in [Hosts -> BOOLEAN]
<1> Shapes /\ Behind /\ Ledger
  BY DEF Inv
<1> USE DEF Shapes, Steps, journal, local, Go
<1>1. CASE Appending(h) \/ Settling(h)
  BY <1>1 DEF Appending, HandoffPending, Ready, SendPhase, LostSend, Repair, Submitted,
     PersistBlocker, PhaseAppend, Settling, HandoffReceipt, SendReceipt
<1>2. CASE ResolveTarget(h)
  <2>1. Send(snap[h]) # {} => snap[h].binding \in Bindings
    BY DEF Behind, Ledger, Recorded, Send, OfKind
  <2>2. \A b : b \in (IF newTarget THEN Bindings ELSE {FirstTab}) => b \in Bindings
    BY FirstTabAssumption
  <2>3. tab' = tab \/ \E b \in Bindings : tab' = [tab EXCEPT ![h] = b]
    BY <1>2, <2>1, <2>2 DEF ResolveTarget
  <2>4. \E p \in {"run", "stage", "idle", "blocker"} : pc' = [pc EXCEPT ![h] = p]
    BY <1>2 DEF ResolveTarget
  <2>5. UNCHANGED <<newTarget, hid, auth, opened>>
    BY <1>2 DEF ResolveTarget
  <2> QED
    BY <2>3, <2>4, <2>5
<1>3. CASE HandoffIntent(h)
  <2>1. hid' = hid \/ \E a \in ActionIds : hid' = [hid EXCEPT ![h] = a]
    BY <1>3 DEF HandoffIntent
  <2>2. \E p \in {"pending", "idle"} : pc' = [pc EXCEPT ![h] = p]
    BY <1>3 DEF HandoffIntent
  <2>3. UNCHANGED <<newTarget, tab, auth, opened>>
    BY <1>3 DEF HandoffIntent
  <2> QED
    BY <2>1, <2>2, <2>3
<1>9. CASE PersistSend(h) \/ Establish(h)
  BY <1>9 DEF PersistSend, Establish
<1>8. CASE Witness(h)
  <2>1. \E o \in BOOLEAN : opened' = [opened EXCEPT ![h] = o]
    BY <1>8 DEF Witness
  <2>2. \E p \in {"repair", "sendReceipt", "blocker"} : pc' = [pc EXCEPT ![h] = p]
    BY <1>8 DEF Witness
  <2> QED
    BY <1>8, <2>1, <2>2 DEF Witness
<1>4. CASE Rearming(h)
  <2>1. tab' = tab \/ \E b \in Bindings : tab' = [tab EXCEPT ![h] = b]
    BY <1>4 DEF Rearming, RearmAuthorize, RearmAttempt
  <2>2. \E p \in {"rearmStage", "run", "idle", "blocker"} : pc' = [pc EXCEPT ![h] = p]
    BY <1>4 DEF Rearming, RearmAuthorize, RearmAttempt
  <2>3. auth' = auth \/ \E o \in BOOLEAN : auth' = [auth EXCEPT ![h] = o]
    <3>1. CASE RearmAuthorize(h)
      BY <3>1 DEF RearmAuthorize
    <3>2. CASE RearmAttempt(h)
      <4> HIDE DEF Shapes, Steps, journal, local, Go
      <4> QED
        BY <3>2 DEF RearmAttempt
    <3> QED
      BY <1>4, <3>1, <3>2 DEF Rearming
  <2>4. UNCHANGED <<newTarget, hid, opened>>
    BY <1>4 DEF Rearming, RearmAuthorize, RearmAttempt
  <2>5. tab' \in [Hosts -> Bindings]
    BY <2>1
  <2>6. pc' \in [Hosts -> Steps]
    BY <2>2
  <2>7. auth' \in [Hosts -> BOOLEAN]
    BY <2>3
  <2> QED
    BY <2>4, <2>5, <2>6, <2>7
<1>5. CASE Attach(h)
  <2>1. Handoff(snap[h]) # {} => TheHandoff(snap[h]) \in ActionIds
    BY DEF TheHandoff, Handoff, OfKind
  <2>2. \E i \in ActionIds \cup {"none"} : hid' = [hid EXCEPT ![h] = i]
    BY <1>5, <2>1 DEF Attach
  <2>3. \E p \in {"receipt", "handoff", "blocker", "ready", "intent", "idle"} :
            pc' = [pc EXCEPT ![h] = p]
    BY <1>5 DEF Attach
  <2> QED
    BY <1>5, <2>2, <2>3 DEF Attach
<1>6. CASE \/ Begin(h) \/ Stage(h) \/ Run(h) \/ ExecuteHandoff(h) \/ ObserveHandoff(h)
           \/ PrepareSend(h)
  BY <1>6 DEF Begin, Stage, Run, ExecuteHandoff, ObserveHandoff, PrepareSend
<1>7. CASE ExecuteSend(h) \/ Verify(h) \/ RearmStage(h) \/ Preflight(h) \/ Crash(h)
  BY <1>7 DEF ExecuteSend, Verify, RearmStage, Preflight, Crash
<1> QED
  BY <1>1, <1>2, <1>3, <1>4, <1>5, <1>6, <1>7, <1>8, <1>9 DEF HostNext, Writing, Reading

\* The functions of the hosts that a step writes without naming their set.
LEMMA FunctionShape ==
    ASSUME Shapes, NEW h \in Hosts, HostNext(h)
    PROVE  /\ snap' = [snap EXCEPT ![h] = snap'[h]] /\ prep' = [prep EXCEPT ![h] = prep'[h]]
           /\ \/ activated' = activated
              \/ activated' = Append(activated, tab[h])
<1> USE DEF Shapes, browser, local
<1>1. CASE Appending(h) \/ Settling(h) \/ Rearming(h)
  BY <1>1 DEF Appending, HandoffPending, Ready, SendPhase, LostSend, Repair, Submitted,
     PersistBlocker, Settling, HandoffReceipt, SendReceipt, Rearming, RearmAuthorize, RearmAttempt
<1>2. CASE ResolveTarget(h) \/ HandoffIntent(h) \/ PersistSend(h) \/ Establish(h) \/ Witness(h)
  BY <1>2 DEF ResolveTarget, HandoffIntent, PersistSend, Establish, Witness
<1>3. CASE \/ Begin(h) \/ Stage(h) \/ Run(h) \/ Attach(h) \/ ExecuteHandoff(h)
           \/ ObserveHandoff(h) \/ PrepareSend(h)
  BY <1>3 DEF Begin, Stage, Run, Attach, ExecuteHandoff, ObserveHandoff, PrepareSend
<1>4. CASE ExecuteSend(h) \/ Verify(h) \/ RearmStage(h) \/ Preflight(h) \/ Crash(h)
  BY <1>4 DEF ExecuteSend, Verify, RearmStage, Preflight, Crash
<1> QED
  BY <1>1, <1>2, <1>3, <1>4 DEF HostNext, Writing, Reading

LEMMA ShapesNext == Inv /\ Next => Shapes'
<1> SUFFICES ASSUME Inv, Next PROVE Shapes'
  OBVIOUS
<1> USE DEF Inv
<1>1. ASSUME NEW h \in Hosts, HostNext(h) PROVE Shapes'
  <2>1. s \in OperationStates /\ s' \in OperationStates
    BY JournalNext, StatesAgree DEF RecordInv, Record!TypeOK
  <2>2. snap' \in [Hosts -> OperationStates]
    <3>1. snap \in [Hosts -> OperationStates] /\ snap' = [snap EXCEPT ![h] = snap'[h]]
      BY <1>1, FunctionShape DEF Shapes
    <3>2. snap'[h] \in OperationStates
      BY <1>1, <2>1, <3>1, SnapFrame
    <3> QED
      BY <3>1, <3>2
  <2>3. handoffs' \in Nat
    BY <1>1, HandoffFrame DEF Shapes
  <2>4. anchor' \in Nat /\ prep' \in [Hosts -> Nat]
    <3>1. prep[h] \in Nat /\ anchor \in Nat /\ page[tab[h]].turns \in Nat
      BY DEF Shapes, Pages
    <3>2. prep'[h] \in Nat /\ anchor' \in Nat
      BY <1>1, <3>1, CountFrame
    <3> QED
      BY <1>1, <3>2, FunctionShape DEF Shapes
  <2>5. activated' \in Seq(Bindings)
    <3>1. activated \in Seq(Bindings) /\ tab[h] \in Bindings
      BY DEF Shapes
    <3>2. Append(activated, tab[h]) \in Seq(Bindings)
      BY <3>1
    <3> QED
      BY <1>1, <3>1, <3>2, FunctionShape
  <2>6. Shapes
    OBVIOUS
  <2> HIDE DEF Inv
  <2>7. page' \in [Bindings -> Pages]
    BY <1>1, <2>6, PageShape
  <2>8. /\ newTarget' \in BOOLEAN /\ pc' \in [Hosts -> Steps] /\ tab' \in [Hosts -> Bindings]
        /\ hid' \in [Hosts -> ActionIds \cup {"none"}]
        /\ auth' \in [Hosts -> BOOLEAN] /\ opened' \in [Hosts -> BOOLEAN]
    BY <1>1, LocalShape
  <2>9. OperationStates' = OperationStates
    BY DEF OperationStates, ActionRecord, TransferRecord
  <2>10. Pages' = Pages
    BY DEF Pages
  <2> QED
    BY <2>2, <2>3, <2>4, <2>5, <2>7, <2>8, <2>9, <2>10 DEF Shapes
<1>2. ASSUME NEW b \in Bindings, Render(b) PROVE Shapes'
  <2>1. [page EXCEPT ![b].seen = page[b].files] \in [Bindings -> Pages]
    BY DEF Shapes, Pages
  <2>2. page' \in [Bindings -> Pages]
    BY <1>2, <2>1 DEF Render
  <2> QED
    BY <1>2, <2>2, RenderFrame DEF Shapes, OperationStates, ActionRecord, TransferRecord, Pages
<1> QED
  BY <1>1, <1>2, NextIsHostNext

LEMMA InvInit == Init => Inv
<1> SUFFICES ASSUME Init PROVE Inv
  OBVIOUS
<1>1. s = Created("receipt_only") /\ s = Record!Created("receipt_only")
  BY DEF Init, Created, Record!Created, NoAction, Record!NoAction, NoTransfer, Record!NoTransfer
<1>2. Record!Init
  BY <1>1 DEF Record!Init
<1>3. RecordInv
  BY <1>2, UsedKindsHold, PoliciesHold, SentinelHolds, Record!TypeInit, Record!CoherentInit,
     Record!NoSendBeforeReadyInit DEF RecordInv
<1>4. s \in OperationStates
  BY <1>3, StatesAgree DEF RecordInv, Record!TypeOK
<1>5. /\ s.phase = "prepared" /\ s.rearm = "none" /\ ~Bound(s)
      /\ Recorded(s) = {} /\ Handoff(s) = {} /\ Send(s) = {}
      /\ \A a \in ActionIds : s.actions[a].kind = "absent"
  BY <1>1 DEF Created, Bound, Recorded, Handoff, Send, OfKind, NoAction
<1>6. PICK left \in 0..1 :
          page = [b \in Bindings |->
              LET n == IF b = FirstTab THEN left ELSE 0
              IN [staged |-> FALSE, files |-> n, seen |-> n, turns |-> 0]]
  BY DEF Init
<1>7. \A b \in Bindings : /\ page[b] \in Pages /\ page[b].turns = 0
                          /\ page[b].files \in 0..1 /\ page[b].seen = page[b].files
  BY <1>6 DEF Pages
<1>8. Shapes
  BY <1>4, <1>6, <1>7, FirstTabAssumption, NewTargetsAssumption DEF Init, Shapes, Steps
<1>9. \A h \in Hosts : pc[h] = "idle" /\ ~auth[h] /\ snap[h] = s /\ prep[h] = 0
  BY DEF Init
<1>10. handoffs = 0 /\ activated = <<>> /\ anchor = 0
  BY DEF Init
<1>11. Ledger /\ Behind /\ OnBinding /\ Readied
  BY <1>5, <1>9 DEF Ledger, Behind, OnBinding, Unresolved, Readied
<1>12. Activation /\ TurnCounts
  BY <1>5, <1>7, <1>9, <1>10
     DEF Activation, AfterIntent, AfterSight, Sending, TurnCounts, Settled, Send
<1>13. Named /\ Authority
  BY <1>9 DEF Named, Unnamed, Authority
<1>14. Budget
  BY <1>5, <1>9, <1>10 DEF Budget, Owing, One
<1>15. Composer /\ Prepared
  BY <1>5, <1>7, <1>9, <1>10 DEF Composer, AwaitsFiles, Prepared
<1> QED
  BY <1>3, <1>8, <1>11, <1>12, <1>13, <1>14, <1>15 DEF Inv

LEMMA InvStutter == Inv /\ UNCHANGED vars => Inv'
<1> SUFFICES ASSUME Inv, UNCHANGED vars PROVE Inv'
  OBVIOUS
<1> USE DEF Inv, vars
<1>1. RecordInv'
  BY RecordNext
<1>2. Shapes'
  BY DEF Shapes, OperationStates, ActionRecord, TransferRecord, Pages
<1>3. Ledger' /\ Behind' /\ OnBinding' /\ Readied'
  BY DEF Ledger, Behind, OnBinding, Readied, Bound, Recorded, Send, Handoff, OfKind
<1>4. Activation' /\ TurnCounts' /\ Named'
  BY DEF Activation, TurnCounts, Named, Settled, Send, Handoff, OfKind
<1>5. Authority' /\ Prepared'
  BY DEF Authority, Prepared, Handoff, OfKind
<1>6. \A h \in Hosts : (Owing(h)' <=> Owing(h)) /\ (AwaitsFiles(h)' <=> AwaitsFiles(h))
  BY DEF Owing, AwaitsFiles
<1>7. Budget'
  BY <1>6 DEF Budget, Handoff, OfKind
<1>8. Composer'
  BY <1>6 DEF Composer
<1> QED
  BY <1>1, <1>2, <1>3, <1>4, <1>5, <1>7, <1>8

LEMMA InvNext == Inv /\ [Next]_vars => Inv'
<1>1. ASSUME Inv, Next PROVE Inv'
  BY <1>1, JournalNext, ShapesNext, LedgerNext, BehindNext, OnBindingNext, ActivationNext,
     TurnCountsNext, NamedNext, AuthorityNext, BudgetNext, ComposerNext, PreparedNext,
     ReadiedNext DEF Inv
<1> QED
  BY <1>1, InvStutter

LEMMA InvHolds == Spec => []Inv
BY InvInit, InvNext, PTL DEF Spec

-----------------------------------------------------------------------------
(***************************************************************************)
(* What follows from it.                                                   *)
(***************************************************************************)
LEMMA BudgetBound == Inv => handoffs \in Nat /\ HandoffBudget
BY DEF Inv, Shapes, Budget, HandoffBudget, One

\* Type correctness of the durable record, the page and the hosts' locals: the bounds
\* on files and turns are what the single handoff, rearm and Send leave possible.
THEOREM SubmissionTypeCorrect == Spec => []TypeOK
<1>1. Inv => TypeOK
  <2> SUFFICES ASSUME Inv PROVE TypeOK
    OBVIOUS
  <2> USE DEF Inv, Shapes
  <2>1. s \in OperationStates
    BY StatesAgree DEF RecordInv, Record!TypeOK
  <2>2. handoffs \in 0..2
    BY BudgetBound DEF HandoffBudget
  <2>3. ASSUME NEW b \in Bindings
        PROVE  page[b] \in [staged: BOOLEAN, files: 0..2, seen: 0..2, turns: 0..1]
    <3>1. page[b] \in Pages /\ page[b].turns \in 0..1
      BY DEF TurnCounts
    <3>2. page[b].files \in 0..2 /\ page[b].seen \in 0..2
      BY <2>2, <3>1 DEF Composer, Pages
    <3> QED
      BY <3>1, <3>2 DEF Pages
  <2>4. page \in [Bindings -> [staged: BOOLEAN, files: 0..2, seen: 0..2, turns: 0..1]]
    BY <2>3
  <2>5. prep \in [Hosts -> 0..1] /\ anchor \in 0..1
    BY DEF TurnCounts
  <2> QED
    BY <2>1, <2>2, <2>4, <2>5 DEF TypeOK
<1> QED
  BY <1>1, InvHolds, PTL

\* The files are handed to the page once over all hosts, crashes and retries, and once
\* more only after the recovery intent was spent (executeFileHandoffOnce).
THEOREM HandoffsAreBudgeted == Spec => []HandoffBudget
BY BudgetBound, InvHolds, PTL

\* No host records a Send over a handoff that nobody has proven, whichever host
\* recorded, observed and sent.
THEOREM SendFollowsHandoff == Spec => []SendFollowsProvenHandoff
<1>1. Inv => SendFollowsProvenHandoff
  BY DEF Inv, Readied, SendFollowsProvenHandoff
<1> QED
  BY <1>1, InvHolds, PTL

\* A durable Send without a receipt is always a prefix that the next submit accepts
\* (coherentSubmissionState), for an operation that was not rearmed.
THEOREM OpenSendIsResumable == Spec => []OpenSendRecoverable
<1>1. Inv => OpenSendRecoverable
  <2> SUFFICES ASSUME Inv, s.rearm = "none", Handoff(s) # {}, Settled(s, "send", "open")
               PROVE  CoherentSubmission(s, s.binding)
    BY DEF OpenSendRecoverable
  <2> USE DEF Inv
  <2>1. PICK a \in Send(s) : s.actions[a].outcome = "open"
    BY DEF Settled, Send
  <2>2. PICK c \in Handoff(s) : s.actions[c].outcome = "satisfied"
    BY <2>1 DEF Readied
  <2>3. s.boundary = "send"
    <3>1. /\ a \in ActionIds /\ s.actions[a].kind = "send"
          /\ s.boundary \in {"none", "handoff", "send", "control"}
      BY <2>1 DEF Send, OfKind, RecordInv, Record!TypeOK, Record!OperationStates,
         Record!Boundaries
    <3>2. /\ Record!BoundaryRank[Record!BoundaryForAction("send")] = 2
          /\ Record!BoundaryRank["none"] = 0 /\ Record!BoundaryRank["handoff"] = 1
      BY DEF Record!BoundaryRank, Record!BoundaryForAction, Record!Boundaries
    <3>3. s.boundary \notin {"none", "handoff"}
      BY <3>1, <3>2 DEF RecordInv, Record!Coherent, Record!BoundaryMatchesLedger,
         Record!Recorded
    <3>4. s.boundary # "control"
      BY DEF RecordInv, Record!Coherent, Record!BoundaryMatchesLedger, Record!Recorded,
         Record!BoundaryForAction, Ledger
    <3> QED
      BY <3>1, <3>3, <3>4
  <2>4. BoundaryRank["send"] = 2
    BY DEF BoundaryRank, Boundaries
  <2>5. /\ s.phase \in {"ready", "send_pending", "uncertain"} \cup OwnedPhases
        /\ s.phase \in OwnedPhases => Settled(s, "send", "satisfied")
    <3>1. s.phase \notin {"prepared", "handoff_pending"}
      BY <2>1 DEF RecordInv, Record!NoSendBeforeReady, Record!OfKind, Send, OfKind
    <3>2. s.phase \in OwnedPhases => Settled(s, "send", "satisfied")
      BY RulesAgree DEF RecordInv, Record!Coherent, Record!OwnedPhaseIsProven, Record!SendOwned,
         Record!OfKind, Settled, OfKind
    <3> QED
      BY <3>1, <3>2 DEF RecordInv, Record!TypeOK, Record!OperationStates, Record!Phases,
         OwnedPhases
  <2>6. /\ \A d \in Send(s) : s.actions[d].target = s.binding
        /\ \A d \in Handoff(s) : s.actions[d].target = s.binding
    BY DEF Ledger
  <2>7. /\ Send(s) # {} /\ Handoff(s) # {} /\ Settled(s, "file_handoff", "satisfied")
        /\ BoundaryRank[s.boundary] >= 2
    BY <2>1, <2>2, <2>3, <2>4 DEF Settled, Handoff
  <2>8. CASE s.phase = "ready"
    BY <2>3, <2>6, <2>7, <2>8 DEF CoherentSubmission, OwnedPhases
  <2>9. CASE s.phase = "send_pending"
    BY <2>3, <2>6, <2>7, <2>9 DEF CoherentSubmission, OwnedPhases
  <2>10. CASE s.phase = "uncertain"
    BY <2>3, <2>6, <2>7, <2>10 DEF CoherentSubmission, OwnedPhases
  <2>11. CASE s.phase \in OwnedPhases
    BY <2>3, <2>5, <2>6, <2>7, <2>11 DEF CoherentSubmission, OwnedPhases
  <2> QED
    BY <2>5, <2>8, <2>9, <2>10, <2>11
<1> QED
  BY <1>1, InvHolds, PTL

\* Every append of every host is an event that the reducer accepts in the state it is
\* applied to: the submit path cannot write a journal that a replay would reject, and
\* what is proved of the reducer holds of its journal.
THEOREM JournalIsReduced == Spec => Record!Spec
<1>1. Init => Record!Init
  BY DEF Init, Record!Init, Created, Record!Created, NoAction, Record!NoAction, NoTransfer,
     Record!NoTransfer
<1>2. Inv /\ [Next]_vars => [Record!Next]_s
  BY JournalStep DEF vars
<1> QED
  BY <1>1, <1>2, InvHolds, PTL DEF Spec, Record!Spec

(***************************************************************************)
(* The promise of SendOnce.                                                *)
(***************************************************************************)
\* A report of a submission comes after the activation.
LEMMA ReportIsTrue == Inv => (s.phase \in OwnedPhases => activated # <<>>)
<1> SUFFICES ASSUME Inv, s.phase \in OwnedPhases PROVE activated # <<>>
  OBVIOUS
<1>1. Settled(s, "send", "satisfied")
  BY RulesAgree DEF Inv, RecordInv, Record!Coherent, Record!OwnedPhaseIsProven,
     Record!SendOwned, Record!OfKind, Settled, OfKind
<1> QED
  BY <1>1 DEF Inv, Activation

Intended == IF Send(s) = {} THEN "none" ELSE s.actions[TheSend(s)].target

LEMMA IntendedSame ==
    ASSUME Inv, Next, Send(s') = Send(s)
    PROVE  Intended' = Intended
<1>1. TheSend(s') = TheSend(s)
  BY DEF TheSend
<1>2. Send(s) # {} => s'.actions[TheSend(s)].target = s.actions[TheSend(s)].target
  BY JournalNext, TheSendRecorded
<1> QED
  BY <1>1, <1>2 DEF Intended, Send, OfKind, TheSend

LEMMA PromiseNext == Inv /\ Inv' /\ [Next]_vars => [Promise!Next]_(Promise!vars)
<1> DEFINE proven == s.phase \in OwnedPhases
<1> SUFFICES ASSUME Inv, Inv', [Next]_vars PROVE [Promise!Next]_(Promise!vars)
  OBVIOUS
<1>1. CASE UNCHANGED vars
  BY <1>1 DEF vars, Promise!vars, Send, TheSend, OfKind
<1>2. ASSUME Next, Send(s') = Send(s), activated' = activated
      PROVE  [Promise!Next]_(Promise!vars)
  <2>1. Intended' = Intended
    BY <1>2, IntendedSame
  <2>2. proven' # proven => activated # <<>>
    <3>1. Inv' => (s.phase \in OwnedPhases => activated # <<>>)'
      BY ReportIsTrue, PTL
    <3> QED
      BY <1>2, <3>1, ReportIsTrue DEF OwnedPhases
  <2>3. proven \in BOOLEAN /\ proven' \in BOOLEAN
    OBVIOUS
  <2> QED
    BY <1>2, <2>1, <2>2, <2>3 DEF Promise!Next, Promise!Report, Promise!vars, Intended
<1>3. ASSUME NEW h \in Hosts, PersistSend(h), s' # s PROVE Promise!Intend
  <2>1. s.phase = "ready" /\ s'.phase = s.phase /\ Adds("send", tab[h])
    BY <1>3, PersistSendFrame DEF Inv
  <2>2. Send(s) = {} /\ tab[h] \in Bindings
    BY <2>1 DEF Adds, Send, Inv, Shapes
  <2>3. PICK a \in ActionIds : Send(s') = {a} /\ s'.actions[a].target = tab[h]
    BY <2>1, AddsOne DEF Send, Inv
  <2>4. Intended = "none" /\ Intended' = tab[h]
    BY <2>2, <2>3 DEF Intended, TheSend, Send, OfKind
  <2>5. activated' = activated /\ (proven' <=> proven)
    BY <1>3, <2>1 DEF PersistSend, browser, OwnedPhases
  <2> QED
    BY <2>2, <2>4, <2>5 DEF Promise!Intend, Intended
<1>4. ASSUME NEW h \in Hosts, ExecuteSend(h), activated' # activated PROVE Promise!Activate
  <2>1. pc[h] = "execute" /\ s' = s /\ activated' = Append(activated, tab[h])
    BY <1>4 DEF ExecuteSend, At, journal
  <2>2. /\ activated = <<>> /\ Send(s) # {} /\ \A a \in Send(s) : s.actions[a].target = tab[h]
    BY <2>1 DEF Inv, Activation, AfterIntent, Sending
  <2>3. Intended = tab[h] /\ Intended # "none"
    BY <2>2, TheSendRecorded, SentinelAssumption DEF Intended, Inv, Shapes
  <2>4. activated' = <<Intended>>
    BY <2>1, <2>2, <2>3
  <2> QED
    BY <2>1, <2>2, <2>3, <2>4 DEF Promise!Activate, Intended, Send, TheSend, OfKind
<1>5. ASSUME NEW h \in Hosts, HostNext(h), ~(PersistSend(h) /\ s' # s),
             ~(ExecuteSend(h) /\ activated' # activated)
      PROVE  Send(s') = Send(s) /\ activated' = activated
  BY <1>5, SendFrame, BrowserFrame DEF Inv
<1>6. ASSUME NEW b \in Bindings, Render(b) PROVE Send(s') = Send(s) /\ activated' = activated
  BY <1>6, RenderFrame
<1>7. CASE Next
  BY <1>2, <1>3, <1>4, <1>5, <1>6, <1>7, NextIsHostNext DEF Promise!Next
<1> QED
  BY <1>1, <1>7

\* The submit path implements SendOnce: over all hosts, crashes and retries the intent
\* is durable before the provider is activated, it is activated at most once and in the
\* intended tab, and a submission is reported only after it happened.
THEOREM SendsOnceHolds == Spec => SendsOnce
<1>1. Init => Promise!Init
  BY DEF Init, Promise!Init, Created, NoAction, Send, OfKind, OwnedPhases
<1> QED
  BY <1>1, InvHolds, InvNext, PromiseNext, PTL DEF Spec, SendsOnce, Promise!Spec

\* At most one activation, in the target the durable intent names, and before any report.
THEOREM OneActivation == Spec => []Promise!ActivatedAsIntended
<1>1. Promise!Init => Promise!ActivatedAsIntended
  BY DEF Promise!Init, Promise!ActivatedAsIntended
<1>2. Promise!ActivatedAsIntended /\ [Promise!Next]_(Promise!vars)
         => Promise!ActivatedAsIntended'
  <2> SUFFICES ASSUME Promise!ActivatedAsIntended, [Promise!Next]_(Promise!vars)
               PROVE  Promise!ActivatedAsIntended'
    OBVIOUS
  <2> USE DEF Promise!ActivatedAsIntended
  <2>1. CASE Promise!Intend
    BY <2>1 DEF Promise!Intend
  <2>2. CASE Promise!Activate
    BY <2>2 DEF Promise!Activate
  <2>3. CASE Promise!Report
    BY <2>3 DEF Promise!Report
  <2>4. CASE UNCHANGED Promise!vars
    BY <2>4 DEF Promise!vars
  <2> QED
    BY <2>1, <2>2, <2>3, <2>4 DEF Promise!Next
<1> QED
  BY <1>1, <1>2, SendsOnceHolds, PTL DEF SendsOnce, Promise!Spec
=============================================================================
