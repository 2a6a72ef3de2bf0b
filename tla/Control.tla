-------------------------------- MODULE Control --------------------------------
(***************************************************************************)
(* Stop, Work steer and collection of one generating operation.  Several   *)
(* hosts run OperationService.control and collect over the same journal    *)
(* and the same conversation; each step is one journal append or one page  *)
(* transaction, and a host may stop after any of them.                     *)
(*                                                                         *)
(* A turn is one user message together with the assistant's answer to it   *)
(* and is named by the action that made it, or by a name of its own when   *)
(* the user typed it.  Turns are only ever added, so the length of the     *)
(* conversation stands for an ownership baseline.  The instants at which   *)
(* two invocations observe are taken to differ.                            *)
(***************************************************************************)
EXTENDS Integers, Sequences, FiniteSets, SequencesExt

CONSTANTS
    Hosts,
    SendId,     \* the operation's Send
    StopIds,    \* controlActionIds a caller uses for a Stop; a retry repeats its id
    SteerIds,   \* controlActionIds a caller uses for a steer
    HumanTurns, \* the messages the user may type into the conversation
    OneProcess  \* TRUE when the hosts share one process, and so its tab actor

ASSUME DistinctIdsAssumption ==
    SendId \notin StopIds \cup SteerIds /\ StopIds \cap SteerIds = {}
ASSUME OneProcessAssumption == OneProcess \in BOOLEAN

ControlIds == StopIds \cup SteerIds
ActionIds == {SendId} \cup ControlIds
Turns == ActionIds \cup HumanTurns
Bindings == {"tab"}
Artifacts == {}
Destinations == {}

ASSUME TurnsAssumption == HumanTurns \cap ActionIds = {} /\ "none" \notin Turns

INSTANCE OperationReducer

VARIABLES
    s,              \* the durable operation state
    ranked,         \* Send and steers by receipt revision, or else intent revision
    base,           \* per steer: turns in its durable baseline
    page,           \* the conversation: its turns, and whether the last is generating
    expects,        \* per control id: the turn its request names, or "none"
    host,           \* per host: the next step and the locals of its one running call
    stops,          \* per Stop id: calls of executeOnce (history)
    answer          \* the turn whose answer completed the operation, or "none" (history)

vars == <<s, ranked, base, page, expects, host, stops, answer>>
journal == <<s, ranked, base>>
history == <<stops, answer>>

Steps == {"idle", "observeTurn", "stopIntent", "stop", "settleStop",
          "prepare", "persist", "execute", "click", "verify", "witness", "receipt",
          "observe", "terminal", "capture", "complete"}

\* The locals of a call: the control action it settles or the owner its collection
\* goes by, the baseline it prepared, the outcome it found, the turn it captures.
Calls == [pc: Steps, act: ActionIds \cup {"none"}, prep: Nat,
          out: Outcomes \cup {"open"}, seen: Turns \cup {"none"}]

Idle == [pc |-> "idle", act |-> "none", prep |-> 0, out |-> "open", seen |-> "none"]

\* A fixed target whose Send was proven and whose answer is being generated.
Generating ==
    LET bound == TargetBound(Created("receipt_only"), "fixed", "tab")
        sent == ActionPrepared(bound, SendId, "send", "tab")
        proven == SubmissionWitness(sent, SendId, SendId)
    IN PhaseChange(ActionReceipt(proven, SendId, "satisfied"), "generating")

Init ==
    /\ s = Generating
    /\ ranked = <<SendId>>
    /\ base = [c \in SteerIds |-> 0]
    /\ page = [turns |-> <<SendId>>, generating |-> TRUE]
    /\ expects = [c \in ControlIds |-> "none"]
    /\ host = [h \in Hosts |-> Idle]
    /\ stops = [c \in StopIds |-> 0]
    /\ answer = "none"

(***************************************************************************)
(* Helpers.                                                                *)
(***************************************************************************)
At(h, p) == host[h].pc = p
Act(h) == host[h].act
Go(h, p) == host' = [host EXCEPT ![h].pc = p]
GoWith(h, p, o) == host' = [host EXCEPT ![h].pc = p, ![h].out = o]
Return(h) == host' = [host EXCEPT ![h] = Idle]

\* The process-local tab actor keeps a mutation's page transaction, from the
\* final recheck to the click, apart from every other one.
TabFree == OneProcess => \A h \in Hosts : ~At(h, "click")

LastTurn == page.turns[Len(page.turns)]
Answering(t) == page.generating /\ LastTurn = t
Outcome(c) == s.actions[c].outcome
Steers == OfKind(s, "work_steer")

\* priorWorkSteerDisposition = "unresolved".
Unresolved(c) == Outcome(c) \in {"open", "uncertain"}

\* The snapshot validator refuses a witness whose steer was rejected, although the
\* reducer accepts a rejection that comes after the witness: no call that starts
\* then can read the operation.
Readable ==
    \A c \in Steers : s.witnesses[c] # "none" => Outcome(c) \notin {"not_satisfied", "uncertain"}

PositionOf(q, c) == CHOOSE i \in DOMAIN q : q[i] = c

MovedToEnd(q, c) == Append(RemoveAt(q, PositionOf(q, c)), c)

\* latestSubmissionOwnership: refused while a steer that was not rejected lacks
\* its witness; then the candidate with the highest revision.
OwnershipKnown == \A c \in Steers : Outcome(c) # "not_satisfied" => s.witnesses[c] # "none"

Candidates == {i \in DOMAIN ranked : Outcome(ranked[i]) \notin {"not_satisfied", "uncertain"}}

LatestOwner == ranked[Max(Candidates)]

\* Length of the baseline of a causal action; the Send's baseline is empty.
Baseline(c) == IF c = SendId THEN 0 ELSE base[c]

\* Exactly one user turn follows the action's baseline.
OneTurnAfter(c) == Len(page.turns) = Baseline(c) + 1

(***************************************************************************)
(* A control call: read the parent and choose the path.  The request is    *)
(* immutable, and the caller knows the turns the ledger attributes to the  *)
(* operation.  An id with an outcome only returns its receipt.             *)
(***************************************************************************)
Begin(h, c) ==
    /\ At(h, "idle")
    /\ s.phase = "generating" \/ c \in Steers
    /\ Outcome(c) = "open" /\ Readable
    /\ IF expects[c] = "none"
       THEN \E t \in {s.witnesses[a] : a \in ActionIds} \ {"none"} :
                expects' = [expects EXCEPT ![c] = t]
       ELSE UNCHANGED expects
    /\ host' = [host EXCEPT ![h].act = c, ![h].pc =
             CASE c \in StopIds /\ c \notin Recorded(s) -> "observeTurn"
               [] c \in StopIds /\ c \in Recorded(s) -> "settleStop"
               [] c \in SteerIds /\ c \notin Recorded(s) -> "prepare"
               [] c \in SteerIds /\ c \in Recorded(s) -> "verify"]
    /\ UNCHANGED <<journal, page, history>>

(***************************************************************************)
(* Stop.                                                                   *)
(***************************************************************************)
ObserveTurn(h) ==
    /\ At(h, "observeTurn") /\ TabFree
    /\ Answering(expects[Act(h)])
    /\ Go(h, "stopIntent")
    /\ UNCHANGED <<journal, page, expects, history>>

\* persistControlIntent: an identical intent already durable counts as persisted.
StopIntent(h) ==
    /\ At(h, "stopIntent")
    /\ LET c == Act(h) IN
       \/ /\ ActionIntentLegal(s, c, "stop", s.binding)
          /\ s' = ActionIntent(s, c, "stop", s.binding)
       \/ c \in Recorded(s) /\ UNCHANGED s
    /\ Go(h, "stop") \/ Go(h, "settleStop")     \* cancelled after the intent
    /\ UNCHANGED <<ranked, base, page, expects, history>>

\* executeControlOnce: clicks the one visible Stop button, whichever turn it
\* belongs to by now, and leaves the outcome to the observation.
ExecuteStop(h) ==
    /\ At(h, "stop") /\ TabFree
    /\ stops' = [stops EXCEPT ![Act(h)] = @ + 1]
    /\ \E ends \in BOOLEAN : page' = [page EXCEPT !.generating = @ /\ ~ends]
    /\ Go(h, "settleStop")
    /\ UNCHANGED <<journal, expects, answer>>

\* Mutant: a turn that is still generating is taken for a stopped one.
SettleStopHopeful(h) ==
    /\ At(h, "settleStop") /\ TabFree
    /\ GoWith(h, "receipt", "satisfied")
    /\ UNCHANGED <<journal, page, expects, history>>

\* Mutant: the page's word for a stopped turn is stored as the outcome.
SettleStopUnmapped(h) ==
    /\ At(h, "settleStop") /\ TabFree
    /\ \/ ~Answering(expects[Act(h)]) /\ GoWith(h, "receipt", "stopped")
       \/ GoWith(h, "receipt", "not_satisfied")
       \/ GoWith(h, "receipt", "uncertain")
    /\ UNCHANGED <<journal, page, expects, history>>

\* observeControlPostcondition: satisfied only when the named turn is found and does
\* not generate; a turn the observation misses is not satisfied, whatever it does.
SettleStop(h) ==
    /\ At(h, "settleStop") /\ TabFree
    /\ \E o \in Outcomes :
        /\ o = "satisfied" => ~Answering(expects[Act(h)])
        /\ GoWith(h, "receipt", o)
    /\ UNCHANGED <<journal, page, expects, history>>

(***************************************************************************)
(* Work steer: prepare, persist intent and baseline, execute, verify.      *)
(***************************************************************************)
PrepareSteer(h) ==
    /\ At(h, "prepare") /\ TabFree
    /\ Answering(expects[Act(h)])
    /\ host' = [host EXCEPT ![h].pc = "persist", ![h].prep = Len(page.turns)]
    /\ UNCHANGED <<journal, page, expects, history>>

\* Mutant: only the same steer is looked for, not another unresolved one.
PersistSteerUnfenced(h) ==
    /\ At(h, "persist")
    /\ LET c == Act(h) IN
        /\ ActionPreparedLegal(s, c, "work_steer", s.binding)
        /\ s' = ActionPrepared(s, c, "work_steer", s.binding)
        /\ ranked' = Append(ranked, c)
        /\ base' = [base EXCEPT ![c] = host[h].prep]
        /\ Go(h, "execute")
    /\ UNCHANGED <<page, expects, history>>

\* Mutant: a call that finds its own steer recorded may execute it.
PersistSteerReexecuting(h) ==
    /\ At(h, "persist")
    /\ LET c == Act(h) IN
       \/ /\ \A d \in Steers : ~Unresolved(d)
          /\ ActionPreparedLegal(s, c, "work_steer", s.binding)
          /\ s' = ActionPrepared(s, c, "work_steer", s.binding)
          /\ ranked' = Append(ranked, c)
          /\ base' = [base EXCEPT ![c] = host[h].prep]
       \/ c \in Steers /\ base[c] = host[h].prep /\ UNCHANGED journal
    /\ Go(h, "execute") \/ Go(h, "verify")
    /\ UNCHANGED <<page, expects, history>>

\* persistSteerIntentAndBaseline: only the acknowledged append may execute; the
\* same steer with the same baseline is recovered, another one that is
\* unresolved or a different baseline ends the call.
PersistSteer(h) ==
    /\ At(h, "persist")
    /\ LET c == Act(h) IN
       \/ /\ \A d \in Steers : ~Unresolved(d)
          /\ ActionPreparedLegal(s, c, "work_steer", s.binding)
          /\ s' = ActionPrepared(s, c, "work_steer", s.binding)
          /\ ranked' = Append(ranked, c)
          /\ base' = [base EXCEPT ![c] = host[h].prep]
          /\ Go(h, "execute") \/ Go(h, "verify")    \* acknowledgement lost
       \/ /\ c \in Steers /\ base[c] = host[h].prep
          /\ Go(h, "verify") /\ UNCHANGED journal
    /\ UNCHANGED <<page, expects, history>>

\* Mutant: the final recheck before the click is left out.
RecheckSteerSkipped(h) ==
    /\ At(h, "execute") /\ TabFree
    /\ Go(h, "click")
    /\ UNCHANGED <<journal, page, expects, history>>

\* executePrepared up to the click: a clean block before the fill is a durable
\* rejection, a failed recheck goes on to the observation.
RecheckSteer(h) ==
    /\ At(h, "execute") /\ TabFree
    /\ \/ GoWith(h, "receipt", "not_satisfied")
       \/ /\ Answering(expects[Act(h)]) /\ Len(page.turns) = host[h].prep
          /\ Go(h, "click")
       \/ Go(h, "verify")
    /\ UNCHANGED <<journal, page, expects, history>>

\* Mutant: the provider's failure to click is reported as a clean block.
ClickSteerMisreported(h) ==
    /\ At(h, "click")
    /\ page' = [turns |-> Append(page.turns, Act(h)), generating |-> TRUE]
    /\ GoWith(h, "receipt", "not_satisfied")
    /\ UNCHANGED <<journal, expects, history>>

\* The fill and the click: whatever they report, they acted or did not.
ClickSteer(h) ==
    /\ At(h, "click")
    /\ \/ page' = [turns |-> Append(page.turns, Act(h)), generating |-> TRUE]
       \/ UNCHANGED page
    /\ Go(h, "verify")
    /\ UNCHANGED <<journal, expects, history>>

\* exactPostcondition, for verify and for recover: one user turn was added.
VerifySteer(h) ==
    /\ At(h, "verify") /\ TabFree
    /\ OneTurnAfter(Act(h))
    /\ GoWith(h, "witness", "satisfied")
    /\ UNCHANGED <<journal, page, expects, history>>

\* The witness of a satisfied steer carries the instant of this invocation's
\* receipt, and a durable witness is compared with it in full.
WitnessSteer(h) ==
    /\ At(h, "witness")
    /\ LET c == Act(h)
           t == page.turns[base[c] + 1]
       IN /\ s.witnesses[c] = "none" /\ SubmissionWitnessLegal(s, c, t)
          /\ s' = SubmissionWitness(s, c, t)
    /\ Go(h, "receipt")
    /\ UNCHANGED <<ranked, base, page, expects, history>>

\* appendActionReceiptConvergent: another outcome already durable is an error.
ReceiptControl(h) ==
    /\ At(h, "receipt")
    /\ LET c == Act(h) IN
       \/ /\ ActionReceiptLegal(s, c)
          /\ s' = ActionReceipt(s, c, host[h].out)
          /\ ranked' = IF c \in SteerIds THEN MovedToEnd(ranked, c) ELSE ranked
       \/ Outcome(c) = host[h].out /\ UNCHANGED <<s, ranked>>
    /\ Return(h)
    /\ UNCHANGED <<base, page, expects, history>>

(***************************************************************************)
(* Collection.  Progress has nothing to append to a generating operation.  *)
(***************************************************************************)
CollectRead(h) ==
    /\ At(h, "idle")
    /\ s.phase \in {"generating", "capturing"}
    /\ Readable /\ OwnershipKnown
    /\ host' = [host EXCEPT ![h].pc = "observe", ![h].act = LatestOwner]
    /\ UNCHANGED <<journal, page, expects, history>>

\* classifyTurnOwnership and decideOperationRecovery: the one turn after the
\* owner's baseline is the witnessed one, and its answer is terminal.
CollectObserve(h) ==
    /\ At(h, "observe") /\ TabFree
    /\ OneTurnAfter(Act(h))
    /\ LastTurn = s.witnesses[Act(h)] /\ ~page.generating
    /\ host' = [host EXCEPT ![h].pc = "terminal", ![h].seen = LastTurn]
    /\ UNCHANGED <<journal, page, expects, history>>

\* persistTerminal: the ownership is authenticated again, once.
PersistTerminal(h) ==
    /\ At(h, "terminal")
    /\ s.receipt = "none"
    /\ OwnershipKnown /\ LatestOwner = Act(h)
    /\ Go(h, "capture")
    /\ UNCHANGED <<journal, page, expects, history>>

AdvanceToCapturing(h) ==
    /\ At(h, "capture")
    /\ \/ PhaseChangeLegal(s, "capturing", SendId) /\ s' = PhaseChange(s, "capturing")
       \/ s.phase \in {"capturing", "completed"} /\ UNCHANGED s
    /\ Go(h, "complete")
    /\ UNCHANGED <<ranked, base, page, expects, history>>

CompleteReceipt(h) ==
    /\ At(h, "complete")
    /\ ReceiptCompletedLegal(s, {})
    /\ s' = ReceiptCompleted(s, {}, "available")
    /\ answer' = host[h].seen
    /\ Return(h)
    /\ UNCHANGED <<ranked, base, page, expects, stops>>

(***************************************************************************)
(* The rest of the world.                                                  *)
(***************************************************************************)
\* The call ends early: a refusal, a cancellation, a failed append or
\* observation, or the host stops.  A transaction that is cut off in its click
\* is waited for.
End(h) ==
    /\ host[h].pc \notin {"idle", "click"}
    /\ Return(h)
    /\ UNCHANGED <<journal, page, expects, history>>

AnswerEnds ==
    /\ page.generating
    /\ page' = [page EXCEPT !.generating = FALSE]
    /\ UNCHANGED <<journal, expects, host, history>>

HumanTypes ==
    /\ \E t \in HumanTurns : /\ \A i \in DOMAIN page.turns : page.turns[i] # t
                            /\ page' = [turns |-> Append(page.turns, t), generating |-> TRUE]
    /\ UNCHANGED <<journal, expects, host, history>>

\* A running call's next step.
Step(h) ==
    \/ ObserveTurn(h) \/ StopIntent(h) \/ ExecuteStop(h) \/ SettleStop(h)
    \/ PrepareSteer(h) \/ PersistSteer(h) \/ RecheckSteer(h) \/ ClickSteer(h)
    \/ VerifySteer(h) \/ WitnessSteer(h) \/ ReceiptControl(h)
    \/ CollectObserve(h) \/ PersistTerminal(h) \/ AdvanceToCapturing(h) \/ CompleteReceipt(h)
    \/ End(h)

Next ==
    \/ \E h \in Hosts : (\E c \in ControlIds : Begin(h, c)) \/ CollectRead(h) \/ Step(h)
    \/ AnswerEnds \/ HumanTypes

Spec == Init /\ [][Next]_vars

\* Every call has a deadline, so it goes on or ends.  A caller that keeps repeating
\* a steer gets through each step again and again, even though its calls may also
\* end early again and again.
Persistent ==
    \A h \in Hosts :
        /\ WF_vars(Step(h))
        /\ \A c \in SteerIds : SF_vars(Begin(h, c))
        /\ SF_vars(VerifySteer(h)) /\ SF_vars(WitnessSteer(h)) /\ SF_vars(ReceiptControl(h))

FairSpec == Spec /\ Persistent

-----------------------------------------------------------------------------
\* Type correctness of the ledger, the conversation and the hosts' locals.
TypeOK ==
    /\ s \in OperationStates
    /\ ranked \in Seq({SendId} \cup SteerIds) /\ base \in [SteerIds -> Nat]
    /\ page \in [turns: Seq(Turns), generating: BOOLEAN]
    /\ expects \in [ControlIds -> Turns \cup {"none"}]
    /\ host \in [Hosts -> Calls]
    /\ stops \in [StopIds -> Nat] /\ answer \in Turns \cup {"none"}

Positions(c) == {i \in DOMAIN page.turns : page.turns[i] = c}

\* Whatever hosts, retries and lost acknowledgements do, a steer is typed into
\* the conversation at most once, after its fence and behind its durable baseline,
\* and a steer the ledger calls rejected never was.
SteersAreFenced ==
    \A c \in SteerIds : \A i \in Positions(c) :
        /\ Positions(c) = {i}
        /\ s.actions[c].kind = "work_steer" /\ Outcome(c) # "not_satisfied"
        /\ i > base[c]

\* Concurrent hosts never fence a second steer while one is unresolved.
OneUnresolvedSteer == \A c, d \in Steers : Unresolved(c) /\ Unresolved(d) => c = d

\* A steer is credited with a turn that is not its own: the user's or another steer's.
Miscredited == \E c \in SteerIds : s.witnesses[c] \notin {"none", c}

\* The ledger stays one that the snapshot validator accepts, so that later calls can
\* read it: a host that rejects its steer knows that nobody typed it, so no other host
\* can have witnessed it, unless that host credited the steer with another turn.
UnreadableOnlyByMiscredit == Readable \/ Miscredited

\* The answer an operation completes with is never superseded: every turn the
\* operation made is at or before it, and every steer among them is witnessed, as
\* long as no steer was credited with a message the user typed.
AnswerIsCurrent ==
    answer # "none" /\ (\A c \in SteerIds : s.witnesses[c] \notin HumanTurns)
    => \A c \in SteerIds : \A i \in Positions(c) :
        /\ s.witnesses[c] # "none"
        /\ \E j \in Positions(answer) : i <= j

\* A Stop that reports success named a turn that has stopped for good, even
\* when the page went on to later turns.
StopReportsAreTrue ==
    \A c \in StopIds : Outcome(c) = "satisfied" => ~Answering(expects[c])

(***************************************************************************)
(* Claims of the repository that the code does not keep.                   *)
(***************************************************************************)
\* control.ts: "A durable action intent authorizes at most one executeOnce
\* call.  Any later call with the same action ID is observation-only".
StopExecutedOnce == \A c \in StopIds : stops[c] <= 1

\* operations-control.test.ts and operations-service.test.ts: a steer that stops
\* between its witness and its receipt is settled by a later call with the same
\* id, as long as the operation it belongs to is not completed first.
WitnessedSteerSettles ==
    \A c \in SteerIds :
        s.witnesses[c] # "none" ~> Outcome(c) # "open" \/ s.phase = "completed"
=============================================================================
