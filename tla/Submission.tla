------------------------------- MODULE Submission -------------------------------
(***************************************************************************)
(* The submit path of one operation: several hosts (processes, or calls in *)
(* one process) run OperationService.submit for the same operationId over  *)
(* one compare-and-swap journal and one browser.  Each step of a host is   *)
(* one journal append or one page transaction; a host may stop after any   *)
(* of them and any later submit starts again from the durable prefix.      *)
(*                                                                         *)
(* A convergent append (load, test the effect, append at the loaded        *)
(* revision, retry on conflict) takes effect at one instant and is one     *)
(* step; an append whose acknowledgement decides what follows has an       *)
(* acknowledged and a lost outcome.                                        *)
(***************************************************************************)
EXTENDS Integers, Sequences, FiniteSets

CONSTANTS
    Hosts,
    Bindings,   \* browser tabs; FirstTab is the one a fixed target resolves to
    FirstTab,
    NewTargets, \* requests explored: TRUE for a new conversation, FALSE for an existing thread
    ActionIds   \* random identities; a new action takes an unused one

ASSUME FirstTabAssumption == FirstTab \in Bindings
ASSUME NewTargetsAssumption == NewTargets \subseteq BOOLEAN
ASSUME SentinelAssumption == "none" \notin Bindings \cup ActionIds

Turns == {"turn1", "turn2"}
Artifacts == {}
Destinations == {}

INSTANCE OperationReducer

VARIABLES
    newTarget,      \* the request asks for a new conversation
    s,              \* the durable operation state
    page,           \* per tab: composer staged, files attached / rendered, user turns
    pc, snap, tab,  \* per host: next step, loaded state, tab of its envelope
    hid,            \* per host: the handoff action it reports on, or "none"
    auth,           \* per host: it committed the rearm intent itself
    opened,         \* per host: the Send was unreceipted when it loaded it
    prep,           \* per host: user turns in the baseline it prepared
    anchor,         \* user turns in the durable baseline
    handoffs,       \* file handoffs executed (history)
    activated       \* tabs in which Send was activated, in order (history)

vars == <<newTarget, s, page, pc, snap, tab, hid, auth, opened, prep, anchor, handoffs, activated>>
journal == <<newTarget, s, anchor>>
browser == <<page, handoffs, activated>>
local == <<snap, tab, hid, auth, opened, prep>>

Steps == {"idle", "resolve", "stage", "run", "attach", "intent", "pending", "handoff",
          "observe", "receipt", "ready", "prepare", "persist", "sendPhase", "lostSend",
          "execute", "verify", "recover", "establish", "witness", "repair", "sendReceipt",
          "submitted", "blocker", "rearmResolve", "rearmStage", "preflight", "rearmIntent"}

Init ==
    /\ newTarget \in NewTargets
    /\ s = Created("receipt_only")
    /\ \E left \in 0..1 :     \* the exact files may already be in the composer
           page = [b \in Bindings |->
               LET n == IF b = FirstTab THEN left ELSE 0
               IN [staged |-> FALSE, files |-> n, seen |-> n, turns |-> 0]]
    /\ pc = [h \in Hosts |-> "idle"]
    /\ snap = [h \in Hosts |-> s]
    /\ tab = [h \in Hosts |-> FirstTab]
    /\ hid = [h \in Hosts |-> "none"]
    /\ auth = [h \in Hosts |-> FALSE]
    /\ opened = [h \in Hosts |-> FALSE]
    /\ prep = [h \in Hosts |-> 0]
    /\ anchor = 0 /\ handoffs = 0 /\ activated = <<>>

(***************************************************************************)
(* Helpers.                                                                *)
(***************************************************************************)
Go(h, p) == pc' = [pc EXCEPT ![h] = p]
At(h, p) == pc[h] = p

Handoff(t) == OfKind(t, "file_handoff")
Send(t) == OfKind(t, "send")
TheHandoff(t) == CHOOSE a \in Handoff(t) : TRUE
TheSend(t) == CHOOSE a \in Send(t) : TRUE
Settled(t, k, o) == \E a \in OfKind(t, k) : t.actions[a].outcome = o

PhaseOrder == <<"prepared", "handoff_pending", "ready", "send_pending", "submitted",
                "generating", "capturing", "completed">>

\* phaseReached: uncertain has reached nothing but itself.
PhaseReached(current, desired) ==
    \/ current = desired
    \/ desired = "uncertain" /\ current = "completed"
    \/ \E i, j \in DOMAIN PhaseOrder :
           PhaseOrder[i] = current /\ PhaseOrder[j] = desired /\ i > j

\* appendPhaseConvergent: nothing to do, an accepted event, or a failure.
PhaseAppend(h, to, c, next, failed) ==
    \/ /\ PhaseReached(s.phase, to) \/ s.phase = "completed"
       /\ UNCHANGED s /\ Go(h, next)
    \/ /\ ~PhaseReached(s.phase, to) /\ PhaseChangeLegal(s, to, c)
       /\ s' = PhaseChange(s, to) /\ Go(h, next)
    \/ /\ ~PhaseReached(s.phase, to) /\ ~PhaseChangeLegal(s, to, c)
       /\ UNCHANGED s /\ Go(h, failed)

\* The user turn that follows the durable baseline.
NewTurn == IF anchor = 0 THEN "turn1" ELSE "turn2"

Observed(b) ==
    CASE page[b].seen = 0 -> "absent" [] page[b].seen = 1 -> "exact" [] OTHER -> "mismatch"

(***************************************************************************)
(* coherentSubmissionState: the durable prefixes submit agrees to resume,  *)
(* for an operation with files and the envelope's target b.                *)
(***************************************************************************)
CoherentSubmission(t, b) ==
    LET h == Handoff(t)
        rearmed == t.rearm # "none" /\ h # {} /\ t.binding = b
        sent == BoundaryRank[t.boundary] >= 2
    IN
    /\ \A a \in Send(t) : t.actions[a].target = b
    /\ \A a \in h : rearmed \/ t.actions[a].target = b
    /\ h # {} => t.boundary # "none"
    /\ t.rearm # "none" => rearmed /\ t.boundary = "handoff"
    /\ Send(t) # {} => sent
    /\ t.phase # "prepared" => h # {}
    /\ CASE t.phase = "prepared" ->
                /\ Send(t) = {}
                /\ IF h = {} THEN t.boundary = "none"
                   ELSE t.boundary = "handoff"
                        /\ \A a \in h : t.actions[a].outcome \in {"open", "satisfied"}
         [] t.phase = "handoff_pending" ->
                Send(t) = {} /\ Settled(t, "file_handoff", "open") /\ t.boundary = "handoff"
         [] t.phase = "ready" ->
                /\ Settled(t, "file_handoff", "satisfied")
                /\ IF Send(t) = {} THEN ~sent
                   ELSE Settled(t, "send", "open") /\ t.boundary = "send"
         [] t.phase = "send_pending" -> Settled(t, "send", "open") /\ t.boundary = "send"
         [] t.phase \in OwnedPhases -> Settled(t, "send", "satisfied") /\ sent
         [] t.phase = "uncertain" ->
                /\ t.boundary = "handoff" =>
                       Settled(t, "file_handoff", "open") \/ Settled(t, "file_handoff", "satisfied")
                /\ t.boundary # "none"
    /\ t.boundary = "handoff" => h # {}
    /\ sent => Send(t) # {}

(***************************************************************************)
(* A submit call: load, resolve and bind the target, stage the composer.   *)
(***************************************************************************)
Begin(h) ==
    /\ At(h, "idle")
    /\ s.phase # "completed"
    /\ snap' = [snap EXCEPT ![h] = s]
    /\ hid' = [hid EXCEPT ![h] = "none"]
    /\ auth' = [auth EXCEPT ![h] = FALSE]
    /\ Go(h, "resolve") \/ Go(h, "rearmResolve")
    /\ UNCHANGED <<journal, browser, tab, opened, prep>>

\* resolveAndBindTarget.  A durable Send uses the durable target; a pending new
\* target without one is refused; otherwise the resolved tab is bound or compared.
ResolveTarget(h) ==
    /\ At(h, "resolve")
    /\ \/ /\ Send(snap[h]) # {}
          /\ tab' = [tab EXCEPT ![h] = snap[h].binding]
          /\ Go(h, "run") /\ UNCHANGED <<s, snap>>
       \/ /\ Send(snap[h]) = {} /\ snap[h].lifecycle # "new_pending"
          /\ \E b \in (IF newTarget THEN Bindings ELSE {FirstTab}) :
                 LET l == IF newTarget THEN "new_pending" ELSE "fixed" IN
                 /\ tab' = [tab EXCEPT ![h] = b]
                 /\ IF (Bound(snap[h]) => snap[h].binding = b) /\ TargetBoundLegal(s, l, b)
                    THEN /\ s' = TargetBound(s, l, b)
                         /\ snap' = [snap EXCEPT ![h] = s']
                         /\ Go(h, "stage")
                    ELSE Go(h, "idle") /\ UNCHANGED <<s, snap>>
       \/ /\ Send(snap[h]) = {}
          /\ Go(h, "idle") \/ Go(h, "blocker")    \* refused, unavailable or cancelled
          /\ UNCHANGED <<s, snap, tab>>
    /\ UNCHANGED <<newTarget, anchor, browser, hid, auth, opened, prep>>

\* stageRequest: only a prepared operation may be staged; anything else that
\* moved meanwhile refuses the staging intent.  The ledger of the staging
\* actions themselves is not kept here.
Stage(h) ==
    /\ At(h, "stage")
    /\ \/ /\ snap[h].phase # "prepared"
          /\ Go(h, "run") /\ UNCHANGED <<page, snap>>
       \/ /\ snap[h].phase = "prepared"
          /\ page[tab[h]].staged \/ s.phase = "prepared"
          /\ page' = [page EXCEPT ![tab[h]].staged = TRUE]
          /\ snap' = [snap EXCEPT ![h] = s]
          /\ Go(h, "run")
       \/ /\ snap[h].phase = "prepared"
          /\ Go(h, "idle") \/ Go(h, "blocker")
          /\ UNCHANGED <<page, snap>>
    /\ UNCHANGED <<journal, handoffs, activated, tab, hid, auth, opened, prep>>

\* The opening of runAtomicSubmission: refuse an incoherent prefix, recover a
\* durable Send by observation, otherwise check the staging.
Run(h) ==
    /\ At(h, "run")
    /\ \/ /\ CoherentSubmission(snap[h], tab[h])
          /\ \/ Send(snap[h]) # {} /\ Go(h, "recover")
             \/ Send(snap[h]) = {} /\ page[tab[h]].staged /\ Go(h, "attach")
             \/ Send(snap[h]) = {} /\ Go(h, "idle")
       \/ ~CoherentSubmission(snap[h], tab[h]) /\ Go(h, "idle")
       \/ snap[h].boundary # "none" /\ Go(h, "blocker")     \* cancelled
    /\ UNCHANGED <<journal, browser, local>>

(***************************************************************************)
(* ensureAttachments.                                                      *)
(***************************************************************************)
\* A durable handoff is observed; only the invocation that committed the rearm
\* intent may hand the files over again.  Without one, an absent manifest leads
\* to an intent, an exact one straight to ready, anything else to a refusal.
Attach(h) ==
    /\ At(h, "attach")
    /\ \/ /\ Handoff(snap[h]) # {}
          /\ hid' = [hid EXCEPT ![h] = TheHandoff(snap[h])]
          /\ \/ Observed(tab[h]) = "exact" /\ Go(h, "receipt")
             \/ Observed(tab[h]) # "exact" /\ auth[h] /\ Go(h, "handoff")
             \/ ~auth[h] /\ Go(h, "blocker")
       \/ /\ Handoff(snap[h]) = {}
          /\ \/ Observed(tab[h]) = "exact" /\ Go(h, "ready")
             \/ Observed(tab[h]) = "absent" /\ Go(h, "intent")
             \/ Go(h, "idle")
          /\ UNCHANGED hid
    /\ UNCHANGED <<journal, browser, snap, tab, auth, opened, prep>>

\* persistActionIntent: re-checked after every conflict, so a handoff another
\* host recorded refuses this one; a lost acknowledgement is found again by id.
HandoffIntent(h) ==
    /\ At(h, "intent")
    /\ \/ \E a \in ActionIds :
             /\ ActionIntentLegal(s, a, "file_handoff", tab[h])
             /\ s' = ActionIntent(s, a, "file_handoff", tab[h])
             /\ hid' = [hid EXCEPT ![h] = a]
             /\ Go(h, "pending")
       \/ UNCHANGED <<s, hid>> /\ Go(h, "idle")
    /\ UNCHANGED <<newTarget, anchor, browser, snap, tab, auth, opened, prep>>

\* The phase is appended when the state the intent was found in is still
\* prepared, which a lost acknowledgement leaves open.
HandoffPending(h) ==
    /\ At(h, "pending")
    /\ \/ PhaseAppend(h, "handoff_pending", hid[h], "handoff", "idle")
       \/ s.phase # "prepared" /\ UNCHANGED s /\ Go(h, "handoff")
    /\ UNCHANGED <<newTarget, anchor, browser, local>>

\* executeFileHandoffOnce: it acts or does not, whatever it reports; a
\* cancellation before the call leaves the intent behind.
ExecuteHandoff(h) ==
    /\ At(h, "handoff")
    /\ \/ /\ page' = [page EXCEPT ![tab[h]].files = @ + 1]
          /\ handoffs' = handoffs + 1
          /\ Go(h, "observe")
       \/ Go(h, "observe") /\ UNCHANGED <<page, handoffs>>
       \/ Go(h, "blocker") /\ UNCHANGED <<page, handoffs>>
    /\ auth' = [auth EXCEPT ![h] = FALSE]
    /\ UNCHANGED <<journal, activated, snap, tab, hid, opened, prep>>

\* The attachments are rendered some time after the handoff.
Render(b) ==
    /\ page[b].seen # page[b].files
    /\ page' = [page EXCEPT ![b].seen = page[b].files]
    /\ UNCHANGED <<journal, handoffs, activated, pc, local>>

ObserveHandoff(h) ==
    /\ At(h, "observe")
    /\ \/ Observed(tab[h]) = "exact" /\ Go(h, "receipt")
       \/ Go(h, "blocker")      \* ambiguous_file_handoff, cancelled
       \/ Go(h, "idle")         \* not satisfied, with the provider's blocker
    /\ UNCHANGED <<journal, browser, local>>

\* persistSubmissionEvidence for the phase: the handoff's receipt, then ready.
\* The phase test precedes it, on the snapshot this run started from.
HandoffReceipt(h) ==
    /\ At(h, "receipt")
    /\ \/ /\ snap[h].phase = "ready"
          /\ Go(h, "prepare") /\ UNCHANGED s
       \/ /\ snap[h].phase \notin {"prepared", "ready", "handoff_pending", "uncertain"}
          /\ Go(h, "idle") /\ UNCHANGED s
       \/ /\ snap[h].phase \in {"prepared", "handoff_pending", "uncertain"}
          /\ \/ /\ ActionReceiptLegal(s, hid[h])
                /\ s' = ActionReceipt(s, hid[h], "satisfied")
                /\ Go(h, "ready")
             \/ /\ s.actions[hid[h]].outcome = "satisfied"
                /\ Go(h, "ready") /\ UNCHANGED s
             \/ Go(h, "blocker") /\ UNCHANGED s
    /\ UNCHANGED <<newTarget, anchor, browser, local>>

Ready(h) ==
    /\ At(h, "ready")
    /\ IF snap[h].phase = "ready" THEN UNCHANGED s /\ Go(h, "prepare")
       ELSE PhaseAppend(h, "ready", hid[h], "prepare",
                        IF hid[h] = "none" THEN "idle" ELSE "blocker")
    /\ UNCHANGED <<newTarget, anchor, browser, local>>

(***************************************************************************)
(* The Send: prepare, persist the intent with its baseline, execute once,  *)
(* verify.                                                                 *)
(***************************************************************************)
PrepareSend(h) ==
    /\ At(h, "prepare")
    /\ \/ /\ prep' = [prep EXCEPT ![h] = page[tab[h]].turns]
          /\ Go(h, "persist")
       \/ Go(h, "idle") /\ UNCHANGED prep
       \/ hid[h] # "none" /\ Go(h, "blocker") /\ UNCHANGED prep
    /\ UNCHANGED <<journal, browser, snap, tab, hid, auth, opened>>

\* Mutant: the intent names the durable target, the envelope's is not compared.
PersistSendUnbound(h) ==
    /\ At(h, "persist")
    /\ \/ \E a \in ActionIds :
             /\ ActionPreparedLegal(s, a, "send", s.binding)
             /\ s' = ActionPrepared(s, a, "send", s.binding)
             /\ anchor' = prep[h]
             /\ Go(h, "sendPhase")
       \/ Send(s) # {} /\ Go(h, "idle") /\ UNCHANGED journal
    /\ UNCHANGED <<newTarget, browser, local>>

\* persistPreparedSend: the target is compared with the freshly loaded state,
\* a Send of another host makes this one stale, and only an acknowledged append
\* may lead to an execution.
PersistSend(h) ==
    /\ At(h, "persist")
    /\ \/ /\ s.binding = tab[h]
          /\ \E a \in ActionIds :
                /\ ActionPreparedLegal(s, a, "send", tab[h])
                /\ s' = ActionPrepared(s, a, "send", tab[h])
          /\ anchor' = prep[h]
          /\ Go(h, "sendPhase") \/ Go(h, "lostSend")
       \/ /\ s.binding = tab[h] /\ Send(s) = {}
          /\ \A a \in ActionIds : ~ActionPreparedLegal(s, a, "send", tab[h])
          /\ Go(h, "blocker") /\ UNCHANGED journal
       \/ /\ s.binding # tab[h] \/ Send(s) # {}
          /\ Go(h, "idle") /\ UNCHANGED journal
    /\ UNCHANGED <<newTarget, browser, local>>

SendPhase(h) ==
    /\ At(h, "sendPhase")
    /\ PhaseAppend(h, "send_pending", TheSend(s), "execute", "recover")
    /\ UNCHANGED <<newTarget, anchor, browser, local>>

\* The acknowledgement of the append was lost: the action is durable, and this
\* invocation is observation-only.
LostSend(h) ==
    /\ At(h, "lostSend")
    /\ \/ s.phase = "ready" /\ PhaseAppend(h, "send_pending", TheSend(s), "recover", "blocker")
       \/ s.phase # "ready" /\ Go(h, "recover") /\ UNCHANGED s
    /\ UNCHANGED <<newTarget, anchor, browser, local>>

\* executePreparedSend rechecks composer, attachments and turns in the tab
\* transaction that activates the button, and may throw after or before it.
ExecuteSend(h) ==
    /\ At(h, "execute")
    /\ \/ /\ page[tab[h]].staged /\ page[tab[h]].seen = 1 /\ page[tab[h]].turns = prep[h]
          /\ page' = [page EXCEPT ![tab[h]] =
                         [staged |-> FALSE, files |-> 0, seen |-> 0, turns |-> prep[h] + 1]]
          /\ activated' = Append(activated, tab[h])
          /\ Go(h, "verify")
       \/ Go(h, "verify") /\ UNCHANGED <<page, activated>>
       \/ Go(h, "blocker") /\ UNCHANGED <<page, activated>>    \* cancelled
       \/ Go(h, "idle") /\ UNCHANGED <<page, activated>>       \* blocked by the recheck
    /\ UNCHANGED <<journal, handoffs, local>>

\* verifyPreparedSend and recoverSend read the page against the baseline and may
\* fail to see a turn that is there, never see one that is not.
Verify(h) ==
    /\ At(h, "verify") \/ At(h, "recover")
    /\ \/ page[tab[h]].turns > anchor /\ Go(h, "establish")
       \/ Go(h, "blocker")
       \/ At(h, "recover") /\ Go(h, "idle")
    /\ UNCHANGED <<journal, browser, local>>

(***************************************************************************)
(* finishObserved: establish a new target, then witness, receipt, phase.   *)
(***************************************************************************)
Establish(h) ==
    /\ At(h, "establish")
    /\ LET a == TheSend(s) IN
       \/ /\ snap[h].lifecycle = "new_pending"
          /\ s.binding = tab[h] /\ TargetEstablishedLegal(s, a)
          /\ s' = TargetEstablished(s, NewTurn)
          /\ Go(h, "witness")
       \/ /\ snap[h].lifecycle # "new_pending" \/ s.establishedTurn = NewTurn
          /\ Go(h, "witness") /\ UNCHANGED s
       \/ snap[h].lifecycle = "new_pending" /\ Go(h, "blocker") /\ UNCHANGED s
    /\ UNCHANGED <<newTarget, anchor, browser, local>>

\* The witness; the Send outcome this call goes by is the one loaded before it.
Witness(h) ==
    /\ At(h, "witness")
    /\ LET a == TheSend(s) IN
       /\ opened' = [opened EXCEPT ![h] = s.actions[a].outcome = "open"]
       /\ \/ /\ SubmissionWitnessLegal(s, a, NewTurn)
             /\ s' = SubmissionWitness(s, a, NewTurn)
             /\ Go(h, IF s.phase = "ready" THEN "repair" ELSE "sendReceipt")
          \/ Go(h, "blocker") /\ UNCHANGED s
    /\ UNCHANGED <<newTarget, anchor, browser, snap, tab, hid, auth, prep>>

\* The gap between the Send intent and its phase: step over it, or around it
\* through uncertain when the Send is already receipted.
Repair(h) ==
    /\ At(h, "repair")
    /\ PhaseAppend(h, IF opened[h] THEN "send_pending" ELSE "uncertain", TheSend(s),
                   "sendReceipt", "blocker")
    /\ UNCHANGED <<newTarget, anchor, browser, local>>

SendReceipt(h) ==
    /\ At(h, "sendReceipt")
    /\ LET a == TheSend(s) IN
       \/ /\ opened[h] /\ ActionReceiptLegal(s, a)
          /\ s' = ActionReceipt(s, a, "satisfied")
          /\ Go(h, "submitted")
       \/ /\ ~opened[h] \/ s.actions[a].outcome = "satisfied"
          /\ Go(h, "submitted") /\ UNCHANGED s
       \/ Go(h, "blocker") /\ UNCHANGED s
    /\ UNCHANGED <<newTarget, anchor, browser, local>>

Submitted(h) ==
    /\ At(h, "submitted")
    /\ PhaseAppend(h, "submitted", TheSend(s), "idle", "blocker")
    /\ UNCHANGED <<newTarget, anchor, browser, local>>

\* persistReturnedSubmissionBlocker with one of UNCERTAIN_SUBMISSION_BLOCKERS
\* and a crossed boundary: best effort, from whatever phase is durable by now.
PersistBlocker(h) ==
    /\ At(h, "blocker")
    /\ \/ /\ s.phase \notin {"uncertain", "completed"} /\ s.boundary # "none"
          /\ s' = PhaseChange(s, "uncertain")
       \/ UNCHANGED s
    /\ Go(h, "idle")
    /\ UNCHANGED <<newTarget, anchor, browser, local>>

(***************************************************************************)
(* submitWithAttachmentRearm: one supervised recovery of an indeterminate  *)
(* handoff, on a replacement tab.                                          *)
(***************************************************************************)
RearmEligible(t) ==
    /\ t.phase = "uncertain" /\ t.boundary = "handoff" /\ t.lifecycle = "new_pending"
    /\ Settled(t, "file_handoff", "open") /\ Send(t) = {}

\* authorizeAttachmentRearm appends at the revision it was loaded with.
RearmAuthorize(h) ==
    /\ At(h, "rearmResolve")
    /\ \/ /\ RearmEligible(snap[h])
          /\ \E b \in Bindings :
                /\ tab' = [tab EXCEPT ![h] = b]
                /\ \/ /\ snap[h].rearm # "none" /\ snap[h].binding = b
                      /\ UNCHANGED <<s, snap>>
                   \/ /\ snap[h].rearm = "none" /\ s = snap[h]
                      /\ s' = RearmAuthorized(s, b)
                      /\ snap' = [snap EXCEPT ![h] = s']
          /\ Go(h, "rearmStage")
       \/ /\ Go(h, "idle") \/ Go(h, "blocker")
          /\ UNCHANGED <<s, snap, tab>>
    /\ UNCHANGED <<newTarget, anchor, browser, hid, auth, opened, prep>>

\* Staging on the replacement tab, skipped once the attempt is spent.
RearmStage(h) ==
    /\ At(h, "rearmStage")
    /\ \/ /\ snap[h].rearm = "attempted"
          /\ Go(h, "run") /\ UNCHANGED <<page, snap>>
       \/ /\ snap[h].rearm = "authorized"
          /\ page[tab[h]].staged \/ RearmStaging(s, "composer_set", tab[h])
          /\ page' = [page EXCEPT ![tab[h]].staged = TRUE]
          /\ snap' = [snap EXCEPT ![h] = s]
          /\ Go(h, IF s.rearm = "attempted" THEN "run" ELSE "preflight")
       \/ /\ Go(h, "idle") \/ Go(h, "blocker")
          /\ UNCHANGED <<page, snap>>
    /\ UNCHANGED <<journal, handoffs, activated, tab, hid, auth, opened, prep>>

\* preflightAttachmentRearm reads, and only an absent manifest spends the attempt.
Preflight(h) ==
    /\ At(h, "preflight")
    /\ \/ /\ Send(snap[h]) = {} /\ CoherentSubmission(snap[h], tab[h]) /\ page[tab[h]].staged
          /\ \/ Observed(tab[h]) = "exact" /\ Go(h, "run")
             \/ Observed(tab[h]) = "absent" /\ Go(h, "rearmIntent")
             \/ Go(h, "blocker")
       \/ Go(h, "idle")
    /\ UNCHANGED <<journal, browser, local>>

\* Mutant: finding the intent durable is taken for having committed it.
RearmAttemptShared(h) ==
    /\ At(h, "rearmIntent")
    /\ \/ s = snap[h] /\ RearmIntentLegal(s, TheHandoff(s)) /\ s' = RearmIntent(s)
       \/ s.rearm = "attempted" /\ UNCHANGED s
    /\ auth' = [auth EXCEPT ![h] = TRUE]
    /\ snap' = [snap EXCEPT ![h] = s']
    /\ Go(h, "run")
    /\ UNCHANGED <<newTarget, anchor, browser, tab, hid, opened, prep>>

\* appendAttachmentRearmIntent: only the acknowledged append grants authority;
\* a lost acknowledgement or another host's intent does not.
RearmAttempt(h) ==
    /\ At(h, "rearmIntent")
    /\ \/ /\ s = snap[h] /\ RearmIntentLegal(s, TheHandoff(s))
          /\ s' = RearmIntent(s)
          /\ \E acknowledged \in BOOLEAN : auth' = [auth EXCEPT ![h] = acknowledged]
          /\ snap' = [snap EXCEPT ![h] = s']
          /\ Go(h, "run")
       \/ /\ s.rearm = "attempted"
          /\ snap' = [snap EXCEPT ![h] = s]
          /\ Go(h, "run") /\ UNCHANGED <<s, auth>>
       \/ Go(h, "idle") /\ UNCHANGED <<s, snap, auth>>
    /\ UNCHANGED <<newTarget, anchor, browser, tab, hid, opened, prep>>

\* The host stops, or a failed append ends its call, after any step.
Crash(h) ==
    /\ ~At(h, "idle")
    /\ Go(h, "idle")
    /\ auth' = [auth EXCEPT ![h] = FALSE]
    /\ UNCHANGED <<journal, browser, snap, tab, hid, opened, prep>>

Next ==
    \/ \E h \in Hosts :
        \/ Begin(h) \/ ResolveTarget(h) \/ Stage(h) \/ Run(h)
        \/ Attach(h) \/ HandoffIntent(h) \/ HandoffPending(h) \/ ExecuteHandoff(h)
        \/ ObserveHandoff(h) \/ HandoffReceipt(h) \/ Ready(h)
        \/ PrepareSend(h) \/ PersistSend(h) \/ SendPhase(h) \/ LostSend(h)
        \/ ExecuteSend(h) \/ Verify(h) \/ Establish(h) \/ Witness(h) \/ Repair(h)
        \/ SendReceipt(h) \/ Submitted(h) \/ PersistBlocker(h)
        \/ RearmAuthorize(h) \/ RearmStage(h) \/ Preflight(h) \/ RearmAttempt(h)
        \/ Crash(h)
    \/ \E b \in Bindings : Render(b)

Spec == Init /\ [][Next]_vars

-----------------------------------------------------------------------------
\* Type correctness of the durable record, the page and the hosts' locals.
TypeOK ==
    /\ newTarget \in BOOLEAN /\ s \in OperationStates
    /\ page \in [Bindings -> [staged: BOOLEAN, files: 0..2, seen: 0..2, turns: 0..1]]
    /\ pc \in [Hosts -> Steps] /\ snap \in [Hosts -> OperationStates]
    /\ tab \in [Hosts -> Bindings] /\ hid \in [Hosts -> ActionIds \cup {"none"}]
    /\ auth \in [Hosts -> BOOLEAN] /\ opened \in [Hosts -> BOOLEAN]
    /\ prep \in [Hosts -> 0..1] /\ anchor \in 0..1
    /\ handoffs \in 0..2 /\ activated \in Seq(Bindings)

Promise == INSTANCE SendOnce WITH
    Targets <- Bindings, NoTarget <- "none",
    intended <- IF Send(s) = {} THEN "none" ELSE s.actions[TheSend(s)].target,
    proven <- s.phase \in OwnedPhases

\* The submit path keeps the promise of SendOnce: intent before activation, one
\* activation in the intended tab over all hosts, crashes and retries, and a
\* submission reported only once it happened.
SendsOnce == Promise!Spec

\* Files are handed to the page at most once over all hosts and retries, and
\* once more only after the one-use recovery intent was spent.
HandoffBudget == handoffs <= IF s.rearm = "attempted" THEN 2 ELSE 1

\* A Send is never recorded over a handoff that nobody has proven, whichever
\* hosts recorded, observed and sent.
SendFollowsProvenHandoff ==
    Send(s) # {} => \A a \in Handoff(s) : s.actions[a].outcome = "satisfied"

\* A durable Send without a receipt can always be taken up again: the next
\* submit accepts the journal's prefix and goes on to observe.  The operation
\* handed its own files over and was not rearmed; both restrictions are needed.
OpenSendRecoverable ==
    s.rearm = "none" /\ Handoff(s) # {} /\ Settled(s, "send", "open") =>
        CoherentSubmission(s, s.binding)

(***************************************************************************)
(* A claim of the repository that the code does not keep.                  *)
(***************************************************************************)
\* submission.ts: a stop after the handoff's intent or its satisfied receipt and
\* before handoff_pending or ready leaves a prefix that "must resume through
\* observation only", so the next submit has to accept it.
HandoffPrefixResumable ==
    s.rearm = "none" /\ Send(s) = {} /\ s.phase \in {"prepared", "handoff_pending"} =>
        CoherentSubmission(s, s.binding)
=============================================================================
