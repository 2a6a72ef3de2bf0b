# A TLA+ model of transactional ChatGPT operations

codex-chatgpt-control drives the ChatGPT web page through a browser bridge.
Its core is the *transactional operation*: one user turn, identified by an
`operationId`, whose every irreversible step (a file handoff, the Send, a Stop,
a steer, an artifact written to disk) is preceded by a durable intent, so that
after a crash, a lost answer or a concurrent retry the next caller can observe
what happened instead of doing it again.  This directory models that core in
TLA+, model-checks it with TLC and proves most of its safety properties with TLAPS.

Paths below are relative to `src/packages/node/src/operations/` unless they
start with another directory.

## 1. The system

| component | state it keeps | operations | what makes it hard | what makes it correct |
|---|---|---|---|---|
| Operation reducer (`state-machine.ts`, `types.ts`) | one operation: phase, mutation boundary, target binding, action ledger, ownership baselines and witnesses, recovery, transfers, terminal receipt | `applyOperationEvent` on 15 event types | uncertain episodes go back to earlier phases; events of several hosts interleave; only single events are checked | a state reached event by event is coherent as a whole; evidence is never taken back; one Send, one handoff; the terminal receipt accounts for every transfer |
| Submission (`submission.ts`) | none of its own; works on a snapshot | `runAtomicSubmission`, `preflightAttachmentRearm` | resumes any durable prefix; the page is read and acted on between appends | at most one Send and one handoff; every prefix a crash leaves can be resumed |
| Service (`service.ts`) | none durable; per call a loaded snapshot and a target envelope | `submit`, `submitWithAttachmentRearm`, `collect`, `control`, artifact persistence | convergent appends against concurrent hosts, lost acknowledgements, stale snapshots | an execution follows only an acknowledged intent of the same call |
| Control (`control.ts`, `production-work-steer.ts`) | none | Stop, steer | retries of an id whose first call is still running | a control action is executed once and its receipt tells what happened |
| Collector (`collector.ts`, `turn-ownership.ts`, `recovery.ts`) | page observations of the owned turn | `collectOperation` | the page streams; steers move the turn; a takeover host collects | only the owned turn is reported, and only once it is final |
| Journal (`journal.ts`, `journal-authority.ts`) | per operation: lock file, recovery guard, log, snapshot, terminal, tombstone; for all of them the quota counter | create, append, load, refresh, compact, prune, purge | two processes, abandoned locks, torn writes, a death between two renames, entries that power takes back | one process at a time under the lock; no acknowledged event is lost; a trusted counter is exact |
| Journal RPC (`journal-rpc-*.ts`) | requests in flight | the journal's calls over a stream | a call commits and its answer is lost | lost answers are reported as lost, never as failures |
| Tab coordinator (`runtime/tab-coordinator.ts`, `coordinated-*.ts`) | per browser a gate, per browser and tab an actor with a queue, bursts counted per priority | `withBrowserAcquisition`, `withTabTransaction`, abort, deadline | timeouts while a callback still acts on the page; actors and gates dropped and made again; priorities | one browser turn alone or one turn per tab; reservations add up; nobody starves |
| Backend client and server (`backend/`) | routes, admissions, single-flight line, queue of stdin writes, tombstones, quarantine | request, stream, cancel, close; negotiation; recycling of the sidecar | cancel races the answer, late and stray lines, writes that outlive their sidecar, ids used again | every request settles once; a late answer settles nobody else; admissions add up |
| Browser adapter, Send primitive (`browser-adapter.ts`, `send-once.ts`, ...) | none | observe, stage, attach, prepare, execute, verify | the page can change between two reads | the recheck and the activation are one page transaction |
| Staging and artifact transfer (`staging.ts`, `artifact-*.ts`) | staged files, installed artifacts | stage, stream, install | a partial write, an existing destination | nothing is overwritten; what is reported transferred is installed |
| Client, handles, wire contract (`client.ts`, `handle.ts`, `wire-*.ts`, `canonical.ts`) | handle tokens | typed calls and errors | — | validation only |
| Production providers (`production-*.ts`, `chatgpt-runtime.ts`) | none | DOM work behind the adapter's ports | the live page | — |
| Runtime session, routing (`runtime/`) | session to tab binding | attach, resolve | several sessions | — |
| Command layer, runner, selectors, browser I/O, safety, Python mirror, plugin bundle | — | direct automation, agent loop, text matching, bundles | — | outside the transactional core |

**How they interact.**  A caller reaches `OperationService` directly or through
the backend server.  The service loads the operation from the journal (in
process or over the journal RPC), resolves a tab, runs the submission,
control or collector code against the browser adapter, whose every call is one
transaction of the tab coordinator, and appends events.  Hosts share nothing
but the journal and the page: any number of processes may work on one
operation, each append is a compare-and-swap on the journal's revision, and
page transactions of different tabs are not ordered.

**What is hard.**  Two hosts between check and append; an append that commits
and whose answer is lost; a host that stops between two appends and another one
resuming its prefix; a snapshot read before an append and used after it; a
target that is superseded while the old host still runs.  `PROJECT.json` lists
these hazards at their lines, with the properties that watch them.

## 2. The modules

| module | models | state |
|---|---|---|
| `OperationReducer` | `state-machine.ts`: for each event a guard `XLegal` (when `applyOperationEvent` accepts it) and the record `X` it returns | none: operators over an operation record |
| `OperationState` | one operation under any order of events (any number of hosts and crashes, since nothing in the journal orders them) | `s`, the record all replays agree on |
| `OperationStateProofs` | the proofs about it: types, coherence, and what no event may take back | |
| `OperationRecovery` | what `recovery.ts` tells a restarted caller, as operators over the record of `OperationState` | none of its own |
| `OperationRecoveryProofs` | the proofs that it never authorizes a replay and always decides | |
| `SendOnce` | abstract specification of the Send: intent, activation, report | `intended`, `activated`, `proven` |
| `Submission` | `submit` and `submitWithAttachmentRearm`, with `submission.ts` and the adapter's ports, for several hosts on one journal and one browser | durable `s`, `anchor`; browser `page`; per host `pc` and its local variables; histories `handoffs`, `activated` |
| `SubmissionProofs` | its invariants, that its journal is one the reducer accepts, and that it implements `SendOnce` | |
| `Control` | `control` and the terminal half of `collect` of a generating operation, with `control.ts`, the phases of a Work steer and the ownership choice, for several hosts on one journal and one conversation | durable `s`, `ranked`, `base`; the conversation `page`; per id `expects`; per host `host`; histories `stops`, `answer` |
| `ControlProofs` | its invariants | |
| `ExclusiveSection` | abstract specification of a lock: one process at a time | `inside` |
| `JournalLock` | the lock file of one operation, its recovery guard, reclaiming and release, for any number of processes | the files `lock`, `guard`, `moved`; `pids`; per process `pc`, `seen`, `budget`, `after` |
| `JournalLockProofs` | its invariant, and that it implements `ExclusiveSection` | |
| `OperationRecord` | what the journal promises about one operation to whoever asks | `record`, `requests`, `excused` |
| `Journal` | the files of one operation and the quota counter under every journal call | `disk`, `stable` (what power leaves), `temps`, `counter`, the `call` underway; histories |
| `JournalProofs` | its invariants, and that it implements `OperationRecord` | |
| `TabCoordinator` | the actors and gates of one browser | per request `pc`, `gateOf`; `actors`, `gates`, `current` |
| `TabCoordinatorProofs` | its invariants | |
| `BackendTransport` | the client transport, the pipes and the loop of the sidecar | handshake, routes, admissions, `writes`, `tombstones`; `pipe`, `tasks`, `out` |
| `BackendTransportProofs` | its invariants | |
| `MC...` | the instances TLC checks; `BackendTransport` is instantiated by its `.cfg` alone | |

`Submission` and `Control` take the record, the guards and the effects of every
append from `OperationReducer`, so the levels cannot drift apart: `OperationState`
asks what the reducer permits, the other two what the callers make of it.
`Control` starts where `Submission` ends, at a proven Send whose answer is being
generated.  Both take two things for granted that the layers below are checked
for: an append is atomic, which is `JournalLock` (only one process works on an
operation's files) together with `Journal` (what was acknowledged stays), and a
page transaction is atomic, which is `TabCoordinator`.  `BackendTransport` is the
road by which a caller in another process gets there.

### How OperationRecovery corresponds to the code

`Decisions(o, target, turn)` is `decideOperationRecovery` for a durable record
`o`, one of the three sights of the target and one of the five of the turn; a
decision is its kind and the action or code it names.  `Pending` is
`pendingNonRepeatableAction`, which counts an intent before its phase event is
appended, and `Latest` is `latestAction`.  The record keeps no revisions, so
`Latest` orders by boundary (a handoff precedes the Send, the Send every control)
and returns all controls together: `Decisions` is a set, and the properties hold
for each member.  The branches of the code that no record can reach because a
pending intent was answered before are not repeated in `PhaseDecision`.

### How Submission corresponds to the code

Each action is one journal append or one page transaction of one host, the
atomic units of the program.  The names follow the call:
`Begin` (load), `ResolveTarget` (`resolveAndBindTarget`), `Stage`
(`stageRequest`), `Run` (opening of `runAtomicSubmission`), `Attach`,
`HandoffIntent`, `HandoffPending`, `ExecuteHandoff`, `ObserveHandoff`,
`HandoffReceipt`, `Ready` (`ensureAttachments` and the appends it causes),
`PrepareSend`, `PersistSend`, `SendPhase` or `LostSend`, `ExecuteSend`,
`Verify`, then `Establish`, `Witness`, `Repair`, `SendReceipt`, `Submitted`
(`finishObserved` and `persistSubmissionEvidence`), `PersistBlocker`, and for
the supervised recovery `RearmAuthorize`, `RearmStage`, `Preflight`,
`RearmAttempt`.  `Crash` ends a host's call after any step: it stands for a
process that stops, an append that fails, and an exception that ends the call.
`Render` is the page's own delay in showing attached files.

Abstractions, all of them towards more behaviour unless noted:

* An append through a convergent loop (load, test the effect, append at the
  loaded revision, retry) takes effect at one instant, so it is one step; an
  append whose acknowledgement decides what follows has both outcomes.
* A page observation may miss what is there and never invents what is not; an
  execution acts at most once per call, whatever it then reports.
* Digest and evidence conflicts, provider blocks and cancellations are
  nondeterministic failures of the step they occur in.
* Action ids are random in the code: a new action takes any unused id.
* The operation exists from the start (`ensureCreated` is folded into `Init`);
  the composer may already hold the exact files.
* Narrower than the code: the ledger of the reversible staging actions
  (`composer_set` and its kin) is reduced to the composer's state; the witness
  append inside `establishTarget` happens in the next step; an append that
  reaches the journal after its client died is not modelled; nobody else types
  into the conversation; only operations with attachments are submitted.
* In the reducer four staging kinds share every rule and are one
  (`composer_set`), and `clipboard_capture_restore` is one with `download`.
  Timestamps, digests, length limits and revisions are left out.

### How Control corresponds to the code

A host runs one call at a time.  `Begin` reads the parent (`readControlParent`,
`validateParentSnapshot`) and takes one of four paths.  A new Stop goes through
`ObserveTurn`, `StopIntent`, `ExecuteStop`, `SettleStop`, `ReceiptControl`, a known
one starts at `SettleStop` (`reconcileExisting`).  A new steer goes through
`PrepareSteer`, `PersistSteer`, `RecheckSteer`, `ClickSteer`, `VerifySteer`,
`WitnessSteer`, `ReceiptControl`, a known one starts at `VerifySteer`
(`reconcileExistingSteer`).  Collection is `CollectRead`, `CollectObserve`,
`PersistTerminal`, `AdvanceToCapturing`, `CompleteReceipt`.  `End` ends the call
after any step.  `AnswerEnds` and `HumanTypes` are the provider and the user, who
may also act between the recheck of a steer and its click.

* A turn is a user message with its answer, named by the action that made it.
  Turns are only added, so an ownership baseline is the length of the
  conversation it saw, and the delta that `exactPostcondition` and
  `classifyTurnOwnership` demand is one turn after it.
* The tab actor keeps a page transaction of one process apart from the others.
  The steer's recheck and click are two steps, to let the user act between
  them; `TabFree` keeps the other hosts out when they share a process
  (`OneProcess`), as the reference describes the actor (lines 369-391).
* The Stop button that is clicked belongs to whatever is generating by then; the
  click may or may not end it.  The postcondition looks at the named turn: it is
  satisfied only when that turn is found and does not generate; one that is not
  found is not satisfied (`observeControlPostcondition`), so `SettleStop` may report
  that of any turn.
* The instants of two calls differ, hence `WitnessSteer` never meets an equal
  witness that is already durable.
* `HumanTurns` is the set of messages the user may type, each of them once.
* `Readable` is `assertOperationStateShape` on the record a call loads.  It
  refuses one in which a rejected steer has a witness, which two hosts can append
  (see section 6); no call goes on from such a record.  `UnreadableOnlyByMiscredit`
  says when it comes to that.
* Left out: artifact transfers (they are events of `OperationState`), polling,
  branches and regenerated answers, response content.

### How JournalLock corresponds to the code

One action per file system call or pid probe: `Create`, `Write`, `Unwind`
(`acquireLock` and `removeFailedExclusiveLock`), `Inspect`, `Probe`, `Wait` (its
loop after `EEXIST`), `Guard` to `GuardProbe` (`tryAcquireRecoveryGuard`),
`Reread`, `Move`, `CheckMoved` (`quarantineAbandonedLock`), `ReadGuard`,
`UnlinkGuard` and `Leave`, `ReadOwn`, `Unlink` (`releaseLock` twice).  A file is
the set of its claims, empty when it does not exist; a claim exists before it is
written.  `Die` stops a process before any step and `ReusePid` gives its pid to
somebody else or takes it back.  `HostOf` and `Opaque` are the two reasons for
which `processExists` is not asked (another host name, a claim of an unprobeable
pid).  A failing read or unlink ends the call like an error of the step does;
what is left then is what a death leaves, and is reached that way.

A token is a process and a number it draws from `Numbers`, never the one of its
call before.  `Numbers = Nat` covers the code's tokens, which never repeat; with two
numbers the tokens of one process alternate, which is a case the code does not
have and only makes claims easier to confuse.  `Restless` processes call any number of
times, the others once: nothing bounds how often the lock is taken and given back.

### How Journal corresponds to the code

The lock makes calls sequential, so there is at most one `call`, a list of
changes to files, each bracketed by `QuotaOpen` and `QuotaClose`
(`mutateQuotaTrackedState`).  Between them stand the single file system calls of
`appendRecord` (`Truncate`, `Write`, `Sync`), of `writeAtomicJson` (`WriteTemp`,
`Link`, `RemoveTemp`, `SyncDirectory`) and of `removeQuotaTrackedFile` (`Unlink`).
`Fail` ends a call with an exception, `Die` with the process, `PowerLoss` with the
machine: then each file is what was synced, what was written, or for a log
anything between, with a torn line at its end.  `disk` is what processes read,
`stable` what power leaves.  `told` is the last answer any call gave.

* A terminal or a log is the sequence of its events, of which only the life of
  the files depends: `created`, `work`, `done`, `withheld`.  A file's size is the
  number of its parts.
* Reading and checking at the start of a call is one step: nobody else writes
  these files, and only their fingerprints matter to the counter.
* The code treats an entry it can see as durable.  Where it does so without a
  sync of its own, the history `relied` says so, and `RecordIsKept` and
  `NeverCorrupt` claim nothing if power fails after that; `CompactedIsDurable`
  (section 6) is the one such place that a comment of the code speaks about.
* The usage of other operations is constant, and power failures between a
  change of the counter and its own sync are covered by `power = "kept"` in
  `QuotaIsExact`.

### How TabCoordinator corresponds to the code

An action is what happens between two awaits.  `Enqueue` is
`ProcessTabCoordinator.enqueue` with its reservation and `maybeCleanupGate`,
`Drain` and `GateDrain` are the microtasks `scheduleDrain` queues (one of an actor,
one of the gate), `Call` and `Finish` the two halves of `execute`.  `Abandon` and
`Abort` are `handleAbort`, `handleDeadline` and `removeExpiredQueued` before and
after the start of a request.  An actor that is not in its map is a new one
(`NewActor`); gate objects have names, because a request keeps the gate it was
admitted by.  `Age` is the passing of `maxWaitMs`.  Reentrant acquisitions are
rejected before any state changes and do not appear; counts of completed and
rejected requests are left out.

### How BackendTransport corresponds to the code

`Request`, `Cancel`, `Close` are the methods of that name (a stream goes through
`Connect`, since it asks for the handshake in a microtask), `EnsureHandshake`,
`Answered`, `Negotiated` the negotiation with its legacy probes, `Proceed`,
`GetInLine`, `TakeSlot`, `Issue` the way of a call from its admission to its route,
`BeginWrite`, `WriteDone`, `WriteFails` the queue of stdin writes, `ReadLine` the
lines of the sidecar with `handleResponse` and `handleEvent`, `Timeout`,
`ControlTimeout`, `GraceEnds` the timers, `Exit` the end of the child.  `Recycle` is
`terminate` or `handleProcessFailure` with `failAll`.  `ServerRead`, `ServerEmit`,
`ServerAnswer` are the sidecar's loop; `ServerStray` is a sidecar that writes a line
for an id the client never used.

* A call is its id and a number, so that the model can tell two calls apart that
  the code cannot; `mixed` records when the code took one for the other.
* `HasRoute` is `isWriteRouteActive`, which finds a route of either kind by its id.
  The error of a write is looked up among the routes of its own kind only
  (`CatchFinds`).
* `Quiet`: Node runs promise continuations before it handles the next line, timer
  or write callback.  So an event waits until no continuation is left.
* The write callback of a line precedes the arrival of the line at the other
  side, which makes an answer and the release of its id in the sidecar one step.
* The ids of all probes are one, `Control`, with the probe's number.
* Narrower than the code: a caller reuses an id when the rejection of its
  predecessor has reached it, not in the same turn of the event loop; in the run
  `backend` it also waits for an unsettled write of that id (`ReuseAtOnce`, see
  section 6).  Byte limits, frame errors and malformed lines end in the same
  recycling as `Exit`.

`CallerOutcome` in `OperationState` deserves a word.  The reducer accepts
receipts that `assertOperationStateShape` would later reject: an `uncertain` or
`not_satisfied` Send, or an `uncertain` steer, after its baseline.  The unit
tests document the acceptance (`operations-state-machine.test.ts:516-576`).  No
caller writes such a receipt (`persistControlReceipt`, `persistProgress`,
`persistSubmissionEvidence`), so receipts are restricted to what callers write.
A rejected steer is not excluded, whether it has a witness or not: a caller does
write that receipt (section 6).

## 3. The runs

| run | instance | what it shows |
|---|---|---|
| `reducer` | 3 action ids, 2 targets, 2 user turns, 1 artifact, 2 destinations, both capture policies (234 272 states) | no order of accepted events takes evidence back (`EvidenceIsImmutable`), rebinds a target other than by the one-use recovery (`TargetReplacedOnlyByRearm`), reaches a record that fails one of the tests of the snapshot validator, the refusal of a rejected steer with a witness excepted (`Coherent`), completes with a transfer unaccounted for (`TerminalAccountsForTransfers`) or reopens a completion (`CompletionIsFinal`); in each of these records, whatever is seen of target and turn, a restarted caller may go on preparing only if nothing non-repeatable is recorded that it could repeat (`RecoveryNeverReplays`), is not left without a decision and follows a turn only after a recorded Send (`RecoveryDecides`) |
| `submission` | 2 hosts, 2 tabs, 2 action ids, an existing thread or a new conversation (1 381 807 states up to symmetry) | `SendsOnce`: Submission implements `SendOnce`; one handoff per budget (`HandoffBudget`); an open Send can be resumed (`OpenSendRecoverable`) and follows a proven handoff (`SendFollowsProvenHandoff`) |
| `control` | 2 hosts of one process, 2 steers, 1 Stop id, 1 message of the user (682 779 states) | a steer is typed at most once, behind its baseline, and a rejected one never was (`SteersAreFenced`); two steers are never unresolved together (`OneUnresolvedSteer`); the answer an operation completes with is not superseded (`AnswerIsCurrent`); a Stop reported satisfied is true (`StopReportsAreTrue`); the ledger becomes unreadable only after a steer was credited with a turn that is not its own (`UnreadableOnlyByMiscredit`) |
| `lock` | 3 processes of one host, one of them unprobeable, one that takes the lock again and again, 2 numbers, 1 sleep (966 645 states) | `SectionIsExclusive`: JournalLock implements `ExclusiveSection`; nobody changes the claim of a living owner (`LiveClaimIsKept`); only the examined claim of a dead one is moved (`MovesOnlyTheAbandoned`); a call ends, unless it finds over and over that the lock is gone which was there for its creation (`AcquireEnds`) |
| `journal` | 1 operation, 3 events, 1 temporary file (381 243 states) | `RecordIsKept`: later answers extend earlier ones; `NeverCorrupt`: the code's own cross-checks never fail; `QuotaIsExact` |
| `tabs` | 1 browser request, 2 tabs with 3 requests and 1, every limit 1, queues of 2 (36 314 states) | `OneTurn`, `GateAccounts`, at most `MaxConsecutiveBrowserExclusives` browser turns pass a waiting tab (`PassedBounded`), every accepted request ends (`EveryRequestEnds`) |
| `backend` | 2 ids with 2 calls each, unary or stream, every greeting, 1 tombstone, 2 writes, 1 stray line (163 390 states) | a call is settled on its own account (`OwnAnswers`), the sidecar sees no duplicate id (`NoDuplicate`), admissions add up and leave room for the negotiation (`AdmissionsAccount`), a new sidecar inherits no write (`NoInheritedWrite`), every call settles (`EveryCallSettles`) |
| `handoff_prefix` | Submission | counterexample, see section 6 |
| `stop_once` | 2 hosts, 1 Stop id | counterexample, see section 6 |
| `witnessed_steer` | 1 host, 1 steer, `FairSpec` | counterexample, see section 6 |
| `durable` | `journal` without its constraint | counterexample, see section 6 |
| `mixup` | `backend` with `ReuseAtOnce` | counterexample, see section 6 |

**Bounds, and why they are enough.**  A hazard of the submit path needs one
host that acted and one that did not see it: two hosts; more of them only
repeat one of the two roles, and `Crash` followed by `Begin` turns a host into
a fresh one as often as needed, so the number of calls is not bounded.  Two
tabs are the original and the replacement; the reducer allows one replacement.
Two action ids suffice in `Submission`, where an operation has one handoff and
one Send, and a third attempt has to be refused by the guard, not by the bound
(an id that is left over is one the guard refused).  In the reducer a third id
lets a Send, a steer and a Stop, or a Send and two transfers, coexist.  No counter is
bounded artificially: in `Submission`, `page.turns`, `files`, `handoffs` and `activated` have
small ranges in `TypeOK` because the protocol keeps them there, which the runs
check.  In `Control` the second steer is the one that must wait for the first and the one
that moves the owned turn again; ids are reused by any number of calls; one
message of the user suffices to come between any two steps.  The theorems speak of
one process and of several.
In `lock` the third process is the one that takes the path while another one
recovers it from the first, and the one whose claims cannot be probed; the restless
one releases and retakes the lock as often as it likes while the others wait and
recover.  Two numbers tell a claim from the one before it of the same process; the safety
properties were also checked with three (9 538 845 states).  In `journal`
three events are the shortest history that goes on after its completion.  In
`tabs` request slots are used again and again, so the bursts and reservations are
not bounded; limits of 1 make every limit bite.  In `backend` the smallest limits
make every table overflow, and the second call of an id is the one that an
answer to the first could reach; `Foreign` lines and events are bounded by
`MaxStrays` and `MaxEvents`, calls by `MaxCalls`.
Symmetry is used on hosts, ids, targets and turns, never together with
a liveness property.

**Fairness.**  Safety properties assume none, and the refinements are of safety
specifications.

* `witnessed_steer` assumes that a call goes on or ends (every call has a
  deadline), that the caller keeps repeating its control id, and that a step that
  is possible again and again is taken again and again although calls may also
  end early: the strongest persistence a caller could have, so that the
  counterexample is not one of giving up.
* `lock` assumes that a call, once made, proceeds: file system calls return.
  It does not assume that the clock moves, that anybody releases the lock or that
  the same branch is not taken again; a dead process takes no step.  `AcquireEnds` has
  a premise: a call that finds again and again the lock gone which was there
  for its exclusive creation has no end, since the code charges that retry to no
  budget (section 6), so the property speaks of calls that meet it finitely often.
  Without the premise TLC finds the endless call.
* `tabs` assumes that microtasks run, that `maxWaitMs` passes for a request that
  stays in its queue and that a callback settles.  Nobody has to abort.
  `EveryRequestEnds` has a premise: a browser request that is cancelled for ever
  before its turn, again and again, holds tab requests back and does not count as
  a turn, so the property speaks of behaviours in which cancelling stops.
* `backend` assumes only that promise continuations run and deadlines expire;
  nothing of the sidecar or the pipes, which may stop for ever.

## 4. The proofs

The theorems hold for every value of the constants that satisfies the named
assumptions of the module that declares them: every number of hosts,
processes, tabs, action ids, turns, requests and limits.  The assumptions ask
that identities of different sorts are different and that "none" is not one of
them, that limits are positive, and that there is a first tab, a gate and a
boolean where one is needed.

### The reducer and recovery

* `TypeCorrect`: `OperationState!Spec => []TypeOK`.
* `CoherenceHolds`: `Spec => []Coherent`.  `Coherent` is what the
  snapshot validator (`validateStateCoherence`) tests on a loaded record, without one
  test: that a rejected steer has no witness (`state-machine.ts:2120-2122`).
  `applyOperationEvent` tests each event only against the state before it; the
  theorem says that this implies all the other tests.  It does not imply that one:
  the reducer accepts the rejection of a witnessed steer (`RejectedAfterWitness`, the
  named exception in `OwnershipLedger`), and whether a record stays loadable in this
  respect depends on the callers (`RecordsStayReadable` below).  The inductive invariant is
  `TypeOK /\ Coherent`.  None of the conjuncts is inductive alone: a receipt
  preserves `OwnedPhaseIsProven` only because the Send it might settle is the
  only one (`AtMostOneSend`), a phase change preserves `RearmIsProven` only
  because of `EstablishedBySend` and `PendingPhaseHasIntent`, and intents
  preserve `TransferLedger` only because recorded actions cannot be
  overwritten.  There is one lemma per action, with a step per conjunct the
  action disturbs.  The proof uses `SentinelAssumption` ("none" is not an
  identity), since "none" is how the record says absent.
* `EvidenceStays`, `TargetStays`, `CompletionStays`: the three action properties.
  One lemma says which events touch which field (`EventFrame`), one what an
  intent, a receipt or an unchanged ledger does to the evidence
  (`IntentGrows`, `ReceiptGrows`, `SameLedgerGrows`).  That the boundary never falls
  needs that it is the highest of the recorded actions, hence `Coherent`.
* `TerminalAccounts`: what a completion delivers is every settled transfer and no
  transfer is open.
* `RecoveryIsSafe`: `Spec => []RecoveryNeverReplays`.  In `ready` a pending Send
  is what `Pending` looks for; in `prepared` the code does not look for one, and
  relies on the fact that there is none.  The inductive invariant is
  `TypeOK /\ NoSendBeforeReady`: a Send intent is accepted in `ready` only, and no
  edge leads from `ready` or `uncertain` back to `prepared` or `handoff_pending`.
* `RecoveryIsComplete`: `Spec => []RecoveryDecides`.  It needs that a control is
  recorded for an operation that has its Send (`ControlFollowsSend`), since a
  control's intent is accepted in `generating` only.

### The submit path

`SubmissionProofs` instantiates the reducer with its own proofs on the journal
the hosts write (`Record`).

* `JournalIsReduced`: `Submission!Spec => Record!Spec`.  Every append of every host
  is an event the reducer accepts in the state it is applied to, so what is
  proved of the reducer is known of the journal.
* `SendsOnceHolds`: `Spec => SendsOnce`, the refinement of `SendOnce`, step by
  step: the Send's intent, the activation, and the report or its withdrawal map
  to `Intend`, `Activate` and `Report`, everything else to a stutter.
* `SubmissionTypeCorrect`, `HandoffsAreBudgeted`, `SendFollowsHandoff`,
  `OpenSendIsResumable`: the four invariants.

The inductive invariant `Inv` adds to the record's (`RecordInv`) what the hosts
and the page contribute.  What a host loaded is still in the journal (`Behind`);
a host past the resolution of its target works on the bound tab unless the
operation was rearmed (`OnBinding`); only the host whose append of the Send was
acknowledged is at the steps that activate, and the page shows a new turn only
after an activation (`Activation`); the authority of a spent rearm is with one
host (`Authority`); handoffs made and still owed are covered by the recorded
intents (`Budget`); and what the composer shows is at most what was handed over,
or was there before (`Composer`), without which a second host could take the
files of the first for a reason not to hand over its own.  `Prepared` and `Readied`
tie the phase to both.

* `OneActivation`: what the refinement is for.  In every behaviour of `Submission`
  the Send is activated never, or once in the target its durable intent names,
  and reported only afterwards.

### Control and collection

`ControlTypeCorrect`, `SteersAreResolvedInTurn`, `SteersAreTypedOnce`,
`StoppedTurnsStayStopped`, `AnswersAreCurrent`, `RecordsStayReadable`: the six
invariants the run checks.
`Inv` has one part for the record (`Ledger`), one for the page (`Conversation`: turns are
never repeated and baselines and witnesses name what it showed), one for the
order in which `latestOwnershipAction` meets them (`Ranking`: an unresolved
steer is last, witnessed ones come in the order of their baselines), and one
per running call that says what its place implies (`CallHolds`).  `Fenced` is the
heart of `SteersAreTypedOnce`: at most one host is about to type a steer, or
knows that nobody did, and then it is not in the page; the mutants that drop
the fence or the recheck break exactly this part.  `Alone` and `Current` carry
`AnswerIsCurrent`: behind the baseline of a steer that is being typed only the
user has typed, and the turn being collected is followed by nothing of the
operation.  Both are claimed only of states in which no steer was credited
with a message of the user (`Uncredited`), the exception of the property itself;
witnesses are never taken back, so the hypothesis holds of every earlier state
of such a behaviour.  `RecordsStayReadable` follows from the rest: the witness of a
steer that is credited with its own turn is in the page, and `Fenced` says that a
rejected steer is not.

### The lock

* `LockTypeCorrect`, `ReclaimsOnlyTheDead`, `LiveClaimsAreKept`,
  `LockImplementsSection`: the four safety properties of the lock, for any set of
  processes, hosts, unprobeable claims, numbers and sleeps.  The inductive invariant
  `LockInv` says of each process what its place in the protocol implies about the
  files: an owner's claim is in the lock file; whoever is inside the recovery
  owns the guard; after the second look under the guard the claim in the lock
  file is still the examined one, of a dead owner, because only the owner of the
  guard moves it and a new one can only be created where none is; and a living
  process has its pid, so that no probe takes it for dead.  The guard
  is what makes the second look last: without it (mutant `GuardShared`) the rename
  of a second reclaimer moves away a living claim.  Exclusion is then a consequence: two
  processes inside would both have their claims in one file.

### The journal

* `JournalTypeCorrect`, `FilesNeverDisagree`, `CounterIsExact`, and `RecordOutlives`:
  `Spec => RecordIsKept`, the refinement of `OperationRecord`: an answer maps to
  `Answer`, `Expire` or `Forget`, a creation and a purge to their beginnings, a power
  failure to a stutter or to `Excuse`, and every step of a change to a stutter, since
  nothing was answered yet.
* `NeverCorrupt` speaks of the disk, and a power failure replaces the disk by
  anything between it and what was synced, so it is not inductive, nor would it be if it
  were stated of `stable` too: a log that power cuts short between its synced and its
  written lines is neither.  The invariant `Inv` says of the pair of both
  (`Kept(disk, stable, ...)`) what makes every mixture of them sound (`PowerKeeps`): the
  synced log is a prefix of the written one and equal to it as soon as a terminal exists in
  either; a log beside a tombstone in either is complete as far as it is
  synced; and the last answer stands in a file that has a durable entry.  This part is
  claimed only while `relied` is false: it is exactly what a compaction loses that takes
  the terminal of a dead one for durable (section 6).  `Holds`, what processes can
  see, survives that, until power fails.
* `CallInv` says for each kind of call what its checks under the lock still
  guarantee at each of its steps: the terminal that is linked repeats a log that is
  synced (`Compacting`), the last file of a purge is removed when the others are gone
  durably (`Purging`), and only a creation writes where no log is durable (`Appending`).
* `Counting`: while a change is underway the counter is dirty and off by that
  change and its temporary file, so that `QuotaClose` makes it exact again, and a call that
  ends anywhere before leaves it dirty or recounted.
* `NoFileAssumption` (the version of no file is not a version) is the only assumption
  besides the bounds and the set of events.

### The tab coordinator

* `SchedulerTypeCorrect`, `OneTurnAtATime`, `GateCountsHold`, `TurnsPassedAreBounded`,
  for any requests, resources, gates, priorities and limits.  `OneTurn` does not
  follow from the gate alone, since gates and actors are dropped and made again
  while callbacks of abandoned requests still run: the invariant says that every
  request that was admitted keeps the gate in the map alive (`OnCurrent`), that
  an actor's queue and slot hold exactly the requests of its resource
  (`InTurn`), that the gate's sets and counters are those of the requests that
  hold something of it (`Accounts`), so that it is dropped only when nobody does,
  and that it has let in one side only (`OneSide`).  `Fits` bounds what is
  accepted, `Patience` compares the turns that passed a request with the gate's
  own count.

### The backend transport

* `TransportTypeCorrect`, `AdmissionsAreAccounted`, `NoSidecarInheritsWrites`, for any ids,
  greetings and limits, with ids reused at once or not.  Their invariant `Base` says which
  routes can exist without a sidecar (`Linked`), that tombstones fit (`Buried`), that who is
  in the single-flight line is waiting in it or was issued from it (`Lined`), and that the
  writes are of two generations (`Generations`): those of the tail are all of the sidecar that
  runs or all dead, what is detached is dead, and a dead tail blocks a new start.
  The last conjunct of `AdmissionsAccount`, that a place remains before a
  negotiation, is what makes its steps hard: each end of a route can put the
  handshake back to unknown.
* `AnswersAreOwn`, `NoIdIsSentTwice`: `OwnAnswers` and `NoDuplicate`, on the hypothesis
  `ReuseAtOnce = FALSE`, that a caller takes an id again only when the stdin writes of its
  last call have settled.  The code does not see to that, and without it `OwnAnswers` is
  false (`mixup`, section 6), so the hypothesis is needed; the
  typed client (`backend/client.ts:245-248`) never uses an id twice and meets it.  The invariant `Correlated` says for each id
  that a write of it is of its last call, that one live write of it exists at most and none
  while something of the call is with the sidecar (`Written`), that what the
  sidecar has of it is in one place, of its last call, which is pending or has
  left a tombstone, and that nothing follows the end of an answer
  (`Delivered`).  So an id without tombstone, route and write has nothing
  underway (`Absent`), which is what a new call with it relies on.

### What stays with TLC

Liveness under fairness and `ENABLED` are out of the prover's reach:
`EveryRequestEnds`, `EveryCallSettles`, `AcquireEnds`.  Every invariant, action property and
refinement that a passing run checks is also a theorem, `OwnAnswers` and `NoDuplicate` on
the hypothesis named above.  The five properties that are violated (section 6) are
counterexamples TLC finds.  No `RECURSIVE` operator is declared anywhere.

## 5. Mutants

Each property is broken by a plausible bug in a mapped definition: the mutants
stand beside the definitions they change, marked "Mutant", and `PROJECT.json`
pairs them with the properties.

## 6. Where code and documentation disagree

* `handoff_prefix`: `submission.ts:2176` refuses phase `handoff_pending` with a
  satisfied handoff, the prefix the comment at 2161-2165 says must be resumed.
  Every later submit answers `operation_state_corrupt`.  (`collect` is not
  concerned: no turn was sent.)
* `stop_once`: `control.ts:527-531` promises at most one `executeOnce` per
  intent.  The call looks for the action only before it observes the turn, and
  `persistActionIntent` returns normally when it finds an identical intent of
  another call (`service.ts:1422-1430`), so both calls execute.  The steer path
  distinguishes the acquiring append and keeps the promise (`SteersAreFenced`).
* `witnessed_steer`: the witness of a steer contains the instant of the current
  call's receipt (`service.ts:3068`, `control.ts:1331`) and a durable witness is
  compared in full (`service.ts:2027`).  A call that stops between witness and
  receipt leaves a steer no later call can settle, and no further steer may
  start.  The tests that expect convergence use a fake persistence port
  (`operations-control.test.ts:318`) or a clock that stands still
  (`operations-service.test.ts:291`).  With a witness compared without its
  instant the property holds in this model.

* `durable`: the comment at `journal.ts:556` has the terminal durable before the
  log is removed.  A compaction that finds the terminal of one that died between
  `link` and `syncDirectory` removes the log, durably, without syncing that entry
  (842-862); power may then take the only record left.
* `mixup`: the catch of `issueResponse` and `issueStream` finds a route by id.  The
  error of a write to a recycled sidecar therefore rejects a new call with the
  same id, against the promise of exact routing
  (`references/backend-protocol.md:112-117`).  With the exception of such a write
  the property holds (`OwnAnswers`).

Seen in the models, of less weight or not contradicted by a text of the
repository:

* `submission.ts:2149` demands the handoff boundary whenever a recovery is
  recorded; the Send that follows raises the boundary, so that a repeated submit
  refuses the operation instead of observing it.
* A steer can end `not_satisfied` although it has a witness.  Host 1 holds the fence
  and is about to execute; host 2 repeats the same id, finds one turn after the
  baseline that is not this steer's, and appends it as the witness; host 1 meets a clean
  refusal (`control.ts:786-792`, `810-816`) and appends the rejection, since
  `persistControlReceipt` (`service.ts:3042-3092`) and the reducer
  (`state-machine.ts:604-634`) look only at the outcome the action had.
  `validateSubmissionWitnessValues` (`state-machine.ts:2120-2122`) then refuses the
  record in every later call.
  `references/2026-08-16-transactional-operations.md:58-59` says that such a steer
  has no witness.  `OwnershipLedger` excepts it by name
  (`RejectedAfterWitness`), `Readable` models the refusal, and
  `UnreadableOnlyByMiscredit` shows that nothing else leads to such a record.
* An action receipt names no target (`service.ts:2106`), so a host that observes
  the superseded tab receipts the handoff of the replacement.
* Recovery answers `operation_state_inconsistent` for a sound record: an operation
  that became uncertain before it touched anything (boundary `none`).  It is the
  exception in `RecoveryDecides`.
* `acquireLock` wants a finite retry budget that no clock can defeat
  (`journal.ts:1973-1976`), but it retries at once and at no charge when the lock is gone by
  the time its claim is read (2001-2004), so owners that release and take the lock
  at the wrong moments keep a call in its loop, past its deadline too.  It is the
  premise of `AcquireEnds`.  A successful reclaim is not charged either, but each
  needs one more dead owner.
* A contender that reads a lock file between its creation and its write fails with
  `journal_lock_corrupt` although the owner lives; so does, for good, everybody
  after an owner that died there.
* A pruning that leaves its terminal or snapshot behind and a purge that dies
  after the tombstone bring a completed record back (`RecordIsKept` allows it,
  since a purge was asked for); a snapshot alone is never purged after that.
* The quota scan counts what is on the disk, synced or not, so the counter is
  exact only while power stays.
* A callback of the tab coordinator may be called after its caller was rejected,
  when the abort falls between grant and call.  The comment of
  `maxConsecutiveControls` (`tab-coordinator.ts:130`) promises the turn to a
  mutation, but without a waiting mutation a read goes and resets the count.
* Cancelling a call whose write is still queued leaves a tombstone for an answer
  that cannot come; `lateOutputGraceMs` later the transport is recycled with
  whatever runs on it, although the comment at `backend/client.ts:541-542` wants no
  tombstone for what never reached stdin.
* `request` cleans up a cancelled call in a continuation, by id
  (`backend/client.ts:537-547`): a caller that reuses the id in the same turn of the
  event loop loses the admission of its new call.  This is below the grain of
  `BackendTransport`.

`AnswerIsCurrent` excepts behaviours in which a steer that never acted was
credited with a message the user typed in its place: `exactPostcondition` accepts
any one added turn and does not compare its text, so such a message becomes the
steer's witness.  Another steer's turn can take its place too: two hosts prepare two
steers at one page, the first is typed and receipted, and the second is then
fenced behind the baseline it prepared, which `persistSteerIntentAndBaseline` does not
compare with the turns added since; a retry credits it with the first one's turn.
`AnswerIsCurrent` holds of these behaviours, `UnreadableOnlyByMiscredit` excepts both.

Known limits that show in the statement of a property: an exact manifest found
without an own handoff leads to `ready` with no handoff recorded, and after the
Send a later submit refuses the record (hence `Handoff(s) # {}` in
`OpenSendRecoverable`); a stale observer may demote a proven submission to
`uncertain` (hence the report of `SendOnce` may be withdrawn); the timestamp of
a convergent append is computed before its retry loop.

## 7. Not modelled

Listed in `PROJECT.json` with the reason: the production providers (the live
DOM), wire validation and canonical encoding (no state), the command layer,
agents runner, selectors, browser I/O and redaction (outside the transactional
core), the Python mirror and the plugin bundle (the same contract, generated
code).  Of the journal: creation of the key in the first open, authentication of
records, `journal-authority.ts`, usage of several operations at once.  Of the
backend: `BackendSession` and the typed client over the transport.  Journal RPC,
staging and artifact transfer have no module *yet*.

## 8. Plan

1. **done** `OperationReducer`, `OperationState`, proofs; `SendOnce`,
   `Submission`.
2. **done** `Control`: Stop, steer and collection of one operation by several
   hosts.  `OperationRecovery` with its proof: what a restarted caller may do.
   Left: artifact transfers inside `persistTerminal`.
3. **done** `JournalLock` with its proofs, shown to implement `ExclusiveSection`;
   `Journal`, shown to implement `OperationRecord`.
4. **done** `TabCoordinator`: priorities, ageing, gates, timeouts.
5. **done** `BackendTransport`.  Left: the journal RPC over it, artifact transfer
   and staging.
6. Proofs: **done** the reducer, recovery, the submit path and its refinement, control,
   the lock, the journal and its refinement, the tab coordinator, the backend transport.  Left:
   for `Control`, what `JournalIsReduced` says for `Submission`; that the journal's calls
   run inside the section `JournalLock` implements is argued in section 2, not proved.
