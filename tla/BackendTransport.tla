--------------------------- MODULE BackendTransport ---------------------------
(***************************************************************************)
(* The stdio transport between a client process and its backend sidecar:   *)
(* StdioBackendTransport (backend/client.ts) with its admissions, its      *)
(* negotiation, its queue of stdin writes, its tombstones and quarantine,  *)
(* and the loop of the sidecar (backend/stdio-server.ts) at the other end  *)
(* of the pipes.  A request id is free for a new call as soon as the       *)
(* caller has its answer, so a call is its id and a number.                *)
(***************************************************************************)
EXTENDS Naturals, Sequences, FiniteSets, SequencesExt

CONSTANTS
    Ids,            \* request ids of callers
    Control,        \* stands for the ids of the probes of negotiations, each used once
    Foreign,        \* an id the client never used
    Greetings,      \* what sidecars answer to probes
    MaxInFlight, WriteQueueLimit, TombstoneLimit,
    ServerMaxInFlight,
    ReuseAtOnce,    \* callers reuse an id even while an old stdin write of it is unsettled
    MaxCalls,       \* bound: calls per id
    MaxEvents,      \* bound: lines of output underway for a stream to emit another event
    MaxStrays       \* bound: lines with a foreign id

ASSUME IdAssumption == Control \notin Ids /\ Foreign \notin Ids \cup {Control}
ASSUME GreetingAssumption ==
    Greetings \subseteq {"ready", "single-flight", "unknown_command", "rejected", "error"}
ASSUME LimitsAssumption ==
    /\ MaxInFlight \in Nat \ {0, 1} /\ WriteQueueLimit \in Nat \ {0}
    /\ TombstoneLimit \in Nat \ {0} /\ ServerMaxInFlight \in Nat \ {0}
    /\ ReuseAtOnce \in BOOLEAN /\ MaxCalls \in Nat

VARIABLES
    child,          \* the sidecar of the client runs
    handshake,      \* handshakeState
    control,        \* the probe underway, or 0
    place,          \* per id: where its call is
    kind,           \* per id: of its last call, "unary" or "stream"
    nth,            \* per id: the number of that call
    waiting,        \* waitingAdmissionIds
    active,         \* activeRequestIds
    slots,          \* the single-flight line (legacyTail), its holder first
    writes,         \* writeTail, retiredWriteTail and recycleBlockedByWriteTeardown
    tombstones, quarantined, closed,
    pipe,           \* lines to the sidecar
    tasks,          \* requests the sidecar works on
    out,            \* lines from the sidecar
    refusing,       \* the sidecar saw a duplicate of an active id and reads no more
    strays,
    mixed           \* history: a call was settled on account of another one

link == <<child, handshake, control>>
routes == <<place, waiting, active, slots>>
suspicion == <<tombstones, quarantined>>
sidecar == <<pipe, tasks, out, refusing>>
calls == <<kind, nth>>
vars == <<link, routes, calls, writes, suspicion, closed, sidecar, strays, mixed>>

Hello == 1              \* backend.hello; 2 and 3 are backend.version and backend.capabilities
LastProbe == 3
Kinds == {"unary", "stream"}
SingleFlight == {"single-flight", "legacy"}
Usable == SingleFlight \cup {"ready"}
Tokens == [id : Ids \cup {Control}, nth : Nat, kind : Kinds]

\* The stdin writes whose callback has not come.
Unsettled == ToSet(writes.tail) \cup ToSet(writes.retired)

\* Types, and the limits that the options of the transport and of the sidecar set.
TypeOK ==
    /\ {child, closed, mixed, quarantined, refusing, writes.stuck} \subseteq BOOLEAN
    /\ handshake \in Usable \cup {"unknown", "blocked"}
    /\ control \in 0 .. LastProbe
    /\ place \in [Ids -> {"none", "begun", "connecting", "inLine", "pending"}]
    /\ kind \in [Ids -> Kinds] /\ nth \in [Ids -> 0 .. MaxCalls]
    /\ waiting \subseteq Ids /\ active \subseteq Ids \cup {Control}
    /\ ToSet(slots) \subseteq Ids /\ IsInjective(slots)
    /\ \A w \in Unsettled :
         w.token \in Tokens /\ w.live \in BOOLEAN /\ w.state \in {"queued", "started"}
    /\ Len(writes.tail) + Len(writes.retired) <= WriteQueueLimit
    /\ tombstones \subseteq Ids \cup {Control} /\ Cardinality(tombstones) <= TombstoneLimit
    /\ ToSet(pipe) \subseteq Tokens /\ tasks \subseteq Tokens
    /\ Cardinality(tasks) <= ServerMaxInFlight

Init ==
    /\ child = FALSE /\ handshake = "unknown" /\ control = 0
    /\ place = [id \in Ids |-> "none"] /\ kind = [id \in Ids |-> "unary"]
    /\ nth = [id \in Ids |-> 0]
    /\ waiting = {} /\ active = {} /\ slots = <<>>
    /\ writes = [tail |-> <<>>, retired |-> <<>>, stuck |-> FALSE]
    /\ tombstones = {} /\ quarantined = FALSE /\ closed = FALSE
    /\ pipe = <<>> /\ tasks = {} /\ out = <<>> /\ refusing = FALSE
    /\ strays = 0 /\ mixed = FALSE

---------------------------------------------------------------------------
(* Stdin writes: the tail of the present sidecar, and one that was detached *)

Token(id) == [id |-> id, nth |-> nth[id], kind |-> kind[id]]
Probe(n) == [id |-> Control, nth |-> n, kind |-> "unary"]

\* admitWrite
WriteQueueFull == Len(writes.tail) + Len(writes.retired) >= WriteQueueLimit
Admitted(token) ==
    [writes EXCEPT !.tail = Append(@, [token |-> token, live |-> TRUE, state |-> "queued"])]

\* hasStartedWrite goes by the id.
HasStartedWrite(id) == \E w \in Unsettled : w.token.id = id /\ w.state = "started"

Orphaned(t) == [i \in DOMAIN t |-> [t[i] EXCEPT !.live = FALSE]]

\* Mutant: a second unresolved generation of writes does not keep a new sidecar from starting.
RetiredTwice(w) ==
    IF ~(\E i \in DOMAIN w.tail : w.tail[i].live) THEN w
    ELSE IF w.retired = <<>> THEN [w EXCEPT !.tail = <<>>, !.retired = Orphaned(w.tail)]
    ELSE [w EXCEPT !.tail = Orphaned(@)]

\* retireWriteLifecycle: one tail may be detached, a second one blocks a new start.
Retired(w) ==
    IF ~(\E i \in DOMAIN w.tail : w.tail[i].live) THEN w
    ELSE IF w.retired = <<>> THEN [w EXCEPT !.tail = <<>>, !.retired = Orphaned(w.tail)]
    ELSE [w EXCEPT !.tail = Orphaned(@), !.stuck = TRUE]

Lanes == {"tail", "retired"}
First(lane) == Head(writes[lane])
HasWrite(lane, state) == writes[lane] # <<>> /\ First(lane).state = state

\* releaseWrite of the first write, finishRetiredWriteTail, maybeUnblockWriteTeardown.
Released(lane) ==
    LET w == [writes EXCEPT ![lane] = Tail(@)]
    IN  [w EXCEPT !.stuck = @ /\ (w.tail # <<>> \/ w.retired # <<>>)]

\* An event of the loop (a line, a timer, an exit, a write callback) is handled when the
\* promise continuations of the events before it have run.
Quiet ==
    /\ \A lane \in Lanes : ~HasWrite(lane, "queued")
    /\ \A id \in Ids :
         /\ place[id] # "begun"
         /\ place[id] = "connecting" => handshake \notin Usable
         /\ place[id] = "inLine" => Head(slots) # id

---------------------------------------------------------------------------
(* The end of routes *)

\* terminate and handleProcessFailure, with failAll.
Recycle(state) ==
    /\ child' = FALSE /\ handshake' = (IF child THEN state ELSE handshake) /\ control' = 0
    /\ place' = [id \in Ids |-> "none"] /\ waiting' = {} /\ active' = {} /\ slots' = <<>>
    /\ tombstones' = {} /\ quarantined' = FALSE

\* Writes, and the pipes, after a step; with the sidecar go its pipes.
Plumbing(w, in, rest) ==
    IF child' THEN /\ writes' = w /\ pipe' = in /\ out' = rest
                   /\ UNCHANGED <<tasks, refusing>>
    ELSE /\ writes' = Retired(w) /\ pipe' = <<>> /\ out' = <<>>
         /\ tasks' = {} /\ refusing' = FALSE

\* Mutant: who leaves does not pass the single-flight slot on.
LeaveHoldingSlot(id) ==
    /\ place' = [place EXCEPT ![id] = "none"]
    /\ waiting' = waiting \ {id} /\ active' = active \ {id}
    /\ UNCHANGED slots

Without(line, id) ==
    IF id \in ToSet(line) THEN RemoveAt(line, CHOOSE n \in DOMAIN line : line[n] = id) ELSE line

\* A caller has its answer: admission, id and single-flight slot are released.  A slot
\* that comes to a caller who left is passed on at once, so the caller leaves the line.
Leave(id) ==
    /\ place' = [place EXCEPT ![id] = "none"]
    /\ waiting' = waiting \ {id} /\ active' = active \ {id}
    /\ slots' = Without(slots, id)

\* The condition of maybeRecycleQuarantined, when these routes are gone.
Idle(gone) == control = 0 /\ \A id \in Ids \ gone : place[id] = "none"

\* clearResponse and clearStream without a tombstone.
Clear(id) ==
    IF quarantined /\ Idle({id}) THEN Recycle("unknown")
    ELSE Leave(id) /\ UNCHANGED <<link, suspicion>>

\* Mutant: late output is not expected.
ClearExpectingNothing(id) == Clear(id)

\* Mutant: there is room for every tombstone.
ClearExpectingUnbounded(id) ==
    /\ Leave(id)
    /\ tombstones' = tombstones \cup {id}
    /\ UNCHANGED <<link, quarantined>>

\* The same with a tombstone, or a recycle where there is no room for one.
ClearExpecting(id) ==
    IF Cardinality(tombstones) >= TombstoneLimit \/ (quarantined /\ Idle({id}))
    THEN Recycle("unknown")
    ELSE /\ Leave(id)
         /\ tombstones' = tombstones \cup {id}
         /\ UNCHANGED <<link, quarantined>>

---------------------------------------------------------------------------
(* Negotiation *)

\* The negotiation is over; without success, whoever waits for it is rejected.
Negotiated(state, late) ==
    LET leavers == IF state \in Usable THEN {}
                   ELSE {id \in Ids : place[id] = "connecting"}
    IN  IF quarantined /\ \A id \in Ids : place[id] = "none"
        THEN Recycle("unknown")
        ELSE /\ place' = [id \in Ids |-> IF id \in leavers THEN "none" ELSE place[id]]
             /\ waiting' = waiting \ leavers /\ active' = active \ {Control}
             /\ handshake' = state /\ control' = 0 /\ tombstones' = tombstones \cup late
             /\ UNCHANGED <<child, slots, quarantined>>

Live == Cardinality(waiting) + Cardinality(active)
CanIssueControl(n) == ~quarantined /\ n < MaxInFlight /\ ~WriteQueueFull

\* The probe that follows on an answer, if one does.
Follows(greeting) == control = 2 \/ (control = Hello /\ greeting = "unknown_command")

\* The answer to a probe.  The legacy probes follow a hello that is an unknown command;
\* a sidecar that is not compatible is stopped for good.
Answered(greeting, rest) ==
    LET next == control + 1
        goesOn == greeting # "rejected" /\ Follows(greeting) /\ CanIssueControl(Live - 1)
    IN  /\ IF greeting = "rejected" THEN Recycle("blocked")
           ELSE CASE goesOn -> /\ control' = next
                               /\ UNCHANGED <<child, handshake, routes, suspicion>>
                  [] control = Hello /\ greeting \in Usable -> Negotiated(greeting, {})
                  [] control = LastProbe -> Negotiated("legacy", {})
                  [] OTHER -> Negotiated("unknown", {})
        /\ Plumbing(IF goesOn THEN Admitted(Probe(next)) ELSE writes, pipe, rest)

---------------------------------------------------------------------------
(* Calls *)

\* Mutant: callers may take the last slot before the negotiation has one.
RoomForCallerNoHeadroom == Live < MaxInFlight

\* assertAdmissionCapacity: before a probe is charged one slot is kept for it.
RoomForCaller ==
    Live < IF handshake = "unknown" /\ control = 0 THEN MaxInFlight - 1 ELSE MaxInFlight

\* Mutant: tombstones do not reserve their ids.
FreeAtOnce(id) == ~quarantined /\ id \notin waiting \cup active

\* validateRequestId
Free(id) == ~quarantined /\ id \notin waiting \cup active \cup tombstones

\* ensureHandshake, for a caller that has or is about to have its admission.
EnsureHandshake(id) ==
    LET admitted == waiting \cup {id}
        first == handshake = "unknown" /\ control = 0 /\ ~writes.stuck
        hello == first /\ CanIssueControl(Cardinality(admitted) + Cardinality(active))
        waits == hello \/ handshake \in Usable \/ control # 0
    IN  /\ child' = (child \/ first)
        /\ control' = (IF hello THEN Hello ELSE control)
        /\ place' = [place EXCEPT ![id] = IF waits THEN "connecting" ELSE "none"]
        /\ waiting' = (IF waits THEN admitted ELSE waiting \ {id})
        /\ active' = (IF hello THEN active \cup {Control} ELSE active)
        /\ Plumbing(IF hello THEN Admitted(Probe(Hello)) ELSE writes, pipe, out)
        /\ UNCHANGED handshake

\* request asks for the handshake at once, stream in a microtask of its own.
Request(id, k) ==
    /\ place[id] = "none" /\ nth[id] < MaxCalls /\ ~closed
    /\ ReuseAtOnce \/ \A w \in Unsettled : w.token.id # id
    /\ Free(id) /\ RoomForCaller
    /\ nth' = [nth EXCEPT ![id] = @ + 1] /\ kind' = [kind EXCEPT ![id] = k]
    /\ \/ k = "unary" /\ EnsureHandshake(id)
       \/ /\ k = "stream"
          /\ place' = [place EXCEPT ![id] = "begun"] /\ waiting' = waiting \cup {id}
          /\ UNCHANGED <<link, active, writes, sidecar>>
    /\ UNCHANGED <<slots, suspicion, closed, strays, mixed>>

Connect(id) ==
    /\ place[id] = "begun"
    /\ EnsureHandshake(id)
    /\ UNCHANGED <<slots, calls, suspicion, closed, strays, mixed>>

\* issueResponse and issueStream; a full write queue rejects the call.
Issue(id) ==
    IF quarantined THEN Leave(id) /\ UNCHANGED <<link, suspicion, writes, sidecar>>
    ELSE IF WriteQueueFull THEN Clear(id) /\ Plumbing(writes, pipe, out)
    ELSE /\ place' = [place EXCEPT ![id] = "pending"]
         /\ waiting' = waiting \ {id} /\ active' = active \cup {id}
         /\ writes' = Admitted(Token(id))
         /\ UNCHANGED <<link, slots, suspicion, sidecar>>

\* promoteWaitingAdmission comes before the line for a unary call, after it for a stream.
GetInLine(id) ==
    IF quarantined /\ kind[id] = "unary"
    THEN Leave(id) /\ UNCHANGED <<link, suspicion, writes, sidecar>>
    ELSE /\ place' = [place EXCEPT ![id] = "inLine"] /\ slots' = Append(slots, id)
         /\ IF kind[id] = "unary"
            THEN waiting' = waiting \ {id} /\ active' = active \cup {id}
            ELSE UNCHANGED <<waiting, active>>
         /\ UNCHANGED <<link, suspicion, writes, sidecar>>

Proceed(id) ==
    /\ place[id] = "connecting" /\ handshake \in Usable
    /\ IF handshake \in SingleFlight THEN GetInLine(id) ELSE Issue(id)
    /\ UNCHANGED <<calls, closed, strays, mixed>>

TakeSlot(id) ==
    /\ place[id] = "inLine" /\ Head(slots) = id
    /\ Issue(id)
    /\ UNCHANGED <<calls, closed, strays, mixed>>

\* cancel and the deadline end a call that was issued; a write that has started takes the
\* sidecar with it.
Withdraw(id, fatal) ==
    /\ IF fatal \/ HasStartedWrite(id) THEN Recycle("unknown") ELSE ClearExpecting(id)
    /\ Plumbing(writes, pipe, out)

Cancel(id) ==
    /\ \/ /\ place[id] \in {"begun", "connecting", "inLine"}
          /\ Leave(id) /\ UNCHANGED <<link, suspicion, writes, sidecar>>
       \/ place[id] = "pending" /\ Withdraw(id, FALSE)
    /\ UNCHANGED <<calls, closed, strays, mixed>>

\* A deadline runs from the time a call is issued; a single-flight one is fatal.
Timeout(id) ==
    /\ place[id] = "pending" /\ Quiet
    /\ Withdraw(id, id \in ToSet(slots))
    /\ UNCHANGED <<calls, closed, strays, mixed>>

ControlTimeout ==
    /\ control # 0 /\ Quiet /\ Recycle("unknown")
    /\ Plumbing(writes, pipe, out)
    /\ UNCHANGED <<calls, closed, strays, mixed>>

---------------------------------------------------------------------------
(* The write queue: the first write of a lane is at work *)

\* isWriteRouteActive: a caller's route is found by its id, whatever its kind.
HasRoute(write) ==
    IF write.token.id = Control THEN write.live /\ control = write.token.nth
    ELSE place[write.token.id] = "pending"

\* The catches of issueResponse and of issueStream look among the routes of their kind.
CatchFinds(write) ==
    /\ HasRoute(write)
    /\ write.token.id # Control => write.token.kind = kind[write.token.id]

\* The route that is found for a write is rejected; what may have left the process is
\* expected to be answered late.
Fails(lane, expecting) ==
    LET write == First(lane)
        id == write.token.id
    IN  /\ CASE ~CatchFinds(write) -> UNCHANGED <<link, routes, suspicion>>
              [] CatchFinds(write) /\ id = Control ->
                    IF Cardinality(tombstones) >= TombstoneLimit THEN Recycle("unknown")
                    ELSE Negotiated("unknown", {Control})
              [] CatchFinds(write) /\ id # Control /\ expecting -> ClearExpecting(id)
              [] CatchFinds(write) /\ id # Control /\ ~expecting -> Clear(id)
        /\ mixed' = (mixed \/ (CatchFinds(write) /\ id # Control /\ write.token.nth # nth[id]))
        /\ Plumbing(Released(lane), pipe, out)

\* The closure that write queues: its checks, then writeLine begins.
BeginWrite(lane) ==
    /\ HasWrite(lane, "queued")
    /\ LET write == First(lane)
       IN  IF write.live /\ HasRoute(write) /\ (write.token.id = Control \/ ~quarantined)
           THEN /\ writes' = [writes EXCEPT ![lane][1].state = "started"]
                /\ UNCHANGED <<link, routes, suspicion, sidecar, mixed>>
           ELSE Fails(lane, FALSE)
    /\ UNCHANGED <<calls, closed, strays>>

\* The line is in the pipe.  What a sidecar that is gone still reads is of no account.
WriteDone(lane) ==
    /\ HasWrite(lane, "started") /\ Quiet
    /\ writes' = Released(lane)
    /\ pipe' = IF First(lane).live THEN Append(pipe, First(lane).token) ELSE pipe
    /\ UNCHANGED <<link, routes, calls, suspicion, closed, tasks, out, refusing, strays, mixed>>

WriteFails(lane) ==
    /\ HasWrite(lane, "started") /\ Quiet
    /\ Fails(lane, TRUE)
    /\ UNCHANGED <<calls, closed, strays>>

---------------------------------------------------------------------------
(* Lines from the sidecar: handleResponse, handleEvent *)

Fits(line, k) == (line.type = "response") <=> (k = "unary")
KindOf(id) == IF id = Control THEN "unary" ELSE kind[id]

\* The line of a call that is pending; an event may overflow the queue of its stream.
ReadPending(line) ==
    /\ line.id \in Ids /\ place[line.id] = "pending"
    /\ \/ ~Fits(line, kind[line.id]) /\ Recycle("unknown") /\ UNCHANGED mixed
       \/ /\ Fits(line, kind[line.id])
          /\ mixed' = (mixed \/ line.nth # nth[line.id])
          /\ \/ line.type = "event" /\ UNCHANGED <<link, routes, suspicion>>
             \/ line.type \in {"response", "end"} /\ Clear(line.id)
             \/ line.type \in {"event", "end"} /\ ClearExpecting(line.id)
    /\ Plumbing(writes, pipe, Tail(out))

\* A line for no route: a tombstone takes it, or the transport is suspect.
ReadLate(line) ==
    /\ line.id \in Ids => place[line.id] # "pending"
    /\ line.id = Control => control # line.nth
    /\ \/ /\ line.id \in tombstones /\ Fits(line, KindOf(line.id))
          /\ tombstones' = IF line.type = "event" THEN tombstones ELSE tombstones \ {line.id}
          /\ UNCHANGED <<link, routes, quarantined>>
       \/ /\ \/ line.id \in tombstones /\ ~Fits(line, KindOf(line.id))
             \/ line.id \notin tombstones /\ Idle({})
          /\ Recycle("unknown")
       \/ /\ line.id \notin tombstones /\ ~Idle({})
          /\ quarantined' = TRUE /\ UNCHANGED <<link, routes, tombstones>>
    /\ Plumbing(writes, pipe, Tail(out))
    /\ UNCHANGED mixed

ReadLine ==
    /\ out # <<>> /\ Quiet
    /\ \/ ReadPending(Head(out))
       \/ ReadLate(Head(out))
       \/ /\ Head(out).id = Control /\ control = Head(out).nth
          /\ \E greeting \in Greetings : Answered(greeting, Tail(out))
          /\ UNCHANGED mixed
    /\ UNCHANGED <<calls, closed, strays>>

\* lateOutputGraceMs after the first tombstone, or after the first line of no route.
GraceEnds ==
    /\ Quiet
    /\ tombstones # {} \/ quarantined
    /\ Recycle("unknown") /\ Plumbing(writes, pipe, out)
    /\ UNCHANGED <<calls, closed, strays, mixed>>

Exit ==
    /\ child /\ Quiet
    /\ Recycle("unknown") /\ Plumbing(writes, pipe, out)
    /\ UNCHANGED <<calls, closed, strays, mixed>>

Close ==
    /\ ~closed /\ closed' = TRUE
    /\ Recycle("unknown") /\ Plumbing(writes, pipe, out)
    /\ UNCHANGED <<calls, strays, mixed>>

---------------------------------------------------------------------------
(* The sidecar: runBackendStdioServer.  Its write callback comes before the client can have *)
(* read the line, so an answer and the release of its id are one step.                     *)

client == <<link, routes, calls, writes, suspicion, closed, mixed>>

ServerRead ==
    /\ pipe # <<>> /\ ~refusing
    /\ pipe' = Tail(pipe)
    /\ LET token == Head(pipe)
           duplicate == token.id # Control /\ \E t \in tasks : t.id = token.id
       IN  \/ duplicate /\ refusing' = TRUE /\ UNCHANGED tasks
           \/ /\ ~duplicate /\ Cardinality(tasks) < ServerMaxInFlight
              /\ tasks' = tasks \cup {token} /\ UNCHANGED refusing
    /\ UNCHANGED <<client, out, strays>>

Line(token, type) == [id |-> token.id, nth |-> token.nth, type |-> type]

ServerEmit(token) ==
    /\ token \in tasks /\ token.kind = "stream" /\ Len(out) < MaxEvents
    /\ out' = Append(out, Line(token, "event"))
    /\ UNCHANGED <<client, pipe, tasks, refusing, strays>>

ServerAnswer(token) ==
    /\ token \in tasks
    /\ tasks' = tasks \ {token}
    /\ out' = Append(out, Line(token, IF token.kind = "unary" THEN "response" ELSE "end"))
    /\ UNCHANGED <<client, pipe, refusing, strays>>

ServerStray ==
    /\ child /\ strays < MaxStrays /\ strays' = strays + 1
    /\ out' = Append(out, [id |-> Foreign, nth |-> 0, type |-> "response"])
    /\ UNCHANGED <<client, pipe, tasks, refusing>>

Next ==
    \/ \E id \in Ids : \/ \E k \in Kinds : Request(id, k)
                       \/ Connect(id) \/ Proceed(id) \/ TakeSlot(id)
                       \/ Cancel(id) \/ Timeout(id)
    \/ \E lane \in Lanes : BeginWrite(lane) \/ WriteDone(lane) \/ WriteFails(lane)
    \/ ControlTimeout \/ ReadLine \/ GraceEnds \/ Exit \/ Close
    \/ ServerRead \/ ServerStray
    \/ \E token \in tasks : ServerEmit(token) \/ ServerAnswer(token)

Spec == Init /\ [][Next]_vars

\* Promise continuations run and timers fire; nothing is assumed of the sidecar or its pipes.
Fairness ==
    /\ \A id \in Ids : /\ WF_vars(Connect(id)) /\ WF_vars(Proceed(id))
                       /\ WF_vars(TakeSlot(id)) /\ WF_vars(Timeout(id))
    /\ \A lane \in Lanes : WF_vars(BeginWrite(lane))
    /\ WF_vars(ControlTimeout)

FairSpec == Spec /\ Fairness

---------------------------------------------------------------------------
(* Properties *)

\* No call is settled, and no stream fed, on account of another call that used its id: late
\* lines and late write errors find their own route or none (handleResponse, handleEvent,
\* the catch of issueResponse and issueStream).
OwnAnswers == ~mixed

\* "one lifecycle-owned reader routes every response and event to its exact `requestId`"
\* (references/backend-protocol.md:112-116), also when callers reuse an id as soon as they
\* may.
ExactRoutes == ~mixed

\* The client never sends a request with an id the sidecar still works on, which would make
\* the sidecar refuse everything (failClosedOnCorrelationViolation).
NoDuplicate == ~refusing

\* Every admission belongs to a call or a probe that still runs, and all of them stay within
\* maxInFlight; before a negotiation there is room left for its probe, so that streams that
\* came together cannot keep each other from connecting (assertAdmissionCapacity).
AdmissionsAccount ==
    /\ waiting = {id \in Ids : \/ place[id] \in {"begun", "connecting"}
                               \/ place[id] = "inLine" /\ kind[id] = "stream"}
    /\ active = {id \in Ids : \/ place[id] = "pending"
                              \/ place[id] = "inLine" /\ kind[id] = "unary"}
                \cup (IF control = 0 THEN {} ELSE {Control})
    /\ Live <= MaxInFlight
    /\ handshake = "unknown" /\ control = 0 => Live < MaxInFlight

\* A sidecar never waits behind stdin writes of one before it, however many were recycled
\* with writes that never settle (retireWriteLifecycle).
NoInheritedWrite ==
    child => \A i \in DOMAIN writes.tail : writes.tail[i].live

\* Every call settles, whatever the sidecar does with it: also one that waits for a
\* negotiation, or in the single-flight line behind calls that were cancelled.
EveryCallSettles == \A id \in Ids : place[id] # "none" ~> place[id] = "none"
=============================================================================
