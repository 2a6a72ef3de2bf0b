---------------------------- MODULE TabCoordinator ----------------------------
(***************************************************************************)
(* The scheduler of one browser (runtime/tab-coordinator.ts): an actor per *)
(* resource - the browser itself and each of its tabs - queues requests    *)
(* and runs one callback at a time, and the gate of the browser admits     *)
(* either one browser callback or any number of tab callbacks.  Each       *)
(* action is a piece of code between two awaits; the microtasks that drain *)
(* an actor or the gate are actions of their own.                          *)
(*                                                                         *)
(* A caller may be answered (abort, deadline) while its callback still     *)
(* runs: the slot stays occupied until the callback settles.  Actors and   *)
(* gates are dropped from their maps when idle and made again on demand.   *)
(***************************************************************************)
EXTENDS Naturals, Sequences, FiniteSets, SequencesExt

CONSTANTS
    Requests,           \* request slots; a slot is used again once it is settled
    ActorOf,            \* the resource of a request
    PriorityOf,         \* its priority
    Browser,            \* the resource whose turns are exclusive
    Gates,              \* names for gate objects
    NoGate,
    MaxQueueSize, MaxConsecutiveReads, MaxConsecutiveMutations,
    MaxConsecutiveControls, MaxConsecutiveBrowserExclusives

Priorities == {"read", "mutation", "control"}

ASSUME RequestsAssumption == 
    IsFiniteSet(Requests) /\ \A r \in Requests : PriorityOf[r] \in Priorities
ASSUME LimitsAssumption ==
    /\ MaxQueueSize \in Nat \ {0} /\ MaxConsecutiveReads \in Nat \ {0}
    /\ MaxConsecutiveMutations \in Nat \ {0} /\ MaxConsecutiveControls \in Nat \ {0}
    /\ MaxConsecutiveBrowserExclusives \in Nat \ {0}
ASSUME GateAssumption == Gates # {} /\ NoGate \notin Gates

Actors == {ActorOf[r] : r \in Requests} \cup {Browser}
Exclusive(r) == ActorOf[r] = Browser

VARIABLES
    pc,         \* per request: where it is
    gateOf,     \* per request: the gate its admission was made from
    aged,       \* queued requests that have waited for maxWaitMs
    answered,   \* callers rejected while their callback still holds the slot
    actors,     \* per resource: its actor
    gates,      \* per gate object: its state
    current,    \* the gate in the map, or NoGate
    passed      \* history: exclusive turns granted while a started tab request waits

vars == <<pc, gateOf, aged, answered, actors, gates, current, passed>>

\* refused: cancelled at the gate; granted: admitted, its callback not yet called.
Places == {"idle", "queued", "waiting", "refused", "granted", "running"}

NewActor ==
    [queue |-> <<>>, active |-> {}, turns |-> [p \in Priorities |-> 0], scheduled |-> FALSE]

\* queued and active waiters, and the two counters of tab requests an actor accepted.
NewGate ==
    [queued |-> {}, shared |-> {}, exclusive |-> {}, consecutive |-> 0,
     accepted |-> 0, pending |-> 0, scheduled |-> FALSE]

Sized(gate) == Cardinality(gate.queued) + gate.pending

TypeOK ==
    /\ pc \in [Requests -> Places]
    /\ gateOf \in [Requests -> Gates \cup {NoGate}]
    /\ \A r \in Requests : pc[r] = "idle" <=> gateOf[r] = NoGate
    /\ aged \subseteq {r \in Requests : pc[r] = "queued"}
    /\ answered \subseteq {r \in Requests : pc[r] \in {"refused", "granted", "running"}}
    /\ current \in Gates \cup {NoGate}
    /\ \A a \in Actors :
         /\ actors[a].active \subseteq Requests
         /\ actors[a].turns \in [Priorities -> Nat]
         /\ actors[a].scheduled \in BOOLEAN
    /\ \A g \in Gates :
         /\ gates[g].queued \cup gates[g].shared \cup gates[g].exclusive \subseteq Requests
         /\ gates[g].accepted \in Nat /\ gates[g].pending \in Nat
         /\ gates[g].consecutive \in 0 .. MaxConsecutiveBrowserExclusives
         /\ gates[g].scheduled \in BOOLEAN

Init ==
    /\ pc = [r \in Requests |-> "idle"]
    /\ gateOf = [r \in Requests |-> NoGate]
    /\ aged = {} /\ answered = {}
    /\ actors = [a \in Actors |-> NewActor]
    /\ gates = [g \in Gates |-> NewGate]
    /\ current = NoGate
    /\ passed = [r \in Requests |-> 0]

---------------------------------------------------------------------------
(* The maps of actors and gates.  An actor that is not in its map is a new one. *)

ActorIdle(actor) == actor.active = {} /\ actor.queue = <<>>

\* Mutant: reservations of tab requests that have not reached the gate are not counted.
GateIdleUnreserved(gate) == gate.queued = {} /\ gate.exclusive = {} /\ gate.shared = {}

GateIdle(gate) ==
    gate.queued = {} /\ gate.exclusive = {} /\ gate.shared = {} /\ gate.accepted = 0

\* maybeCleanupGate: an idle gate goes, and with it an idle browser actor that stayed for it.
CleanUp(as, gs, gate) ==
    /\ gates' = gs
    /\ IF gate # NoGate /\ GateIdle(gs[gate]) /\ ActorIdle(as[Browser])
       THEN current' = NoGate /\ actors' = [as EXCEPT ![Browser] = NewActor]
       ELSE current' = gate /\ actors' = as

\* notifyIfIdle, onActorIdle: the browser actor stays while its gate is in use.
NotifyIfIdle(a, as, gs) ==
    IF ActorIdle(as[a]) /\ (a = Browser /\ current # NoGate => GateIdle(gs[current]))
    THEN CleanUp([as EXCEPT ![a] = NewActor], gs, current)
    ELSE actors' = as /\ gates' = gs /\ UNCHANGED current

ScheduleDrain(actor) ==
    IF actor.active = {} THEN [actor EXCEPT !.scheduled = TRUE] ELSE actor

\* A request joins the queue, or leaves it before its turn, or its turn is over.
Pushed(actor, r) == ScheduleDrain([actor EXCEPT !.queue = Append(@, r)])

PositionOf(queue, r) == CHOOSE i \in DOMAIN queue : queue[i] = r

Removed(actor, r) ==
    ScheduleDrain([actor EXCEPT !.queue = RemoveAt(@, PositionOf(@, r))])

Freed(actor) == ScheduleDrain([actor EXCEPT !.active = {}])

---------------------------------------------------------------------------
(* Admissions: what the gate records of a request *)

Accepted(gate, r) ==
    IF Exclusive(r) THEN [gate EXCEPT !.queued = @ \cup {r}]
    ELSE [gate EXCEPT !.accepted = @ + 1, !.pending = @ + 1]

Started(gate, r) ==
    IF Exclusive(r) THEN [gate EXCEPT !.scheduled = TRUE]
    ELSE [gate EXCEPT !.pending = @ - 1, !.queued = @ \cup {r}, !.scheduled = TRUE]

\* onAbandoned: an exclusive reservation may have held back others.
Abandoned(gate, r) ==
    IF Exclusive(r) THEN [gate EXCEPT !.queued = @ \ {r}, !.scheduled = TRUE]
    ELSE [gate EXCEPT !.accepted = @ - 1, !.pending = @ - 1]

Cancelled(gate, r) == [gate EXCEPT !.queued = @ \ {r}, !.scheduled = TRUE]

\* Mutant: the settlement does not ask whether the request reached the gate.
SettledAsPending(gate, r) ==
    [gate EXCEPT !.exclusive = @ \ {r}, !.shared = @ \ {r},
                 !.scheduled = @ \/ r \in gate.exclusive \cup gate.shared,
                 !.accepted = IF Exclusive(r) THEN @ ELSE @ - 1,
                 !.pending = IF Exclusive(r) THEN @ ELSE @ - 1]

\* The lease is released, if there is one, and onSettled gives the reservation back.
Settled(gate, r) ==
    [gate EXCEPT !.exclusive = @ \ {r}, !.shared = @ \ {r},
                 !.scheduled = @ \/ r \in gate.exclusive \cup gate.shared,
                 !.accepted = IF Exclusive(r) THEN @ ELSE @ - 1]

---------------------------------------------------------------------------
(* Requests *)

\* ProcessTabCoordinator.enqueue.  A full queue, a full gate or a signal that is already
\* aborted rejects the caller and changes nothing.
Enqueue(r) ==
    LET a == ActorOf[r]
        gate == IF current # NoGate THEN current
                ELSE CHOOSE g \in Gates : \A q \in Requests : gateOf[q] # g
        state == IF current # NoGate THEN gates[gate] ELSE NewGate
    IN  /\ pc[r] = "idle"
        /\ Len(actors[a].queue) < MaxQueueSize
        /\ Sized(state) < MaxQueueSize
        /\ pc' = [pc EXCEPT ![r] = "queued"]
        /\ gateOf' = [gateOf EXCEPT ![r] = gate]
        /\ CleanUp([actors EXCEPT ![a] = Pushed(@, r)],
                   [gates EXCEPT ![gate] = Accepted(state, r)], gate)
        /\ UNCHANGED <<aged, answered, passed>>

\* maxWaitMs pass.
Age(r) ==
    /\ pc[r] = "queued" /\ r \notin aged
    /\ aged' = aged \cup {r}
    /\ UNCHANGED <<pc, gateOf, answered, actors, gates, current, passed>>

\* handleAbort, handleDeadline and removeExpiredQueued of a request that has not started.
Abandon(r) ==
    LET a == ActorOf[r] IN
    /\ pc[r] = "queued"
    /\ pc' = [pc EXCEPT ![r] = "idle"]
    /\ gateOf' = [gateOf EXCEPT ![r] = NoGate]
    /\ aged' = aged \ {r}
    /\ NotifyIfIdle(a,
         [actors EXCEPT ![a] = Removed(@, r)],
         [gates EXCEPT ![gateOf[r]] = Abandoned(@, r)])
    /\ UNCHANGED <<answered, passed>>

\* Mutant: the caller's answer frees the actor.
AbortFreesActor(r) ==
    /\ pc[r] \in {"granted", "running"} /\ r \notin answered
    /\ answered' = answered \cup {r}
    /\ actors' = [actors EXCEPT ![ActorOf[r]] = Freed(@)]
    /\ UNCHANGED <<pc, gateOf, aged, gates, current, passed>>

\* handleAbort and handleDeadline of a started request: the caller is answered, a waiter
\* at the gate is cancelled, a callback that was admitted keeps its slot.
Abort(r) ==
    /\ pc[r] \in {"waiting", "granted", "running"} /\ r \notin answered
    /\ answered' = answered \cup {r}
    /\ IF pc[r] = "waiting"
       THEN /\ pc' = [pc EXCEPT ![r] = "refused"]
            /\ gates' = [gates EXCEPT ![gateOf[r]] = Cancelled(@, r)]
            /\ passed' = [passed EXCEPT ![r] = 0]
       ELSE UNCHANGED <<pc, gates, passed>>
    /\ UNCHANGED <<gateOf, aged, actors, current>>

---------------------------------------------------------------------------
(* An actor's turn *)

\* The positions in the queue of the requests of a priority.
Queued(actor, priority) == {i \in DOMAIN actor.queue : PriorityOf[actor.queue[i]] = priority}

\* selectNext by priority: reads first, but for controls and for bursts at their limit.
ByPriority(actor) ==
    LET controls == Queued(actor, "control")
        mutations == Queued(actor, "mutation")
        reads == Queued(actor, "read")
        ControlTurn == controls # {}
                       /\ (mutations = {} \/ actor.turns["control"] < MaxConsecutiveControls)
        MutationTurn == mutations # {}
                        /\ \/ reads = {}
                           \/ actor.turns["read"] >= MaxConsecutiveReads
                              /\ actor.turns["mutation"] < MaxConsecutiveMutations
    IN  CASE ControlTurn -> Min(controls)
          [] ~ControlTurn /\ MutationTurn -> Min(mutations)
          [] ~ControlTurn /\ ~MutationTurn -> Min(reads)

\* Mutant: age does not count.
SelectedByPriority(actor) == ByPriority(actor)

\* The oldest request that has waited for too long comes before all priorities.
Selected(actor) ==
    LET old == {i \in DOMAIN actor.queue : actor.queue[i] \in aged}
    IN  IF old # {} THEN Min(old) ELSE ByPriority(actor)

LimitOf(priority) ==
    CASE priority = "read" -> MaxConsecutiveReads
      [] priority = "mutation" -> MaxConsecutiveMutations
      [] priority = "control" -> MaxConsecutiveControls

UpTo(limit, n) == IF n < limit THEN n ELSE limit

\* recordSelection; a count beyond its limit is not told from the limit.
Turned(turns, priority) ==
    [p \in Priorities |-> IF p = priority THEN UpTo(LimitOf(p), turns[p] + 1) ELSE 0]

\* The request at a position leaves the queue and takes the slot.
Taken(actor, turn) ==
    LET r == actor.queue[turn]
    IN  [actor EXCEPT !.queue = RemoveAt(@, turn), !.active = {r},
                      !.turns = Turned(@, PriorityOf[r])]

\* drain of an actor, up to the await of the gate's admission.
Drain(a) ==
    LET actor == [actors[a] EXCEPT !.scheduled = FALSE]
        turn == Selected(actor)
        r == actor.queue[turn]
    IN  /\ actors[a].scheduled
        /\ IF actor.active # {} \/ actor.queue = <<>>
           THEN /\ actors' = [actors EXCEPT ![a] = actor]
                /\ UNCHANGED <<pc, aged, gates>>
           ELSE /\ actors' = [actors EXCEPT ![a] = Taken(actor, turn)]
                /\ pc' = [pc EXCEPT ![r] = "waiting"]
                /\ aged' = aged \ {r}
                /\ gates' = [gates EXCEPT ![gateOf[r]] = Started(@, r)]
        /\ UNCHANGED <<gateOf, answered, current, passed>>

---------------------------------------------------------------------------
(* The gate *)

StartedShared(gate) == {r \in gate.queued : ~Exclusive(r) /\ pc[r] = "waiting"}
StartedExclusive(gate) == {r \in gate.queued : Exclusive(r) /\ pc[r] = "waiting"}
HasExclusiveWaiter(gate) == \E r \in gate.queued : Exclusive(r)

\* Mutant: browser turns always come first.
AdmittedExclusiveFirst(gate) ==
    IF gate.exclusive # {} \/ (gate.shared # {} /\ HasExclusiveWaiter(gate)) THEN {}
    ELSE IF HasExclusiveWaiter(gate) THEN StartedExclusive(gate)
    ELSE StartedShared(gate)

\* The waiters that drain grants; the browser's actor starts one at a time.
Admitted(gate) ==
    IF gate.exclusive # {} \/ (gate.shared # {} /\ HasExclusiveWaiter(gate)) THEN {}
    ELSE IF StartedShared(gate) # {} /\ gate.consecutive >= MaxConsecutiveBrowserExclusives
         THEN StartedShared(gate)
    ELSE IF HasExclusiveWaiter(gate) THEN StartedExclusive(gate)
    ELSE StartedShared(gate)

\* Only a shared turn that was due ends a run of exclusive turns.
Granted(gate, exclusive, shared) ==
    [gate EXCEPT
       !.scheduled = FALSE, !.queued = @ \ (exclusive \cup shared),
       !.exclusive = @ \cup exclusive, !.shared = @ \cup shared,
       !.consecutive =
         IF shared # {} /\ @ >= MaxConsecutiveBrowserExclusives THEN 0
         ELSE IF exclusive # {} THEN UpTo(MaxConsecutiveBrowserExclusives, @ + 1) ELSE @]

GateDrain(g) ==
    LET gate == gates[g]
        granted == Admitted(gate)
        exclusive == {r \in granted : Exclusive(r)}
    IN  /\ gate.scheduled
        /\ gates' = [gates EXCEPT ![g] = Granted(gate, exclusive, granted \ exclusive)]
        /\ pc' = [r \in Requests |-> IF r \in granted THEN "granted" ELSE pc[r]]
        /\ passed' = [r \in Requests |->
             IF r \in granted THEN 0
             ELSE IF exclusive # {} /\ r \in StartedShared(gate) THEN passed[r] + 1
             ELSE passed[r]]
        /\ UNCHANGED <<gateOf, aged, answered, actors, current>>

---------------------------------------------------------------------------
(* execute, after the gate has answered *)

Call(r) ==
    /\ pc[r] = "granted"
    /\ pc' = [pc EXCEPT ![r] = "running"]
    /\ UNCHANGED <<gateOf, aged, answered, actors, gates, current, passed>>

\* The callback settled or was never admitted: lease, reservation and actor are released.
Finish(r) ==
    LET a == ActorOf[r] IN
    /\ pc[r] \in {"refused", "running"}
    /\ pc' = [pc EXCEPT ![r] = "idle"]
    /\ gateOf' = [gateOf EXCEPT ![r] = NoGate]
    /\ answered' = answered \ {r}
    /\ NotifyIfIdle(a,
         [actors EXCEPT ![a] = Freed(@)],
         [gates EXCEPT ![gateOf[r]] = Settled(@, r)])
    /\ UNCHANGED <<aged, passed>>

Next ==
    \/ \E r \in Requests :
         Enqueue(r) \/ Age(r) \/ Abandon(r) \/ Abort(r) \/ Call(r) \/ Finish(r)
    \/ \E a \in Actors : Drain(a)
    \/ \E g \in Gates : GateDrain(g)

Spec == Init /\ [][Next]_vars

\* Microtasks run, time passes, and a callback settles at last; nobody has to ask,
\* to abort or to give up.
FairSpec ==
    /\ Spec
    /\ \A r \in Requests : WF_vars(Age(r) \/ Call(r) \/ Finish(r))
    /\ \A a \in Actors : WF_vars(Drain(a))
    /\ \A g \in Gates : WF_vars(GateDrain(g))

---------------------------------------------------------------------------
(* Properties *)

Running == {r \in Requests : pc[r] = "running"}

\* A browser callback runs alone and a tab runs one callback at a time, also while a
\* callback outlives its caller's patience and while actors and gates are dropped and
\* made again: two gates for one browser never both admit.
OneTurn ==
    \A r, s \in Running : r # s => ~Exclusive(r) /\ ~Exclusive(s) /\ ActorOf[r] # ActorOf[s]

\* What the gate in the map counts is what its requests hold, however they ended: no
\* reservation leaks, none is given back twice, and the queue stays within its limit.
GateAccounts ==
    \A g \in Gates :
        LET held == {r \in Requests : gateOf[r] = g}
            tabs == {r \in held : ~Exclusive(r)}
        IN  /\ held # {} => g = current
            /\ g = current =>
                 /\ gates[g].accepted = Cardinality(tabs)
                 /\ gates[g].pending = Cardinality({r \in tabs : pc[r] = "queued"})
                 /\ gates[g].queued = {r \in held : \/ pc[r] = "waiting"
                                                    \/ Exclusive(r) /\ pc[r] = "queued"}
                 /\ Sized(gates[g]) <= MaxQueueSize

\* A tab request that has reached the gate lets at most so many browser turns pass.
PassedBounded == \A r \in Requests : passed[r] <= MaxConsecutiveBrowserExclusives

CancellingStops == <>[][\A r \in Requests : ~Abandon(r) /\ ~Abort(r)]_vars

\* Every accepted request ends: bursts of other priorities, exclusive turns and dropped
\* actors never strand it.  (Only browser requests that are cancelled for ever, each
\* before its turn, could hold back the tabs: they do not count as turns.)
EveryRequestEnds ==
    CancellingStops => \A r \in Requests : pc[r] # "idle" ~> pc[r] = "idle"
=============================================================================
