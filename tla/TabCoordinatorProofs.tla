------------------------- MODULE TabCoordinatorProofs -------------------------
(***************************************************************************)
(* Proofs about the scheduler of a browser, for any number of requests,    *)
(* tabs and gates and for any limits.                                      *)
(*                                                                         *)
(* The invariants of the runs follow from Inv: an actor's queue and slot   *)
(* hold exactly the requests of its resource, all accepted requests hold   *)
(* the one gate that is in the map, and that gate's sets and counters are  *)
(* what those requests hold of it.                                         *)
(***************************************************************************)
EXTENDS TabCoordinator, FiniteSetTheorems, SequenceTheorems, TLAPS

---------------------------------------------------------------------------
(* Queues *)

\* The queue is a list of the set S without repetition.
Lists(queue, S) ==
    /\ queue \in Seq(S)
    /\ \A x \in S : \E i \in DOMAIN queue : queue[i] = x
    /\ \A i, j \in DOMAIN queue : queue[i] = queue[j] => i = j

\* A set of positions that is not empty has a least one.
LEMMA MinIsLeast ==
    ASSUME NEW S \in SUBSET Nat, S # {}
    PROVE  Min(S) \in S /\ \A n \in S : Min(S) <= n
<1> DEFINE Less == OpToRel(<, Nat)
<1>1. IsWellFoundedOn(Less, Nat)
  BY NatLessThanWellFounded
<1>2. \A m, n \in Nat : <<n, m>> \in Less <=> n < m
  BY DEF OpToRel
<1> HIDE DEF Less
<1>3. \E m \in S : \A n \in S : ~(<<n, m>> \in Less)
  BY <1>1, WFMin
<1>4. PICK m \in S : \A n \in S : ~(<<n, m>> \in Less)
  BY <1>3
<1>5. \A n \in S : m <= n
  <2> TAKE n \in S
  <2>1. n \in Nat /\ m \in Nat /\ ~(n < m)
    BY <1>2, <1>4
  <2> QED
    BY <2>1
<1> QED
  BY <1>5 DEF Min

LEMMA EmptyList == Lists(<<>>, {})
BY DEF Lists

LEMMA ListsAll ==
    ASSUME NEW queue, NEW S, Lists(queue, S)
    PROVE  /\ queue = <<>> <=> S = {}
           /\ queue \in Seq(S) /\ Len(queue) \in Nat /\ DOMAIN queue = 1 .. Len(queue)
           /\ \A i \in DOMAIN queue : queue[i] \in S
BY DEF Lists

LEMMA AppendLists ==
    ASSUME NEW queue, NEW S, Lists(queue, S), NEW x, x \notin S
    PROVE  Lists(Append(queue, x), S \cup {x})
<1> DEFINE T == S \cup {x}
           longer == Append(queue, x)
<1>1. queue \in Seq(T) /\ Len(queue) \in Nat /\ DOMAIN queue = 1 .. Len(queue)
  BY DEF Lists
<1>2. longer \in Seq(T) /\ DOMAIN longer = 1 .. Len(queue) + 1
  BY <1>1
<1>3. \A i \in DOMAIN queue : longer[i] = queue[i] /\ queue[i] \in S
  BY <1>1 DEF Lists
<1>4. longer[Len(queue) + 1] = x
  BY <1>1
<1>5. \A y \in T : \E i \in DOMAIN longer : longer[i] = y
  BY <1>1, <1>2, <1>3, <1>4 DEF Lists
<1>6. \A i, j \in DOMAIN longer : longer[i] = longer[j] => i = j
  BY <1>1, <1>2, <1>3, <1>4 DEF Lists
<1> QED
  BY <1>2, <1>5, <1>6 DEF Lists

LEMMA RemoveLists ==
    ASSUME NEW queue, NEW S, Lists(queue, S), NEW n \in DOMAIN queue
    PROVE  Lists(RemoveAt(queue, n), S \ {queue[n]})
<1> DEFINE T == S \ {queue[n]}
           left == SubSeq(queue, 1, n - 1)
           right == SubSeq(queue, n + 1, Len(queue))
           shorter == RemoveAt(queue, n)
<1>1. /\ Len(queue) \in Nat /\ n \in 1 .. Len(queue) /\ DOMAIN queue = 1 .. Len(queue)
      /\ \A i \in 1 .. Len(queue) : queue[i] \in S
  BY DEF Lists
<1>2. \A i \in 1 .. Len(queue) : i # n => queue[i] \in T
  BY <1>1 DEF Lists
<1>3. /\ left \in Seq(T) /\ Len(left) = n - 1
      /\ \A i \in 1 .. n - 1 : left[i] = queue[i]
  <2>1. \A i \in 1 .. n - 1 : queue[i] \in T
    BY <1>1, <1>2
  <2>2. /\ left \in Seq(T) /\ Len(left) = IF 1 <= n - 1 THEN (n - 1) - 1 + 1 ELSE 0
        /\ \A i \in 1 .. (n - 1) - 1 + 1 : left[i] = queue[1 + i - 1]
    BY <2>1, <1>1, SubSeqProperties
  <2> QED
    BY <2>2, <1>1
<1>4. /\ right \in Seq(T) /\ Len(right) = Len(queue) - n
      /\ \A i \in 1 .. Len(queue) - n : right[i] = queue[n + i]
  <2>1. \A i \in n + 1 .. Len(queue) : queue[i] \in T
    BY <1>1, <1>2
  <2>2. /\ right \in Seq(T)
        /\ Len(right) = IF n + 1 <= Len(queue) THEN Len(queue) - (n + 1) + 1 ELSE 0
        /\ \A i \in 1 .. Len(queue) - (n + 1) + 1 : right[i] = queue[(n + 1) + i - 1]
    BY <2>1, <1>1, SubSeqProperties
  <2> QED
    BY <2>2, <1>1
<1>5. /\ shorter \in Seq(T) /\ Len(shorter) = Len(queue) - 1
      /\ DOMAIN shorter = 1 .. Len(queue) - 1
      /\ \A i \in 1 .. Len(queue) - 1 :
            shorter[i] = IF i <= n - 1 THEN queue[i] ELSE queue[i + 1]
  <2>1. shorter = left \o right
    BY DEF RemoveAt
  <2> HIDE DEF left, right, shorter
  <2>2. /\ shorter \in Seq(T) /\ Len(shorter) = Len(left) + Len(right)
        /\ \A i \in 1 .. Len(left) + Len(right) :
              shorter[i] = IF i <= Len(left) THEN left[i] ELSE right[i - Len(left)]
    BY <2>1, <1>3, <1>4, ConcatProperties
  <2>3. DOMAIN shorter = 1 .. Len(shorter)
    BY <2>2
  <2>4. Len(left) = n - 1 /\ Len(right) = Len(queue) - n /\ n \in Nat /\ Len(queue) \in Nat
    BY <1>1, <1>3, <1>4
  <2>5. ASSUME NEW i \in 1 .. Len(queue) - 1
        PROVE  shorter[i] = IF i <= n - 1 THEN queue[i] ELSE queue[i + 1]
    <3>1. shorter[i] = IF i <= n - 1 THEN left[i] ELSE right[i - (n - 1)]
      BY <2>2, <2>4, <1>1
    <3>2. CASE i <= n - 1
      BY <3>1, <3>2, <1>3, <1>1
    <3>3. CASE i > n - 1
      <4>1. i - (n - 1) \in 1 .. Len(queue) - n /\ n + (i - (n - 1)) = i + 1
        BY <3>3, <1>1
      <4>2. right[i - (n - 1)] = queue[n + (i - (n - 1))]
        BY <4>1, <1>4
      <4> QED
        BY <4>1, <4>2, <3>1, <3>3, <1>1
    <3> QED
      BY <3>2, <3>3, <1>1
  <2> QED
    BY <2>2, <2>3, <2>4, <2>5, <1>1
<1> HIDE DEF shorter
<1>6. ASSUME NEW y \in T
      PROVE  \E i \in DOMAIN shorter : shorter[i] = y
  <2>1. PICK k \in 1 .. Len(queue) : queue[k] = y
    BY <1>1 DEF Lists
  <2>2. k # n
    BY <2>1
  <2>3. CASE k < n
    BY <2>1, <2>3, <1>1, <1>5
  <2>4. CASE k > n
    <3>1. k - 1 \in DOMAIN shorter /\ shorter[k - 1] = queue[k]
      BY <2>4, <1>1, <1>5
    <3> QED
      BY <3>1, <2>1
  <2> QED
    BY <2>2, <2>3, <2>4, <1>1
<1>7. ASSUME NEW i \in DOMAIN shorter, NEW j \in DOMAIN shorter, shorter[i] = shorter[j]
      PROVE  i = j
  <2> DEFINE At(k) == IF k <= n - 1 THEN k ELSE k + 1
  <2>1. At(i) \in DOMAIN queue /\ At(j) \in DOMAIN queue /\ queue[At(i)] = queue[At(j)]
    BY <1>1, <1>5, <1>7
  <2>2. At(i) = At(j)
    BY <2>1 DEF Lists
  <2> QED
    BY <2>2, <1>1, <1>5
<1> QED
  BY <1>5, <1>6, <1>7 DEF Lists, shorter

---------------------------------------------------------------------------
(* The inductive invariant *)

ActorState == [queue : Seq(Requests), active : SUBSET Requests,
               turns : [Priorities -> Nat], scheduled : BOOLEAN]
GateState == [queued : SUBSET Requests, shared : SUBSET Requests, exclusive : SUBSET Requests,
              consecutive : 0 .. MaxConsecutiveBrowserExclusives,
              accepted : Nat, pending : Nat, scheduled : BOOLEAN]

\* A request in one of these places holds the slot of its actor.
Slots == {"waiting", "refused", "granted", "running"}

Shapes ==
    /\ pc \in [Requests -> Places]
    /\ gateOf \in [Requests -> Gates \cup {NoGate}]
    /\ current \in Gates \cup {NoGate}
    /\ actors \in [Actors -> ActorState]
    /\ gates \in [Gates -> GateState]
    /\ passed \in [Requests -> Nat]
    /\ aged \subseteq {r \in Requests : pc[r] = "queued"}
    /\ answered \subseteq {r \in Requests : pc[r] \in {"refused", "granted", "running"}}

\* Every accepted request was admitted to the gate that is in the map.
OnCurrent ==
    \A r \in Requests : IF pc[r] = "idle" THEN gateOf[r] = NoGate
                        ELSE gateOf[r] = current /\ current \in Gates

\* An actor's queue and slot hold the requests of its resource, the slot at most one.
QueuedOn(a) == {r \in Requests : ActorOf[r] = a /\ pc[r] = "queued"}
SlotOf(a) == {r \in Requests : ActorOf[r] = a /\ pc[r] \in Slots}

InTurn ==
    \A a \in Actors :
        /\ Lists(actors[a].queue, QueuedOn(a))
        /\ actors[a].active = SlotOf(a)
        /\ \A r, s \in SlotOf(a) : r = s

\* What the requests hold of a gate, and what the gate says.
Tabs(g) == {r \in Requests : gateOf[r] = g /\ ~Exclusive(r)}
Reserved(g) == {r \in Requests : gateOf[r] = g /\ ~Exclusive(r) /\ pc[r] = "queued"}
WaitingAt(g) == {r \in Requests : gateOf[r] = g /\ (pc[r] = "waiting" \/ (Exclusive(r) /\ pc[r] = "queued"))}
ShareOf(g) == {r \in Requests : gateOf[r] = g /\ ~Exclusive(r) /\ pc[r] \in {"granted", "running"}}
OwnerOf(g) == {r \in Requests : gateOf[r] = g /\ Exclusive(r) /\ pc[r] \in {"granted", "running"}}

Accounts ==
    \A g \in Gates :
        /\ gates[g].accepted = Cardinality(Tabs(g))
        /\ gates[g].pending = Cardinality(Reserved(g))
        /\ gates[g].queued = WaitingAt(g)
        /\ gates[g].shared = ShareOf(g)
        /\ gates[g].exclusive = OwnerOf(g)

OneSide == \A g \in Gates : gates[g].shared = {} \/ gates[g].exclusive = {}

Fits == \A g \in Gates : Sized(gates[g]) <= MaxQueueSize

\* The three of one gate.
Books(g) ==
    /\ gates[g].accepted = Cardinality(Tabs(g))
    /\ gates[g].pending = Cardinality(Reserved(g))
    /\ gates[g].queued = WaitingAt(g)
    /\ gates[g].shared = ShareOf(g)
    /\ gates[g].exclusive = OwnerOf(g)
    /\ gates[g].shared = {} \/ gates[g].exclusive = {}
    /\ Sized(gates[g]) <= MaxQueueSize

\* Browser turns that pass a tab request at the gate are counted by the gate, too.
Patience ==
    \A r \in Requests :
        \/ passed[r] = 0
        \/ pc[r] = "waiting" /\ ~Exclusive(r) /\ passed[r] <= gates[gateOf[r]].consecutive

Inv == Shapes /\ OnCurrent /\ InTurn /\ Accounts /\ OneSide /\ Fits /\ Patience

---------------------------------------------------------------------------
(* The maps of actors and gates *)

LEMMA BrowserIsActor == Browser \in Actors /\ \A r \in Requests : ActorOf[r] \in Actors
BY DEF Actors

LEMMA NewOnes == NewActor \in ActorState /\ NewGate \in GateState
<1>1. <<>> \in Seq(Requests)
  OBVIOUS
<1> QED
  BY <1>1, LimitsAssumption DEF NewActor, NewGate, ActorState, GateState, Priorities

\* Making an idle actor anew changes neither its queue nor its slot.
LEMMA AnewIsSame ==
    ASSUME NEW as \in [Actors -> ActorState], NEW b \in Actors, ActorIdle(as[b])
    PROVE  LET bs == [as EXCEPT ![b] = NewActor]
           IN  /\ bs \in [Actors -> ActorState]
               /\ \A a \in Actors : /\ bs[a].queue = as[a].queue
                                    /\ bs[a].active = as[a].active
<1>1. NewActor \in ActorState /\ NewActor.queue = <<>> /\ NewActor.active = {}
  BY NewOnes DEF NewActor
<1> QED
  BY <1>1 DEF ActorIdle

LEMMA CleanUpKeeps ==
    ASSUME NEW as \in [Actors -> ActorState], NEW gs, NEW gate, CleanUp(as, gs, gate)
    PROVE  /\ gates' = gs
           /\ actors' \in [Actors -> ActorState]
           /\ \A a \in Actors : /\ actors'[a].queue = as[a].queue
                                /\ actors'[a].active = as[a].active
           /\ \/ current' = gate
              \/ current' = NoGate /\ GateIdle(gs[gate]) /\ ActorIdle(as[Browser])
<1>1. gates' = gs
  BY DEF CleanUp
<1>2. CASE gate # NoGate /\ GateIdle(gs[gate]) /\ ActorIdle(as[Browser])
  <2>1. current' = NoGate /\ actors' = [as EXCEPT ![Browser] = NewActor]
    BY <1>2 DEF CleanUp
  <2> QED
    BY <2>1, <1>1, <1>2, AnewIsSame, BrowserIsActor
<1>3. CASE ~(gate # NoGate /\ GateIdle(gs[gate]) /\ ActorIdle(as[Browser]))
  BY <1>3, <1>1 DEF CleanUp
<1> QED
  BY <1>2, <1>3

LEMMA NotifyKeeps ==
    ASSUME NEW as \in [Actors -> ActorState], NEW gs, NEW a \in Actors,
           NotifyIfIdle(a, as, gs)
    PROVE  /\ gates' = gs
           /\ actors' \in [Actors -> ActorState]
           /\ \A b \in Actors : /\ actors'[b].queue = as[b].queue
                                /\ actors'[b].active = as[b].active
           /\ \/ current' = current
              \/ current' = NoGate /\ GateIdle(gs[current]) /\ ActorIdle(as[Browser])
<1> DEFINE Idle == ActorIdle(as[a]) /\ (a = Browser /\ current # NoGate => GateIdle(gs[current]))
           bs == [as EXCEPT ![a] = NewActor]
<1>1. CASE Idle
  <2>1. CleanUp(bs, gs, current)
    BY <1>1 DEF NotifyIfIdle
  <2>2. /\ bs \in [Actors -> ActorState]
        /\ \A b \in Actors : bs[b].queue = as[b].queue /\ bs[b].active = as[b].active
    <3>1. ActorIdle(as[a])
      BY <1>1
    <3> QED
      BY <3>1, AnewIsSame
  <2>3. ActorIdle(bs[Browser]) <=> ActorIdle(as[Browser])
    BY <2>2, BrowserIsActor DEF ActorIdle
  <2> HIDE DEF bs
  <2> QED
    BY <2>1, <2>2, <2>3, CleanUpKeeps
<1>2. CASE ~Idle
  BY <1>2 DEF NotifyIfIdle
<1> QED
  BY <1>1, <1>2

LEMMA ScheduleKeeps ==
    ASSUME NEW actor \in ActorState
    PROVE  /\ ScheduleDrain(actor) \in ActorState
           /\ ScheduleDrain(actor).queue = actor.queue
           /\ ScheduleDrain(actor).active = actor.active
BY DEF ScheduleDrain, ActorState

---------------------------------------------------------------------------
(* The sets a gate counts *)

LEMMA CountsAreFinite ==
    /\ \A g : /\ IsFiniteSet(Tabs(g)) /\ Cardinality(Tabs(g)) \in Nat
              /\ IsFiniteSet(Reserved(g)) /\ Cardinality(Reserved(g)) \in Nat
              /\ IsFiniteSet(WaitingAt(g)) /\ Cardinality(WaitingAt(g)) \in Nat
    /\ Cardinality({}) = 0
<1>1. \A S \in SUBSET Requests : IsFiniteSet(S) /\ Cardinality(S) \in Nat
  BY RequestsAssumption, FS_Subset, FS_CardinalityType
<1>2. \A g : /\ Tabs(g) \in SUBSET Requests /\ Reserved(g) \in SUBSET Requests
             /\ WaitingAt(g) \in SUBSET Requests
  BY DEF Tabs, Reserved, WaitingAt
<1> QED
  BY <1>1, <1>2, FS_EmptySet

\* What an admission makes of a gate is a gate.
LEMMA AdmissionShapes ==
    ASSUME NEW gate \in GateState, NEW r \in Requests
    PROVE  /\ Accepted(gate, r) \in GateState
           /\ (~Exclusive(r) => gate.pending > 0)
              => Started(gate, r) \in GateState
           /\ (~Exclusive(r) => gate.accepted > 0 /\ gate.pending > 0)
              => Abandoned(gate, r) \in GateState
           /\ Cancelled(gate, r) \in GateState
           /\ (~Exclusive(r) => gate.accepted > 0)
              => Settled(gate, r) \in GateState
<1>1. /\ gate.queued \in SUBSET Requests /\ gate.shared \in SUBSET Requests
      /\ gate.exclusive \in SUBSET Requests
      /\ gate.accepted \in Nat /\ gate.pending \in Nat
  BY DEF GateState
<1>2. Accepted(gate, r) \in GateState /\ Cancelled(gate, r) \in GateState
  <2>1. Cancelled(gate, r) \in GateState
    BY <1>1 DEF Cancelled, GateState
  <2>2. CASE Exclusive(r)
    BY <2>1, <2>2, <1>1 DEF Accepted, GateState
  <2>3. CASE ~Exclusive(r)
    <3> DEFINE accepted == gate.accepted + 1
               pending == gate.pending + 1
    <3>1. Accepted(gate, r) = [gate EXCEPT !.accepted = accepted, !.pending = pending]
      BY <2>3 DEF Accepted
    <3>2. accepted \in Nat /\ pending \in Nat
      BY <1>1
    <3> HIDE DEF accepted, pending
    <3> QED
      BY <2>1, <3>1, <3>2 DEF GateState
  <2> QED
    BY <2>2, <2>3
<1>3. ASSUME ~Exclusive(r) => gate.pending > 0
      PROVE  Started(gate, r) \in GateState
  <2>1. CASE Exclusive(r)
    BY <2>1, <1>1 DEF Started, GateState
  <2>2. CASE ~Exclusive(r)
    <3> DEFINE pending == gate.pending - 1
               queued == gate.queued \cup {r}
    <3>1. Started(gate, r) = [gate EXCEPT !.pending = pending, !.queued = queued,
                                          !.scheduled = TRUE]
      BY <2>2 DEF Started
    <3>2. pending \in Nat /\ queued \in SUBSET Requests
      BY <1>1, <1>3, <2>2
    <3> HIDE DEF pending, queued
    <3> QED
      BY <3>1, <3>2 DEF GateState
  <2> QED
    BY <2>1, <2>2
<1>4. ASSUME ~Exclusive(r) => gate.accepted > 0 /\ gate.pending > 0
      PROVE  Abandoned(gate, r) \in GateState
  <2>1. CASE Exclusive(r)
    BY <2>1, <1>1 DEF Abandoned, GateState
  <2>2. CASE ~Exclusive(r)
    <3> DEFINE accepted == gate.accepted - 1
               pending == gate.pending - 1
    <3>1. Abandoned(gate, r) = [gate EXCEPT !.accepted = accepted, !.pending = pending]
      BY <2>2 DEF Abandoned
    <3>2. accepted \in Nat /\ pending \in Nat
      BY <1>1, <1>4, <2>2
    <3> HIDE DEF accepted, pending
    <3> QED
      BY <3>1, <3>2 DEF GateState
  <2> QED
    BY <2>1, <2>2
<1>5. ASSUME ~Exclusive(r) => gate.accepted > 0
      PROVE  Settled(gate, r) \in GateState
  <2> DEFINE scheduled == gate.scheduled \/ r \in gate.exclusive \cup gate.shared
             accepted == IF Exclusive(r) THEN gate.accepted ELSE gate.accepted - 1
             exclusive == gate.exclusive \ {r}
             shared == gate.shared \ {r}
  <2>1. scheduled \in BOOLEAN
    OBVIOUS
  <2>2. accepted \in Nat
    BY <1>1, <1>5
  <2>3. Settled(gate, r) = [gate EXCEPT !.exclusive = exclusive, !.shared = shared,
                                        !.scheduled = scheduled, !.accepted = accepted]
    BY DEF Settled
  <2>4. exclusive \in SUBSET Requests /\ shared \in SUBSET Requests
    BY <1>1
  <2> HIDE DEF scheduled, accepted, exclusive, shared
  <2> QED
    BY <2>1, <2>2, <2>3, <2>4 DEF GateState
<1> QED
  BY <1>2, <1>3, <1>4, <1>5

\* The one gate: what another gate counts is nothing.
LEMMA OthersAreEmpty ==
    ASSUME OnCurrent, GateAssumption, NEW g \in Gates, g # current
    PROVE  /\ Tabs(g) = {} /\ Reserved(g) = {} /\ WaitingAt(g) = {}
           /\ ShareOf(g) = {} /\ OwnerOf(g) = {}
<1>1. \A r \in Requests : gateOf[r] # g
  BY GateAssumption DEF OnCurrent
<1> QED
  BY <1>1 DEF Tabs, Reserved, WaitingAt, ShareOf, OwnerOf

---------------------------------------------------------------------------
(* Enqueue *)

GateFor == IF current # NoGate THEN current
           ELSE CHOOSE g \in Gates : \A q \in Requests : gateOf[q] # g
StateFor == IF current # NoGate THEN gates[GateFor] ELSE NewGate

LEMMA GateForOne ==
    ASSUME Shapes, OnCurrent, Accounts, OneSide
    PROVE  /\ GateFor \in Gates /\ StateFor \in GateState
           /\ current = NoGate => \A r \in Requests : pc[r] = "idle"
           /\ StateFor.accepted = Cardinality(Tabs(GateFor))
           /\ StateFor.pending = Cardinality(Reserved(GateFor))
           /\ StateFor.queued = WaitingAt(GateFor)
           /\ StateFor.shared = ShareOf(GateFor)
           /\ StateFor.exclusive = OwnerOf(GateFor)
           /\ StateFor.shared = {} \/ StateFor.exclusive = {}
           /\ \A g \in Gates : g # GateFor => \A r \in Requests : gateOf[r] # g
<1>1. CASE current # NoGate
  <2>1. GateFor = current /\ current \in Gates /\ StateFor = gates[current]
    BY <1>1 DEF GateFor, StateFor, Shapes
  <2> QED
    BY <1>1, <2>1, GateAssumption DEF Shapes, OnCurrent, Accounts, OneSide
<1>2. CASE current = NoGate
  <2>1. \A r \in Requests : pc[r] = "idle" /\ gateOf[r] = NoGate
    BY <1>2, GateAssumption DEF OnCurrent
  <2>2. \A g \in Gates : \A r \in Requests : gateOf[r] # g
    BY <2>1, GateAssumption
  <2>3. GateFor \in Gates /\ StateFor = NewGate
    BY <1>2, <2>2, GateAssumption DEF GateFor, StateFor
  <2>4. /\ Tabs(GateFor) = {} /\ Reserved(GateFor) = {} /\ WaitingAt(GateFor) = {}
        /\ ShareOf(GateFor) = {} /\ OwnerOf(GateFor) = {}
    BY <1>2, <2>3, OthersAreEmpty, GateAssumption
  <2>5. NewGate.accepted = 0 /\ NewGate.pending = 0 /\ NewGate.queued = {}
        /\ NewGate.shared = {} /\ NewGate.exclusive = {}
    BY DEF NewGate
  <2> QED
    BY <2>1, <2>2, <2>3, <2>4, <2>5, NewOnes, CountsAreFinite
<1> QED
  BY <1>1, <1>2

LEMMA EnqueueEffect ==
    ASSUME Inv, NEW r \in Requests, Enqueue(r)
    PROVE  /\ pc[r] = "idle" /\ pc' = [pc EXCEPT ![r] = "queued"]
           /\ gateOf' = [gateOf EXCEPT ![r] = GateFor]
           /\ current' = GateFor
           /\ gates' = [gates EXCEPT ![GateFor] = Accepted(StateFor, r)]
           /\ Sized(StateFor) < MaxQueueSize
           /\ actors' \in [Actors -> ActorState]
           /\ \A b \in Actors :
                 /\ actors'[b].queue = IF b = ActorOf[r] THEN Append(actors[b].queue, r)
                                       ELSE actors[b].queue
                 /\ actors'[b].active = actors[b].active
           /\ UNCHANGED <<aged, answered, passed>>
<1> DEFINE a == ActorOf[r]
           as == [actors EXCEPT ![a] = Pushed(@, r)]
           gs == [gates EXCEPT ![GateFor] = Accepted(StateFor, r)]
<1>1. /\ pc[r] = "idle" /\ pc' = [pc EXCEPT ![r] = "queued"]
      /\ gateOf' = [gateOf EXCEPT ![r] = GateFor]
      /\ Sized(StateFor) < MaxQueueSize
      /\ CleanUp(as, gs, GateFor)
      /\ UNCHANGED <<aged, answered, passed>>
  BY DEF Enqueue, GateFor, StateFor
<1>2. a \in Actors
  BY BrowserIsActor
<1>3. /\ as \in [Actors -> ActorState]
      /\ \A b \in Actors :
            /\ as[b].queue = IF b = a THEN Append(actors[b].queue, r) ELSE actors[b].queue
            /\ as[b].active = actors[b].active
  <2> DEFINE longer == [actors[a] EXCEPT !.queue = Append(@, r)]
  <2>1. longer \in ActorState /\ longer.queue = Append(actors[a].queue, r)
        /\ longer.active = actors[a].active
    <3>1. actors[a] \in ActorState
      BY <1>2 DEF Inv, Shapes
    <3>2. Append(actors[a].queue, r) \in Seq(Requests)
      BY <3>1 DEF ActorState
    <3> QED
      BY <3>1, <3>2 DEF ActorState
  <2>2. as = [actors EXCEPT ![a] = ScheduleDrain(longer)] /\ actors \in [Actors -> ActorState]
    BY DEF Inv, Shapes, Pushed
  <2> HIDE DEF longer, as
  <2> QED
    BY <1>2, <2>1, <2>2, ScheduleKeeps
<1>4. GateFor \in Gates /\ StateFor \in GateState
  BY GateForOne DEF Inv
<1>5. ~GateIdle(gs[GateFor])
  <2>1. gs[GateFor] = Accepted(StateFor, r)
    BY <1>4 DEF Inv, Shapes
  <2> HIDE DEF gs
  <2>2. CASE Exclusive(r)
    <3>1. r \in Accepted(StateFor, r).queued
      BY <2>2, <1>4 DEF Accepted, GateState
    <3> QED
      BY <2>1, <3>1 DEF GateIdle
  <2>3. CASE ~Exclusive(r)
    <3>1. Accepted(StateFor, r).accepted # 0
      BY <2>3, <1>4 DEF Accepted, GateState
    <3> QED
      BY <2>1, <3>1 DEF GateIdle
  <2> QED
    BY <2>2, <2>3
<1> HIDE DEF as, gs
<1>6. /\ gates' = gs /\ actors' \in [Actors -> ActorState] /\ current' = GateFor
      /\ \A b \in Actors : actors'[b].queue = as[b].queue /\ actors'[b].active = as[b].active
  BY <1>1, <1>3, <1>5, CleanUpKeeps
<1> QED
  BY <1>1, <1>3, <1>6 DEF gs

\* A request that was idle is queued.
LEMMA EnqueueInv ==
    ASSUME Inv, NEW r \in Requests, Enqueue(r)
    PROVE  Inv'
<1> DEFINE G == GateFor
           state == StateFor
<1> USE GateAssumption
<1>1. /\ pc[r] = "idle" /\ pc' = [pc EXCEPT ![r] = "queued"]
      /\ gateOf' = [gateOf EXCEPT ![r] = G]
      /\ current' = G
      /\ gates' = [gates EXCEPT ![G] = Accepted(state, r)]
      /\ Sized(state) < MaxQueueSize
      /\ actors' \in [Actors -> ActorState]
      /\ \A b \in Actors :
            /\ actors'[b].queue = IF b = ActorOf[r] THEN Append(actors[b].queue, r)
                                  ELSE actors[b].queue
            /\ actors'[b].active = actors[b].active
      /\ UNCHANGED <<aged, answered, passed>>
  BY EnqueueEffect
<1>2. /\ G \in Gates /\ state \in GateState
      /\ current = NoGate => \A q \in Requests : pc[q] = "idle"
      /\ state.accepted = Cardinality(Tabs(G)) /\ state.pending = Cardinality(Reserved(G))
      /\ state.queued = WaitingAt(G) /\ state.shared = ShareOf(G)
      /\ state.exclusive = OwnerOf(G)
      /\ state.shared = {} \/ state.exclusive = {}
      /\ \A g \in Gates : g # G => \A q \in Requests : gateOf[q] # g
  BY GateForOne DEF Inv
<1>3. current # NoGate => G = current /\ state = gates[G]
  BY DEF GateFor, StateFor
<1> HIDE DEF G, state
<1>4. Accepted(state, r) \in GateState
  BY <1>2, AdmissionShapes
<1>5. Shapes'
  BY <1>1, <1>2, <1>4 DEF Inv, Shapes, Places
<1>6. OnCurrent'
  BY <1>1, <1>2, <1>3 DEF Inv, Shapes, OnCurrent
<1>7. InTurn'
  <2> SUFFICES ASSUME NEW a \in Actors
               PROVE  /\ Lists(actors'[a].queue, QueuedOn(a)')
                      /\ actors'[a].active = SlotOf(a)'
                      /\ \A p, q \in SlotOf(a)' : p = q
    BY DEF InTurn
  <2>1. SlotOf(a)' = SlotOf(a)
    BY <1>1 DEF Inv, Shapes, SlotOf, Slots
  <2>2. CASE a = ActorOf[r]
    <3>1. QueuedOn(a)' = QueuedOn(a) \cup {r} /\ r \notin QueuedOn(a)
      BY <1>1, <2>2 DEF Inv, Shapes, QueuedOn
    <3> QED
      BY <3>1, <2>1, <2>2, <1>1, AppendLists DEF Inv, InTurn
  <2>3. CASE a # ActorOf[r]
    <3>1. QueuedOn(a)' = QueuedOn(a)
      BY <1>1, <2>3 DEF Inv, Shapes, QueuedOn
    <3> QED
      BY <3>1, <2>1, <2>3, <1>1 DEF Inv, InTurn
  <2> QED
    BY <2>2, <2>3
<1>8. gateOf[r] = NoGate /\ gateOf[r] # G
  BY <1>1, <1>2 DEF Inv, OnCurrent
<1>9. Accounts' /\ OneSide' /\ Fits'
  <2> SUFFICES ASSUME NEW g \in Gates
               PROVE  Books(g)'
    BY DEF Books, Accounts, OneSide, Fits
  <2>1. CASE g # G
    <3>1. gates'[g] = gates[g] /\ \A q \in Requests : gateOf'[q] = g <=> gateOf[q] = g
      BY <1>1, <1>2, <1>8, <2>1 DEF Inv, Shapes
    <3>2. \A q \in Requests : gateOf'[q] # g /\ gateOf[q] # g
      BY <3>1, <1>2, <2>1
    <3>3. /\ Tabs(g)' = Tabs(g) /\ Reserved(g)' = Reserved(g) /\ WaitingAt(g)' = WaitingAt(g)
          /\ ShareOf(g)' = ShareOf(g) /\ OwnerOf(g)' = OwnerOf(g)
      BY <3>2 DEF Tabs, Reserved, WaitingAt, ShareOf, OwnerOf
    <3> QED
      BY <3>1, <3>3 DEF Inv, Accounts, OneSide, Fits, Books
  <2>2. CASE g = G
    <3>1. gates'[g] = Accepted(state, r)
      BY <1>1, <1>2, <2>2 DEF Inv, Shapes
    <3>2. ShareOf(g)' = ShareOf(G) /\ OwnerOf(g)' = OwnerOf(G)
      BY <1>1, <1>8, <2>2 DEF Inv, Shapes, ShareOf, OwnerOf
    <3>3. CASE Exclusive(r)
      <4>1. /\ Tabs(g)' = Tabs(G) /\ Reserved(g)' = Reserved(G)
            /\ WaitingAt(g)' = WaitingAt(G) \cup {r} /\ r \notin WaitingAt(G)
        BY <1>1, <1>8, <2>2, <3>3
           DEF Inv, Shapes, Tabs, Reserved, WaitingAt, Exclusive
      <4>2. Accepted(state, r) = [state EXCEPT !.queued = state.queued \cup {r}]
        BY <3>3 DEF Accepted
      <4>3. Cardinality(WaitingAt(G) \cup {r}) = Cardinality(WaitingAt(G)) + 1
        BY <4>1, CountsAreFinite, FS_AddElement
      <4> QED
        BY <3>1, <3>2, <4>1, <4>2, <4>3, <1>1, <1>2, CountsAreFinite, LimitsAssumption
           DEF GateState, Sized, Books
    <3>4. CASE ~Exclusive(r)
      <4>1. /\ Tabs(g)' = Tabs(G) \cup {r} /\ r \notin Tabs(G)
            /\ Reserved(g)' = Reserved(G) \cup {r} /\ r \notin Reserved(G)
            /\ WaitingAt(g)' = WaitingAt(G)
        BY <1>1, <1>8, <2>2, <3>4
           DEF Inv, Shapes, Tabs, Reserved, WaitingAt, Exclusive
      <4>2. Accepted(state, r) = [state EXCEPT !.accepted = state.accepted + 1,
                                               !.pending = state.pending + 1]
        BY <3>4 DEF Accepted
      <4>3. /\ Cardinality(Tabs(G) \cup {r}) = Cardinality(Tabs(G)) + 1
            /\ Cardinality(Reserved(G) \cup {r}) = Cardinality(Reserved(G)) + 1
        BY <4>1, CountsAreFinite, FS_AddElement
      <4> QED
        BY <3>1, <3>2, <4>1, <4>2, <4>3, <1>1, <1>2, CountsAreFinite, LimitsAssumption
           DEF GateState, Sized, Books
    <3> QED
      BY <3>3, <3>4
  <2> QED
    BY <2>1, <2>2
<1>10. Patience'
  <2> SUFFICES ASSUME NEW q \in Requests, passed[q] # 0
               PROVE  pc'[q] = "waiting" /\ ~Exclusive(q)
                      /\ passed[q] <= gates'[gateOf'[q]].consecutive
    BY <1>1 DEF Patience, Exclusive
  <2>1. pc[q] = "waiting" /\ ~Exclusive(q) /\ passed[q] <= gates[gateOf[q]].consecutive
    BY DEF Inv, Patience
  <2>2. gateOf[q] = G /\ state = gates[G] /\ q # r
    BY <2>1, <1>1, <1>3 DEF Inv, OnCurrent
  <2>3. gates'[G].consecutive = gates[G].consecutive
    BY <2>2, <1>1, <1>2 DEF Accepted, GateState, Inv, Shapes
  <2> QED
    BY <2>1, <2>2, <2>3, <1>1 DEF Inv, Shapes
<1> QED
  BY <1>5, <1>6, <1>7, <1>9, <1>10 DEF Inv

---------------------------------------------------------------------------
(* Leaving: Abandon and Finish *)

\* If a gate and the browser's actor are idle, nobody holds the gate.
IdleMeansFree ==
    \A g \in Gates :
        GateIdle(gates[g]) /\ ActorIdle(actors[Browser])
        => \A r \in Requests : gateOf[r] = g => pc[r] = "idle"

LEMMA IdleGateIsFree == pc \in [Requests -> Places] /\ Accounts /\ InTurn => IdleMeansFree
<1> SUFFICES ASSUME pc \in [Requests -> Places], Accounts, InTurn, NEW g \in Gates,
                    GateIdle(gates[g]), ActorIdle(actors[Browser]),
                    NEW r \in Requests, gateOf[r] = g, pc[r] # "idle"
             PROVE  FALSE
  BY DEF IdleMeansFree
<1>1. CASE Exclusive(r)
  <2>1. Lists(<<>>, QueuedOn(Browser)) /\ SlotOf(Browser) = {}
    BY BrowserIsActor DEF InTurn, ActorIdle
  <2>2. QueuedOn(Browser) = {}
    BY <2>1, ListsAll
  <2> QED
    BY <1>1, <2>1, <2>2 DEF Exclusive, QueuedOn, SlotOf, Slots, Places
<1>2. CASE ~Exclusive(r)
  <2>1. r \in Tabs(g)
    BY <1>2 DEF Tabs
  <2>2. Cardinality(Tabs(g)) = 0
    BY DEF Accounts, GateIdle
  <2> QED
    BY <2>1, <2>2, CountsAreFinite, FS_EmptySet
<1> QED
  BY <1>1, <1>2

LEMMA LeavesTheGate ==
    ASSUME Inv, NEW r \in Requests, pc' = [pc EXCEPT ![r] = "idle"],
           gateOf' = [gateOf EXCEPT ![r] = NoGate], Accounts', InTurn',
           \/ current' = current
           \/ /\ current \in Gates /\ current' = NoGate
              /\ GateIdle(gates'[current]) /\ ActorIdle(actors'[Browser])
    PROVE  OnCurrent'
<1>1. pc' \in [Requests -> Places]
  BY DEF Inv, Shapes, Places
<1>2. CASE current' = current
  BY <1>2 DEF Inv, Shapes, OnCurrent
<1>3. CASE /\ current \in Gates /\ current' = NoGate
           /\ GateIdle(gates'[current]) /\ ActorIdle(actors'[Browser])
  <2>1. PICK g \in Gates : g = current
    BY <1>3
  <2>2. \A q \in Requests : gateOf'[q] = g => pc'[q] = "idle"
    <3>1. (pc \in [Requests -> Places] /\ Accounts /\ InTurn => IdleMeansFree)'
      BY IdleGateIsFree, PTL
    <3>2. GateIdle(gates'[g]) /\ ActorIdle(actors'[Browser])
      BY <1>3, <2>1
    <3> QED
      BY <3>1, <3>2, <1>1 DEF IdleMeansFree
  <2>3. \A q \in Requests : pc'[q] # "idle" => gateOf'[q] = g
    BY <2>1 DEF Inv, Shapes, OnCurrent
  <2>4. \A q \in Requests : pc'[q] = "idle"
    BY <2>2, <2>3
  <2>5. \A q \in Requests : gateOf'[q] = NoGate
    <3> TAKE q \in Requests
    <3>1. CASE q = r
      BY <3>1 DEF Inv, Shapes
    <3>2. CASE q # r
      <4>1. pc[q] = "idle" /\ gateOf'[q] = gateOf[q]
        BY <3>2, <2>4 DEF Inv, Shapes
      <4> QED
        BY <4>1 DEF Inv, OnCurrent
    <3> QED
      BY <3>1, <3>2
  <2> QED
    BY <2>4, <2>5 DEF OnCurrent
<1> QED
  BY <1>2, <1>3

LEMMA AbandonEffect ==
    ASSUME Inv, NEW r \in Requests, Abandon(r)
    PROVE  /\ pc[r] = "queued" /\ pc' = [pc EXCEPT ![r] = "idle"]
           /\ gateOf' = [gateOf EXCEPT ![r] = NoGate]
           /\ aged' = aged \ {r}
           /\ gateOf[r] = current /\ current \in Gates
           /\ gates' = [gates EXCEPT ![current] = Abandoned(gates[current], r)]
           /\ \/ current' = current
              \/ /\ current' = NoGate
                 /\ GateIdle(gates'[current]) /\ ActorIdle(actors'[Browser])
           /\ actors' \in [Actors -> ActorState]
           /\ \A b \in Actors :
                 /\ actors'[b].active = actors[b].active
                 /\ b # ActorOf[r] => actors'[b].queue = actors[b].queue
                 /\ b = ActorOf[r] => Lists(actors'[b].queue, QueuedOn(b) \ {r})
           /\ UNCHANGED <<answered, passed>>
<1> DEFINE a == ActorOf[r]
           as == [actors EXCEPT ![a] = Removed(@, r)]
           gs == [gates EXCEPT ![gateOf[r]] = Abandoned(@, r)]
<1>1. /\ pc[r] = "queued" /\ pc' = [pc EXCEPT ![r] = "idle"]
      /\ gateOf' = [gateOf EXCEPT ![r] = NoGate]
      /\ aged' = aged \ {r}
      /\ NotifyIfIdle(a, as, gs)
      /\ UNCHANGED <<answered, passed>>
  BY DEF Abandon
<1>2. gateOf[r] = current /\ current \in Gates
  BY <1>1 DEF Inv, OnCurrent
<1>3. a \in Actors
  BY BrowserIsActor
<1>4. /\ as \in [Actors -> ActorState]
      /\ \A b \in Actors :
            /\ as[b].active = actors[b].active
            /\ b # a => as[b].queue = actors[b].queue
            /\ b = a => Lists(as[b].queue, QueuedOn(b) \ {r})
  <2> DEFINE queue == actors[a].queue
             n == PositionOf(queue, r)
             shorter == [actors[a] EXCEPT !.queue = RemoveAt(queue, n)]
  <2>1. Lists(queue, QueuedOn(a)) /\ r \in QueuedOn(a)
    BY <1>1, <1>3 DEF Inv, InTurn, QueuedOn
  <2>2. n \in DOMAIN queue /\ queue[n] = r
    BY <2>1 DEF Lists, PositionOf
  <2>3. Lists(RemoveAt(queue, n), QueuedOn(a) \ {r})
    BY <2>1, <2>2, RemoveLists
  <2>4. shorter \in ActorState /\ shorter.queue = RemoveAt(queue, n)
        /\ shorter.active = actors[a].active
    <3>1. actors[a] \in ActorState
      BY <1>3 DEF Inv, Shapes
    <3>2. RemoveAt(queue, n) \in Seq(Requests)
      <4>1. RemoveAt(queue, n) \in Seq(QueuedOn(a) \ {r})
        BY <2>3 DEF Lists
      <4>2. QueuedOn(a) \ {r} \subseteq Requests
        BY DEF QueuedOn
      <4> QED
        BY <4>1, <4>2, SeqMonotonic
    <3> QED
      BY <3>1, <3>2 DEF ActorState
  <2>5. as = [actors EXCEPT ![a] = ScheduleDrain(shorter)] /\ actors \in [Actors -> ActorState]
    BY DEF Inv, Shapes, Removed
  <2> HIDE DEF shorter, as, n
  <2> QED
    BY <1>3, <2>3, <2>4, <2>5, ScheduleKeeps
<1> HIDE DEF as, gs
<1>5. /\ gates' = gs
      /\ actors' \in [Actors -> ActorState]
      /\ \A b \in Actors : actors'[b].queue = as[b].queue /\ actors'[b].active = as[b].active
      /\ \/ current' = current
         \/ current' = NoGate /\ GateIdle(gs[current]) /\ ActorIdle(as[Browser])
  BY <1>1, <1>3, <1>4, NotifyKeeps
<1>6. gs = [gates EXCEPT ![current] = Abandoned(gates[current], r)]
  BY <1>2 DEF gs, Inv, Shapes
<1>7. ActorIdle(as[Browser]) => ActorIdle(actors'[Browser])
  BY <1>5, BrowserIsActor DEF ActorIdle
<1> QED
  BY <1>1, <1>2, <1>4, <1>5, <1>6, <1>7

\* Gates that a step does not touch.
LEMMA OtherBooks ==
    ASSUME Inv, NEW g \in Gates, g # current, gates'[g] = gates[g],
           \A q \in Requests : gateOf'[q] # g
    PROVE  Books(g)'
<1>1. /\ Tabs(g) = {} /\ Reserved(g) = {} /\ WaitingAt(g) = {}
      /\ ShareOf(g) = {} /\ OwnerOf(g) = {}
  BY OthersAreEmpty, GateAssumption DEF Inv
<1>2. /\ Tabs(g)' = {} /\ Reserved(g)' = {} /\ WaitingAt(g)' = {}
      /\ ShareOf(g)' = {} /\ OwnerOf(g)' = {}
  BY DEF Tabs, Reserved, WaitingAt, ShareOf, OwnerOf
<1> QED
  BY <1>1, <1>2 DEF Inv, Accounts, OneSide, Fits, Books

\* One less of a finite set.
LEMMA OneLess ==
    ASSUME NEW S \in SUBSET Requests, NEW r \in S
    PROVE  /\ Cardinality(S) \in Nat /\ Cardinality(S) > 0
           /\ Cardinality(S \ {r}) \in Nat
           /\ Cardinality(S \ {r}) = Cardinality(S) - 1
<1>1. IsFiniteSet(S) /\ IsFiniteSet(S \ {r})
  BY RequestsAssumption, FS_Subset
<1>2. Cardinality(S) \in Nat /\ Cardinality(S \ {r}) \in Nat
  BY <1>1, FS_CardinalityType
<1>3. Cardinality(S \ {r}) = Cardinality(S) - 1
  BY <1>1, FS_RemoveElement
<1> QED
  BY <1>2, <1>3

LEMMA AbandonInv ==
    ASSUME Inv, NEW r \in Requests, Abandon(r)
    PROVE  Inv'
<1> DEFINE G == current
           gate == gates[current]
<1> USE GateAssumption
<1>1. /\ pc[r] = "queued" /\ pc' = [pc EXCEPT ![r] = "idle"]
      /\ gateOf' = [gateOf EXCEPT ![r] = NoGate]
      /\ aged' = aged \ {r}
      /\ gateOf[r] = G /\ G \in Gates
      /\ gates' = [gates EXCEPT ![G] = Abandoned(gate, r)]
      /\ \/ current' = G
         \/ /\ current' = NoGate
            /\ GateIdle(gates'[G]) /\ ActorIdle(actors'[Browser])
      /\ actors' \in [Actors -> ActorState]
      /\ \A b \in Actors :
            /\ actors'[b].active = actors[b].active
            /\ b # ActorOf[r] => actors'[b].queue = actors[b].queue
            /\ b = ActorOf[r] => Lists(actors'[b].queue, QueuedOn(b) \ {r})
      /\ UNCHANGED <<answered, passed>>
  BY AbandonEffect
<1>2. /\ gate \in GateState
      /\ gate.accepted = Cardinality(Tabs(G)) /\ gate.pending = Cardinality(Reserved(G))
      /\ gate.queued = WaitingAt(G) /\ gate.shared = ShareOf(G)
      /\ gate.exclusive = OwnerOf(G)
      /\ gate.shared = {} \/ gate.exclusive = {}
      /\ Sized(gate) <= MaxQueueSize
  BY <1>1 DEF Inv, Accounts, OneSide, Fits, Shapes
<1>3. ~Exclusive(r) => r \in Tabs(G) /\ r \in Reserved(G)
  BY <1>1 DEF Tabs, Reserved
<1>4. /\ Tabs(G) \in SUBSET Requests /\ Reserved(G) \in SUBSET Requests
      /\ WaitingAt(G) \in SUBSET Requests
  BY DEF Tabs, Reserved, WaitingAt
<1>5. Abandoned(gate, r) \in GateState
  <2>1. ~Exclusive(r) => gate.accepted > 0 /\ gate.pending > 0
    BY <1>2, <1>3, <1>4, OneLess
  <2> QED
    BY <1>2, <2>1, AdmissionShapes
<1>6. Shapes'
  BY <1>1, <1>5 DEF Inv, Shapes, Places
<1>7. InTurn'
  <2> SUFFICES ASSUME NEW a \in Actors
               PROVE  /\ Lists(actors'[a].queue, QueuedOn(a)')
                      /\ actors'[a].active = SlotOf(a)'
                      /\ \A p, q \in SlotOf(a)' : p = q
    BY DEF InTurn
  <2>1. SlotOf(a)' = SlotOf(a)
    BY <1>1 DEF Inv, Shapes, SlotOf, Slots
  <2>2. QueuedOn(a)' = IF a = ActorOf[r] THEN QueuedOn(a) \ {r} ELSE QueuedOn(a)
    BY <1>1 DEF Inv, Shapes, QueuedOn
  <2> QED
    BY <2>1, <2>2, <1>1 DEF Inv, InTurn
<1>8. ASSUME NEW g \in Gates
      PROVE  Books(g)'
  <2>1. CASE g # G
    <3>1. gates'[g] = gates[g] /\ \A q \in Requests : gateOf'[q] # g
      BY <1>1, <2>1 DEF Inv, Shapes, OnCurrent
    <3> QED
      BY <3>1, <2>1, OtherBooks
  <2>2. CASE g = G
    <3>1. gates'[g] = Abandoned(gate, r)
      BY <1>1, <2>2 DEF Inv, Shapes
    <3>2. ShareOf(g)' = ShareOf(G) /\ OwnerOf(g)' = OwnerOf(G)
      BY <1>1, <2>2 DEF Inv, Shapes, ShareOf, OwnerOf
    <3>3. CASE Exclusive(r)
      <4>1. /\ Tabs(g)' = Tabs(G) /\ Reserved(g)' = Reserved(G)
            /\ WaitingAt(g)' = WaitingAt(G) \ {r} /\ r \in WaitingAt(G)
        BY <1>1, <2>2, <3>3 DEF Inv, Shapes, Tabs, Reserved, WaitingAt, Exclusive
      <4>2. Abandoned(gate, r) = [gate EXCEPT !.queued = gate.queued \ {r}, !.scheduled = TRUE]
        BY <3>3 DEF Abandoned
      <4> HIDE DEF gate
      <4> QED
        BY <3>1, <3>2, <4>1, <4>2, <1>2, <1>4, OneLess, CountsAreFinite, LimitsAssumption
           DEF GateState, Sized, Books
    <3>4. CASE ~Exclusive(r)
      <4>1. /\ Tabs(g)' = Tabs(G) \ {r} /\ Reserved(g)' = Reserved(G) \ {r}
            /\ WaitingAt(g)' = WaitingAt(G)
        BY <1>1, <2>2, <3>4 DEF Inv, Shapes, Tabs, Reserved, WaitingAt, Exclusive
      <4>2. Abandoned(gate, r) = [gate EXCEPT !.accepted = gate.accepted - 1,
                                              !.pending = gate.pending - 1]
        BY <3>4 DEF Abandoned
      <4> HIDE DEF gate
      <4> QED
        BY <3>1, <3>2, <3>4, <4>1, <4>2, <1>2, <1>3, <1>4, OneLess, CountsAreFinite,
           LimitsAssumption
           DEF GateState, Sized, Books
    <3> QED
      BY <3>3, <3>4
  <2> QED
    BY <2>1, <2>2
<1>9. Accounts' /\ OneSide' /\ Fits'
  BY <1>8 DEF Accounts, OneSide, Fits, Books
<1>10. OnCurrent'
  BY <1>1, <1>7, <1>9, LeavesTheGate
<1>11. Patience'
  <2> SUFFICES ASSUME NEW q \in Requests, passed[q] # 0
               PROVE  pc'[q] = "waiting" /\ ~Exclusive(q)
                      /\ passed[q] <= gates'[gateOf'[q]].consecutive
    BY <1>1 DEF Patience, Exclusive
  <2>1. pc[q] = "waiting" /\ ~Exclusive(q) /\ passed[q] <= gates[gateOf[q]].consecutive
    BY DEF Inv, Patience
  <2>2. gateOf[q] = G /\ q # r
    BY <2>1, <1>1 DEF Inv, OnCurrent
  <2>3. gates'[G].consecutive = gate.consecutive
    BY <1>1, <1>2 DEF Abandoned, GateState, Inv, Shapes
  <2> QED
    BY <2>1, <2>2, <2>3, <1>1 DEF Inv, Shapes
<1> QED
  BY <1>6, <1>7, <1>9, <1>10, <1>11 DEF Inv

---------------------------------------------------------------------------
(* Age, Call and Abort *)

\* A step that leaves everything a request holds where it is.
LEMMA HoldingsKept ==
    ASSUME Inv, UNCHANGED <<gateOf, actors, gates, current>>,
           pc' \in [Requests -> Places],
           \A q \in Requests : \/ pc'[q] = pc[q]
                               \/ pc[q] = "granted" /\ pc'[q] = "running"
    PROVE  OnCurrent' /\ InTurn' /\ Accounts' /\ OneSide' /\ Fits'
<1>1. OnCurrent'
  BY DEF Inv, OnCurrent
<1>2. \A a \in Actors : QueuedOn(a)' = QueuedOn(a) /\ SlotOf(a)' = SlotOf(a)
  BY DEF QueuedOn, SlotOf, Slots
<1>3. InTurn'
  BY <1>2 DEF Inv, InTurn
<1>4. \A g \in Gates :
         /\ Tabs(g)' = Tabs(g) /\ Reserved(g)' = Reserved(g) /\ WaitingAt(g)' = WaitingAt(g)
         /\ ShareOf(g)' = ShareOf(g) /\ OwnerOf(g)' = OwnerOf(g)
  BY DEF Tabs, Reserved, WaitingAt, ShareOf, OwnerOf
<1>5. Accounts' /\ OneSide' /\ Fits'
  BY <1>4 DEF Inv, Accounts, OneSide, Fits
<1> QED
  BY <1>1, <1>3, <1>5

LEMMA AgeInv ==
    ASSUME Inv, NEW r \in Requests, Age(r)
    PROVE  Inv'
<1>1. Shapes' /\ pc' \in [Requests -> Places] /\ pc' = pc
  BY DEF Age, Inv, Shapes
<1>2. Patience'
  BY DEF Age, Inv, Patience
<1> QED
  BY <1>1, <1>2, HoldingsKept DEF Age, Inv

LEMMA CallInv ==
    ASSUME Inv, NEW r \in Requests, Call(r)
    PROVE  Inv'
<1>1. pc[r] = "granted" /\ pc' = [pc EXCEPT ![r] = "running"]
      /\ UNCHANGED <<gateOf, aged, answered, actors, gates, current, passed>>
  BY DEF Call
<1>2. Shapes'
  BY <1>1 DEF Inv, Shapes, Places
<1>3. Patience'
  BY <1>1 DEF Inv, Shapes, Patience
<1>4. \A q \in Requests : \/ pc'[q] = pc[q]
                          \/ pc[q] = "granted" /\ pc'[q] = "running"
  BY <1>1 DEF Inv, Shapes
<1> QED
  BY <1>1, <1>2, <1>3, <1>4, HoldingsKept DEF Inv, Shapes

\* A waiter at the gate is cancelled.
LEMMA CancelInv ==
    ASSUME Inv, NEW r \in Requests, Abort(r), pc[r] = "waiting"
    PROVE  Inv'
<1> DEFINE G == current
           gate == gates[current]
<1> USE GateAssumption
<1>1. /\ gateOf[r] = G /\ G \in Gates
      /\ pc' = [pc EXCEPT ![r] = "refused"]
      /\ gates' = [gates EXCEPT ![G] = Cancelled(gate, r)]
      /\ answered' = answered \cup {r}
      /\ passed' = [passed EXCEPT ![r] = 0]
      /\ UNCHANGED <<gateOf, aged, actors, current>>
  BY DEF Abort, Inv, OnCurrent
<1>2. /\ gate \in GateState
      /\ gate.accepted = Cardinality(Tabs(G)) /\ gate.pending = Cardinality(Reserved(G))
      /\ gate.queued = WaitingAt(G) /\ gate.shared = ShareOf(G)
      /\ gate.exclusive = OwnerOf(G)
      /\ gate.shared = {} \/ gate.exclusive = {}
      /\ Sized(gate) <= MaxQueueSize
  BY <1>1 DEF Inv, Accounts, OneSide, Fits, Shapes
<1>3. Cancelled(gate, r) \in GateState
  BY <1>2, AdmissionShapes
<1>4. Shapes'
  BY <1>1, <1>3 DEF Inv, Shapes, Places
<1>5. OnCurrent'
  BY <1>1 DEF Inv, Shapes, OnCurrent
<1>6. InTurn'
  <2>1. \A a \in Actors : QueuedOn(a)' = QueuedOn(a) /\ SlotOf(a)' = SlotOf(a)
    BY <1>1 DEF Inv, Shapes, QueuedOn, SlotOf, Slots
  <2> QED
    BY <2>1, <1>1 DEF Inv, InTurn
<1>7. ASSUME NEW g \in Gates
      PROVE  Books(g)'
  <2>1. CASE g # G
    <3>1. gates'[g] = gates[g] /\ \A q \in Requests : gateOf'[q] # g
      BY <1>1, <2>1 DEF Inv, Shapes, OnCurrent
    <3> QED
      BY <3>1, <2>1, OtherBooks
  <2>2. CASE g = G
    <3>1. gates'[g] = Cancelled(gate, r)
      BY <1>1, <2>2 DEF Inv, Shapes
    <3>2. /\ ShareOf(g)' = ShareOf(G) /\ OwnerOf(g)' = OwnerOf(G)
          /\ Tabs(g)' = Tabs(G) /\ Reserved(g)' = Reserved(G)
          /\ WaitingAt(g)' = WaitingAt(G) \ {r} /\ r \in WaitingAt(G)
      BY <1>1, <2>2
         DEF Inv, Shapes, ShareOf, OwnerOf, Tabs, Reserved, WaitingAt
    <3>3. Cancelled(gate, r) = [gate EXCEPT !.queued = gate.queued \ {r}, !.scheduled = TRUE]
      BY DEF Cancelled
    <3>4. WaitingAt(G) \in SUBSET Requests
      BY DEF WaitingAt
    <3> HIDE DEF gate
    <3> QED
      BY <3>1, <3>2, <3>3, <3>4, <1>2, OneLess, CountsAreFinite, LimitsAssumption
         DEF GateState, Sized, Books
  <2> QED
    BY <2>1, <2>2
<1>8. Accounts' /\ OneSide' /\ Fits'
  BY <1>7 DEF Accounts, OneSide, Fits, Books
<1>9. Patience'
  <2> SUFFICES ASSUME NEW q \in Requests, passed'[q] # 0
               PROVE  pc'[q] = "waiting" /\ ~Exclusive(q)
                      /\ passed'[q] <= gates'[gateOf'[q]].consecutive
    BY DEF Patience, Exclusive
  <2>1. q # r /\ passed'[q] = passed[q]
    BY <1>1 DEF Inv, Shapes
  <2>2. pc[q] = "waiting" /\ ~Exclusive(q) /\ passed[q] <= gates[gateOf[q]].consecutive
    BY <2>1 DEF Inv, Patience
  <2>3. gateOf[q] = G
    BY <2>2 DEF Inv, OnCurrent
  <2>4. gates'[G].consecutive = gate.consecutive
    BY <1>1, <1>2 DEF Cancelled, GateState, Inv, Shapes
  <2> QED
    BY <2>1, <2>2, <2>3, <2>4, <1>1 DEF Inv, Shapes
<1> QED
  BY <1>4, <1>5, <1>6, <1>8, <1>9 DEF Inv

LEMMA AbortInv ==
    ASSUME Inv, NEW r \in Requests, Abort(r)
    PROVE  Inv'
<1>1. CASE pc[r] = "waiting"
  BY <1>1, CancelInv
<1>2. CASE pc[r] # "waiting"
  <2>1. /\ pc[r] \in {"granted", "running"} /\ answered' = answered \cup {r}
        /\ UNCHANGED <<pc, gateOf, aged, actors, gates, current, passed>>
    BY <1>2 DEF Abort
  <2>2. Shapes' /\ pc' \in [Requests -> Places]
    BY <2>1 DEF Inv, Shapes
  <2>3. Patience'
    BY <2>1 DEF Inv, Patience
  <2> QED
    BY <2>1, <2>2, <2>3, HoldingsKept DEF Inv
<1> QED
  BY <1>1, <1>2

---------------------------------------------------------------------------
(* An actor's turn *)

\* selectNext finds a request whenever the queue has one.
LEMMA SelectedIsQueued ==
    ASSUME NEW actor, NEW S \in SUBSET Requests, Lists(actor.queue, S), S # {}
    PROVE  Selected(actor) \in DOMAIN actor.queue
<1> DEFINE queue == actor.queue
           old == {i \in DOMAIN queue : queue[i] \in aged}
           controls == Queued(actor, "control")
           mutations == Queued(actor, "mutation")
           reads == Queued(actor, "read")
           ControlTurn == controls # {} /\ (mutations = {} \/ actor.turns["control"] < MaxConsecutiveControls)
           MutationTurn == mutations # {}
                           /\ \/ reads = {}
                              \/ actor.turns["read"] >= MaxConsecutiveReads
                                 /\ actor.turns["mutation"] < MaxConsecutiveMutations
<1>1. DOMAIN queue \subseteq Nat /\ DOMAIN queue # {} /\ \A i \in DOMAIN queue : queue[i] \in Requests
  <2>1. queue # <<>> /\ Len(queue) \in Nat /\ DOMAIN queue = 1 .. Len(queue)
        /\ \A i \in DOMAIN queue : queue[i] \in S
    BY ListsAll
  <2> QED
    BY <2>1
<1>2. \A P \in SUBSET (DOMAIN queue) : P # {} => Min(P) \in DOMAIN queue
  BY <1>1, MinIsLeast
<1>3. /\ old \in SUBSET (DOMAIN queue) /\ controls \in SUBSET (DOMAIN queue)
      /\ mutations \in SUBSET (DOMAIN queue) /\ reads \in SUBSET (DOMAIN queue)
  BY DEF Queued
<1>4. controls # {} \/ mutations # {} \/ reads # {}
  BY <1>1, RequestsAssumption DEF Queued, Priorities
<1>5. ByPriority(actor) \in DOMAIN queue
  <2>1. ByPriority(actor) = CASE ControlTurn -> Min(controls)
                              [] ~ControlTurn /\ MutationTurn -> Min(mutations)
                              [] ~ControlTurn /\ ~MutationTurn -> Min(reads)
    BY DEF ByPriority
  <2>2. ~ControlTurn /\ ~MutationTurn => reads # {}
    BY <1>4
  <2>3. (ControlTurn => controls # {}) /\ (MutationTurn => mutations # {})
    OBVIOUS
  <2> HIDE DEF ControlTurn, MutationTurn, controls, mutations, reads, queue
  <2> QED
    BY <2>1, <2>2, <2>3, <1>2, <1>3
<1>6. Selected(actor) = IF old # {} THEN Min(old) ELSE ByPriority(actor)
  BY DEF Selected
<1> HIDE DEF old, queue
<1> QED
  BY <1>2, <1>3, <1>5, <1>6 DEF queue

LEMMA TurnedIsCounted ==
    ASSUME NEW turns \in [Priorities -> Nat], NEW p \in Priorities
    PROVE  Turned(turns, p) \in [Priorities -> Nat]
<1>1. \A q \in Priorities : LimitOf(q) \in Nat
  BY LimitsAssumption DEF LimitOf, Priorities
<1>2. \A q \in Priorities : UpTo(LimitOf(q), turns[q] + 1) \in Nat
  BY <1>1 DEF UpTo
<1> QED
  BY <1>2 DEF Turned

\* The drain either finds nothing to do or gives the slot to a queued request.
LEMMA DrainEffect ==
    ASSUME Inv, NEW a \in Actors, Drain(a)
    PROVE  /\ actors' \in [Actors -> ActorState]
           /\ UNCHANGED <<gateOf, answered, current, passed>>
           /\ \/ /\ UNCHANGED <<pc, aged, gates>>
                 /\ \A b \in Actors : /\ actors'[b].queue = actors[b].queue
                                      /\ actors'[b].active = actors[b].active
              \/ \E r \in QueuedOn(a) :
                    /\ SlotOf(a) = {}
                    /\ pc' = [pc EXCEPT ![r] = "waiting"]
                    /\ aged' = aged \ {r}
                    /\ gates' = [gates EXCEPT ![gateOf[r]] = Started(gates[gateOf[r]], r)]
                    /\ Lists(actors'[a].queue, QueuedOn(a) \ {r}) /\ actors'[a].active = {r}
                    /\ \A b \in Actors \ {a} : actors'[b] = actors[b]
<1> DEFINE actor == [actors[a] EXCEPT !.scheduled = FALSE]
           turn == Selected(actor)
           r == actor.queue[turn]
<1>1. /\ actor \in ActorState
      /\ actor.queue = actors[a].queue /\ actor.active = actors[a].active
      /\ actor.turns \in [Priorities -> Nat]
  BY DEF Inv, Shapes, ActorState
<1>2. UNCHANGED <<gateOf, answered, current, passed>>
  BY DEF Drain
<1>3. Lists(actor.queue, QueuedOn(a)) /\ actor.active = SlotOf(a)
  BY <1>1 DEF Inv, InTurn
<1>4. CASE actor.active # {} \/ actor.queue = <<>>
  <2>1. actors' = [actors EXCEPT ![a] = actor] /\ UNCHANGED <<pc, aged, gates>>
    BY <1>4 DEF Drain
  <2> HIDE DEF actor
  <2> QED
    BY <2>1, <1>1, <1>2 DEF Inv, Shapes
<1>5. CASE ~(actor.active # {} \/ actor.queue = <<>>)
  <2>1. /\ actors' = [actors EXCEPT ![a] = Taken(actor, turn)]
        /\ pc' = [pc EXCEPT ![r] = "waiting"]
        /\ aged' = aged \ {r}
        /\ gates' = [gates EXCEPT ![gateOf[r]] = Started(@, r)]
    BY <1>5 DEF Drain
  <2> HIDE DEF actor
  <2>2. QueuedOn(a) \in SUBSET Requests /\ QueuedOn(a) # {}
    BY <1>3, <1>5, ListsAll DEF QueuedOn
  <2>3. turn \in DOMAIN actor.queue
    BY <1>3, <2>2, SelectedIsQueued
  <2>4. r \in QueuedOn(a) /\ Lists(RemoveAt(actor.queue, turn), QueuedOn(a) \ {r})
    BY <1>3, <2>3, ListsAll, RemoveLists
  <2>5. /\ Taken(actor, turn) \in ActorState
        /\ Taken(actor, turn).queue = RemoveAt(actor.queue, turn)
        /\ Taken(actor, turn).active = {r}
    <3> DEFINE shorter == RemoveAt(actor.queue, turn)
               turns == Turned(actor.turns, PriorityOf[r])
    <3>1. Taken(actor, turn) = [actor EXCEPT !.queue = shorter, !.active = {r}, !.turns = turns]
      BY DEF Taken
    <3>2. r \in Requests /\ PriorityOf[r] \in Priorities
      BY <2>2, <2>4, RequestsAssumption
    <3>3. shorter \in Seq(Requests)
      <4>1. shorter \in Seq(QueuedOn(a) \ {r})
        BY <2>4 DEF Lists
      <4>2. QueuedOn(a) \ {r} \subseteq Requests
        BY <2>2
      <4> QED
        BY <4>1, <4>2, SeqMonotonic
    <3>4. turns \in [Priorities -> Nat]
      BY <1>1, <3>2, TurnedIsCounted
    <3> HIDE DEF shorter, turns, r, turn
    <3>5. Taken(actor, turn) \in ActorState
      <4> DEFINE emptied == [actor EXCEPT !.queue = shorter]
                 handed == [emptied EXCEPT !.active = {r}]
      <4>1. emptied \in ActorState
        BY <3>3, <1>1 DEF ActorState
      <4>2. Taken(actor, turn) = [handed EXCEPT !.turns = turns]
        BY <3>1
      <4> HIDE DEF emptied
      <4>3. handed \in ActorState
        BY <3>2, <4>1 DEF ActorState
      <4> HIDE DEF handed
      <4> QED
        BY <3>4, <4>2, <4>3 DEF ActorState
    <3>6. Taken(actor, turn).queue = shorter /\ Taken(actor, turn).active = {r}
      BY <3>1, <1>1 DEF ActorState
    <3> QED
      BY <3>5, <3>6 DEF shorter
  <2> HIDE DEF r, turn
  <2>6. /\ actors' \in [Actors -> ActorState]
        /\ Lists(actors'[a].queue, QueuedOn(a) \ {r}) /\ actors'[a].active = {r}
        /\ \A b \in Actors \ {a} : actors'[b] = actors[b]
    BY <2>1, <2>4, <2>5 DEF Inv, Shapes
  <2>7. SlotOf(a) = {} /\ gates' = [gates EXCEPT ![gateOf[r]] = Started(gates[gateOf[r]], r)]
    BY <2>1, <1>3, <1>5
  <2> QED
    BY <1>2, <2>1, <2>4, <2>6, <2>7
<1> QED
  BY <1>4, <1>5

\* A queued request reaches the gate.
LEMMA StartInv ==
    ASSUME Inv, NEW a \in Actors, NEW r \in QueuedOn(a), SlotOf(a) = {},
           pc' = [pc EXCEPT ![r] = "waiting"], aged' = aged \ {r},
           gates' = [gates EXCEPT ![gateOf[r]] = Started(gates[gateOf[r]], r)],
           Lists(actors'[a].queue, QueuedOn(a) \ {r}), actors'[a].active = {r},
           \A b \in Actors \ {a} : actors'[b] = actors[b],
           actors' \in [Actors -> ActorState],
           UNCHANGED <<gateOf, answered, current, passed>>
    PROVE  Inv'
<1> DEFINE G == current
           gate == gates[current]
<1> USE GateAssumption
<1>1. /\ r \in Requests /\ pc[r] = "queued" /\ ActorOf[r] = a
      /\ gateOf[r] = G /\ G \in Gates
  BY DEF QueuedOn, Inv, OnCurrent
<1>2. /\ gate \in GateState
      /\ gate.accepted = Cardinality(Tabs(G)) /\ gate.pending = Cardinality(Reserved(G))
      /\ gate.queued = WaitingAt(G) /\ gate.shared = ShareOf(G)
      /\ gate.exclusive = OwnerOf(G)
      /\ gate.shared = {} \/ gate.exclusive = {}
      /\ Sized(gate) <= MaxQueueSize
  BY <1>1 DEF Inv, Accounts, OneSide, Fits, Shapes
<1>3. ~Exclusive(r) => r \in Reserved(G)
  BY <1>1 DEF Reserved
<1>4. Reserved(G) \in SUBSET Requests /\ WaitingAt(G) \in SUBSET Requests
  BY DEF Reserved, WaitingAt
<1>5. Started(gate, r) \in GateState
  <2>1. ~Exclusive(r) => gate.pending > 0
    BY <1>2, <1>3, <1>4, OneLess
  <2> QED
    BY <1>1, <1>2, <2>1, AdmissionShapes
<1>6. Shapes'
  BY <1>1, <1>5 DEF Inv, Shapes, Places
<1>7. OnCurrent'
  BY <1>1 DEF Inv, Shapes, OnCurrent
<1>8. InTurn'
  <2> SUFFICES ASSUME NEW b \in Actors
               PROVE  /\ Lists(actors'[b].queue, QueuedOn(b)')
                      /\ actors'[b].active = SlotOf(b)'
                      /\ \A p, q \in SlotOf(b)' : p = q
    BY DEF InTurn
  <2>1. CASE b = a
    <3>1. QueuedOn(b)' = QueuedOn(a) \ {r}
      BY <1>1, <2>1 DEF Inv, Shapes, QueuedOn
    <3>2. SlotOf(b)' = SlotOf(a) \cup {r}
      BY <1>1, <2>1 DEF Inv, Shapes, SlotOf, Slots
    <3> QED
      BY <3>1, <3>2, <2>1
  <2>2. CASE b # a
    <3>1. QueuedOn(b)' = QueuedOn(b) /\ SlotOf(b)' = SlotOf(b)
      BY <1>1, <2>2 DEF Inv, Shapes, QueuedOn, SlotOf, Slots
    <3> QED
      BY <3>1, <2>2 DEF Inv, InTurn
  <2> QED
    BY <2>1, <2>2
<1>9. ASSUME NEW g \in Gates
      PROVE  Books(g)'
  <2>1. CASE g # G
    <3>1. gates'[g] = gates[g] /\ \A q \in Requests : gateOf'[q] # g
      BY <1>1, <2>1 DEF Inv, Shapes, OnCurrent
    <3> QED
      BY <3>1, <2>1, OtherBooks
  <2>2. CASE g = G
    <3>1. gates'[g] = Started(gate, r)
      BY <1>1, <2>2 DEF Inv, Shapes
    <3>2. /\ ShareOf(g)' = ShareOf(G) /\ OwnerOf(g)' = OwnerOf(G)
          /\ Tabs(g)' = Tabs(G)
      BY <1>1, <2>2 DEF Inv, Shapes, ShareOf, OwnerOf, Tabs
    <3>3. CASE Exclusive(r)
      <4>1. Reserved(g)' = Reserved(G) /\ WaitingAt(g)' = WaitingAt(G)
        BY <1>1, <2>2, <3>3 DEF Inv, Shapes, Reserved, WaitingAt, Exclusive
      <4>2. Started(gate, r) = [gate EXCEPT !.scheduled = TRUE]
        BY <3>3 DEF Started
      <4> HIDE DEF gate
      <4> QED
        BY <3>1, <3>2, <4>1, <4>2, <1>2 DEF GateState, Sized, Books
    <3>4. CASE ~Exclusive(r)
      <4>1. /\ Reserved(g)' = Reserved(G) \ {r}
            /\ WaitingAt(g)' = WaitingAt(G) \cup {r} /\ r \notin WaitingAt(G)
        BY <1>1, <2>2, <3>4 DEF Inv, Shapes, Reserved, WaitingAt, Exclusive
      <4>2. Started(gate, r) = [gate EXCEPT !.pending = gate.pending - 1,
                                            !.queued = gate.queued \cup {r}, !.scheduled = TRUE]
        BY <3>4 DEF Started
      <4>3. Cardinality(WaitingAt(G) \cup {r}) = Cardinality(WaitingAt(G)) + 1
        BY <4>1, CountsAreFinite, FS_AddElement
      <4>4. Cardinality(Reserved(G) \ {r}) = Cardinality(Reserved(G)) - 1
            /\ Cardinality(Reserved(G)) \in Nat /\ Cardinality(WaitingAt(G)) \in Nat
        BY <3>4, <1>3, <1>4, OneLess, CountsAreFinite
      <4> HIDE DEF gate
      <4>5. /\ gates'[g].accepted = gate.accepted /\ gates'[g].pending = gate.pending - 1
            /\ gates'[g].queued = gate.queued \cup {r}
            /\ gates'[g].shared = gate.shared /\ gates'[g].exclusive = gate.exclusive
        BY <3>1, <4>2, <1>2 DEF GateState
      <4>6. Cardinality(gate.queued \cup {r}) + (gate.pending - 1) = Sized(gate)
        BY <4>3, <4>4, <1>2 DEF Sized
      <4> QED
        BY <3>2, <4>1, <4>4, <4>5, <4>6, <1>2 DEF Sized, Books
    <3> QED
      BY <3>3, <3>4
  <2> QED
    BY <2>1, <2>2
<1>10. Accounts' /\ OneSide' /\ Fits'
  BY <1>9 DEF Accounts, OneSide, Fits, Books
<1>11. Patience'
  <2> SUFFICES ASSUME NEW q \in Requests, passed[q] # 0
               PROVE  pc'[q] = "waiting" /\ ~Exclusive(q)
                      /\ passed[q] <= gates'[gateOf'[q]].consecutive
    BY DEF Patience, Exclusive
  <2>1. pc[q] = "waiting" /\ ~Exclusive(q) /\ passed[q] <= gates[gateOf[q]].consecutive
    BY DEF Inv, Patience
  <2>2. gateOf[q] = G /\ q # r
    BY <2>1, <1>1 DEF Inv, OnCurrent
  <2>3. gates'[G].consecutive = gate.consecutive
    BY <1>1, <1>2 DEF Started, GateState, Inv, Shapes
  <2> QED
    BY <2>1, <2>2, <2>3, <1>1 DEF Inv, Shapes
<1> QED
  BY <1>6, <1>7, <1>8, <1>10, <1>11 DEF Inv

LEMMA DrainInv ==
    ASSUME Inv, NEW a \in Actors, Drain(a)
    PROVE  Inv'
<1>1. actors' \in [Actors -> ActorState] /\ UNCHANGED <<gateOf, answered, current, passed>>
  BY DrainEffect
<1>2. CASE /\ UNCHANGED <<pc, aged, gates>>
           /\ \A b \in Actors : /\ actors'[b].queue = actors[b].queue
                                /\ actors'[b].active = actors[b].active
  <2>1. Shapes'
    BY <1>1, <1>2 DEF Inv, Shapes
  <2>2. OnCurrent' /\ Patience'
    BY <1>1, <1>2 DEF Inv, OnCurrent, Patience
  <2>3. \A b \in Actors : QueuedOn(b)' = QueuedOn(b) /\ SlotOf(b)' = SlotOf(b)
    BY <1>2 DEF QueuedOn, SlotOf
  <2>4. InTurn'
    BY <1>2, <2>3 DEF Inv, InTurn
  <2>5. \A g \in Gates :
           /\ Tabs(g)' = Tabs(g) /\ Reserved(g)' = Reserved(g) /\ WaitingAt(g)' = WaitingAt(g)
           /\ ShareOf(g)' = ShareOf(g) /\ OwnerOf(g)' = OwnerOf(g)
    BY <1>1, <1>2 DEF Tabs, Reserved, WaitingAt, ShareOf, OwnerOf
  <2>6. Accounts' /\ OneSide' /\ Fits'
    BY <1>2, <2>5 DEF Inv, Accounts, OneSide, Fits
  <2> QED
    BY <2>1, <2>2, <2>4, <2>6 DEF Inv
<1>3. CASE \E r \in QueuedOn(a) :
              /\ SlotOf(a) = {}
              /\ pc' = [pc EXCEPT ![r] = "waiting"]
              /\ aged' = aged \ {r}
              /\ gates' = [gates EXCEPT ![gateOf[r]] = Started(gates[gateOf[r]], r)]
              /\ Lists(actors'[a].queue, QueuedOn(a) \ {r}) /\ actors'[a].active = {r}
              /\ \A b \in Actors \ {a} : actors'[b] = actors[b]
  BY <1>1, <1>3, StartInv
<1> QED
  BY <1>2, <1>3, DrainEffect

---------------------------------------------------------------------------
(* The gate's turn *)

\* Whom drain admits: browser turns to an empty gate, tab turns all at once.
LEMMA AdmittedOneSide ==
    ASSUME NEW gate
    PROVE  LET X == {r \in Admitted(gate) : Exclusive(r)}
               Y == Admitted(gate) \ X
           IN  /\ X \subseteq StartedExclusive(gate) /\ Y \subseteq StartedShared(gate)
               /\ X # {} => /\ gate.shared = {} /\ gate.exclusive = {} /\ Y = {}
                            /\ StartedShared(gate) = {}
                               \/ ~(gate.consecutive >= MaxConsecutiveBrowserExclusives)
               /\ Y # {} => gate.exclusive = {} /\ Y = StartedShared(gate) /\ X = {}
<1> DEFINE Due == /\ StartedShared(gate) # {}
                  /\ gate.consecutive >= MaxConsecutiveBrowserExclusives
           Closed == gate.exclusive # {} \/ (gate.shared # {} /\ HasExclusiveWaiter(gate))
<1>1. \A r \in StartedExclusive(gate) : Exclusive(r) /\ HasExclusiveWaiter(gate)
  BY DEF StartedExclusive, HasExclusiveWaiter
<1>2. \A r \in StartedShared(gate) : ~Exclusive(r)
  BY DEF StartedShared
<1>3. Admitted(gate) = IF Closed THEN {} ELSE IF Due THEN StartedShared(gate)
                       ELSE IF HasExclusiveWaiter(gate) THEN StartedExclusive(gate)
                       ELSE StartedShared(gate)
  BY DEF Admitted
<1>4. CASE Closed
  BY <1>3, <1>4
<1>5. CASE ~Closed /\ (Due \/ ~HasExclusiveWaiter(gate))
  <2>1. Admitted(gate) = StartedShared(gate) /\ gate.exclusive = {}
    BY <1>3, <1>5
  <2> QED
    BY <2>1, <1>2
<1>6. CASE ~Closed /\ ~Due /\ HasExclusiveWaiter(gate)
  <2>1. Admitted(gate) = StartedExclusive(gate) /\ gate.exclusive = {} /\ gate.shared = {}
    BY <1>3, <1>6
  <2> QED
    BY <2>1, <1>1, <1>6
<1> QED
  BY <1>4, <1>5, <1>6

LEMMA GateDrainInv ==
    ASSUME Inv, NEW g \in Gates, GateDrain(g)
    PROVE  Inv'
<1> DEFINE gate == gates[g]
           X == {r \in Admitted(gate) : Exclusive(r)}
           Y == Admitted(gate) \ X
           next == Granted(gate, X, Y)
<1>1. /\ gates' = [gates EXCEPT ![g] = next]
      /\ pc' = [r \in Requests |-> IF r \in X \cup Y THEN "granted" ELSE pc[r]]
      /\ passed' = [r \in Requests |->
            IF r \in X \cup Y THEN 0
            ELSE IF X # {} /\ r \in StartedShared(gate) THEN passed[r] + 1
            ELSE passed[r]]
      /\ UNCHANGED <<gateOf, aged, answered, actors, current>>
  <2>1. Admitted(gate) = X \cup Y
    OBVIOUS
  <2> QED
    BY <2>1 DEF GateDrain
<1>2. /\ X \subseteq StartedExclusive(gate) /\ Y \subseteq StartedShared(gate)
      /\ X # {} => /\ gate.shared = {} /\ gate.exclusive = {} /\ Y = {}
                   /\ StartedShared(gate) = {}
                      \/ ~(gate.consecutive >= MaxConsecutiveBrowserExclusives)
      /\ Y # {} => gate.exclusive = {} /\ Y = StartedShared(gate) /\ X = {}
  BY AdmittedOneSide
<1>3. /\ gate \in GateState
      /\ gate.accepted = Cardinality(Tabs(g)) /\ gate.pending = Cardinality(Reserved(g))
      /\ gate.queued = WaitingAt(g) /\ gate.shared = ShareOf(g)
      /\ gate.exclusive = OwnerOf(g)
      /\ gate.shared = {} \/ gate.exclusive = {}
      /\ Sized(gate) <= MaxQueueSize
  BY DEF Inv, Accounts, OneSide, Fits, Shapes
<1>4. /\ \A r \in X : r \in Requests /\ pc[r] = "waiting" /\ Exclusive(r) /\ gateOf[r] = g
      /\ \A r \in Y : r \in Requests /\ pc[r] = "waiting" /\ ~Exclusive(r) /\ gateOf[r] = g
  BY <1>2, <1>3 DEF StartedExclusive, StartedShared, WaitingAt
<1> HIDE DEF X, Y, next
<1>5. /\ next \in GateState
      /\ next.queued = gate.queued \ (X \cup Y)
      /\ next.exclusive = gate.exclusive \cup X
      /\ next.shared = gate.shared \cup Y
      /\ next.accepted = gate.accepted /\ next.pending = gate.pending
      /\ Y = {} /\ X = {} => next.consecutive = gate.consecutive
      /\ Y = {} /\ X # {} /\ ~(gate.consecutive >= MaxConsecutiveBrowserExclusives)
         => next.consecutive = gate.consecutive + 1
  <2>1. X \in SUBSET Requests /\ Y \in SUBSET Requests
    BY <1>4
  <2>2. gate \in GateState
    BY <1>3
  <2> HIDE DEF gate
  <2> DEFINE n == IF Y # {} /\ gate.consecutive >= MaxConsecutiveBrowserExclusives THEN 0
                  ELSE IF X # {} THEN UpTo(MaxConsecutiveBrowserExclusives, gate.consecutive + 1)
                  ELSE gate.consecutive
             queued == gate.queued \ (X \cup Y)
             exclusive == gate.exclusive \cup X
             shared == gate.shared \cup Y
  <2>3. next = [gate EXCEPT !.scheduled = FALSE, !.queued = queued, !.exclusive = exclusive,
                            !.shared = shared, !.consecutive = n]
    BY DEF next, Granted
  <2>4. gate.consecutive \in 0 .. MaxConsecutiveBrowserExclusives
    BY <2>2 DEF GateState
  <2>5. /\ n \in 0 .. MaxConsecutiveBrowserExclusives
        /\ Y = {} /\ X = {} => n = gate.consecutive
        /\ Y = {} /\ X # {} /\ ~(gate.consecutive >= MaxConsecutiveBrowserExclusives)
           => n = gate.consecutive + 1
    BY <2>4, LimitsAssumption DEF UpTo
  <2>6. queued \in SUBSET Requests /\ exclusive \in SUBSET Requests /\ shared \in SUBSET Requests
    BY <2>1, <2>2 DEF GateState
  <2> HIDE DEF n, queued, exclusive, shared
  <2>7. next \in GateState
    BY <2>2, <2>3, <2>5, <2>6 DEF GateState
  <2>8. /\ next.queued = queued /\ next.exclusive = exclusive
        /\ next.shared = shared /\ next.consecutive = n
        /\ next.accepted = gate.accepted /\ next.pending = gate.pending
    BY <2>2, <2>3 DEF GateState
  <2> QED
    BY <2>5, <2>7, <2>8 DEF queued, exclusive, shared
<1>6. \A r \in Requests : pc'[r] = pc[r] \/ (pc[r] = "waiting" /\ pc'[r] = "granted")
  BY <1>1, <1>4
<1>7. Shapes'
  <2>1. passed' \in [Requests -> Nat]
    BY <1>1 DEF Inv, Shapes
  <2>2. gates' \in [Gates -> GateState]
    BY <1>1, <1>5 DEF Inv, Shapes
  <2>3. pc' \in [Requests -> Places]
    BY <1>1 DEF Inv, Shapes, Places
  <2> QED
    BY <2>1, <2>2, <2>3, <1>1, <1>6 DEF Inv, Shapes
<1>8. OnCurrent'
  BY <1>1, <1>6 DEF Inv, OnCurrent
<1>9. InTurn'
  <2>1. \A a \in Actors : QueuedOn(a)' = QueuedOn(a) /\ SlotOf(a)' = SlotOf(a)
    BY <1>6 DEF QueuedOn, SlotOf, Slots
  <2> QED
    BY <2>1, <1>1 DEF Inv, InTurn
<1>10. ASSUME NEW h \in Gates
       PROVE  Books(h)'
  <2>1. Tabs(h)' = Tabs(h) /\ Reserved(h)' = Reserved(h)
    BY <1>1, <1>6 DEF Tabs, Reserved
  <2>2. CASE h # g
    <3>1. \A r \in X \cup Y : gateOf[r] # h
      BY <1>4, <2>2
    <3>2. \A r \in Requests : gateOf[r] = h => pc'[r] = pc[r]
      BY <1>1, <3>1
    <3>3. WaitingAt(h)' = WaitingAt(h) /\ ShareOf(h)' = ShareOf(h) /\ OwnerOf(h)' = OwnerOf(h)
      BY <1>1, <3>2 DEF WaitingAt, ShareOf, OwnerOf
    <3>4. gates'[h] = gates[h]
      BY <1>1, <2>2 DEF Inv, Shapes
    <3> QED
      BY <2>1, <3>3, <3>4 DEF Inv, Accounts, OneSide, Fits, Books
  <2>3. CASE h = g
    <3>1. /\ WaitingAt(h)' = WaitingAt(g) \ (X \cup Y)
          /\ ShareOf(h)' = ShareOf(g) \cup Y /\ OwnerOf(h)' = OwnerOf(g) \cup X
      BY <1>1, <1>4, <2>3 DEF WaitingAt, ShareOf, OwnerOf
    <3>2. gates'[h] = next
      BY <1>1, <2>3 DEF Inv, Shapes
    <3>3. next.shared = {} \/ next.exclusive = {}
      BY <1>2, <1>3, <1>5
    <3>4. Sized(next) <= MaxQueueSize
      <4>1. gate.queued \in SUBSET Requests
        BY <1>3 DEF GateState
      <4>2. IsFiniteSet(gate.queued)
        BY <4>1, RequestsAssumption, FS_Subset
      <4>3. /\ Cardinality(next.queued) <= Cardinality(gate.queued)
            /\ IsFiniteSet(next.queued)
        BY <4>2, <1>5, FS_Subset
      <4>4. Cardinality(next.queued) \in Nat /\ Cardinality(gate.queued) \in Nat
        BY <4>2, <4>3, FS_CardinalityType
      <4>5. gate.pending \in Nat /\ next.pending = gate.pending
        BY <1>3, <1>5 DEF GateState
      <4> QED
        BY <4>3, <4>4, <4>5, <1>3, LimitsAssumption DEF Sized
    <3> QED
      BY <2>1, <2>3, <3>1, <3>2, <3>3, <3>4, <1>3, <1>5 DEF Books
  <2> QED
    BY <2>2, <2>3
<1>11. Accounts' /\ OneSide' /\ Fits'
  BY <1>10 DEF Accounts, OneSide, Fits, Books
<1>12. Patience'
  <2> SUFFICES ASSUME NEW q \in Requests, passed'[q] # 0
               PROVE  pc'[q] = "waiting" /\ ~Exclusive(q)
                      /\ passed'[q] <= gates'[gateOf[q]].consecutive
    BY <1>1 DEF Patience, Exclusive
  <2>1. q \notin X \cup Y /\ pc'[q] = pc[q]
    BY <1>1
  <2>2. passed[q] \in Nat /\ gate.consecutive \in Nat
        /\ gates' [g] = next
    BY <1>1, <1>3, LimitsAssumption DEF Inv, Shapes, GateState
  <2>3. CASE X # {} /\ q \in StartedShared(gate)
    <3>1. pc[q] = "waiting" /\ ~Exclusive(q) /\ gateOf[q] = g
      BY <2>3, <1>3 DEF StartedShared, WaitingAt
    <3>2. passed'[q] = passed[q] + 1 /\ next.consecutive = gate.consecutive + 1
      BY <2>1, <2>3, <1>1, <1>2, <1>5
    <3>3. passed[q] = 0 \/ passed[q] <= gate.consecutive
      BY <3>1 DEF Inv, Patience
    <3> QED
      BY <2>1, <2>2, <3>1, <3>2, <3>3
  <2>4. CASE ~(X # {} /\ q \in StartedShared(gate))
    <3>1. passed'[q] = passed[q]
      BY <2>1, <2>4, <1>1
    <3>2. pc[q] = "waiting" /\ ~Exclusive(q) /\ passed[q] <= gates[gateOf[q]].consecutive
      BY <3>1 DEF Inv, Patience
    <3>3. CASE gateOf[q] = g
      <4>1. q \in StartedShared(gate)
        BY <3>2, <3>3, <1>3 DEF StartedShared, WaitingAt
      <4>2. X = {} /\ Y = {}
        BY <4>1, <2>1, <2>4, <1>2
      <4> QED
        BY <4>2, <3>1, <3>2, <3>3, <2>1, <2>2, <1>5
    <3>4. CASE gateOf[q] # g
      <4>1. gates'[gateOf[q]] = gates[gateOf[q]]
        BY <1>1, <3>2, <3>4 DEF Inv, Shapes, OnCurrent
      <4> QED
        BY <4>1, <3>1, <3>2, <2>1
    <3> QED
      BY <3>3, <3>4
  <2> QED
    BY <2>3, <2>4
<1> QED
  BY <1>7, <1>8, <1>9, <1>11, <1>12 DEF Inv

---------------------------------------------------------------------------
(* Finish *)

LEMMA FinishEffect ==
    ASSUME Inv, NEW r \in Requests, Finish(r)
    PROVE  /\ pc[r] \in {"refused", "running"} /\ pc' = [pc EXCEPT ![r] = "idle"]
           /\ gateOf' = [gateOf EXCEPT ![r] = NoGate]
           /\ answered' = answered \ {r}
           /\ gateOf[r] = current /\ current \in Gates
           /\ gates' = [gates EXCEPT ![current] = Settled(gates[current], r)]
           /\ \/ current' = current
              \/ /\ current' = NoGate
                 /\ GateIdle(gates'[current]) /\ ActorIdle(actors'[Browser])
           /\ actors' \in [Actors -> ActorState]
           /\ \A b \in Actors :
                 /\ actors'[b].queue = actors[b].queue
                 /\ actors'[b].active = IF b = ActorOf[r] THEN {} ELSE actors[b].active
           /\ UNCHANGED <<aged, passed>>
<1> DEFINE a == ActorOf[r]
           as == [actors EXCEPT ![a] = Freed(@)]
           gs == [gates EXCEPT ![gateOf[r]] = Settled(@, r)]
<1>1. /\ pc[r] \in {"refused", "running"} /\ pc' = [pc EXCEPT ![r] = "idle"]
      /\ gateOf' = [gateOf EXCEPT ![r] = NoGate]
      /\ answered' = answered \ {r}
      /\ NotifyIfIdle(a, as, gs)
      /\ UNCHANGED <<aged, passed>>
  BY DEF Finish
<1>2. gateOf[r] = current /\ current \in Gates
  BY <1>1 DEF Inv, OnCurrent
<1>3. a \in Actors
  BY BrowserIsActor
<1>4. /\ as \in [Actors -> ActorState]
      /\ \A b \in Actors :
            /\ as[b].queue = actors[b].queue
            /\ as[b].active = IF b = a THEN {} ELSE actors[b].active
  <2> DEFINE free == [actors[a] EXCEPT !.active = {}]
  <2>1. free \in ActorState /\ free.queue = actors[a].queue /\ free.active = {}
    <3>1. actors[a] \in ActorState
      BY <1>3 DEF Inv, Shapes
    <3> QED
      BY <3>1 DEF ActorState
  <2>2. as = [actors EXCEPT ![a] = ScheduleDrain(free)] /\ actors \in [Actors -> ActorState]
    BY DEF Inv, Shapes, Freed
  <2> HIDE DEF free, as
  <2> QED
    BY <1>3, <2>1, <2>2, ScheduleKeeps
<1> HIDE DEF as, gs
<1>5. /\ gates' = gs
      /\ actors' \in [Actors -> ActorState]
      /\ \A b \in Actors : actors'[b].queue = as[b].queue /\ actors'[b].active = as[b].active
      /\ \/ current' = current
         \/ current' = NoGate /\ GateIdle(gs[current]) /\ ActorIdle(as[Browser])
  BY <1>1, <1>3, <1>4, NotifyKeeps
<1>6. gs = [gates EXCEPT ![current] = Settled(gates[current], r)]
  BY <1>2 DEF gs, Inv, Shapes
<1>7. ActorIdle(as[Browser]) => ActorIdle(actors'[Browser])
  BY <1>5, BrowserIsActor DEF ActorIdle
<1> QED
  BY <1>1, <1>2, <1>4, <1>5, <1>6, <1>7

LEMMA FinishInv ==
    ASSUME Inv, NEW r \in Requests, Finish(r)
    PROVE  Inv'
<1> DEFINE G == current
           gate == gates[current]
<1> USE GateAssumption
<1>1. /\ pc[r] \in {"refused", "running"} /\ pc' = [pc EXCEPT ![r] = "idle"]
      /\ gateOf' = [gateOf EXCEPT ![r] = NoGate]
      /\ answered' = answered \ {r}
      /\ gateOf[r] = G /\ G \in Gates
      /\ gates' = [gates EXCEPT ![G] = Settled(gate, r)]
      /\ \/ current' = G
         \/ /\ current' = NoGate
            /\ GateIdle(gates'[G]) /\ ActorIdle(actors'[Browser])
      /\ actors' \in [Actors -> ActorState]
      /\ \A b \in Actors :
            /\ actors'[b].queue = actors[b].queue
            /\ actors'[b].active = IF b = ActorOf[r] THEN {} ELSE actors[b].active
      /\ UNCHANGED <<aged, passed>>
  BY FinishEffect
<1>2. /\ gate \in GateState
      /\ gate.accepted = Cardinality(Tabs(G)) /\ gate.pending = Cardinality(Reserved(G))
      /\ gate.queued = WaitingAt(G) /\ gate.shared = ShareOf(G)
      /\ gate.exclusive = OwnerOf(G)
      /\ gate.shared = {} \/ gate.exclusive = {}
      /\ Sized(gate) <= MaxQueueSize
  BY <1>1 DEF Inv, Accounts, OneSide, Fits, Shapes
<1>3. ~Exclusive(r) => r \in Tabs(G)
  BY <1>1 DEF Tabs
<1>4. Tabs(G) \in SUBSET Requests
  BY DEF Tabs
<1>5. Settled(gate, r) \in GateState
  <2>1. ~Exclusive(r) => gate.accepted > 0
    BY <1>2, <1>3, <1>4, OneLess
  <2> QED
    BY <1>2, <2>1, AdmissionShapes
<1>6. Shapes'
  BY <1>1, <1>5 DEF Inv, Shapes, Places
<1>7. InTurn'
  <2> SUFFICES ASSUME NEW a \in Actors
               PROVE  /\ Lists(actors'[a].queue, QueuedOn(a)')
                      /\ actors'[a].active = SlotOf(a)'
                      /\ \A p, q \in SlotOf(a)' : p = q
    BY DEF InTurn
  <2>1. QueuedOn(a)' = QueuedOn(a)
    BY <1>1 DEF Inv, Shapes, QueuedOn
  <2>2. CASE a = ActorOf[r]
    <3>1. r \in SlotOf(a)
      BY <1>1, <2>2 DEF SlotOf, Slots
    <3>2. SlotOf(a) = {r}
      BY <3>1 DEF Inv, InTurn
    <3>3. SlotOf(a)' = {}
      BY <3>2, <1>1 DEF Inv, Shapes, SlotOf, Slots
    <3> QED
      BY <3>3, <2>1, <2>2, <1>1 DEF Inv, InTurn
  <2>3. CASE a # ActorOf[r]
    <3>1. SlotOf(a)' = SlotOf(a)
      BY <1>1, <2>3 DEF Inv, Shapes, SlotOf, Slots
    <3> QED
      BY <3>1, <2>1, <2>3, <1>1 DEF Inv, InTurn
  <2> QED
    BY <2>2, <2>3
<1>8. ASSUME NEW g \in Gates
      PROVE  Books(g)'
  <2>1. CASE g # G
    <3>1. gates'[g] = gates[g] /\ \A q \in Requests : gateOf'[q] # g
      BY <1>1, <2>1 DEF Inv, Shapes, OnCurrent
    <3> QED
      BY <3>1, <2>1, OtherBooks
  <2>2. CASE g = G
    <3>1. gates'[g] = Settled(gate, r)
      BY <1>1, <2>2 DEF Inv, Shapes
    <3>2. /\ ShareOf(g)' = ShareOf(G) \ {r} /\ OwnerOf(g)' = OwnerOf(G) \ {r}
          /\ Reserved(g)' = Reserved(G) /\ WaitingAt(g)' = WaitingAt(G)
          /\ Tabs(g)' = IF Exclusive(r) THEN Tabs(G) ELSE Tabs(G) \ {r}
      BY <1>1, <2>2
         DEF Inv, Shapes, ShareOf, OwnerOf, Reserved, WaitingAt, Tabs, Exclusive
    <3> HIDE DEF gate
    <3>3. LET next == Settled(gate, r)
          IN  /\ next.queued = gate.queued /\ next.pending = gate.pending
              /\ next.shared = gate.shared \ {r} /\ next.exclusive = gate.exclusive \ {r}
              /\ next.accepted = IF Exclusive(r) THEN gate.accepted ELSE gate.accepted - 1
      BY <1>2 DEF Settled, GateState
    <3>4. ~Exclusive(r) => Cardinality(Tabs(G) \ {r}) = Cardinality(Tabs(G)) - 1
      BY <1>3, <1>4, OneLess
    <3> QED
      BY <3>1, <3>2, <3>3, <3>4, <1>2 DEF Sized, Books
  <2> QED
    BY <2>1, <2>2
<1>9. Accounts' /\ OneSide' /\ Fits'
  BY <1>8 DEF Accounts, OneSide, Fits, Books
<1>10. OnCurrent'
  BY <1>1, <1>7, <1>9, LeavesTheGate
<1>11. Patience'
  <2> SUFFICES ASSUME NEW q \in Requests, passed[q] # 0
               PROVE  pc'[q] = "waiting" /\ ~Exclusive(q)
                      /\ passed[q] <= gates'[gateOf'[q]].consecutive
    BY <1>1 DEF Patience, Exclusive
  <2>1. pc[q] = "waiting" /\ ~Exclusive(q) /\ passed[q] <= gates[gateOf[q]].consecutive
    BY DEF Inv, Patience
  <2>2. gateOf[q] = G /\ q # r
    BY <2>1, <1>1 DEF Inv, OnCurrent
  <2>3. gates'[G].consecutive = gate.consecutive
    BY <1>1, <1>2 DEF Settled, GateState, Inv, Shapes
  <2> QED
    BY <2>1, <2>2, <2>3, <1>1 DEF Inv, Shapes
<1> QED
  BY <1>6, <1>7, <1>9, <1>10, <1>11 DEF Inv

---------------------------------------------------------------------------
(* The invariant and what follows from it *)

LEMMA InvInit == Init => Inv
<1> SUFFICES ASSUME Init PROVE Inv
  OBVIOUS
<1>1. Shapes
  BY NewOnes DEF Init, Shapes, Places
<1>2. OnCurrent
  BY DEF Init, OnCurrent
<1>3. InTurn
  <2>1. \A a \in Actors : QueuedOn(a) = {} /\ SlotOf(a) = {}
    BY DEF Init, QueuedOn, SlotOf, Slots
  <2>2. \A a \in Actors : actors[a].queue = <<>> /\ actors[a].active = {}
    BY DEF Init, NewActor
  <2> QED
    BY <2>1, <2>2, EmptyList DEF InTurn
<1>4. \A g \in Gates :
         /\ Tabs(g) = {} /\ Reserved(g) = {} /\ WaitingAt(g) = {}
         /\ ShareOf(g) = {} /\ OwnerOf(g) = {}
  BY GateAssumption DEF Init, Tabs, Reserved, WaitingAt, ShareOf, OwnerOf
<1>5. Accounts /\ OneSide /\ Fits
  <2>1. \A g \in Gates :
           /\ gates[g].queued = {} /\ gates[g].shared = {} /\ gates[g].exclusive = {}
           /\ gates[g].accepted = 0 /\ gates[g].pending = 0
    BY DEF Init, NewGate
  <2> QED
    <3>1. Cardinality({}) = 0
      BY CountsAreFinite
    <3>2. Accounts /\ OneSide
      BY <1>4, <2>1, <3>1 DEF Accounts, OneSide
    <3>3. Fits
      <4> SUFFICES ASSUME NEW g \in Gates PROVE Sized(gates[g]) <= MaxQueueSize
        BY DEF Fits
      <4>1. Cardinality(gates[g].queued) = 0
        BY <2>1, <3>1, Zenon
      <4>2. gates[g].pending = 0
        BY <2>1
      <4> QED
        BY <4>1, <4>2, LimitsAssumption DEF Sized
    <3> QED
      BY <3>2, <3>3
<1>6. Patience
  BY DEF Init, Patience
<1> QED
  BY <1>1, <1>2, <1>3, <1>5, <1>6 DEF Inv

LEMMA InvStutter == Inv /\ UNCHANGED vars => Inv'
<1> SUFFICES ASSUME Inv, UNCHANGED vars PROVE Inv'
  OBVIOUS
<1>1. pc' \in [Requests -> Places] /\ pc' = pc
      /\ UNCHANGED <<gateOf, aged, answered, actors, gates, current, passed>>
  BY DEF vars, Inv, Shapes
<1>2. Shapes' /\ Patience'
  BY <1>1 DEF Inv, Shapes, Patience
<1> QED
  BY <1>1, <1>2, HoldingsKept DEF Inv

LEMMA InvNext == Inv /\ [Next]_vars => Inv'
<1> SUFFICES ASSUME Inv, [Next]_vars PROVE Inv'
  OBVIOUS
<1>1. ASSUME NEW r \in Requests, Enqueue(r) PROVE Inv'
  BY <1>1, EnqueueInv
<1>2. ASSUME NEW r \in Requests, Age(r) PROVE Inv'
  BY <1>2, AgeInv
<1>3. ASSUME NEW r \in Requests, Abandon(r) PROVE Inv'
  BY <1>3, AbandonInv
<1>4. ASSUME NEW r \in Requests, Abort(r) PROVE Inv'
  BY <1>4, AbortInv
<1>5. ASSUME NEW r \in Requests, Call(r) PROVE Inv'
  BY <1>5, CallInv
<1>6. ASSUME NEW r \in Requests, Finish(r) PROVE Inv'
  BY <1>6, FinishInv
<1>7. ASSUME NEW a \in Actors, Drain(a) PROVE Inv'
  BY <1>7, DrainInv
<1>8. ASSUME NEW g \in Gates, GateDrain(g) PROVE Inv'
  BY <1>8, GateDrainInv
<1>9. CASE UNCHANGED vars
  BY <1>9, InvStutter
<1> QED
  BY <1>1, <1>2, <1>3, <1>4, <1>5, <1>6, <1>7, <1>8, <1>9 DEF Next

LEMMA InvHolds == Spec => []Inv
BY InvInit, InvNext, PTL DEF Spec

\* The scheduler's state is well typed, for any requests, resources, gates and limits.
THEOREM SchedulerTypeCorrect == Spec => []TypeOK
<1>1. Inv => TypeOK
  <2> SUFFICES ASSUME Inv PROVE TypeOK
    OBVIOUS
  <2>1. \A r \in Requests : pc[r] = "idle" <=> gateOf[r] = NoGate
    BY GateAssumption DEF Inv, OnCurrent
  <2>2. ASSUME NEW a \in Actors
        PROVE  /\ actors[a].active \subseteq Requests
               /\ actors[a].turns \in [Priorities -> Nat]
               /\ actors[a].scheduled \in BOOLEAN
    BY DEF Inv, Shapes, ActorState
  <2>3. ASSUME NEW g \in Gates
        PROVE  /\ gates[g].queued \cup gates[g].shared \cup gates[g].exclusive \subseteq Requests
               /\ gates[g].accepted \in Nat /\ gates[g].pending \in Nat
               /\ gates[g].consecutive \in 0 .. MaxConsecutiveBrowserExclusives
               /\ gates[g].scheduled \in BOOLEAN
    BY DEF Inv, Shapes, GateState
  <2> QED
    BY <2>1, <2>2, <2>3 DEF Inv, Shapes, TypeOK
<1> QED
  BY <1>1, InvHolds, PTL

\* A browser callback runs alone and a tab runs one callback at a time, although callbacks
\* outlive their callers and gates are dropped and made again: all that run hold the one
\* gate in the map, which has let in one side only, and each has the slot of its actor.
THEOREM OneTurnAtATime == Spec => []OneTurn
<1>1. Inv => OneTurn
  <2> SUFFICES ASSUME Inv, NEW r \in Running, NEW s \in Running, r # s
               PROVE  ~Exclusive(r) /\ ~Exclusive(s) /\ ActorOf[r] # ActorOf[s]
    BY DEF OneTurn
  <2>1. /\ r \in Requests /\ s \in Requests /\ pc[r] = "running" /\ pc[s] = "running"
        /\ gateOf[r] = current /\ gateOf[s] = current /\ current \in Gates
    BY DEF Running, Inv, OnCurrent
  <2>2. ActorOf[r] # ActorOf[s]
    <3> SUFFICES ASSUME ActorOf[r] = ActorOf[s] PROVE FALSE
      OBVIOUS
    <3>1. r \in SlotOf(ActorOf[r]) /\ s \in SlotOf(ActorOf[r])
      BY <2>1 DEF SlotOf, Slots
    <3> QED
      BY <3>1, <2>1, BrowserIsActor DEF Inv, InTurn
  <2>3. ASSUME NEW p \in {r, s}, NEW q \in {r, s}, Exclusive(p), ~Exclusive(q)
        PROVE  FALSE
    <3>1. p \in OwnerOf(current) /\ q \in ShareOf(current)
      BY <2>1, <2>3 DEF OwnerOf, ShareOf
    <3> QED
      BY <3>1, <2>1 DEF Inv, Accounts, OneSide
  <2>4. ~(Exclusive(r) /\ Exclusive(s))
    BY <2>2 DEF Exclusive
  <2> QED
    BY <2>2, <2>3, <2>4
<1> QED
  BY <1>1, InvHolds, PTL

\* Reservations never leak and are never given back twice, however a request ends.
THEOREM GateCountsHold == Spec => []GateAccounts
<1>1. Inv => GateAccounts
  <2> SUFFICES ASSUME Inv, NEW g \in Gates
               PROVE  LET held == {r \in Requests : gateOf[r] = g}
                          tabs == {r \in held : ~Exclusive(r)}
                      IN  /\ held # {} => g = current
                          /\ g = current =>
                               /\ gates[g].accepted = Cardinality(tabs)
                               /\ gates[g].pending = Cardinality({r \in tabs : pc[r] = "queued"})
                               /\ gates[g].queued = {r \in held : \/ pc[r] = "waiting"
                                                                  \/ Exclusive(r) /\ pc[r] = "queued"}
                               /\ Sized(gates[g]) <= MaxQueueSize
    BY DEF GateAccounts
  <2> DEFINE held == {r \in Requests : gateOf[r] = g}
             tabs == {r \in held : ~Exclusive(r)}
  <2>1. held # {} => g = current
    BY GateAssumption DEF Inv, OnCurrent
  <2>2. /\ tabs = Tabs(g) /\ {r \in tabs : pc[r] = "queued"} = Reserved(g)
        /\ {r \in held : \/ pc[r] = "waiting"
                         \/ Exclusive(r) /\ pc[r] = "queued"} = WaitingAt(g)
    BY DEF Tabs, Reserved, WaitingAt
  <2> QED
    BY <2>1, <2>2 DEF Inv, Accounts, Fits
<1> QED
  BY <1>1, InvHolds, PTL

\* A tab request at the gate lets at most MaxConsecutiveBrowserExclusives browser turns pass.
THEOREM TurnsPassedAreBounded == Spec => []PassedBounded
<1>1. Inv => PassedBounded
  <2> SUFFICES ASSUME Inv, NEW r \in Requests
               PROVE  passed[r] <= MaxConsecutiveBrowserExclusives
    BY DEF PassedBounded
  <2>1. CASE passed[r] = 0
    BY <2>1, LimitsAssumption
  <2>2. CASE passed[r] # 0
    <3>1. pc[r] = "waiting" /\ passed[r] <= gates[gateOf[r]].consecutive
      BY <2>2 DEF Inv, Patience
    <3>2. gateOf[r] \in Gates /\ passed[r] \in Nat
      BY <3>1 DEF Inv, Shapes, OnCurrent
    <3>3. gates[gateOf[r]].consecutive \in 0 .. MaxConsecutiveBrowserExclusives
      BY <3>2 DEF Inv, Shapes, GateState
    <3> QED
      BY <3>1, <3>2, <3>3, LimitsAssumption
  <2> QED
    BY <2>1, <2>2
<1> QED
  BY <1>1, InvHolds, PTL
=============================================================================
