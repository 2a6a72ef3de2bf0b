------------------------ MODULE BackendTransportProofs ------------------------
(***************************************************************************)
(* Proofs about BackendTransport, for any ids, greetings and limits.  The  *)
(* invariant has a part about the client's routes (Routing), one about the *)
(* writes and pipes (Plumbed), and one that says which call what is        *)
(* underway belongs to (Correlated).                                       *)
(***************************************************************************)
EXTENDS BackendTransport, FiniteSetTheorems, SequenceTheorems, TLAPS

---------------------------------------------------------------------------
(* The inductive invariant *)

\* A probe has its number.
Issued == {t \in Tokens : t.id = Control => t.nth # 0}
Writes == [token : Issued, live : BOOLEAN, state : {"queued", "started"}]
Answers == {l \in [id : Ids \cup {Control, Foreign}, nth : Nat, type : {"response", "event", "end"}] :
               l.id = Control => l.nth # 0}
Places == {"none", "begun", "connecting", "inLine", "pending"}

\* What TypeOK says of the routes.
Shapes ==
    /\ child \in BOOLEAN /\ quarantined \in BOOLEAN
    /\ handshake \in Usable \cup {"unknown", "blocked"}
    /\ control \in 0 .. LastProbe
    /\ place \in [Ids -> Places]

CallShapes ==
    /\ kind \in [Ids -> Kinds] /\ nth \in [Ids -> 0 .. MaxCalls]
    /\ {closed, mixed, refusing} \subseteq BOOLEAN

Buried ==
    /\ tombstones \subseteq Ids \cup {Control}
    /\ IsFiniteSet(tombstones) /\ Cardinality(tombstones) <= TombstoneLimit

\* The single-flight line holds calls that wait in it or were issued from it.
Lined ==
    /\ slots \in Seq(Ids) /\ IsInjective(slots)
    /\ \A id \in ToSet(slots) : place[id] \in {"inLine", "pending"}

Admissions == AdmissionsAccount /\ IsFiniteSet(waiting) /\ IsFiniteSet(active)

\* Without a sidecar nobody got past its admission, and nothing is negotiated.
Linked ==
    ~child => /\ control = 0 /\ handshake \in {"unknown", "blocked"}
              /\ \A id \in Ids : place[id] \in {"none", "begun"}

Routing == Shapes /\ Buried /\ Lined /\ Admissions /\ Linked

\* The two generations of writes: the tail is of the present sidecar or of one that is
\* gone, what was detached is dead.
Queues(w) ==
    /\ w \in [tail : Seq(Writes), retired : Seq(Writes), stuck : BOOLEAN]
    /\ Len(w.tail) + Len(w.retired) <= WriteQueueLimit

Generations(w, running) ==
    /\ \A i \in DOMAIN w.tail : w.tail[i].live = running
    /\ \A i \in DOMAIN w.retired : ~w.retired[i].live
    /\ w.stuck => ~running
    /\ ~w.stuck /\ ~running => w.tail = <<>>

Plumbed ==
    /\ Queues(writes) /\ Generations(writes, child)
    /\ pipe \in Seq(Issued) /\ out \in Seq(Answers)
    /\ tasks \in SUBSET Issued /\ IsFiniteSet(tasks) /\ Cardinality(tasks) <= ServerMaxInFlight
    /\ ~child => pipe = <<>> /\ tasks = {} /\ out = <<>> /\ ~refusing

\* Something of a call has reached the sidecar.
Downstream(id) ==
    \/ \E i \in DOMAIN pipe : pipe[i].id = id
    \/ \E t \in tasks : t.id = id
    \/ \E i \in DOMAIN out : out[i].id = id

\* One live write of an id at most.
Single(line, id) ==
    \A i, j \in DOMAIN line :
        line[i].live /\ line[j].live /\ line[i].token.id = id /\ line[j].token.id = id => i = j

\* A write is of the last call of its id.  As long as it can reach the sidecar nothing of
\* the call has, and it is the only one.
Written(id) ==
    /\ \A w \in Unsettled : w.token.id = id =>
          /\ w.token = Token(id)
          /\ place[id] \in {"none", "pending"}
          /\ ~w.live => place[id] = "none"
          /\ w.live /\ w.state = "started" => place[id] = "pending"
          /\ w.live => ~Downstream(id)
    /\ Single(writes.tail, id)

\* What the sidecar has of an id is of its last call, which runs or has left a tombstone;
\* the call is in one place of the sidecar, and nothing follows the end of its answer.
Delivered(id) ==
    /\ Downstream(id) => place[id] = "pending" \/ (place[id] = "none" /\ id \in tombstones)
    /\ \A i \in DOMAIN pipe : pipe[i].id = id =>
          /\ pipe[i] = Token(id)
          /\ \A j \in DOMAIN pipe : pipe[j].id = id => i = j
          /\ \A t \in tasks : t.id # id
          /\ \A j \in DOMAIN out : out[j].id # id
    /\ \A t \in tasks : t.id = id => t = Token(id)
    /\ \A i \in DOMAIN out : out[i].id = id =>
          /\ out[i].nth = nth[id]
          /\ out[i].type # "event" => /\ \A t \in tasks : t.id # id
                                      /\ \A j \in DOMAIN out : out[j].id = id => j <= i

Correlated == (\A id \in Ids : Written(id) /\ Delivered(id)) /\ ~mixed /\ ~refusing

Base == Routing /\ CallShapes /\ Plumbed
Inv == Base /\ Correlated

---------------------------------------------------------------------------
(* Admissions *)

\* Who has an admission of which kind.
Waits(id) == place[id] \in {"begun", "connecting"} \/ (place[id] = "inLine" /\ kind[id] = "stream")
Runs(id) == place[id] = "pending" \/ (place[id] = "inLine" /\ kind[id] = "unary")

LEMMA AdmissionsAre ==
    AdmissionsAccount <=>
        /\ waiting \subseteq Ids /\ active \subseteq Ids \cup {Control}
        /\ \A id \in Ids : (id \in waiting <=> Waits(id)) /\ (id \in active <=> Runs(id))
        /\ Control \in active <=> control # 0
        /\ Live <= MaxInFlight
        /\ handshake = "unknown" /\ control = 0 => Live < MaxInFlight
BY IdAssumption DEF AdmissionsAccount, Waits, Runs

\* Fewer admissions fit when more did.
LEMMA FewerLive ==
    ASSUME IsFiniteSet(waiting), IsFiniteSet(active),
           NEW w \in SUBSET waiting, NEW a \in SUBSET active
    PROVE  /\ IsFiniteSet(w) /\ IsFiniteSet(a)
           /\ Cardinality(w) + Cardinality(a) \in Nat /\ Live \in Nat
           /\ Cardinality(w) + Cardinality(a) <= Live
           /\ \A x \in active : x \notin a => Cardinality(w) + Cardinality(a) < Live
<1>1. /\ IsFiniteSet(w) /\ Cardinality(w) <= Cardinality(waiting)
      /\ IsFiniteSet(a) /\ Cardinality(a) <= Cardinality(active)
  BY FS_Subset
<1>2. /\ Cardinality(w) \in Nat /\ Cardinality(waiting) \in Nat
      /\ Cardinality(a) \in Nat /\ Cardinality(active) \in Nat
  BY <1>1, FS_CardinalityType
<1>3. ASSUME NEW x \in active, x \notin a PROVE Cardinality(a) < Cardinality(active)
  <2>1. a \in SUBSET (active \ {x})
    BY <1>3
  <2>2. /\ IsFiniteSet(active \ {x})
        /\ Cardinality(active \ {x}) = Cardinality(active) - 1
    BY <1>3, FS_RemoveElement
  <2>3. Cardinality(a) <= Cardinality(active \ {x})
    BY <2>1, <2>2, FS_Subset
  <2> QED
    BY <1>2, <2>2, <2>3
<1> QED
  BY <1>1, <1>2, <1>3 DEF Live

\* A set with one element more, and with one less.
LEMMA OneMore ==
    ASSUME NEW S, IsFiniteSet(S), NEW x
    PROVE  /\ IsFiniteSet(S \cup {x}) /\ IsFiniteSet(S \ {x}) /\ Cardinality(S) \in Nat
           /\ x \in S => /\ S \cup {x} = S
                         /\ Cardinality(S \ {x}) = Cardinality(S) - 1
           /\ x \notin S => /\ S \ {x} = S
                            /\ Cardinality(S \cup {x}) = Cardinality(S) + 1
<1>1. /\ IsFiniteSet(S \cup {x})
      /\ Cardinality(S \cup {x}) = IF x \in S THEN Cardinality(S) ELSE Cardinality(S) + 1
  BY FS_AddElement
<1>2. /\ IsFiniteSet(S \ {x})
      /\ Cardinality(S \ {x}) = IF x \in S THEN Cardinality(S) - 1 ELSE Cardinality(S)
  BY FS_RemoveElement
<1>3. Cardinality(S) \in Nat
  BY FS_CardinalityType
<1>4. x \in S => S \cup {x} = S
  OBVIOUS
<1>5. x \notin S => S \ {x} = S
  OBVIOUS
<1> QED
  BY <1>1, <1>2, <1>3, <1>4, <1>5

\* An admission that moves from the waiting to the active takes no more room.
LEMMA MovedLive ==
    ASSUME IsFiniteSet(waiting), IsFiniteSet(active), NEW id \in waiting \cup active
    PROVE  /\ IsFiniteSet(waiting \ {id}) /\ IsFiniteSet(active \cup {id})
           /\ Cardinality(waiting \ {id}) + Cardinality(active \cup {id}) <= Live
           /\ Live \in Nat
           /\ Cardinality(waiting \ {id}) + Cardinality(active \cup {id}) \in Nat
<1>1. /\ IsFiniteSet(waiting \ {id}) /\ Cardinality(waiting) \in Nat
      /\ Cardinality(waiting \ {id}) \in Nat
      /\ Cardinality(waiting \ {id}) <= Cardinality(waiting)
      /\ id \in waiting => Cardinality(waiting \ {id}) = Cardinality(waiting) - 1
  <2>1. IsFiniteSet(waiting \ {id}) /\ Cardinality(waiting \ {id}) <= Cardinality(waiting)
    BY FS_Subset
  <2> QED
    BY <2>1, OneMore, FS_CardinalityType
<1>2. /\ IsFiniteSet(active \cup {id}) /\ Cardinality(active) \in Nat
      /\ id \in active => active \cup {id} = active
      /\ id \notin active => Cardinality(active \cup {id}) = Cardinality(active) + 1
  BY OneMore
<1> QED
  BY <1>1, <1>2 DEF Live

---------------------------------------------------------------------------
(* The single-flight line *)

\* Who is taken out of the line is gone from it, and the others stay in their order.
LEMMA WithoutLeavesTheOthers ==
    ASSUME NEW line \in Seq(Ids), IsInjective(line), NEW id
    PROVE  /\ Without(line, id) \in Seq(Ids) /\ IsInjective(Without(line, id))
           /\ ToSet(Without(line, id)) = ToSet(line) \ {id}
<1>1. CASE id \notin ToSet(line)
  BY <1>1 DEF Without
<1>2. CASE id \in ToSet(line)
  <2> DEFINE n == CHOOSE i \in DOMAIN line : line[i] = id
             front == SubSeq(line, 1, n - 1)
             back == SubSeq(line, n + 1, Len(line))
             rest == front \o back
  <2>1. /\ DOMAIN line = 1 .. Len(line) /\ Len(line) \in Nat
        /\ \A i \in 1 .. Len(line) : line[i] \in Ids
    BY LenProperties
  <2>2. n \in 1 .. Len(line) /\ line[n] = id
    BY <1>2, <2>1 DEF ToSet
  <2>3. \A i \in 1 .. Len(line) : line[i] = id => i = n
    BY <2>1, <2>2 DEF IsInjective
  <2>4. Without(line, id) = rest
    BY <1>2 DEF Without, RemoveAt
  <2> HIDE DEF n
  <2>5. /\ front \in Seq(Ids) /\ Len(front) = n - 1
        /\ \A i \in 1 .. n - 1 : front[i] = line[i]
    BY <2>1, <2>2, SubSeqProperties
  <2>6a. /\ back \in Seq(Ids)
         /\ Len(back) = IF n + 1 <= Len(line) THEN Len(line) - (n + 1) + 1 ELSE 0
         /\ \A i \in 1 .. Len(line) - (n + 1) + 1 : back[i] = line[n + 1 + i - 1]
    BY <2>1, <2>2, SubSeqProperties
  <2> HIDE DEF front, back
  <2>6b. Len(back) = Len(line) - n
    <3>1. CASE n + 1 <= Len(line)
      <4>1. Len(back) = Len(line) - (n + 1) + 1
        BY <2>6a, <3>1, Zenon
      <4> QED
        BY <2>1, <2>2, <4>1
    <3>2. CASE ~(n + 1 <= Len(line))
      <4>1. Len(back) = 0
        BY <2>6a, <3>2, Zenon
      <4>2. \A b \in Nat : \A a \in 1 .. b : a + 1 <= b \/ b - a = 0
        OBVIOUS
      <4> QED
        BY <2>1, <2>2, <3>2, <4>1, <4>2
    <3> QED
      BY <3>1, <3>2
  <2>6. /\ back \in Seq(Ids) /\ Len(back) = Len(line) - n
        /\ \A i \in 1 .. Len(line) - n : back[i] = line[i + n]
    <3>1. ASSUME NEW i \in 1 .. Len(line) - n PROVE back[i] = line[i + n]
      <4>1. i \in 1 .. Len(line) - (n + 1) + 1 /\ n + 1 + i - 1 = i + n
        BY <2>1, <2>2
      <4>2. back[i] = line[n + 1 + i - 1]
        BY <4>1, <2>6a
      <4> QED
        BY <4>1, <4>2
    <3> QED
      BY <2>6a, <2>6b, <3>1
  <2>7. /\ rest \in Seq(Ids) /\ Len(rest) = Len(line) - 1
        /\ \A i \in 1 .. Len(line) - 1 : rest[i] = IF i < n THEN line[i] ELSE line[i + 1]
    <3>0. /\ rest \in Seq(Ids) /\ Len(rest) = Len(front) + Len(back)
          /\ \A i \in 1 .. Len(front) + Len(back) :
                rest[i] = IF i <= Len(front) THEN front[i] ELSE back[i - Len(front)]
      BY <2>5, <2>6, ConcatProperties
    <3> HIDE DEF rest
    <3>1. /\ rest \in Seq(Ids) /\ Len(rest) = (n - 1) + (Len(line) - n)
          /\ \A i \in 1 .. (n - 1) + (Len(line) - n) :
                rest[i] = IF i <= n - 1 THEN front[i] ELSE back[i - (n - 1)]
      BY <2>5, <2>6, <3>0
    <3>2. ASSUME NEW i \in 1 .. Len(line) - 1 PROVE rest[i] = IF i < n THEN line[i] ELSE line[i + 1]
      <4>1. CASE i < n
        BY <2>1, <2>2, <2>5, <3>1, <4>1
      <4>2. CASE ~(i < n)
        <5>1. i - (n - 1) \in 1 .. Len(line) - n /\ (i - (n - 1)) + n = i + 1
          BY <2>1, <2>2, <4>2
        <5>2. back[i - (n - 1)] = line[i + 1]
          BY <5>1, <2>6
        <5> QED
          BY <2>1, <2>2, <3>1, <4>2, <5>2
      <4> QED
        BY <4>1, <4>2
    <3> QED
      BY <2>1, <2>2, <3>1, <3>2
  <2> HIDE DEF rest
  <2>8. DOMAIN rest = 1 .. Len(line) - 1
    BY <2>7, LenProperties
  <2>9. IsInjective(rest)
    <3> SUFFICES ASSUME NEW i \in 1 .. Len(line) - 1, NEW j \in 1 .. Len(line) - 1,
                        rest[i] = rest[j]
                 PROVE  i = j
      BY <2>8 DEF IsInjective
    <3> DEFINE i0 == IF i < n THEN i ELSE i + 1
               j0 == IF j < n THEN j ELSE j + 1
    <3>1. i0 \in 1 .. Len(line) /\ j0 \in 1 .. Len(line) /\ line[i0] = line[j0]
      BY <2>1, <2>7
    <3>2. i0 = j0
      BY <2>1, <3>1 DEF IsInjective
    <3> QED
      BY <2>1, <2>2, <3>2
  <2>10. ToSet(rest) = ToSet(line) \ {id}
    <3>1. ASSUME NEW x \in ToSet(rest) PROVE x \in ToSet(line) \ {id}
      <4> PICK i \in 1 .. Len(line) - 1 : x = rest[i]
        BY <2>8 DEF ToSet
      <4> DEFINE i0 == IF i < n THEN i ELSE i + 1
      <4>1. i0 \in 1 .. Len(line) /\ x = line[i0] /\ i0 # n
        BY <2>1, <2>2, <2>7
      <4> QED
        BY <2>1, <2>3, <4>1 DEF ToSet
    <3>2. ASSUME NEW x \in ToSet(line), x # id PROVE x \in ToSet(rest)
      <4> PICK i \in 1 .. Len(line) : x = line[i]
        BY <2>1 DEF ToSet
      <4> DEFINE i0 == IF i < n THEN i ELSE i - 1
      <4>1. i # n
        BY <2>2, <3>2
      <4>2. i0 \in 1 .. Len(line) - 1 /\ x = rest[i0]
        BY <2>1, <2>2, <2>7, <4>1
      <4> QED
        BY <2>8, <4>2 DEF ToSet
    <3> QED
      BY <3>1, <3>2
  <2> QED
    BY <2>4, <2>7, <2>9, <2>10
<1> QED
  BY <1>1, <1>2

---------------------------------------------------------------------------
(* Routing is kept by the ends of routes *)

LEMMA RoutingBasics ==
    Routing => /\ Live \in Nat
               /\ waiting \subseteq Ids /\ active \subseteq Ids \cup {Control}
               /\ \A id \in Ids : (id \in waiting <=> Waits(id)) /\ (id \in active <=> Runs(id))
               /\ Control \in active <=> control # 0
               /\ Live <= MaxInFlight
               /\ handshake = "unknown" /\ control = 0 => Live < MaxInFlight
BY AdmissionsAre, FS_CardinalityType DEF Routing, Admissions, Live

\* A sidecar that is gone takes every route with it.
LEMMA RecycleKeepsRouting ==
    ASSUME Routing, NEW state \in {"unknown", "blocked"}, Recycle(state)
    PROVE  Routing'
<1>1. /\ child' = FALSE /\ control' = 0 /\ place' = [id \in Ids |-> "none"]
      /\ waiting' = {} /\ active' = {} /\ slots' = <<>> /\ tombstones' = {} /\ quarantined' = FALSE
      /\ handshake' \in {"unknown", "blocked"}
  BY DEF Recycle, Routing, Linked, Shapes
<1>2. /\ IsFiniteSet({}) /\ Cardinality({}) = 0 /\ IsFiniteSet(waiting') /\ IsFiniteSet(active')
      /\ Live' = 0
  BY <1>1, FS_EmptySet DEF Live
<1>3. Shapes' /\ Linked'
  <2>1. \A id \in Ids : place'[id] = "none"
    BY <1>1
  <2>2. place' \in [Ids -> Places]
    BY <1>1 DEF Places
  <2>3. control' \in 0 .. LastProbe /\ handshake' \in Usable \cup {"unknown", "blocked"}
    BY <1>1 DEF LastProbe
  <2>4. Shapes'
    BY <1>1, <2>2, <2>3 DEF Shapes
  <2>5. Linked'
    BY <1>1, <2>1 DEF Linked
  <2> QED
    BY <2>4, <2>5
<1>4. Buried'
  BY <1>1, <1>2, LimitsAssumption DEF Buried
<1>5. Lined'
  <2>1. slots' \in Seq(Ids) /\ DOMAIN slots' = {} /\ ToSet(slots') = {}
    BY <1>1, EmptySeq DEF ToSet
  <2> QED
    BY <2>1 DEF Lined, IsInjective
<1>6. Admissions'
  BY <1>1, <1>2, LimitsAssumption DEF Admissions, AdmissionsAccount
<1> QED
  BY <1>3, <1>4, <1>5, <1>6 DEF Routing

\* Whoever leaves gives up its admission and its place in the line, and nobody else's.
LEMMA LeaveKeepsRouting ==
    ASSUME Routing, NEW id \in Ids, Leave(id), Buried',
           UNCHANGED <<child, handshake, control, quarantined, kind>>
    PROVE  Routing'
<1>1. /\ place \in [Ids -> Places] /\ place' = [place EXCEPT ![id] = "none"]
      /\ waiting' = waiting \ {id} /\ active' = active \ {id} /\ slots' = Without(slots, id)
  BY DEF Leave, Routing, Shapes
<1>2. place'[id] = "none" /\ \A x \in Ids \ {id} : place'[x] = place[x]
  BY <1>1
<1>3. Shapes'
  BY <1>1 DEF Routing, Shapes, Places
<1>4. Lined'
  <2>1. slots' \in Seq(Ids) /\ IsInjective(slots') /\ ToSet(slots') = ToSet(slots) \ {id}
    BY <1>1, WithoutLeavesTheOthers DEF Routing, Lined
  <2>2. ToSet(slots) \subseteq Ids
    BY LenProperties DEF Routing, Lined, ToSet
  <2>3. \A x \in ToSet(slots') : place'[x] \in {"inLine", "pending"}
    BY <1>2, <2>1, <2>2 DEF Routing, Lined
  <2> QED
    BY <2>1, <2>3 DEF Lined
<1>5. Admissions'
  <2>1. /\ IsFiniteSet(waiting') /\ IsFiniteSet(active')
        /\ Live' \in Nat /\ Live \in Nat /\ Live' <= Live
    <3>1. waiting' \in SUBSET waiting /\ active' \in SUBSET active
      BY <1>1
    <3>2. Cardinality(waiting') + Cardinality(active') = Live'
      BY DEF Live
    <3> QED
      BY <3>1, <3>2, FewerLive DEF Routing, Admissions
  <2>2. \A x \in Ids : (x \in waiting' <=> Waits(x)') /\ (x \in active' <=> Runs(x)')
    <3> SUFFICES ASSUME NEW x \in Ids
                 PROVE  (x \in waiting' <=> Waits(x)') /\ (x \in active' <=> Runs(x)')
      OBVIOUS
    <3>1. CASE x = id
      BY <1>1, <1>2, <3>1 DEF Waits, Runs
    <3>2. CASE x # id
      BY <1>1, <1>2, <3>2, RoutingBasics DEF Waits, Runs
    <3> QED
      BY <3>1, <3>2
  <2>3. /\ waiting' \subseteq Ids /\ active' \subseteq Ids \cup {Control}
        /\ Control \in active' => control' # 0
        /\ control' # 0 => Control \in active'
    BY <1>1, RoutingBasics, IdAssumption
  <2>4. Live' <= MaxInFlight /\ (handshake' = "unknown" /\ control' = 0 => Live' < MaxInFlight)
    BY <2>1, RoutingBasics, LimitsAssumption
  <2>5. AdmissionsAccount'
    BY <2>2, <2>3, <2>4, IdAssumption DEF AdmissionsAccount, Waits, Runs
  <2> QED
    BY <2>1, <2>5 DEF Admissions
<1>6. Linked'
  BY <1>1, <1>2 DEF Routing, Linked
<1> QED
  BY <1>3, <1>4, <1>5, <1>6 DEF Routing

LEMMA ClearKeepsRouting ==
    ASSUME Routing, NEW id \in Ids, Clear(id), UNCHANGED kind
    PROVE  Routing'
<1>1. CASE quarantined /\ Idle({id})
  BY <1>1, RecycleKeepsRouting DEF Clear
<1>2. CASE ~(quarantined /\ Idle({id}))
  BY <1>2, LeaveKeepsRouting DEF Clear, link, suspicion, Routing, Buried
<1> QED
  BY <1>1, <1>2

\* There is room for one tombstone more.
LEMMA RoomForTombstone ==
    ASSUME Buried, Cardinality(tombstones) < TombstoneLimit, NEW late \in Ids \cup {Control},
           tombstones' = tombstones \cup {late}
    PROVE  Buried'
<1>1. /\ IsFiniteSet(tombstones') /\ Cardinality(tombstones) \in Nat
      /\ late \in tombstones => tombstones' = tombstones
      /\ late \notin tombstones => Cardinality(tombstones') = Cardinality(tombstones) + 1
  BY OneMore DEF Buried
<1>2. Cardinality(tombstones') <= TombstoneLimit
  <2>1. TombstoneLimit \in Nat
    BY LimitsAssumption
  <2>2. CASE late \in tombstones
    BY <1>1, <2>2 DEF Buried
  <2>3. CASE late \notin tombstones
    BY <1>1, <2>1, <2>3
  <2> QED
    BY <2>2, <2>3
<1>3. tombstones' \subseteq Ids \cup {Control}
  BY DEF Buried
<1> QED
  BY <1>1, <1>2, <1>3 DEF Buried

LEMMA ClearExpectingKeepsRouting ==
    ASSUME Routing, NEW id \in Ids, ClearExpecting(id), UNCHANGED kind
    PROVE  Routing'
<1>1. CASE Cardinality(tombstones) >= TombstoneLimit \/ (quarantined /\ Idle({id}))
  BY <1>1, RecycleKeepsRouting DEF ClearExpecting
<1>2. CASE ~(Cardinality(tombstones) >= TombstoneLimit \/ (quarantined /\ Idle({id})))
  <2>1. /\ Leave(id) /\ tombstones' = tombstones \cup {id}
        /\ UNCHANGED <<child, handshake, control, quarantined, kind>>
    BY <1>2 DEF ClearExpecting, link
  <2>2. Cardinality(tombstones) < TombstoneLimit
    BY <1>2, LimitsAssumption, FS_CardinalityType DEF Routing, Buried
  <2>3. Buried'
    BY <2>1, <2>2, RoomForTombstone DEF Routing
  <2> QED
    BY <2>1, <2>3, LeaveKeepsRouting
<1> QED
  BY <1>1, <1>2

\* A negotiation that ends gives up its admission; who waited in vain goes with it.
LEMMA NegotiatedKeepsRouting ==
    ASSUME Routing, control # 0, NEW state \in Usable \cup {"unknown"}, NEW late \in {{}, {Control}},
           late # {} => Cardinality(tombstones) < TombstoneLimit,
           Negotiated(state, late), UNCHANGED kind
    PROVE  Routing'
<1> DEFINE leavers == IF state \in Usable THEN {} ELSE {id \in Ids : place[id] = "connecting"}
<1>1. CASE quarantined /\ \A id \in Ids : place[id] = "none"
  BY <1>1, RecycleKeepsRouting DEF Negotiated
<1>2. CASE ~(quarantined /\ \A id \in Ids : place[id] = "none")
  <2>1. /\ place' = [id \in Ids |-> IF id \in leavers THEN "none" ELSE place[id]]
        /\ waiting' = waiting \ leavers /\ active' = active \ {Control}
        /\ handshake' = state /\ control' = 0 /\ tombstones' = tombstones \cup late
        /\ UNCHANGED <<child, slots, quarantined, kind>>
    BY <1>2 DEF Negotiated
  <2>2. /\ \A id \in leavers : place'[id] = "none" /\ place[id] = "connecting" /\ id \in Ids
        /\ \A id \in Ids \ leavers : place'[id] = place[id]
    BY <2>1
  <2> HIDE DEF leavers
  <2>3. child = TRUE /\ child' = TRUE
    BY <2>1 DEF Routing, Linked, Shapes
  <2>4. Shapes'
    <3>1. place' \in [Ids -> Places]
      BY <2>1 DEF Routing, Shapes, Places
    <3> QED
      BY <2>1, <2>3, <3>1 DEF Routing, Shapes, LastProbe
  <2>5. Buried'
    <3>1. CASE late = {}
      BY <2>1, <3>1 DEF Routing, Buried
    <3>2. CASE late = {Control}
      BY <2>1, <3>2, RoomForTombstone DEF Routing
    <3> QED
      BY <3>1, <3>2
  <2>6. Lined'
    <3>1. \A x \in ToSet(slots) : x \in Ids /\ x \notin leavers
      BY <2>2, LenProperties DEF Routing, Lined, ToSet
    <3> QED
      BY <2>1, <2>2, <3>1 DEF Routing, Lined
  <2>7. Admissions'
    <3>1. /\ IsFiniteSet(waiting') /\ IsFiniteSet(active')
          /\ Live' \in Nat /\ Live \in Nat /\ Live' < Live
      <4>1. waiting' \in SUBSET waiting /\ active' \in SUBSET active
        BY <2>1
      <4>2. Control \in active /\ Control \notin active'
        BY <2>1, RoutingBasics
      <4>3. Cardinality(waiting') + Cardinality(active') = Live'
        BY DEF Live
      <4> QED
        BY <4>1, <4>2, <4>3, FewerLive DEF Routing, Admissions
    <3>2. \A x \in Ids : (x \in waiting' <=> Waits(x)') /\ (x \in active' <=> Runs(x)')
      <4> SUFFICES ASSUME NEW x \in Ids
                   PROVE  (x \in waiting' <=> Waits(x)') /\ (x \in active' <=> Runs(x)')
        OBVIOUS
      <4>1. x # Control
        BY IdAssumption
      <4>2. CASE x \in leavers
        BY <2>1, <2>2, <4>1, <4>2, RoutingBasics DEF Waits, Runs
      <4>3. CASE x \notin leavers
        BY <2>1, <2>2, <4>1, <4>3, RoutingBasics DEF Waits, Runs
      <4> QED
        BY <4>2, <4>3
    <3>3. waiting' \subseteq Ids /\ active' \subseteq Ids /\ control' = 0
      BY <2>1, RoutingBasics
    <3>4. Live' <= MaxInFlight /\ Live' < MaxInFlight
      BY <3>1, RoutingBasics, LimitsAssumption
    <3>5. AdmissionsAccount'
      BY <3>2, <3>3, <3>4 DEF AdmissionsAccount, Waits, Runs
    <3> QED
      BY <3>1, <3>5 DEF Admissions
  <2>8. Linked'
    BY <2>3 DEF Linked
  <2> QED
    BY <2>4, <2>5, <2>6, <2>7, <2>8 DEF Routing
<1> QED
  BY <1>1, <1>2

---------------------------------------------------------------------------
(* Routing is kept by a call on its way *)

\* A call that is issued has its admission among the active.
LEMMA IssuedKeepsRouting ==
    ASSUME Routing, kind \in [Ids -> Kinds], NEW id \in Ids, place[id] \in {"connecting", "inLine"},
           place' = [place EXCEPT ![id] = "pending"],
           waiting' = waiting \ {id}, active' = active \cup {id},
           UNCHANGED <<child, handshake, control, quarantined, kind, slots, tombstones>>
    PROVE  Routing'
<1>1. id \in waiting \cup active
  BY RoutingBasics DEF Waits, Runs, Kinds
<1>2. place'[id] = "pending" /\ \A x \in Ids \ {id} : place'[x] = place[x]
  BY DEF Routing, Shapes
<1>3. child = TRUE
  BY DEF Routing, Linked, Shapes
<1>4. Shapes'
  BY DEF Routing, Shapes, Places
<1>5. Buried'
  BY DEF Routing, Buried
<1>6. Lined'
  <2>1. ToSet(slots) \subseteq Ids
    BY LenProperties DEF Routing, Lined, ToSet
  <2>2. \A x \in ToSet(slots) : place'[x] \in {"inLine", "pending"}
    BY <1>2, <2>1 DEF Routing, Lined
  <2> QED
    BY <2>2 DEF Routing, Lined
<1>7. Admissions'
  <2>1. /\ IsFiniteSet(waiting') /\ IsFiniteSet(active')
        /\ Live' \in Nat /\ Live \in Nat /\ Live' <= Live
    <3>1. Cardinality(waiting') + Cardinality(active') = Live'
      BY DEF Live
    <3> QED
      BY <1>1, <3>1, MovedLive DEF Routing, Admissions
  <2>2. \A x \in Ids : (x \in waiting' <=> Waits(x)') /\ (x \in active' <=> Runs(x)')
    BY <1>2, RoutingBasics DEF Waits, Runs
  <2>3. /\ waiting' \subseteq Ids /\ active' \subseteq Ids \cup {Control}
        /\ Control \in active' <=> control' # 0
    BY RoutingBasics, IdAssumption
  <2>4. Live' <= MaxInFlight /\ (handshake' = "unknown" /\ control' = 0 => Live' < MaxInFlight)
    BY <2>1, RoutingBasics, LimitsAssumption
  <2>5. AdmissionsAccount'
    BY <2>2, <2>3, <2>4, IdAssumption DEF AdmissionsAccount, Waits, Runs
  <2> QED
    BY <2>1, <2>5 DEF Admissions
<1>8. Linked'
  BY <1>3 DEF Linked
<1> QED
  BY <1>4, <1>5, <1>6, <1>7, <1>8 DEF Routing

\* A call that gets in line is the last of it.
LEMMA InLineKeepsRouting ==
    ASSUME Routing, kind \in [Ids -> Kinds], NEW id \in Ids, place[id] = "connecting",
           place' = [place EXCEPT ![id] = "inLine"], slots' = Append(slots, id),
           IF kind[id] = "unary" THEN waiting' = waiting \ {id} /\ active' = active \cup {id}
                                 ELSE UNCHANGED <<waiting, active>>,
           UNCHANGED <<child, handshake, control, quarantined, kind, tombstones>>
    PROVE  Routing'
<1>1. id \in waiting /\ (kind[id] = "stream" \/ kind[id] = "unary")
  BY RoutingBasics DEF Waits, Kinds
<1>2. place'[id] = "inLine" /\ \A x \in Ids \ {id} : place'[x] = place[x]
  BY DEF Routing, Shapes
<1>3. child = TRUE
  BY DEF Routing, Linked, Shapes
<1>4. Shapes'
  BY DEF Routing, Shapes, Places
<1>5. Buried'
  BY DEF Routing, Buried
<1>6. Lined'
  <2>1. /\ slots \in Seq(Ids) /\ DOMAIN slots = 1 .. Len(slots) /\ Len(slots) \in Nat
        /\ \A i \in 1 .. Len(slots) : slots[i] \in Ids /\ slots[i] # id
                                      /\ place[slots[i]] \in {"inLine", "pending"}
    BY LenProperties DEF Routing, Lined, ToSet
  <2>2. /\ slots' \in Seq(Ids) /\ Len(slots') = Len(slots) + 1
        /\ \A i \in 1 .. Len(slots) : slots'[i] = slots[i]
        /\ slots'[Len(slots) + 1] = id
    BY <2>1, AppendProperties
  <2>3. DOMAIN slots' = 1 .. Len(slots) + 1
    BY <2>2, LenProperties
  <2>4. IsInjective(slots')
    BY <2>1, <2>2, <2>3 DEF IsInjective, Routing, Lined
  <2>5. \A x \in ToSet(slots') : place'[x] \in {"inLine", "pending"}
    <3> SUFFICES ASSUME NEW i \in 1 .. Len(slots) + 1
                 PROVE  place'[slots'[i]] \in {"inLine", "pending"}
      BY <2>3 DEF ToSet
    <3>1. CASE i \in 1 .. Len(slots)
      BY <1>2, <2>1, <2>2, <3>1
    <3>2. CASE i = Len(slots) + 1
      BY <1>2, <2>2, <3>2
    <3> QED
      BY <2>1, <3>1, <3>2
  <2> QED
    BY <2>2, <2>4, <2>5 DEF Lined
<1>7. Admissions'
  <2>1. /\ IsFiniteSet(waiting') /\ IsFiniteSet(active')
        /\ Live' \in Nat /\ Live \in Nat /\ Live' <= Live
    <3>1. Cardinality(waiting') + Cardinality(active') = Live'
      BY DEF Live
    <3>2. CASE kind[id] = "unary"
      BY <1>1, <3>1, <3>2, MovedLive DEF Routing, Admissions
    <3>3. CASE kind[id] = "stream"
      BY <3>1, <3>3, RoutingBasics DEF Routing, Admissions, Live
    <3> QED
      BY <1>1, <3>2, <3>3
  <2>2. \A x \in Ids : (x \in waiting' <=> Waits(x)') /\ (x \in active' <=> Runs(x)')
    <3>1. CASE kind[id] = "unary"
      BY <1>2, <3>1, RoutingBasics DEF Waits, Runs
    <3>2. CASE kind[id] = "stream"
      BY <1>2, <3>2, RoutingBasics DEF Waits, Runs
    <3> QED
      BY <1>1, <3>1, <3>2
  <2>3. /\ waiting' \subseteq Ids /\ active' \subseteq Ids \cup {Control}
        /\ Control \in active' <=> control' # 0
    BY RoutingBasics, IdAssumption
  <2>4. Live' <= MaxInFlight /\ (handshake' = "unknown" /\ control' = 0 => Live' < MaxInFlight)
    BY <2>1, RoutingBasics, LimitsAssumption
  <2>5. AdmissionsAccount'
    BY <2>2, <2>3, <2>4, IdAssumption DEF AdmissionsAccount, Waits, Runs
  <2> QED
    BY <2>1, <2>5 DEF Admissions
<1>8. Linked'
  BY <1>3 DEF Linked
<1> QED
  BY <1>4, <1>5, <1>6, <1>7, <1>8 DEF Routing

\* With a caller's admission there is room as it was, and room for the probe before a
\* negotiation.
LEMMA AdmittedFits ==
    ASSUME Routing, NEW id \in Ids,
           place[id] = "begun" \/ (place[id] = "none" /\ RoomForCaller)
    PROVE  /\ IsFiniteSet(waiting \cup {id}) /\ id \notin active
           /\ Cardinality(waiting \cup {id}) + Cardinality(active) \in Nat
           /\ Cardinality(waiting \cup {id}) + Cardinality(active) <= MaxInFlight
           /\ handshake = "unknown" /\ control = 0 =>
                 Cardinality(waiting \cup {id}) + Cardinality(active) < MaxInFlight
<1>1. /\ IsFiniteSet(waiting \cup {id}) /\ Cardinality(waiting) \in Nat
      /\ Cardinality(active) \in Nat
      /\ id \in waiting => waiting \cup {id} = waiting
      /\ id \notin waiting => Cardinality(waiting \cup {id}) = Cardinality(waiting) + 1
  BY OneMore DEF Routing, Admissions
<1>2. CASE place[id] = "begun"
  <2>1. id \in waiting /\ id \notin active
    BY <1>2, RoutingBasics DEF Waits, Runs
  <2> QED
    BY <1>1, <2>1, RoutingBasics DEF Live
<1>3. CASE place[id] = "none" /\ RoomForCaller
  <2>1. id \notin waiting /\ id \notin active
    BY <1>3, RoutingBasics DEF Waits, Runs
  <2>2. Cardinality(waiting \cup {id}) + Cardinality(active) = Live + 1 /\ Live \in Nat
    BY <1>1, <2>1 DEF Live
  <2>3. /\ Live < MaxInFlight
        /\ handshake = "unknown" /\ control = 0 => Live < MaxInFlight - 1
    BY <1>3, <2>2, LimitsAssumption DEF RoomForCaller
  <2> QED
    BY <1>1, <2>1, <2>2, <2>3, LimitsAssumption
<1> QED
  BY <1>2, <1>3

\* A stream that begins is admitted.
LEMMA BegunKeepsRouting ==
    ASSUME Routing, NEW id \in Ids, place[id] = "none", RoomForCaller,
           place' = [place EXCEPT ![id] = "begun"], waiting' = waiting \cup {id},
           \A x \in Ids \ {id} : kind'[x] = kind[x],
           UNCHANGED <<child, handshake, control, quarantined, tombstones, active, slots>>
    PROVE  Routing'
<1>1. place'[id] = "begun" /\ \A x \in Ids \ {id} : place'[x] = place[x]
  BY DEF Routing, Shapes
<1>2. Shapes'
  BY DEF Routing, Shapes, Places
<1>3. Buried'
  BY DEF Routing, Buried
<1>4. Lined'
  <2>1. \A x \in ToSet(slots) : x \in Ids /\ x # id
    BY LenProperties DEF Routing, Lined, ToSet
  <2> QED
    BY <1>1, <2>1 DEF Routing, Lined
<1>5. Admissions'
  <2>1. /\ IsFiniteSet(waiting') /\ IsFiniteSet(active') /\ Live' <= MaxInFlight
        /\ handshake' = "unknown" /\ control' = 0 => Live' < MaxInFlight
    BY AdmittedFits DEF Routing, Admissions, Live
  <2>2. \A x \in Ids : (x \in waiting' <=> Waits(x)') /\ (x \in active' <=> Runs(x)')
    <3> SUFFICES ASSUME NEW x \in Ids
                 PROVE  (x \in waiting' <=> Waits(x)') /\ (x \in active' <=> Runs(x)')
      OBVIOUS
    <3>1. CASE x = id
      BY <1>1, <3>1, RoutingBasics DEF Waits, Runs
    <3>2. CASE x # id
      BY <1>1, <3>2, RoutingBasics DEF Waits, Runs
    <3> QED
      BY <3>1, <3>2
  <2>3. /\ waiting' \subseteq Ids /\ active' \subseteq Ids \cup {Control}
        /\ Control \in active' <=> control' # 0
    BY RoutingBasics
  <2>4. AdmissionsAccount'
    BY <2>1, <2>2, <2>3, IdAssumption DEF AdmissionsAccount, Waits, Runs
  <2> QED
    BY <2>1, <2>4 DEF Admissions
<1>6. Linked'
  BY <1>1 DEF Routing, Linked
<1> QED
  BY <1>2, <1>3, <1>4, <1>5, <1>6 DEF Routing

\* So is a call that connects, with the probe if it is the first.
LEMMA ConnectedKeepsRouting ==
    ASSUME Routing, NEW id \in Ids, EnsureHandshake(id),
           place[id] = "begun" \/ (place[id] = "none" /\ RoomForCaller),
           \A x \in Ids \ {id} : kind'[x] = kind[x],
           UNCHANGED <<slots, suspicion>>
    PROVE  Routing'
<1> DEFINE admitted == waiting \cup {id}
           first == handshake = "unknown" /\ control = 0 /\ ~writes.stuck
           hello == first /\ CanIssueControl(Cardinality(admitted) + Cardinality(active))
           waits == hello \/ handshake \in Usable \/ control # 0
<1>1. /\ child' = (child \/ first)
      /\ control' = (IF hello THEN Hello ELSE control)
      /\ place' = [place EXCEPT ![id] = IF waits THEN "connecting" ELSE "none"]
      /\ waiting' = (IF waits THEN admitted ELSE waiting \ {id})
      /\ active' = (IF hello THEN active \cup {Control} ELSE active)
      /\ UNCHANGED <<handshake, slots, tombstones, quarantined>>
  BY DEF EnsureHandshake, suspicion
<1>2. /\ first => handshake = "unknown" /\ control = 0
      /\ hello => first /\ Cardinality(admitted) + Cardinality(active) < MaxInFlight
      /\ waits <=> hello \/ handshake \in Usable \/ control # 0
      /\ first \in BOOLEAN /\ hello \in BOOLEAN /\ waits \in BOOLEAN
  BY DEF CanIssueControl
<1> HIDE DEF first, hello, waits
<1>3. /\ place'[id] = (IF waits THEN "connecting" ELSE "none")
      /\ \A x \in Ids \ {id} : place'[x] = place[x]
  BY <1>1 DEF Routing, Shapes
<1>4. Shapes'
  <2>1. place' \in [Ids -> Places]
    BY <1>1 DEF Routing, Shapes, Places
  <2>2. child' \in BOOLEAN /\ control' \in 0 .. LastProbe
    BY <1>1, <1>2 DEF Routing, Shapes, Hello, LastProbe
  <2> QED
    BY <1>1, <2>1, <2>2 DEF Routing, Shapes
<1>5. Buried'
  BY <1>1 DEF Routing, Buried
<1>6. Lined'
  <2>1. \A x \in ToSet(slots) : x \in Ids /\ x # id
    BY LenProperties DEF Routing, Lined, ToSet
  <2> QED
    BY <1>1, <1>3, <2>1 DEF Routing, Lined
<1>7. /\ IsFiniteSet(waiting') /\ IsFiniteSet(active') /\ Live' <= MaxInFlight
      /\ handshake' = "unknown" /\ control' = 0 => Live' < MaxInFlight
  <2>1. Live' = Cardinality(waiting') + Cardinality(active')
    BY DEF Live
  <2>2. CASE hello
    <3>1. Control \notin active
      BY <1>2, <2>2, RoutingBasics
    <3>2. /\ IsFiniteSet(active \cup {Control}) /\ Cardinality(active) \in Nat
          /\ Cardinality(active \cup {Control}) = Cardinality(active) + 1
      BY <3>1, OneMore DEF Routing, Admissions
    <3>3. IsFiniteSet(admitted) /\ Cardinality(admitted) \in Nat
      BY AdmittedFits, FS_CardinalityType
    <3>4. waiting' = admitted /\ active' = active \cup {Control} /\ control' = Hello
      BY <1>1, <1>2, <2>2
    <3> HIDE DEF admitted
    <3>5. Live' <= MaxInFlight
      BY <1>2, <2>1, <2>2, <3>2, <3>3, <3>4, LimitsAssumption
    <3> QED
      BY <3>2, <3>3, <3>4, <3>5 DEF Hello
  <2>3. CASE waits /\ ~hello
    <3>1. waiting' = waiting \cup {id} /\ active' = active /\ control' = control
      BY <1>1, <2>3
    <3> QED
      BY <1>1, <2>1, <3>1, AdmittedFits DEF Routing, Admissions
  <2>4. CASE ~waits
    <3>1. waiting' \in SUBSET waiting /\ active' \in SUBSET active
          /\ control' = control /\ handshake' = handshake
      BY <1>1, <1>2, <2>4
    <3>2. IsFiniteSet(waiting') /\ IsFiniteSet(active') /\ Live' \in Nat /\ Live \in Nat /\ Live' <= Live
      BY <2>1, <3>1, FewerLive DEF Routing, Admissions
    <3>3. Live <= MaxInFlight /\ (handshake = "unknown" /\ control = 0 => Live < MaxInFlight)
      BY RoutingBasics
    <3>4. MaxInFlight \in Nat
      BY LimitsAssumption
    <3>5. Live' <= MaxInFlight
      BY <3>2, <3>3, <3>4
    <3>6. handshake' = "unknown" /\ control' = 0 => Live' < MaxInFlight
      BY <3>1, <3>2, <3>3, <3>4
    <3> QED
      BY <3>2, <3>5, <3>6
  <2> QED
    BY <1>2, <2>2, <2>3, <2>4
<1>8. Admissions'
  <2>1. \A x \in Ids : (x \in waiting' <=> Waits(x)') /\ (x \in active' <=> Runs(x)')
    <3> SUFFICES ASSUME NEW x \in Ids
                 PROVE  (x \in waiting' <=> Waits(x)') /\ (x \in active' <=> Runs(x)')
      OBVIOUS
    <3>1. x # Control
      BY IdAssumption
    <3>2. CASE x = id
      <4>1. id \notin active
        BY AdmittedFits
      <4>2. id \notin active' /\ ~Runs(id)'
        BY <1>1, <1>3, <3>1, <3>2, <4>1 DEF Runs
      <4>3. CASE waits
        BY <1>1, <1>3, <3>2, <4>2, <4>3 DEF Waits
      <4>4. CASE ~waits
        BY <1>1, <1>3, <3>2, <4>2, <4>4 DEF Waits
      <4> QED
        BY <4>3, <4>4
    <3>3. CASE x # id
      BY <1>1, <1>3, <3>1, <3>3, RoutingBasics DEF Waits, Runs
    <3> QED
      BY <3>2, <3>3
  <2>2. /\ waiting' \subseteq Ids /\ active' \subseteq Ids \cup {Control}
    BY <1>1, RoutingBasics
  <2>3. Control \in active' <=> control' # 0
    BY <1>1, RoutingBasics DEF Hello
  <2>4. AdmissionsAccount'
    BY <1>7, <2>1, <2>2, <2>3, IdAssumption DEF AdmissionsAccount, Waits, Runs
  <2> QED
    BY <1>7, <2>4 DEF Admissions
<1>9. Linked'
  <2> SUFFICES ASSUME ~child' PROVE Linked'
    BY DEF Linked
  <2>1. ~child /\ ~first /\ ~hello
    BY <1>1, <1>2
  <2>2. control = 0 /\ handshake \in {"unknown", "blocked"}
    BY <2>1 DEF Routing, Linked
  <2>3. ~waits
    BY <1>2, <2>1, <2>2 DEF Usable, SingleFlight
  <2> QED
    BY <1>1, <1>3, <2>1, <2>2, <2>3 DEF Routing, Linked
<1> QED
  BY <1>4, <1>5, <1>6, <1>8, <1>9 DEF Routing

---------------------------------------------------------------------------
(* The writes *)

LEMMA QueuesAre ==
    ASSUME NEW w, Queues(w)
    PROVE  /\ w = [tail |-> w.tail, retired |-> w.retired, stuck |-> w.stuck]
           /\ w.tail \in Seq(Writes) /\ w.retired \in Seq(Writes) /\ w.stuck \in BOOLEAN
           /\ DOMAIN w.tail = 1 .. Len(w.tail) /\ Len(w.tail) \in Nat
           /\ DOMAIN w.retired = 1 .. Len(w.retired) /\ Len(w.retired) \in Nat
           /\ \A i \in 1 .. Len(w.tail) : w.tail[i] \in Writes
           /\ \A i \in 1 .. Len(w.retired) : w.retired[i] \in Writes
<1>1. /\ w = [tail |-> w.tail, retired |-> w.retired, stuck |-> w.stuck]
      /\ w.tail \in Seq(Writes) /\ w.retired \in Seq(Writes) /\ w.stuck \in BOOLEAN
  BY DEF Queues
<1> QED
  BY <1>1, LenProperties

\* A generation that is gone keeps its writes and their order.
LEMMA OrphanedIs ==
    ASSUME NEW t \in Seq(Writes)
    PROVE  /\ Orphaned(t) \in Seq(Writes) /\ Len(Orphaned(t)) = Len(t)
           /\ DOMAIN Orphaned(t) = DOMAIN t
           /\ \A i \in DOMAIN t : /\ Orphaned(t)[i].live = FALSE
                                  /\ Orphaned(t)[i].token = t[i].token
                                  /\ Orphaned(t)[i].state = t[i].state
<1>1. /\ DOMAIN t = 1 .. Len(t) /\ Len(t) \in Nat
      /\ \A i \in 1 .. Len(t) : t[i] \in Writes
  BY LenProperties
<1>2. /\ DOMAIN Orphaned(t) = 1 .. Len(t)
      /\ \A i \in 1 .. Len(t) : Orphaned(t)[i] = [t[i] EXCEPT !.live = FALSE]
  BY <1>1 DEF Orphaned
<1>3. \A i \in 1 .. Len(t) : /\ Orphaned(t)[i] \in Writes /\ Orphaned(t)[i].live = FALSE
                             /\ Orphaned(t)[i].token = t[i].token
                             /\ Orphaned(t)[i].state = t[i].state
  BY <1>1, <1>2 DEF Writes
<1>4. Orphaned(t) \in [1 .. Len(t) -> Writes]
  BY <1>1, <1>2, <1>3 DEF Orphaned
<1>5. Orphaned(t) \in Seq(Writes) /\ Len(Orphaned(t)) = Len(t)
  BY <1>1, <1>4
<1> QED
  BY <1>1, <1>2, <1>3, <1>5

\* Without its sidecar a generation of writes is dead; at most one is detached.
LEMMA RetiredKeepsQueues ==
    ASSUME NEW w, Queues(w), NEW running \in BOOLEAN, Generations(w, running)
    PROVE  Queues(Retired(w)) /\ Generations(Retired(w), FALSE)
<1>1. CASE ~(\E i \in DOMAIN w.tail : w.tail[i].live)
  <2>1. Retired(w) = w
    BY <1>1 DEF Retired
  <2>2. CASE running = FALSE
    BY <2>1, <2>2
  <2>3. CASE running = TRUE
    <3>1. DOMAIN w.tail = {}
      BY <1>1, <2>3 DEF Generations
    <3>2. w.tail = <<>>
      BY <3>1, QueuesAre, EmptySeq
    <3> QED
      BY <2>1, <2>3, <3>1, <3>2 DEF Generations
  <2> QED
    BY <2>2, <2>3
<1>2. CASE \E i \in DOMAIN w.tail : w.tail[i].live
  <2>1. running = TRUE /\ ~w.stuck
    BY <1>2 DEF Generations
  <2>2. CASE w.retired = <<>>
    <3>1. Retired(w) = [w EXCEPT !.tail = <<>>, !.retired = Orphaned(w.tail)]
      BY <1>2, <2>2 DEF Retired
    <3> DEFINE none == <<>>
               gone == Orphaned(w.tail)
               r == [w EXCEPT !.tail = none, !.retired = gone]
    <3>2. /\ none = <<>> /\ none \in Seq(Writes) /\ Len(none) = 0 /\ DOMAIN none = {}
          /\ gone \in Seq(Writes) /\ Len(gone) = Len(w.tail)
          /\ \A i \in DOMAIN gone : gone[i].live = FALSE
      <4>1. none = <<>> /\ none \in Seq(Writes) /\ Len(none) = 0
        BY EmptySeq
      <4>2. DOMAIN none = {}
        OBVIOUS
      <4> QED
        BY <4>1, <4>2, QueuesAre, OrphanedIs
    <3> HIDE DEF none, gone
    <3>3. /\ r \in [tail : Seq(Writes), retired : Seq(Writes), stuck : BOOLEAN]
          /\ r.tail = none /\ r.retired = gone /\ r.stuck = w.stuck
      BY <3>2 DEF Queues
    <3> HIDE DEF r
    <3>4. Len(r.tail) + Len(r.retired) <= WriteQueueLimit
      BY <2>2, <3>2, <3>3, QueuesAre DEF Queues
    <3>5. Queues(r) /\ Generations(r, FALSE)
      BY <2>1, <3>2, <3>3, <3>4 DEF Queues, Generations
    <3> QED
      BY <3>1, <3>5 DEF r, gone, none
  <2>3. CASE w.retired # <<>>
    <3>1. Retired(w) = [w EXCEPT !.tail = Orphaned(w.tail), !.stuck = TRUE]
      BY <1>2, <2>3 DEF Retired
    <3> DEFINE gone == Orphaned(w.tail)
               r == [w EXCEPT !.tail = gone, !.stuck = TRUE]
    <3>2. /\ gone \in Seq(Writes) /\ Len(gone) = Len(w.tail)
          /\ \A i \in DOMAIN gone : gone[i].live = FALSE
      BY QueuesAre, OrphanedIs
    <3> HIDE DEF gone
    <3>3. /\ r \in [tail : Seq(Writes), retired : Seq(Writes), stuck : BOOLEAN]
          /\ r.tail = gone /\ r.retired = w.retired /\ r.stuck = TRUE
      BY <3>2 DEF Queues
    <3> HIDE DEF r
    <3>4. Len(r.tail) + Len(r.retired) <= WriteQueueLimit
      BY <3>2, <3>3 DEF Queues
    <3>5. Queues(r) /\ Generations(r, FALSE)
      BY <3>2, <3>3, <3>4 DEF Queues, Generations
    <3> QED
      BY <3>1, <3>5 DEF r, gone
  <2> QED
    BY <2>2, <2>3
<1> QED
  BY <1>1, <1>2

\* Room for one more.
LEMMA RoomForOne ==
    \A a, b, c \in Nat : ~(a + b >= c) => a + b < c /\ (a + 1) + b <= c
OBVIOUS

\* A write is admitted where the queue has room, behind those of the same sidecar.
LEMMA AdmittedKeepsQueues ==
    ASSUME Queues(writes), Generations(writes, TRUE), ~WriteQueueFull, NEW token \in Issued
    PROVE  /\ Queues(Admitted(token)) /\ Generations(Admitted(token), TRUE)
           /\ Admitted(token).retired = writes.retired
           /\ Len(Admitted(token).tail) = Len(writes.tail) + 1
           /\ \A i \in 1 .. Len(writes.tail) : Admitted(token).tail[i] = writes.tail[i]
           /\ Admitted(token).tail[Len(writes.tail) + 1]
                 = [token |-> token, live |-> TRUE, state |-> "queued"]
<1> DEFINE new == [token |-> token, live |-> TRUE, state |-> "queued"]
           line == Append(writes.tail, new)
           w == [writes EXCEPT !.tail = line]
<1>1. Admitted(token) = w
  BY DEF Admitted
<1>2. new \in Writes /\ new.live = TRUE
  BY DEF Writes
<1>3. /\ line \in Seq(Writes) /\ Len(line) = Len(writes.tail) + 1
      /\ \A i \in 1 .. Len(writes.tail) : line[i] = writes.tail[i]
      /\ line[Len(writes.tail) + 1] = new
  BY <1>2, QueuesAre, AppendProperties
<1>4. DOMAIN line = 1 .. Len(writes.tail) + 1
  BY <1>3, LenProperties
<1>5. \A i \in DOMAIN line : line[i].live = TRUE
  BY <1>2, <1>3, <1>4, QueuesAre DEF Generations
<1> HIDE DEF line, new
<1>6. /\ w \in [tail : Seq(Writes), retired : Seq(Writes), stuck : BOOLEAN]
      /\ w.tail = line /\ w.retired = writes.retired /\ w.stuck = writes.stuck
  BY <1>3 DEF Queues
<1> HIDE DEF w
<1>7. Len(w.tail) + Len(w.retired) <= WriteQueueLimit
  <2>1. Len(writes.tail) \in Nat /\ Len(writes.retired) \in Nat /\ WriteQueueLimit \in Nat
    BY QueuesAre, LimitsAssumption
  <2>2. (Len(writes.tail) + 1) + Len(writes.retired) <= WriteQueueLimit
    BY <2>1, RoomForOne DEF WriteQueueFull
  <2> QED
    BY <1>3, <1>6, <2>2
<1>8. Queues(w) /\ Generations(w, TRUE)
  BY <1>5, <1>6, <1>7 DEF Queues, Generations
<1> QED
  BY <1>1, <1>3, <1>6, <1>8 DEF new

\* The rest of a line of writes.
LEMMA RestOfWrites ==
    ASSUME NEW t \in Seq(Writes), t # <<>>
    PROVE  /\ Tail(t) \in Seq(Writes) /\ Len(Tail(t)) = Len(t) - 1 /\ Len(t) \in Nat \ {0}
           /\ DOMAIN Tail(t) = 1 .. Len(t) - 1
           /\ \A i \in 1 .. Len(t) - 1 : Tail(t)[i] = t[i + 1]
           /\ Head(t) = t[1] /\ Head(t) \in Writes
<1>1. Len(t) \in Nat \ {0}
  BY EmptySeq
<1>2. /\ Tail(t) \in Seq(Writes) /\ Len(Tail(t)) = Len(t) - 1 /\ Head(t) \in Writes
      /\ \A i \in 1 .. Len(Tail(t)) : Tail(t)[i] = t[i + 1]
  BY HeadTailProperties
<1>3. DOMAIN Tail(t) = 1 .. Len(t) - 1
  BY <1>2, LenProperties
<1>4. Head(t) = t[1]
  BY <1>1
<1> QED
  BY <1>1, <1>2, <1>3, <1>4

\* A write that has settled leaves its lane; the last of them ends the teardown.
LEMMA ReleasedKeepsQueues ==
    ASSUME Queues(writes), NEW running \in BOOLEAN, Generations(writes, running),
           NEW lane \in Lanes, writes[lane] # <<>>
    PROVE  /\ Queues(Released(lane)) /\ Generations(Released(lane), running)
           /\ Released(lane).tail = IF lane = "tail" THEN Tail(writes.tail) ELSE writes.tail
           /\ Released(lane).retired = IF lane = "tail" THEN writes.retired ELSE Tail(writes.retired)
<1> DEFINE v == [writes EXCEPT ![lane] = Tail(@)]
           stuck == v.stuck /\ (v.tail # <<>> \/ v.retired # <<>>)
           w == [v EXCEPT !.stuck = stuck]
<1>1. Released(lane) = w
  BY DEF Released
<1>2. /\ v \in [tail : Seq(Writes), retired : Seq(Writes), stuck : BOOLEAN]
      /\ v.tail = IF lane = "tail" THEN Tail(writes.tail) ELSE writes.tail
      /\ v.retired = IF lane = "tail" THEN writes.retired ELSE Tail(writes.retired)
      /\ v.stuck = writes.stuck
  <2>1. CASE lane = "tail"
    <3>1. v = [writes EXCEPT !.tail = Tail(writes.tail)] /\ writes.tail # <<>>
      BY <2>1
    <3>2. Tail(writes.tail) \in Seq(Writes)
      BY <3>1, QueuesAre, RestOfWrites
    <3> HIDE DEF v
    <3> QED
      BY <2>1, <3>1, <3>2 DEF Queues
  <2>2. CASE lane = "retired"
    <3>1. v = [writes EXCEPT !.retired = Tail(writes.retired)] /\ writes.retired # <<>>
      BY <2>2
    <3>2. Tail(writes.retired) \in Seq(Writes)
      BY <3>1, QueuesAre, RestOfWrites
    <3> HIDE DEF v
    <3> QED
      BY <2>2, <3>1, <3>2 DEF Queues
  <2> QED
    BY <2>1, <2>2 DEF Lanes
<1> HIDE DEF v
<1>3. stuck \in BOOLEAN /\ (stuck <=> v.stuck /\ (v.tail # <<>> \/ v.retired # <<>>))
  BY <1>2
<1> HIDE DEF stuck
<1>4. /\ w \in [tail : Seq(Writes), retired : Seq(Writes), stuck : BOOLEAN]
      /\ w.tail = v.tail /\ w.retired = v.retired /\ w.stuck = stuck
  BY <1>2, <1>3
<1> HIDE DEF w
<1>5. CASE lane = "tail"
  <2>1. w.tail = Tail(writes.tail) /\ w.retired = writes.retired /\ writes.tail # <<>>
    BY <1>2, <1>4, <1>5
  <2>2. Len(w.tail) + Len(w.retired) <= WriteQueueLimit
    BY <2>1, QueuesAre, RestOfWrites, LimitsAssumption DEF Queues
  <2>3. \A i \in DOMAIN w.tail : w.tail[i].live = running
    BY <2>1, QueuesAre, RestOfWrites DEF Generations
  <2>4. \A i \in DOMAIN w.retired : ~w.retired[i].live
    BY <2>1 DEF Generations
  <2>5. w.stuck => ~running
    BY <1>2, <1>3, <1>4 DEF Generations
  <2>6. ~w.stuck /\ ~running => w.tail = <<>>
    BY <1>2, <1>3, <1>4, <2>1 DEF Generations
  <2> QED
    BY <1>1, <1>2, <1>4, <2>2, <2>3, <2>4, <2>5, <2>6 DEF Queues, Generations
<1>6. CASE lane = "retired"
  <2>1. w.tail = writes.tail /\ w.retired = Tail(writes.retired) /\ writes.retired # <<>>
    BY <1>2, <1>4, <1>6
  <2>2. Len(w.tail) + Len(w.retired) <= WriteQueueLimit
    BY <2>1, QueuesAre, RestOfWrites, LimitsAssumption DEF Queues
  <2>3. \A i \in DOMAIN w.tail : w.tail[i].live = running
    BY <2>1 DEF Generations
  <2>4. \A i \in DOMAIN w.retired : ~w.retired[i].live
    BY <2>1, QueuesAre, RestOfWrites DEF Generations
  <2>5. w.stuck => ~running
    BY <1>2, <1>3, <1>4 DEF Generations
  <2>6. ~w.stuck /\ ~running => w.tail = <<>>
    BY <1>2, <1>3, <1>4, <2>1 DEF Generations
  <2> QED
    BY <1>1, <1>2, <1>4, <2>2, <2>3, <2>4, <2>5, <2>6 DEF Queues, Generations
<1> QED
  BY <1>5, <1>6 DEF Lanes

\* A line of writes whose first begins.
FirstStarted(t) == [t EXCEPT ![1].state = "started"]

LEMMA FirstStartedIs ==
    ASSUME NEW t \in Seq(Writes), t # <<>>
    PROVE  LET u == FirstStarted(t)
           IN  /\ u \in Seq(Writes) /\ Len(u) = Len(t) /\ DOMAIN u = DOMAIN t
               /\ \A i \in 1 .. Len(t) : /\ u[i].token = t[i].token /\ u[i].live = t[i].live
                                         /\ u[i].state = IF i = 1 THEN "started" ELSE t[i].state
<1> DEFINE u == FirstStarted(t)
<1>1. /\ Len(t) \in Nat \ {0} /\ DOMAIN t = 1 .. Len(t)
      /\ \A i \in 1 .. Len(t) : t[i] \in Writes
  BY EmptySeq, LenProperties
<1> DEFINE e == [t[1] EXCEPT !.state = "started"]
<1>2. u = [t EXCEPT ![1] = e] /\ 1 \in 1 .. Len(t)
  BY <1>1 DEF FirstStarted
<1>3. e \in Writes /\ e.token = t[1].token /\ e.live = t[1].live /\ e.state = "started"
  BY <1>1, <1>2 DEF Writes
<1> HIDE DEF e, u
<1>4. /\ u \in Seq(Writes) /\ Len(u) = Len(t)
      /\ \A j \in 1 .. Len(t) : u[j] = IF j = 1 THEN e ELSE t[j]
  BY <1>2, <1>3, ExceptSeq
<1>5. DOMAIN u = DOMAIN t
  BY <1>1, <1>4, LenProperties
<1> QED
  BY <1>3, <1>4, <1>5 DEF u

\* The writes are what they were, but for the first of a lane, which has started.
StartedIn(w, lane) ==
    /\ Len(w.tail) = Len(writes.tail) /\ Len(w.retired) = Len(writes.retired)
    /\ \A i \in 1 .. Len(writes.tail) :
          /\ w.tail[i].token = writes.tail[i].token /\ w.tail[i].live = writes.tail[i].live
          /\ w.tail[i].state = IF lane = "tail" /\ i = 1 THEN "started" ELSE writes.tail[i].state
    /\ \A i \in 1 .. Len(writes.retired) :
          /\ w.retired[i].token = writes.retired[i].token
          /\ w.retired[i].live = writes.retired[i].live
          /\ w.retired[i].state = IF lane = "retired" /\ i = 1 THEN "started"
                                  ELSE writes.retired[i].state

\* A write that begins stays where it is.
LEMMA StartedKeepsQueues ==
    ASSUME Queues(writes), NEW running \in BOOLEAN, Generations(writes, running),
           NEW lane \in Lanes, writes[lane] # <<>>, NEW w, w = [writes EXCEPT ![lane][1].state = "started"]
    PROVE  Queues(w) /\ Generations(w, running) /\ StartedIn(w, lane)
<1>1. CASE lane = "tail"
  <2> DEFINE t == writes.tail
             u == FirstStarted(t)
  <2>1. w = [writes EXCEPT !.tail = u] /\ t # <<>> /\ t \in Seq(Writes)
    BY <1>1, QueuesAre DEF FirstStarted
  <2>2. t = writes.tail
    OBVIOUS
  <2> HIDE DEF t
  <2>3. /\ u \in Seq(Writes) /\ Len(u) = Len(t) /\ DOMAIN u = DOMAIN t
        /\ \A i \in 1 .. Len(t) : /\ u[i].token = t[i].token /\ u[i].live = t[i].live
                                  /\ u[i].state = IF i = 1 THEN "started" ELSE t[i].state
    BY <2>1, FirstStartedIs
  <2> HIDE DEF u
  <2>4. /\ w \in [tail : Seq(Writes), retired : Seq(Writes), stuck : BOOLEAN]
        /\ w.tail = u /\ w.retired = writes.retired /\ w.stuck = writes.stuck
    BY <2>1, <2>3 DEF Queues
  <2>5. Queues(w)
    BY <2>2, <2>3, <2>4 DEF Queues
  <2>6. Generations(w, running)
    <3>1. \A i \in DOMAIN w.tail : w.tail[i].live = running
      BY <2>2, <2>3, <2>4, QueuesAre DEF Generations
    <3>2. ~w.stuck /\ ~running => w.tail = <<>>
      BY <2>1, <2>2, <2>4 DEF Generations
    <3> QED
      BY <2>4, <3>1, <3>2 DEF Generations
  <2> QED
    BY <1>1, <2>2, <2>3, <2>4, <2>5, <2>6 DEF StartedIn
<1>2. CASE lane = "retired"
  <2> DEFINE t == writes.retired
             u == FirstStarted(t)
  <2>1. w = [writes EXCEPT !.retired = u] /\ t # <<>> /\ t \in Seq(Writes)
    BY <1>2, QueuesAre DEF FirstStarted
  <2>2. t = writes.retired
    OBVIOUS
  <2> HIDE DEF t
  <2>3. /\ u \in Seq(Writes) /\ Len(u) = Len(t) /\ DOMAIN u = DOMAIN t
        /\ \A i \in 1 .. Len(t) : /\ u[i].token = t[i].token /\ u[i].live = t[i].live
                                  /\ u[i].state = IF i = 1 THEN "started" ELSE t[i].state
    BY <2>1, FirstStartedIs
  <2> HIDE DEF u
  <2>4. /\ w \in [tail : Seq(Writes), retired : Seq(Writes), stuck : BOOLEAN]
        /\ w.tail = writes.tail /\ w.retired = u /\ w.stuck = writes.stuck
    BY <2>1, <2>3 DEF Queues
  <2>5. Queues(w)
    BY <2>2, <2>3, <2>4 DEF Queues
  <2>6. Generations(w, running)
    <3>1. \A i \in DOMAIN w.retired : ~w.retired[i].live
      BY <2>2, <2>3, <2>4, QueuesAre DEF Generations
    <3> QED
      BY <2>4, <3>1 DEF Generations
  <2> QED
    BY <1>2, <2>2, <2>3, <2>4, <2>5, <2>6 DEF StartedIn
<1> QED
  BY <1>1, <1>2 DEF Lanes

\* After a step the writes and the pipes are of the sidecar that runs, if one does.
LEMMA PlumbingKeepsPlumbed ==
    ASSUME Plumbed, child' \in BOOLEAN,
           NEW w, Queues(w), NEW running \in BOOLEAN, Generations(w, running), child' => running,
           NEW in \in Seq(Issued), NEW rest \in Seq(Answers), Plumbing(w, in, rest)
    PROVE  Plumbed' /\ (refusing' \in BOOLEAN \/ refusing' = refusing)
<1>1. CASE child' = TRUE
  <2>1. /\ writes' = w /\ pipe' = in /\ out' = rest /\ UNCHANGED <<tasks, refusing>>
    BY <1>1 DEF Plumbing
  <2>2. Queues(writes)' /\ Generations(writes, child)'
    BY <1>1, <2>1 DEF Queues, Generations
  <2> QED
    BY <1>1, <2>1, <2>2 DEF Plumbed
<1>2. CASE child' = FALSE
  <2>1. /\ writes' = Retired(w) /\ pipe' = <<>> /\ out' = <<>> /\ tasks' = {} /\ refusing' = FALSE
    BY <1>2 DEF Plumbing
  <2>2. Queues(Retired(w)) /\ Generations(Retired(w), FALSE)
    BY RetiredKeepsQueues
  <2>3. Queues(writes)' /\ Generations(writes, child)'
    BY <1>2, <2>1, <2>2 DEF Queues, Generations
  <2>4. /\ pipe' \in Seq(Issued) /\ out' \in Seq(Answers)
        /\ tasks' \in SUBSET Issued /\ IsFiniteSet(tasks') /\ Cardinality(tasks') <= ServerMaxInFlight
    BY <2>1, EmptySeq, FS_EmptySet, LimitsAssumption
  <2> QED
    BY <1>2, <2>1, <2>3, <2>4 DEF Plumbed
<1> QED
  BY <1>1, <1>2

\* The writes of no sidecar do for the next one when it may start.
LEMMA FreshGeneration ==
    ASSUME Plumbed, child \in BOOLEAN, ~writes.stuck
    PROVE  Generations(writes, TRUE)
<1>1. CASE child = TRUE
  BY <1>1 DEF Plumbed
<1>2. CASE child = FALSE
  <2>1. writes.tail = <<>> /\ \A i \in DOMAIN writes.retired : ~writes.retired[i].live
    BY <1>2 DEF Plumbed, Generations
  <2>2. DOMAIN writes.tail = {}
    BY <2>1
  <2> QED
    BY <2>1, <2>2 DEF Generations
<1> QED
  BY <1>1, <1>2

---------------------------------------------------------------------------
(* Steps keep the routes, the shapes and the plumbing *)

LEMMA BaseTypes ==
    Base => /\ child \in BOOLEAN /\ control \in 0 .. LastProbe /\ place \in [Ids -> Places]
            /\ kind \in [Ids -> Kinds] /\ nth \in [Ids -> 0 .. MaxCalls] /\ mixed \in BOOLEAN
            /\ Queues(writes) /\ Generations(writes, child)
            /\ pipe \in Seq(Issued) /\ out \in Seq(Answers)
            /\ tombstones \subseteq Ids \cup {Control}
            /\ \A id \in Ids : place[id] \in {"connecting", "inLine", "pending"} => child
            /\ control # 0 => child
BY DEF Base, Routing, CallShapes, Plumbed, Shapes, Linked, Buried

LEMMA TokensAreIssued ==
    ASSUME nth \in [Ids -> 0 .. MaxCalls], kind \in [Ids -> Kinds]
    PROVE  /\ \A id \in Ids : Token(id) \in Issued
           /\ \A n \in 1 .. LastProbe : Probe(n) \in Issued
<1>1. ASSUME NEW id \in Ids PROVE Token(id) \in Issued
  <2>1. nth[id] \in Nat /\ kind[id] \in Kinds /\ id # Control
    BY IdAssumption, LimitsAssumption
  <2> QED
    BY <2>1 DEF Token, Issued, Tokens
<1>2. ASSUME NEW n \in 1 .. LastProbe PROVE Probe(n) \in Issued
  <2>1. n \in Nat /\ n # 0
    BY DEF LastProbe
  <2> QED
    BY <2>1 DEF Probe, Issued, Tokens, Kinds
<1> QED
  BY <1>1, <1>2

LEMMA UnchangedKeepsPlumbed ==
    ASSUME Plumbed, UNCHANGED <<child, writes, sidecar>>
    PROVE  Plumbed' /\ UNCHANGED refusing
BY DEF Plumbed, sidecar, Queues, Generations

LEMMA LeavingKeepsRouting ==
    ASSUME Routing, NEW id \in Ids, Leave(id), UNCHANGED <<link, suspicion, kind>>
    PROVE  Routing'
BY LeaveKeepsRouting DEF link, suspicion, Routing, Buried

\* A step that ends at most the sidecar, with the writes as they are.
LEMMA PlumbingTheSame ==
    ASSUME Base, child' \in BOOLEAN, child' => child,
           NEW rest \in Seq(Answers), Plumbing(writes, pipe, rest)
    PROVE  Plumbed' /\ (refusing' \in BOOLEAN \/ refusing' = refusing)
BY BaseTypes, PlumbingKeepsPlumbed DEF Base

LEMMA EnsureKeepsPlumbed ==
    ASSUME Base, NEW id \in Ids, EnsureHandshake(id)
    PROVE  Plumbed' /\ (refusing' \in BOOLEAN \/ refusing' = refusing)
<1> DEFINE admitted == waiting \cup {id}
           first == handshake = "unknown" /\ control = 0 /\ ~writes.stuck
           hello == first /\ CanIssueControl(Cardinality(admitted) + Cardinality(active))
           w == IF hello THEN Admitted(Probe(Hello)) ELSE writes
<1>1. child' = (child \/ first) /\ Plumbing(w, pipe, out)
  BY DEF EnsureHandshake
<1>2. /\ first => ~writes.stuck
      /\ hello => first /\ ~WriteQueueFull
      /\ first \in BOOLEAN /\ hello \in BOOLEAN
  BY DEF CanIssueControl
<1>3. w = IF hello THEN Admitted(Probe(Hello)) ELSE writes
  OBVIOUS
<1> HIDE DEF first, hello, w
<1>4. Probe(Hello) \in Issued
  BY BaseTypes, TokensAreIssued DEF Hello, LastProbe
<1>5. CASE first
  <2>1. Generations(writes, TRUE)
    BY <1>2, <1>5, BaseTypes, FreshGeneration DEF Base
  <2>2. Queues(w) /\ Generations(w, TRUE)
    BY <1>2, <1>3, <1>4, <2>1, BaseTypes, AdmittedKeepsQueues
  <2> QED
    BY <1>1, <1>5, <2>2, BaseTypes, PlumbingKeepsPlumbed DEF Base
<1>6. CASE ~first
  BY <1>1, <1>2, <1>3, <1>6, BaseTypes, PlumbingTheSame
<1> QED
  BY <1>5, <1>6

LEMMA RequestKeepsBase ==
    ASSUME Base, NEW id \in Ids, NEW k \in Kinds, Request(id, k)
    PROVE  Base'
<1>1. /\ place[id] = "none" /\ nth[id] < MaxCalls /\ RoomForCaller
      /\ nth' = [nth EXCEPT ![id] = @ + 1] /\ kind' = [kind EXCEPT ![id] = k]
      /\ UNCHANGED <<slots, suspicion, closed, strays, mixed>>
      /\ \/ k = "unary" /\ EnsureHandshake(id)
         \/ /\ k = "stream"
            /\ place' = [place EXCEPT ![id] = "begun"] /\ waiting' = waiting \cup {id}
            /\ UNCHANGED <<link, active, writes, sidecar>>
  BY DEF Request
<1>2. \A x \in Ids \ {id} : kind'[x] = kind[x]
  BY <1>1, BaseTypes
<1>3. CASE EnsureHandshake(id)
  <2>1. Routing'
    BY <1>1, <1>2, <1>3, ConnectedKeepsRouting DEF Base
  <2>2. Plumbed' /\ (refusing' \in BOOLEAN \/ refusing' = refusing)
    BY <1>3, EnsureKeepsPlumbed
  <2> QED
    BY <1>1, <2>1, <2>2, LimitsAssumption DEF Base, CallShapes
<1>4. CASE /\ place' = [place EXCEPT ![id] = "begun"] /\ waiting' = waiting \cup {id}
           /\ UNCHANGED <<link, active, writes, sidecar>>
  <2>1. Routing'
    BY <1>1, <1>2, <1>4, BegunKeepsRouting DEF Base, link, suspicion
  <2>2. Plumbed' /\ UNCHANGED refusing
    BY <1>4, UnchangedKeepsPlumbed DEF Base, link
  <2> QED
    BY <1>1, <2>1, <2>2, LimitsAssumption DEF Base, CallShapes
<1> QED
  BY <1>1, <1>3, <1>4

LEMMA ConnectKeepsBase ==
    ASSUME Base, NEW id \in Ids, Connect(id)
    PROVE  Base'
<1>1. /\ place[id] = "begun" /\ EnsureHandshake(id)
      /\ UNCHANGED <<slots, calls, suspicion, closed, strays, mixed>>
  BY DEF Connect
<1>2. Routing'
  BY <1>1, ConnectedKeepsRouting DEF Base, calls
<1>3. Plumbed' /\ (refusing' \in BOOLEAN \/ refusing' = refusing)
  BY <1>1, EnsureKeepsPlumbed
<1> QED
  BY <1>1, <1>2, <1>3 DEF Base, CallShapes, calls

\* The calls' own shapes, in a step that leaves kind and number of the calls alone.
LEMMA SameCalls ==
    ASSUME CallShapes, UNCHANGED calls, closed' \in {closed, TRUE}, mixed' \in BOOLEAN,
           refusing' \in BOOLEAN \/ refusing' = refusing
    PROVE  CallShapes'
BY DEF CallShapes, calls

LEMMA IssueKeepsBase ==
    ASSUME Base, NEW id \in Ids, place[id] \in {"connecting", "inLine"}, Issue(id),
           UNCHANGED <<calls, closed, strays, mixed>>
    PROVE  Base'
<1>1. child = TRUE
  BY BaseTypes
<1>2. CASE quarantined
  <2>1. Leave(id) /\ UNCHANGED <<link, suspicion, writes, sidecar>>
    BY <1>2 DEF Issue
  <2>2. Routing'
    BY <2>1, LeavingKeepsRouting DEF Base, calls
  <2>3. Plumbed' /\ UNCHANGED refusing
    BY <2>1, UnchangedKeepsPlumbed DEF Base, link
  <2> QED
    BY <2>2, <2>3, BaseTypes, SameCalls DEF Base
<1>3. CASE ~quarantined /\ WriteQueueFull
  <2>1. Clear(id) /\ Plumbing(writes, pipe, out)
    BY <1>3 DEF Issue
  <2>2. Routing'
    BY <2>1, ClearKeepsRouting DEF Base, calls
  <2>3. child' \in BOOLEAN
    BY <2>2 DEF Routing, Shapes
  <2>4. Plumbed' /\ (refusing' \in BOOLEAN \/ refusing' = refusing)
    BY <1>1, <2>1, <2>3, BaseTypes, PlumbingTheSame
  <2> QED
    BY <2>2, <2>4, BaseTypes, SameCalls DEF Base
<1>4. CASE ~quarantined /\ ~WriteQueueFull
  <2>1. /\ place' = [place EXCEPT ![id] = "pending"]
        /\ waiting' = waiting \ {id} /\ active' = active \cup {id}
        /\ writes' = Admitted(Token(id))
        /\ UNCHANGED <<link, slots, suspicion, sidecar>>
    BY <1>4 DEF Issue
  <2>2. Routing'
    BY <2>1, BaseTypes, IssuedKeepsRouting DEF Base, link, suspicion, calls
  <2>3. Queues(Admitted(Token(id))) /\ Generations(Admitted(Token(id)), TRUE)
    BY <1>1, <1>4, BaseTypes, TokensAreIssued, AdmittedKeepsQueues
  <2>4. Plumbed'
    BY <1>1, <2>1, <2>3 DEF Base, Plumbed, Queues, Generations, link, sidecar
  <2> QED
    BY <2>1, <2>2, <2>4, BaseTypes, SameCalls DEF Base, sidecar
<1> QED
  BY <1>2, <1>3, <1>4

LEMMA ProceedKeepsBase ==
    ASSUME Base, NEW id \in Ids, Proceed(id)
    PROVE  Base'
<1>1. /\ place[id] = "connecting" /\ handshake \in Usable
      /\ IF handshake \in SingleFlight THEN GetInLine(id) ELSE Issue(id)
      /\ UNCHANGED <<calls, closed, strays, mixed>>
  BY DEF Proceed
<1>2. CASE Issue(id)
  BY <1>1, <1>2, IssueKeepsBase
<1>3. CASE GetInLine(id)
  <2>1. UNCHANGED <<link, suspicion, writes, sidecar>>
    BY <1>3 DEF GetInLine
  <2>2. Routing'
    <3>1. CASE quarantined /\ kind[id] = "unary"
      <4>1. Leave(id)
        BY <1>3, <3>1 DEF GetInLine
      <4> QED
        BY <1>1, <2>1, <4>1, LeavingKeepsRouting DEF Base, calls
    <3>2. CASE ~(quarantined /\ kind[id] = "unary")
      <4>1. /\ place' = [place EXCEPT ![id] = "inLine"] /\ slots' = Append(slots, id)
            /\ IF kind[id] = "unary" THEN waiting' = waiting \ {id} /\ active' = active \cup {id}
                                     ELSE UNCHANGED <<waiting, active>>
        BY <1>3, <3>2 DEF GetInLine
      <4> QED
        BY <1>1, <2>1, <4>1, BaseTypes, InLineKeepsRouting DEF Base, link, suspicion, calls
    <3> QED
      BY <3>1, <3>2
  <2>3. Plumbed' /\ UNCHANGED refusing
    BY <2>1, UnchangedKeepsPlumbed DEF Base, link
  <2> QED
    BY <1>1, <2>2, <2>3, BaseTypes, SameCalls DEF Base
<1> QED
  BY <1>1, <1>2, <1>3

LEMMA TakeSlotKeepsBase ==
    ASSUME Base, NEW id \in Ids, TakeSlot(id)
    PROVE  Base'
BY IssueKeepsBase DEF TakeSlot

\* A step that ends routes, or all of them, and leaves the writes as they are.
LEMMA SettlingKeepsBase ==
    ASSUME Base, Routing', child' => child, NEW rest \in Seq(Answers), Plumbing(writes, pipe, rest),
           UNCHANGED calls, closed' \in {closed, TRUE}, mixed' \in BOOLEAN
    PROVE  Base'
<1>1. child' \in BOOLEAN
  BY DEF Routing, Shapes
<1>2. Plumbed' /\ (refusing' \in BOOLEAN \/ refusing' = refusing)
  BY <1>1, PlumbingTheSame
<1> QED
  BY <1>2, SameCalls DEF Base

LEMMA WithdrawKeepsRouting ==
    ASSUME Base, NEW id \in Ids, NEW fatal, Withdraw(id, fatal), UNCHANGED calls
    PROVE  Routing' /\ (child' => child) /\ Plumbing(writes, pipe, out)
<1>1. Plumbing(writes, pipe, out)
  BY DEF Withdraw
<1>2. CASE fatal \/ HasStartedWrite(id)
  BY <1>1, <1>2, RecycleKeepsRouting DEF Withdraw, Base, Recycle
<1>3. CASE ~(fatal \/ HasStartedWrite(id))
  BY <1>1, <1>3, ClearExpectingKeepsRouting DEF Withdraw, Base, ClearExpecting, Recycle, link, calls
<1> QED
  BY <1>2, <1>3

LEMMA CancelKeepsBase ==
    ASSUME Base, NEW id \in Ids, Cancel(id)
    PROVE  Base'
<1>1. UNCHANGED <<calls, closed, strays, mixed>>
  BY DEF Cancel
<1>2. CASE Leave(id) /\ UNCHANGED <<link, suspicion, writes, sidecar>>
  <2>1. Routing'
    BY <1>1, <1>2, LeavingKeepsRouting DEF Base, calls
  <2>2. Plumbed' /\ UNCHANGED refusing
    BY <1>2, UnchangedKeepsPlumbed DEF Base, link
  <2> QED
    BY <1>1, <2>1, <2>2, BaseTypes, SameCalls DEF Base
<1>3. CASE Withdraw(id, FALSE)
  BY <1>1, <1>3, WithdrawKeepsRouting, BaseTypes, SettlingKeepsBase
<1> QED
  BY <1>2, <1>3 DEF Cancel

LEMMA TimeoutKeepsBase ==
    ASSUME Base, NEW id \in Ids, Timeout(id)
    PROVE  Base'
<1>1. Withdraw(id, id \in ToSet(slots)) /\ UNCHANGED <<calls, closed, strays, mixed>>
  BY DEF Timeout
<1> QED
  BY <1>1, WithdrawKeepsRouting, BaseTypes, SettlingKeepsBase

\* The steps that do no more than end the sidecar.
LEMMA EndingKeepsBase ==
    ASSUME Base, Recycle("unknown"), Plumbing(writes, pipe, out), UNCHANGED calls,
           closed' \in {closed, TRUE}, UNCHANGED mixed
    PROVE  Base'
<1>1. Routing' /\ (child' => child)
  BY RecycleKeepsRouting DEF Base, Recycle
<1> QED
  BY <1>1, BaseTypes, SettlingKeepsBase

LEMMA StoppingKeepsBase ==
    ASSUME Base, ControlTimeout \/ GraceEnds \/ Exit \/ Close
    PROVE  Base'
<1>1. /\ Recycle("unknown") /\ Plumbing(writes, pipe, out) /\ UNCHANGED <<calls, strays, mixed>>
      /\ closed' \in {closed, TRUE}
  BY DEF ControlTimeout, GraceEnds, Exit, Close
<1> QED
  BY <1>1, EndingKeepsBase

\* The write at work in a lane.
LEMMA FirstIsAWrite ==
    ASSUME Queues(writes), NEW lane \in Lanes, writes[lane] # <<>>
    PROVE  /\ First(lane) \in Writes /\ First(lane) = writes[lane][1]
           /\ First(lane).token \in Issued
           /\ First(lane).token.id \in Ids \cup {Control}
           /\ First(lane).token.id = Control => First(lane).token.nth # 0
<1>1. First(lane) \in Writes /\ First(lane) = writes[lane][1]
  <2>1. CASE lane = "tail"
    <3>1. writes[lane] = writes.tail
      BY <2>1
    <3> QED
      BY <3>1, QueuesAre, RestOfWrites DEF First
  <2>2. CASE lane = "retired"
    <3>1. writes[lane] = writes.retired
      BY <2>2
    <3> QED
      BY <3>1, QueuesAre, RestOfWrites DEF First
  <2> QED
    BY <2>1, <2>2 DEF Lanes
<1>2. First(lane).token \in Issued
  BY <1>1 DEF Writes
<1> QED
  BY <1>1, <1>2 DEF Issued, Tokens

LEMMA UnchangedKeepsRouting ==
    ASSUME Routing, UNCHANGED <<link, routes, suspicion, calls>>
    PROVE  Routing'
BY DEF link, routes, suspicion, calls, Routing, Shapes, Buried, Lined, Admissions,
       AdmissionsAccount, Live, Linked

LEMMA FailsKeepsBase ==
    ASSUME Base, NEW lane \in Lanes, writes[lane] # <<>>, NEW expecting, Fails(lane, expecting),
           UNCHANGED <<calls, closed>>
    PROVE  Base'
<1> DEFINE write == First(lane)
           id == write.token.id
<1>1. /\ write.token \in Issued /\ id \in Ids \cup {Control}
      /\ id = Control => write.token.nth # 0
  BY BaseTypes, FirstIsAWrite
<1>2. Routing' /\ (child' => child)
  <2>1. CASE ~CatchFinds(write)
    <3>1. UNCHANGED <<link, routes, suspicion>>
      BY <2>1 DEF Fails
    <3> QED
      BY <3>1, UnchangedKeepsRouting DEF Base, link
  <2>2. CASE CatchFinds(write) /\ id = Control
    <3>1. control # 0
      BY <1>1, <2>2 DEF CatchFinds, HasRoute
    <3>2. CASE Cardinality(tombstones) >= TombstoneLimit
      <4>1. Recycle("unknown")
        BY <2>2, <3>2 DEF Fails
      <4> QED
        BY <4>1, RecycleKeepsRouting DEF Base, Recycle
    <3>3. CASE ~(Cardinality(tombstones) >= TombstoneLimit)
      <4>1. Negotiated("unknown", {Control})
        BY <2>2, <3>3 DEF Fails
      <4>2. Cardinality(tombstones) < TombstoneLimit
        <5>1. Cardinality(tombstones) \in Nat /\ TombstoneLimit \in Nat
          BY FS_CardinalityType, LimitsAssumption DEF Base, Routing, Buried
        <5> QED
          BY <3>3, <5>1
      <4>3. Routing'
        BY <3>1, <4>1, <4>2, NegotiatedKeepsRouting DEF Base, calls
      <4>4. child = TRUE
        BY <3>1, BaseTypes
      <4> QED
        BY <4>3, <4>4
    <3> QED
      BY <3>2, <3>3
  <2>3. CASE CatchFinds(write) /\ id # Control /\ expecting
    <3>1. ClearExpecting(id) /\ id \in Ids
      BY <1>1, <2>3 DEF Fails
    <3> QED
      BY <3>1, ClearExpectingKeepsRouting DEF Base, ClearExpecting, Recycle, link, calls
  <2>4. CASE CatchFinds(write) /\ id # Control /\ ~expecting
    <3>1. Clear(id) /\ id \in Ids
      BY <1>1, <2>4 DEF Fails
    <3> QED
      BY <3>1, ClearKeepsRouting DEF Base, Clear, Recycle, link, calls
  <2> QED
    BY <2>1, <2>2, <2>3, <2>4
<1>3. mixed' \in BOOLEAN
  BY BaseTypes DEF Fails
<1>4. Plumbing(Released(lane), pipe, out)
  BY DEF Fails
<1>5. child' \in BOOLEAN
  BY <1>2 DEF Routing, Shapes
<1>6. Queues(Released(lane)) /\ Generations(Released(lane), child)
  BY BaseTypes, ReleasedKeepsQueues
<1>7. Plumbed' /\ (refusing' \in BOOLEAN \/ refusing' = refusing)
  BY <1>2, <1>4, <1>5, <1>6, BaseTypes, PlumbingKeepsPlumbed DEF Base
<1> QED
  BY <1>2, <1>3, <1>7, SameCalls DEF Base

LEMMA BeginWriteKeepsBase ==
    ASSUME Base, NEW lane \in Lanes, BeginWrite(lane)
    PROVE  Base'
<1>1. writes[lane] # <<>> /\ UNCHANGED <<calls, closed, strays>>
  BY DEF BeginWrite, HasWrite
<1>2. CASE /\ writes' = [writes EXCEPT ![lane][1].state = "started"]
           /\ UNCHANGED <<link, routes, suspicion, sidecar, mixed>>
  <2>1. Queues(writes') /\ Generations(writes', child)
    BY <1>1, <1>2, BaseTypes, StartedKeepsQueues
  <2>2. Plumbed' /\ UNCHANGED refusing
    BY <1>2, <2>1 DEF Base, Plumbed, Queues, Generations, link, sidecar
  <2> QED
    BY <1>1, <1>2, <2>2, BaseTypes, UnchangedKeepsRouting, SameCalls DEF Base
<1>3. CASE Fails(lane, FALSE)
  BY <1>1, <1>3, FailsKeepsBase
<1> QED
  BY <1>2, <1>3 DEF BeginWrite

LEMMA WriteFailsKeepsBase ==
    ASSUME Base, NEW lane \in Lanes, WriteFails(lane)
    PROVE  Base'
BY FailsKeepsBase DEF WriteFails, HasWrite

LEMMA WriteDoneKeepsBase ==
    ASSUME Base, NEW lane \in Lanes, WriteDone(lane)
    PROVE  Base'
<1>1. /\ writes[lane] # <<>>
      /\ writes' = Released(lane)
      /\ pipe' = IF First(lane).live THEN Append(pipe, First(lane).token) ELSE pipe
      /\ UNCHANGED <<link, routes, calls, suspicion, closed, tasks, out, refusing, strays, mixed>>
  BY DEF WriteDone, HasWrite
<1>2. Queues(writes') /\ Generations(writes', child)
  BY <1>1, BaseTypes, ReleasedKeepsQueues
<1>3. pipe' \in Seq(Issued) /\ (~child => pipe' = pipe)
  <2>1. CASE First(lane).live
    <3>1. child = TRUE
      <4>1. CASE lane = "tail"
        <5>1. writes[lane] = writes.tail
          BY <4>1
        <5>2. First(lane) = writes.tail[1] /\ 1 \in DOMAIN writes.tail
          BY <1>1, <5>1, BaseTypes, QueuesAre, RestOfWrites DEF First
        <5> QED
          BY <2>1, <5>2, BaseTypes DEF Generations
      <4>2. CASE lane = "retired"
        <5>1. writes[lane] = writes.retired
          BY <4>2
        <5>2. First(lane) = writes.retired[1] /\ 1 \in DOMAIN writes.retired
          BY <1>1, <5>1, BaseTypes, QueuesAre, RestOfWrites DEF First
        <5> QED
          BY <2>1, <5>2, BaseTypes DEF Generations
      <4> QED
        BY <4>1, <4>2 DEF Lanes
    <3> QED
      BY <1>1, <2>1, <3>1, BaseTypes, FirstIsAWrite, AppendProperties
  <2>2. CASE ~First(lane).live
    BY <1>1, <2>2, BaseTypes
  <2> QED
    BY <2>1, <2>2
<1>4. Plumbed'
  BY <1>1, <1>2, <1>3 DEF Base, Plumbed, Queues, Generations, link
<1> QED
  BY <1>1, <1>4, BaseTypes, UnchangedKeepsRouting, SameCalls DEF Base

\* An answer is followed by the next probe, by the end of the negotiation, or by the end of
\* the sidecar.
LEMMA AnsweredIs ==
    ASSUME NEW greeting, NEW rest, Answered(greeting, rest)
    PROVE
    LET next == control + 1
        goesOn == greeting # "rejected" /\ Follows(greeting) /\ CanIssueControl(Live - 1)
    IN  /\ goesOn => /\ control' = next
                     /\ UNCHANGED <<child, handshake, routes, suspicion>>
        /\ \/ goesOn \/ Recycle("blocked")
           \/ \E state \in Usable \cup {"unknown"} : Negotiated(state, {})
        /\ Plumbing(IF goesOn THEN Admitted(Probe(next)) ELSE writes, pipe, rest)
<1> DEFINE next == control + 1
           goesOn == greeting # "rejected" /\ Follows(greeting) /\ CanIssueControl(Live - 1)
           w == IF goesOn THEN Admitted(Probe(next)) ELSE writes
<1> SUFFICES
      /\ goesOn => /\ control' = next
                   /\ UNCHANGED <<child, handshake, routes, suspicion>>
      /\ \/ goesOn \/ Recycle("blocked")
         \/ \E state \in Usable \cup {"unknown"} : Negotiated(state, {})
      /\ Plumbing(w, pipe, rest)
  OBVIOUS
<1>1. /\ IF greeting = "rejected" THEN Recycle("blocked")
         ELSE CASE goesOn -> control' = next /\ UNCHANGED <<child, handshake, routes, suspicion>>
                [] control = Hello /\ greeting \in Usable -> Negotiated(greeting, {})
                [] control = LastProbe -> Negotiated("legacy", {})
                [] OTHER -> Negotiated("unknown", {})
      /\ Plumbing(w, pipe, rest)
  BY DEF Answered
<1>2. goesOn => /\ greeting # "rejected"
                /\ ~(control = Hello /\ greeting \in Usable)
                /\ control # LastProbe
  BY DEF Follows, Hello, LastProbe, Usable, SingleFlight
<1>3. control = Hello => control # LastProbe
  BY DEF Hello, LastProbe
<1> HIDE DEF next, goesOn, w
<1>4. CASE goesOn
  <2>1. control' = next /\ UNCHANGED <<child, handshake, routes, suspicion>>
    BY <1>1, <1>2, <1>4
  <2> QED
    BY <1>1, <1>4, <2>1
<1>5. CASE greeting = "rejected"
  BY <1>1, <1>2, <1>5
<1>6. CASE ~goesOn /\ greeting # "rejected"
  <2>1. \/ greeting \in Usable /\ Negotiated(greeting, {})
        \/ Negotiated("legacy", {})
        \/ Negotiated("unknown", {})
    BY <1>1, <1>3, <1>6
  <2>2. "legacy" \in Usable
    BY DEF Usable, SingleFlight
  <2> QED
    BY <1>1, <1>6, <2>1, <2>2
<1> QED
  BY <1>4, <1>5, <1>6

LEMMA AnsweredKeepsBase ==
    ASSUME Base, control # 0, NEW greeting \in Greetings, NEW rest \in Seq(Answers),
           Answered(greeting, rest), UNCHANGED <<calls, closed, mixed>>
    PROVE  Base'
<1> DEFINE next == control + 1
           goesOn == greeting # "rejected" /\ Follows(greeting) /\ CanIssueControl(Live - 1)
           w == IF goesOn THEN Admitted(Probe(next)) ELSE writes
<1>1. /\ goesOn => /\ control' = next
                   /\ UNCHANGED <<child, handshake, routes, suspicion>>
      /\ \/ goesOn \/ Recycle("blocked")
         \/ \E state \in Usable \cup {"unknown"} : Negotiated(state, {})
      /\ Plumbing(w, pipe, rest)
  BY AnsweredIs
<1>2. goesOn => next \in 1 .. LastProbe /\ ~WriteQueueFull
  BY DEF Follows, Hello, LastProbe, CanIssueControl
<1>3. goesOn \in BOOLEAN /\ w = IF goesOn THEN Admitted(Probe(next)) ELSE writes
  OBVIOUS
<1>4. child = TRUE
  BY BaseTypes
<1> HIDE DEF next, goesOn, w
<1>5. Routing'
  <2>1. CASE goesOn
    <3>1. /\ control' # 0 /\ control' \in 0 .. LastProbe
          /\ UNCHANGED <<child, handshake, routes, suspicion, calls>>
      BY <1>1, <1>2, <2>1
    <3>2. Shapes' /\ Linked'
      BY <1>4, <3>1 DEF Base, Routing, Shapes, Linked, routes, suspicion
    <3>3. Buried' /\ Lined'
      BY <3>1 DEF Base, Routing, Buried, Lined, routes, suspicion
    <3>4. Admissions'
      BY <3>1 DEF Base, Routing, Admissions, AdmissionsAccount, Live, routes, calls
    <3> QED
      BY <3>2, <3>3, <3>4 DEF Routing
  <2>2. CASE Recycle("blocked")
    BY <2>2, RecycleKeepsRouting DEF Base
  <2>3. CASE \E state \in Usable \cup {"unknown"} : Negotiated(state, {})
    BY <2>3, NegotiatedKeepsRouting DEF Base, calls
  <2> QED
    BY <1>1, <2>1, <2>2, <2>3
<1>6. child' \in BOOLEAN
  BY <1>5 DEF Routing, Shapes
<1>7. Queues(w) /\ Generations(w, TRUE)
  <2>1. CASE goesOn
    BY <1>2, <1>3, <1>4, <2>1, BaseTypes, TokensAreIssued, AdmittedKeepsQueues
  <2>2. CASE ~goesOn
    BY <1>3, <1>4, <2>2, BaseTypes
  <2> QED
    BY <2>1, <2>2
<1>8. Plumbed' /\ (refusing' \in BOOLEAN \/ refusing' = refusing)
  BY <1>1, <1>6, <1>7, BaseTypes, PlumbingKeepsPlumbed DEF Base
<1> QED
  BY <1>5, <1>8, BaseTypes, SameCalls DEF Base

LEMMA ReadPendingKeepsBase ==
    ASSUME Base, NEW line \in Answers, Tail(out) \in Seq(Answers), ReadPending(line),
           UNCHANGED <<calls, closed>>
    PROVE  Base'
<1>1. /\ line.id \in Ids
      /\ Recycle("unknown") \/ UNCHANGED <<link, routes, suspicion>>
         \/ Clear(line.id) \/ ClearExpecting(line.id)
      /\ Plumbing(writes, pipe, Tail(out))
  BY DEF ReadPending
<1>2. mixed' \in BOOLEAN
  BY BaseTypes DEF ReadPending
<1>3. Routing' /\ (child' => child)
  <2>1. CASE Recycle("unknown")
    BY <2>1, RecycleKeepsRouting DEF Base, Recycle
  <2>2. CASE UNCHANGED <<link, routes, suspicion>>
    BY <2>2, UnchangedKeepsRouting DEF Base, link
  <2>3. CASE Clear(line.id)
    BY <1>1, <2>3, ClearKeepsRouting DEF Base, Clear, Recycle, link, calls
  <2>4. CASE ClearExpecting(line.id)
    BY <1>1, <2>4, ClearExpectingKeepsRouting DEF Base, ClearExpecting, Recycle, link, calls
  <2> QED
    BY <1>1, <2>1, <2>2, <2>3, <2>4
<1> QED
  BY <1>1, <1>2, <1>3, SettlingKeepsBase

LEMMA ReadLateKeepsBase ==
    ASSUME Base, NEW line \in Answers, Tail(out) \in Seq(Answers), ReadLate(line),
           UNCHANGED <<calls, closed>>
    PROVE  Base'
<1>1. Plumbing(writes, pipe, Tail(out)) /\ mixed' = mixed
  BY DEF ReadLate
<1>2. Routing' /\ (child' => child)
  <2>1. CASE Recycle("unknown")
    BY <2>1, RecycleKeepsRouting DEF Base, Recycle
  <2>2. CASE quarantined' = TRUE /\ UNCHANGED <<link, routes, tombstones>>
    BY <2>2 DEF Base, Routing, Shapes, Buried, Lined, Admissions, AdmissionsAccount, Live, Linked,
                link, routes, calls
  <2>3. CASE /\ tombstones' = IF line.type = "event" THEN tombstones ELSE tombstones \ {line.id}
             /\ UNCHANGED <<link, routes, quarantined>>
    <3>1. /\ IsFiniteSet(tombstones') /\ tombstones' \subseteq tombstones
          /\ Cardinality(tombstones') <= TombstoneLimit
      <4>1. tombstones' \in SUBSET tombstones
        BY <2>3
      <4>2. /\ IsFiniteSet(tombstones') /\ Cardinality(tombstones') <= Cardinality(tombstones)
            /\ Cardinality(tombstones') \in Nat /\ Cardinality(tombstones) \in Nat
        BY <4>1, FS_Subset, FS_CardinalityType DEF Base, Routing, Buried
      <4> QED
        BY <4>1, <4>2, LimitsAssumption DEF Base, Routing, Buried
    <3>2. Buried'
      BY <3>1 DEF Base, Routing, Buried
    <3> QED
      BY <2>3, <3>2 DEF Base, Routing, Shapes, Lined, Admissions, AdmissionsAccount, Live, Linked,
                        link, routes, calls
  <2> QED
    BY <2>1, <2>2, <2>3 DEF ReadLate
<1> QED
  BY <1>1, <1>2, BaseTypes, SettlingKeepsBase

LEMMA ReadLineKeepsBase ==
    ASSUME Base, ReadLine
    PROVE  Base'
<1>1. /\ out # <<>> /\ UNCHANGED <<calls, closed>>
      /\ \/ ReadPending(Head(out))
         \/ ReadLate(Head(out))
         \/ /\ Head(out).id = Control /\ control = Head(out).nth
            /\ \E greeting \in Greetings : Answered(greeting, Tail(out))
            /\ UNCHANGED mixed
  BY DEF ReadLine
<1>2. Head(out) \in Answers /\ Tail(out) \in Seq(Answers)
  BY <1>1, BaseTypes, HeadTailProperties
<1>3. Head(out).id = Control => Head(out).nth # 0
  BY <1>2 DEF Answers
<1> QED
  BY <1>1, <1>2, <1>3, ReadPendingKeepsBase, ReadLateKeepsBase, AnsweredKeepsBase

LEMMA ClientUnchanged ==
    ASSUME Base, UNCHANGED client, refusing' \in BOOLEAN \/ refusing' = refusing,
           pipe' \in Seq(Issued), out' \in Seq(Answers),
           tasks' \in SUBSET Issued, IsFiniteSet(tasks'), Cardinality(tasks') <= ServerMaxInFlight,
           child
    PROVE  Base'
<1>1. /\ UNCHANGED <<link, routes, suspicion, calls>> /\ UNCHANGED <<writes, closed, mixed>>
  BY DEF client
<1>2. Plumbed'
  BY <1>1 DEF Base, Plumbed, Queues, Generations, link
<1> QED
  BY <1>1, <1>2, BaseTypes, UnchangedKeepsRouting, SameCalls DEF Base

LEMMA LinesAreAnswers ==
    ASSUME NEW token \in Issued, NEW type \in {"response", "event", "end"}
    PROVE  Line(token, type) \in Answers
BY DEF Line, Issued, Tokens, Answers

LEMMA ServerKeepsBase ==
    ASSUME Base, ServerRead \/ ServerStray \/ \E token \in tasks : ServerEmit(token) \/ ServerAnswer(token)
    PROVE  Base'
<1>1. /\ tasks \in SUBSET Issued /\ IsFiniteSet(tasks) /\ Cardinality(tasks) <= ServerMaxInFlight
      /\ pipe # <<>> => child
      /\ tasks # {} => child
  BY DEF Base, Plumbed
<1>2. CASE ServerRead
  <2>1. /\ pipe # <<>> /\ pipe' = Tail(pipe) /\ UNCHANGED <<client, out, strays>>
        /\ \/ refusing' = TRUE /\ UNCHANGED tasks
           \/ /\ Cardinality(tasks) < ServerMaxInFlight
              /\ tasks' = tasks \cup {Head(pipe)} /\ UNCHANGED refusing
    BY <1>2 DEF ServerRead
  <2>2. pipe' \in Seq(Issued) /\ Head(pipe) \in Issued
    BY <2>1, BaseTypes, HeadTailProperties
  <2>3. tasks' \in SUBSET Issued /\ IsFiniteSet(tasks') /\ Cardinality(tasks') <= ServerMaxInFlight
    <3>1. CASE UNCHANGED tasks
      BY <1>1, <3>1
    <3>2. CASE Cardinality(tasks) < ServerMaxInFlight /\ tasks' = tasks \cup {Head(pipe)}
      <4>1. /\ IsFiniteSet(tasks') /\ Cardinality(tasks) \in Nat
            /\ Head(pipe) \in tasks => tasks' = tasks
            /\ Head(pipe) \notin tasks => Cardinality(tasks') = Cardinality(tasks) + 1
        BY <1>1, <3>2, OneMore
      <4>2. Cardinality(tasks') <= ServerMaxInFlight
        <5>1. ServerMaxInFlight \in Nat
          BY LimitsAssumption
        <5>2. CASE Head(pipe) \in tasks
          BY <1>1, <4>1, <5>2
        <5>3. CASE Head(pipe) \notin tasks
          BY <3>2, <4>1, <5>1, <5>3
        <5> QED
          BY <5>2, <5>3
      <4> QED
        BY <1>1, <2>2, <3>2, <4>1, <4>2
    <3> QED
      BY <2>1, <3>1, <3>2
  <2> QED
    BY <1>1, <2>1, <2>2, <2>3, BaseTypes, ClientUnchanged
<1>3. CASE ServerStray
  <2>1. /\ child /\ UNCHANGED <<client, pipe, tasks, refusing>>
        /\ out' = Append(out, [id |-> Foreign, nth |-> 0, type |-> "response"])
    BY <1>3 DEF ServerStray
  <2>2. [id |-> Foreign, nth |-> 0, type |-> "response"] \in Answers
    BY IdAssumption DEF Answers
  <2>3. out' \in Seq(Answers)
    BY <2>1, <2>2, BaseTypes, AppendProperties
  <2> QED
    BY <1>1, <2>1, <2>3, BaseTypes, ClientUnchanged
<1>4. ASSUME NEW token \in tasks, ServerEmit(token) PROVE Base'
  <2>1. /\ UNCHANGED <<client, pipe, tasks, refusing>>
        /\ out' = Append(out, Line(token, "event"))
    BY <1>4 DEF ServerEmit
  <2>2. out' \in Seq(Answers)
    BY <1>1, <2>1, BaseTypes, LinesAreAnswers, AppendProperties
  <2> QED
    BY <1>1, <2>1, <2>2, BaseTypes, ClientUnchanged
<1>5. ASSUME NEW token \in tasks, ServerAnswer(token) PROVE Base'
  <2>1. /\ UNCHANGED <<client, pipe, refusing>> /\ tasks' = tasks \ {token}
        /\ out' = Append(out, Line(token, IF token.kind = "unary" THEN "response" ELSE "end"))
    BY <1>5 DEF ServerAnswer
  <2>2. out' \in Seq(Answers)
    BY <1>1, <2>1, BaseTypes, LinesAreAnswers, AppendProperties
  <2>3. IsFiniteSet(tasks') /\ Cardinality(tasks') <= ServerMaxInFlight
    <3>1. tasks' \in SUBSET tasks
      BY <2>1
    <3>2. /\ IsFiniteSet(tasks') /\ Cardinality(tasks') <= Cardinality(tasks)
          /\ Cardinality(tasks') \in Nat /\ Cardinality(tasks) \in Nat
      BY <1>1, <3>1, FS_Subset, FS_CardinalityType
    <3> QED
      BY <1>1, <3>2, LimitsAssumption
  <2> QED
    BY <1>1, <2>1, <2>2, <2>3, BaseTypes, ClientUnchanged
<1> QED
  BY <1>2, <1>3, <1>4, <1>5

LEMMA InitIsBase == Init => Base
<1> SUFFICES ASSUME Init PROVE Base
  OBVIOUS
<1>1. IsFiniteSet({}) /\ Cardinality({}) = 0 /\ Live = 0
  BY FS_EmptySet DEF Init, Live
<1>2. <<>> \in Seq(Ids) /\ <<>> \in Seq(Writes) /\ <<>> \in Seq(Issued) /\ <<>> \in Seq(Answers)
      /\ Len(<<>>) = 0
  BY EmptySeq
<1>3. DOMAIN <<>> = {}
  OBVIOUS
<1>4. Shapes /\ Linked /\ Buried
  <2>1. place \in [Ids -> Places] /\ \A id \in Ids : place[id] = "none"
    BY DEF Init, Places
  <2>2. child = FALSE /\ quarantined = FALSE /\ handshake = "unknown" /\ control = 0
    BY DEF Init
  <2>3. control \in 0 .. LastProbe
    BY <2>2 DEF LastProbe
  <2>4. Shapes
    BY <2>1, <2>2, <2>3 DEF Shapes
  <2>5. Linked
    BY <2>1, <2>2 DEF Linked
  <2>6. Buried
    BY <1>1, LimitsAssumption DEF Init, Buried
  <2> QED
    BY <2>4, <2>5, <2>6
<1>5. Lined
  BY <1>2, <1>3 DEF Init, Lined, IsInjective, ToSet
<1>6. Admissions
  BY <1>1, LimitsAssumption DEF Init, Admissions, AdmissionsAccount
<1>7. CallShapes
  <2>1. 0 \in 0 .. MaxCalls /\ "unary" \in Kinds
    BY LimitsAssumption DEF Kinds
  <2>2. kind \in [Ids -> Kinds] /\ nth \in [Ids -> 0 .. MaxCalls]
    BY <2>1 DEF Init
  <2> QED
    BY <2>2 DEF Init, CallShapes
<1>8. Plumbed
  <2>1. /\ writes.tail = <<>> /\ writes.retired = <<>> /\ writes.stuck = FALSE
        /\ writes \in [tail : Seq(Writes), retired : Seq(Writes), stuck : BOOLEAN]
    BY <1>2 DEF Init
  <2>2. Queues(writes)
    BY <1>2, <2>1, LimitsAssumption DEF Queues
  <2>3. Generations(writes, child)
    BY <1>3, <2>1 DEF Init, Generations
  <2> QED
    BY <1>1, <1>2, <2>2, <2>3, LimitsAssumption DEF Init, Plumbed
<1> QED
  BY <1>4, <1>5, <1>6, <1>7, <1>8 DEF Base, Routing

LEMMA UnchangedKeepsBase ==
    ASSUME Base, UNCHANGED vars
    PROVE  Base'
<1>1. /\ UNCHANGED <<link, routes, suspicion, calls>>
      /\ UNCHANGED <<child, writes, sidecar>> /\ UNCHANGED <<closed, mixed>>
  BY DEF vars, link
<1>2. Plumbed' /\ UNCHANGED refusing
  BY <1>1, UnchangedKeepsPlumbed DEF Base
<1> QED
  BY <1>1, <1>2, BaseTypes, UnchangedKeepsRouting, SameCalls DEF Base

LEMMA NextKeepsBase ==
    ASSUME Base, [Next]_vars
    PROVE  Base'
<1>1. CASE UNCHANGED vars
  BY <1>1, UnchangedKeepsBase
<1>2. ASSUME NEW id \in Ids,
             \/ \E k \in Kinds : Request(id, k)
             \/ Connect(id) \/ Proceed(id) \/ TakeSlot(id) \/ Cancel(id) \/ Timeout(id)
      PROVE  Base'
  BY <1>2, RequestKeepsBase, ConnectKeepsBase, ProceedKeepsBase, TakeSlotKeepsBase,
     CancelKeepsBase, TimeoutKeepsBase
<1>3. ASSUME NEW lane \in Lanes, BeginWrite(lane) \/ WriteDone(lane) \/ WriteFails(lane)
      PROVE  Base'
  BY <1>3, BeginWriteKeepsBase, WriteDoneKeepsBase, WriteFailsKeepsBase
<1>4. CASE ReadLine
  BY <1>4, ReadLineKeepsBase
<1>5. CASE ControlTimeout \/ GraceEnds \/ Exit \/ Close
  BY <1>5, StoppingKeepsBase
<1>6. CASE ServerRead \/ ServerStray \/ \E token \in tasks : ServerEmit(token) \/ ServerAnswer(token)
  BY <1>6, ServerKeepsBase
<1> QED
  BY <1>1, <1>2, <1>3, <1>4, <1>5, <1>6 DEF Next

LEMMA BaseIsTypeCorrect == Base => TypeOK
<1> SUFFICES ASSUME Base PROVE TypeOK
  OBVIOUS
<1>1. ToSet(slots) \subseteq Ids /\ IsInjective(slots)
  BY LenProperties DEF Base, Routing, Lined, ToSet
<1>2. \A w \in Unsettled : w \in Writes
  BY BaseTypes, QueuesAre DEF Unsettled, ToSet
<1>3. \A w \in Writes : w.token \in Tokens /\ w.live \in BOOLEAN /\ w.state \in {"queued", "started"}
  BY DEF Writes, Issued
<1>4. ToSet(pipe) \subseteq Tokens /\ tasks \subseteq Tokens
  BY LenProperties DEF Base, Plumbed, ToSet, Issued
<1>5. writes.stuck \in BOOLEAN /\ Len(writes.tail) + Len(writes.retired) <= WriteQueueLimit
  BY BaseTypes DEF Queues
<1>6. waiting \subseteq Ids /\ active \subseteq Ids \cup {Control}
  BY RoutingBasics DEF Base
<1> QED
  BY <1>1, <1>2, <1>3, <1>4, <1>5, <1>6
     DEF TypeOK, Base, Routing, Shapes, CallShapes, Plumbed, Buried, Places

LEMMA BaseHolds == Spec => []Base
<1> QED
  BY InitIsBase, NextKeepsBase, PTL DEF Spec

\* Types and limits, for any ids, greetings and limits: never more than writeQueueLimit stdin
\* writes of both generations together, no more tombstones than there is room for, and no
\* more requests at work in the sidecar than it admits (TypeOK).
THEOREM TransportTypeCorrect == Spec => []TypeOK
<1> QED
  BY BaseHolds, BaseIsTypeCorrect, PTL

\* However calls, probes, answers, timeouts, failed writes and exits of the sidecar follow on
\* each other, the admissions are exactly those of the calls and the probe that run; they stay
\* within maxInFlight, and a place for the probe remains before every negotiation
\* (assertAdmissionCapacity and the ends of routes).
THEOREM AdmissionsAreAccounted == Spec => []AdmissionsAccount
<1>1. Base => AdmissionsAccount
  BY DEF Base, Routing, Admissions
<1> QED
  BY <1>1, BaseHolds, PTL

\* However many sidecars were recycled over writes that never settle, the one that runs has
\* none of their writes before its own (retireWriteLifecycle, ensureProcess).
THEOREM NoSidecarInheritsWrites == Spec => []NoInheritedWrite
<1>1. Base => NoInheritedWrite
  BY DEF Base, Plumbed, Generations, NoInheritedWrite
<1> QED
  BY <1>1, BaseHolds, PTL

---------------------------------------------------------------------------
(* What belongs to one id *)

\* Nothing is underway for an id.
Absent(id) == ~Downstream(id) /\ \A w \in Unsettled : w.token.id # id

Own(id) == Written(id) /\ Delivered(id)

\* A call that was not issued yet has nothing underway; one that has something with the
\* sidecar has no write left.
LEMMA NothingUnderway ==
    ASSUME NEW id \in Ids, Own(id)
    PROVE  /\ place[id] \notin {"none", "pending"} => Absent(id)
           /\ place[id] = "pending" /\ Downstream(id) => \A w \in Unsettled : w.token.id # id
           /\ \A w \in Unsettled : w.token.id = id => ~w.live \/ ~Downstream(id)
<1>1. \A w \in Unsettled : w.token.id = id => w.live \/ ~w.live
  OBVIOUS
<1> QED
  BY <1>1 DEF Own, Written, Delivered, Absent

\* Whoever has nothing underway after a step has what it should.
LEMMA AbsentOwns ==
    ASSUME NEW id \in Ids, Absent(id)', Queues(writes)'
    PROVE  Own(id)'
<1>1. \A i \in DOMAIN writes'.tail : writes'.tail[i].token.id # id
  BY DEF Absent, Unsettled, ToSet
<1>2. Written(id)'
  BY <1>1 DEF Written, Absent, Single
<1>3. Delivered(id)'
  BY DEF Delivered, Absent, Downstream
<1> QED
  BY <1>2, <1>3 DEF Own

\* The lines that a step leaves in the pipe back.
LEMMA FewerLines ==
    ASSUME out \in Seq(Answers), out' = out \/ (out # <<>> /\ out' = Tail(out))
    PROVE  \/ out' = out
           \/ /\ DOMAIN out' = 1 .. Len(out) - 1 /\ DOMAIN out = 1 .. Len(out)
              /\ Len(out) \in Nat \ {0}
              /\ \A i \in 1 .. Len(out) - 1 : out'[i] = out[i + 1]
<1>1. ASSUME out # <<>>, out' = Tail(out)
      PROVE  /\ DOMAIN out' = 1 .. Len(out) - 1 /\ DOMAIN out = 1 .. Len(out)
             /\ Len(out) \in Nat \ {0}
             /\ \A i \in 1 .. Len(out) - 1 : out'[i] = out[i + 1]
  <2>1. Len(out) \in Nat \ {0} /\ DOMAIN out = 1 .. Len(out)
    BY <1>1, EmptySeq, LenProperties
  <2>2. /\ out' \in Seq(Answers) /\ Len(out') = Len(out) - 1
        /\ \A i \in 1 .. Len(out') : out'[i] = out[i + 1]
    BY <1>1, HeadTailProperties
  <2>3. DOMAIN out' = 1 .. Len(out')
    BY <2>2, LenProperties
  <2> QED
    BY <2>1, <2>2, <2>3
<1> QED
  BY <1>1

LEMMA FewerDownstream ==
    ASSUME out \in Seq(Answers), UNCHANGED <<pipe, tasks>>,
           out' = out \/ (out # <<>> /\ out' = Tail(out)), NEW id
    PROVE  Downstream(id)' => Downstream(id)
<1>1. ASSUME NEW i \in DOMAIN out', out'[i].id = id PROVE \E j \in DOMAIN out : out[j].id = id
  <2>1. CASE out' = out
    BY <1>1, <2>1
  <2>2. CASE /\ DOMAIN out' = 1 .. Len(out) - 1 /\ DOMAIN out = 1 .. Len(out)
             /\ Len(out) \in Nat \ {0}
             /\ \A k \in 1 .. Len(out) - 1 : out'[k] = out[k + 1]
    <3>1. i + 1 \in DOMAIN out /\ out[i + 1].id = id
      BY <1>1, <2>2
    <3> QED
      BY <3>1
  <2> QED
    BY <2>1, <2>2, FewerLines
<1> QED
  BY <1>1 DEF Downstream

\* A step that leaves the sidecar alone, at most reads a line of it, keeps what is delivered.
LEMMA DeliveredStays ==
    ASSUME NEW id \in Ids, Delivered(id), out \in Seq(Answers), UNCHANGED <<pipe, tasks>>,
           out' = out \/ (out # <<>> /\ out' = Tail(out)),
           nth'[id] = nth[id], kind'[id] = kind[id],
           Downstream(id)' => place'[id] = "pending" \/ (place'[id] = "none" /\ id \in tombstones')
    PROVE  Delivered(id)'
<1>1. Token(id)' = Token(id)
  BY DEF Token
<1>2. CASE out' = out
  BY <1>1, <1>2 DEF Delivered
<1>3. CASE /\ DOMAIN out' = 1 .. Len(out) - 1 /\ DOMAIN out = 1 .. Len(out)
           /\ Len(out) \in Nat \ {0}
           /\ \A i \in 1 .. Len(out) - 1 : out'[i] = out[i + 1]
  <2>1. \A i \in 1 .. Len(out) - 1 : i + 1 \in 1 .. Len(out) /\ out'[i] = out[i + 1]
    BY <1>3
  <2>2. ASSUME NEW i \in DOMAIN out', out'[i].id = id
        PROVE  /\ out'[i].nth = nth'[id]
               /\ out'[i].type # "event" => /\ \A t \in tasks' : t.id # id
                                            /\ \A j \in DOMAIN out' : out'[j].id = id => j <= i
    <3>1. i \in 1 .. Len(out) - 1 /\ i + 1 \in DOMAIN out /\ out[i + 1].id = id /\ out'[i] = out[i + 1]
      BY <1>3, <2>1, <2>2
    <3>2. /\ out[i + 1].nth = nth[id]
          /\ out[i + 1].type # "event" => /\ \A t \in tasks : t.id # id
                                          /\ \A j \in DOMAIN out : out[j].id = id => j <= i + 1
      BY <3>1 DEF Delivered
    <3>3. ASSUME out'[i].type # "event", NEW j \in DOMAIN out', out'[j].id = id PROVE j <= i
      <4>1. j \in 1 .. Len(out) - 1 /\ j + 1 \in DOMAIN out /\ out[j + 1].id = id
        BY <1>3, <2>1, <3>3
      <4>2. j + 1 <= i + 1
        BY <3>1, <3>2, <3>3, <4>1
      <4> QED
        BY <1>3, <3>1, <4>1, <4>2
    <3> QED
      BY <3>1, <3>2, <3>3
  <2>3. ASSUME NEW i \in DOMAIN pipe', pipe'[i].id = id
        PROVE  /\ pipe'[i] = Token(id)'
               /\ \A j \in DOMAIN pipe' : pipe'[j].id = id => i = j
               /\ \A t \in tasks' : t.id # id
               /\ \A j \in DOMAIN out' : out'[j].id # id
    <3>1. \A j \in DOMAIN out : out[j].id # id
      BY <2>3 DEF Delivered
    <3>2. \A j \in DOMAIN out' : out'[j].id # id
      BY <1>3, <2>1, <3>1
    <3> QED
      BY <1>1, <2>3, <3>2 DEF Delivered
  <2>4. \A t \in tasks' : t.id = id => t = Token(id)'
    BY <1>1 DEF Delivered
  <2> QED
    BY <2>2, <2>3, <2>4 DEF Delivered
<1> QED
  BY <1>2, <1>3, FewerLines

\* It keeps what is written too, where no write was added.
LEMMA WrittenStays ==
    ASSUME NEW id \in Ids, Written(id), Downstream(id)' => Downstream(id),
           \A w \in Unsettled' : w.token.id = id => w \in Unsettled,
           Single(writes.tail, id) => Single(writes'.tail, id),
           nth'[id] = nth[id], kind'[id] = kind[id], place'[id] = place[id]
    PROVE  Written(id)'
<1>1. Token(id)' = Token(id)
  BY DEF Token
<1> QED
  BY <1>1 DEF Written

LEMMA OwnStays ==
    ASSUME Base, Queues(writes)', NEW id \in Ids, Own(id), UNCHANGED <<pipe, tasks>>,
           out' = out \/ (out # <<>> /\ out' = Tail(out)),
           \A w \in Unsettled' : w.token.id = id => w \in Unsettled,
           Single(writes.tail, id) => Single(writes'.tail, id),
           \/ Absent(id)
           \/ /\ nth'[id] = nth[id] /\ kind'[id] = kind[id] /\ place'[id] = place[id]
              /\ id \in tombstones => id \in tombstones'
    PROVE  Own(id)'
<1>1. Downstream(id)' => Downstream(id)
  BY BaseTypes, FewerDownstream
<1>2. CASE Absent(id)
  <2>1. Absent(id)'
    BY <1>1, <1>2 DEF Absent
  <2> QED
    BY <2>1, AbsentOwns
<1>3. CASE /\ nth'[id] = nth[id] /\ kind'[id] = kind[id] /\ place'[id] = place[id]
           /\ id \in tombstones => id \in tombstones'
  <2>1. Written(id)'
    BY <1>1, <1>3, WrittenStays DEF Own
  <2>2. Delivered(id)'
    BY <1>1, <1>3, BaseTypes, DeliveredStays DEF Own, Delivered
  <2> QED
    BY <2>1, <2>2 DEF Own
<1> QED
  BY <1>2, <1>3

---------------------------------------------------------------------------
(* What a step does to the writes of one id *)

Records(w) == ToSet(w.tail) \cup ToSet(w.retired)

\* No write of the id is added.
NoneAdded(w, id) ==
    /\ \A r \in Records(w) : r.token.id = id => r \in Unsettled
    /\ Single(writes.tail, id) => Single(w.tail, id)

\* The records by their places.
LEMMA RecordsAre ==
    ASSUME NEW w, Queues(w)
    PROVE  /\ \A r \in Records(w) : \/ \E i \in 1 .. Len(w.tail) : r = w.tail[i]
                                    \/ \E i \in 1 .. Len(w.retired) : r = w.retired[i]
           /\ \A i \in 1 .. Len(w.tail) : w.tail[i] \in Records(w)
           /\ \A i \in 1 .. Len(w.retired) : w.retired[i] \in Records(w)
           /\ Records(w) \subseteq Writes
BY QueuesAre DEF Records, ToSet

LEMMA ReleasedAddsNone ==
    ASSUME Queues(writes), Generations(writes, child), child \in BOOLEAN,
           NEW lane \in Lanes, writes[lane] # <<>>
    PROVE  \A id : NoneAdded(Released(lane), id)
<1> DEFINE w == Released(lane)
<1>1. /\ Queues(w)
      /\ w.tail = IF lane = "tail" THEN Tail(writes.tail) ELSE writes.tail
      /\ w.retired = IF lane = "tail" THEN writes.retired ELSE Tail(writes.retired)
  BY ReleasedKeepsQueues
<1> HIDE DEF w
<1>2. Unsettled = Records(writes)
  BY DEF Unsettled, Records
<1>3. CASE lane = "tail"
  <2>1. /\ w.tail = Tail(writes.tail) /\ w.retired = writes.retired
        /\ Len(w.tail) = Len(writes.tail) - 1 /\ Len(writes.tail) \in Nat \ {0}
        /\ DOMAIN w.tail = 1 .. Len(writes.tail) - 1
        /\ \A i \in 1 .. Len(writes.tail) - 1 : w.tail[i] = writes.tail[i + 1]
    <3>1. writes[lane] = writes.tail
      BY <1>3
    <3>2. writes.tail # <<>> /\ writes.tail \in Seq(Writes)
      BY <3>1, QueuesAre
    <3> QED
      BY <1>1, <1>3, <3>2, RestOfWrites
  <2>2. ASSUME NEW i \in 1 .. Len(w.tail)
        PROVE  i + 1 \in 1 .. Len(writes.tail) /\ w.tail[i] = writes.tail[i + 1]
    BY <2>1, <2>2
  <2>3. ASSUME NEW r \in Records(w) PROVE r \in Unsettled
    <3>1. CASE \E i \in 1 .. Len(w.tail) : r = w.tail[i]
      <4> PICK i \in 1 .. Len(w.tail) : r = w.tail[i]
        BY <3>1
      <4>1. i + 1 \in 1 .. Len(writes.tail) /\ r = writes.tail[i + 1]
        BY <2>2
      <4> QED
        BY <1>2, <4>1, RecordsAre
    <3>2. CASE \E i \in 1 .. Len(w.retired) : r = w.retired[i]
      BY <1>2, <2>1, <3>2, RecordsAre
    <3> QED
      BY <1>1, <3>1, <3>2, RecordsAre
  <2>4. ASSUME NEW id, Single(writes.tail, id) PROVE Single(w.tail, id)
    <3> SUFFICES ASSUME NEW i \in DOMAIN w.tail, NEW j \in DOMAIN w.tail,
                        w.tail[i].live, w.tail[j].live,
                        w.tail[i].token.id = id, w.tail[j].token.id = id
                 PROVE  i = j
      BY DEF Single
    <3>1. /\ i \in 1 .. Len(writes.tail) - 1 /\ j \in 1 .. Len(writes.tail) - 1
          /\ i + 1 \in DOMAIN writes.tail /\ j + 1 \in DOMAIN writes.tail
          /\ w.tail[i] = writes.tail[i + 1] /\ w.tail[j] = writes.tail[j + 1]
      BY <2>1, <2>2, QueuesAre
    <3>2. i + 1 = j + 1
      BY <2>4, <3>1 DEF Single
    <3> QED
      BY <2>1, <3>1, <3>2
  <2> QED
    BY <2>3, <2>4 DEF NoneAdded, w
<1>4. CASE lane = "retired"
  <2>1. /\ w.tail = writes.tail /\ w.retired = Tail(writes.retired)
        /\ Len(w.retired) = Len(writes.retired) - 1 /\ Len(writes.retired) \in Nat \ {0}
        /\ \A i \in 1 .. Len(writes.retired) - 1 : w.retired[i] = writes.retired[i + 1]
    <3>1. writes[lane] = writes.retired
      BY <1>4
    <3>2. writes.retired # <<>> /\ writes.retired \in Seq(Writes)
      BY <3>1, QueuesAre
    <3> QED
      BY <1>1, <1>4, <3>2, RestOfWrites
  <2>2. ASSUME NEW i \in 1 .. Len(w.retired)
        PROVE  i + 1 \in 1 .. Len(writes.retired) /\ w.retired[i] = writes.retired[i + 1]
    BY <2>1, <2>2
  <2>3. ASSUME NEW r \in Records(w) PROVE r \in Unsettled
    <3>1. CASE \E i \in 1 .. Len(w.retired) : r = w.retired[i]
      <4> PICK i \in 1 .. Len(w.retired) : r = w.retired[i]
        BY <3>1
      <4>1. i + 1 \in 1 .. Len(writes.retired) /\ r = writes.retired[i + 1]
        BY <2>2
      <4> QED
        BY <1>2, <4>1, RecordsAre
    <3>2. CASE \E i \in 1 .. Len(w.tail) : r = w.tail[i]
      BY <1>2, <2>1, <3>2, RecordsAre
    <3> QED
      BY <1>1, <3>1, <3>2, RecordsAre
  <2> QED
    BY <2>1, <2>3 DEF NoneAdded, w
<1> QED
  BY <1>3, <1>4 DEF Lanes

\* What is admitted is the only new write.
LEMMA AdmittedAddsOne ==
    ASSUME Queues(writes), Generations(writes, TRUE), ~WriteQueueFull, NEW token \in Issued
    PROVE  /\ \A r \in Records(Admitted(token)) :
                 r \in Unsettled \/ r = [token |-> token, live |-> TRUE, state |-> "queued"]
           /\ \A id : id # token.id => NoneAdded(Admitted(token), id)
           /\ (\A r \in Unsettled : r.token.id # token.id) => Single(Admitted(token).tail, token.id)
<1> DEFINE w == Admitted(token)
           new == [token |-> token, live |-> TRUE, state |-> "queued"]
           n == Len(writes.tail)
<1>1. /\ Queues(w) /\ w.retired = writes.retired /\ Len(w.tail) = n + 1
      /\ \A i \in 1 .. n : w.tail[i] = writes.tail[i]
      /\ w.tail[n + 1] = new
  BY AdmittedKeepsQueues
<1>2. new.token = token
  OBVIOUS
<1> HIDE DEF w, new
<1>3. n \in Nat /\ DOMAIN writes.tail = 1 .. n /\ Unsettled = Records(writes)
  BY QueuesAre DEF Unsettled, Records
<1>4. DOMAIN w.tail = 1 .. n + 1
  BY <1>1, QueuesAre
<1> HIDE DEF n
<1>5. \A i \in 1 .. n + 1 : i \in 1 .. n \/ i = n + 1
  BY <1>3
<1>6. \A i \in 1 .. Len(writes.tail) : writes.tail[i] \in Unsettled
  BY <1>3, RecordsAre
<1>7. \A r \in Records(w) : r \in Unsettled \/ r = new
  <2>1. ASSUME NEW r \in Records(w) PROVE r \in Unsettled \/ r = new
    <3>1. CASE \E i \in 1 .. Len(w.tail) : r = w.tail[i]
      BY <1>1, <1>5, <1>6, <3>1 DEF n
    <3>2. CASE \E i \in 1 .. Len(w.retired) : r = w.retired[i]
      BY <1>1, <1>3, <3>2, RecordsAre
    <3> QED
      BY <1>1, <3>1, <3>2, RecordsAre
  <2> QED
    BY <2>1
<1>8. ASSUME NEW id, id # token.id PROVE NoneAdded(w, id)
  <2>1. \A i \in DOMAIN w.tail : w.tail[i].token.id = id =>
            i \in DOMAIN writes.tail /\ w.tail[i] = writes.tail[i]
    BY <1>1, <1>2, <1>3, <1>4, <1>5, <1>8
  <2>2. Single(writes.tail, id) => Single(w.tail, id)
    BY <2>1 DEF Single
  <2> QED
    BY <1>2, <1>7, <1>8, <2>2 DEF NoneAdded
<1>9. ASSUME \A r \in Unsettled : r.token.id # token.id PROVE Single(w.tail, token.id)
  <2>1. \A i \in DOMAIN w.tail : w.tail[i].token.id = token.id => i = n + 1
    BY <1>1, <1>3, <1>4, <1>5, <1>6, <1>9 DEF n
  <2> QED
    BY <2>1 DEF Single
<1> QED
  BY <1>7, <1>8, <1>9 DEF w, new

\* A generation that is retired keeps the tokens of its writes.
LEMMA RetiredKeepsTokens ==
    ASSUME NEW w, Queues(w), NEW r \in Records(Retired(w))
    PROVE  \E s \in Records(w) : s.token = r.token
<1>1. CASE ~(\E i \in DOMAIN w.tail : w.tail[i].live)
  <2>1. Retired(w) = w
    BY <1>1 DEF Retired
  <2> QED
    BY <2>1
<1>2. CASE \E i \in DOMAIN w.tail : w.tail[i].live
  <2> DEFINE gone == Orphaned(w.tail)
  <2>1. /\ gone \in Seq(Writes) /\ DOMAIN gone = DOMAIN w.tail
        /\ \A i \in DOMAIN w.tail : gone[i].token = w.tail[i].token
    BY QueuesAre, OrphanedIs
  <2>2. \/ Retired(w) = [w EXCEPT !.tail = <<>>, !.retired = gone]
        \/ Retired(w) = [w EXCEPT !.tail = gone, !.stuck = TRUE]
    BY <1>2 DEF Retired
  <2> HIDE DEF gone
  <2>3. w = [tail |-> w.tail, retired |-> w.retired, stuck |-> w.stuck]
    BY QueuesAre
  <2>4. \/ Retired(w).tail = <<>> /\ Retired(w).retired = gone
        \/ Retired(w).tail = gone /\ Retired(w).retired = w.retired
    BY <2>2, <2>3
  <2>5. ASSUME r \in ToSet(gone) PROVE \E s \in Records(w) : s.token = r.token
    <3> PICK i \in DOMAIN gone : r = gone[i]
      BY <2>5 DEF ToSet
    <3>1. w.tail[i] \in Records(w) /\ w.tail[i].token = r.token
      BY <2>1 DEF Records, ToSet
    <3> QED
      BY <3>1
  <2>6. ToSet(<<>>) = {}
    BY DEF ToSet
  <2>7. r \in ToSet(gone) \/ r \in ToSet(w.retired)
    BY <2>4, <2>6 DEF Records
  <2> QED
    BY <2>5, <2>7 DEF Records
<1> QED
  BY <1>1, <1>2

---------------------------------------------------------------------------
(* Steps keep what belongs to one id: with the sidecar gone, or left alone *)

\* The step does not touch the call of the id, nor its tombstone.
Same(id) ==
    /\ nth'[id] = nth[id] /\ kind'[id] = kind[id] /\ place'[id] = place[id]
    /\ id \in tombstones => id \in tombstones'

\* With the sidecar goes what was underway; the writes that remain are dead.
LEMMA RecycleEnds ==
    ASSUME Inv, Base', NEW state, Recycle(state), UNCHANGED calls, mixed' = FALSE,
           NEW w, Queues(w), \A id : NoneAdded(w, id),
           NEW in, NEW rest, Plumbing(w, in, rest)
    PROVE  Correlated'
<1>1. /\ ~child' /\ place' = [id \in Ids |-> "none"]
      /\ writes' = Retired(w) /\ pipe' = <<>> /\ out' = <<>> /\ tasks' = {} /\ refusing' = FALSE
  BY DEF Recycle, Plumbing
<1>2. \A r \in Unsettled' : ~r.live
  <2>1. /\ Queues(writes)' /\ \A i \in DOMAIN writes'.tail : ~writes'.tail[i].live
        /\ \A i \in DOMAIN writes'.retired : ~writes'.retired[i].live
    BY <1>1 DEF Base, Plumbed, Generations
  <2> QED
    BY <2>1 DEF Unsettled, ToSet
<1>3. ASSUME NEW id \in Ids PROVE (Written(id) /\ Delivered(id))'
  <2>1. Token(id)' = Token(id)
    BY DEF Token, calls
  <2>2. ASSUME NEW r \in Unsettled', r.token.id = id PROVE r.token = Token(id)'
    <3>1. r \in Records(Retired(w))
      BY <1>1 DEF Unsettled, Records
    <3> PICK s \in Records(w) : s.token = r.token
      BY <3>1, RetiredKeepsTokens
    <3>2. s \in Unsettled /\ s.token.id = id
      BY <2>2 DEF NoneAdded
    <3> QED
      BY <2>1, <3>2 DEF Inv, Correlated, Written
  <2>3. place'[id] = "none"
    BY <1>1
  <2>4. Single(writes'.tail, id)
    <3>1. \A i \in DOMAIN writes'.tail : ~writes'.tail[i].live
      BY <1>2 DEF Unsettled, ToSet
    <3> QED
      BY <3>1 DEF Single
  <2>5. Written(id)'
    BY <1>2, <2>2, <2>3, <2>4 DEF Written
  <2>6. DOMAIN <<>> = {}
    OBVIOUS
  <2>7. ~Downstream(id)'
    BY <1>1, <2>6 DEF Downstream
  <2>8. Delivered(id)'
    BY <2>7 DEF Delivered, Downstream
  <2> QED
    BY <2>5, <2>8
<1> QED
  BY <1>1, <1>3 DEF Correlated

\* Without an end of the sidecar its pipes and its work are left alone.
LEMMA PlumbingLeavesSidecar ==
    ASSUME Plumbed, child \in BOOLEAN, refusing \in BOOLEAN, child' = child \/ child',
           NEW w, Queues(w), Generations(w, child'), NEW rest, Plumbing(w, pipe, rest)
    PROVE  /\ writes' = w /\ UNCHANGED <<pipe, tasks, refusing>>
           /\ out' = IF child' THEN rest ELSE out
<1>1. CASE child'
  BY <1>1 DEF Plumbing
<1>2. CASE ~child'
  <2>1. /\ writes' = Retired(w) /\ pipe' = <<>> /\ out' = <<>> /\ tasks' = {} /\ refusing' = FALSE
    BY <1>2 DEF Plumbing
  <2>2. ~child
    BY <1>2
  <2>3. pipe = <<>> /\ tasks = {} /\ out = <<>> /\ refusing = FALSE
    BY <2>2 DEF Plumbed
  <2>4. ~(\E i \in DOMAIN w.tail : w.tail[i].live)
    BY <1>2 DEF Generations
  <2>5. Retired(w) = w
    BY <2>4 DEF Retired
  <2> QED
    BY <1>2, <2>1, <2>3, <2>5
<1> QED
  BY <1>1, <1>2

\* A step that leaves the sidecar alone, at most reads a line of it.
LEMMA StepKeeps ==
    ASSUME Inv, Base', UNCHANGED <<pipe, tasks, refusing, mixed>>,
           out' = out \/ (out # <<>> /\ out' = Tail(out)),
           \A id \in Ids : Own(id)' \/ (NoneAdded(writes', id) /\ (Absent(id) \/ Same(id)))
    PROVE  Correlated'
<1>1. ASSUME NEW id \in Ids PROVE (Written(id) /\ Delivered(id))'
  <2>1. CASE Own(id)'
    BY <2>1 DEF Own
  <2>2. CASE NoneAdded(writes', id) /\ (Absent(id) \/ Same(id))
    <3>1. Unsettled' = Records(writes')
      BY DEF Unsettled, Records
    <3>2. /\ \A w \in Unsettled' : w.token.id = id => w \in Unsettled
          /\ Single(writes.tail, id) => Single(writes'.tail, id)
      BY <2>2, <3>1 DEF NoneAdded
    <3>3. Queues(writes)' /\ Own(id)
      BY DEF Inv, Correlated, Own, Base, Plumbed
    <3>4. Own(id)'
      BY <2>2, <3>2, <3>3, OwnStays DEF Inv, Same
    <3> QED
      BY <3>4 DEF Own
  <2> QED
    BY <2>1, <2>2
<1> QED
  BY <1>1 DEF Inv, Correlated

\* No write is added where none changes.
LEMMA SameAddsNone == \A id : NoneAdded(writes, id)
BY DEF NoneAdded, Records, Unsettled

LEMMA OwnOfEach ==
    Inv => /\ \A id \in Ids : Own(id) /\ Written(id) /\ Delivered(id)
           /\ Base /\ ~mixed /\ ~refusing
BY DEF Inv, Correlated, Own

\* Who ends a call that has nothing underway leaves the others as they are.
LEMMA LeavingTouchesOne ==
    ASSUME place \in [Ids -> Places], NEW id, Leave(id), UNCHANGED calls,
           tombstones \subseteq tombstones'
    PROVE  \A x \in Ids \ {id} : Same(x)
BY DEF Leave, Same, calls

\* A probe is no call of a caller.
LEMMA ProbeAddsNone ==
    ASSUME Queues(writes), Generations(writes, TRUE), ~WriteQueueFull,
           NEW n, Probe(n) \in Issued
    PROVE  \A id \in Ids : NoneAdded(Admitted(Probe(n)), id)
<1>1. \A id \in Ids : id # Probe(n).id
  BY IdAssumption DEF Probe
<1> QED
  BY <1>1, AdmittedAddsOne

\* A caller that asks for the handshake.
LEMMA EnsureKeeps ==
    ASSUME Inv, Base', NEW id \in Ids, Absent(id), EnsureHandshake(id),
           \A x \in Ids \ {id} : nth'[x] = nth[x] /\ kind'[x] = kind[x],
           UNCHANGED <<suspicion, mixed>>
    PROVE  Correlated'
<1> DEFINE admitted == waiting \cup {id}
           first == handshake = "unknown" /\ control = 0 /\ ~writes.stuck
           hello == first /\ CanIssueControl(Cardinality(admitted) + Cardinality(active))
           w == IF hello THEN Admitted(Probe(Hello)) ELSE writes
           waits == hello \/ handshake \in Usable \/ control # 0
<1>1. /\ child' = (child \/ first) /\ Plumbing(w, pipe, out)
      /\ place' = [place EXCEPT ![id] = IF waits THEN "connecting" ELSE "none"]
  BY DEF EnsureHandshake
<1>2. /\ first => ~writes.stuck
      /\ hello => first /\ ~WriteQueueFull
      /\ first \in BOOLEAN /\ hello \in BOOLEAN
  BY DEF CanIssueControl
<1>3. w = IF hello THEN Admitted(Probe(Hello)) ELSE writes
  OBVIOUS
<1> HIDE DEF first, hello, w, waits
<1>4. Base /\ Probe(Hello) \in Issued
  BY BaseTypes, TokensAreIssued DEF Inv, Hello, LastProbe
<1>5. child \in BOOLEAN /\ child' \in BOOLEAN
  BY <1>1, <1>2, <1>4, BaseTypes
<1>6. Queues(w) /\ Generations(w, child') /\ \A x \in Ids : NoneAdded(w, x)
  <2>1. CASE first
    <3>1. Generations(writes, TRUE) /\ child' = TRUE
      BY <1>1, <1>2, <1>4, <1>5, <2>1, FreshGeneration DEF Base
    <3>2. CASE hello
      BY <1>2, <1>3, <1>4, <3>1, <3>2, BaseTypes, AdmittedKeepsQueues, ProbeAddsNone
    <3>3. CASE ~hello
      BY <1>3, <1>4, <3>1, <3>3, BaseTypes, SameAddsNone
    <3> QED
      BY <3>2, <3>3
  <2>2. CASE ~first
    <3>1. child' = child /\ w = writes
      BY <1>1, <1>2, <1>3, <1>5, <2>2
    <3> QED
      BY <1>4, <3>1, BaseTypes, SameAddsNone
  <2> QED
    BY <2>1, <2>2
<1>7. writes' = w /\ UNCHANGED <<pipe, tasks, refusing>> /\ out' = out
  <2>1. child' = child \/ child'
    BY <1>1, <1>2, <1>5
  <2> QED
    BY <1>1, <1>4, <1>5, <1>6, <2>1, PlumbingLeavesSidecar DEF Base, CallShapes
<1>8. \A x \in Ids \ {id} : Same(x)
  BY <1>1, <1>4, BaseTypes DEF Same, suspicion
<1> QED
  BY <1>6, <1>7, <1>8, StepKeeps

---------------------------------------------------------------------------
(* Calls on their way *)

\* Who is not issued yet has nothing underway.
LEMMA UnissuedIsAbsent ==
    ASSUME Inv, NEW id \in Ids, place[id] \in {"begun", "connecting", "inLine"}
    PROVE  Absent(id)
BY OwnOfEach, NothingUnderway

LEMMA RequestKeeps ==
    ASSUME ReuseAtOnce = FALSE, Inv, Base', NEW id \in Ids, NEW k \in Kinds, Request(id, k)
    PROVE  Correlated'
<1>1. /\ place[id] = "none" /\ \A w \in Unsettled : w.token.id # id
      /\ Free(id)
      /\ nth' = [nth EXCEPT ![id] = @ + 1] /\ kind' = [kind EXCEPT ![id] = k]
      /\ UNCHANGED <<slots, suspicion, closed, strays, mixed>>
      /\ \/ k = "unary" /\ EnsureHandshake(id)
         \/ /\ k = "stream"
            /\ place' = [place EXCEPT ![id] = "begun"] /\ waiting' = waiting \cup {id}
            /\ UNCHANGED <<link, active, writes, sidecar>>
  BY DEF Request
<1>2. Absent(id)
  <2>1. id \notin tombstones
    BY <1>1 DEF Free
  <2>2. ~Downstream(id)
    BY <1>1, <2>1, OwnOfEach DEF Delivered
  <2> QED
    BY <1>1, <2>2 DEF Absent
<1>3. \A x \in Ids \ {id} : nth'[x] = nth[x] /\ kind'[x] = kind[x]
  BY <1>1, OwnOfEach, BaseTypes
<1>4. CASE EnsureHandshake(id)
  BY <1>1, <1>2, <1>3, <1>4, EnsureKeeps
<1>5. CASE place' = [place EXCEPT ![id] = "begun"] /\ UNCHANGED <<writes, sidecar>>
  <2>1. \A x \in Ids \ {id} : Same(x)
    BY <1>1, <1>3, <1>5, OwnOfEach, BaseTypes DEF Same, suspicion
  <2>2. UNCHANGED <<pipe, tasks, refusing, mixed, out, writes>>
    BY <1>1, <1>5 DEF sidecar
  <2> QED
    BY <1>2, <2>1, <2>2, SameAddsNone, StepKeeps
<1> QED
  BY <1>1, <1>4, <1>5

LEMMA ConnectKeeps ==
    ASSUME Inv, Base', NEW id \in Ids, Connect(id)
    PROVE  Correlated'
<1>1. /\ place[id] = "begun" /\ EnsureHandshake(id)
      /\ UNCHANGED <<calls, suspicion, mixed>>
  BY DEF Connect
<1>2. Absent(id)
  BY <1>1, UnissuedIsAbsent
<1> QED
  BY <1>1, <1>2, EnsureKeeps DEF calls

\* A caller without anything underway leaves.
LEMMA AbsentLeaves ==
    ASSUME Inv, Base', NEW id \in Ids, Absent(id), Leave(id),
           UNCHANGED <<calls, suspicion, writes, sidecar, mixed>>
    PROVE  Correlated'
<1>1. \A x \in Ids \ {id} : Same(x)
  BY OwnOfEach, BaseTypes, LeavingTouchesOne DEF suspicion
<1>2. UNCHANGED <<pipe, tasks, refusing, mixed, out, writes>>
  BY DEF sidecar
<1> QED
  BY <1>1, <1>2, SameAddsNone, StepKeeps

\* A call whose end leaves nothing of it underway.
LEMMA ClearedKeeps ==
    ASSUME Inv, Base', NEW id \in Ids, place[id] \in {"connecting", "inLine", "pending"},
           Clear(id), UNCHANGED calls, mixed' = FALSE,
           NEW w, Queues(w), Generations(w, child), \A x : NoneAdded(w, x),
           NEW rest, rest = out \/ (out # <<>> /\ rest = Tail(out)), Plumbing(w, pipe, rest),
           ~(\E r \in Records(w) : r.token.id = id),
           \A i \in DOMAIN pipe : pipe[i].id # id, \A t \in tasks : t.id # id,
           \A i \in DOMAIN rest : rest[i].id # id
    PROVE  Correlated'
<1>1. CASE Recycle("unknown")
  BY <1>1, RecycleEnds
<1>2. CASE Leave(id) /\ UNCHANGED <<link, suspicion>>
  <2>1. child = TRUE /\ child' = child /\ refusing \in BOOLEAN /\ mixed' = mixed
    BY <1>2, OwnOfEach, BaseTypes DEF link, Base, CallShapes
  <2>2. writes' = w /\ UNCHANGED <<pipe, tasks, refusing>> /\ out' = rest
    BY <2>1, OwnOfEach, PlumbingLeavesSidecar DEF Base
  <2>3. Absent(id)'
    <3>1. Unsettled' = Records(w)
      BY <2>2 DEF Unsettled, Records
    <3>2. ~Downstream(id)'
      BY <2>2 DEF Downstream
    <3> QED
      BY <3>1, <3>2 DEF Absent
  <2>4. Own(id)'
    BY <2>3, AbsentOwns DEF Base, Plumbed
  <2>5. \A x \in Ids \ {id} : Same(x)
    BY <1>2, OwnOfEach, BaseTypes, LeavingTouchesOne DEF suspicion
  <2> QED
    BY <2>1, <2>2, <2>4, <2>5, StepKeeps
<1> QED
  BY <1>1, <1>2 DEF Clear

\* The write of a call that is issued is the only thing of it.
LEMMA AdmittedKeeps ==
    ASSUME Inv, Base', NEW id \in Ids, Absent(id), child = TRUE, ~WriteQueueFull,
           place' = [place EXCEPT ![id] = "pending"], writes' = Admitted(Token(id)),
           UNCHANGED <<calls, suspicion, sidecar, mixed>>
    PROVE  Correlated'
<1>1. /\ Token(id) \in Issued /\ Token(id).id = id
      /\ Queues(writes) /\ Generations(writes, TRUE)
  BY OwnOfEach, BaseTypes, TokensAreIssued DEF Token
<1> DEFINE new == [token |-> Token(id), live |-> TRUE, state |-> "queued"]
<1>2. /\ \A r \in Records(writes') : r \in Unsettled \/ r = new
      /\ \A x : x # id => NoneAdded(writes', x)
      /\ Single(writes'.tail, id)
  BY <1>1, AdmittedAddsOne DEF Absent
<1>3. new.token = Token(id) /\ new.live = TRUE /\ new.state = "queued"
  OBVIOUS
<1> HIDE DEF new
<1>4. /\ UNCHANGED <<pipe, tasks, refusing, mixed, out>> /\ Token(id)' = Token(id)
      /\ place'[id] = "pending" /\ ~Downstream(id)'
  BY OwnOfEach, BaseTypes DEF sidecar, calls, Token, Absent, Downstream
<1>5. Own(id)'
  <2>1. Unsettled' = Records(writes')
    BY DEF Unsettled, Records
  <2>2. ASSUME NEW w \in Unsettled', w.token.id = id PROVE w = new
    BY <1>2, <2>1, <2>2 DEF Absent
  <2>3. Written(id)'
    BY <1>2, <1>3, <1>4, <2>2 DEF Written
  <2>4. Delivered(id)'
    BY <1>4 DEF Delivered, Downstream
  <2> QED
    BY <2>3, <2>4 DEF Own
<1>6. \A x \in Ids \ {id} : Same(x)
  BY OwnOfEach, BaseTypes DEF Same, suspicion, calls
<1> QED
  BY <1>2, <1>4, <1>5, <1>6, StepKeeps

LEMMA IssueKeeps ==
    ASSUME Inv, Base', NEW id \in Ids, place[id] \in {"connecting", "inLine"}, Issue(id),
           UNCHANGED <<calls, mixed>>
    PROVE  Correlated'
<1>1. Absent(id) /\ child = TRUE
  BY UnissuedIsAbsent, OwnOfEach, BaseTypes
<1>2. CASE quarantined
  BY <1>1, <1>2, AbsentLeaves DEF Issue
<1>3. CASE ~quarantined /\ WriteQueueFull
  <2>1. Clear(id) /\ Plumbing(writes, pipe, out)
    BY <1>3 DEF Issue
  <2>2. /\ ~(\E r \in Records(writes) : r.token.id = id)
        /\ \A i \in DOMAIN pipe : pipe[i].id # id
        /\ \A t \in tasks : t.id # id /\ \A i \in DOMAIN out : out[i].id # id
    BY <1>1 DEF Absent, Downstream, Records, Unsettled
  <2>3. /\ Queues(writes) /\ Generations(writes, child) /\ mixed' = FALSE
        /\ \A i \in DOMAIN out : out[i].id # id
    BY <1>1, OwnOfEach, BaseTypes DEF Absent, Downstream
  <2> QED
    BY <2>1, <2>2, <2>3, SameAddsNone, ClearedKeeps
<1>4. CASE ~quarantined /\ ~WriteQueueFull
  <2>1. /\ place' = [place EXCEPT ![id] = "pending"] /\ writes' = Admitted(Token(id))
        /\ UNCHANGED <<suspicion, sidecar>>
    BY <1>4 DEF Issue
  <2> QED
    BY <1>1, <1>4, <2>1, AdmittedKeeps
<1> QED
  BY <1>2, <1>3, <1>4

LEMMA ProceedKeeps ==
    ASSUME Inv, Base', NEW id \in Ids, Proceed(id)
    PROVE  Correlated'
<1>1. /\ place[id] = "connecting" /\ UNCHANGED <<calls, mixed>>
      /\ GetInLine(id) \/ Issue(id)
  BY DEF Proceed
<1>2. CASE Issue(id)
  BY <1>1, <1>2, IssueKeeps
<1>3. CASE GetInLine(id)
  <2>1. Absent(id) /\ UNCHANGED <<suspicion, writes, sidecar>>
    BY <1>1, <1>3, UnissuedIsAbsent DEF GetInLine
  <2>2. \A x \in Ids \ {id} : Same(x)
    BY <1>1, <1>3, <2>1, OwnOfEach, BaseTypes DEF GetInLine, Leave, Same, suspicion, calls
  <2>3. UNCHANGED <<pipe, tasks, refusing, mixed, out, writes>>
    BY <1>1, <2>1 DEF sidecar
  <2> QED
    BY <2>1, <2>2, <2>3, SameAddsNone, StepKeeps
<1> QED
  BY <1>1, <1>2, <1>3

LEMMA TakeSlotKeeps ==
    ASSUME Inv, Base', NEW id \in Ids, TakeSlot(id)
    PROVE  Correlated'
BY IssueKeeps DEF TakeSlot

---------------------------------------------------------------------------
(* The ends of issued calls *)

\* A call that leaves a tombstone for what the sidecar may still say of it; no write of
\* it that remains has started.
LEMMA TombstoneKeeps ==
    ASSUME Inv, Base', NEW id \in Ids, place[id] = "pending",
           ClearExpecting(id), UNCHANGED calls, mixed' = FALSE,
           NEW w, Queues(w), Generations(w, child), \A x : NoneAdded(w, x),
           NEW rest, rest = out \/ (out # <<>> /\ rest = Tail(out)), Plumbing(w, pipe, rest),
           \A r \in Records(w) : r.token.id = id => r.state # "started"
    PROVE  Correlated'
<1>1. CASE Recycle("unknown")
  BY <1>1, RecycleEnds
<1>2. CASE Leave(id) /\ tombstones' = tombstones \cup {id} /\ UNCHANGED link
  <2>1. child = TRUE /\ child' = child /\ refusing \in BOOLEAN /\ mixed' = mixed
    BY <1>2, OwnOfEach, BaseTypes DEF link, Base, CallShapes
  <2>2. writes' = w /\ UNCHANGED <<pipe, tasks, refusing>> /\ out' = rest
    BY <2>1, OwnOfEach, PlumbingLeavesSidecar DEF Base
  <2>3. /\ place'[id] = "none" /\ id \in tombstones' /\ Unsettled' = Records(w)
        /\ Token(id)' = Token(id)
    BY <1>2, <2>2, OwnOfEach, BaseTypes DEF Leave, Unsettled, Records, calls, Token
  <2>4. Written(id)'
    <3>1. \A r \in Unsettled' : r.token.id = id => r \in Unsettled /\ r.state # "started"
      BY <2>3 DEF NoneAdded
    <3>2. Single(writes'.tail, id)
      BY <2>2, OwnOfEach DEF NoneAdded, Written
    <3>3. Downstream(id)' => Downstream(id)
      BY <2>2, OwnOfEach, BaseTypes, FewerDownstream
    <3> QED
      BY <2>3, <3>1, <3>2, <3>3, OwnOfEach DEF Written
  <2>5. Delivered(id)'
    BY <2>2, <2>3, OwnOfEach, BaseTypes, DeliveredStays DEF calls
  <2>6. Own(id)'
    BY <2>4, <2>5 DEF Own
  <2>7. \A x \in Ids \ {id} : Same(x)
    BY <1>2, OwnOfEach, BaseTypes, LeavingTouchesOne
  <2> QED
    BY <2>1, <2>2, <2>6, <2>7, StepKeeps
<1> QED
  BY <1>1, <1>2 DEF ClearExpecting

LEMMA WithdrawKeeps ==
    ASSUME Inv, Base', NEW id \in Ids, place[id] = "pending", NEW fatal, Withdraw(id, fatal),
           UNCHANGED <<calls, mixed>>
    PROVE  Correlated'
<1>1. /\ Plumbing(writes, pipe, out) /\ mixed' = FALSE
      /\ Queues(writes) /\ Generations(writes, child)
  BY OwnOfEach, BaseTypes DEF Withdraw, Base, CallShapes
<1>2. CASE fatal \/ HasStartedWrite(id)
  BY <1>1, <1>2, SameAddsNone, RecycleEnds DEF Withdraw
<1>3. CASE ~(fatal \/ HasStartedWrite(id))
  <2>1. \A r \in Records(writes) : r.token.id = id => r.state # "started"
    BY <1>3 DEF HasStartedWrite, Records, Unsettled
  <2> QED
    BY <1>1, <1>3, <2>1, SameAddsNone, TombstoneKeeps DEF Withdraw
<1> QED
  BY <1>2, <1>3

LEMMA CancelKeeps ==
    ASSUME Inv, Base', NEW id \in Ids, Cancel(id)
    PROVE  Correlated'
<1>1. UNCHANGED <<calls, mixed>>
  BY DEF Cancel
<1>2. CASE /\ place[id] \in {"begun", "connecting", "inLine"}
           /\ Leave(id) /\ UNCHANGED <<link, suspicion, writes, sidecar>>
  BY <1>1, <1>2, UnissuedIsAbsent, AbsentLeaves
<1>3. CASE place[id] = "pending" /\ Withdraw(id, FALSE)
  BY <1>1, <1>3, WithdrawKeeps
<1> QED
  BY <1>2, <1>3 DEF Cancel

LEMMA TimeoutKeeps ==
    ASSUME Inv, Base', NEW id \in Ids, Timeout(id)
    PROVE  Correlated'
BY WithdrawKeeps DEF Timeout

LEMMA StoppingKeeps ==
    ASSUME Inv, Base', ControlTimeout \/ GraceEnds \/ Exit \/ Close
    PROVE  Correlated'
<1>1. /\ Recycle("unknown") /\ Plumbing(writes, pipe, out) /\ UNCHANGED <<calls, mixed>>
      /\ Queues(writes) /\ mixed' = FALSE
  BY OwnOfEach, BaseTypes DEF ControlTimeout, GraceEnds, Exit, Close, Base, CallShapes
<1> QED
  BY <1>1, SameAddsNone, RecycleEnds

\* The negotiation ends; who waited for it had nothing underway.
LEMMA NegotiatedKeeps ==
    ASSUME Inv, Base', child = TRUE, NEW state, NEW late, Negotiated(state, late),
           UNCHANGED <<calls, mixed>>,
           NEW w, Queues(w), Generations(w, child), \A x : NoneAdded(w, x),
           NEW rest, rest = out \/ (out # <<>> /\ rest = Tail(out)), Plumbing(w, pipe, rest)
    PROVE  Correlated'
<1>1. CASE Recycle("unknown")
  BY <1>1, OwnOfEach, BaseTypes, RecycleEnds
<1> DEFINE leavers == IF state \in Usable THEN {} ELSE {id \in Ids : place[id] = "connecting"}
<1>2. CASE /\ place' = [id \in Ids |-> IF id \in leavers THEN "none" ELSE place[id]]
           /\ tombstones' = tombstones \cup late /\ UNCHANGED child
  <2>1. refusing \in BOOLEAN
    BY OwnOfEach DEF Base, CallShapes
  <2>2. writes' = w /\ UNCHANGED <<pipe, tasks, refusing>> /\ out' = rest
    BY <1>2, <2>1, OwnOfEach, PlumbingLeavesSidecar DEF Base
  <2>3. ASSUME NEW x \in Ids PROVE Absent(x) \/ Same(x)
    <3>1. CASE x \in leavers
      BY <3>1, UnissuedIsAbsent
    <3>2. CASE x \notin leavers
      BY <1>2, <3>2 DEF Same, calls
    <3> QED
      BY <3>1, <3>2
  <2> QED
    BY <2>2, <2>3, StepKeeps
<1> QED
  BY <1>1, <1>2 DEF Negotiated

---------------------------------------------------------------------------
(* Writes *)

LEMMA StartedIs ==
    ASSUME Queues(writes), Generations(writes, child), child \in BOOLEAN,
           NEW lane \in Lanes, writes[lane] # <<>>,
           writes' = [writes EXCEPT ![lane][1].state = "started"]
    PROVE  /\ \A r \in Unsettled' : \E s \in Unsettled :
                 /\ s.token = r.token /\ s.live = r.live
                 /\ s.state = r.state \/ s = First(lane)
           /\ \A id : Single(writes.tail, id) => Single(writes'.tail, id)
<1>1. Queues(writes') /\ StartedIn(writes', lane)
  BY StartedKeepsQueues
<1>2. First(lane) = writes[lane][1]
  BY FirstIsAWrite
<1>3. Unsettled = Records(writes) /\ Unsettled' = Records(writes')
  BY DEF Unsettled, Records
<1>4. ASSUME NEW r \in Records(writes')
      PROVE  \E s \in Unsettled : /\ s.token = r.token /\ s.live = r.live
                                  /\ s.state = r.state \/ s = First(lane)
  <2>1. CASE \E i \in 1 .. Len(writes'.tail) : r = writes'.tail[i]
    <3> PICK i \in 1 .. Len(writes'.tail) : r = writes'.tail[i]
      BY <2>1
    <3>1. writes.tail[i] \in Unsettled
      BY <1>1, <1>3, RecordsAre DEF StartedIn
    <3>2. lane = "tail" /\ i = 1 => writes.tail[i] = First(lane)
      BY <1>2
    <3>3. /\ writes.tail[i].token = r.token /\ writes.tail[i].live = r.live
          /\ writes.tail[i].state = r.state \/ writes.tail[i] = First(lane)
      BY <1>1, <3>2 DEF StartedIn
    <3> QED
      BY <3>1, <3>3
  <2>2. CASE \E i \in 1 .. Len(writes'.retired) : r = writes'.retired[i]
    <3> PICK i \in 1 .. Len(writes'.retired) : r = writes'.retired[i]
      BY <2>2
    <3>1. writes.retired[i] \in Unsettled
      BY <1>1, <1>3, RecordsAre DEF StartedIn
    <3>2. lane = "retired" /\ i = 1 => writes.retired[i] = First(lane)
      BY <1>2
    <3>3. /\ writes.retired[i].token = r.token /\ writes.retired[i].live = r.live
          /\ writes.retired[i].state = r.state \/ writes.retired[i] = First(lane)
      BY <1>1, <3>2 DEF StartedIn
    <3> QED
      BY <3>1, <3>3
  <2> QED
    BY <1>1, <2>1, <2>2, RecordsAre
<1>5. ASSUME NEW id, Single(writes.tail, id) PROVE Single(writes'.tail, id)
  <2>1. /\ DOMAIN writes'.tail = DOMAIN writes.tail
        /\ DOMAIN writes.tail = 1 .. Len(writes.tail)
    BY <1>1, QueuesAre DEF StartedIn
  <2>2. \A i \in DOMAIN writes.tail : /\ writes'.tail[i].token = writes.tail[i].token
                                      /\ writes'.tail[i].live = writes.tail[i].live
    BY <1>1, <2>1 DEF StartedIn
  <2> QED
    BY <1>5, <2>1, <2>2 DEF Single
<1> QED
  BY <1>3, <1>4, <1>5

\* A write that begins is of a call that is pending.
LEMMA StartedKeeps ==
    ASSUME Inv, Base', NEW lane \in Lanes, writes[lane] # <<>>,
           HasRoute(First(lane)), writes' = [writes EXCEPT ![lane][1].state = "started"],
           UNCHANGED <<routes, calls, suspicion, sidecar, mixed>>
    PROVE  Correlated'
<1>1. /\ \A r \in Unsettled' : \E s \in Unsettled :
                 /\ s.token = r.token /\ s.live = r.live
                 /\ s.state = r.state \/ s = First(lane)
      /\ \A id : Single(writes.tail, id) => Single(writes'.tail, id)
  BY OwnOfEach, BaseTypes, StartedIs
<1>2. /\ UNCHANGED <<pipe, tasks, refusing, mixed, out>>
      /\ UNCHANGED <<place, nth, kind, tombstones>>
  BY DEF sidecar, routes, calls, suspicion
<1>3. ASSUME NEW id \in Ids PROVE (Written(id) /\ Delivered(id))'
  <2>1. Written(id) /\ Delivered(id)
    BY OwnOfEach
  <2>2. Token(id)' = Token(id) /\ Downstream(id)' = Downstream(id)
    BY <1>2 DEF Token, Downstream
  <2>3. ASSUME NEW r \in Unsettled', r.token.id = id
        PROVE  /\ r.token = Token(id) /\ place[id] \in {"none", "pending"}
               /\ ~r.live => place[id] = "none"
               /\ r.live /\ r.state = "started" => place[id] = "pending"
               /\ r.live => ~Downstream(id)
    <3> PICK s \in Unsettled : /\ s.token = r.token /\ s.live = r.live
                               /\ s.state = r.state \/ s = First(lane)
      BY <1>1
    <3>1. s = First(lane) => place[id] = "pending"
      BY <2>3, IdAssumption DEF HasRoute
    <3> QED
      BY <2>1, <2>3, <3>1 DEF Written
  <2>4. Written(id)'
    BY <1>1, <1>2, <2>1, <2>2, <2>3 DEF Written
  <2>5. Delivered(id)'
    BY <1>2, <2>1, <2>2 DEF Delivered
  <2> QED
    BY <2>4, <2>5
<1> QED
  BY <1>2, <1>3, OwnOfEach DEF Correlated

\* The write at work whose call is pending is of that call, and nothing else of it is
\* underway.
LEMMA TheWriteOfACall ==
    ASSUME Inv, NEW lane \in Lanes, writes[lane] # <<>>,
           NEW id \in Ids, First(lane).token.id = id, place[id] = "pending"
    PROVE  /\ First(lane) \in Unsettled /\ First(lane).token = Token(id) /\ First(lane).live
           /\ ~Downstream(id)
           /\ ~(\E r \in Records(Released(lane)) : r.token.id = id)
<1>1. Queues(writes) /\ Generations(writes, child) /\ child \in BOOLEAN
  BY OwnOfEach, BaseTypes
<1>2. /\ First(lane) = writes[lane][1] /\ First(lane) \in Unsettled
      /\ lane = "retired" => ~First(lane).live
  <2>1. CASE lane = "tail"
    <3>1. writes[lane] = writes.tail
      BY <2>1
    <3>2. 1 \in 1 .. Len(writes.tail) /\ First(lane) = writes.tail[1]
      BY <1>1, <3>1, QueuesAre, RestOfWrites DEF First
    <3> QED
      BY <1>1, <2>1, <3>1, <3>2, RecordsAre DEF Unsettled, Records
  <2>2. CASE lane = "retired"
    <3>1. writes[lane] = writes.retired
      BY <2>2
    <3>2. 1 \in 1 .. Len(writes.retired) /\ First(lane) = writes.retired[1]
      BY <1>1, <3>1, QueuesAre, RestOfWrites DEF First
    <3>3. ~First(lane).live
      BY <1>1, <3>2, QueuesAre DEF Generations
    <3> QED
      BY <1>1, <2>2, <3>1, <3>2, <3>3, RecordsAre DEF Unsettled, Records
  <2> QED
    BY <2>1, <2>2 DEF Lanes
<1>3. /\ First(lane).token = Token(id) /\ First(lane).live /\ ~Downstream(id)
      /\ \A r \in Unsettled : r.token.id = id => r.live
  BY <1>2, OwnOfEach DEF Written
<1>4. lane = "tail"
  BY <1>2, <1>3 DEF Lanes
<1>5. ASSUME NEW r \in Records(Released(lane)), r.token.id = id PROVE FALSE
  <2> DEFINE w == Released(lane)
  <2>1. /\ Queues(w) /\ w.tail = Tail(writes.tail) /\ w.retired = writes.retired
    BY <1>1, <1>4, ReleasedKeepsQueues
  <2>2. r \in Unsettled /\ r.live
    BY <1>1, <1>3, <1>5, ReleasedAddsNone DEF NoneAdded
  <2> HIDE DEF w
  <2>3. writes.tail # <<>> /\ writes[lane] = writes.tail /\ writes.tail \in Seq(Writes)
    BY <1>1, <1>4, QueuesAre
  <2>4. CASE \E i \in 1 .. Len(w.retired) : r = w.retired[i]
    BY <1>1, <2>1, <2>2, <2>4, QueuesAre DEF Generations
  <2>5. CASE \E i \in 1 .. Len(w.tail) : r = w.tail[i]
    <3> PICK i \in 1 .. Len(w.tail) : r = w.tail[i]
      BY <2>5
    <3>1. /\ Len(writes.tail) \in Nat \ {0} /\ Len(w.tail) = Len(writes.tail) - 1
          /\ r = writes.tail[i + 1] /\ DOMAIN writes.tail = 1 .. Len(writes.tail)
      BY <1>1, <2>1, <2>3, RestOfWrites, QueuesAre
    <3>2. i + 1 \in DOMAIN writes.tail /\ 1 \in DOMAIN writes.tail /\ i + 1 # 1
      BY <3>1
    <3>3. Single(writes.tail, id)
      BY OwnOfEach DEF Written
    <3> QED
      BY <1>2, <1>3, <1>5, <2>2, <2>3, <3>1, <3>2, <3>3 DEF Single
  <2> QED
    BY <1>5, <2>1, <2>4, <2>5, RecordsAre DEF w
<1> QED
  BY <1>2, <1>3, <1>5

\* A write error finds the route of its own call, or none.
LEMMA FailsKeeps ==
    ASSUME Inv, Base', NEW lane \in Lanes, writes[lane] # <<>>,
           NEW expecting \in BOOLEAN, Fails(lane, expecting), UNCHANGED calls
    PROVE  Correlated'
<1> DEFINE write == First(lane)
           id == write.token.id
           w == Released(lane)
<1>1. /\ Queues(w) /\ Generations(w, child) /\ \A x : NoneAdded(w, x)
      /\ child \in BOOLEAN /\ refusing \in BOOLEAN
      /\ id \in Ids \cup {Control} /\ (id = Control => write.token.nth # 0)
  BY OwnOfEach, BaseTypes, ReleasedKeepsQueues, ReleasedAddsNone, FirstIsAWrite
     DEF Base, CallShapes
<1>2. Plumbing(w, pipe, out)
  BY DEF Fails
<1>3. CatchFinds(write) /\ id # Control =>
          /\ id \in Ids /\ place[id] = "pending" /\ write.token = Token(id)
          /\ ~Downstream(id) /\ ~(\E r \in Records(w) : r.token.id = id)
  BY <1>1, TheWriteOfACall DEF CatchFinds, HasRoute
<1>4. mixed' = FALSE
  <2>1. mixed' = (mixed \/ (CatchFinds(write) /\ id # Control /\ write.token.nth # nth[id]))
    BY DEF Fails
  <2>2. CatchFinds(write) /\ id # Control => write.token.nth = nth[id]
    BY <1>3 DEF Token
  <2> QED
    BY <2>1, <2>2, OwnOfEach
<1>5. mixed' = mixed
  BY <1>4, OwnOfEach DEF Base, CallShapes
<1>6. CASE ~CatchFinds(write)
  <2>1. UNCHANGED <<link, routes, suspicion>>
    BY <1>6 DEF Fails
  <2>2. child' = child
    BY <2>1 DEF link
  <2>3. writes' = w /\ UNCHANGED <<pipe, tasks, refusing>> /\ out' = out
    BY <1>1, <1>2, <2>2, OwnOfEach, PlumbingLeavesSidecar DEF Base
  <2>4. \A x \in Ids : Same(x)
    BY <2>1 DEF Same, routes, suspicion, calls
  <2> QED
    BY <1>1, <1>5, <2>3, <2>4, StepKeeps
<1>7. CASE CatchFinds(write) /\ id = Control
  <2>1. child = TRUE
    BY <1>1, <1>7, OwnOfEach, BaseTypes DEF CatchFinds, HasRoute
  <2>2. Recycle("unknown") \/ Negotiated("unknown", {Control})
    BY <1>7 DEF Fails
  <2>3. CASE Recycle("unknown")
    BY <1>1, <1>2, <1>4, <2>3, RecycleEnds
  <2>4. CASE Negotiated("unknown", {Control})
    BY <1>1, <1>2, <1>5, <2>1, <2>4, NegotiatedKeeps
  <2> QED
    BY <2>2, <2>3, <2>4
<1> HIDE DEF w, write, id
<1>8. CASE CatchFinds(write) /\ id # Control /\ expecting
  <2>1. ClearExpecting(id)
    BY <1>8 DEF Fails, write, id
  <2>2. \A r \in Records(w) : r.token.id = id => r.state # "started"
    BY <1>3, <1>8
  <2> QED
    BY <1>1, <1>2, <1>3, <1>4, <1>8, <2>1, <2>2, TombstoneKeeps
<1>9. CASE CatchFinds(write) /\ id # Control /\ ~expecting
  <2>1. Clear(id)
    BY <1>9 DEF Fails, write, id
  <2>2. /\ \A i \in DOMAIN pipe : pipe[i].id # id
        /\ \A t \in tasks : t.id # id /\ \A i \in DOMAIN out : out[i].id # id
    BY <1>3, <1>9 DEF Downstream
  <2>3. \A i \in DOMAIN out : out[i].id # id
    BY <1>3, <1>9 DEF Downstream
  <2> QED
    BY <1>1, <1>2, <1>3, <1>4, <1>9, <2>1, <2>2, <2>3, ClearedKeeps
<1> QED
  BY <1>6, <1>7, <1>8, <1>9

LEMMA BeginWriteKeeps ==
    ASSUME Inv, Base', NEW lane \in Lanes, BeginWrite(lane)
    PROVE  Correlated'
<1>1. writes[lane] # <<>> /\ UNCHANGED calls
  BY DEF BeginWrite, HasWrite
<1>2. CASE /\ HasRoute(First(lane))
           /\ writes' = [writes EXCEPT ![lane][1].state = "started"]
           /\ UNCHANGED <<link, routes, suspicion, sidecar, mixed>>
  BY <1>1, <1>2, StartedKeeps
<1>3. CASE Fails(lane, FALSE)
  BY <1>1, <1>3, FailsKeeps
<1> QED
  BY <1>2, <1>3 DEF BeginWrite

LEMMA WriteFailsKeeps ==
    ASSUME Inv, Base', NEW lane \in Lanes, WriteFails(lane)
    PROVE  Correlated'
BY FailsKeeps DEF WriteFails, HasWrite

---------------------------------------------------------------------------
(* The sidecar at work *)

\* The step has taken nothing of the id to the sidecar, and nothing further there.
Elsewhere(id) ==
    /\ \E k \in {0, 1} : \A i \in DOMAIN pipe' : pipe'[i].id = id =>
          i + k \in DOMAIN pipe /\ pipe[i + k] = pipe'[i]
    /\ \A t \in tasks' : t.id = id => t \in tasks
    /\ \A i \in DOMAIN out' : out'[i].id = id => i \in DOMAIN out /\ out[i] = out'[i]

LEMMA ElsewhereKeeps ==
    ASSUME NEW id \in Ids, Own(id), Elsewhere(id), pipe' \in Seq(Issued),
           UNCHANGED <<place, calls, tombstones>>, NoneAdded(writes', id)
    PROVE  Own(id)'
<1> PICK k \in {0, 1} : \A i \in DOMAIN pipe' : pipe'[i].id = id =>
                            i + k \in DOMAIN pipe /\ pipe[i + k] = pipe'[i]
  BY DEF Elsewhere
<1>1. /\ \A t \in tasks' : t.id = id => t \in tasks
      /\ \A i \in DOMAIN out' : out'[i].id = id => i \in DOMAIN out /\ out[i] = out'[i]
      /\ nth'[id] = nth[id] /\ kind'[id] = kind[id] /\ Token(id)' = Token(id)
  BY DEF Elsewhere, calls, Token
<1>2. \A i \in DOMAIN pipe' : i \in Nat
  BY LenProperties
<1>3. Downstream(id)' => Downstream(id)
  BY <1>1 DEF Downstream
<1>4. Written(id)'
  <2>1. /\ \A w \in Unsettled' : w.token.id = id => w \in Unsettled
        /\ Single(writes.tail, id) => Single(writes'.tail, id)
    BY DEF NoneAdded, Unsettled, Records
  <2> QED
    BY <1>1, <1>3, <2>1, WrittenStays DEF Own
<1>5. Delivered(id)
  BY DEF Own
<1>6. ASSUME NEW i \in DOMAIN pipe', pipe'[i].id = id
      PROVE  /\ pipe'[i] = Token(id)'
             /\ \A j \in DOMAIN pipe' : pipe'[j].id = id => i = j
             /\ \A t \in tasks' : t.id # id
             /\ \A j \in DOMAIN out' : out'[j].id # id
  <2>1. i + k \in DOMAIN pipe /\ pipe[i + k].id = id /\ pipe[i + k] = pipe'[i]
    BY <1>6
  <2>2. /\ pipe[i + k] = Token(id)
        /\ \A j \in DOMAIN pipe : pipe[j].id = id => i + k = j
        /\ \A t \in tasks : t.id # id
        /\ \A j \in DOMAIN out : out[j].id # id
    BY <1>5, <2>1 DEF Delivered
  <2>3. ASSUME NEW j \in DOMAIN pipe', pipe'[j].id = id PROVE i = j
    <3>1. i + k = j + k
      BY <2>2, <2>3
    <3> QED
      BY <1>2, <3>1
  <2> QED
    BY <1>1, <2>1, <2>2, <2>3
<1>7. \A t \in tasks' : t.id = id => t = Token(id)'
  BY <1>1, <1>5 DEF Delivered
<1>8. \A i \in DOMAIN out' : out'[i].id = id =>
          /\ out'[i].nth = nth'[id]
          /\ out'[i].type # "event" => /\ \A t \in tasks' : t.id # id
                                       /\ \A j \in DOMAIN out' : out'[j].id = id => j <= i
  BY <1>1, <1>5 DEF Delivered
<1>9. Downstream(id)' => place'[id] = "pending" \/ (place'[id] = "none" /\ id \in tombstones')
  BY <1>3, <1>5 DEF Delivered
<1> QED
  BY <1>4, <1>6, <1>7, <1>8, <1>9 DEF Own, Delivered

\* A step at the pipes moves what is of one id at most.
LEMMA MovingKeeps ==
    ASSUME Inv, Base', UNCHANGED <<place, calls, tombstones, refusing, mixed>>,
           \A id \in Ids : Own(id)' \/ (Elsewhere(id) /\ NoneAdded(writes', id))
    PROVE  Correlated'
<1>1. ASSUME NEW id \in Ids PROVE (Written(id) /\ Delivered(id))'
  <2>1. pipe' \in Seq(Issued)
    BY DEF Base, Plumbed
  <2>2. Own(id)'
    BY <2>1, OwnOfEach, ElsewhereKeeps
  <2> QED
    BY <2>2 DEF Own
<1> QED
  BY <1>1, OwnOfEach DEF Correlated

LEMMA WriteDoneKeeps ==
    ASSUME Inv, Base', NEW lane \in Lanes, WriteDone(lane)
    PROVE  Correlated'
<1> DEFINE write == First(lane)
           x == write.token.id
<1>1. /\ writes[lane] # <<>> /\ write.state = "started"
      /\ writes' = Released(lane)
      /\ pipe' = IF write.live THEN Append(pipe, write.token) ELSE pipe
      /\ UNCHANGED <<routes, calls, suspicion, tasks, out, refusing, mixed>>
  BY DEF WriteDone, HasWrite
<1>2. UNCHANGED <<place, tombstones>> /\ \A id : NoneAdded(writes', id)
  BY <1>1, OwnOfEach, BaseTypes, ReleasedAddsNone DEF routes, suspicion
<1>3. CASE ~write.live
  <2>1. pipe' = pipe
    BY <1>1, <1>3
  <2>2. \A id \in Ids : Same(id)
    BY <1>1, <1>2 DEF Same, calls
  <2> QED
    BY <1>1, <1>2, <2>1, <2>2, StepKeeps
<1>4. CASE write.live
  <2>1. /\ write.token \in Issued /\ pipe' = Append(pipe, write.token) /\ pipe \in Seq(Issued)
    BY <1>1, <1>4, OwnOfEach, BaseTypes, FirstIsAWrite
  <2> HIDE DEF write
  <2>2. /\ DOMAIN pipe' = 1 .. Len(pipe) + 1 /\ DOMAIN pipe = 1 .. Len(pipe) /\ Len(pipe) \in Nat
        /\ \A i \in 1 .. Len(pipe) : pipe'[i] = pipe[i]
        /\ pipe'[Len(pipe) + 1] = write.token
    <3>1. /\ pipe' \in Seq(Issued) /\ Len(pipe') = Len(pipe) + 1
          /\ \A i \in 1 .. Len(pipe) : pipe'[i] = pipe[i]
          /\ pipe'[Len(pipe) + 1] = write.token
      BY <2>1, AppendProperties
    <3> QED
      BY <2>1, <3>1, LenProperties
  <2>3. \A i \in DOMAIN pipe' : i \in DOMAIN pipe \/ i = Len(pipe) + 1
    BY <2>2
  <2>4. ASSUME NEW id \in Ids, id # x PROVE Elsewhere(id)
    <3>1. \A i \in DOMAIN pipe' : pipe'[i].id = id => i + 0 \in DOMAIN pipe /\ pipe[i + 0] = pipe'[i]
      BY <2>2, <2>3, <2>4
    <3> QED
      BY <1>1, <3>1 DEF Elsewhere
  <2>5. ASSUME NEW id \in Ids, id = x PROVE Own(id)'
    <3>1. place[id] = "pending"
      <4>1. write \in Unsettled
        <5>1. Queues(writes)
          BY OwnOfEach, BaseTypes
        <5>2. First(lane) = writes[lane][1]
          BY <1>1, <5>1, FirstIsAWrite
        <5>3. CASE lane = "tail"
          <6>1. 1 \in 1 .. Len(writes.tail) /\ write = writes.tail[1]
            BY <1>1, <5>1, <5>2, <5>3, QueuesAre, RestOfWrites DEF write
          <6> QED
            BY <5>1, <6>1, RecordsAre DEF Unsettled, Records
        <5>4. CASE lane = "retired"
          <6>1. 1 \in 1 .. Len(writes.retired) /\ write = writes.retired[1]
            BY <1>1, <5>1, <5>2, <5>4, QueuesAre, RestOfWrites DEF write
          <6> QED
            BY <5>1, <6>1, RecordsAre DEF Unsettled, Records
        <5> QED
          BY <5>3, <5>4 DEF Lanes
      <4> QED
        BY <1>1, <1>4, <2>5, <4>1, OwnOfEach DEF Written
    <3>2. /\ write.token = Token(id) /\ ~Downstream(id)
          /\ ~(\E r \in Records(writes') : r.token.id = id)
      BY <1>1, <2>5, <3>1, TheWriteOfACall DEF write
    <3>3. Written(id)'
      <4>1. \A r \in Unsettled' : r.token.id # id
        BY <3>2 DEF Unsettled, Records
      <4>2. Queues(writes')
        BY DEF Base, Plumbed
      <4>3. \A i \in DOMAIN writes'.tail : writes'.tail[i].token.id # id
        BY <4>1 DEF Unsettled, ToSet
      <4> QED
        BY <4>1, <4>3 DEF Written, Single
    <3>4. Token(id)' = Token(id) /\ place'[id] = "pending" /\ UNCHANGED <<tasks, out>>
      BY <1>1, <1>2, <3>1 DEF calls, Token
    <3>5. /\ \A i \in DOMAIN pipe : pipe[i].id # id
          /\ \A t \in tasks : t.id # id
      BY <3>2 DEF Downstream
    <3>6. \A i \in DOMAIN out : out[i].id # id
      BY <3>2 DEF Downstream
    <3>7. \A i \in DOMAIN pipe' : pipe'[i].id = id => i = Len(pipe) + 1 /\ pipe'[i] = Token(id)
      BY <2>2, <2>3, <3>2, <3>5
    <3>8. Delivered(id)'
      BY <3>4, <3>5, <3>6, <3>7 DEF Delivered
    <3> QED
      BY <3>3, <3>8 DEF Own
  <2> QED
    BY <1>1, <1>2, <2>4, <2>5, MovingKeeps
<1> QED
  BY <1>3, <1>4

\* The first line from the sidecar, of an id of a caller: it is of the last call, and when
\* it ends the answer nothing of the call is left behind it.
LEMMA TheFirstLine ==
    ASSUME Inv, out # <<>>, NEW id \in Ids, Head(out).id = id
    PROVE  /\ Downstream(id) /\ Head(out).nth = nth[id]
           /\ Head(out).type # "event" =>
                 /\ \A i \in DOMAIN pipe : pipe[i].id # id
                 /\ \A t \in tasks : t.id # id
                 /\ \A i \in DOMAIN Tail(out) : Tail(out)[i].id # id
<1>1. /\ Head(out) = out[1] /\ 1 \in DOMAIN out /\ DOMAIN out = 1 .. Len(out)
      /\ Len(out) \in Nat \ {0}
      /\ DOMAIN Tail(out) = 1 .. Len(out) - 1
      /\ \A i \in 1 .. Len(out) - 1 : Tail(out)[i] = out[i + 1]
  <2>1. out \in Seq(Answers)
    BY OwnOfEach, BaseTypes
  <2>2. Len(out) \in Nat \ {0} /\ DOMAIN out = 1 .. Len(out)
    BY <2>1, EmptySeq, LenProperties
  <2>3. /\ Tail(out) \in Seq(Answers) /\ Len(Tail(out)) = Len(out) - 1
        /\ \A i \in 1 .. Len(Tail(out)) : Tail(out)[i] = out[i + 1]
    BY <2>1, HeadTailProperties
  <2>4. DOMAIN Tail(out) = 1 .. Len(out) - 1
    BY <2>3, LenProperties
  <2>5. Head(out) = out[1]
    BY <2>1, <2>2
  <2> QED
    BY <2>2, <2>3, <2>4, <2>5
<1>2. Delivered(id) /\ out[1].id = id
  BY <1>1, OwnOfEach
<1>3. Downstream(id) /\ out[1].nth = nth[id]
  BY <1>1, <1>2 DEF Downstream, Delivered
<1>4. ASSUME out[1].type # "event"
      PROVE  /\ \A i \in DOMAIN pipe : pipe[i].id # id
             /\ \A t \in tasks : t.id # id
             /\ \A i \in DOMAIN Tail(out) : Tail(out)[i].id # id
  <2>1. /\ \A t \in tasks : t.id # id
        /\ \A j \in DOMAIN out : out[j].id = id => j <= 1
    BY <1>1, <1>2, <1>4 DEF Delivered
  <2>2. \A i \in DOMAIN pipe : pipe[i].id # id
    BY <1>1, <1>2 DEF Delivered
  <2>3. ASSUME NEW i \in DOMAIN Tail(out) PROVE Tail(out)[i].id # id
    <3>1. i \in 1 .. Len(out) - 1 /\ i + 1 \in DOMAIN out /\ ~(i + 1 <= 1)
      BY <1>1
    <3> QED
      BY <1>1, <2>1, <3>1
  <2> QED
    BY <2>1, <2>2, <2>3
<1> QED
  BY <1>1, <1>3, <1>4

---------------------------------------------------------------------------
(* Lines from the sidecar *)

LEMMA ReadPendingKeeps ==
    ASSUME Inv, Base', out # <<>>, ReadPending(Head(out)), UNCHANGED calls
    PROVE  Correlated'
<1> DEFINE line == Head(out)
<1>1. PICK id \in Ids : id = line.id
  BY DEF ReadPending
<1>2. /\ place[id] = "pending" /\ Plumbing(writes, pipe, Tail(out))
      /\ Downstream(id) /\ line.nth = nth[id]
      /\ line.type # "event" => /\ \A i \in DOMAIN pipe : pipe[i].id # id
                                /\ \A t \in tasks : t.id # id
                                /\ \A i \in DOMAIN Tail(out) : Tail(out)[i].id # id
  BY <1>1, TheFirstLine DEF ReadPending
<1>3. mixed' = FALSE /\ mixed' = mixed
  <2>1. UNCHANGED mixed \/ mixed' = (mixed \/ line.nth # nth[line.id])
    BY DEF ReadPending
  <2>2. mixed = FALSE
    BY OwnOfEach, BaseTypes
  <2> QED
    BY <1>1, <1>2, <2>1, <2>2
<1>4. /\ Queues(writes) /\ Generations(writes, child) /\ child = TRUE /\ refusing \in BOOLEAN
      /\ \A x : NoneAdded(writes, x)
  BY <1>2, OwnOfEach, BaseTypes, SameAddsNone DEF Base, CallShapes
<1>5. ~(\E r \in Records(writes) : r.token.id = id)
  BY <1>2, OwnOfEach, NothingUnderway DEF Unsettled, Records
<1>6. CASE Recycle("unknown")
  BY <1>2, <1>3, <1>4, <1>6, RecycleEnds
<1>7. CASE UNCHANGED <<link, routes, suspicion>>
  <2>1. child' = child
    BY <1>7 DEF link
  <2>2. UNCHANGED <<writes, pipe, tasks, refusing>> /\ out' = Tail(out)
    BY <1>2, <1>4, <2>1, OwnOfEach, PlumbingLeavesSidecar DEF Base
  <2>3. \A x \in Ids : Same(x)
    BY <1>7 DEF Same, routes, suspicion, calls
  <2> QED
    BY <1>3, <1>4, <2>2, <2>3, StepKeeps
<1>8. CASE line.type \in {"response", "end"} /\ Clear(id)
  <2>1. line.type # "event"
    BY <1>8
  <2>2. /\ \A i \in DOMAIN pipe : pipe[i].id # id
        /\ \A t \in tasks : t.id # id
        /\ \A i \in DOMAIN Tail(out) : Tail(out)[i].id # id
    BY <1>2, <2>1
  <2> DEFINE rest == Tail(out)
  <2>3. /\ Plumbing(writes, pipe, rest) /\ rest = Tail(out)
        /\ \A i \in DOMAIN rest : rest[i].id # id
    BY <1>2, <2>2
  <2> HIDE DEF rest
  <2>4. rest = out \/ (out # <<>> /\ rest = Tail(out))
    BY <2>3
  <2>5. place[id] \in {"connecting", "inLine", "pending"}
    BY <1>2
  <2>6. /\ Clear(id) /\ mixed' = FALSE
        /\ Queues(writes) /\ Generations(writes, child) /\ \A x : NoneAdded(writes, x)
    BY <1>3, <1>4, <1>8
  <2> QED
    BY <1>5, <2>2, <2>3, <2>4, <2>5, <2>6, ClearedKeeps
<1>9. CASE ClearExpecting(id)
  BY <1>2, <1>3, <1>4, <1>5, <1>9, TombstoneKeeps
<1> QED
  BY <1>1, <1>6, <1>7, <1>8, <1>9 DEF ReadPending

LEMMA ReadLateKeeps ==
    ASSUME Inv, Base', out # <<>>, ReadLate(Head(out)), UNCHANGED calls
    PROVE  Correlated'
<1> DEFINE line == Head(out)
<1>1. Plumbing(writes, pipe, Tail(out)) /\ UNCHANGED mixed
  BY DEF ReadLate
<1>2. /\ Queues(writes) /\ Generations(writes, child) /\ child \in BOOLEAN /\ refusing \in BOOLEAN
      /\ mixed' = FALSE /\ \A x : NoneAdded(writes, x)
  BY <1>1, OwnOfEach, BaseTypes, SameAddsNone DEF Base, CallShapes
<1>3. CASE Recycle("unknown")
  BY <1>1, <1>2, <1>3, RecycleEnds
<1>4. CASE /\ UNCHANGED <<link, routes>>
           /\ \A id \in tombstones : id \notin tombstones' => id = line.id /\ line.type # "event"
  <2>1. child' = child
    BY <1>4 DEF link
  <2>2. /\ UNCHANGED <<writes, pipe, tasks, refusing>>
        /\ out' = out \/ (out # <<>> /\ out' = Tail(out))
        /\ child => out' = Tail(out)
    BY <1>1, <1>2, <2>1, OwnOfEach, PlumbingLeavesSidecar DEF Base
  <2>3. out' = Tail(out)
    BY <2>2, OwnOfEach DEF Base, Plumbed
  <2>4. ASSUME NEW id \in Ids
        PROVE  Own(id)' \/ (NoneAdded(writes', id) /\ (Absent(id) \/ Same(id)))
    <3>1. NoneAdded(writes', id)
      BY <1>2, <2>2
    <3>2. CASE id \in tombstones => id \in tombstones'
      BY <1>4, <3>1, <3>2 DEF Same, routes, calls
    <3>3. CASE id \in tombstones /\ id \notin tombstones'
      <4>1. id = line.id /\ line.type # "event"
        BY <1>4, <3>3
      <4>2. ~Downstream(id)'
        <5>1. /\ \A i \in DOMAIN pipe : pipe[i].id # id
              /\ \A t \in tasks : t.id # id
              /\ \A i \in DOMAIN Tail(out) : Tail(out)[i].id # id
          BY <4>1, TheFirstLine
        <5> QED
          BY <2>2, <2>3, <5>1 DEF Downstream
      <4>3. Delivered(id)'
        BY <4>2 DEF Delivered, Downstream
      <4>4. Written(id)'
        <5>1. \A w \in Unsettled' : w.token.id = id => w \in Unsettled
          BY <2>2 DEF Unsettled
        <5> QED
          BY <1>4, <2>2, <4>2, <5>1, OwnOfEach, WrittenStays DEF routes, calls
      <4> QED
        BY <4>3, <4>4 DEF Own
    <3> QED
      BY <3>2, <3>3
  <2> QED
    BY <1>1, <2>2, <2>4, StepKeeps
<1>5. CASE /\ tombstones' = IF line.type = "event" THEN tombstones ELSE tombstones \ {line.id}
           /\ UNCHANGED <<link, routes>>
  BY <1>4, <1>5
<1>6. CASE UNCHANGED <<link, routes, tombstones>>
  BY <1>4, <1>6
<1> QED
  BY <1>3, <1>5, <1>6 DEF ReadLate

LEMMA AnsweredKeeps ==
    ASSUME Inv, Base', control # 0, out # <<>>, NEW greeting \in Greetings,
           Answered(greeting, Tail(out)), UNCHANGED <<calls, mixed>>
    PROVE  Correlated'
<1> DEFINE next == control + 1
           goesOn == greeting # "rejected" /\ Follows(greeting) /\ CanIssueControl(Live - 1)
           w == IF goesOn THEN Admitted(Probe(next)) ELSE writes
<1>1. /\ goesOn => UNCHANGED <<child, handshake, routes, suspicion>>
      /\ \/ goesOn \/ Recycle("blocked")
         \/ \E state \in Usable \cup {"unknown"} : Negotiated(state, {})
      /\ Plumbing(w, pipe, Tail(out))
  BY AnsweredIs
<1>2. goesOn => next \in 1 .. LastProbe /\ ~WriteQueueFull
  <2>1. control \in Nat
    BY OwnOfEach, BaseTypes DEF LastProbe
  <2> QED
    BY <2>1 DEF Follows, Hello, LastProbe, CanIssueControl
<1>3. goesOn \in BOOLEAN /\ w = IF goesOn THEN Admitted(Probe(next)) ELSE writes
  OBVIOUS
<1>4. child = TRUE /\ refusing \in BOOLEAN /\ mixed' = FALSE
  BY OwnOfEach, BaseTypes DEF Base, CallShapes
<1> HIDE DEF next, goesOn, w
<1>5. CASE ~goesOn
  <2>1. /\ w = writes /\ Queues(w) /\ Generations(w, child) /\ \A x : NoneAdded(w, x)
    BY <1>3, <1>5, OwnOfEach, BaseTypes, SameAddsNone
  <2>2. CASE Recycle("blocked")
    BY <1>1, <1>4, <2>1, <2>2, RecycleEnds
  <2>3. CASE \E state \in Usable \cup {"unknown"} : Negotiated(state, {})
    BY <1>1, <1>4, <2>1, <2>3, NegotiatedKeeps
  <2> QED
    BY <1>1, <1>5, <2>2, <2>3
<1>6. CASE goesOn
  <2>1. Probe(next) \in Issued /\ Queues(writes) /\ Generations(writes, TRUE)
    BY <1>2, <1>4, <1>6, OwnOfEach, BaseTypes, TokensAreIssued
  <2>2. Queues(w) /\ Generations(w, TRUE) /\ \A id \in Ids : NoneAdded(w, id)
    BY <1>2, <1>3, <1>6, <2>1, AdmittedKeepsQueues, ProbeAddsNone
  <2>3. child' = child
    BY <1>1, <1>6
  <2>4. writes' = w /\ UNCHANGED <<pipe, tasks, refusing>> /\ out' = Tail(out)
    BY <1>1, <1>4, <2>2, <2>3, OwnOfEach, PlumbingLeavesSidecar DEF Base
  <2>5. \A id \in Ids : Same(id)
    BY <1>1, <1>6 DEF Same, routes, suspicion, calls
  <2> QED
    BY <2>2, <2>4, <2>5, StepKeeps
<1> QED
  BY <1>5, <1>6

LEMMA ReadLineKeeps ==
    ASSUME Inv, Base', ReadLine
    PROVE  Correlated'
<1>1. /\ out # <<>> /\ UNCHANGED <<calls, closed>>
      /\ \/ ReadPending(Head(out))
         \/ ReadLate(Head(out))
         \/ /\ Head(out).id = Control /\ control = Head(out).nth
            /\ \E greeting \in Greetings : Answered(greeting, Tail(out))
            /\ UNCHANGED mixed
  BY DEF ReadLine
<1>2. Head(out).id = Control => Head(out).nth # 0
  <2>1. Head(out) \in Answers
    BY <1>1, OwnOfEach, BaseTypes, HeadTailProperties
  <2> QED
    BY <2>1 DEF Answers
<1> QED
  BY <1>1, <1>2, ReadPendingKeeps, ReadLateKeeps, AnsweredKeeps

---------------------------------------------------------------------------
(* Steps of the sidecar *)

\* The steps of the sidecar leave the client alone, the stdin writes too.
LEMMA ServerLeavesClient ==
    ASSUME UNCHANGED client
    PROVE  /\ UNCHANGED <<place, calls, tombstones, mixed>> /\ UNCHANGED writes
           /\ \A id : NoneAdded(writes', id) /\ Token(id)' = Token(id)
BY SameAddsNone DEF client, routes, suspicion, calls, Token

\* What was downstream stays of the last call; its writes are as they were.
LEMMA WrittenInPlace ==
    ASSUME NEW id \in Ids, Written(id), UNCHANGED client, Downstream(id)' => Downstream(id)
    PROVE  Written(id)'
<1>1. UNCHANGED <<writes, place, kind, nth>>
  BY ServerLeavesClient DEF calls
<1> QED
  BY <1>1, WrittenStays DEF Unsettled

LEMMA ServerReadKeeps ==
    ASSUME Inv, Base', ServerRead
    PROVE  Correlated'
<1>1. PICK token : token = Head(pipe)
  OBVIOUS
<1>2. /\ pipe # <<>> /\ pipe' = Tail(pipe) /\ UNCHANGED client /\ UNCHANGED out
      /\ \/ /\ token.id # Control /\ (\E t \in tasks : t.id = token.id)
         \/ tasks' = tasks \cup {token} /\ UNCHANGED refusing
  BY <1>1 DEF ServerRead
<1>3. /\ Len(pipe) \in Nat \ {0} /\ DOMAIN pipe = 1 .. Len(pipe) /\ token = pipe[1]
      /\ token \in Issued /\ DOMAIN pipe' = 1 .. Len(pipe) - 1
      /\ \A i \in 1 .. Len(pipe) - 1 : pipe'[i] = pipe[i + 1]
  <2>1. pipe \in Seq(Issued)
    BY OwnOfEach, BaseTypes
  <2>2. Len(pipe) \in Nat \ {0} /\ DOMAIN pipe = 1 .. Len(pipe)
    BY <1>2, <2>1, EmptySeq, LenProperties
  <2>3. /\ Tail(pipe) \in Seq(Issued) /\ Len(Tail(pipe)) = Len(pipe) - 1 /\ Head(pipe) \in Issued
        /\ \A i \in 1 .. Len(Tail(pipe)) : Tail(pipe)[i] = pipe[i + 1]
    BY <1>2, <2>1, HeadTailProperties
  <2>4. DOMAIN pipe' = 1 .. Len(pipe) - 1
    BY <1>2, <2>3, LenProperties
  <2>5. Head(pipe) = pipe[1]
    BY <2>1, <2>2
  <2> QED
    BY <1>1, <1>2, <2>2, <2>3, <2>4, <2>5
<1>4. 1 \in DOMAIN pipe /\ \A i \in DOMAIN pipe' : i + 1 \in DOMAIN pipe /\ pipe[i + 1] = pipe'[i]
  BY <1>3
<1>5. token.id \in Ids =>
          /\ token = Token(token.id) /\ \A t \in tasks : t.id # token.id
          /\ \A j \in DOMAIN pipe : pipe[j].id = token.id => j = 1
          /\ \A j \in DOMAIN out : out[j].id # token.id
  BY <1>3, <1>4, OwnOfEach DEF Delivered
<1>6. tasks' = tasks \cup {token} /\ UNCHANGED refusing
  <2>1. token.id \in Ids \cup {Control}
    BY <1>3 DEF Issued, Tokens
  <2> QED
    BY <1>2, <1>5, <2>1
<1>7. ASSUME NEW id \in Ids, id # token.id PROVE Elsewhere(id)
  <2>1. \E k \in {0, 1} : \A i \in DOMAIN pipe' : pipe'[i].id = id =>
            i + k \in DOMAIN pipe /\ pipe[i + k] = pipe'[i]
    BY <1>4
  <2> QED
    BY <1>2, <1>6, <1>7, <2>1 DEF Elsewhere
<1>8. ASSUME NEW id \in Ids, id = token.id PROVE Own(id)'
  <2>1. Downstream(id)
    BY <1>3, <1>4, <1>8 DEF Downstream
  <2>2. \A i \in DOMAIN pipe' : pipe'[i].id # id
    <3> SUFFICES ASSUME NEW i \in DOMAIN pipe', pipe'[i].id = id PROVE FALSE
      OBVIOUS
    <3>1. i + 1 = 1
      BY <1>4, <1>5, <1>8
    <3>2. i \in 1 .. Len(pipe) - 1
      BY <1>3
    <3> QED
      BY <1>3, <3>1, <3>2
  <2>3. /\ \A t \in tasks' : t.id = id => t = Token(id)
        /\ \A i \in DOMAIN out' : out'[i].id # id
    BY <1>2, <1>5, <1>6, <1>8
  <2>4. place[id] = "pending" \/ (place[id] = "none" /\ id \in tombstones)
    BY <2>1, OwnOfEach DEF Delivered
  <2>5. Delivered(id)'
    BY <1>2, <2>2, <2>3, <2>4, ServerLeavesClient DEF Delivered
  <2> QED
    BY <1>2, <2>1, <2>5, OwnOfEach, WrittenInPlace DEF Own
<1> QED
  BY <1>2, <1>6, <1>7, <1>8, ServerLeavesClient, MovingKeeps

\* A line at the end of those from the sidecar.
LEMMA OneMoreLine ==
    ASSUME out \in Seq(Answers), NEW line \in Answers, out' = Append(out, line)
    PROVE  /\ Len(out) \in Nat /\ DOMAIN out = 1 .. Len(out)
           /\ DOMAIN out' = 1 .. Len(out) + 1 /\ out'[Len(out) + 1] = line
           /\ \A i \in DOMAIN out' : i = Len(out) + 1 \/ (i \in DOMAIN out /\ out'[i] = out[i])
           /\ \A i \in DOMAIN out : i <= Len(out)
<1>1. /\ out' \in Seq(Answers) /\ Len(out') = Len(out) + 1
      /\ \A i \in 1 .. Len(out) : out'[i] = out[i]
      /\ out'[Len(out) + 1] = line
  BY AppendProperties
<1>2. /\ Len(out) \in Nat /\ DOMAIN out = 1 .. Len(out) /\ DOMAIN out' = 1 .. Len(out) + 1
  BY <1>1, LenProperties
<1> QED
  BY <1>1, <1>2

\* A line of another id.
LEMMA LineElsewhere ==
    ASSUME Inv, NEW line \in Answers, out' = Append(out, line), UNCHANGED pipe,
           tasks' \subseteq tasks, NEW id \in Ids, id # line.id
    PROVE  Elsewhere(id)
<1>1. \A i \in DOMAIN out' : out'[i].id = id => i \in DOMAIN out /\ out[i] = out'[i]
  BY OwnOfEach, BaseTypes, OneMoreLine
<1>2. \A i \in DOMAIN pipe' : i + 0 \in DOMAIN pipe /\ pipe[i + 0] = pipe'[i]
  <2>1. \A i \in DOMAIN pipe : i + 0 = i
    BY OwnOfEach, BaseTypes, LenProperties
  <2> QED
    BY <2>1
<1> QED
  BY <1>1, <1>2 DEF Elsewhere

\* A line of a request at work: it is of the last call, and no line before it ended the
\* answer.
LEMMA SpokenKeeps ==
    ASSUME Inv, Base', NEW token \in tasks, NEW type \in {"response", "event", "end"},
           out' = Append(out, Line(token, type)), UNCHANGED <<client, pipe, refusing>>,
           tasks' = IF type = "event" THEN tasks ELSE tasks \ {token}
    PROVE  Correlated'
<1> DEFINE n == Len(out) + 1
<1>1. /\ token \in Issued /\ Line(token, type) \in Answers /\ out \in Seq(Answers)
      /\ Line(token, type).id = token.id /\ Line(token, type).nth = token.nth
      /\ Line(token, type).type = type
  <2>1. token \in Issued /\ out \in Seq(Answers)
    BY OwnOfEach DEF Base, Plumbed
  <2> QED
    BY <2>1, LinesAreAnswers DEF Line
<1>2. /\ n \in Nat /\ DOMAIN out' = 1 .. n /\ out'[n] = Line(token, type) /\ n \in DOMAIN out'
      /\ \A i \in DOMAIN out' : i = n \/ (i \in DOMAIN out /\ out'[i] = out[i])
      /\ \A i \in DOMAIN out' : i <= n
  BY <1>1, OneMoreLine
<1> HIDE DEF n
<1>3. ASSUME NEW id \in Ids, id # token.id PROVE Elsewhere(id)
  BY <1>1, <1>3, LineElsewhere
<1>4. ASSUME NEW id \in Ids, id = token.id PROVE Own(id)'
  <2>1. Delivered(id) /\ Downstream(id) /\ token = Token(id) /\ token.nth = nth[id]
    BY <1>4, OwnOfEach DEF Delivered, Downstream, Token
  <2>2. /\ \A i \in DOMAIN pipe : pipe[i].id # id
        /\ \A i \in DOMAIN out : out[i].id = id => out[i].type = "event" /\ out[i].nth = nth[id]
        /\ \A t \in tasks : t.id = id => t = token
    BY <1>4, <2>1 DEF Delivered
  <2>3. /\ \A t \in tasks' : t.id = id => t = token
        /\ type # "event" => \A t \in tasks' : t.id # id
    BY <2>2
  <2>4. \A i \in DOMAIN out' : out'[i].id = id =>
            /\ out'[i].nth = nth[id]
            /\ out'[i].type # "event" => i = n /\ type # "event"
    BY <1>1, <1>2, <1>4, <2>1, <2>2
  <2>5. \A i \in DOMAIN out' : out'[i].id = id =>
            /\ out'[i].nth = nth[id]
            /\ out'[i].type # "event" => /\ \A t \in tasks' : t.id # id
                                         /\ \A j \in DOMAIN out' : out'[j].id = id => j <= i
    BY <1>2, <2>3, <2>4
  <2>6. place[id] = "pending" \/ (place[id] = "none" /\ id \in tombstones)
    BY <2>1 DEF Delivered
  <2>7. /\ \A i \in DOMAIN pipe' : pipe'[i].id # id
        /\ \A t \in tasks' : t.id = id => t = Token(id)'
        /\ nth'[id] = nth[id]
        /\ place'[id] = "pending" \/ (place'[id] = "none" /\ id \in tombstones')
    BY <2>1, <2>2, <2>3, <2>6, ServerLeavesClient DEF calls
  <2>8. Delivered(id)'
    BY <2>5, <2>7 DEF Delivered
  <2> QED
    BY <2>1, <2>8, OwnOfEach, WrittenInPlace DEF Own
<1> QED
  BY <1>3, <1>4, ServerLeavesClient, MovingKeeps

LEMMA ServerKeeps ==
    ASSUME Inv, Base',
           ServerRead \/ ServerStray \/ \E token \in tasks : ServerEmit(token) \/ ServerAnswer(token)
    PROVE  Correlated'
<1>1. CASE ServerRead
  BY <1>1, ServerReadKeeps
<1>2. CASE ServerStray
  <2> DEFINE line == [id |-> Foreign, nth |-> 0, type |-> "response"]
  <2>1. UNCHANGED <<client, pipe, tasks, refusing>> /\ out' = Append(out, line)
    BY <1>2 DEF ServerStray
  <2>2. line \in Answers /\ line.id = Foreign
    BY IdAssumption DEF Answers
  <2> HIDE DEF line
  <2>3. \A id \in Ids : Elsewhere(id)
    BY <2>1, <2>2, IdAssumption, LineElsewhere
  <2> QED
    BY <2>1, <2>3, ServerLeavesClient, MovingKeeps
<1>3. ASSUME NEW token \in tasks, ServerEmit(token) PROVE Correlated'
  BY <1>3, SpokenKeeps DEF ServerEmit
<1>4. ASSUME NEW token \in tasks, ServerAnswer(token) PROVE Correlated'
  <2>1. PICK type \in {"response", "end"} : type = IF token.kind = "unary" THEN "response" ELSE "end"
    OBVIOUS
  <2>2. /\ UNCHANGED <<client, pipe, refusing>> /\ tasks' = tasks \ {token}
        /\ out' = Append(out, Line(token, type))
    BY <1>4, <2>1 DEF ServerAnswer
  <2>3. tasks' = IF type = "event" THEN tasks ELSE tasks \ {token}
    BY <2>2
  <2> QED
    BY <2>2, <2>3, SpokenKeeps
<1> QED
  BY <1>1, <1>2, <1>3, <1>4

---------------------------------------------------------------------------
(* The invariant, when callers do not reuse an id over a stdin write of it *)

LEMMA InitIsCorrelated == Init => Correlated
<1> SUFFICES ASSUME Init, NEW id \in Ids PROVE Written(id) /\ Delivered(id) /\ ~mixed /\ ~refusing
  BY DEF Correlated, Init
<1>1. DOMAIN <<>> = {} /\ ToSet(<<>>) = {}
  BY DEF ToSet
<1>2. /\ Unsettled = {} /\ DOMAIN writes.tail = {}
      /\ DOMAIN pipe = {} /\ tasks = {} /\ DOMAIN out = {} /\ ~mixed /\ ~refusing
  BY <1>1 DEF Init, Unsettled
<1> QED
  BY <1>2 DEF Written, Delivered, Downstream, Single

LEMMA UnchangedKeeps ==
    ASSUME Inv, Base', UNCHANGED vars
    PROVE  Correlated'
<1>1. /\ UNCHANGED <<place, nth, kind, tombstones, mixed, writes>>
      /\ UNCHANGED <<pipe, tasks, refusing, out>>
  BY DEF vars, routes, suspicion, calls, sidecar
<1>2. \A id \in Ids : Same(id)
  BY <1>1 DEF Same
<1> QED
  BY <1>1, <1>2, SameAddsNone, StepKeeps

LEMMA NextKeeps ==
    ASSUME ReuseAtOnce = FALSE, Inv, [Next]_vars
    PROVE  Inv'
<1>1. Base'
  BY NextKeepsBase DEF Inv
<1>2. CASE UNCHANGED vars
  BY <1>1, <1>2, UnchangedKeeps DEF Inv
<1>3. ASSUME NEW id \in Ids,
             \/ \E k \in Kinds : Request(id, k)
             \/ Connect(id) \/ Proceed(id) \/ TakeSlot(id) \/ Cancel(id) \/ Timeout(id)
      PROVE  Correlated'
  BY <1>1, <1>3, RequestKeeps, ConnectKeeps, ProceedKeeps, TakeSlotKeeps, CancelKeeps, TimeoutKeeps
<1>4. ASSUME NEW lane \in Lanes, BeginWrite(lane) \/ WriteDone(lane) \/ WriteFails(lane)
      PROVE  Correlated'
  BY <1>1, <1>4, BeginWriteKeeps, WriteDoneKeeps, WriteFailsKeeps
<1>5. CASE ReadLine
  BY <1>1, <1>5, ReadLineKeeps DEF Inv
<1>6. CASE ControlTimeout \/ GraceEnds \/ Exit \/ Close
  BY <1>1, <1>6, StoppingKeeps DEF Inv
<1>7. CASE ServerRead \/ ServerStray \/ \E token \in tasks : ServerEmit(token) \/ ServerAnswer(token)
  BY <1>1, <1>7, ServerKeeps DEF Inv
<1> QED
  BY <1>1, <1>2, <1>3, <1>4, <1>5, <1>6, <1>7 DEF Next, Inv

LEMMA InvHolds ==
    ASSUME ReuseAtOnce = FALSE
    PROVE  Spec => []Inv
<1>1. Init => Inv
  BY InitIsBase, InitIsCorrelated DEF Inv
<1>2. Inv /\ [Next]_vars => Inv'
  BY NextKeeps
<1> QED
  BY <1>1, <1>2, PTL DEF Spec

\* When a caller takes an id again only after the stdin writes of its last call have settled,
\* no call is settled and no stream fed on account of another: each line and each write error
\* meets the call it is of, or none, through cancellations, deadlines, recycled sidecars and
\* late output (handleResponse, handleEvent, the catch of issueResponse and issueStream).
THEOREM AnswersAreOwn == ASSUME ReuseAtOnce = FALSE PROVE Spec => []OwnAnswers
<1>1. Inv => OwnAnswers
  BY DEF Inv, Correlated, OwnAnswers
<1> QED
  BY <1>1, InvHolds, PTL

\* Under the same condition no line is written with an id the sidecar still works on, so that
\* it never refuses (failClosedOnCorrelationViolation).
THEOREM NoIdIsSentTwice == ASSUME ReuseAtOnce = FALSE PROVE Spec => []NoDuplicate
<1>1. Inv => NoDuplicate
  BY DEF Inv, Correlated, NoDuplicate
<1> QED
  BY <1>1, InvHolds, PTL
=============================================================================
