----------------------------- MODULE ControlProofs -----------------------------
(***************************************************************************)
(* Proofs about Control, for every set of hosts, control ids and messages  *)
(* of the user, within one process and across processes.                   *)
(*                                                                         *)
(* Inv says what the durable ledger, the conversation and the locals of    *)
(* every running call imply about each other.  Its last two parts speak of *)
(* conversations in which no steer was credited with a message that the    *)
(* user typed (Uncredited): only then does a witness name the turn that    *)
(* its own steer typed.                                                    *)
(***************************************************************************)
EXTENDS Control, FiniteSetTheorems, SequenceTheorems, TLAPS

Causes == {SendId} \cup SteerIds

InPage == {page.turns[i] : i \in DOMAIN page.turns}

Witness(c) == s.witnesses[c]

(***************************************************************************)
(* The inductive invariant.                                                *)
(***************************************************************************)
Pages == [turns: Seq(Causes \cup HumanTurns), generating: BOOLEAN]

Shapes ==
    /\ s \in OperationStates
    /\ base \in [SteerIds -> Nat]
    /\ page \in Pages
    /\ expects \in [ControlIds -> Turns \cup {"none"}]
    /\ host \in [Hosts -> Calls]
    /\ stops \in [StopIds -> Nat]
    /\ answer \in Turns \cup {"none"}

\* What the ledger holds of an operation whose Send is proven.
Ledger ==
    /\ s.lifecycle = "fixed" /\ s.binding = "tab" /\ s.establishedTurn = "none"
    /\ s.actions[SendId].kind = "send" /\ Outcome(SendId) = "satisfied" /\ Witness(SendId) = SendId
    /\ \A c \in StopIds : s.actions[c].kind \in {"absent", "stop"} /\ Witness(c) = "none"
    /\ \A c \in SteerIds :
          /\ s.actions[c].kind \in {"absent", "work_steer"}
          /\ Outcome(c) # "uncertain"
          /\ Outcome(c) = "satisfied" => Witness(c) # "none"
          /\ Witness(c) # "none" => s.actions[c].kind = "work_steer"

\* No turn appears twice; baselines, witnesses and requests name what the page showed.
Conversation ==
    /\ page.turns # <<>> /\ page.turns[1] = SendId
    /\ \A i, j \in DOMAIN page.turns : page.turns[i] = page.turns[j] => i = j
    /\ \A c \in Steers : base[c] \in DOMAIN page.turns
    /\ \A c \in SteerIds : Witness(c) # "none" =>
          base[c] + 1 \in DOMAIN page.turns /\ page.turns[base[c] + 1] = Witness(c)
    /\ \A c \in ControlIds : expects[c] # "none" => \E a \in Causes : expects[c] = Witness(a)

\* ranked lists the Send and the steers, an unresolved steer last, and the witnessed
\* ones in the order of their baselines.
Ranking ==
    /\ ranked \in Seq(Causes)
    /\ \A c \in Causes : s.actions[c].kind # "absent" => \E i \in DOMAIN ranked : ranked[i] = c
    /\ \A i \in DOMAIN ranked : s.actions[ranked[i]].kind # "absent"
    /\ \A i, j \in DOMAIN ranked : ranked[i] = ranked[j] => i = j
    /\ \A c \in Steers : Unresolved(c) => ranked[Len(ranked)] = c
    /\ \A i, j \in DOMAIN ranked :
          /\ Witness(ranked[i]) # "none" /\ Witness(ranked[j]) # "none"
          /\ Baseline(ranked[i]) < Baseline(ranked[j])
          => i < j

StopSteps == {"observeTurn", "stopIntent", "stop", "settleStop"}
SteerSteps == {"prepare", "persist", "execute", "click", "verify", "witness"}

\* What a running call k knows: the id it settles is of the right kind and its request
\* names a turn;
Names(k) ==
    /\ k.pc \in StopSteps => k.act \in StopIds
    /\ k.pc \in SteerSteps => k.act \in SteerIds
    /\ k.pc = "receipt" => k.act \in ControlIds
    /\ k.pc \in StopSteps \cup SteerSteps \cup {"receipt"} => expects[k.act] # "none"

\* its steer is fenced, and the baseline it prepared is the durable one;
Steering(k) ==
    /\ k.pc \in {"execute", "click", "verify", "witness"} => s.actions[k.act].kind = "work_steer"
    /\ k.pc = "persist" => k.prep \in DOMAIN page.turns
    /\ k.pc \in {"execute", "click"} => k.prep = base[k.act]

\* the turn it takes for its steer's lies behind every witnessed one;
Verified(k) ==
    k.pc = "witness" =>
        /\ k.out = "satisfied"
        /\ base[k.act] + 1 \in DOMAIN page.turns
        /\ Outcome(k.act) = "open" /\ Witness(k.act) = "none" =>
              \A d \in Steers : Witness(d) # "none" => base[d] <= base[k.act]

\* the outcome it is about to append is true;
Reports(k) ==
    k.pc = "receipt" =>
        /\ k.out # "open"
        /\ k.act \in SteerIds =>
              /\ s.actions[k.act].kind = "work_steer" /\ k.out # "uncertain"
              /\ k.out = "satisfied" => Witness(k.act) # "none"
        /\ k.act \in StopIds /\ k.out = "satisfied" => ~Answering(expects[k.act])

\* the answer it collects follows the baseline of the owner it read, and had ended.
Collects(k) ==
    /\ k.pc \in {"observe", "terminal"} => k.act \in Causes /\ s.actions[k.act].kind # "absent"
    /\ k.pc = "terminal" =>
          /\ Baseline(k.act) + 1 \in DOMAIN page.turns
          /\ k.seen = page.turns[Baseline(k.act) + 1]
          /\ Len(page.turns) = Baseline(k.act) + 1 => ~page.generating

CallHolds(k) == Names(k) /\ Steering(k) /\ Verified(k) /\ Reports(k) /\ Collects(k)

\* The calls that may still type the steer c, or that know that nobody did.
Typing(k, c) ==
    /\ k.act = c
    /\ k.pc \in {"execute", "click"} \/ (k.pc = "receipt" /\ k.out = "not_satisfied")

\* One host at a time is about to type a steer, which is then not in the page.
Fenced ==
    \A c \in SteerIds :
        /\ \A g, h \in Hosts : Typing(host[g], c) /\ Typing(host[h], c) => g = h
        /\ \A h \in Hosts : Typing(host[h], c) => c \notin InPage /\ Outcome(c) # "not_satisfied"
        /\ c \in InPage => s.actions[c].kind = "work_steer" /\ Outcome(c) # "not_satisfied"
        /\ \A i \in DOMAIN page.turns : page.turns[i] = c => i > base[c]

\* No steer was credited with a message of the user.
Uncredited == \A c \in SteerIds : Witness(c) \notin HumanTurns

\* Between the baseline of a steer and its own turn only the user has typed.
Alone ==
    /\ \A h \in Hosts : At(h, "click") =>
          /\ Outcome(Act(h)) = "open" /\ Witness(Act(h)) = "none"
          /\ \A i \in DOMAIN page.turns : i > base[Act(h)] => page.turns[i] \in HumanTurns
    /\ \A c \in SteerIds : \A i, j \in DOMAIN page.turns :
          page.turns[i] = c /\ base[c] < j /\ j < i => page.turns[j] \in HumanTurns

\* The operation has nothing to add after the turn t.
Settled(t) ==
    /\ \A h \in Hosts : ~At(h, "click")
    /\ \A c \in SteerIds : c \in InPage => Witness(c) # "none"
    /\ \E p \in DOMAIN page.turns :
          /\ page.turns[p] = t
          /\ Len(page.turns) = p => ~page.generating
          /\ \A i \in DOMAIN page.turns : i > p => page.turns[i] \in HumanTurns

Current ==
    /\ \A h \in Hosts : At(h, "capture") \/ At(h, "complete") => Settled(host[h].seen)
    /\ answer # "none" => Settled(answer)

Inv ==
    /\ Shapes /\ Ledger /\ Conversation /\ Ranking
    /\ \A h \in Hosts : CallHolds(host[h])
    /\ Fenced /\ OneUnresolvedSteer /\ StopReportsAreTrue
    /\ Uncredited => Alone /\ Current

---------------------------------------------------------------------------
(* Shapes of the parts *)

LEMMA IdsAreDistinct ==
    /\ SendId \in ActionIds /\ StopIds \subseteq ActionIds /\ SteerIds \subseteq ActionIds
    /\ Causes \subseteq ActionIds /\ ControlIds = StopIds \cup SteerIds
    /\ SendId \notin ControlIds /\ StopIds \cap SteerIds = {} /\ SendId \notin SteerIds
    /\ HumanTurns \cap Causes = {} /\ "none" \notin Turns
    /\ Causes \cup HumanTurns \subseteq Turns /\ ActionIds \subseteq Turns
BY DistinctIdsAssumption, TurnsAssumption DEF ActionIds, ControlIds, Turns, Causes

LEMMA LedgerShape ==
    ASSUME s \in OperationStates
    PROVE  /\ s.actions \in [ActionIds -> ActionRecord]
           /\ s.witnesses \in [ActionIds -> Turns \cup {"none"}]
           /\ \A c \in ActionIds :
                 /\ s.actions[c].kind \in Kinds \cup {"absent"}
                 /\ s.actions[c].outcome \in Outcomes \cup {"open"}
                 /\ s.actions[c].kind = "absent" => s.actions[c].outcome = "open"
           /\ Steers \subseteq ActionIds
           /\ \A c \in ActionIds : c \in Steers <=> s.actions[c].kind = "work_steer"
<1>1. s.actions \in [ActionIds -> ActionRecord] /\ s.witnesses \in [ActionIds -> Turns \cup {"none"}]
  BY DEF OperationStates
<1>2. \A c \in ActionIds : s.actions[c] \in ActionRecord
  BY <1>1
<1>3. Steers \subseteq ActionIds /\ \A c \in ActionIds : c \in Steers <=> s.actions[c].kind = "work_steer"
  BY DEF Steers, OfKind
<1>4. ASSUME NEW r \in ActionRecord
      PROVE  /\ r.kind \in Kinds \cup {"absent"} /\ r.outcome \in Outcomes \cup {"open"}
             /\ r.kind = "absent" => r.outcome = "open"
  BY DEF ActionRecord, NoAction, Kinds
<1>5. ASSUME NEW c \in ActionIds
      PROVE  /\ s.actions[c].kind \in Kinds \cup {"absent"}
             /\ s.actions[c].outcome \in Outcomes \cup {"open"}
             /\ s.actions[c].kind = "absent" => s.actions[c].outcome = "open"
  <2> DEFINE r == s.actions[c]
  <2>1. r \in ActionRecord
    BY <1>2
  <2> HIDE DEF r
  <2>2. /\ r.kind \in Kinds \cup {"absent"} /\ r.outcome \in Outcomes \cup {"open"}
        /\ r.kind = "absent" => r.outcome = "open"
    BY <2>1, <1>4
  <2> QED
    BY <2>2 DEF r
<1> QED
  BY <1>1, <1>3, <1>5

LEMMA PageShape ==
    ASSUME Shapes
    PROVE  /\ page.turns \in Seq(Causes \cup HumanTurns) /\ Len(page.turns) \in Nat
           /\ DOMAIN page.turns = 1 .. Len(page.turns)
           /\ \A i \in DOMAIN page.turns : page.turns[i] \in Causes \cup HumanTurns
           /\ page = [turns |-> page.turns, generating |-> page.generating]
           /\ page.generating \in BOOLEAN
BY DEF Shapes, Pages

\* A steer of the ledger is one of the steers' ids.
LEMMA SteersAreSteerIds == Shapes /\ Ledger => Steers = {c \in SteerIds : s.actions[c].kind = "work_steer"}
<1> SUFFICES ASSUME Shapes, Ledger
             PROVE  Steers = {c \in SteerIds : s.actions[c].kind = "work_steer"}
  OBVIOUS
<1>1. \A c \in ActionIds : c = SendId \/ c \in StopIds \/ c \in SteerIds
  BY DEF ActionIds, ControlIds
<1>2. \A c \in ActionIds : s.actions[c].kind = "work_steer" => c \in SteerIds
  BY <1>1 DEF Ledger
<1> QED
  BY <1>2, IdsAreDistinct DEF Steers, OfKind

\* The turn an answered request names was in the page when it was named.
LEMMA WitnessesAreInPage ==
    ASSUME Shapes, Ledger, Conversation, NEW a \in Causes, Witness(a) # "none"
    PROVE  Witness(a) \in InPage
<1>1. CASE a = SendId
  <2>1. 1 \in DOMAIN page.turns
    BY PageShape DEF Conversation
  <2> QED
    BY <1>1, <2>1 DEF Ledger, Conversation, InPage
<1>2. CASE a \in SteerIds
  BY <1>2 DEF Conversation, InPage
<1> QED
  BY <1>1, <1>2 DEF Causes

LEMMA RequestsAreInPage ==
    ASSUME Shapes, Ledger, Conversation, NEW c \in ControlIds
    PROVE  expects[c] # "none" => expects[c] \in InPage
BY WitnessesAreInPage DEF Conversation

---------------------------------------------------------------------------
(***************************************************************************)
(* Steps that leave the turns and the ledger of the Send and the steers    *)
(* alone: most steps of a call, which go on with what the call knows.      *)
(***************************************************************************)
Quiet ==
    /\ ranked' = ranked /\ base' = base /\ s' \in OperationStates
    /\ s'.witnesses = s.witnesses
    /\ s'.lifecycle = s.lifecycle /\ s'.binding = s.binding
    /\ s'.establishedTurn = s.establishedTurn
    /\ \A c \in Causes : s'.actions[c] = s.actions[c]
    /\ \A c \in StopIds :
          /\ s'.actions[c].kind \in {"absent", "stop"}
          /\ s'.actions[c].outcome = "satisfied" =>
                 Outcome(c) = "satisfied" \/ ~Answering(expects[c])
    /\ page' \in Pages /\ page'.turns = page.turns /\ (page'.generating => page.generating)
    /\ expects' \in [ControlIds -> Turns \cup {"none"}]
    /\ \A c \in ControlIds :
          \/ expects'[c] = expects[c]
          \/ /\ expects[c] = "none" /\ s'.actions[c].outcome = "open"
             /\ expects'[c] # "none" /\ \E a \in Causes : expects'[c] = Witness(a)
    /\ stops' \in [StopIds -> Nat]

\* What the new locals of a call have to satisfy.
Lands(h) ==
    /\ CallHolds(host[h])'
    /\ \A c \in SteerIds : Typing(host'[h], c) => Typing(host[h], c)
    /\ Uncredited /\ host'[h].pc = "click" =>
          /\ Outcome(host'[h].act) = "open" /\ Witness(host'[h].act) = "none"
          /\ \A i \in DOMAIN page.turns : i > base[host'[h].act] => page.turns[i] \in HumanTurns
          /\ \A t : ~Settled(t)
    /\ Uncredited /\ host'[h].pc \in {"capture", "complete"} => Settled(host'[h].seen)

LEMMA QuietSteers ==
    ASSUME Inv, Quiet
    PROVE  /\ Steers' = Steers
           /\ \A c \in Causes : Outcome(c)' = Outcome(c) /\ Witness(c)' = Witness(c)
           /\ \A c \in Causes : s'.actions[c].kind = s.actions[c].kind
<1>1. \A c \in ActionIds : c \in Causes \/ c \in StopIds
  BY DEF ActionIds, ControlIds, Causes
<1>2. \A c \in StopIds : s.actions[c].kind # "work_steer" /\ s'.actions[c].kind # "work_steer"
  BY DEF Inv, Ledger, Quiet
<1>3. \A c \in ActionIds : s'.actions[c].kind = "work_steer" <=> s.actions[c].kind = "work_steer"
  BY <1>1, <1>2 DEF Quiet
<1> QED
  BY <1>3 DEF Steers, OfKind, Quiet, Outcome, Witness

LEMMA QuietCalls ==
    ASSUME Inv, Quiet, NEW k \in Calls, CallHolds(k)
    PROVE  CallHolds(k)'
<1> USE DEF Inv
<1>1. \A c \in ControlIds : expects[c] # "none" => expects'[c] = expects[c]
  BY DEF Quiet
<1>2. Names(k)'
  BY <1>1 DEF Names, CallHolds, StopSteps, SteerSteps, ControlIds
<1>3. Steering(k)' /\ Verified(k)'
  <2>1. k.pc \in SteerSteps => k.act \in SteerIds
    BY DEF CallHolds, Names
  <2>2. Steering(k)'
    BY <2>1 DEF Steering, CallHolds, Quiet, SteerSteps, Causes
  <2>3. \A d \in Steers : Witness(d)' = Witness(d)
    BY DEF Quiet, Witness
  <2>4. Verified(k)'
    BY <2>1, <2>3, QuietSteers DEF Verified, CallHolds, Quiet, SteerSteps, Causes
  <2> QED
    BY <2>2, <2>4
<1>4. Reports(k)'
  <2>1. k.pc = "receipt" => expects'[k.act] = expects[k.act]
    BY <1>1 DEF CallHolds, Names, StopSteps, SteerSteps
  <2>2. \A t : Answering(t)' => Answering(t)
    BY DEF Answering, LastTurn, Quiet
  <2> QED
    BY <2>1, <2>2 DEF Reports, CallHolds, Quiet, Witness, Answering, LastTurn, Causes
<1>5. Collects(k)'
  BY DEF Collects, CallHolds, Quiet, Baseline
<1> QED
  BY <1>2, <1>3, <1>4, <1>5 DEF CallHolds

LEMMA QuietStep ==
    ASSUME Inv, Quiet, host' \in [Hosts -> Calls],
           \A h \in Hosts : host'[h] = host[h] \/ Lands(h),
           answer' \in Turns \cup {"none"},
           answer' = answer \/ (Uncredited => Settled(answer'))
    PROVE  Inv'
<1> USE DEF Inv
<1>1. Shapes'
  BY DEF Shapes, Quiet
<1>2. Ledger'
  BY DEF Ledger, Quiet, Outcome, Witness, Causes
<1>3. Conversation'
  <2>1. \A c \in ControlIds : expects'[c] # "none" => \E a \in Causes : expects'[c] = Witness(a)
    BY DEF Quiet, Conversation
  <2>2. \A a : Witness(a)' = Witness(a)
    BY DEF Quiet, Witness
  <2> QED
    BY <2>1, <2>2, QuietSteers DEF Conversation, Quiet
<1>4. Ranking'
  <2>1. \A i \in DOMAIN ranked : ranked[i] \in Causes
    BY DEF Ranking
  <2>2. \A c \in Steers : Unresolved(c)' = Unresolved(c)
    BY SteersAreSteerIds, QuietSteers DEF Unresolved, Causes
  <2> QED
    BY <2>1, <2>2, QuietSteers DEF Ranking, Quiet, Baseline
<1>5. (\A h \in Hosts : CallHolds(host[h]))'
  <2> SUFFICES ASSUME NEW h \in Hosts
               PROVE  CallHolds(host[h])'
    OBVIOUS
  <2>1. CASE host'[h] = host[h]
    <3>1. host[h] \in Calls /\ CallHolds(host[h])
      BY DEF Shapes
    <3> DEFINE k == host[h]
    <3>2. CallHolds(k)
      BY <3>1
    <3> QED
      <4>1. ASSUME NEW r \in Calls, CallHolds(r) PROVE CallHolds(r)'
        BY <4>1, QuietCalls
      <4> QED
        BY <3>1, <4>1, <2>1 DEF CallHolds, Names, Steering, Verified, Reports, Collects
  <2>2. CASE Lands(h)
    BY <2>2 DEF Lands
  <2> QED
    BY <2>1, <2>2
<1>6. Fenced'
  <2>1. \A h \in Hosts, c \in SteerIds : Typing(host'[h], c) => Typing(host[h], c)
    BY DEF Lands
  <2>2. InPage' = InPage
    BY DEF InPage, Quiet
  <2> QED
    BY <2>1, <2>2, QuietSteers DEF Fenced, Quiet, Causes
<1>7. OneUnresolvedSteer'
  BY SteersAreSteerIds, QuietSteers DEF OneUnresolvedSteer, Unresolved, Causes
<1>8. StopReportsAreTrue'
  <2> SUFFICES ASSUME NEW c \in StopIds, Outcome(c)' = "satisfied"
               PROVE  ~Answering(expects[c])'
    BY DEF StopReportsAreTrue
  <2>1. s'.actions[c].outcome = "satisfied" /\ c \in ControlIds
    BY DEF Outcome, ControlIds
  <2>2. expects'[c] = expects[c]
    BY <2>1 DEF Quiet
  <2>3. ~Answering(expects[c])
    BY <2>1 DEF Quiet, StopReportsAreTrue
  <2> QED
    BY <2>2, <2>3 DEF Answering, LastTurn, Quiet
<1>9. ASSUME Uncredited' PROVE Alone' /\ Current'
  <2>1. Uncredited
    BY <1>9 DEF Uncredited, Quiet, Witness
  <2>2. Alone /\ Current
    BY <2>1
  <2>3. Alone'
    <3>1. (\A h \in Hosts : At(h, "click") =>
              /\ Outcome(Act(h)) = "open" /\ Witness(Act(h)) = "none"
              /\ \A i \in DOMAIN page.turns : i > base[Act(h)] => page.turns[i] \in HumanTurns)'
      <4> SUFFICES ASSUME NEW h \in Hosts, At(h, "click")'
                   PROVE  (/\ Outcome(Act(h)) = "open" /\ Witness(Act(h)) = "none"
                           /\ \A i \in DOMAIN page.turns :
                                 i > base[Act(h)] => page.turns[i] \in HumanTurns)'
        OBVIOUS
      <4>1. /\ Outcome(host'[h].act) = "open" /\ Witness(host'[h].act) = "none"
            /\ \A i \in DOMAIN page.turns : i > base[host'[h].act] => page.turns[i] \in HumanTurns
        BY <2>1, <2>2 DEF Alone, Lands, At, Act
      <4>2. host'[h].act \in Causes
        BY <1>5 DEF At, CallHolds, Names, SteerSteps, Causes
      <4>3. s'.actions[host'[h].act] = s.actions[host'[h].act]
        BY <4>2 DEF Quiet
      <4> QED
        BY <4>1, <4>3 DEF Quiet, Act, Outcome, Witness
    <3> QED
      BY <3>1, <2>2 DEF Alone, Quiet
  <2>4. ASSUME NEW t, Settled(t) PROVE Settled(t)'
    <3>1. \A h \in Hosts : ~At(h, "click")'
      BY <2>1, <2>4 DEF Settled, Lands, At
    <3>2. InPage' = InPage
      BY DEF InPage, Quiet
    <3> QED
      BY <2>4, <3>1, <3>2 DEF Settled, Quiet, Witness
  <2>5. \A h \in Hosts : (At(h, "capture") \/ At(h, "complete"))' => Settled(host'[h].seen)
    BY <2>1, <2>2 DEF Current, Lands, At
  <2>6. answer' # "none" => Settled(answer')
    BY <2>1, <2>2 DEF Current
  <2>7. ASSUME NEW h \in Hosts, (At(h, "capture") \/ At(h, "complete"))'
        PROVE  Settled(host[h].seen)'
    <3>1. Settled(host'[h].seen)
      BY <2>5, <2>7
    <3> QED
      BY <3>1, <2>4 DEF Settled
  <2>8. ASSUME answer' # "none" PROVE Settled(answer)'
    BY <2>4, <2>6, <2>8 DEF Settled
  <2> QED
    BY <2>3, <2>7, <2>8 DEF Current
<1> QED
  BY <1>1, <1>2, <1>3, <1>4, <1>5, <1>6, <1>7, <1>8, <1>9

LEMMA Unmoved ==
    ASSUME Inv, s' = s, ranked' = ranked, base' = base, expects' = expects,
           stops' \in [StopIds -> Nat],
           page' \in Pages, page'.turns = page.turns, page'.generating => page.generating
    PROVE  Quiet
BY DEF Quiet, Inv, Shapes, Ledger, Outcome

LEMMA Goes ==
    ASSUME Shapes, NEW h \in Hosts, NEW p \in Steps, Go(h, p)
    PROVE  /\ host' \in [Hosts -> Calls] /\ \A g \in Hosts : g # h => host'[g] = host[g]
           /\ host'[h].pc = p /\ host'[h].act = host[h].act /\ host'[h].prep = host[h].prep
           /\ host'[h].out = host[h].out /\ host'[h].seen = host[h].seen
BY DEF Go, Shapes, Calls

LEMMA GoesWith ==
    ASSUME Shapes, NEW h \in Hosts, NEW p \in Steps, NEW o \in Outcomes, GoWith(h, p, o)
    PROVE  /\ host' \in [Hosts -> Calls] /\ \A g \in Hosts : g # h => host'[g] = host[g]
           /\ host'[h].pc = p /\ host'[h].act = host[h].act /\ host'[h].prep = host[h].prep
           /\ host'[h].out = o /\ host'[h].seen = host[h].seen
BY DEF GoWith, Shapes, Calls

LEMMA Returns ==
    ASSUME Shapes, NEW h \in Hosts, Return(h)
    PROVE  /\ host' \in [Hosts -> Calls] /\ \A g \in Hosts : g # h => host'[g] = host[g]
           /\ host'[h] = Idle /\ Lands(h)
<1>1. Idle \in Calls
  BY DEF Idle, Calls, Steps
<1>2. /\ host' \in [Hosts -> Calls] /\ \A g \in Hosts : g # h => host'[g] = host[g]
      /\ host'[h] = Idle
  BY <1>1 DEF Return, Shapes
<1>3. Lands(h)
  BY <1>2 DEF Lands, Idle, CallHolds, Names, StopSteps, SteerSteps, Steering, Verified, Reports,
              Collects, Typing
<1> QED
  BY <1>2, <1>3

LEMMA HostsType ==
    ASSUME Inv, NEW h \in Hosts
    PROVE  host[h] \in Calls /\ CallHolds(host[h]) /\ host \in [Hosts -> Calls]
BY DEF Inv, Shapes

---------------------------------------------------------------------------
(* Stop *)

LEMMA BeginKeeps ==
    ASSUME Inv, NEW h \in Hosts, NEW c \in ControlIds, Begin(h, c)
    PROVE  Inv'
<1>1. Shapes /\ Ledger /\ c \in ActionIds /\ Outcome(c) = "open"
  BY IdsAreDistinct DEF Inv, Begin
<1>2. /\ expects' \in [ControlIds -> Turns \cup {"none"}]
      /\ \A d \in ControlIds : \/ expects'[d] = expects[d]
                               \/ /\ d = c /\ expects[d] = "none" /\ expects'[d] # "none"
                                  /\ \E a \in Causes : expects'[d] = Witness(a)
      /\ expects'[c] # "none"
  <2>1. CASE expects[c] # "none"
    BY <2>1 DEF Begin, Inv, Shapes
  <2>2. CASE expects[c] = "none"
    <3>1. PICK t \in {s.witnesses[a] : a \in ActionIds} \ {"none"} : expects' = [expects EXCEPT ![c] = t]
      BY <2>2 DEF Begin
    <3>2. PICK a \in ActionIds : t = s.witnesses[a]
      BY <3>1
    <3>3. t \in Turns
      BY <3>1, <3>2, <1>1, LedgerShape DEF Shapes
    <3>4. a \in Causes
      BY <3>1, <3>2, <1>1 DEF Ledger, Witness, ActionIds, ControlIds, Causes
    <3>5. expects \in [ControlIds -> Turns \cup {"none"}]
      BY DEF Inv, Shapes
    <3> QED
      BY <2>2, <3>1, <3>2, <3>3, <3>4, <3>5 DEF Witness
  <2> QED
    BY <2>1, <2>2
<1>3. Quiet
  BY <1>1, <1>2 DEF Begin, journal, history, Quiet, Inv, Shapes, Ledger, Outcome
<1> DEFINE p == CASE c \in StopIds /\ c \notin Recorded(s) -> "observeTurn"
                  [] c \in StopIds /\ c \in Recorded(s) -> "settleStop"
                  [] c \in SteerIds /\ c \notin Recorded(s) -> "prepare"
                  [] c \in SteerIds /\ c \in Recorded(s) -> "verify"
<1>4. /\ p \in {"observeTurn", "settleStop", "prepare", "verify"}
      /\ p \in {"observeTurn", "settleStop"} => c \in StopIds
      /\ p \in {"prepare", "verify"} => c \in SteerIds
      /\ p = "verify" => c \in Recorded(s)
  BY IdsAreDistinct DEF ControlIds
<1>5. host' = [host EXCEPT ![h].act = c, ![h].pc = p]
  BY DEF Begin
<1> HIDE DEF p
<1>6. /\ host' \in [Hosts -> Calls] /\ \A g \in Hosts : g # h => host'[g] = host[g]
      /\ host'[h].pc = p /\ host'[h].act = c
  BY <1>1, <1>4, <1>5, HostsType DEF Calls, Steps
<1>7. p = "verify" => s.actions[c].kind = "work_steer"
  BY <1>1, <1>4 DEF Ledger, Recorded
<1>8. Lands(h)
  BY <1>2, <1>3, <1>4, <1>6, <1>7
     DEF Lands, CallHolds, Names, StopSteps, SteerSteps, Steering, Verified, Reports, Collects,
         Typing, Begin, journal
<1> QED
  BY <1>3, <1>6, <1>8, QuietStep DEF Begin, history, Inv, Shapes

LEMMA ObserveTurnKeeps ==
    ASSUME Inv, NEW h \in Hosts, ObserveTurn(h)
    PROVE  Inv'
<1>1. Quiet
  BY Unmoved DEF ObserveTurn, journal, history, Inv, Shapes
<1>2. Go(h, "stopIntent") /\ "stopIntent" \in Steps /\ Shapes
  BY DEF ObserveTurn, Steps, Inv
<1>3. Lands(h)
  BY <1>1, <1>2, Goes, HostsType
     DEF ObserveTurn, At, Act, Lands, CallHolds, Names, StopSteps, SteerSteps, Steering, Verified, Reports,
         Collects, Typing, journal, history
<1> QED
  BY <1>1, <1>2, <1>3, Goes, QuietStep DEF ObserveTurn, history, Inv, Shapes

LEMMA ExecuteStopKeeps ==
    ASSUME Inv, NEW h \in Hosts, ExecuteStop(h)
    PROVE  Inv'
<1>1. Shapes /\ host[h].act \in StopIds
  BY HostsType DEF ExecuteStop, At, CallHolds, Names, StopSteps, Inv
<1>2. stops' \in [StopIds -> Nat]
  <2>1. stops \in [StopIds -> Nat] /\ stops[host[h].act] + 1 \in Nat
    BY <1>1 DEF Shapes
  <2> QED
    BY <2>1 DEF ExecuteStop, Act
<1>3. PICK ends \in BOOLEAN : page' = [page EXCEPT !.generating = @ /\ ~ends]
  BY DEF ExecuteStop
<1>4. page' = [turns |-> page.turns, generating |-> page.generating /\ ~ends]
  BY <1>1, <1>3, PageShape
<1>5. page' \in Pages /\ page'.turns = page.turns /\ (page'.generating => page.generating)
  BY <1>1, <1>4, PageShape DEF Pages
<1>6. Quiet
  BY <1>2, <1>5, Unmoved DEF ExecuteStop, journal
<1>7. Go(h, "settleStop") /\ "settleStop" \in Steps
  BY DEF ExecuteStop, Steps
<1>8. Lands(h)
  BY <1>1, <1>6, <1>7, Goes, HostsType
     DEF ExecuteStop, At, Act, Lands, CallHolds, Names, StopSteps, SteerSteps, Steering, Verified,
         Reports, Collects, Typing
<1> QED
  BY <1>1, <1>6, <1>7, <1>8, Goes, QuietStep DEF ExecuteStop, Inv, Shapes

LEMMA SettleStopKeeps ==
    ASSUME Inv, NEW h \in Hosts, SettleStop(h)
    PROVE  Inv'
<1>1. Quiet /\ Shapes
  BY Unmoved DEF SettleStop, journal, history, Inv, Shapes
<1>2. PICK o \in Outcomes : /\ o = "satisfied" => ~Answering(expects[Act(h)])
                           /\ GoWith(h, "receipt", o)
  BY DEF SettleStop
<1>3. "receipt" \in Steps
  BY DEF Steps
<1>4. /\ host' \in [Hosts -> Calls] /\ \A g \in Hosts : g # h => host'[g] = host[g]
      /\ host'[h].pc = "receipt" /\ host'[h].act = host[h].act /\ host'[h].out = o
  BY <1>1, <1>2, <1>3, GoesWith
<1>5. host[h].act \in StopIds /\ expects[host[h].act] # "none"
  BY HostsType DEF SettleStop, At, CallHolds, Names, StopSteps
<1>6. (host[h].out = "satisfied" => ~Answering(expects[host[h].act]))'
  BY <1>2, <1>4 DEF SettleStop, Act, Answering, LastTurn
<1>7. Lands(h)
  <2>1. host'[h].act \notin SteerIds /\ host'[h].act \in StopIds /\ host'[h].act \in ControlIds
    BY <1>4, <1>5, IdsAreDistinct
  <2>2. Names(host[h])' /\ Steering(host[h])' /\ Verified(host[h])' /\ Collects(host[h])'
    BY <2>1, <1>4, <1>5
       DEF SettleStop, Names, StopSteps, SteerSteps, Steering, Verified, Collects
  <2>3. Reports(host[h])'
    BY <2>1, <1>4, <1>6 DEF Reports, Outcomes
  <2> QED
    BY <2>1, <2>2, <2>3, <1>4 DEF Lands, CallHolds, Typing
<1> QED
  BY <1>1, <1>4, <1>7, QuietStep DEF SettleStop, history, Inv, Shapes

---------------------------------------------------------------------------
(* Work steer, as far as the ledger and the page stay *)

LEMMA PrepareSteerKeeps ==
    ASSUME Inv, NEW h \in Hosts, PrepareSteer(h)
    PROVE  Inv'
<1>1. Quiet /\ Shapes
  BY Unmoved DEF PrepareSteer, journal, history, Inv, Shapes
<1>2. Len(page.turns) \in DOMAIN page.turns /\ Len(page.turns) \in Nat
  BY <1>1, PageShape DEF Inv, Conversation
<1>3. host' = [host EXCEPT ![h].pc = "persist", ![h].prep = Len(page.turns)]
  BY DEF PrepareSteer
<1>4. /\ host' \in [Hosts -> Calls] /\ \A g \in Hosts : g # h => host'[g] = host[g]
      /\ host'[h].pc = "persist" /\ host'[h].act = host[h].act /\ host'[h].prep = Len(page.turns)
  <2> DEFINE n == Len(page.turns)
             k == [host[h] EXCEPT !.pc = "persist", !.prep = n]
  <2>1. n \in Nat /\ host' = [host EXCEPT ![h] = k]
    BY <1>2, <1>3
  <2> HIDE DEF n
  <2>2. k \in Calls /\ k.pc = "persist" /\ k.act = host[h].act /\ k.prep = n
    BY <2>1, HostsType DEF Calls, Steps
  <2> HIDE DEF k
  <2> QED
    BY <2>1, <2>2, HostsType DEF n
<1>5. Lands(h)
  BY <1>2, <1>4, HostsType
     DEF PrepareSteer, At, Lands, CallHolds, Names, StopSteps, SteerSteps, Steering, Verified,
         Reports, Collects, Typing
<1> QED
  BY <1>1, <1>4, <1>5, QuietStep DEF PrepareSteer, history, Inv, Shapes

\* Nothing is settled while the page still answers a turn of the operation.
LEMMA AnsweringIsUnsettled ==
    ASSUME Inv, NEW c \in ControlIds, expects[c] # "none", Answering(expects[c]), Uncredited
    PROVE  \A t : ~Settled(t)
<1> SUFFICES ASSUME NEW t, Settled(t) PROVE FALSE
  OBVIOUS
<1>1. PICK a \in Causes : expects[c] = Witness(a)
  BY DEF Inv, Conversation
<1>2. Witness(a) \notin HumanTurns
  BY <1>1, IdsAreDistinct DEF Uncredited, Causes, Inv, Ledger
<1>3. page.generating /\ LastTurn \notin HumanTurns
  BY <1>1, <1>2 DEF Answering
<1>4. Len(page.turns) \in DOMAIN page.turns
  BY PageShape DEF Inv, Conversation
<1>5. PICK p \in DOMAIN page.turns :
          /\ Len(page.turns) = p => ~page.generating
          /\ \A i \in DOMAIN page.turns : i > p => page.turns[i] \in HumanTurns
  BY DEF Settled
<1>6. p = Len(page.turns)
  BY <1>3, <1>4, <1>5, PageShape DEF LastTurn, Inv
<1> QED
  BY <1>3, <1>5, <1>6

LEMMA RecheckSteerKeeps ==
    ASSUME Inv, NEW h \in Hosts, RecheckSteer(h)
    PROVE  Inv'
<1> DEFINE c == host[h].act
<1>1. Quiet /\ Shapes /\ Ledger /\ Conversation /\ Fenced
  BY Unmoved DEF RecheckSteer, journal, history, Inv, Shapes
<1>2. /\ host[h].pc = "execute" /\ c \in SteerIds /\ c \in ControlIds /\ c \in ActionIds
      /\ expects[c] # "none" /\ s.actions[c].kind = "work_steer" /\ host[h].prep = base[c]
  BY HostsType, IdsAreDistinct DEF RecheckSteer, At, CallHolds, Names, SteerSteps, Steering
<1>3. Typing(host[h], c)
  BY <1>2 DEF Typing
<1>4. "receipt" \in Steps /\ "click" \in Steps /\ "verify" \in Steps /\ "not_satisfied" \in Outcomes
  BY DEF Steps, Outcomes
<1>5. CASE GoWith(h, "receipt", "not_satisfied")
  <2>1. /\ host' \in [Hosts -> Calls] /\ \A g \in Hosts : g # h => host'[g] = host[g]
        /\ host'[h].pc = "receipt" /\ host'[h].act = c /\ host'[h].out = "not_satisfied"
    BY <1>1, <1>4, <1>5, GoesWith
  <2>2. Lands(h)
    BY <1>1, <1>2, <1>3, <2>1
       DEF RecheckSteer, Lands, CallHolds, Names, StopSteps, SteerSteps, Steering, Verified,
           Reports, Collects, Typing, journal, history
  <2> QED
    BY <1>1, <2>1, <2>2, QuietStep DEF RecheckSteer, history, Shapes
<1>6. CASE Answering(expects[Act(h)]) /\ Len(page.turns) = host[h].prep /\ Go(h, "click")
  <2>1. /\ host' \in [Hosts -> Calls] /\ \A g \in Hosts : g # h => host'[g] = host[g]
        /\ host'[h].pc = "click" /\ host'[h].act = c /\ host'[h].prep = host[h].prep
    BY <1>1, <1>4, <1>6, Goes
  <2>2. CallHolds(host[h])'
    BY <1>1, <1>2, <2>1
       DEF RecheckSteer, CallHolds, Names, StopSteps, SteerSteps, Steering, Verified,
           Reports, Collects, journal, history
  <2>3. Len(page.turns) = base[c] /\ \A i \in DOMAIN page.turns : ~(i > base[c])
    BY <1>1, <1>2, <1>6, PageShape
  <2>4. Witness(c) = "none"
    <3>1. Witness(c) # "none" => base[c] + 1 \in DOMAIN page.turns
      BY <1>1, <1>2 DEF Conversation
    <3>2. base[c] + 1 > base[c]
      BY <1>1, <1>2 DEF Shapes
    <3> QED
      BY <3>1, <3>2, <2>3
  <2>5. Outcome(c) = "open"
    <3>1. Outcome(c) \in Outcomes \cup {"open"}
      BY <1>1, <1>2, LedgerShape DEF Shapes, Outcome
    <3>2. Outcome(c) # "not_satisfied"
      BY <1>1, <1>2, <1>3 DEF Fenced
    <3> QED
      BY <1>1, <1>2, <2>4, <3>1, <3>2 DEF Ledger, Outcomes
  <2>6. Uncredited => \A t : ~Settled(t)
    BY <1>2, <1>6, AnsweringIsUnsettled DEF Act
  <2>7. Lands(h)
    BY <1>3, <2>1, <2>2, <2>3, <2>4, <2>5, <2>6 DEF Lands, Typing
  <2> QED
    BY <1>1, <2>1, <2>7, QuietStep DEF RecheckSteer, history, Shapes
<1>7. CASE Go(h, "verify")
  <2>1. /\ host' \in [Hosts -> Calls] /\ \A g \in Hosts : g # h => host'[g] = host[g]
        /\ host'[h].pc = "verify" /\ host'[h].act = c
    BY <1>1, <1>4, <1>7, Goes
  <2>2. Lands(h)
    BY <1>1, <1>2, <2>1
       DEF RecheckSteer, Lands, CallHolds, Names, StopSteps, SteerSteps, Steering, Verified,
           Reports, Collects, Typing, journal, history
  <2> QED
    BY <1>1, <2>1, <2>2, QuietStep DEF RecheckSteer, history, Shapes
<1> QED
  BY <1>5, <1>6, <1>7 DEF RecheckSteer

LEMMA VerifySteerKeeps ==
    ASSUME Inv, NEW h \in Hosts, VerifySteer(h)
    PROVE  Inv'
<1> DEFINE c == host[h].act
<1>1. Quiet /\ Shapes /\ Ledger /\ Conversation
  BY Unmoved DEF VerifySteer, journal, history, Inv, Shapes
<1>2. /\ c \in SteerIds /\ c # SendId /\ expects[c] # "none" /\ s.actions[c].kind = "work_steer"
  BY HostsType, IdsAreDistinct DEF VerifySteer, At, CallHolds, Names, SteerSteps, Steering
<1>3. "witness" \in Steps /\ "satisfied" \in Outcomes
  BY DEF Steps, Outcomes
<1>4. /\ host' \in [Hosts -> Calls] /\ \A g \in Hosts : g # h => host'[g] = host[g]
      /\ host'[h].pc = "witness" /\ host'[h].act = c /\ host'[h].out = "satisfied"
  BY <1>1, <1>3, GoesWith DEF VerifySteer
<1>5. base[c] + 1 \in DOMAIN page.turns /\ Len(page.turns) = base[c] + 1
  BY <1>1, <1>2, PageShape DEF VerifySteer, OneTurnAfter, Baseline, Act, Shapes
<1>6. \A d \in Steers : Witness(d) # "none" => base[d] <= base[c]
  <2> SUFFICES ASSUME NEW d \in Steers, Witness(d) # "none" PROVE base[d] <= base[c]
    OBVIOUS
  <2>1. d \in SteerIds
    BY <1>1, SteersAreSteerIds
  <2>2. base[d] + 1 \in DOMAIN page.turns /\ base[d] \in Nat /\ base[c] \in Nat
    BY <1>1, <1>2, <2>1 DEF Conversation, Shapes
  <2> QED
    BY <1>1, <1>5, <2>2, PageShape
<1>7. Verified(host[h])'
  BY <1>4, <1>5, <1>6 DEF VerifySteer, journal, Verified, Steers, OfKind, Witness
<1>8. Lands(h)
  BY <1>1, <1>2, <1>4, <1>7
     DEF VerifySteer, Lands, CallHolds, Names, StopSteps, SteerSteps, Steering,
         Reports, Collects, Typing, journal, history
<1> QED
  BY <1>1, <1>4, <1>8, QuietStep DEF VerifySteer, history, Shapes

---------------------------------------------------------------------------
(* Collection *)

\* A set of positions that is not empty has a greatest one.
LEMMA MaxIsGreatest ==
    ASSUME NEW n \in Nat, NEW S \in SUBSET (1 .. n), S # {}
    PROVE  Max(S) \in S /\ \A i \in S : i <= Max(S)
<1> DEFINE Less == OpToRel(<, Nat)
           T == {n - i : i \in S}
<1>1. IsWellFoundedOn(Less, Nat)
  BY NatLessThanWellFounded
<1>2. \A l, m \in Nat : <<m, l>> \in Less <=> m < l
  BY DEF OpToRel
<1>3. T \subseteq Nat /\ T # {}
  <2>1. \A i \in S : n - i \in Nat
    OBVIOUS
  <2>2. PICK i \in S : TRUE
    OBVIOUS
  <2>3. n - i \in T
    OBVIOUS
  <2>4. T \subseteq Nat
    BY <2>1
  <2> HIDE DEF T
  <2> QED
    BY <2>3, <2>4, Zenon
<1> HIDE DEF Less
<1>4. PICK l \in T : \A m \in T : ~(<<m, l>> \in Less)
  <2> HIDE DEF T
  <2> QED
    BY <1>1, <1>3, WFMin
<1>5. PICK k \in S : l = n - k
  OBVIOUS
<1>6. \A i \in S : i <= k
  <2> SUFFICES ASSUME NEW i \in S PROVE i <= k
    OBVIOUS
  <2>1. n - i \in T /\ n - i \in Nat /\ n - k \in Nat
    BY <1>3, <1>5
  <2>2. ~(n - i < n - k)
    BY <2>1, <1>2, <1>4, <1>5
  <2> QED
    BY <2>1, <2>2
<1>7. \E x \in S : \A y \in S : x >= y
  BY <1>6
<1>8. Max(S) \in S /\ \A y \in S : Max(S) >= y
  <2>1. Max(S) = CHOOSE x \in S : \A y \in S : x >= y
    BY DEF Max
  <2> QED
    BY <1>7, <2>1
<1>9. \A y \in S : Max(S) >= y => y <= Max(S)
  BY <1>8
<1> QED
  BY <1>8, <1>9

\* The owner of the operation is the last candidate of the ledger.
LEMMA OwnerIsLast ==
    ASSUME Inv
    PROVE  \E m \in DOMAIN ranked :
              /\ LatestOwner = ranked[m] /\ LatestOwner \in Causes
              /\ s.actions[LatestOwner].kind # "absent"
              /\ Outcome(LatestOwner) \notin {"not_satisfied", "uncertain"}
              /\ \A k \in DOMAIN ranked :
                    Outcome(ranked[k]) \notin {"not_satisfied", "uncertain"} => k <= m
<1>1. /\ ranked \in Seq(Causes) /\ Len(ranked) \in Nat /\ DOMAIN ranked = 1 .. Len(ranked)
      /\ \A i \in DOMAIN ranked : ranked[i] \in Causes
  BY DEF Inv, Ranking
<1>2. Candidates \in SUBSET (1 .. Len(ranked))
  BY <1>1 DEF Candidates
<1>3. Candidates # {}
  <2>1. s.actions[SendId].kind # "absent" /\ Outcome(SendId) = "satisfied" /\ SendId \in Causes
    BY DEF Inv, Ledger, Causes
  <2>2. PICK i \in DOMAIN ranked : ranked[i] = SendId
    BY <2>1 DEF Inv, Ranking
  <2>3. i \in Candidates
    BY <2>1, <2>2 DEF Candidates
  <2> QED
    BY <2>3
<1>4. Max(Candidates) \in Candidates /\ \A i \in Candidates : i <= Max(Candidates)
  BY <1>1, <1>2, <1>3, MaxIsGreatest
<1> QED
  BY <1>1, <1>4 DEF Candidates, LatestOwner, Inv, Ranking

LEMMA CollectReadKeeps ==
    ASSUME Inv, NEW h \in Hosts, CollectRead(h)
    PROVE  Inv'
<1>1. Quiet /\ Shapes
  BY Unmoved DEF CollectRead, journal, history, Inv, Shapes
<1>2. LatestOwner \in Causes /\ s.actions[LatestOwner].kind # "absent"
  BY OwnerIsLast
<1>3. host' = [host EXCEPT ![h].pc = "observe", ![h].act = LatestOwner]
  BY DEF CollectRead
<1>4. /\ host' \in [Hosts -> Calls] /\ \A g \in Hosts : g # h => host'[g] = host[g]
      /\ host'[h].pc = "observe" /\ host'[h].act = LatestOwner
  BY <1>2, <1>3, HostsType, IdsAreDistinct DEF Calls, Steps
<1>5. Lands(h)
  BY <1>1, <1>2, <1>4
     DEF Lands, CallHolds, Names, StopSteps, SteerSteps, Steering, Verified, Reports, Collects,
         Typing, CollectRead, journal, history
<1> QED
  BY <1>1, <1>4, <1>5, QuietStep DEF CollectRead, history, Shapes

LEMMA CollectObserveKeeps ==
    ASSUME Inv, NEW h \in Hosts, CollectObserve(h)
    PROVE  Inv'
<1> DEFINE c == host[h].act
<1>1. Quiet /\ Shapes
  BY Unmoved DEF CollectObserve, journal, history, Inv, Shapes
<1>2. c \in Causes /\ s.actions[c].kind # "absent"
  BY HostsType DEF CollectObserve, At, CallHolds, Collects
<1>3. /\ Len(page.turns) \in DOMAIN page.turns /\ Len(page.turns) = Baseline(c) + 1
      /\ LastTurn = page.turns[Baseline(c) + 1] /\ LastTurn \in Turns /\ ~page.generating
  <2>1. Len(page.turns) \in DOMAIN page.turns
    BY <1>1, PageShape DEF Inv, Conversation
  <2> QED
    BY <1>1, <2>1, PageShape, IdsAreDistinct DEF CollectObserve, OneTurnAfter, Act, LastTurn
<1>4. host' = [host EXCEPT ![h].pc = "terminal", ![h].seen = LastTurn]
  BY DEF CollectObserve
<1>5. /\ host' \in [Hosts -> Calls] /\ \A g \in Hosts : g # h => host'[g] = host[g]
      /\ host'[h].pc = "terminal" /\ host'[h].act = c /\ host'[h].seen = LastTurn
  <2> DEFINE k == [host[h] EXCEPT !.pc = "terminal", !.seen = LastTurn]
  <2>1. host' = [host EXCEPT ![h] = k]
    BY <1>4
  <2>2. k \in Calls /\ k.pc = "terminal" /\ k.act = c /\ k.seen = LastTurn
    BY <1>3, HostsType DEF Calls, Steps
  <2> HIDE DEF k
  <2> QED
    BY <2>1, <2>2, HostsType
<1>6. Collects(host[h])'
  BY <1>2, <1>3, <1>5 DEF CollectObserve, journal, Collects, Baseline
<1>7. Lands(h)
  BY <1>5, <1>6
     DEF Lands, CallHolds, Names, StopSteps, SteerSteps, Steering, Verified, Reports, Typing
<1> QED
  BY <1>1, <1>5, <1>7, QuietStep DEF CollectObserve, history, Shapes

\* When the ownership is known and c is the last owner, every turn after c's own one
\* was typed by the user.
LEMMA OwnedTurnIsLast ==
    ASSUME Inv, Uncredited, OwnershipKnown, Baseline(LatestOwner) + 1 \in DOMAIN page.turns,
           NEW i \in DOMAIN page.turns, i > Baseline(LatestOwner) + 1
    PROVE  page.turns[i] \in HumanTurns
<1> DEFINE c == LatestOwner
<1> USE DEF Inv
<1>1. Shapes /\ Ledger /\ Conversation /\ Fenced /\ Alone /\ Ranking
  OBVIOUS
<1>2. PICK m \in DOMAIN ranked :
          /\ c = ranked[m] /\ c \in Causes /\ s.actions[c].kind # "absent"
          /\ Outcome(c) \notin {"not_satisfied", "uncertain"}
          /\ \A k \in DOMAIN ranked :
                Outcome(ranked[k]) \notin {"not_satisfied", "uncertain"} => k <= m
  BY OwnerIsLast
<1>3. Baseline(c) \in Nat
  BY <1>1, <1>2 DEF Shapes, Baseline, Causes
<1> HIDE DEF c
<1>4. SUFFICES ASSUME page.turns[i] \notin HumanTurns PROVE FALSE
  OBVIOUS
<1>5. page.turns[i] \in Causes
  BY <1>1, <1>4, PageShape
<1>6. CASE page.turns[i] = SendId
  <2>1. 1 \in DOMAIN page.turns /\ page.turns[1] = SendId
    BY <1>1, PageShape DEF Conversation
  <2>2. i = 1
    BY <1>1, <1>6, <2>1 DEF Conversation
  <2> QED
    BY <1>3, <2>2 DEF c
<1>7. CASE page.turns[i] \in SteerIds
  <2> DEFINE d == page.turns[i]
  <2>1. d \in InPage /\ d \in SteerIds /\ d \in Causes /\ d # SendId
    BY <1>7, IdsAreDistinct DEF InPage, Causes
  <2>2. s.actions[d].kind = "work_steer" /\ Outcome(d) # "not_satisfied" /\ i > base[d]
    BY <1>1, <2>1 DEF Fenced
  <2>3. d \in Steers
    BY <1>1, <2>1, <2>2, SteersAreSteerIds
  <2>4. Witness(d) # "none" /\ Outcome(d) # "uncertain"
    BY <1>1, <2>1, <2>2, <2>3 DEF OwnershipKnown, Witness, Ledger
  <2>5. /\ base[d] + 1 \in DOMAIN page.turns /\ page.turns[base[d] + 1] = Witness(d)
        /\ Witness(d) \notin HumanTurns /\ base[d] \in Nat
    BY <1>1, <2>1, <2>4 DEF Conversation, Uncredited, Shapes
  <2>6. ~(base[d] + 1 < i)
    <3>1. base[d] < base[d] + 1
      BY <2>5
    <3> QED
      BY <1>1, <2>1, <2>5, <3>1 DEF Alone
  <2>7. i = base[d] + 1
    BY <1>1, <2>2, <2>5, <2>6, PageShape
  <2>8. Baseline(c) < Baseline(d)
    BY <1>3, <2>1, <2>5, <2>7 DEF Baseline, c
  <2>9. PICK k \in DOMAIN ranked : ranked[k] = d
    BY <1>1, <2>1, <2>2 DEF Ranking
  <2>10. Witness(c) # "none"
    <3>1. CASE c = SendId
      BY <1>1, <3>1, IdsAreDistinct DEF Ledger
    <3>2. CASE c \in SteerIds
      <4>1. c \in Steers
        BY <1>1, <1>2, <3>2, SteersAreSteerIds DEF Ledger
      <4> QED
        BY <1>2, <4>1 DEF OwnershipKnown, Witness
    <3> QED
      BY <1>2, <3>1, <3>2 DEF Causes
  <2>11. m < k
    BY <1>1, <1>2, <2>4, <2>8, <2>9, <2>10 DEF Ranking
  <2>12. k <= m
    BY <1>2, <2>2, <2>4, <2>9
  <2>13. m \in Nat /\ k \in Nat
    BY <1>1 DEF Ranking
  <2> QED
    BY <2>11, <2>12, <2>13
<1> QED
  BY <1>5, <1>6, <1>7 DEF Causes

LEMMA PersistTerminalKeeps ==
    ASSUME Inv, NEW h \in Hosts, PersistTerminal(h)
    PROVE  Inv'
<1> DEFINE c == host[h].act
<1>1. Quiet /\ Shapes /\ Ledger /\ Fenced
  BY Unmoved DEF PersistTerminal, journal, history, Inv, Shapes
<1>2. "capture" \in Steps
  BY DEF Steps
<1>3. /\ host' \in [Hosts -> Calls] /\ \A g \in Hosts : g # h => host'[g] = host[g]
      /\ host'[h].pc = "capture" /\ host'[h].act = c /\ host'[h].seen = host[h].seen
  BY <1>1, <1>2, Goes DEF PersistTerminal
<1>4. /\ Baseline(c) + 1 \in DOMAIN page.turns
      /\ host[h].seen = page.turns[Baseline(c) + 1]
      /\ Len(page.turns) = Baseline(c) + 1 => ~page.generating
  BY HostsType DEF PersistTerminal, At, CallHolds, Collects
<1>5. OwnershipKnown /\ LatestOwner = c
  BY DEF PersistTerminal, Act
<1>6. ASSUME Uncredited PROVE Settled(host[h].seen)
  <2>1. Alone
    BY <1>6 DEF Inv
  <2>2. \A g \in Hosts : ~At(g, "click")
    <3> SUFFICES ASSUME NEW g \in Hosts, At(g, "click") PROVE FALSE
      OBVIOUS
    <3>1. Act(g) \in SteerIds /\ s.actions[Act(g)].kind = "work_steer"
      BY HostsType DEF At, Act, CallHolds, Names, Steering, SteerSteps
    <3>2. Act(g) \in Steers
      BY <1>1, <3>1, SteersAreSteerIds
    <3> QED
      BY <1>5, <2>1, <3>2 DEF Alone, OwnershipKnown, Witness
  <2>3. \A d \in SteerIds : d \in InPage => Witness(d) # "none"
    <3> SUFFICES ASSUME NEW d \in SteerIds, d \in InPage PROVE Witness(d) # "none"
      OBVIOUS
    <3>1. d \in Steers /\ Outcome(d) # "not_satisfied"
      BY <1>1, SteersAreSteerIds DEF Fenced
    <3> QED
      BY <1>5, <3>1 DEF OwnershipKnown, Witness
  <2>4. \A i \in DOMAIN page.turns : i > Baseline(c) + 1 => page.turns[i] \in HumanTurns
    BY <1>4, <1>5, <1>6, OwnedTurnIsLast
  <2> QED
    BY <1>4, <2>2, <2>3, <2>4 DEF Settled
<1>7. Lands(h)
  BY <1>3, <1>6
     DEF Lands, CallHolds, Names, StopSteps, SteerSteps, Steering, Verified, Reports, Collects,
         Typing
<1> QED
  BY <1>1, <1>3, <1>7, QuietStep DEF PersistTerminal, history, Shapes

LEMMA AdvanceToCapturingKeeps ==
    ASSUME Inv, NEW h \in Hosts, AdvanceToCapturing(h)
    PROVE  Inv'
<1>1. Shapes /\ "complete" \in Steps
  BY DEF Inv, Steps
<1>2. Quiet
  <2>1. CASE s' = s
    BY <1>1, <2>1, Unmoved DEF AdvanceToCapturing, history, Shapes
  <2>2. CASE s' = PhaseChange(s, "capturing")
    <3>1. /\ s' \in OperationStates
          /\ s'.actions = s.actions /\ s'.witnesses = s.witnesses
          /\ s'.lifecycle = s.lifecycle /\ s'.binding = s.binding
          /\ s'.establishedTurn = s.establishedTurn
      BY <1>1, <2>2 DEF PhaseChange, OperationStates, Phases, Shapes
    <3> QED
      BY <1>1, <3>1 DEF AdvanceToCapturing, history, Quiet, Shapes, Inv, Ledger, Outcome
  <2> QED
    BY <2>1, <2>2 DEF AdvanceToCapturing
<1>3. /\ host' \in [Hosts -> Calls] /\ \A g \in Hosts : g # h => host'[g] = host[g]
      /\ host'[h].pc = "complete" /\ host'[h].act = host[h].act /\ host'[h].seen = host[h].seen
  BY <1>1, Goes DEF AdvanceToCapturing
<1>4. Uncredited => Settled(host[h].seen)
  BY DEF AdvanceToCapturing, Inv, Current, At
<1>5. Lands(h)
  BY <1>3, <1>4
     DEF Lands, CallHolds, Names, StopSteps, SteerSteps, Steering, Verified, Reports, Collects,
         Typing
<1> QED
  BY <1>1, <1>2, <1>3, <1>5, QuietStep DEF AdvanceToCapturing, history, Shapes

LEMMA CompleteReceiptKeeps ==
    ASSUME Inv, NEW h \in Hosts, CompleteReceipt(h)
    PROVE  Inv'
<1>1. Shapes
  BY DEF Inv
<1>2. Quiet
  <2>1. /\ s' \in OperationStates
        /\ s'.actions = s.actions /\ s'.witnesses = s.witnesses
        /\ s'.lifecycle = s.lifecycle /\ s'.binding = s.binding
        /\ s'.establishedTurn = s.establishedTurn
    <3>1. /\ s \in OperationStates
          /\ s' = [s EXCEPT !.phase = "completed", !.receipt = "available", !.delivered = {}]
      BY <1>1 DEF CompleteReceipt, ReceiptCompleted, Shapes
    <3>2. PICK p \in Phases, r \in {"none", "available", "withheld"},
               items \in SUBSET (Artifacts \X TransferResults) :
                  p = "completed" /\ r = "available" /\ items = {}
      BY DEF Phases
    <3> DEFINE moved == [s EXCEPT !.phase = p]
               given == [moved EXCEPT !.receipt = r]
    <3>3. s' = [given EXCEPT !.delivered = items]
      BY <3>1, <3>2
    <3>4. /\ moved \in OperationStates /\ moved.actions = s.actions
          /\ moved.witnesses = s.witnesses /\ moved.lifecycle = s.lifecycle
          /\ moved.binding = s.binding /\ moved.establishedTurn = s.establishedTurn
      BY <3>1 DEF OperationStates
    <3> HIDE DEF moved
    <3>5. /\ given \in OperationStates /\ given.actions = moved.actions
          /\ given.witnesses = moved.witnesses /\ given.lifecycle = moved.lifecycle
          /\ given.binding = moved.binding /\ given.establishedTurn = moved.establishedTurn
      BY <3>4 DEF OperationStates
    <3> HIDE DEF given
    <3> QED
      BY <3>3, <3>4, <3>5 DEF OperationStates
  <2> QED
    BY <1>1, <2>1 DEF CompleteReceipt, Quiet, Shapes, Inv, Ledger, Outcome
<1>3. /\ host' \in [Hosts -> Calls] /\ \A g \in Hosts : g # h => host'[g] = host[g]
      /\ Lands(h)
  BY <1>1, Returns DEF CompleteReceipt
<1>4. answer' = host[h].seen /\ host[h].seen \in Turns \cup {"none"}
  BY HostsType DEF CompleteReceipt, Calls
<1>5. Uncredited => Settled(answer')
  BY <1>4 DEF CompleteReceipt, Inv, Current, At, Settled
<1> QED
  BY <1>2, <1>3, <1>4, <1>5, QuietStep

---------------------------------------------------------------------------
(* The world, as far as the turns stay *)

LEMMA EndKeeps ==
    ASSUME Inv, NEW h \in Hosts, End(h)
    PROVE  Inv'
<1>1. Quiet /\ Shapes
  BY Unmoved DEF End, journal, history, Inv, Shapes
<1>2. /\ host' \in [Hosts -> Calls] /\ \A g \in Hosts : g # h => host'[g] = host[g]
      /\ Lands(h)
  BY <1>1, Returns DEF End
<1> QED
  BY <1>1, <1>2, QuietStep DEF End, history, Shapes

LEMMA AnswerEndsKeeps ==
    ASSUME Inv, AnswerEnds
    PROVE  Inv'
<1>1. Shapes
  BY DEF Inv
<1>2. page' = [turns |-> page.turns, generating |-> FALSE]
  BY <1>1, PageShape DEF AnswerEnds
<1>3. page' \in Pages /\ page'.turns = page.turns /\ ~page'.generating
  BY <1>1, <1>2, PageShape DEF Pages
<1>4. Quiet
  BY <1>1, <1>3, Unmoved DEF AnswerEnds, journal, history, Shapes
<1> QED
  BY <1>1, <1>4, QuietStep DEF AnswerEnds, history, Shapes

LEMMA CurrentStays ==
    ASSUME Current, answer' = answer,
           \A h \in Hosts : host'[h] = host[h] \/ host'[h].pc \notin {"capture", "complete"},
           \A t : Settled(t) => Settled(t)'
    PROVE  Current'
<1>1. ASSUME NEW h \in Hosts, (At(h, "capture") \/ At(h, "complete"))'
      PROVE  Settled(host[h].seen)'
  <2>1. host'[h] = host[h] /\ Settled(host[h].seen)
    BY <1>1 DEF At, Current
  <2>2. ASSUME NEW t, Settled(t), t = host[h].seen PROVE Settled(host[h].seen)'
    <3>1. Settled(t)'
      BY <2>2
    <3> QED
      BY <2>1, <2>2, <3>1 DEF Settled
  <2> QED
    BY <2>1, <2>2
<1>2. ASSUME answer # "none" PROVE Settled(answer)'
  <2>1. Settled(answer)
    BY <1>2 DEF Current
  <2>2. ASSUME NEW t, Settled(t), t = answer PROVE Settled(answer)'
    <3>1. Settled(t)'
      BY <2>2
    <3> QED
      BY <2>2, <3>1 DEF Settled
  <2> QED
    BY <2>1, <2>2
<1> QED
  BY <1>1, <1>2 DEF Current

---------------------------------------------------------------------------
(***************************************************************************)
(* A new turn t: the message of a steer or of the user.                    *)
(***************************************************************************)
Grows(t) ==
    /\ page' = [turns |-> Append(page.turns, t), generating |-> TRUE]
    /\ s' = s /\ ranked' = ranked /\ base' = base /\ expects' = expects
    /\ stops' = stops /\ answer' = answer

LEMMA GrownPage ==
    ASSUME Shapes, NEW t \in Causes \cup HumanTurns, Grows(t)
    PROVE  /\ page' \in Pages /\ page'.generating
           /\ Len(page'.turns) = Len(page.turns) + 1 /\ Len(page.turns) \in Nat
           /\ DOMAIN page'.turns = 1 .. Len(page.turns) + 1
           /\ DOMAIN page.turns = 1 .. Len(page.turns)
           /\ page'.turns[Len(page.turns) + 1] = t
           /\ \A i \in DOMAIN page.turns : page'.turns[i] = page.turns[i]
           /\ LastTurn' = t
           /\ InPage' = InPage \cup {t}
<1>1. /\ page.turns \in Seq(Causes \cup HumanTurns) /\ Len(page.turns) \in Nat
      /\ DOMAIN page.turns = 1 .. Len(page.turns)
  BY PageShape
<1>2. page'.turns = Append(page.turns, t) /\ page'.generating
  BY DEF Grows
<1>3. /\ Append(page.turns, t) \in Seq(Causes \cup HumanTurns)
      /\ Len(Append(page.turns, t)) = Len(page.turns) + 1
      /\ \A i \in 1 .. Len(page.turns) : Append(page.turns, t)[i] = page.turns[i]
      /\ Append(page.turns, t)[Len(page.turns) + 1] = t
      /\ DOMAIN Append(page.turns, t) = 1 .. Len(page.turns) + 1
  BY <1>1
<1>4. page' \in Pages
  BY <1>3 DEF Grows, Pages
<1>5. InPage' = InPage \cup {t}
  BY <1>1, <1>2, <1>3 DEF InPage
<1> QED
  BY <1>1, <1>2, <1>3, <1>4, <1>5 DEF LastTurn

\* What another turn leaves true whoever made it.
LEMMA GrowsCommon ==
    ASSUME Inv, NEW t \in Causes \cup HumanTurns, t \notin InPage, Grows(t),
           host' \in [Hosts -> Calls]
    PROVE  /\ Shapes' /\ Ledger' /\ Conversation' /\ Ranking' /\ OneUnresolvedSteer'
           /\ StopReportsAreTrue'
           /\ \A k \in Calls : CallHolds(k) => CallHolds(k)'
<1> USE DEF Inv
<1>1. Shapes' /\ Ledger' /\ Ranking' /\ OneUnresolvedSteer'
  <2>1. Shapes'
    BY GrownPage DEF Grows, Shapes
  <2>2. Ledger'
    BY DEF Grows, Ledger, Outcome, Witness
  <2>3. Ranking'
    BY DEF Grows, Ranking, Outcome, Witness, Steers, OfKind, Unresolved, Baseline
  <2>4. OneUnresolvedSteer'
    BY DEF Grows, OneUnresolvedSteer, Outcome, Steers, OfKind, Unresolved
  <2> QED
    BY <2>1, <2>2, <2>3, <2>4
<1>2. Conversation'
  <2>1. page'.turns # <<>> /\ page'.turns[1] = SendId
    BY GrownPage DEF Conversation
  <2>2. \A i \in DOMAIN page.turns : page.turns[i] # t
    BY DEF InPage
  <2>3. (\A i, j \in DOMAIN page.turns : page.turns[i] = page.turns[j] => i = j)'
    BY <2>2, GrownPage DEF Conversation
  <2>4. (\A c \in Steers : base[c] \in DOMAIN page.turns)'
    BY GrownPage DEF Conversation, Grows, Steers, OfKind
  <2>5. (\A c \in SteerIds : Witness(c) # "none" =>
            base[c] + 1 \in DOMAIN page.turns /\ page.turns[base[c] + 1] = Witness(c))'
    BY GrownPage DEF Conversation, Grows, Witness
  <2> QED
    BY <2>1, <2>3, <2>4, <2>5 DEF Conversation, Grows, Witness
<1>3. \A c \in ControlIds : ~Answering(expects[c])'
  <2>1. \A c \in ControlIds : expects[c] # t
    BY RequestsAreInPage, IdsAreDistinct
  <2> QED
    BY <2>1, GrownPage DEF Answering, Grows
<1>4. StopReportsAreTrue'
  BY <1>3 DEF StopReportsAreTrue, ControlIds
<1>5. ASSUME NEW k \in Calls, CallHolds(k) PROVE CallHolds(k)'
  <2>1. Names(k)' /\ Steering(k)'
    BY <1>5, GrownPage DEF CallHolds, Names, Steering, Grows
  <2>2. Verified(k)'
    BY <1>5, GrownPage DEF CallHolds, Verified, Grows, Outcome, Witness, Steers, OfKind
  <2>3. Reports(k)'
    BY <1>3, <1>5 DEF CallHolds, Reports, Grows, Witness, ControlIds
  <2>4. Collects(k)'
    BY <1>5, GrownPage DEF CallHolds, Collects, Grows, Baseline
  <2> QED
    BY <2>1, <2>2, <2>3, <2>4 DEF CallHolds
<1> QED
  BY <1>1, <1>2, <1>4, <1>5

LEMMA HumanTypesKeeps ==
    ASSUME Inv, HumanTypes
    PROVE  Inv'
<1>1. PICK t \in HumanTurns : /\ \A i \in DOMAIN page.turns : page.turns[i] # t
                              /\ page' = [turns |-> Append(page.turns, t), generating |-> TRUE]
  BY DEF HumanTypes
<1>2. /\ Shapes /\ Fenced /\ host' = host /\ host \in [Hosts -> Calls]
      /\ Grows(t) /\ t \notin InPage /\ t \in Causes \cup HumanTurns
  BY <1>1 DEF HumanTypes, journal, history, Grows, InPage, Inv, Shapes
<1>3. /\ Shapes' /\ Ledger' /\ Conversation' /\ Ranking' /\ OneUnresolvedSteer'
      /\ StopReportsAreTrue'
      /\ \A k \in Calls : CallHolds(k) => CallHolds(k)'
  BY <1>2, GrowsCommon
<1>4. (\A h \in Hosts : CallHolds(host[h]))'
  <2> SUFFICES ASSUME NEW h \in Hosts PROVE CallHolds(host[h])'
    OBVIOUS
  <2>1. ASSUME NEW k \in Calls, CallHolds(k), k = host[h] PROVE CallHolds(host[h])'
    <3>1. CallHolds(k)'
      BY <1>3, <2>1
    <3> QED
      BY <3>1, <2>1, <1>2 DEF CallHolds, Names, Steering, Verified, Reports, Collects
  <2> QED
    BY <2>1, HostsType
<1>5. \A c \in SteerIds : c # t
  BY <1>1, IdsAreDistinct DEF Causes
<1>6. Fenced'
  <2>1. ASSUME NEW c \in SteerIds, NEW i \in DOMAIN page'.turns, page'.turns[i] = c
        PROVE  i > base[c]
    BY <1>2, <1>5, <2>1, GrownPage DEF Fenced
  <2>2. \A c \in SteerIds : c \in InPage' <=> c \in InPage
    BY <1>2, <1>5, GrownPage
  <2> QED
    BY <1>2, <2>1, <2>2 DEF Fenced, Grows, Outcome
<1>7. ASSUME Uncredited' PROVE Alone' /\ Current'
  <2>1. Alone /\ Current
    BY <1>2, <1>7 DEF Inv, Uncredited, Grows, Witness
  <2>2. Alone'
    <3>1. (\A h \in Hosts : At(h, "click") =>
              /\ Outcome(Act(h)) = "open" /\ Witness(Act(h)) = "none"
              /\ \A i \in DOMAIN page.turns : i > base[Act(h)] => page.turns[i] \in HumanTurns)'
      <4>1. \A i \in DOMAIN page'.turns :
               i \in DOMAIN page.turns \/ page'.turns[i] \in HumanTurns
        BY <1>1, <1>2, GrownPage
      <4> QED
        BY <1>2, <2>1, <4>1, GrownPage DEF Alone, Grows, At, Act, Outcome, Witness
    <3>2. ASSUME NEW c \in SteerIds, NEW i \in DOMAIN page'.turns, NEW j \in DOMAIN page'.turns,
                 page'.turns[i] = c, base[c] < j, j < i
          PROVE  page'.turns[j] \in HumanTurns
      <4>1. i \in DOMAIN page.turns /\ j \in DOMAIN page.turns
        BY <1>2, <1>5, <3>2, GrownPage
      <4> QED
        BY <1>2, <2>1, <3>2, <4>1, GrownPage DEF Alone
    <3> QED
      BY <1>2, <3>1, <3>2 DEF Alone, Grows
  <2>3. ASSUME NEW u, Settled(u) PROVE Settled(u)'
    <3>1. PICK p \in DOMAIN page.turns :
              /\ page.turns[p] = u
              /\ \A i \in DOMAIN page.turns : i > p => page.turns[i] \in HumanTurns
      BY <2>3 DEF Settled
    <3>2. /\ p \in DOMAIN page'.turns /\ page'.turns[p] = u /\ Len(page'.turns) # p
          /\ \A i \in DOMAIN page'.turns : i > p => page'.turns[i] \in HumanTurns
      BY <1>1, <1>2, <3>1, GrownPage
    <3>3. \A c \in SteerIds : c \in InPage' => Witness(c)' # "none"
      BY <1>2, <1>5, <2>3, GrownPage DEF Settled, Grows, Witness
    <3>4. (\A h \in Hosts : ~At(h, "click"))'
      BY <1>2, <2>3 DEF Settled, At
    <3> QED
      BY <3>2, <3>3, <3>4 DEF Settled
  <2>4. Current'
    BY <1>2, <2>1, <2>3, CurrentStays DEF Grows
  <2> QED
    BY <2>2, <2>4
<1> QED
  BY <1>3, <1>4, <1>6, <1>7 DEF Inv

LEMMA ClickSteerKeeps ==
    ASSUME Inv, NEW h \in Hosts, ClickSteer(h)
    PROVE  Inv'
<1> DEFINE c == host[h].act
<1>1. Shapes /\ Ledger /\ Conversation /\ Fenced /\ "verify" \in Steps
  BY DEF Inv, Steps
<1>2. /\ At(h, "click") /\ c \in SteerIds /\ c \in ActionIds /\ c \in Causes
      /\ c \in ControlIds /\ expects[c] # "none"
      /\ s.actions[c].kind = "work_steer" /\ c \in Steers
  <2>1. /\ At(h, "click") /\ c \in SteerIds /\ expects[c] # "none"
        /\ s.actions[c].kind = "work_steer"
    BY HostsType DEF ClickSteer, At, CallHolds, Names, SteerSteps, Steering
  <2> QED
    BY <1>1, <2>1, IdsAreDistinct, SteersAreSteerIds DEF Causes
<1>3. /\ host' \in [Hosts -> Calls] /\ \A g \in Hosts : g # h => host'[g] = host[g]
      /\ host'[h].pc = "verify" /\ host'[h].act = c
  BY <1>1, Goes DEF ClickSteer
<1>4. Typing(host[h], c) /\ \A g \in Hosts : Typing(host[g], c) => g = h
  BY <1>1, <1>2 DEF Typing, At, Fenced
<1>5. c \notin InPage /\ Outcome(c) # "not_satisfied"
  BY <1>1, <1>2, <1>4 DEF Fenced
<1>6. CASE UNCHANGED page
  <2>1. Quiet
    BY <1>1, <1>6, Unmoved DEF ClickSteer, journal, history, Shapes
  <2>2. Lands(h)
    BY <1>2, <1>3, <2>1
       DEF ClickSteer, journal, history, Lands, CallHolds, Names, StopSteps, SteerSteps, Steering,
           Verified, Reports, Collects, Typing
  <2> QED
    BY <1>1, <1>3, <2>1, <2>2, QuietStep DEF ClickSteer, history, Shapes
<1>7. CASE page' = [turns |-> Append(page.turns, c), generating |-> TRUE]
  <2>1. Grows(c) /\ c \in Causes \cup HumanTurns
    BY <1>2, <1>7 DEF ClickSteer, journal, history, Grows
  <2>2. /\ Shapes' /\ Ledger' /\ Conversation' /\ Ranking' /\ OneUnresolvedSteer'
        /\ StopReportsAreTrue'
        /\ \A k \in Calls : CallHolds(k) => CallHolds(k)'
    BY <1>3, <1>5, <2>1, GrowsCommon
  <2>3. (\A g \in Hosts : CallHolds(host[g]))'
    <3> SUFFICES ASSUME NEW g \in Hosts PROVE CallHolds(host[g])'
      OBVIOUS
    <3>1. CASE g = h
      BY <1>2, <1>3, <2>1, <3>1
         DEF CallHolds, Names, StopSteps, SteerSteps, Steering, Verified, Reports, Collects, Grows
    <3>2. CASE g # h
      <4>1. ASSUME NEW k \in Calls, CallHolds(k), k = host[g] PROVE CallHolds(host[g])'
        <5>1. CallHolds(k)' /\ host'[g] = k
          BY <1>3, <2>2, <3>2, <4>1
        <5> QED
          BY <5>1 DEF CallHolds, Names, Steering, Verified, Reports, Collects
      <4> QED
        BY <4>1, HostsType
    <3> QED
      BY <3>1, <3>2
  <2>4. base[c] \in DOMAIN page.turns
    BY <1>1, <1>2 DEF Conversation
  <2>5. Fenced'
    <3>1. \A d \in SteerIds, g \in Hosts : Typing(host'[g], d) => d # c /\ Typing(host[g], d)
      BY <1>3, <1>4 DEF Typing
    <3>2. ASSUME NEW d \in SteerIds, NEW i \in DOMAIN page'.turns, page'.turns[i] = d
          PROVE  i > base[d]
      <4>1. CASE i \in DOMAIN page.turns
        BY <1>1, <2>1, <3>2, <4>1, GrownPage DEF Fenced
      <4>2. CASE i = Len(page.turns) + 1
        BY <1>1, <2>1, <2>4, <3>2, <4>2, GrownPage
      <4> QED
        BY <1>1, <2>1, <4>1, <4>2, GrownPage
    <3>3. InPage' = InPage \cup {c}
      BY <1>1, <2>1, GrownPage
    <3> QED
      BY <1>1, <1>2, <1>5, <2>1, <3>1, <3>2, <3>3 DEF Fenced, Grows, Outcome
  <2>6. ASSUME Uncredited' PROVE Alone' /\ Current'
    <3>1. Alone /\ Current
      BY <2>1, <2>6 DEF Inv, Uncredited, Grows, Witness
    <3>2. \A g \in Hosts : ~At(g, "click")'
      <4> SUFFICES ASSUME NEW g \in Hosts, At(g, "click")' PROVE FALSE
        OBVIOUS
      <4>1. g # h /\ At(g, "click")
        BY <1>3 DEF At
      <4>2. Outcome(Act(g)) = "open" /\ Outcome(c) = "open"
        BY <1>2, <3>1, <4>1 DEF Alone, Act
      <4>3. Act(g) \in SteerIds /\ s.actions[Act(g)].kind = "work_steer"
        BY <4>1, HostsType DEF At, Act, CallHolds, Names, SteerSteps, Steering
      <4>4. Act(g) \in Steers
        BY <1>1, <4>3, SteersAreSteerIds
      <4>5. Act(g) = c
        BY <1>2, <4>2, <4>4 DEF Inv, OneUnresolvedSteer, Unresolved
      <4>6. Typing(host[g], c)
        BY <4>1, <4>5 DEF Typing, At, Act
      <4> QED
        BY <1>4, <4>1, <4>6
    <3>3. ASSUME NEW d \in SteerIds, NEW i \in DOMAIN page'.turns, NEW j \in DOMAIN page'.turns,
                 page'.turns[i] = d, base[d] < j, j < i
          PROVE  page'.turns[j] \in HumanTurns
      <4>1. j \in DOMAIN page.turns /\ page'.turns[j] = page.turns[j]
        BY <1>1, <2>1, <3>3, GrownPage
      <4>2. CASE i \in DOMAIN page.turns
        BY <1>1, <2>1, <3>1, <3>3, <4>1, <4>2, GrownPage DEF Alone
      <4>3. CASE i = Len(page.turns) + 1
        <5>1. d = c
          BY <1>1, <2>1, <3>3, <4>3, GrownPage
        <5> QED
          BY <1>2, <3>1, <3>3, <4>1, <5>1 DEF Alone, Act
      <4> QED
        BY <1>1, <2>1, <4>2, <4>3, GrownPage
    <3>4. Alone'
      BY <2>1, <3>2, <3>3 DEF Alone, Grows
    <3>5. \A t : ~Settled(t)
      BY <1>2 DEF Settled
    <3>6. Current'
      BY <1>3, <2>1, <3>1, <3>5 DEF Current, At, Grows
    <3> QED
      BY <3>4, <3>6
  <2> QED
    BY <2>2, <2>3, <2>5, <2>6 DEF Inv
<1> QED
  BY <1>6, <1>7 DEF ClickSteer, Act

---------------------------------------------------------------------------
(* What the reducer makes of the ledger *)

LEMMA StopIntentEffect ==
    ASSUME Shapes, Ledger, NEW c \in StopIds, s' = ActionIntent(s, c, "stop", s.binding)
    PROVE  /\ s' \in OperationStates
           /\ s'.witnesses = s.witnesses
           /\ s'.lifecycle = s.lifecycle /\ s'.binding = s.binding
           /\ s'.establishedTurn = s.establishedTurn
           /\ s'.actions[c].kind = "stop" /\ s'.actions[c].outcome = "open"
           /\ \A d \in ActionIds : d # c => s'.actions[d] = s.actions[d]
<1> DEFINE action == [kind |-> "stop", target |-> s.binding, outcome |-> "open"]
           high == Higher(BoundaryForAction("stop"), s.boundary)
<1>1. c \in ActionIds /\ s \in OperationStates /\ s.binding = "tab"
  BY IdsAreDistinct DEF Shapes, Ledger
<1>2. action \in ActionRecord
  BY <1>1 DEF ActionRecord, Kinds, Bindings
<1>3. high \in Boundaries
  BY <1>1 DEF Higher, BoundaryForAction, Boundaries, OperationStates
<1>4. s' = [s EXCEPT !.actions[c] = action, !.boundary = high]
  BY DEF ActionIntent
<1> HIDE DEF action, high
<1>5. s' \in OperationStates
  <2> DEFINE ledger == [s.actions EXCEPT ![c] = action]
  <2>1. ledger \in [ActionIds -> ActionRecord]
    BY <1>1, <1>2 DEF OperationStates
  <2>2. s' = [s EXCEPT !.actions = ledger, !.boundary = high]
    BY <1>4
  <2> HIDE DEF ledger
  <2> QED
    BY <1>1, <1>3, <2>1, <2>2 DEF OperationStates
<1>6. s.actions \in [ActionIds -> ActionRecord]
  BY <1>1 DEF OperationStates
<1>7. s'.actions[c] = action /\ \A d \in ActionIds : d # c => s'.actions[d] = s.actions[d]
  BY <1>1, <1>4, <1>6 DEF OperationStates
<1>8. /\ s'.witnesses = s.witnesses /\ s'.lifecycle = s.lifecycle /\ s'.binding = s.binding
      /\ s'.establishedTurn = s.establishedTurn
  BY <1>1, <1>4 DEF OperationStates
<1> QED
  BY <1>5, <1>7, <1>8 DEF action

LEMMA PreparedEffect ==
    ASSUME Shapes, Ledger, NEW c \in SteerIds, s' = ActionPrepared(s, c, "work_steer", s.binding)
    PROVE  /\ s' \in OperationStates
           /\ s'.witnesses = s.witnesses
           /\ s'.lifecycle = s.lifecycle /\ s'.binding = s.binding
           /\ s'.establishedTurn = s.establishedTurn
           /\ s'.actions[c].kind = "work_steer" /\ s'.actions[c].outcome = "open"
           /\ \A d \in ActionIds : d # c => s'.actions[d] = s.actions[d]
<1> DEFINE action == [kind |-> "work_steer", target |-> s.binding, outcome |-> "open"]
           high == Higher(BoundaryForAction("work_steer"), s.boundary)
           more == s.baselines \cup {c}
<1>1. c \in ActionIds /\ s \in OperationStates /\ s.binding = "tab"
  BY IdsAreDistinct DEF Shapes, Ledger
<1>2. action \in ActionRecord
  BY <1>1 DEF ActionRecord, Kinds, Bindings
<1>3. high \in Boundaries /\ more \in SUBSET ActionIds
  BY <1>1 DEF Higher, BoundaryForAction, Boundaries, OperationStates
<1>4. s' = [s EXCEPT !.actions[c] = action, !.boundary = high, !.baselines = more]
  BY <1>1 DEF ActionPrepared, OwnershipBaseline, ActionIntent, OperationStates
<1> HIDE DEF action, high, more
<1>5. s' \in OperationStates
  <2> DEFINE ledger == [s.actions EXCEPT ![c] = action]
  <2>1. ledger \in [ActionIds -> ActionRecord]
    BY <1>1, <1>2 DEF OperationStates
  <2>2. s' = [s EXCEPT !.actions = ledger, !.boundary = high, !.baselines = more]
    BY <1>4
  <2> HIDE DEF ledger
  <2> QED
    BY <1>1, <1>3, <2>1, <2>2 DEF OperationStates
<1>6. s.actions \in [ActionIds -> ActionRecord]
  BY <1>1 DEF OperationStates
<1>7. s'.actions[c] = action /\ \A d \in ActionIds : d # c => s'.actions[d] = s.actions[d]
  BY <1>1, <1>4, <1>6 DEF OperationStates
<1>8. /\ s'.witnesses = s.witnesses /\ s'.lifecycle = s.lifecycle /\ s'.binding = s.binding
      /\ s'.establishedTurn = s.establishedTurn
  BY <1>1, <1>4 DEF OperationStates
<1> QED
  BY <1>5, <1>7, <1>8 DEF action

LEMMA WitnessEffect ==
    ASSUME Shapes, NEW c \in ActionIds, NEW t \in Turns, s' = SubmissionWitness(s, c, t)
    PROVE  /\ s' \in OperationStates /\ s'.actions = s.actions
           /\ s'.lifecycle = s.lifecycle /\ s'.binding = s.binding
           /\ s'.establishedTurn = s.establishedTurn
           /\ s'.witnesses[c] = t
           /\ \A d \in ActionIds : d # c => s'.witnesses[d] = s.witnesses[d]
<1>1. s \in OperationStates /\ s' = [s EXCEPT !.witnesses[c] = t]
  BY DEF Shapes, SubmissionWitness
<1>2. s.witnesses \in [ActionIds -> Turns \cup {"none"}]
  BY <1>1 DEF OperationStates
<1> QED
  BY <1>1, <1>2 DEF OperationStates

LEMMA ReceiptEffect ==
    ASSUME Shapes, NEW c \in ActionIds, s.actions[c].kind # "absent", NEW o \in Outcomes,
           s' = ActionReceipt(s, c, o)
    PROVE  /\ s' \in OperationStates
           /\ s'.witnesses = s.witnesses
           /\ s'.lifecycle = s.lifecycle /\ s'.binding = s.binding
           /\ s'.establishedTurn = s.establishedTurn
           /\ s'.actions[c].kind = s.actions[c].kind /\ s'.actions[c].outcome = o
           /\ \A d \in ActionIds : d # c => s'.actions[d] = s.actions[d]
<1> DEFINE action == [s.actions[c] EXCEPT !.outcome = o]
<1>1. s \in OperationStates /\ s.actions \in [ActionIds -> ActionRecord]
  BY DEF Shapes, OperationStates
<1>2. s.actions[c] \in [kind: Kinds, target: Bindings, outcome: Outcomes \cup {"open"}]
  BY <1>1 DEF ActionRecord, NoAction
<1>3. action \in ActionRecord /\ action.kind = s.actions[c].kind /\ action.outcome = o
  BY <1>2 DEF ActionRecord
<1>4. s' = [s EXCEPT !.actions[c] = action]
  BY <1>1 DEF ActionReceipt, OperationStates
<1> HIDE DEF action
<1>5. s' \in OperationStates
  BY <1>1, <1>3, <1>4 DEF OperationStates
<1>6. s'.actions[c] = action /\ \A d \in ActionIds : d # c => s'.actions[d] = s.actions[d]
  BY <1>1, <1>4 DEF OperationStates
<1>7. /\ s'.witnesses = s.witnesses /\ s'.lifecycle = s.lifecycle /\ s'.binding = s.binding
      /\ s'.establishedTurn = s.establishedTurn
  BY <1>1, <1>4 DEF OperationStates
<1> QED
  BY <1>3, <1>5, <1>6, <1>7

LEMMA StopIntentKeeps ==
    ASSUME Inv, NEW h \in Hosts, StopIntent(h)
    PROVE  Inv'
<1> DEFINE c == host[h].act
<1>1. Shapes /\ Ledger /\ "stop" \in Steps /\ "settleStop" \in Steps
  BY DEF Inv, Steps
<1>2. c \in StopIds /\ expects[c] # "none"
  BY HostsType DEF StopIntent, At, CallHolds, Names, StopSteps
<1>3. Quiet
  <2>1. CASE s' = s
    BY <1>1, <2>1, Unmoved DEF StopIntent, history, Shapes
  <2>2. CASE s' = ActionIntent(s, c, "stop", s.binding)
    <3>1. /\ s' \in OperationStates
          /\ s'.witnesses = s.witnesses
          /\ s'.lifecycle = s.lifecycle /\ s'.binding = s.binding
          /\ s'.establishedTurn = s.establishedTurn
          /\ s'.actions[c].kind = "stop" /\ s'.actions[c].outcome = "open"
          /\ \A d \in ActionIds : d # c => s'.actions[d] = s.actions[d]
      BY <1>1, <1>2, <2>2, StopIntentEffect
    <3>2. \A d \in Causes : s'.actions[d] = s.actions[d]
      BY <1>2, <3>1, IdsAreDistinct DEF Causes
    <3>3. \A d \in StopIds : /\ s'.actions[d].kind \in {"absent", "stop"}
                             /\ s'.actions[d].outcome = "satisfied" => Outcome(d) = "satisfied"
      BY <1>1, <3>1, IdsAreDistinct DEF Ledger, Outcome
    <3> QED
      BY <1>1, <3>1, <3>2, <3>3 DEF StopIntent, history, Quiet, Shapes
  <2> QED
    BY <2>1, <2>2 DEF StopIntent, Act
<1>4. /\ host' \in [Hosts -> Calls] /\ \A g \in Hosts : g # h => host'[g] = host[g]
      /\ host'[h].pc \in {"stop", "settleStop"} /\ host'[h].act = c
  BY <1>1, Goes DEF StopIntent
<1>5. Lands(h)
  BY <1>2, <1>4
     DEF StopIntent, Lands, CallHolds, Names, StopSteps, SteerSteps, Steering, Verified, Reports,
         Collects, Typing
<1> QED
  BY <1>1, <1>3, <1>4, <1>5, QuietStep DEF StopIntent, history, Shapes

---------------------------------------------------------------------------
(* A steer enters the ledger *)

LEMMA PersistSteerKeeps ==
    ASSUME Inv, NEW h \in Hosts, PersistSteer(h)
    PROVE  Inv'
<1> DEFINE c == host[h].act
<1>1. /\ Shapes /\ Ledger /\ Conversation /\ Ranking /\ Fenced
      /\ "execute" \in Steps /\ "verify" \in Steps
  BY DEF Inv, Steps
<1>2. /\ c \in SteerIds /\ c \in Causes /\ c \in ActionIds /\ c # SendId
      /\ expects[c] # "none" /\ host[h].prep \in DOMAIN page.turns /\ host[h].prep \in Nat
  BY HostsType, IdsAreDistinct
     DEF PersistSteer, At, CallHolds, Names, SteerSteps, Steering, Causes, Calls
<1>3. /\ host' \in [Hosts -> Calls] /\ \A g \in Hosts : g # h => host'[g] = host[g]
      /\ host'[h].pc \in {"execute", "verify"} /\ host'[h].act = c
      /\ host'[h].prep = host[h].prep
  BY <1>1, Goes DEF PersistSteer
<1>4. page' = page /\ expects' = expects /\ stops' = stops /\ answer' = answer
  BY DEF PersistSteer, history
<1>5. CASE c \in Steers /\ base[c] = host[h].prep /\ Go(h, "verify") /\ UNCHANGED journal
  <2>1. Quiet /\ s.actions[c].kind = "work_steer"
    BY <1>1, <1>4, <1>5, Unmoved, SteersAreSteerIds DEF journal, Shapes
  <2>2. host'[h].pc = "verify" /\ host'[h].act = c
    BY <1>1, <1>5, Goes
  <2>3. Lands(h)
    BY <1>2, <1>4, <1>5, <2>1, <2>2
       DEF journal, Lands, CallHolds, Names, StopSteps, SteerSteps, Steering, Verified, Reports,
           Collects, Typing
  <2> QED
    BY <1>1, <1>3, <1>4, <2>1, <2>3, QuietStep DEF Shapes
<1>6. CASE /\ \A d \in Steers : ~Unresolved(d)
           /\ ActionPreparedLegal(s, c, "work_steer", s.binding)
           /\ s' = ActionPrepared(s, c, "work_steer", s.binding)
           /\ ranked' = Append(ranked, c)
           /\ base' = [base EXCEPT ![c] = host[h].prep]
  <2>1. /\ s' \in OperationStates
        /\ s'.witnesses = s.witnesses
        /\ s'.lifecycle = s.lifecycle /\ s'.binding = s.binding
        /\ s'.establishedTurn = s.establishedTurn
        /\ s'.actions[c].kind = "work_steer" /\ s'.actions[c].outcome = "open"
        /\ \A d \in ActionIds : d # c => s'.actions[d] = s.actions[d]
    BY <1>1, <1>2, <1>6, PreparedEffect
  <2>2. s.actions[c].kind = "absent"
    BY <1>6 DEF ActionPreparedLegal, ActionIntentLegal
  <2>3. /\ base' \in [SteerIds -> Nat] /\ base'[c] = host[h].prep
        /\ \A d \in SteerIds : d # c => base'[d] = base[d]
    BY <1>1, <1>2, <1>6 DEF Shapes
  <2>4. Shapes'
    BY <1>1, <1>3, <1>4, <2>1, <2>3 DEF Shapes
  <2>5. Witness(c) = "none" /\ c \notin InPage
    BY <1>1, <1>2, <2>2 DEF Ledger, Fenced
  <2>6. \A d \in StopIds \cup {SendId} : s'.actions[d] = s.actions[d]
    BY <1>2, <2>1, IdsAreDistinct
  <2>7. Ledger'
    BY <1>1, <1>2, <2>1, <2>5, <2>6, IdsAreDistinct DEF Ledger, Outcome, Witness
  <2>8. Steers' = Steers \cup {c} /\ c \notin Steers
    BY <1>2, <2>1, <2>2 DEF Steers, OfKind
  <2>9. \A d \in Steers : d # c /\ d \in SteerIds /\ s'.actions[d] = s.actions[d] /\ base'[d] = base[d]
    BY <1>1, <2>1, <2>3, <2>8, SteersAreSteerIds, IdsAreDistinct
  <2>10. Conversation'
    <3>1. (\A d \in Steers : base[d] \in DOMAIN page.turns)'
      BY <1>1, <1>2, <1>4, <2>3, <2>8, <2>9 DEF Conversation
    <3>2. (\A d \in SteerIds : Witness(d) # "none" =>
              base[d] + 1 \in DOMAIN page.turns /\ page.turns[base[d] + 1] = Witness(d))'
      BY <1>1, <1>4, <2>1, <2>3, <2>5 DEF Conversation, Witness
    <3> QED
      BY <1>1, <1>4, <2>1, <3>1, <3>2 DEF Conversation, Witness
  <2>11. \A d \in Steers' : Unresolved(d)' => d = c
    BY <1>6, <2>8, <2>9 DEF Unresolved, Outcome
  <2>12. Ranking'
    <3>1. /\ ranked \in Seq(Causes) /\ Len(ranked) \in Nat /\ DOMAIN ranked = 1 .. Len(ranked)
          /\ \A i \in DOMAIN ranked : ranked[i] # c /\ ranked[i] \in Causes
      BY <1>1, <2>2 DEF Ranking
    <3>2. /\ ranked' \in Seq(Causes) /\ Len(ranked') = Len(ranked) + 1
          /\ DOMAIN ranked' = 1 .. Len(ranked) + 1
          /\ ranked'[Len(ranked) + 1] = c
          /\ \A i \in DOMAIN ranked : ranked'[i] = ranked[i]
      BY <1>2, <1>6, <3>1
    <3>3. \A d \in Causes : d # c => s'.actions[d] = s.actions[d]
      BY <2>1, IdsAreDistinct
    <3>4. (\A d \in Causes : s.actions[d].kind # "absent" => \E i \in DOMAIN ranked : ranked[i] = d)'
      BY <1>1, <3>1, <3>2, <3>3 DEF Ranking
    <3>5. (\A i \in DOMAIN ranked : s.actions[ranked[i]].kind # "absent")'
      BY <1>1, <2>1, <3>1, <3>2, <3>3 DEF Ranking
    <3>6. (\A i, j \in DOMAIN ranked : ranked[i] = ranked[j] => i = j)'
      BY <1>1, <3>1, <3>2 DEF Ranking
    <3>7. (\A d \in Steers : Unresolved(d) => ranked[Len(ranked)] = d)'
      BY <2>11, <3>2
    <3>8. \A d \in Causes : d # c => Baseline(d)' = Baseline(d)
      BY <2>3 DEF Baseline, Causes
    <3>9. (\A i, j \in DOMAIN ranked :
              /\ Witness(ranked[i]) # "none" /\ Witness(ranked[j]) # "none"
              /\ Baseline(ranked[i]) < Baseline(ranked[j])
              => i < j)'
      <4> SUFFICES ASSUME NEW i \in DOMAIN ranked', NEW j \in DOMAIN ranked',
                          Witness(ranked'[i]) # "none", Witness(ranked'[j]) # "none",
                          Baseline(ranked[i])' < Baseline(ranked[j])'
                   PROVE  i < j
        BY <2>1 DEF Witness
      <4>1. i \in DOMAIN ranked /\ j \in DOMAIN ranked
        BY <2>5, <3>1, <3>2
      <4>2. ranked'[i] = ranked[i] /\ ranked'[j] = ranked[j]
        BY <3>2, <4>1
      <4>3. Baseline(ranked[i])' = Baseline(ranked[i]) /\ Baseline(ranked[j])' = Baseline(ranked[j])
        BY <3>1, <3>8, <4>1, <4>2 DEF Baseline
      <4> QED
        BY <1>1, <4>1, <4>2, <4>3 DEF Ranking
    <3> QED
      BY <3>2, <3>4, <3>5, <3>6, <3>7, <3>9 DEF Ranking
  <2>13. ASSUME NEW k \in Calls, CallHolds(k), NEW g \in Hosts, host'[g] = k
         PROVE  CallHolds(host[g])'
    <3>1. Names(k)'
      BY <1>4, <2>13 DEF CallHolds, Names
    <3>2. /\ k.pc \in {"execute", "click", "verify", "witness"} => k.act \in Steers
          /\ k.pc = "receipt" /\ k.act \in SteerIds => k.act \in Steers
      BY <1>1, <2>13, SteersAreSteerIds DEF CallHolds, Names, Steering, Reports, SteerSteps
    <3>3. Steering(k)'
      BY <1>4, <2>9, <2>13, <3>2 DEF CallHolds, Steering
    <3>4. Verified(k)'
      BY <1>4, <2>1, <2>5, <2>8, <2>9, <2>13, <3>2 DEF CallHolds, Verified, Outcome, Witness
    <3>5. Reports(k)'
      BY <1>4, <2>1, <2>9, <2>13, <3>2
         DEF CallHolds, Reports, Witness, Answering, LastTurn
    <3>6. Collects(k)'
      <4>1. k.pc \in {"observe", "terminal"} =>
               /\ k.act # c /\ k.act \in Causes /\ s'.actions[k.act] = s.actions[k.act]
        BY <2>1, <2>2, <2>13, IdsAreDistinct DEF CallHolds, Collects
      <4>2. k.pc \in {"observe", "terminal"} => Baseline(k.act)' = Baseline(k.act)
        BY <2>3, <4>1 DEF Baseline, Causes
      <4> QED
        BY <1>4, <2>13, <4>1, <4>2 DEF CallHolds, Collects
    <3> QED
      BY <2>13, <3>1, <3>3, <3>4, <3>5, <3>6
         DEF CallHolds, Names, Steering, Verified, Reports, Collects, Baseline
  <2>14. (\A g \in Hosts : CallHolds(host[g]))'
    <3> SUFFICES ASSUME NEW g \in Hosts PROVE CallHolds(host[g])'
      OBVIOUS
    <3>1. CASE g = h
      BY <1>2, <1>3, <1>4, <2>1, <2>3, <3>1
         DEF CallHolds, Names, StopSteps, SteerSteps, Steering, Verified, Reports, Collects
    <3>2. CASE g # h
      BY <1>3, <2>13, <3>2, HostsType
    <3> QED
      BY <3>1, <3>2
  <2>15. \A g \in Hosts : ~Typing(host[g], c)
    <3> SUFFICES ASSUME NEW g \in Hosts, Typing(host[g], c) PROVE FALSE
      OBVIOUS
    <3>1. s.actions[c].kind = "work_steer"
      BY <1>2, HostsType DEF Typing, CallHolds, Steering, Reports
    <3> QED
      BY <2>2, <3>1
  <2>16. \A g \in Hosts, d \in SteerIds : Typing(host'[g], d) => (d = c /\ g = h) \/ (d # c /\ Typing(host[g], d))
    BY <1>3, <2>15 DEF Typing
  <2>17. Fenced'
    <3>1. InPage' = InPage /\ \A i \in DOMAIN page.turns : page.turns[i] # c
      BY <1>4, <2>5 DEF InPage
    <3> SUFFICES ASSUME NEW d \in SteerIds
                 PROVE  (/\ \A f, g \in Hosts : Typing(host[f], d) /\ Typing(host[g], d) => f = g
                         /\ \A g \in Hosts : Typing(host[g], d) =>
                                d \notin InPage /\ Outcome(d) # "not_satisfied"
                         /\ d \in InPage => s.actions[d].kind = "work_steer" /\ Outcome(d) # "not_satisfied"
                         /\ \A i \in DOMAIN page.turns : page.turns[i] = d => i > base[d])'
      BY DEF Fenced
    <3>2. CASE d = c
      BY <1>4, <2>1, <2>5, <2>16, <3>1, <3>2 DEF Outcome
    <3>3. CASE d # c
      BY <1>1, <1>4, <2>1, <2>3, <2>16, <3>1, <3>3, IdsAreDistinct DEF Fenced, Outcome
    <3> QED
      BY <3>2, <3>3
  <2>18. OneUnresolvedSteer'
    BY <2>11 DEF OneUnresolvedSteer
  <2>19. StopReportsAreTrue'
    BY <1>4, <2>6 DEF Inv, StopReportsAreTrue, Outcome, Answering, LastTurn
  <2>20. ASSUME Uncredited' PROVE Alone' /\ Current'
    <3>1. Alone /\ Current
      BY <2>1, <2>20 DEF Inv, Uncredited, Witness
    <3>2. \A g \in Hosts : At(g, "click")' => /\ At(g, "click") /\ g # h /\ host'[g] = host[g]
                                            /\ Act(g) \in Steers
      BY <1>1, <1>3, HostsType, SteersAreSteerIds
         DEF At, Act, CallHolds, Names, Steering, SteerSteps
    <3>3. (\A g \in Hosts : At(g, "click") =>
              /\ Outcome(Act(g)) = "open" /\ Witness(Act(g)) = "none"
              /\ \A i \in DOMAIN page.turns : i > base[Act(g)] => page.turns[i] \in HumanTurns)'
      BY <1>4, <2>1, <2>9, <3>1, <3>2 DEF Alone, Act, Outcome, Witness
    <3>4. (\A d \in SteerIds : \A i, j \in DOMAIN page.turns :
              page.turns[i] = d /\ base[d] < j /\ j < i => page.turns[j] \in HumanTurns)'
      BY <1>4, <2>3, <2>5, <3>1 DEF Alone, InPage
    <3>5. Alone'
      BY <3>3, <3>4 DEF Alone
    <3>6. ASSUME NEW t, Settled(t) PROVE Settled(t)'
      BY <1>4, <2>1, <3>2, <3>6 DEF Settled, InPage, Witness
    <3>7. Current'
      BY <1>3, <1>4, <3>1, <3>6, CurrentStays
    <3> QED
      BY <3>5, <3>7
  <2> QED
    BY <2>4, <2>7, <2>10, <2>12, <2>14, <2>17, <2>18, <2>19, <2>20 DEF Inv
<1> QED
  BY <1>5, <1>6 DEF PersistSteer, Act

---------------------------------------------------------------------------
(* A steer gets its witness *)

LEMMA WitnessSteerKeeps ==
    ASSUME Inv, NEW h \in Hosts, WitnessSteer(h)
    PROVE  Inv'
<1>0. PICK c, w : c = host[h].act /\ w = page.turns[base[host[h].act] + 1]
  OBVIOUS
<1>1. /\ Shapes /\ Ledger /\ Conversation /\ Ranking /\ Fenced /\ OneUnresolvedSteer
      /\ "receipt" \in Steps
  BY DEF Inv, Steps
<1>2. /\ c \in SteerIds /\ c \in Causes /\ c \in ActionIds /\ c \in ControlIds /\ c # SendId
      /\ c \notin StopIds /\ expects[c] # "none" /\ s.actions[c].kind = "work_steer"
      /\ host[h].out = "satisfied" /\ base[c] + 1 \in DOMAIN page.turns
  BY <1>0, HostsType, IdsAreDistinct
     DEF WitnessSteer, At, CallHolds, Names, SteerSteps, Steering, Verified, Causes
<1>3. c \in Steers /\ base[c] \in Nat
  BY <1>1, <1>2, SteersAreSteerIds DEF Shapes
<1>4. Witness(c) = "none" /\ Outcome(c) \notin {"not_satisfied", "uncertain"}
  BY <1>0 DEF WitnessSteer, Witness, Outcome, Act, SubmissionWitnessLegal
<1>5. Outcome(c) = "open"
  BY <1>1, <1>2, <1>4, LedgerShape DEF Shapes, Outcome, Outcomes, Ledger
<1>6. \A d \in Steers : Witness(d) # "none" => base[d] <= base[c]
  BY <1>0, <1>4, <1>5, HostsType DEF WitnessSteer, At, CallHolds, Verified
<1>7. w \in Turns /\ w # "none"
  BY <1>0, <1>1, <1>2, PageShape, IdsAreDistinct
<1>8. /\ host' \in [Hosts -> Calls] /\ \A g \in Hosts : g # h => host'[g] = host[g]
      /\ host'[h].pc = "receipt" /\ host'[h].act = c /\ host'[h].out = "satisfied"
  BY <1>0, <1>1, <1>2, Goes DEF WitnessSteer
<1>9. /\ ranked' = ranked /\ base' = base /\ page' = page /\ expects' = expects
      /\ stops' = stops /\ answer' = answer
  BY DEF WitnessSteer, history
<1>10. s' = SubmissionWitness(s, c, w)
  BY <1>0 DEF WitnessSteer, Act
<1>11. /\ s' \in OperationStates /\ s'.actions = s.actions
       /\ s'.lifecycle = s.lifecycle /\ s'.binding = s.binding
       /\ s'.establishedTurn = s.establishedTurn
       /\ s'.witnesses[c] = w
       /\ \A d \in ActionIds : d # c => s'.witnesses[d] = s.witnesses[d]
  BY <1>1, <1>2, <1>7, <1>10, WitnessEffect
<1>12. /\ Witness(c)' = w
       /\ \A d \in ActionIds : d # c => Witness(d)' = Witness(d)
       /\ \A d \in ActionIds : Witness(d) # "none" => Witness(d)' = Witness(d)
       /\ Steers' = Steers /\ \A d : Outcome(d)' = Outcome(d) /\ Unresolved(d)' = Unresolved(d)
  BY <1>4, <1>11 DEF Witness, Steers, OfKind, Outcome, Unresolved
<1>13. Shapes'
  BY <1>1, <1>8, <1>9, <1>11 DEF Shapes
<1>14. Ledger'
  BY <1>1, <1>2, <1>7, <1>11, <1>12, IdsAreDistinct DEF Ledger, Outcome
<1>15. Conversation'
  <2>1. (\A d \in SteerIds : Witness(d) # "none" =>
            base[d] + 1 \in DOMAIN page.turns /\ page.turns[base[d] + 1] = Witness(d))'
    BY <1>0, <1>1, <1>2, <1>9, <1>12, IdsAreDistinct DEF Conversation
  <2>2. (\A d \in ControlIds : expects[d] # "none" => \E a \in Causes : expects[d] = Witness(a))'
    BY <1>1, <1>9, <1>12, IdsAreDistinct DEF Conversation
  <2> QED
    BY <1>1, <1>9, <1>12, <2>1, <2>2 DEF Conversation
<1>16. Ranking'
  <2>1. /\ ranked \in Seq(Causes) /\ Len(ranked) \in Nat /\ DOMAIN ranked = 1 .. Len(ranked)
        /\ \A i \in DOMAIN ranked : ranked[i] \in Causes /\ ranked[i] \in ActionIds
        /\ ranked[Len(ranked)] = c
    BY <1>1, <1>3, <1>5, IdsAreDistinct DEF Ranking, Unresolved
  <2>2. ASSUME NEW i \in DOMAIN ranked, NEW j \in DOMAIN ranked,
               Witness(ranked[i])' # "none", Witness(ranked[j])' # "none",
               Baseline(ranked[i]) < Baseline(ranked[j])
        PROVE  i < j
    <3>1. CASE ranked[i] = c
      <4>1. ranked[j] # c /\ Baseline(c) = base[c]
        BY <1>2, <1>3, <2>2, <3>1 DEF Baseline
      <4>2. Witness(ranked[j]) # "none"
        BY <1>9, <1>12, <2>1, <2>2, <4>1 DEF Witness
      <4>3. CASE ranked[j] = SendId
        BY <1>3, <2>2, <3>1, <4>1, <4>3 DEF Baseline
      <4>4. CASE ranked[j] \in SteerIds
        <5>1. ranked[j] \in Steers
          BY <1>1, <4>2, <4>4, SteersAreSteerIds DEF Ledger
        <5>2. base[ranked[j]] <= base[c] /\ base[ranked[j]] \in Nat
          BY <1>1, <1>6, <4>2, <4>4, <5>1 DEF Shapes
        <5> QED
          BY <1>3, <2>2, <3>1, <4>1, <4>4, <5>2, IdsAreDistinct DEF Baseline
      <4> QED
        BY <2>1, <4>3, <4>4 DEF Causes
    <3>2. CASE ranked[i] # c /\ ranked[j] = c
      <4>1. j = Len(ranked) /\ i # j
        BY <1>1, <2>1, <3>2 DEF Ranking
      <4> QED
        BY <2>1, <4>1
    <3>3. CASE ranked[i] # c /\ ranked[j] # c
      BY <1>1, <1>9, <1>12, <2>1, <2>2, <3>3 DEF Ranking, Witness
    <3> QED
      BY <3>1, <3>2, <3>3
  <2> QED
    BY <1>1, <1>9, <1>11, <1>12, <2>2 DEF Ranking, Witness, Baseline
<1>17. ASSUME NEW k \in Calls, CallHolds(k), NEW g \in Hosts, host'[g] = k
       PROVE  CallHolds(host[g])'
  <2>1. Names(k)' /\ Steering(k)' /\ Collects(k)'
    BY <1>9, <1>11, <1>17 DEF CallHolds, Names, Steering, Collects, Baseline
  <2>2. Verified(k)'
    <3> SUFFICES ASSUME k.pc = "witness", Outcome(k.act) = "open", Witness(k.act)' = "none",
                        NEW d \in Steers, Witness(d)' # "none"
                 PROVE  base[d] <= base[k.act]
      BY <1>9, <1>12, <1>17 DEF CallHolds, Verified
    <3>1. k.act \in Steers /\ k.act \in ActionIds /\ d \in ActionIds
      BY <1>1, <1>17, SteersAreSteerIds, IdsAreDistinct
         DEF CallHolds, Names, Steering, SteerSteps
    <3>2. k.act # c
      BY <1>7, <1>12
    <3>3. k.act = c
      BY <1>1, <1>3, <1>5, <3>1 DEF OneUnresolvedSteer, Unresolved
    <3> QED
      BY <3>2, <3>3
  <2>3. Reports(k)'
    <3>1. k.pc = "receipt" => k.act \in ActionIds
      BY <1>17, IdsAreDistinct DEF CallHolds, Names
    <3> QED
      BY <1>9, <1>11, <1>12, <1>17, <3>1
         DEF CallHolds, Reports, Answering, LastTurn
  <2> QED
    BY <1>17, <2>1, <2>2, <2>3
       DEF CallHolds, Names, Steering, Verified, Reports, Collects, Baseline
<1>18. (\A g \in Hosts : CallHolds(host[g]))'
  <2> SUFFICES ASSUME NEW g \in Hosts PROVE CallHolds(host[g])'
    OBVIOUS
  <2>1. CASE g = h
    BY <1>2, <1>7, <1>8, <1>9, <1>11, <2>1
       DEF CallHolds, Names, StopSteps, SteerSteps, Steering, Verified, Reports, Collects, Witness
  <2>2. CASE g # h
    BY <1>8, <1>17, <2>2, HostsType
  <2> QED
    BY <2>1, <2>2
<1>19. Fenced'
  <2>1. \A g \in Hosts, d \in SteerIds : Typing(host'[g], d) => Typing(host[g], d)
    BY <1>8 DEF Typing
  <2> QED
    BY <1>1, <1>9, <1>11, <2>1 DEF Fenced, InPage, Outcome
<1>20. OneUnresolvedSteer' /\ StopReportsAreTrue'
  BY <1>9, <1>11, <1>12
     DEF Inv, OneUnresolvedSteer, StopReportsAreTrue, Outcome, Answering, LastTurn
<1>21. ASSUME Uncredited' PROVE Alone' /\ Current'
  <2>1. w \notin HumanTurns /\ \A d \in SteerIds : d # c => Witness(d) \notin HumanTurns
    BY <1>2, <1>12, <1>21, IdsAreDistinct DEF Uncredited
  <2>2. Uncredited
    BY <1>4, <2>1, IdsAreDistinct DEF Uncredited
  <2>3. Alone /\ Current
    BY <2>2 DEF Inv
  <2>4. \A g \in Hosts : At(g, "click")' => /\ At(g, "click") /\ host'[g] = host[g]
                                          /\ Act(g) # c /\ Act(g) \in ActionIds
    <3> SUFFICES ASSUME NEW g \in Hosts, At(g, "click")'
                 PROVE  /\ At(g, "click") /\ host'[g] = host[g]
                        /\ Act(g) # c /\ Act(g) \in ActionIds
      OBVIOUS
    <3>1. At(g, "click") /\ host'[g] = host[g] /\ Act(g) \in ActionIds
      BY <1>8, HostsType, IdsAreDistinct DEF At, Act, CallHolds, Names, SteerSteps
    <3>2. ASSUME Act(g) = c PROVE FALSE
      <4>1. base[c] + 1 > base[c]
        BY <1>3
      <4>2. w \in HumanTurns
        BY <1>0, <1>2, <2>3, <3>1, <3>2, <4>1 DEF Alone
      <4> QED
        BY <2>1, <4>2
    <3> QED
      BY <3>1, <3>2
  <2>5. Alone'
    <3>1. (\A g \in Hosts : At(g, "click") =>
              /\ Outcome(Act(g)) = "open" /\ Witness(Act(g)) = "none"
              /\ \A i \in DOMAIN page.turns : i > base[Act(g)] => page.turns[i] \in HumanTurns)'
      BY <1>9, <1>11, <2>3, <2>4 DEF Alone, Act, Outcome, Witness
    <3> QED
      BY <1>9, <2>3, <3>1 DEF Alone
  <2>6. ASSUME NEW t, Settled(t) PROVE Settled(t)'
    <3>1. (\A d \in SteerIds : d \in InPage => Witness(d) # "none")'
      BY <1>9, <1>12, <2>6, IdsAreDistinct DEF Settled, InPage
    <3> QED
      BY <1>9, <2>4, <2>6, <3>1 DEF Settled
  <2>7. Current'
    BY <1>8, <1>9, <2>3, <2>6, CurrentStays
  <2> QED
    BY <2>5, <2>7
<1> QED
  BY <1>13, <1>14, <1>15, <1>16, <1>18, <1>19, <1>20, <1>21 DEF Inv

---------------------------------------------------------------------------
(* An action gets its receipt *)

\* A steer that is last already is moved nowhere.
LEMMA LastStaysLast ==
    ASSUME NEW queue \in Seq(Causes), NEW c, Len(queue) \in DOMAIN queue, queue[Len(queue)] = c,
           \A i \in DOMAIN queue : queue[i] = c => i = Len(queue)
    PROVE  MovedToEnd(queue, c) = queue
<1> DEFINE n == Len(queue)
           left == SubSeq(queue, 1, n - 1)
           right == SubSeq(queue, n + 1, n)
           shorter == RemoveAt(queue, n)
<1>1. n \in Nat /\ n \in 1 .. n /\ DOMAIN queue = 1 .. n /\ \A i \in 1 .. n : queue[i] \in Causes
  OBVIOUS
<1>2. PositionOf(queue, c) = n
  BY DEF PositionOf
<1> HIDE DEF n
<1>3. /\ left \in Seq(Causes) /\ Len(left) = n - 1
      /\ \A i \in 1 .. n - 1 : left[i] = queue[i]
  <2>1. \A i \in 1 .. n - 1 : queue[i] \in Causes
    BY <1>1
  <2>2. /\ left \in Seq(Causes) /\ Len(left) = IF 1 <= n - 1 THEN (n - 1) - 1 + 1 ELSE 0
        /\ \A i \in 1 .. (n - 1) - 1 + 1 : left[i] = queue[1 + i - 1]
    BY <2>1, <1>1, SubSeqProperties
  <2> QED
    BY <2>2, <1>1
<1>4. right \in Seq(Causes) /\ Len(right) = 0
  <2>1. \A i \in n + 1 .. n : queue[i] \in Causes
    BY <1>1
  <2>2. right \in Seq(Causes) /\ Len(right) = IF n + 1 <= n THEN n - (n + 1) + 1 ELSE 0
    BY <2>1, <1>1, SubSeqProperties
  <2> QED
    BY <2>2, <1>1
<1>5. shorter = left \o right
  BY DEF RemoveAt, n
<1> HIDE DEF left, right, shorter
<1>6. /\ shorter \in Seq(Causes) /\ Len(shorter) = n - 1
      /\ \A i \in 1 .. n - 1 : shorter[i] = queue[i]
  <2>1. /\ shorter \in Seq(Causes) /\ Len(shorter) = Len(left) + Len(right)
        /\ \A i \in 1 .. Len(left) + Len(right) :
              shorter[i] = IF i <= Len(left) THEN left[i] ELSE right[i - Len(left)]
    BY <1>3, <1>4, <1>5, ConcatProperties
  <2>2. Len(left) = n - 1 /\ Len(left) + Len(right) = n - 1
    BY <1>1, <1>3, <1>4
  <2> QED
    BY <2>1, <2>2, <1>3
<1>7. queue[n] = c /\ c \in Causes
  BY <1>1 DEF n
<1>8. /\ Append(shorter, c) \in Seq(Causes) /\ Len(Append(shorter, c)) = n
      /\ \A i \in 1 .. n : Append(shorter, c)[i] = queue[i]
  BY <1>1, <1>6, <1>7
<1>9. Append(shorter, c) = queue
  <2>1. Len(Append(shorter, c)) = Len(queue)
    BY <1>8 DEF n
  <2>2. \A i \in 1 .. Len(queue) : Append(shorter, c)[i] = queue[i]
    BY <1>8 DEF n
  <2> QED
    BY <1>8, <2>1, <2>2, SeqEqual
<1> QED
  BY <1>2, <1>9 DEF MovedToEnd, shorter

LEMMA ReceiptControlKeeps ==
    ASSUME Inv, NEW h \in Hosts, ReceiptControl(h)
    PROVE  Inv'
<1>0. PICK c, o : c = host[h].act /\ o = host[h].out
  OBVIOUS
<1>1. /\ Shapes /\ Ledger /\ Conversation /\ Ranking /\ Fenced /\ OneUnresolvedSteer
      /\ StopReportsAreTrue
  BY DEF Inv
<1>2. host[h].pc = "receipt" /\ c \in ControlIds /\ c \in ActionIds /\ o \in Outcomes
  BY <1>0, HostsType, IdsAreDistinct
     DEF ReceiptControl, At, CallHolds, Names, Reports, Calls
<1>3. /\ c \in SteerIds =>
            /\ s.actions[c].kind = "work_steer" /\ o # "uncertain"
            /\ o = "satisfied" => Witness(c) # "none"
      /\ c \in StopIds /\ o = "satisfied" => ~Answering(expects[c])
  BY <1>0, <1>2, HostsType DEF CallHolds, Reports
<1>4. /\ host' \in [Hosts -> Calls] /\ \A g \in Hosts : g # h => host'[g] = host[g]
      /\ host'[h] = Idle /\ Lands(h)
  BY <1>1, Returns DEF ReceiptControl
<1>5. /\ base' = base /\ page' = page /\ expects' = expects
      /\ stops' = stops /\ answer' = answer
  BY DEF ReceiptControl, history
<1>6. CASE s' = s /\ ranked' = ranked
  <2>1. Quiet
    BY <1>1, <1>5, <1>6, Unmoved DEF Shapes
  <2> QED
    BY <1>1, <1>4, <1>5, <2>1, QuietStep DEF Shapes
<1>7. CASE /\ ActionReceiptLegal(s, c) /\ s' = ActionReceipt(s, c, o)
           /\ ranked' = IF c \in SteerIds THEN MovedToEnd(ranked, c) ELSE ranked
  <2>1. s.actions[c].kind # "absent" /\ Outcome(c) = "open"
    BY <1>7 DEF ActionReceiptLegal, Recorded, Outcome
  <2>2. /\ s' \in OperationStates
        /\ s'.witnesses = s.witnesses
        /\ s'.lifecycle = s.lifecycle /\ s'.binding = s.binding
        /\ s'.establishedTurn = s.establishedTurn
        /\ s'.actions[c].kind = s.actions[c].kind /\ s'.actions[c].outcome = o
        /\ \A d \in ActionIds : d # c => s'.actions[d] = s.actions[d]
    BY <1>1, <1>2, <1>7, <2>1, ReceiptEffect
  <2>3. CASE c \in StopIds
    <3>1. c \notin Causes /\ c \notin SteerIds
      BY <2>3, IdsAreDistinct DEF Causes
    <3>2. \A d \in Causes : s'.actions[d] = s.actions[d]
      BY <2>2, <3>1, IdsAreDistinct
    <3>3. \A d \in StopIds : /\ s'.actions[d].kind \in {"absent", "stop"}
                             /\ s'.actions[d].outcome = "satisfied" =>
                                    Outcome(d) = "satisfied" \/ ~Answering(expects[d])
      BY <1>1, <1>3, <2>2, <2>3, IdsAreDistinct DEF Ledger, Outcome
    <3>4. Quiet
      BY <1>1, <1>5, <1>7, <2>2, <3>1, <3>2, <3>3 DEF Quiet, Shapes
    <3> QED
      BY <1>1, <1>4, <1>5, <3>4, QuietStep DEF Shapes
  <2>4. CASE c \in SteerIds
    <3>1. /\ c \in Causes /\ c # SendId /\ c \notin StopIds /\ c \in Steers
          /\ s.actions[c].kind = "work_steer" /\ o \in {"satisfied", "not_satisfied"}
          /\ o = "satisfied" => Witness(c) # "none"
      BY <1>1, <1>2, <1>3, <2>4, SteersAreSteerIds, IdsAreDistinct DEF Causes, Outcomes
    <3>2. /\ ranked' = ranked
      <4>1. /\ ranked \in Seq(Causes) /\ Len(ranked) \in DOMAIN ranked
            /\ ranked[Len(ranked)] = c
        <5>1. PICK i \in DOMAIN ranked : ranked[i] = c
          BY <1>1, <3>1 DEF Ranking
        <5> QED
          BY <1>1, <2>1, <3>1, <5>1 DEF Ranking, Unresolved
      <4>2. \A i \in DOMAIN ranked : ranked[i] = c => i = Len(ranked)
        BY <1>1, <4>1 DEF Ranking
      <4>3. MovedToEnd(ranked, c) = ranked
        BY <4>1, <4>2, LastStaysLast
      <4> QED
        BY <1>7, <2>4, <4>3
    <3>3. /\ Steers' = Steers
          /\ \A d : Witness(d)' = Witness(d)
          /\ \A d \in ActionIds : s'.actions[d].kind = s.actions[d].kind
          /\ \A d \in ActionIds : d # c => Outcome(d)' = Outcome(d)
          /\ Outcome(c)' = o
          /\ \A d \in ActionIds : Outcome(d)' = "open" => Outcome(d) = "open"
          /\ \A d \in ActionIds : Unresolved(d)' => Unresolved(d)
      BY <1>2, <2>1, <2>2, <3>1 DEF Steers, OfKind, Witness, Outcome, Unresolved
    <3>4. Shapes'
      BY <1>1, <1>4, <1>5, <2>2 DEF Shapes
    <3>5. Ledger'
      <4>1. (/\ s.lifecycle = "fixed" /\ s.binding = "tab" /\ s.establishedTurn = "none"
             /\ s.actions[SendId].kind = "send" /\ Outcome(SendId) = "satisfied"
             /\ Witness(SendId) = SendId
             /\ \A d \in StopIds : s.actions[d].kind \in {"absent", "stop"} /\ Witness(d) = "none")'
        BY <1>1, <2>2, <3>1, <3>3, IdsAreDistinct DEF Ledger, Outcome
      <4>2. (\A d \in SteerIds :
                /\ s.actions[d].kind \in {"absent", "work_steer"}
                /\ Outcome(d) # "uncertain"
                /\ Outcome(d) = "satisfied" => Witness(d) # "none"
                /\ Witness(d) # "none" => s.actions[d].kind = "work_steer")'
        BY <1>1, <3>1, <3>3, IdsAreDistinct DEF Ledger
      <4> QED
        BY <4>1, <4>2 DEF Ledger
    <3>6. Conversation'
      BY <1>1, <1>5, <3>3 DEF Conversation
    <3>7. Ranking'
      <4>1. (\A d \in Steers : Unresolved(d) => ranked[Len(ranked)] = d)'
        BY <1>1, <3>2, <3>3, LedgerShape DEF Ranking, Shapes
      <4>2. \A i \in DOMAIN ranked : ranked[i] \in ActionIds
        BY <1>1, IdsAreDistinct DEF Ranking
      <4>3. (\A i \in DOMAIN ranked : s.actions[ranked[i]].kind # "absent")'
        BY <1>1, <3>2, <3>3, <4>2 DEF Ranking
      <4>4. (\A d \in Causes : s.actions[d].kind # "absent" => \E i \in DOMAIN ranked : ranked[i] = d)'
        BY <1>1, <3>2, <3>3, IdsAreDistinct DEF Ranking
      <4>5. (\A i, j \in DOMAIN ranked :
                /\ Witness(ranked[i]) # "none" /\ Witness(ranked[j]) # "none"
                /\ Baseline(ranked[i]) < Baseline(ranked[j])
                => i < j)'
        BY <1>1, <1>5, <2>2, <3>2 DEF Ranking, Witness, Baseline
      <4> QED
        BY <1>1, <3>2, <4>1, <4>3, <4>4, <4>5 DEF Ranking
    <3>8. ASSUME NEW k \in Calls, CallHolds(k), NEW g \in Hosts, host'[g] = k
          PROVE  CallHolds(host[g])'
      <4>1. Names(k)'
        BY <1>5, <3>8 DEF CallHolds, Names
      <4>2. /\ k.pc \in {"execute", "click", "verify", "witness"} => k.act \in ActionIds
            /\ k.pc = "receipt" => k.act \in ActionIds
            /\ k.pc \in {"observe", "terminal"} => k.act \in ActionIds
        BY <3>8, IdsAreDistinct DEF CallHolds, Names, Collects, SteerSteps
      <4>3. Steering(k)' /\ Collects(k)'
        BY <1>5, <3>3, <3>8, <4>2 DEF CallHolds, Steering, Collects, Baseline
      <4>4. Verified(k)'
        BY <1>5, <3>3, <3>8, <4>2 DEF CallHolds, Verified
      <4>5. Reports(k)'
        BY <1>5, <3>3, <3>8, <4>2 DEF CallHolds, Reports, Answering, LastTurn
      <4> QED
        BY <3>8, <4>1, <4>3, <4>4, <4>5
           DEF CallHolds, Names, Steering, Verified, Reports, Collects, Baseline
    <3>9. (\A g \in Hosts : CallHolds(host[g]))'
      <4> SUFFICES ASSUME NEW g \in Hosts PROVE CallHolds(host[g])'
        OBVIOUS
      <4>1. CASE g = h
        BY <1>4, <4>1 DEF Lands
      <4>2. CASE g # h
        BY <1>4, <3>8, <4>2, HostsType
      <4> QED
        BY <4>1, <4>2
    <3>10. \A g \in Hosts, d \in SteerIds : Typing(host'[g], d) => g # h /\ host'[g] = host[g]
      BY <1>4 DEF Typing, Idle
    <3>11. o = "not_satisfied" =>
              Typing(host[h], c) /\ c \notin InPage /\ \A g \in Hosts : Typing(host[g], c) => g = h
      BY <1>0, <1>1, <1>2, <2>4 DEF Typing, Fenced
    <3>12. Fenced'
      <4>1. InPage' = InPage
        BY <1>5 DEF InPage
      <4> SUFFICES ASSUME NEW d \in SteerIds
                   PROVE  (/\ \A f, g \in Hosts : Typing(host[f], d) /\ Typing(host[g], d) => f = g
                           /\ \A g \in Hosts : Typing(host[g], d) =>
                                  d \notin InPage /\ Outcome(d) # "not_satisfied"
                           /\ d \in InPage => s.actions[d].kind = "work_steer" /\ Outcome(d) # "not_satisfied"
                           /\ \A i \in DOMAIN page.turns : page.turns[i] = d => i > base[d])'
        BY DEF Fenced
      <4>2. d \in ActionIds
        BY IdsAreDistinct
      <4>3. CASE d = c
        BY <1>1, <1>5, <3>1, <3>3, <3>10, <3>11, <4>1, <4>2, <4>3 DEF Fenced
      <4>4. CASE d # c
        BY <1>1, <1>5, <3>3, <3>10, <4>1, <4>2, <4>4 DEF Fenced
      <4> QED
        BY <4>3, <4>4
    <3>13. OneUnresolvedSteer'
      BY <1>1, <3>3, LedgerShape DEF OneUnresolvedSteer, Shapes
    <3>14. StopReportsAreTrue'
      BY <1>1, <1>5, <3>1, <3>3, IdsAreDistinct DEF StopReportsAreTrue, Answering, LastTurn
    <3>15. ASSUME Uncredited' PROVE Alone' /\ Current'
      <4>1. Alone /\ Current
        BY <3>3, <3>15 DEF Inv, Uncredited
      <4>2. \A g \in Hosts : At(g, "click")' => /\ At(g, "click") /\ g # h /\ host'[g] = host[g]
                                              /\ Act(g) \in ActionIds /\ Act(g) # c
        <5> SUFFICES ASSUME NEW g \in Hosts, At(g, "click")'
                     PROVE  /\ At(g, "click") /\ g # h /\ host'[g] = host[g]
                            /\ Act(g) \in ActionIds /\ Act(g) # c
          OBVIOUS
        <5>1. At(g, "click") /\ g # h /\ host'[g] = host[g]
          BY <1>4 DEF At, Idle
        <5>2. Act(g) \in ActionIds
          BY <5>1, HostsType, IdsAreDistinct DEF At, Act, CallHolds, Names, SteerSteps
        <5>3. Witness(Act(g)) = "none"
          BY <4>1, <5>1 DEF Alone
        <5>4. Act(g) = c => Typing(host[g], c)
          BY <5>1 DEF At, Act, Typing
        <5> QED
          BY <3>1, <3>11, <5>1, <5>2, <5>3, <5>4
      <4>3. Alone'
        <5>1. (\A g \in Hosts : At(g, "click") =>
                  /\ Outcome(Act(g)) = "open" /\ Witness(Act(g)) = "none"
                  /\ \A i \in DOMAIN page.turns : i > base[Act(g)] => page.turns[i] \in HumanTurns)'
          BY <1>5, <2>2, <4>1, <4>2 DEF Alone, Act, Outcome, Witness
        <5> QED
          BY <1>5, <4>1, <5>1 DEF Alone
      <4>4. ASSUME NEW t, Settled(t) PROVE Settled(t)'
        BY <1>5, <3>3, <4>2, <4>4 DEF Settled, InPage
      <4>5. \A g \in Hosts : host'[g] = host[g] \/ host'[g].pc \notin {"capture", "complete"}
        BY <1>4 DEF Idle
      <4>6. Current'
        BY <1>5, <4>1, <4>4, <4>5, CurrentStays
      <4> QED
        BY <4>3, <4>6
    <3> QED
      BY <3>4, <3>5, <3>6, <3>7, <3>9, <3>12, <3>13, <3>14, <3>15 DEF Inv
  <2> QED
    BY <1>2, <2>3, <2>4 DEF ControlIds
<1>8. \/ /\ ActionReceiptLegal(s, c) /\ s' = ActionReceipt(s, c, o)
         /\ ranked' = IF c \in SteerIds THEN MovedToEnd(ranked, c) ELSE ranked
      \/ s' = s /\ ranked' = ranked
  BY <1>0 DEF ReceiptControl, Act
<1> QED
  BY <1>6, <1>7, <1>8

---------------------------------------------------------------------------
(* The initial state, the steps and the theorems *)

\* The record of an operation whose Send is proven, field by field.
LEMMA GeneratingShape ==
    /\ Generating \in OperationStates
    /\ Generating.lifecycle = "fixed" /\ Generating.binding = "tab"
    /\ Generating.establishedTurn = "none"
    /\ Generating.actions[SendId].kind = "send"
    /\ Generating.actions[SendId].outcome = "satisfied"
    /\ Generating.witnesses[SendId] = SendId
    /\ \A a \in ActionIds : a # SendId =>
          Generating.actions[a] = NoAction /\ Generating.witnesses[a] = "none"
<1> DEFINE created == Created("receipt_only")
           bound == TargetBound(created, "fixed", "tab")
           intended == ActionIntent(bound, SendId, "send", "tab")
           sent == OwnershipBaseline(intended, SendId)
           proven == SubmissionWitness(sent, SendId, SendId)
           settled == ActionReceipt(proven, SendId, "satisfied")
           OpenSend == [kind |-> "send", target |-> "tab", outcome |-> "open"]
           DoneSend == [kind |-> "send", target |-> "tab", outcome |-> "satisfied"]
<1>1. Generating = PhaseChange(settled, "generating")
  BY DEF Generating, ActionPrepared
<1>2. SendId \in ActionIds /\ SendId \in Turns
  BY IdsAreDistinct
<1>3. /\ OpenSend \in ActionRecord /\ DoneSend \in ActionRecord /\ NoAction \in ActionRecord
      /\ NoTransfer \in TransferRecord
  BY DEF ActionRecord, TransferRecord, Kinds, Bindings, Outcomes
<1>4. [OpenSend EXCEPT !.outcome = "satisfied"] = DoneSend
  OBVIOUS
<1> HIDE DEF settled, proven, sent, intended, bound
<1>5. /\ created \in OperationStates /\ created.establishedTurn = "none"
      /\ \A a \in ActionIds : created.actions[a] = NoAction /\ created.witnesses[a] = "none"
  <2> DEFINE plain == [a \in ActionIds |-> NoAction]
             empty == [a \in ActionIds |-> "none"]
             still == [a \in ActionIds |-> NoTransfer]
  <2>1. created = [phase |-> "prepared", boundary |-> "none", lifecycle |-> "unbound",
                   binding |-> "none", actions |-> plain, baselines |-> {}, witnesses |-> empty,
                   establishedTurn |-> "none", rearm |-> "none", transfers |-> still,
                   policy |-> "receipt_only", receipt |-> "none", delivered |-> {}]
    BY DEF Created
  <2>2. /\ plain \in [ActionIds -> ActionRecord] /\ empty \in [ActionIds -> Turns \cup {"none"}]
        /\ still \in [ActionIds -> TransferRecord]
    BY <1>3
  <2>3. \A a \in ActionIds : plain[a] = NoAction /\ empty[a] = "none"
    OBVIOUS
  <2> HIDE DEF created, plain, empty, still
  <2> QED
    BY <2>1, <2>2, <2>3 DEF OperationStates, Phases, Boundaries
<1> HIDE DEF created, OpenSend, DoneSend
<1>6. /\ bound \in OperationStates /\ bound.lifecycle = "fixed" /\ bound.binding = "tab"
      /\ bound.establishedTurn = "none"
      /\ bound.actions = created.actions /\ bound.witnesses = created.witnesses
  BY <1>5 DEF bound, TargetBound, OperationStates, Bindings
<1>7. /\ intended \in OperationStates /\ intended.lifecycle = "fixed" /\ intended.binding = "tab"
      /\ intended.establishedTurn = "none" /\ intended.witnesses = bound.witnesses
      /\ intended.actions = [bound.actions EXCEPT ![SendId] = OpenSend]
  <2> DEFINE ledger == [bound.actions EXCEPT ![SendId] = OpenSend]
             high == Higher(BoundaryForAction("send"), bound.boundary)
  <2>1. ledger \in [ActionIds -> ActionRecord]
    BY <1>3, <1>6 DEF OperationStates
  <2>2. high \in Boundaries
    BY <1>6 DEF Higher, BoundaryForAction, Boundaries, OperationStates
  <2>3. intended = [bound EXCEPT !.actions = ledger, !.boundary = high]
    BY DEF intended, ActionIntent, OpenSend
  <2> HIDE DEF ledger, high
  <2>4. /\ intended \in OperationStates /\ intended.lifecycle = "fixed"
        /\ intended.binding = "tab" /\ intended.establishedTurn = "none"
        /\ intended.witnesses = bound.witnesses /\ intended.actions = ledger
    BY <1>6, <2>1, <2>2, <2>3 DEF OperationStates
  <2> QED
    BY <2>4 DEF ledger
<1>8. /\ sent \in OperationStates /\ sent.lifecycle = "fixed" /\ sent.binding = "tab"
      /\ sent.establishedTurn = "none" /\ sent.witnesses = intended.witnesses
      /\ sent.actions = intended.actions
  BY <1>2, <1>7 DEF sent, OwnershipBaseline, OperationStates
<1>9. /\ proven \in OperationStates /\ proven.lifecycle = "fixed" /\ proven.binding = "tab"
      /\ proven.establishedTurn = "none" /\ proven.actions = sent.actions
      /\ proven.witnesses = [sent.witnesses EXCEPT ![SendId] = SendId]
  <2> DEFINE shown == [sent.witnesses EXCEPT ![SendId] = SendId]
  <2>1. shown \in [ActionIds -> Turns \cup {"none"}]
    BY <1>2, <1>8 DEF OperationStates
  <2>2. proven = [sent EXCEPT !.witnesses = shown]
    BY DEF proven, SubmissionWitness
  <2> HIDE DEF shown
  <2>3. /\ proven \in OperationStates /\ proven.lifecycle = "fixed" /\ proven.binding = "tab"
        /\ proven.establishedTurn = "none" /\ proven.actions = sent.actions
        /\ proven.witnesses = shown
    BY <1>8, <2>1, <2>2 DEF OperationStates
  <2> QED
    BY <2>3 DEF shown
<1>10. /\ settled \in OperationStates /\ settled.lifecycle = "fixed" /\ settled.binding = "tab"
       /\ settled.establishedTurn = "none" /\ settled.witnesses = proven.witnesses
       /\ settled.actions = [proven.actions EXCEPT ![SendId] = DoneSend]
  <2> DEFINE ledger == [proven.actions EXCEPT ![SendId] = DoneSend]
  <2>1. ledger \in [ActionIds -> ActionRecord]
    BY <1>3, <1>9 DEF OperationStates
  <2>2. proven.actions[SendId] = OpenSend
    BY <1>2, <1>6, <1>7, <1>8, <1>9 DEF OperationStates
  <2>3. settled = [proven EXCEPT !.actions[SendId] = [OpenSend EXCEPT !.outcome = "satisfied"]]
    BY <1>9, <2>2 DEF settled, ActionReceipt, OperationStates
  <2>4. settled = [proven EXCEPT !.actions = ledger]
    BY <1>4, <2>3
  <2> HIDE DEF ledger
  <2>5. /\ settled \in OperationStates /\ settled.lifecycle = "fixed" /\ settled.binding = "tab"
        /\ settled.establishedTurn = "none" /\ settled.witnesses = proven.witnesses
        /\ settled.actions = ledger
    BY <1>9, <2>1, <2>4 DEF OperationStates
  <2> QED
    BY <2>5 DEF ledger
<1>11. /\ Generating \in OperationStates /\ Generating.lifecycle = "fixed"
       /\ Generating.binding = "tab" /\ Generating.establishedTurn = "none"
       /\ Generating.witnesses = settled.witnesses /\ Generating.actions = settled.actions
  BY <1>1, <1>10 DEF PhaseChange, OperationStates, Phases
<1>12. settled.actions[SendId] = DoneSend /\ settled.witnesses[SendId] = SendId
  BY <1>2, <1>8, <1>9, <1>10 DEF OperationStates
<1>13. \A a \in ActionIds : a # SendId =>
          settled.actions[a] = NoAction /\ settled.witnesses[a] = "none"
  BY <1>2, <1>5, <1>6, <1>7, <1>8, <1>9, <1>10 DEF OperationStates
<1> QED
  BY <1>11, <1>12, <1>13 DEF DoneSend

LEMMA InvInit == Init => Inv
<1> SUFFICES ASSUME Init PROVE Inv
  OBVIOUS
<1>1. /\ s \in OperationStates /\ s.lifecycle = "fixed" /\ s.binding = "tab"
      /\ s.establishedTurn = "none"
      /\ s.actions[SendId].kind = "send" /\ s.actions[SendId].outcome = "satisfied"
      /\ s.witnesses[SendId] = SendId
      /\ \A a \in ActionIds : a # SendId =>
            /\ s.actions[a].kind = "absent" /\ s.actions[a].outcome = "open"
            /\ s.witnesses[a] = "none"
  BY GeneratingShape DEF Init, NoAction
<1>2. /\ page.turns = <<SendId>> /\ page.generating = TRUE /\ page \in Pages
      /\ \A i \in DOMAIN page.turns : i = 1 /\ page.turns[i] = SendId
  BY DEF Init, Pages, Causes
<1>3. \A h \in Hosts : host[h].pc = "idle" /\ host[h] = Idle /\ Idle \in Calls
  BY DEF Init, Idle, Calls, Steps
<1>4. Shapes
  BY <1>1, <1>2, <1>3 DEF Init, Shapes
<1>5. Ledger
  BY <1>1, IdsAreDistinct DEF Ledger, Outcome, Witness
<1>6. Steers = {} /\ \A c \in SteerIds : Witness(c) = "none"
  BY <1>1, IdsAreDistinct DEF Steers, OfKind, Witness
<1>7. Conversation
  BY <1>2, <1>6 DEF Init, Conversation
<1>8. Ranking
  <2>1. /\ ranked \in Seq(Causes) /\ DOMAIN ranked = {1} /\ ranked[1] = SendId
    BY DEF Init, Causes
  <2>2. \A c \in Causes : s.actions[c].kind # "absent" => c = SendId
    BY <1>1, IdsAreDistinct
  <2> QED
    BY <1>1, <1>6, <2>1, <2>2 DEF Ranking, Baseline
<1>9. \A h \in Hosts : CallHolds(host[h])
  BY <1>3 DEF CallHolds, Names, StopSteps, SteerSteps, Steering, Verified, Reports, Collects
<1>10. /\ \A h \in Hosts : \A c : ~Typing(host[h], c)
       /\ \A c \in SteerIds : c \notin InPage
  BY <1>2, <1>3, IdsAreDistinct DEF Typing, InPage
<1>11. Fenced
  BY <1>10 DEF Fenced, InPage
<1>12. OneUnresolvedSteer /\ StopReportsAreTrue
  BY <1>1, <1>6, IdsAreDistinct DEF OneUnresolvedSteer, StopReportsAreTrue, Outcome
<1>13. Alone /\ Current
  BY <1>3, <1>10 DEF Init, Alone, Current, At, InPage
<1> QED
  BY <1>4, <1>5, <1>7, <1>8, <1>9, <1>11, <1>12, <1>13 DEF Inv

LEMMA InvNext == Inv /\ [Next]_vars => Inv'
<1> SUFFICES ASSUME Inv, [Next]_vars PROVE Inv'
  OBVIOUS
<1>1. CASE UNCHANGED vars
  <2>1. Quiet
    BY <1>1, Unmoved DEF vars, Inv, Shapes
  <2> QED
    BY <1>1, <2>1, QuietStep DEF vars, Inv, Shapes
<1>2. ASSUME NEW h \in Hosts, NEW c \in ControlIds, Begin(h, c) PROVE Inv'
  BY <1>2, BeginKeeps
<1>3. ASSUME NEW h \in Hosts, CollectRead(h) PROVE Inv'
  BY <1>3, CollectReadKeeps
<1>4. ASSUME NEW h \in Hosts, Step(h) PROVE Inv'
  BY <1>4, ObserveTurnKeeps, StopIntentKeeps, ExecuteStopKeeps, SettleStopKeeps,
     PrepareSteerKeeps, PersistSteerKeeps, RecheckSteerKeeps, ClickSteerKeeps,
     VerifySteerKeeps, WitnessSteerKeeps, ReceiptControlKeeps, CollectObserveKeeps,
     PersistTerminalKeeps, AdvanceToCapturingKeeps, CompleteReceiptKeeps, EndKeeps DEF Step
<1> QED
  BY <1>1, <1>2, <1>3, <1>4, AnswerEndsKeeps, HumanTypesKeeps DEF Next

LEMMA InvHolds == Spec => []Inv
BY InvInit, InvNext, PTL DEF Spec

LEMMA InvTypes == Inv => TypeOK
<1> SUFFICES ASSUME Inv PROVE TypeOK
  OBVIOUS
<1>1. ranked \in Seq({SendId} \cup SteerIds)
  BY DEF Inv, Ranking, Causes
<1>2. page \in [turns: Seq(Turns), generating: BOOLEAN]
  <2>1. page.turns \in Seq(Turns)
    BY PageShape, SeqMonotonic, IdsAreDistinct DEF Inv
  <2> QED
    BY <2>1, PageShape DEF Inv
<1> QED
  BY <1>1, <1>2 DEF Inv, Shapes, TypeOK

\* The ledger, the conversation, the requests and the locals of every running call keep
\* their shapes, whatever the hosts of OperationService.control and collect do.
THEOREM ControlTypeCorrect == Spec => []TypeOK
BY InvHolds, InvTypes, PTL

\* persistSteerIntentAndBaseline appends a steer only to a ledger without an unresolved
\* one: over all hosts, retries, lost acknowledgements and early ends, at most one steer
\* of the ledger lacks its outcome.
THEOREM SteersAreResolvedInTurn == Spec => []OneUnresolvedSteer
<1>1. Inv => OneUnresolvedSteer
  BY DEF Inv
<1> QED
  BY <1>1, InvHolds, PTL

LEMMA InvFences == Inv => SteersAreFenced
<1> SUFFICES ASSUME Inv, NEW c \in SteerIds, NEW i \in Positions(c)
             PROVE  /\ Positions(c) = {i}
                    /\ s.actions[c].kind = "work_steer" /\ Outcome(c) # "not_satisfied"
                    /\ i > base[c]
  BY DEF SteersAreFenced
<1>1. i \in DOMAIN page.turns /\ page.turns[i] = c /\ c \in InPage
  BY DEF Positions, InPage
<1>2. Positions(c) = {i}
  BY <1>1 DEF Inv, Conversation, Positions
<1> QED
  BY <1>1, <1>2 DEF Inv, Fenced

\* The fence of persistSteerIntentAndBaseline and the recheck of executePrepared: a steer
\* is typed at most once, after its intent and behind its durable baseline, and the
\* receipt not_satisfied is true of it: its text never reaches the conversation.
THEOREM SteersAreTypedOnce == Spec => []SteersAreFenced
BY InvHolds, InvFences, PTL

\* executeControlOnce and the observation that follows: a Stop that is reported satisfied
\* named a turn that is no longer being answered, then and ever after.
THEOREM StoppedTurnsStayStopped == Spec => []StopReportsAreTrue
<1>1. Inv => StopReportsAreTrue
  BY DEF Inv
<1> QED
  BY <1>1, InvHolds, PTL

LEMMA InvAnswers == Inv => AnswerIsCurrent
<1> SUFFICES ASSUME Inv, answer # "none", \A c \in SteerIds : s.witnesses[c] \notin HumanTurns,
                    NEW c \in SteerIds, NEW i \in Positions(c)
             PROVE  s.witnesses[c] # "none" /\ \E j \in Positions(answer) : i <= j
  BY DEF AnswerIsCurrent
<1>1. Settled(answer)
  BY DEF Inv, Uncredited, Witness, Current
<1>2. i \in DOMAIN page.turns /\ page.turns[i] = c /\ c \in InPage
  BY DEF Positions, InPage
<1>3. PICK p \in DOMAIN page.turns :
          /\ page.turns[p] = answer
          /\ \A j \in DOMAIN page.turns : j > p => page.turns[j] \in HumanTurns
  BY <1>1 DEF Settled
<1>4. c \notin HumanTurns
  BY IdsAreDistinct DEF Causes
<1>5. i <= p
  <2>1. i \in Nat /\ p \in Nat
    BY <1>2, <1>3, PageShape DEF Inv
  <2> QED
    BY <1>2, <1>3, <1>4, <2>1
<1> QED
  BY <1>1, <1>2, <1>3, <1>5 DEF Settled, Witness, Positions

\* persistTerminal's second look at the ownership: the answer that completes an operation
\* follows every turn the operation made, each of them witnessed, and no steer is typed
\* after it, unless a steer was credited with a message of the user.
THEOREM AnswersAreCurrent == Spec => []AnswerIsCurrent
BY InvHolds, InvAnswers, PTL

LEMMA InvReads == Inv => UnreadableOnlyByMiscredit
<1> SUFFICES ASSUME Inv, ~Miscredited, NEW c \in Steers, s.witnesses[c] # "none"
             PROVE  Outcome(c) \notin {"not_satisfied", "uncertain"}
  BY DEF UnreadableOnlyByMiscredit, Readable
<1>1. c \in SteerIds
  BY SteersAreSteerIds DEF Inv
<1>2. s.witnesses[c] = c
  BY <1>1 DEF Miscredited
<1>3. c \in InPage
  BY <1>1, <1>2, WitnessesAreInPage DEF Inv, Witness, Causes
<1> QED
  BY <1>1, <1>3 DEF Inv, Fenced, Ledger

\* The one test of the snapshot validator that the reducer leaves to its callers, that no
\* rejected steer has a witness, is kept by the observe-only rule after a steer's intent:
\* only a steer that was credited with a turn it did not make can end as a record that no
\* later call can read.
THEOREM RecordsStayReadable == Spec => []UnreadableOnlyByMiscredit
BY InvHolds, InvReads, PTL
=============================================================================
