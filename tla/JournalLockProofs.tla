--------------------------- MODULE JournalLockProofs ---------------------------
(***************************************************************************)
(* The lock of an operation excludes for any number of processes, hosts    *)
(* and calls.  The invariant says what a process knows at each step: who   *)
(* takes, uses or gives back the lock owns the claim in the file, who      *)
(* recovers owns the guard, and what is about to be moved is the claim of  *)
(* a dead process.                                                         *)
(***************************************************************************)
EXTENDS JournalLock, TLAPS

OwnsLock == \A p \in Procs :
    /\ pc[p] \in {"write", "unwind"} => \E w \in BOOLEAN : lock = {Own(p, w)}
    /\ pc[p] \in Holding => lock = {Own(p, TRUE)}

OwnsGuard == \A p \in Procs :
    /\ pc[p] \in {"guardWrite", "guardUnwind"} => \E w \in BOOLEAN : guard = {Own(p, w)}
    /\ pc[p] \in Guarding => guard = {Own(p, TRUE)}

MovesTheDead == \A p \in Procs :
    /\ pc[p] = "move" => lock = seen[p] /\ lock # {} /\ \A c \in lock : pc[Owner(c)] = "dead"
    /\ moved[p] # {} =>
        /\ pc[p] \in {"checkMoved", "dead"}
        /\ moved[p] = seen[p]
        /\ \A c \in moved[p] : pc[Owner(c)] = "dead"

LivingHavePids == \A p \in Procs : pc[p] # "dead" => p \in pids

LockInv == TypeOK /\ OwnsLock /\ OwnsGuard /\ MovesTheDead /\ LivingHavePids

LEMMA InitLockInv == Init => LockInv
<1> SUFFICES ASSUME Init PROVE LockInv
    OBVIOUS
<1> USE DEF Init
<1>1. TypeOK
    <2>1. 0 \in 0 .. MaxWaits
        BY BoundsAssumption
    <2> QED BY <2>1, NumbersAssumption DEF TypeOK, AtMostOne, Steps
<1>2. OwnsLock /\ OwnsGuard /\ MovesTheDead /\ LivingHavePids
    BY DEF OwnsLock, OwnsGuard, MovesTheDead, LivingHavePids, Holding, Guarding
<1> QED BY <1>1, <1>2 DEF LockInv

LEMMA OwnType ==
    ASSUME TypeOK, NEW p \in Procs, NEW w \in BOOLEAN
    PROVE  /\ Own(p, w) \in Claims
           /\ Owner(Own(p, w)) = p
           /\ Own(p, w).written = w
BY DEF TypeOK, Claims, Tokens, Own, Owner

LEMMA TypeStep == TypeOK /\ [Next]_vars => TypeOK'
<1> SUFFICES ASSUME TypeOK, [Next]_vars PROVE TypeOK'
    OBVIOUS
<1> USE BoundsAssumption DEF TypeOK, AtMostOne, Claims, Tokens, Steps, Owning, Holding, Guarding,
        Recovering, Asking, Goto
<1>1. ASSUME NEW p \in Procs, Start(p) PROVE TypeOK'
    BY <1>1 DEF Start, Draws
<1>2. ASSUME NEW p \in Procs, Create(p) PROVE TypeOK'
    <2>1. \A w \in BOOLEAN : Own(p, w) \in Claims
        BY OwnType
    <2>2. pc' \in [Procs -> Steps]
        BY <1>2 DEF Create
    <2> QED BY <1>2, <2>1, <2>2 DEF Create
<1>3. ASSUME NEW p \in Procs, Write(p) PROVE TypeOK'
    <2>1. \A w \in BOOLEAN : Own(p, w) \in Claims
        BY OwnType
    <2>2. pc' \in [Procs -> Steps]
        BY <1>3 DEF Write
    <2> QED BY <1>3, <2>1, <2>2 DEF Write
<1>4. ASSUME NEW p \in Procs, Unwind(p) PROVE TypeOK'
    BY <1>4 DEF Unwind
<1>5. ASSUME NEW p \in Procs, Inspect(p) PROVE TypeOK'
    BY <1>5 DEF Inspect
<1>6. ASSUME NEW p \in Procs, Probe(p) PROVE TypeOK'
    BY <1>6 DEF Probe
<1>7. ASSUME NEW p \in Procs, Wait(p) PROVE TypeOK'
    BY <1>7 DEF Wait
<1>8. ASSUME NEW p \in Procs, Guard(p) PROVE TypeOK'
    <2>1. \A w \in BOOLEAN : Own(p, w) \in Claims
        BY OwnType
    <2>2. pc' \in [Procs -> Steps]
        BY <1>8 DEF Guard
    <2> QED BY <1>8, <2>1, <2>2 DEF Guard
<1>9. ASSUME NEW p \in Procs, GuardWrite(p) PROVE TypeOK'
    <2>1. \A w \in BOOLEAN : Own(p, w) \in Claims
        BY OwnType
    <2>2. pc' \in [Procs -> Steps]
        BY <1>9 DEF GuardWrite
    <2> QED BY <1>9, <2>1, <2>2 DEF GuardWrite
<1>10. ASSUME NEW p \in Procs, GuardUnwind(p) PROVE TypeOK'
    BY <1>10 DEF GuardUnwind
<1>11. ASSUME NEW p \in Procs, GuardInspect(p) PROVE TypeOK'
    BY <1>11 DEF GuardInspect
<1>12. ASSUME NEW p \in Procs, GuardProbe(p) PROVE TypeOK'
    BY <1>12 DEF GuardProbe
<1>13. ASSUME NEW p \in Procs, Reread(p) PROVE TypeOK'
    BY <1>13 DEF Reread, Return
<1>14. ASSUME NEW p \in Procs, Move(p) PROVE TypeOK'
    BY <1>14 DEF Move, Return
<1>15. ASSUME NEW p \in Procs, CheckMoved(p) PROVE TypeOK'
    BY <1>15 DEF CheckMoved, Return
<1>16. ASSUME NEW p \in Procs, ReadGuard(p) PROVE TypeOK'
    BY <1>16 DEF ReadGuard
<1>17. ASSUME NEW p \in Procs, UnlinkGuard(p) PROVE TypeOK'
    BY <1>17 DEF UnlinkGuard
<1>18. ASSUME NEW p \in Procs, Leave(p) PROVE TypeOK'
    BY <1>18 DEF Leave
<1>19. ASSUME NEW p \in Procs, ReadOwn(p) PROVE TypeOK'
    BY <1>19 DEF ReadOwn
<1>20. ASSUME NEW p \in Procs, Unlink(p) PROVE TypeOK'
    BY <1>20 DEF Unlink
<1>21. ASSUME NEW p \in Procs, Die(p) PROVE TypeOK'
    BY <1>21 DEF Die
<1>22. ASSUME NEW p \in Procs, ReusePid(p) PROVE TypeOK'
    BY <1>22 DEF ReusePid
<1>23. CASE UNCHANGED vars
    BY <1>23 DEF vars
<1> QED BY <1>1, <1>2, <1>3, <1>4, <1>5, <1>6, <1>7, <1>8, <1>9, <1>10, <1>11, <1>12, <1>13, <1>14, <1>15, <1>16, <1>17, <1>18, <1>19, <1>20, <1>21, <1>22, <1>23
    DEF Next, Acquire, Recover, Release

LEMMA LivingStep == TypeOK /\ LivingHavePids /\ [Next]_vars => LivingHavePids'
<1> SUFFICES ASSUME TypeOK /\ LivingHavePids, [Next]_vars PROVE LivingHavePids'
    OBVIOUS
<1> USE DEF TypeOK, LivingHavePids, Goto
<1>1. ASSUME NEW p \in Procs, Start(p) PROVE LivingHavePids'
    BY <1>1 DEF Start, Draws
<1>2. ASSUME NEW p \in Procs, Create(p) PROVE LivingHavePids'
    BY <1>2 DEF Create
<1>3. ASSUME NEW p \in Procs, Write(p) PROVE LivingHavePids'
    BY <1>3 DEF Write
<1>4. ASSUME NEW p \in Procs, Unwind(p) PROVE LivingHavePids'
    BY <1>4 DEF Unwind
<1>5. ASSUME NEW p \in Procs, Inspect(p) PROVE LivingHavePids'
    BY <1>5 DEF Inspect
<1>6. ASSUME NEW p \in Procs, Probe(p) PROVE LivingHavePids'
    BY <1>6 DEF Probe
<1>7. ASSUME NEW p \in Procs, Wait(p) PROVE LivingHavePids'
    BY <1>7 DEF Wait
<1>8. ASSUME NEW p \in Procs, Guard(p) PROVE LivingHavePids'
    BY <1>8 DEF Guard
<1>9. ASSUME NEW p \in Procs, GuardWrite(p) PROVE LivingHavePids'
    BY <1>9 DEF GuardWrite
<1>10. ASSUME NEW p \in Procs, GuardUnwind(p) PROVE LivingHavePids'
    BY <1>10 DEF GuardUnwind
<1>11. ASSUME NEW p \in Procs, GuardInspect(p) PROVE LivingHavePids'
    BY <1>11 DEF GuardInspect
<1>12. ASSUME NEW p \in Procs, GuardProbe(p) PROVE LivingHavePids'
    BY <1>12 DEF GuardProbe
<1>13. ASSUME NEW p \in Procs, Reread(p) PROVE LivingHavePids'
    BY <1>13 DEF Reread, Return
<1>14. ASSUME NEW p \in Procs, Move(p) PROVE LivingHavePids'
    BY <1>14 DEF Move, Return
<1>15. ASSUME NEW p \in Procs, CheckMoved(p) PROVE LivingHavePids'
    BY <1>15 DEF CheckMoved, Return
<1>16. ASSUME NEW p \in Procs, ReadGuard(p) PROVE LivingHavePids'
    BY <1>16 DEF ReadGuard
<1>17. ASSUME NEW p \in Procs, UnlinkGuard(p) PROVE LivingHavePids'
    BY <1>17 DEF UnlinkGuard
<1>18. ASSUME NEW p \in Procs, Leave(p) PROVE LivingHavePids'
    BY <1>18 DEF Leave
<1>19. ASSUME NEW p \in Procs, ReadOwn(p) PROVE LivingHavePids'
    BY <1>19 DEF ReadOwn
<1>20. ASSUME NEW p \in Procs, Unlink(p) PROVE LivingHavePids'
    BY <1>20 DEF Unlink
<1>21. ASSUME NEW p \in Procs, Die(p) PROVE LivingHavePids'
    BY <1>21 DEF Die
<1>22. ASSUME NEW p \in Procs, ReusePid(p) PROVE LivingHavePids'
    BY <1>22 DEF ReusePid
<1>23. CASE UNCHANGED vars
    BY <1>23 DEF vars
<1> QED BY <1>1, <1>2, <1>3, <1>4, <1>5, <1>6, <1>7, <1>8, <1>9, <1>10, <1>11, <1>12, <1>13, <1>14, <1>15, <1>16, <1>17, <1>18, <1>19, <1>20, <1>21, <1>22, <1>23
    DEF Next, Acquire, Recover, Release

LEMMA OneOwner ==
    ASSUME OwnsLock, NEW p \in Procs, NEW q \in Procs, pc[p] \in Owning, pc[q] \in Owning
    PROVE  p = q
<1>1. \E w \in BOOLEAN : lock = {Own(p, w)}
    BY DEF OwnsLock, Owning
<1>2. \E w \in BOOLEAN : lock = {Own(q, w)}
    BY DEF OwnsLock, Owning
<1>3. PICK v \in BOOLEAN, w \in BOOLEAN : Own(p, v) = Own(q, w)
    BY <1>1, <1>2
<1>4. <<p, nth[p]>> = <<q, nth[q]>>
    BY <1>3 DEF Own
<1> QED BY <1>4

LEMMA OneRecoverer ==
    ASSUME OwnsGuard, NEW p \in Procs, NEW q \in Procs, pc[p] \in Recovering, pc[q] \in Recovering
    PROVE  p = q
<1>1. \E w \in BOOLEAN : guard = {Own(p, w)}
    BY DEF OwnsGuard, Recovering
<1>2. \E w \in BOOLEAN : guard = {Own(q, w)}
    BY DEF OwnsGuard, Recovering
<1>3. PICK v \in BOOLEAN, w \in BOOLEAN : Own(p, v) = Own(q, w)
    BY <1>1, <1>2
<1>4. <<p, nth[p]>> = <<q, nth[q]>>
    BY <1>3 DEF Own
<1> QED BY <1>4

LEMMA OwnsLockStep == LockInv /\ [Next]_vars => OwnsLock'
<1> SUFFICES ASSUME LockInv, [Next]_vars PROVE OwnsLock'
    OBVIOUS
<1> USE DEF LockInv, TypeOK, OwnsLock, MovesTheDead, Claims, Tokens, Owner, Own, Holding, Goto
<1>1. ASSUME NEW p \in Procs, Start(p) PROVE OwnsLock'
    BY <1>1 DEF Start, Draws
<1>2. ASSUME NEW p \in Procs, Create(p) PROVE OwnsLock'
    <2>1. CASE lock = {}
        <3>1. \A q \in Procs : pc[q] \notin Owning
            BY <2>1 DEF Owning
        <3>2. /\ lock' = {Own(p, FALSE)} /\ pc'[p] = "write" /\ nth' = nth
              /\ \A q \in Procs \ {p} : pc'[q] = pc[q]
            BY <1>2, <2>1 DEF Create
        <3> QED BY <3>1, <3>2 DEF Owning
    <2>2. CASE lock # {}
        BY <1>2, <2>2 DEF Create
    <2> QED BY <2>1, <2>2
<1>3. ASSUME NEW p \in Procs, Write(p) PROVE OwnsLock'
    <2>1. \A q \in Procs \ {p} : pc[q] \notin Owning
        BY <1>3, OneOwner DEF Write, Owning
    <2>2. pc[p] = "write" /\ nth' = nth /\ \A q \in Procs \ {p} : pc'[q] = pc[q]
        BY <1>3 DEF Write
    <2>3. \/ lock' = {Own(p, TRUE)} /\ pc'[p] = "hold"
          \/ pc'[p] = "unwind" /\ \E w \in BOOLEAN : lock' = {Own(p, w)}
        BY <1>3 DEF Write
    <2> QED BY <2>1, <2>2, <2>3 DEF Owning
<1>4. ASSUME NEW p \in Procs, Unwind(p) PROVE OwnsLock'
    <2>1. \A q \in Procs \ {p} : pc[q] \notin Owning
        BY <1>4, OneOwner DEF Unwind, Owning
    <2>2. \A q \in Procs : pc'[q] \notin Owning
        BY <1>4, <2>1 DEF Unwind, Owning
    <2> QED BY <2>2 DEF Owning
<1>5. ASSUME NEW p \in Procs, Inspect(p) PROVE OwnsLock'
    BY <1>5 DEF Inspect
<1>6. ASSUME NEW p \in Procs, Probe(p) PROVE OwnsLock'
    BY <1>6 DEF Probe
<1>7. ASSUME NEW p \in Procs, Wait(p) PROVE OwnsLock'
    BY <1>7 DEF Wait
<1>8. ASSUME NEW p \in Procs, Guard(p) PROVE OwnsLock'
    BY <1>8 DEF Guard
<1>9. ASSUME NEW p \in Procs, GuardWrite(p) PROVE OwnsLock'
    BY <1>9 DEF GuardWrite
<1>10. ASSUME NEW p \in Procs, GuardUnwind(p) PROVE OwnsLock'
    BY <1>10 DEF GuardUnwind
<1>11. ASSUME NEW p \in Procs, GuardInspect(p) PROVE OwnsLock'
    BY <1>11 DEF GuardInspect
<1>12. ASSUME NEW p \in Procs, GuardProbe(p) PROVE OwnsLock'
    BY <1>12 DEF GuardProbe
<1>13. ASSUME NEW p \in Procs, Reread(p) PROVE OwnsLock'
    BY <1>13 DEF Reread, Return
<1>14. ASSUME NEW p \in Procs, Move(p) PROVE OwnsLock'
    BY <1>14 DEF Move, Return
<1>15. ASSUME NEW p \in Procs, CheckMoved(p) PROVE OwnsLock'
    BY <1>15 DEF CheckMoved, Return
<1>16. ASSUME NEW p \in Procs, ReadGuard(p) PROVE OwnsLock'
    BY <1>16 DEF ReadGuard
<1>17. ASSUME NEW p \in Procs, UnlinkGuard(p) PROVE OwnsLock'
    BY <1>17 DEF UnlinkGuard
<1>18. ASSUME NEW p \in Procs, Leave(p) PROVE OwnsLock'
    BY <1>18 DEF Leave
<1>19. ASSUME NEW p \in Procs, ReadOwn(p) PROVE OwnsLock'
    BY <1>19 DEF ReadOwn
<1>20. ASSUME NEW p \in Procs, Unlink(p) PROVE OwnsLock'
    BY <1>20 DEF Unlink
<1>21. ASSUME NEW p \in Procs, Die(p) PROVE OwnsLock'
    BY <1>21 DEF Die
<1>22. ASSUME NEW p \in Procs, ReusePid(p) PROVE OwnsLock'
    BY <1>22 DEF ReusePid
<1>23. CASE UNCHANGED vars
    BY <1>23 DEF vars
<1> QED BY <1>1, <1>2, <1>3, <1>4, <1>5, <1>6, <1>7, <1>8, <1>9, <1>10, <1>11, <1>12, <1>13, <1>14, <1>15, <1>16, <1>17, <1>18, <1>19, <1>20, <1>21, <1>22, <1>23
    DEF Next, Acquire, Recover, Release

LEMMA OwnsGuardStep == LockInv /\ [Next]_vars => OwnsGuard'
<1> SUFFICES ASSUME LockInv, [Next]_vars PROVE OwnsGuard'
    OBVIOUS
<1> USE DEF LockInv, TypeOK, OwnsGuard, Claims, Tokens, Owner, Own, Guarding, Goto
<1>1. ASSUME NEW p \in Procs, Start(p) PROVE OwnsGuard'
    BY <1>1 DEF Start, Draws
<1>2. ASSUME NEW p \in Procs, Create(p) PROVE OwnsGuard'
    BY <1>2 DEF Create
<1>3. ASSUME NEW p \in Procs, Write(p) PROVE OwnsGuard'
    BY <1>3 DEF Write
<1>4. ASSUME NEW p \in Procs, Unwind(p) PROVE OwnsGuard'
    BY <1>4 DEF Unwind
<1>5. ASSUME NEW p \in Procs, Inspect(p) PROVE OwnsGuard'
    BY <1>5 DEF Inspect
<1>6. ASSUME NEW p \in Procs, Probe(p) PROVE OwnsGuard'
    BY <1>6 DEF Probe
<1>7. ASSUME NEW p \in Procs, Wait(p) PROVE OwnsGuard'
    BY <1>7 DEF Wait
<1>8. ASSUME NEW p \in Procs, Guard(p) PROVE OwnsGuard'
    BY <1>8 DEF Guard
<1>9. ASSUME NEW p \in Procs, GuardWrite(p) PROVE OwnsGuard'
    <2>1. \A q \in Procs \ {p} : pc[q] \notin Recovering
        BY <1>9, OneRecoverer DEF GuardWrite, Recovering
    <2> QED BY <1>9, <2>1 DEF GuardWrite, Recovering
<1>10. ASSUME NEW p \in Procs, GuardUnwind(p) PROVE OwnsGuard'
    <2>1. \A q \in Procs \ {p} : pc[q] \notin Recovering
        BY <1>10, OneRecoverer DEF GuardUnwind, Recovering
    <2>2. \A q \in Procs : pc'[q] \notin Recovering
        BY <1>10, <2>1 DEF GuardUnwind, Recovering
    <2> QED BY <2>2 DEF Recovering
<1>11. ASSUME NEW p \in Procs, GuardInspect(p) PROVE OwnsGuard'
    BY <1>11 DEF GuardInspect
<1>12. ASSUME NEW p \in Procs, GuardProbe(p) PROVE OwnsGuard'
    BY <1>12 DEF GuardProbe
<1>13. ASSUME NEW p \in Procs, Reread(p) PROVE OwnsGuard'
    BY <1>13 DEF Reread, Return
<1>14. ASSUME NEW p \in Procs, Move(p) PROVE OwnsGuard'
    BY <1>14 DEF Move, Return
<1>15. ASSUME NEW p \in Procs, CheckMoved(p) PROVE OwnsGuard'
    BY <1>15 DEF CheckMoved, Return
<1>16. ASSUME NEW p \in Procs, ReadGuard(p) PROVE OwnsGuard'
    BY <1>16 DEF ReadGuard
<1>17. ASSUME NEW p \in Procs, UnlinkGuard(p) PROVE OwnsGuard'
    BY <1>17 DEF UnlinkGuard
<1>18. ASSUME NEW p \in Procs, Leave(p) PROVE OwnsGuard'
    BY <1>18 DEF Leave
<1>19. ASSUME NEW p \in Procs, ReadOwn(p) PROVE OwnsGuard'
    BY <1>19 DEF ReadOwn
<1>20. ASSUME NEW p \in Procs, Unlink(p) PROVE OwnsGuard'
    BY <1>20 DEF Unlink
<1>21. ASSUME NEW p \in Procs, Die(p) PROVE OwnsGuard'
    BY <1>21 DEF Die
<1>22. ASSUME NEW p \in Procs, ReusePid(p) PROVE OwnsGuard'
    BY <1>22 DEF ReusePid
<1>23. CASE UNCHANGED vars
    BY <1>23 DEF vars
<1> QED BY <1>1, <1>2, <1>3, <1>4, <1>5, <1>6, <1>7, <1>8, <1>9, <1>10, <1>11, <1>12, <1>13, <1>14, <1>15, <1>16, <1>17, <1>18, <1>19, <1>20, <1>21, <1>22, <1>23
    DEF Next, Acquire, Recover, Release

LEMMA MovesTheDeadStep == LockInv /\ [Next]_vars => MovesTheDead'
<1> SUFFICES ASSUME LockInv, [Next]_vars PROVE MovesTheDead'
    OBVIOUS
<1> USE DEF LockInv, TypeOK, AtMostOne, OwnsLock, OwnsGuard, MovesTheDead, LivingHavePids, Claims, Tokens, Owner, Own, Holding,
        Guarding, Goto
<1>1. ASSUME NEW p \in Procs, Start(p) PROVE MovesTheDead'
    BY <1>1 DEF Start, Draws
<1>2. ASSUME NEW p \in Procs, Create(p) PROVE MovesTheDead'
    BY <1>2 DEF Create
<1>3. ASSUME NEW p \in Procs, Write(p) PROVE MovesTheDead'
    BY <1>3 DEF Write
<1>4. ASSUME NEW p \in Procs, Unwind(p) PROVE MovesTheDead'
    BY <1>4 DEF Unwind
<1>5. ASSUME NEW p \in Procs, Inspect(p) PROVE MovesTheDead'
    BY <1>5 DEF Inspect
<1>6. ASSUME NEW p \in Procs, Probe(p) PROVE MovesTheDead'
    BY <1>6 DEF Probe
<1>7. ASSUME NEW p \in Procs, Wait(p) PROVE MovesTheDead'
    BY <1>7 DEF Wait
<1>8. ASSUME NEW p \in Procs, Guard(p) PROVE MovesTheDead'
    BY <1>8 DEF Guard
<1>9. ASSUME NEW p \in Procs, GuardWrite(p) PROVE MovesTheDead'
    BY <1>9 DEF GuardWrite
<1>10. ASSUME NEW p \in Procs, GuardUnwind(p) PROVE MovesTheDead'
    BY <1>10 DEF GuardUnwind
<1>11. ASSUME NEW p \in Procs, GuardInspect(p) PROVE MovesTheDead'
    BY <1>11 DEF GuardInspect
<1>12. ASSUME NEW p \in Procs, GuardProbe(p) PROVE MovesTheDead'
    BY <1>12 DEF GuardProbe
<1>13. ASSUME NEW p \in Procs, Reread(p) PROVE MovesTheDead'
    <2>1. \A q \in Procs \ {p} : pc[q] # "move" /\ pc'[q] = pc[q]
        BY <1>13, OneRecoverer DEF Reread, Return, Recovering
    <2>2. seen' = seen /\ moved' = moved /\ lock' = lock
        BY <1>13 DEF Reread
    <2>3. moved[p] = {}
        BY <1>13 DEF Reread
    <2>4. ASSUME pc'[p] = "move" PROVE lock = seen[p] /\ lock # {} /\ \A c \in lock : pc'[Owner(c)] = "dead"
        <3>1. PICK c \in lock : c.written /\ c \in seen[p] /\ SeemsDead(p, c)
            BY <1>13, <2>4 DEF Reread, Return
        <3>2. lock = {c} /\ seen[p] = {c}
            BY <3>1
        <3>3. Owner(c) \in Procs
            BY <3>1
        <3>4. pc[Owner(c)] = "dead"
            BY <3>1, <3>3 DEF SeemsDead
        <3>5. Owner(c) # p
            BY <3>4, <1>13 DEF Reread
        <3> QED BY <3>2, <3>3, <3>4, <3>5, <2>1
    <2>5. \A c \in Claims : pc[Owner(c)] = "dead" => pc'[Owner(c)] = "dead"
        <3>1. \A c \in Claims : Owner(c) \in Procs
            OBVIOUS
        <3> QED BY <1>13, <3>1, <2>1 DEF Reread
    <2> QED BY <2>1, <2>2, <2>3, <2>4, <2>5
<1>14. ASSUME NEW p \in Procs, Move(p) PROVE MovesTheDead'
    <2>1. \A q \in Procs \ {p} : pc[q] # "move" /\ moved'[q] = moved[q] /\ pc'[q] = pc[q]
        BY <1>14, OneRecoverer DEF Move, Return, Recovering
    <2>2. /\ moved'[p] = seen[p] /\ pc'[p] = "checkMoved" /\ seen' = seen
          /\ \A c \in seen[p] : pc[Owner(c)] = "dead"
        BY <1>14 DEF Move
    <2>3. \A c \in Claims : pc[Owner(c)] = "dead" => pc'[Owner(c)] = "dead"
        <3>1. \A c \in Claims : Owner(c) \in Procs
            OBVIOUS
        <3> QED BY <1>14, <3>1, <2>1 DEF Move
    <2> QED BY <1>14, <2>1, <2>2, <2>3
<1>15. ASSUME NEW p \in Procs, CheckMoved(p) PROVE MovesTheDead'
    BY <1>15 DEF CheckMoved, Return
<1>16. ASSUME NEW p \in Procs, ReadGuard(p) PROVE MovesTheDead'
    BY <1>16 DEF ReadGuard
<1>17. ASSUME NEW p \in Procs, UnlinkGuard(p) PROVE MovesTheDead'
    BY <1>17 DEF UnlinkGuard
<1>18. ASSUME NEW p \in Procs, Leave(p) PROVE MovesTheDead'
    BY <1>18 DEF Leave
<1>19. ASSUME NEW p \in Procs, ReadOwn(p) PROVE MovesTheDead'
    BY <1>19 DEF ReadOwn
<1>20. ASSUME NEW p \in Procs, Unlink(p) PROVE MovesTheDead'
    BY <1>20 DEF Unlink
<1>21. ASSUME NEW p \in Procs, Die(p) PROVE MovesTheDead'
    BY <1>21 DEF Die
<1>22. ASSUME NEW p \in Procs, ReusePid(p) PROVE MovesTheDead'
    BY <1>22 DEF ReusePid
<1>23. CASE UNCHANGED vars
    BY <1>23 DEF vars
<1> QED BY <1>1, <1>2, <1>3, <1>4, <1>5, <1>6, <1>7, <1>8, <1>9, <1>10, <1>11, <1>12, <1>13, <1>14, <1>15, <1>16, <1>17, <1>18, <1>19, <1>20, <1>21, <1>22, <1>23
    DEF Next, Acquire, Recover, Release

\* The invariant of the lock protocol holds in every reachable state.
THEOREM LockInvariance == Spec => []LockInv
<1>1. LockInv /\ [Next]_vars => LockInv'
    BY TypeStep, LivingStep, OwnsLockStep, OwnsGuardStep, MovesTheDeadStep DEF LockInv
<1> QED BY InitLockInv, <1>1, PTL DEF Spec

\* The shapes of the files and of what each process knows (journal.ts acquireLock).
THEOREM LockTypeCorrect == Spec => []TypeOK
<1>1. LockInv => TypeOK
    BY DEF LockInv
<1> QED BY LockInvariance, <1>1, PTL

\* quarantineAbandonedLock moves only the claim it examined, of an owner that is dead.
THEOREM ReclaimsOnlyTheDead == Spec => []MovesOnlyTheAbandoned
<1>1. LockInv => MovesOnlyTheAbandoned
    BY DEF LockInv, MovesTheDead, MovesOnlyTheAbandoned
<1> QED BY LockInvariance, <1>1, PTL

\* A step changes the lock file of a process that takes, uses or gives it back only
\* when it is a step of that process.
LEMMA KeepsStep ==
    ASSUME LockInv, [Next]_vars, NEW q \in Procs, pc[q] \in Owning, lock' # lock
    PROVE  pc'[q] # pc[q]
<1> USE DEF LockInv, TypeOK, Goto
<1>1. lock # {} /\ \A c \in lock : Owner(c) = q
    <2>1. \A w \in BOOLEAN : Owner(Own(q, w)) = q
        BY OwnType
    <2>2. \E w \in BOOLEAN : lock = {Own(q, w)}
        BY DEF OwnsLock, Owning
    <2> QED BY <2>1, <2>2
<1>2. ASSUME NEW p \in Procs, Create(p) \/ Move(p) PROVE FALSE
    <2>1. lock' = lock \/ pc[p] = "move"
        BY <1>1, <1>2 DEF Create, Move
    <2>2. pc[q] = "dead"
        BY <1>1, <2>1, <1>2 DEF MovesTheDead
    <2> QED BY <2>2 DEF Owning, Holding
<1>3. ASSUME NEW p \in Procs, Write(p) \/ Unwind(p) \/ Unlink(p) PROVE pc'[q] # pc[q]
    <2>1. p = q
        BY <1>3, OneOwner DEF Write, Unwind, Unlink, Owning, Holding
    <2> QED BY <1>3, <2>1 DEF Write, Unwind, Unlink
<1>4. \E p \in Procs : Create(p) \/ Move(p) \/ Write(p) \/ Unwind(p) \/ Unlink(p)
    BY DEF Next, vars, Start, Draws, Acquire, Recover, Release, Die, ReusePid, Inspect, Probe, Wait,
           Guard, GuardWrite, GuardUnwind, GuardInspect, GuardProbe, Reread, CheckMoved,
           ReadGuard, UnlinkGuard, Leave, ReadOwn
<1> QED BY <1>2, <1>3, <1>4

\* No reclaimer steals the lock file of a living process (the re-examination under the guard).
THEOREM LiveClaimsAreKept == Spec => LiveClaimIsKept
<1>1. LockInv /\ [Next]_vars =>
        [\A p \in Procs : pc[p] \in Owning /\ lock' # lock => pc'[p] # pc[p]]_vars
    BY KeepsStep
<1> QED BY LockInvariance, <1>1, PTL DEF Spec, LiveClaimIsKept

\* A step enters the section when it is empty, leaves it, or does not concern it.
LEMMA SectionStep == LockInv /\ [Next]_vars => [Section!Next]_Inside
<1> SUFFICES ASSUME LockInv, [Next]_vars PROVE [Section!Next]_Inside
    OBVIOUS
<1> USE DEF LockInv, TypeOK, Goto, Inside
<1>1. \A p, q \in Procs : pc[p] \in Owning /\ pc[q] \in Owning => p = q
    BY OneOwner
<1>2. ASSUME NEW p \in Procs, Write(p) PROVE [Section!Next]_Inside
    <2>1. Inside = {}
        BY <1>1, <1>2 DEF Write, Owning, Holding
    <2>2. Inside' = {} \/ Inside' = {p}
        BY <1>2, <2>1 DEF Write, Holding
    <2> QED BY <2>1, <2>2 DEF Section!Next, Section!Enter
<1>3. ASSUME NEW p \in Procs, ReadOwn(p) \/ Unlink(p) \/ Die(p) PROVE [Section!Next]_Inside
    <2>1. Inside' = Inside \/ (p \in Inside /\ Inside' = Inside \ {p})
        BY <1>3 DEF ReadOwn, Unlink, Die, Holding
    <2> QED BY <2>1 DEF Section!Next, Section!Leave
<1>4. ASSUME NEW p \in Procs, Start(p) \/ Create(p) \/ Unwind(p) \/ Inspect(p) \/ Probe(p) \/ Wait(p)
             \/ Leave(p) \/ ReusePid(p)
      PROVE Inside' = Inside
    BY <1>4 DEF Start, Draws, Create, Unwind, Inspect, Probe, Wait, Leave, ReusePid, Holding
<1>5. ASSUME NEW p \in Procs, Recover(p) PROVE Inside' = Inside
    BY <1>5 DEF Recover, Guard, GuardWrite, GuardUnwind, GuardInspect, GuardProbe, Reread, Return,
                Move, CheckMoved, ReadGuard, UnlinkGuard, Holding
<1>6. CASE UNCHANGED vars
    BY <1>6 DEF vars
<1> QED BY <1>2, <1>3, <1>4, <1>5, <1>6 DEF Next, Acquire, Release

\* The lock file implements the exclusive section: one process at a time runs under
\* the lock of an operation, for every number of processes, hosts, deaths and calls.
THEOREM LockImplementsSection == Spec => SectionIsExclusive
<1>1. Init => Section!Init
    BY DEF Init, Section!Init, Inside, Holding
<1> QED BY LockInvariance, SectionStep, <1>1, PTL DEF Spec, SectionIsExclusive, Section!Spec

=============================================================================
