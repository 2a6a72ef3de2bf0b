------------------------------ MODULE JournalLock ------------------------------
(***************************************************************************)
(* The lock file of one operation (journal.ts: acquireLock, its recovery   *)
(* guard, releaseLock).  Processes share the state directory and nothing   *)
(* else; every step is one call to the file system or one probe of a pid,  *)
(* and a process may die before any of them.                               *)
(*                                                                         *)
(* A file is the set of its claims: empty when it does not exist, else the *)
(* one claim of the process that created it, which is written only after   *)
(* the exclusive creation.  A token is its process and a number, which is  *)
(* not the one of the call before; Numbers = Nat leaves room for tokens    *)
(* that never repeat, as the code's do.  Within one process                *)
(* serializeInProcess queues the calls, so a process has at most one at a  *)
(* time; the Restless ones call again and again, the others once.  A dead  *)
(* process never comes back, but its pid may be given to a stranger.       *)
(***************************************************************************)
EXTENDS Naturals

CONSTANTS
    Procs,
    HostOf,     \* the host name a process writes into its claims
    Opaque,     \* processes whose claims say that their pid cannot be probed
    Restless,   \* processes that take the lock any number of times
    Numbers,    \* what tells the tokens of one process apart
    MaxWaits    \* timeoutMs in sleeps of LOCK_RETRY_MS

ASSUME OpaqueAssumption == Opaque \subseteq Procs
ASSUME RestlessAssumption == Restless \subseteq Procs
ASSUME NumbersAssumption == Numbers \subseteq Nat /\ 0 \in Numbers
ASSUME BoundsAssumption == MaxWaits \in Nat

VARIABLES
    lock,       \* the lock file
    guard,      \* the recovery guard beside it
    moved,      \* per process: the file it renamed away
    pids,       \* processes whose pid exists, the reused ones included
    pc,         \* per process: its next step, or "dead"
    nth,        \* per process: the number of its last call, 0 before the first
    seen,       \* per process: the claim it last read in somebody's file
    budget,     \* per process: sleeps left in remainingWaitBudgetMs
    after       \* per process: where a recovery returns to once its guard is gone

vars == <<lock, guard, moved, pids, pc, nth, seen, budget, after>>

Tokens == Procs \X Numbers
Claims == [token : Tokens, written : BOOLEAN]

Holding == {"hold", "readOwn", "unlink"}
Owning == {"write", "unwind"} \cup Holding
Guarding == {"reread", "move", "checkMoved", "readGuard", "unlinkGuard"}
Recovering == {"guardWrite", "guardUnwind"} \cup Guarding
Asking == {"create", "inspect", "probe", "wait", "guard", "guardInspect", "guardProbe"}
Steps == {"idle", "dead"} \cup Asking \cup Owning \cup Recovering

Own(p, written) == [token |-> <<p, nth[p]>>, written |-> written]
Owner(claim) == claim.token[1]

Goto(p, step) == pc' = [pc EXCEPT ![p] = step]

\* lockOwnerIsProbeable, the same host, and no such process.
SeemsDead(p, claim) ==
    /\ Owner(claim) \notin Opaque
    /\ HostOf[Owner(claim)] = HostOf[p]
    /\ Owner(claim) \notin pids

AtMostOne(file) == \A c, d \in file : c = d

TypeOK ==
    /\ lock \in SUBSET Claims /\ AtMostOne(lock)
    /\ guard \in SUBSET Claims /\ AtMostOne(guard)
    /\ moved \in [Procs -> SUBSET Claims]
    /\ pids \in SUBSET Procs
    /\ pc \in [Procs -> Steps]
    /\ nth \in [Procs -> Numbers]
    /\ seen \in [Procs -> SUBSET Claims] /\ \A p \in Procs : AtMostOne(seen[p])
    /\ budget \in [Procs -> 0 .. MaxWaits]
    /\ after \in [Procs -> {"create", "wait", "idle"}]

Init ==
    /\ lock = {} /\ guard = {}
    /\ moved = [p \in Procs |-> {}]
    /\ pids = Procs
    /\ pc = [p \in Procs |-> "idle"]
    /\ nth = [p \in Procs |-> 0]
    /\ seen = [p \in Procs |-> {}]
    /\ budget = [p \in Procs |-> 0]
    /\ after = [p \in Procs |-> "idle"]

---------------------------------------------------------------------------
(* Taking the lock *)

\* entropyUuid: a token that differs from the one of the call before.
Draws(p) == \E n \in Numbers \ {nth[p]} : nth' = [nth EXCEPT ![p] = n]

\* Mutant: the first sleep is not charged to the budget.
StartGenerous(p) ==
    /\ pc[p] = "idle" /\ (p \in Restless \/ nth[p] = 0)
    /\ Draws(p)
    /\ budget' = [budget EXCEPT ![p] = MaxWaits + 1]
    /\ Goto(p, "create")
    /\ UNCHANGED <<lock, guard, moved, pids, seen, after>>

Start(p) ==
    /\ pc[p] = "idle" /\ (p \in Restless \/ nth[p] = 0)
    /\ Draws(p)
    /\ budget' = [budget EXCEPT ![p] = MaxWaits]
    /\ Goto(p, "create")
    /\ UNCHANGED <<lock, guard, moved, pids, seen, after>>

\* open with O_CREAT | O_EXCL; the file exists before it says whose it is.
Create(p) ==
    /\ pc[p] = "create"
    /\ \/ lock = {} /\ lock' = {Own(p, FALSE)} /\ Goto(p, "write")
       \/ lock # {} /\ UNCHANGED lock /\ Goto(p, "inspect")
    /\ UNCHANGED <<guard, moved, pids, nth, seen, budget, after>>

\* writeFile and sync of the claim, or a failure of either.
Write(p) ==
    /\ pc[p] = "write"
    /\ \/ lock' = {Own(p, TRUE)} /\ Goto(p, "hold")
       \/ \E written \in BOOLEAN : lock' = {Own(p, written)} /\ Goto(p, "unwind")
    /\ UNCHANGED <<guard, moved, pids, nth, seen, budget, after>>

\* removeFailedExclusiveLock: only the file this call created is removed.
Unwind(p) ==
    /\ pc[p] = "unwind"
    /\ lock' = {c \in lock : c.token # <<p, nth[p]>>}
    /\ Goto(p, "idle")
    /\ UNCHANGED <<guard, moved, pids, nth, seen, budget, after>>

\* Mutant: a claim that is not written yet is taken for the residue of a dead process.
InspectImpatient(p) ==
    /\ pc[p] = "inspect"
    /\ \/ (\A c \in lock : ~c.written) /\ lock' = {} /\ Goto(p, "create") /\ UNCHANGED seen
       \/ \E c \in lock : c.written /\ Goto(p, "probe") /\ seen' = [seen EXCEPT ![p] = {c}] /\ UNCHANGED lock
    /\ UNCHANGED <<guard, moved, pids, nth, budget, after>>

\* readLock after EEXIST: gone is tried again, unreadable ends the call.
Inspect(p) ==
    /\ pc[p] = "inspect"
    /\ \/ lock = {} /\ Goto(p, "create") /\ UNCHANGED seen
       \/ \E c \in lock : ~c.written /\ Goto(p, "idle") /\ UNCHANGED seen
       \/ \E c \in lock : c.written /\ Goto(p, "probe") /\ seen' = [seen EXCEPT ![p] = {c}]
    /\ UNCHANGED <<lock, guard, moved, pids, nth, budget, after>>

Probe(p) ==
    /\ pc[p] = "probe"
    /\ \E c \in seen[p] : Goto(p, IF SeemsDead(p, c) THEN "guard" ELSE "wait")
    /\ UNCHANGED <<lock, guard, moved, pids, nth, seen, budget, after>>

\* Mutant: only the wall clock ends the wait.
WaitUnbudgeted(p) ==
    /\ pc[p] = "wait"
    /\ Goto(p, "idle") \/ Goto(p, "create")
    /\ UNCHANGED <<lock, guard, moved, pids, nth, seen, budget, after>>

\* A sleep costs budget whatever the wall clock does; the clock may also pass the deadline.
Wait(p) ==
    /\ pc[p] = "wait"
    /\ \/ Goto(p, "idle") /\ UNCHANGED budget
       \/ budget[p] > 0 /\ budget' = [budget EXCEPT ![p] = @ - 1] /\ Goto(p, "create")
    /\ UNCHANGED <<lock, guard, moved, pids, nth, seen, after>>

---------------------------------------------------------------------------
(* quarantineAbandonedLock *)

\* Mutant: the guard is not created exclusively.
GuardShared(p) ==
    /\ pc[p] = "guard" /\ guard' = {Own(p, FALSE)} /\ Goto(p, "guardWrite")
    /\ UNCHANGED <<lock, moved, pids, nth, seen, budget, after>>

Guard(p) ==
    /\ pc[p] = "guard"
    /\ \/ guard = {} /\ guard' = {Own(p, FALSE)} /\ Goto(p, "guardWrite")
       \/ guard # {} /\ UNCHANGED guard /\ Goto(p, "guardInspect")
    /\ UNCHANGED <<lock, moved, pids, nth, seen, budget, after>>

GuardWrite(p) ==
    /\ pc[p] = "guardWrite"
    /\ \/ guard' = {Own(p, TRUE)} /\ Goto(p, "reread")
       \/ \E written \in BOOLEAN : guard' = {Own(p, written)} /\ Goto(p, "guardUnwind")
    /\ UNCHANGED <<lock, moved, pids, nth, seen, budget, after>>

GuardUnwind(p) ==
    /\ pc[p] = "guardUnwind"
    /\ guard' = {c \in guard : c.token # <<p, nth[p]>>}
    /\ Goto(p, "idle")
    /\ UNCHANGED <<lock, moved, pids, nth, seen, budget, after>>

GuardInspect(p) ==
    /\ pc[p] = "guardInspect"
    /\ \/ guard = {} /\ Goto(p, "wait") /\ UNCHANGED seen
       \/ \E c \in guard : ~c.written /\ Goto(p, "idle") /\ UNCHANGED seen
       \/ \E c \in guard : c.written /\ Goto(p, "guardProbe") /\ seen' = [seen EXCEPT ![p] = {c}]
    /\ UNCHANGED <<lock, guard, moved, pids, nth, budget, after>>

\* An abandoned guard is never reclaimed: the call fails (journal_lock_recovery_abandoned).
GuardProbe(p) ==
    /\ pc[p] = "guardProbe"
    /\ \E c \in seen[p] : Goto(p, IF SeemsDead(p, c) THEN "idle" ELSE "wait")
    /\ UNCHANGED <<lock, guard, moved, pids, nth, seen, budget, after>>

Return(p, step) == after' = [after EXCEPT ![p] = step] /\ Goto(p, "readGuard")

\* Mutant: the guard is thought to make a second look at the claim unnecessary.
RereadSkipped(p) ==
    /\ pc[p] = "reread" /\ Goto(p, "move")
    /\ UNCHANGED <<lock, guard, moved, pids, nth, seen, budget, after>>

\* Under the guard the claim is read and its owner probed once more.
Reread(p) ==
    /\ pc[p] = "reread"
    /\ \/ lock = {} /\ Return(p, "wait")
       \/ \E c \in lock : ~c.written /\ Return(p, "idle")
       \/ \E c \in lock :
            /\ c.written
            /\ IF c \in seen[p] /\ SeemsDead(p, c)
               THEN Goto(p, "move") /\ UNCHANGED after
               ELSE Return(p, "wait")
    /\ UNCHANGED <<lock, guard, moved, pids, nth, seen, budget>>

\* rename moves whatever is there by now.
Move(p) ==
    /\ pc[p] = "move"
    /\ \/ lock = {} /\ Return(p, "wait") /\ UNCHANGED <<lock, moved>>
       \/ /\ lock # {} /\ lock' = {} /\ moved' = [moved EXCEPT ![p] = lock]
          /\ Goto(p, "checkMoved") /\ UNCHANGED after
    /\ UNCHANGED <<guard, pids, nth, seen, budget>>

\* An unexpected claim is kept for diagnosis and the call fails.
CheckMoved(p) ==
    /\ pc[p] = "checkMoved"
    /\ \/ moved[p] = seen[p] /\ moved' = [moved EXCEPT ![p] = {}] /\ Return(p, "create")
       \/ moved[p] # seen[p] /\ UNCHANGED moved /\ Return(p, "idle")
    /\ UNCHANGED <<lock, guard, pids, nth, seen, budget>>

---------------------------------------------------------------------------
(* releaseLock, for the guard and for the lock: read, compare, unlink *)

ReadGuard(p) ==
    /\ pc[p] = "readGuard"
    /\ \/ guard = {} /\ Goto(p, after[p])
       \/ \E c \in guard : c # Own(p, TRUE) /\ Goto(p, "idle")
       \/ guard = {Own(p, TRUE)} /\ Goto(p, "unlinkGuard")
    /\ UNCHANGED <<lock, guard, moved, pids, nth, seen, budget, after>>

UnlinkGuard(p) ==
    /\ pc[p] = "unlinkGuard"
    /\ guard' = {}
    /\ Goto(p, after[p])
    /\ UNCHANGED <<lock, moved, pids, nth, seen, budget, after>>

\* The work under the lock is over.
Leave(p) ==
    /\ pc[p] = "hold"
    /\ Goto(p, "readOwn")
    /\ UNCHANGED <<lock, guard, moved, pids, nth, seen, budget, after>>

ReadOwn(p) ==
    /\ pc[p] = "readOwn"
    /\ \/ lock = {} /\ Goto(p, "idle")
       \/ \E c \in lock : c # Own(p, TRUE) /\ Goto(p, "idle")
       \/ lock = {Own(p, TRUE)} /\ Goto(p, "unlink")
    /\ UNCHANGED <<lock, guard, moved, pids, nth, seen, budget, after>>

Unlink(p) ==
    /\ pc[p] = "unlink"
    /\ lock' = {}
    /\ Goto(p, "idle")
    /\ UNCHANGED <<guard, moved, pids, nth, seen, budget, after>>

---------------------------------------------------------------------------
(* The environment *)

Die(p) ==
    /\ pc[p] # "dead"
    /\ Goto(p, "dead")
    /\ pids' = pids \ {p}
    /\ UNCHANGED <<lock, guard, moved, nth, seen, budget, after>>

\* The system gives the pid of a dead process to a stranger, or the stranger ends.
ReusePid(p) ==
    /\ pc[p] = "dead"
    /\ pids' \in {pids \cup {p}, pids \ {p}}
    /\ UNCHANGED <<lock, guard, moved, pc, nth, seen, budget, after>>

Recover(p) ==
    \/ Guard(p) \/ GuardWrite(p) \/ GuardUnwind(p) \/ GuardInspect(p) \/ GuardProbe(p)
    \/ Reread(p) \/ Move(p) \/ CheckMoved(p) \/ ReadGuard(p) \/ UnlinkGuard(p)

Acquire(p) ==
    Create(p) \/ Write(p) \/ Unwind(p) \/ Inspect(p) \/ Probe(p) \/ Wait(p)

Release(p) == Leave(p) \/ ReadOwn(p) \/ Unlink(p)

Next ==
    \E p \in Procs :
        Start(p) \/ Acquire(p) \/ Recover(p) \/ Release(p) \/ Die(p) \/ ReusePid(p)

Spec == Init /\ [][Next]_vars

\* Every call made proceeds: files answer and the work under the lock ends.
FairSpec ==
    Spec /\ \A p \in Procs : WF_vars(Acquire(p) \/ Recover(p) \/ Release(p))

---------------------------------------------------------------------------
(* Properties *)

Inside == {p \in Procs : pc[p] \in Holding}

Section == INSTANCE ExclusiveSection WITH inside <- Inside

\* The operation's section is entered by one process at a time, however a dead
\* owner's lock is reclaimed, torn claims are cleaned up and pids are reused.
SectionIsExclusive == Section!Spec

\* The file of a process that is taking, using or giving back the lock is only
\* changed by that process, so a reclaimer never steals from the living.
LiveClaimIsKept ==
    [][\A p \in Procs : pc[p] \in Owning /\ lock' # lock => pc'[p] # pc[p]]_vars

\* What a reclaimer moves away is the claim it examined; no claim stays quarantined
\* for diagnosis unless the reclaimer died with it.
MovesOnlyTheAbandoned ==
    \A p \in Procs : moved[p] # {} =>
        /\ moved[p] = seen[p]
        /\ \A c \in moved[p] : pc[Owner(c)] = "dead"

\* The retry that is charged to no budget and no deadline (journal_lock_changed): the
\* lock was there for the exclusive creation and is gone when its claim is read.
FindsGone(p) == Inspect(p) /\ lock = {}

\* Every call for the lock ends, with the lock or an error, although the wall clock may
\* stand still and other processes take the lock again and again, die with it or hold
\* it for ever: only finding the lock gone over and over keeps a call from its end.
AcquireEnds ==
    \A p \in Procs :
        <>[][~FindsGone(p)]_vars => []<>(pc[p] \in {"idle", "dead"} \cup Holding)
=============================================================================
