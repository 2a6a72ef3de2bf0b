-------------------------------- MODULE Journal --------------------------------
(***************************************************************************)
(* The files of one operation in the journal (journal.ts): the event log,  *)
(* the terminal record that replaces it, the tombstone that replaces the   *)
(* terminal, the snapshot cache, and the quota counter that accounts for   *)
(* them.  The lock of the operation (JournalLock) admits one call at a     *)
(* time; the process that makes it may die before any step, a step may     *)
(* fail, and power may fail, which takes back whatever was not synced.     *)
(***************************************************************************)
EXTENDS Naturals, Sequences, FiniteSets, SequencesExt

CONSTANTS
    NoFile,     \* the version of a file that does not exist
    Events,     \* the events appended, among created, work, done and withheld
    MaxLines,   \* bound: events of an operation
    MaxTemps    \* bound: temporary files left behind by dead processes

ASSUME EventsAssumption == Events \subseteq {"created", "work", "done", "withheld"}
ASSUME BoundsAssumption == MaxLines \in Nat /\ MaxTemps \in Nat

VARIABLES
    disk,       \* the version of each file that a process sees
    stable,     \* the version that a power failure may bring back
    temps,      \* temporary files beside them
    counter,    \* the quota counter
    call,       \* the call that holds the lock
    told,       \* history: the last answer about the operation
    requests,   \* history: creations and purges begun since it was not found
    relied,     \* history: an answer or a removal was based on an unsynced entry
    power       \* history: "kept", "lost", or "relied": lost after that

files == <<disk, stable, temps>>
history == <<told, requests, relied, power>>
vars == <<files, counter, call, history>>

Files == {"log", "terminal", "tombstone", "snapshot"}

IsDone(lines) == \E i \in DOMAIN lines : lines[i] = "done"

\* reduceSafely, as far as the life of the files depends on it.
Accepts(lines, event) ==
    CASE event = "created" -> lines = <<>>
      [] event \in {"work", "done"} -> lines # <<>> /\ ~IsDone(lines)
      [] event = "withheld" -> IsDone(lines) /\ Last(lines) = "done"

IsHistory(lines) ==
    \A i \in DOMAIN lines : Accepts(SubSeq(lines, 1, i - 1), lines[i])

Histories == {lines \in UNION {[1 .. n -> Events] : n \in 0 .. MaxLines} : IsHistory(lines)}

\* A log or terminal stands for the events it tells of, and only a log is ever torn.  What a
\* snapshot or tombstone says besides is nobody's authority.
Versions == [lines : Histories, torn : BOOLEAN]
ASSUME NoFileAssumption == NoFile \notin Versions
Version(lines) == [lines |-> lines, torn |-> FALSE]
Marker == Version(<<>>)

Exists(file) == disk[file] # NoFile
Lines(file) == disk[file].lines
LogLines == IF Exists("log") THEN Lines("log") ELSE <<>>
LogEmpty == LogLines = <<>>

Size(version) ==
    IF version = NoFile THEN 0
    ELSE 1 + Len(version.lines) + IF version.torn THEN 1 ELSE 0
Usage == Size(disk["log"]) + Size(disk["terminal"]) + Size(disk["tombstone"])
         + Size(disk["snapshot"]) + temps

\* The fingerprints of the directories show their entries, not the length of a log.
Entries == [present |-> {file \in Files : Exists(file)}, temps |-> temps]

Job(op, file) == [op |-> op, file |-> file]
Jobs == [op : {"append", "publish", "remove"}, file : Files]
Steps == {"open", "truncate", "write", "broken", "sync", "temp", "link", "untemp", "unlink",
          "syncDir", "close"}
Kinds == {"none", "append", "compact", "prune", "purge", "refresh"}
Idle == [kind |-> "none", jobs |-> <<>>, step |-> "close", event |-> "none", before |-> 0]

NoRecord == [status |-> "none", lines |-> <<>>]

TypeOK ==
    /\ disk \in [Files -> Versions \cup {NoFile}]
    /\ stable \in [Files -> Versions \cup {NoFile}]
    /\ \A file \in Files \ {"log"} : Exists(file) => ~disk[file].torn
    /\ temps \in 0 .. MaxTemps
    /\ counter.dirty \in BOOLEAN /\ counter.total \in Nat
    /\ call.kind \in Kinds /\ call.step \in Steps /\ ToSet(call.jobs) \subseteq Jobs
    /\ told.status \in {"none", "live", "expired"} /\ told.lines \in Histories
    /\ requests \subseteq {"create", "purge"}
    /\ relied \in BOOLEAN /\ power \in {"kept", "lost", "relied"}

Init ==
    /\ disk = [file \in Files |-> NoFile] /\ stable = disk /\ temps = 0
    /\ counter = [dirty |-> FALSE, total |-> 0, entries |-> Entries]
    /\ call = Idle
    /\ told = NoRecord /\ requests = {}
    /\ relied = FALSE /\ power = "kept"

---------------------------------------------------------------------------
(* Answers *)

Tell(status, lines) ==
    /\ told' = [status |-> status, lines |-> lines]
    /\ requests' = IF status = "none" THEN {} ELSE requests

\* What is read rests on an entry that a power failure may still take back.
Unsynced(status) ==
    CASE status = "expired" -> stable["tombstone"] = NoFile
      [] status = "none" -> \E file \in Files \ {"snapshot"} :
                               stable[file] # NoFile /\ stable[file] # disk[file]
      [] status = "live" -> ~Exists("log") /\ stable["terminal"] = NoFile

Rely(unsynced) == relied' = (relied \/ unsynced) /\ UNCHANGED power

Answer(status, lines) == Tell(status, lines) /\ Rely(Unsynced(status))

\* Mutant: a line that was found is taken for a line that is durable.
ReadLogUnsynced == UNCHANGED files

\* readLog ends with ensureLogDurable; a log that is missing is not looked for on the disk.
ReadLog ==
    /\ stable' = IF Exists("log") THEN [stable EXCEPT !["log"] = disk["log"]] ELSE stable
    /\ UNCHANGED <<disk, temps>>

---------------------------------------------------------------------------
(* The beginning of each call, under the lock: its checks and what it will do *)

Begin(kind, jobs, event) ==
    call' = [kind |-> kind, jobs |-> jobs, step |-> "open", event |-> event, before |-> 0]

\* Creating the first revision tells that nothing was there.
Found(expected) ==
    /\ IF expected = 0 THEN told' = NoRecord /\ requests' = {"create"}
                       ELSE UNCHANGED <<told, requests>>
    /\ Rely(Unsynced("none"))

\* Mutant: the terminal record is not looked for.
AppendEventBeside(expected, event) ==
    /\ call = Idle /\ expected < MaxLines
    /\ ~Exists("tombstone")
    /\ ReadLog
    /\ Len(LogLines) = expected /\ Accepts(LogLines, event)
    /\ Begin("append", <<Job("append", "log")>>, event) /\ Found(expected)
    /\ UNCHANGED counter

\* Mutant: an event at the expected revision is not reduced before it is written.
AppendEventUnreduced(expected, event) ==
    /\ call = Idle /\ expected < MaxLines
    /\ ~Exists("tombstone") /\ ~Exists("terminal")
    /\ ReadLog
    /\ Len(LogLines) = expected
    /\ Begin("append", <<Job("append", "log")>>, event) /\ Found(expected)
    /\ UNCHANGED counter

\* assertNoTerminalOrTombstoneForAppend, readLog, the revision test, the reducer.
AppendEvent(expected, event) ==
    /\ call = Idle /\ expected < MaxLines
    /\ \/ Exists("tombstone") /\ Answer("expired", <<>>) /\ UNCHANGED <<files, call>>
       \/ /\ ~Exists("tombstone") /\ ~Exists("terminal")
          /\ ReadLog
          /\ Len(LogLines) = expected /\ Accepts(LogLines, event)
          /\ Begin("append", <<Job("append", "log")>>, event)
          /\ Found(expected)
    /\ UNCHANGED counter

Load ==
    /\ call = Idle
    /\ ReadLog
    /\ \/ Exists("tombstone") /\ Answer("expired", <<>>)
       \/ ~Exists("tombstone") /\ Exists("terminal") /\ Answer("live", Lines("terminal"))
       \/ ~Exists("tombstone") /\ ~Exists("terminal")
          /\ IF LogEmpty THEN Answer("none", <<>>) ELSE Answer("live", Lines("log"))
    /\ UNCHANGED <<counter, call>>

\* refreshSnapshot loads, and then replaces the cache.
Refresh ==
    /\ call = Idle
    /\ ~Exists("tombstone") /\ (Exists("terminal") \/ ~LogEmpty)
    /\ ReadLog
    /\ Begin("refresh", <<Job("publish", "snapshot")>>, "none")
    /\ UNCHANGED <<counter, history>>

\* compactCompletedLocked
Compact ==
    /\ call = Idle
    /\ \/ Exists("tombstone") /\ Answer("expired", <<>>) /\ UNCHANGED <<files, call>>
       \/ /\ ~Exists("tombstone") /\ Exists("terminal") /\ ~Exists("log")
          /\ Answer("live", Lines("terminal"))
          /\ UNCHANGED <<files, call>>
       \/ /\ ~Exists("tombstone") /\ Exists("terminal") /\ Exists("log")
          /\ ReadLog /\ Begin("compact", <<Job("remove", "log")>>, "none")
          /\ Rely(stable["terminal"] = NoFile)
          /\ UNCHANGED <<told, requests>>
       \/ /\ ~Exists("tombstone") /\ ~Exists("terminal") /\ LogEmpty
          /\ ReadLog /\ Answer("none", <<>>) /\ UNCHANGED call
       \/ /\ ~Exists("tombstone") /\ ~Exists("terminal") /\ ~LogEmpty /\ IsDone(Lines("log"))
          /\ ReadLog
          /\ Begin("compact", <<Job("publish", "terminal"), Job("remove", "log")>>, "none")
          /\ UNCHANGED history
    /\ UNCHANGED counter

\* pruneReceipt, in the state that its own call of compactCompleted leaves.
Prune ==
    /\ call = Idle
    /\ \/ /\ Exists("tombstone")
          /\ Begin("prune", <<Job("remove", "terminal"), Job("remove", "snapshot")>>, "none")
          /\ Rely(stable["tombstone"] = NoFile)
       \/ /\ ~Exists("tombstone") /\ Exists("terminal") /\ ~Exists("log")
          /\ Begin("prune", <<Job("publish", "tombstone"), Job("remove", "terminal"),
                              Job("remove", "snapshot")>>, "none")
          /\ Rely(FALSE)
    /\ UNCHANGED <<files, counter, told, requests>>

\* purgeTombstone verifies terminal and log residue before it removes anything.
Purge ==
    /\ call = Idle /\ Exists("tombstone")
    /\ ReadLog
    /\ Begin("purge", <<Job("remove", "tombstone"), Job("remove", "terminal"),
                        Job("remove", "snapshot"), Job("remove", "log")>>, "none")
    /\ requests' = requests \cup {"purge"}
    /\ UNCHANGED <<counter, told, relied, power>>

---------------------------------------------------------------------------
(* mutateQuotaTrackedState around each change of a tracked file *)

At(step) == call # Idle /\ call.step = step
Goto(step) == call' = [call EXCEPT !.step = step]
Op == Head(call.jobs).op
File == Head(call.jobs).file

\* loadCurrentQuotaCounter: a dirty counter, or other entries, cause a new scan.
Counted == IF counter.dirty \/ counter.entries # Entries THEN Usage ELSE counter.total
Clean(total) == [dirty |-> FALSE, total |-> total, entries |-> Entries]

\* Mutant: the counter is not marked dirty before the change.
QuotaOpenClean ==
    /\ At("open")
    /\ counter' = Clean(Counted)
    /\ call' = [call EXCEPT !.before = Size(disk[File]), !.step =
                  CASE Op = "append" -> IF Exists("log") /\ disk["log"].torn
                                        THEN "truncate" ELSE "write"
                    [] Op = "publish" -> "temp"
                    [] Op = "remove" -> IF Exists(File) THEN "unlink" ELSE "close"]
    /\ UNCHANGED <<files, history>>

\* A creation may also be refused because the quota is exhausted; an absent file is not removed.
QuotaOpen ==
    /\ At("open")
    /\ \/ /\ counter' = [Clean(Counted) EXCEPT !.dirty = TRUE]
          /\ call' = [call EXCEPT !.before = Size(disk[File]), !.step =
                        CASE Op = "append" -> IF Exists("log") /\ disk["log"].torn
                                              THEN "truncate" ELSE "write"
                          [] Op = "publish" -> "temp"
                          [] Op = "remove" -> IF Exists(File) THEN "unlink" ELSE "close"]
          /\ Rely(Op = "remove" /\ ~Exists(File) /\ stable[File] # NoFile)
       \/ call.event = "created" /\ counter' = Clean(Counted) /\ call' = Idle /\ Rely(FALSE)
    /\ UNCHANGED <<files, told, requests>>

\* The next change of the call, or its answer; a total below zero is an error (Fail).
QuotaClose ==
    /\ At("close") /\ counter.total + Size(disk[File]) >= call.before
    /\ counter' = Clean((counter.total + Size(disk[File])) - call.before)
    /\ IF Len(call.jobs) > 1
       THEN /\ call' = [call EXCEPT !.jobs = Tail(@), !.step = "open"]
            /\ UNCHANGED history
       ELSE /\ call' = Idle
            /\ CASE call.kind = "append" -> Tell("live", Lines("log"))
                 [] call.kind = "compact" -> Tell("live", Lines("terminal"))
                 [] call.kind = "prune" -> Tell("expired", <<>>)
                 [] call.kind = "purge" -> Tell("none", <<>>)
                 [] call.kind = "refresh" -> UNCHANGED <<told, requests>>
            /\ UNCHANGED <<relied, power>>
    /\ UNCHANGED files

\* OperationJournal.open repairs the counter before anything else.
Open ==
    /\ call = Idle
    /\ counter' = Clean(Counted)
    /\ UNCHANGED <<files, call, history>>

---------------------------------------------------------------------------
(* appendRecord *)

SetLog(version) == disk' = [disk EXCEPT !["log"] = version]

Truncate ==
    /\ At("truncate")
    /\ SetLog([disk["log"] EXCEPT !.torn = FALSE])
    /\ Goto("write")
    /\ UNCHANGED <<stable, temps, counter, history>>

\* A write may also stop anywhere inside the line.
Write ==
    /\ At("write")
    /\ \/ SetLog(Version(Append(LogLines, call.event))) /\ Goto("sync")
       \/ SetLog([lines |-> LogLines, torn |-> TRUE]) /\ Goto("broken")
    /\ UNCHANGED <<stable, temps, counter, history>>

\* sync makes the content durable; the entry of a new log needs its directory too.
Sync ==
    /\ At("sync")
    /\ stable' = IF stable["log"] = NoFile THEN stable
                 ELSE [stable EXCEPT !["log"] = disk["log"]]
    /\ Goto(IF call.event = "created" THEN "syncDir" ELSE "close")
    /\ UNCHANGED <<disk, temps, counter, history>>

---------------------------------------------------------------------------
(* writeAtomicJson, removeQuotaTrackedFile *)

WriteTemp ==
    /\ At("temp") /\ temps < MaxTemps
    /\ temps' = temps + 1
    /\ Goto("link")
    /\ UNCHANGED <<disk, stable, counter, history>>

Content == IF File = "terminal" THEN Version(Lines("log")) ELSE Marker

\* A snapshot is renamed over the old one, a record is linked and its temporary name removed.
Link ==
    /\ At("link")
    /\ disk' = [disk EXCEPT ![File] = Content]
    /\ IF File = "snapshot" THEN temps' = temps - 1 /\ Goto("syncDir")
                            ELSE UNCHANGED temps /\ Goto("untemp")
    /\ UNCHANGED <<stable, counter, history>>

RemoveTemp ==
    /\ At("untemp")
    /\ temps' = temps - 1
    /\ Goto("syncDir")
    /\ UNCHANGED <<disk, stable, counter, history>>

Unlink ==
    /\ At("unlink")
    /\ disk' = [disk EXCEPT ![File] = NoFile]
    /\ Goto("syncDir")
    /\ UNCHANGED <<stable, temps, counter, history>>

SyncDirectory ==
    /\ At("syncDir")
    /\ stable' = [stable EXCEPT ![File] = disk[File]]
    /\ Goto("close")
    /\ UNCHANGED <<disk, temps, counter, history>>

---------------------------------------------------------------------------
(* Faults *)

OwnTemp == IF call.step \in {"link", "untemp"} THEN 1 ELSE 0

\* A step throws: the temporary file goes and the counter is rebuilt, or stays dirty.
Fail ==
    /\ call # Idle
    /\ temps' = temps - OwnTemp
    /\ call' = Idle
    /\ IF call.step = "open" THEN UNCHANGED counter
       ELSE counter' \in {counter, [dirty |-> FALSE, total |-> Usage - OwnTemp,
                                    entries |-> [Entries EXCEPT !.temps = temps - OwnTemp]]}
    /\ UNCHANGED <<disk, stable, history>>

Die == call # Idle /\ call' = Idle /\ UNCHANGED <<files, counter, history>>

\* What power may leave of a file: the version that was synced, the one that was
\* written, or for a log anything between them.
Survives(file) ==
    LET old == stable[file]
        new == disk[file]
        Kept == IF old = NoFile THEN 0 ELSE Len(old.lines)
    IN  {old, new} \cup
        IF file # "log" \/ new = NoFile THEN {}
        ELSE {v \in Versions :
                /\ IsPrefix(v.lines, new.lines) /\ Len(v.lines) >= Kept
                /\ v.torn => Len(v.lines) < Len(new.lines)}

PowerLoss ==
    /\ \E log \in Survives("log"), terminal \in Survives("terminal"),
          tombstone \in Survives("tombstone"), snapshot \in Survives("snapshot") :
         disk' = [file \in Files |-> CASE file = "log" -> log
                                       [] file = "terminal" -> terminal
                                       [] file = "tombstone" -> tombstone
                                       [] file = "snapshot" -> snapshot]
    /\ stable' = disk'
    /\ temps' \in 0 .. temps
    /\ call' = Idle
    /\ power' = IF relied \/ power = "relied" THEN "relied" ELSE "lost"
    /\ UNCHANGED <<counter, told, requests, relied>>

Change ==
    \/ Truncate \/ Write \/ Sync \/ WriteTemp \/ Link \/ RemoveTemp \/ Unlink \/ SyncDirectory

Next ==
    \/ \E expected \in 0 .. MaxLines, event \in Events : AppendEvent(expected, event)
    \/ Load \/ Refresh \/ Compact \/ Prune \/ Purge \/ Open
    \/ QuotaOpen \/ Change \/ QuotaClose
    \/ Fail \/ Die \/ PowerLoss

Spec == Init /\ [][Next]_vars

---------------------------------------------------------------------------
(* Properties *)

Record == INSTANCE OperationRecord WITH record <- told, excused <- power = "relied"

\* Whatever dies, fails or loses power, later answers extend earlier ones: an acknowledged
\* event is not lost, an expired operation is not found complete or missing again, and a
\* purged one does not return.  (Excused: power that fails after an unsynced entry was
\* taken for a durable one.)
RecordIsKept == Record!Spec

\* The faults the code expects never leave files that its own cross-checks
\* (reconcileTerminalWithLog, the identity checks beside a tombstone) call corrupt,
\* with the same excuse.
NeverCorrupt ==
    power # "relied" =>
    /\ Exists("terminal") => IsDone(Lines("terminal"))
    /\ Exists("terminal") /\ Exists("log") => Lines("log") = Lines("terminal")
    /\ Exists("tombstone") /\ Exists("log") => IsDone(Lines("log"))

\* A counter that the next admission would trust is exact, whatever died or failed.
QuotaIsExact ==
    call = Idle /\ ~counter.dirty /\ counter.entries = Entries /\ power = "kept"
        => counter.total = Usage

\* "The terminal is fsynced before the historical log is removed" (journal.ts:556): a log
\* that is gone for good has left a terminal record that a power failure keeps.
CompactedIsDurable ==
    Exists("terminal") /\ ~Exists("log") /\ stable["log"] = NoFile
        => stable["terminal"] # NoFile
=============================================================================
