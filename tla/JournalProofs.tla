----------------------------- MODULE JournalProofs -----------------------------
(***************************************************************************)
(* That the files of an operation keep what the journal once answered, for *)
(* any events and any number of lines and temporary files.  The invariant  *)
(* speaks of the files twice: of the disk, which a process sees, and of    *)
(* everything power may bring back; the second part holds while no answer  *)
(* and no removal has relied on an entry that was not synced.              *)
(***************************************************************************)
EXTENDS Journal, SequenceTheorems, TLAPS

---------------------------------------------------------------------------
(* Histories and prefixes *)

LEMMA HistoryTyped ==
    ASSUME NEW lines \in Histories
    PROVE  /\ lines \in Seq(Events) /\ Len(lines) \in 0 .. MaxLines
           /\ DOMAIN lines = 1 .. Len(lines)
           /\ IsHistory(lines)
<1>1. PICK n \in 0 .. MaxLines : lines \in [1 .. n -> Events]
  BY DEF Histories
<1>2. n \in Nat /\ n <= MaxLines
  BY BoundsAssumption
<1>3. lines \in Seq(Events) /\ Len(lines) = n
  BY <1>1, <1>2
<1> QED
  BY <1>1, <1>2, <1>3 DEF Histories

LEMMA NoHistory == <<>> \in Histories
<1>1. <<>> \in [1 .. 0 -> Events] /\ 0 \in 0 .. MaxLines
  BY BoundsAssumption
<1>2. IsHistory(<<>>)
  BY DEF IsHistory
<1> QED
  BY <1>1, <1>2 DEF Histories

LEMMA LongerHistory ==
    ASSUME NEW lines \in Histories, NEW event \in Events,
           Len(lines) < MaxLines, Accepts(lines, event)
    PROVE  Append(lines, event) \in Histories
<1> DEFINE longer == Append(lines, event)
<1>1. /\ lines \in Seq(Events) /\ Len(lines) \in 0 .. MaxLines
      /\ DOMAIN lines = 1 .. Len(lines) /\ IsHistory(lines)
  BY HistoryTyped
<1>2. /\ longer \in Seq(Events) /\ Len(longer) = Len(lines) + 1
      /\ \A i \in 1 .. Len(lines) : longer[i] = lines[i]
      /\ longer[Len(lines) + 1] = event
  BY <1>1, AppendProperties
<1> HIDE DEF longer
<1>3. longer \in [1 .. Len(longer) -> Events] /\ Len(longer) \in 0 .. MaxLines
  BY <1>1, <1>2, BoundsAssumption, LenProperties
<1>4. ASSUME NEW i \in DOMAIN longer PROVE Accepts(SubSeq(longer, 1, i - 1), longer[i])
  <2>1. i \in 1 .. Len(lines) + 1
    BY <1>2, <1>3
  <2>2. SubSeq(longer, 1, i - 1) = SubSeq(lines, 1, i - 1)
    <3>1. /\ i - 1 \in 0 .. Len(lines) /\ \A j \in 1 .. i - 1 : longer[j] = lines[j]
      BY <1>1, <1>2, <2>1
    <3>2. /\ SubSeq(longer, 1, i - 1) \in Seq(Events)
          /\ Len(SubSeq(longer, 1, i - 1)) = i - 1
          /\ \A j \in 1 .. i - 1 : SubSeq(longer, 1, i - 1)[j] = longer[j]
      <4>1. \A j \in 1 .. i - 1 : longer[j] \in Events
        BY <1>1, <1>2, <3>1, ElementOfSeq
      <4> QED
        BY <1>2, <3>1, <4>1, SubSeqProperties
    <3>3. /\ SubSeq(lines, 1, i - 1) \in Seq(Events)
          /\ Len(SubSeq(lines, 1, i - 1)) = i - 1
          /\ \A j \in 1 .. i - 1 : SubSeq(lines, 1, i - 1)[j] = lines[j]
      <4>1. \A j \in 1 .. i - 1 : lines[j] \in Events
        BY <1>1, <3>1, ElementOfSeq
      <4> QED
        BY <1>1, <3>1, <4>1, SubSeqProperties
    <3> QED
      BY <3>1, <3>2, <3>3, SeqEqual
  <2>3. CASE i \in 1 .. Len(lines)
    BY <1>1, <1>2, <2>2, <2>3 DEF IsHistory
  <2>4. CASE i = Len(lines) + 1
    <3>1. SubSeq(lines, 1, i - 1) = lines
      BY <1>1, <2>4, SubSeqFull
    <3> QED
      BY <1>2, <2>2, <2>4, <3>1
  <2> QED
    BY <1>1, <2>1, <2>3, <2>4
<1>5. IsHistory(longer)
  BY <1>4 DEF IsHistory
<1> QED
  BY <1>3, <1>5 DEF Histories, longer

\* A prefix, line by line.
LEMMA PrefixIs ==
    ASSUME NEW a \in Histories, NEW b \in Histories
    PROVE  IsPrefix(a, b) <=> Len(a) <= Len(b) /\ \A i \in 1 .. Len(a) : a[i] = b[i]
<1>1. /\ a \in Seq(Events) /\ Len(a) \in Nat /\ b \in Seq(Events) /\ Len(b) \in Nat
  BY HistoryTyped
<1>2. SubSeq(a, 1, Len(a)) = a
  BY <1>1, SubSeqFull
<1>3. ASSUME Len(a) <= Len(b)
      PROVE  /\ SubSeq(b, 1, Len(a)) \in Seq(Events)
             /\ Len(SubSeq(b, 1, Len(a))) = Len(a)
             /\ \A i \in 1 .. Len(a) : SubSeq(b, 1, Len(a))[i] = b[i]
  <2>1. \A i \in 1 .. Len(a) : b[i] \in Events
    BY <1>1, <1>3, ElementOfSeq
  <2> QED
    BY <1>1, <2>1, SubSeqProperties
<1>4. ASSUME Len(a) <= Len(b), \A i \in 1 .. Len(a) : a[i] = b[i] PROVE SubSeq(b, 1, Len(a)) = a
  BY <1>1, <1>3, <1>4, SeqEqual
<1> QED
  BY <1>1, <1>2, <1>3, <1>4 DEF IsPrefix

LEMMA PrefixRefl == ASSUME NEW a \in Histories PROVE IsPrefix(a, a)
BY PrefixIs, HistoryTyped

LEMMA PrefixTrans ==
    ASSUME NEW a \in Histories, NEW b \in Histories, NEW c \in Histories,
           IsPrefix(a, b), IsPrefix(b, c)
    PROVE  IsPrefix(a, c)
BY PrefixIs, HistoryTyped

LEMMA PrefixAnti ==
    ASSUME NEW a \in Histories, NEW b \in Histories, IsPrefix(a, b), Len(b) <= Len(a)
    PROVE  a = b
<1>1. /\ a \in Seq(Events) /\ Len(a) \in Nat /\ b \in Seq(Events) /\ Len(b) \in Nat
  BY HistoryTyped
<1>2. Len(a) = Len(b) /\ \A i \in 1 .. Len(a) : a[i] = b[i]
  BY <1>1, PrefixIs
<1> QED
  BY <1>1, <1>2, SeqEqual

\* Of two prefixes of a history the shorter is a prefix of the longer.
LEMMA PrefixBetween ==
    ASSUME NEW a \in Histories, NEW b \in Histories, NEW c \in Histories,
           IsPrefix(a, c), IsPrefix(b, c), Len(a) <= Len(b)
    PROVE  IsPrefix(a, b)
BY PrefixIs, HistoryTyped

LEMMA PrefixDone ==
    ASSUME NEW a \in Histories, NEW b \in Histories, IsPrefix(a, b), IsDone(a)
    PROVE  IsDone(b)
<1>1. /\ Len(a) \in Nat /\ Len(b) \in Nat
      /\ DOMAIN a = 1 .. Len(a) /\ DOMAIN b = 1 .. Len(b)
  BY HistoryTyped
<1>2. PICK i \in 1 .. Len(a) : a[i] = "done"
  BY <1>1 DEF IsDone
<1>3. i \in DOMAIN b /\ b[i] = "done"
  BY <1>1, <1>2, PrefixIs
<1> QED
  BY <1>3 DEF IsDone

LEMMA PrefixAppend ==
    ASSUME NEW a \in Histories, NEW event \in Events, Append(a, event) \in Histories
    PROVE  IsPrefix(a, Append(a, event)) /\ Append(a, event) # <<>>
<1>1. /\ a \in Seq(Events) /\ Len(a) \in Nat
  BY HistoryTyped
<1>2. /\ Append(a, event) # <<>> /\ Len(Append(a, event)) = Len(a) + 1
      /\ \A i \in 1 .. Len(a) : Append(a, event)[i] = a[i]
  BY <1>1, AppendProperties
<1> DEFINE longer == Append(a, event)
<1>3. longer \in Histories /\ longer # <<>> /\ Len(longer) = Len(a) + 1
      /\ \A i \in 1 .. Len(a) : longer[i] = a[i]
  BY <1>2
<1> HIDE DEF longer
<1>4. IsPrefix(a, longer)
  BY <1>1, <1>3, PrefixIs
<1> QED
  BY <1>3, <1>4 DEF longer

LEMMA PrefixOfNothing ==
    ASSUME NEW a \in Histories, NEW b \in Histories, IsPrefix(a, b), a # <<>>
    PROVE  b # <<>>
<1>1. a \in Seq(Events) /\ Len(a) \in Nat /\ Len(a) # 0
  BY HistoryTyped, EmptySeq
<1>2. Len(b) >= Len(a) /\ Len(b) \in Nat
  BY PrefixIs, HistoryTyped
<1> QED
  BY <1>1, <1>2

LEMMA DoneIsSome == ASSUME NEW a \in Histories, IsDone(a) PROVE a # <<>>
BY HistoryTyped DEF IsDone

---------------------------------------------------------------------------
(* The invariant *)

\* The changes that each kind of call has left to make.
Agenda(kind, jobs) ==
    \/ kind = "append" /\ jobs = <<Job("append", "log")>>
    \/ kind = "refresh" /\ jobs = <<Job("publish", "snapshot")>>
    \/ kind = "compact" /\ jobs = <<Job("publish", "terminal"), Job("remove", "log")>>
    \/ kind = "compact" /\ jobs = <<Job("remove", "log")>>
    \/ kind = "prune" /\ jobs = <<Job("publish", "tombstone"), Job("remove", "terminal"),
                                  Job("remove", "snapshot")>>
    \/ kind = "prune" /\ jobs = <<Job("remove", "terminal"), Job("remove", "snapshot")>>
    \/ kind = "prune" /\ jobs = <<Job("remove", "snapshot")>>
    \/ kind = "purge" /\ jobs = <<Job("remove", "tombstone"), Job("remove", "terminal"),
                                  Job("remove", "snapshot"), Job("remove", "log")>>
    \/ kind = "purge" /\ jobs = <<Job("remove", "terminal"), Job("remove", "snapshot"),
                                  Job("remove", "log")>>
    \/ kind = "purge" /\ jobs = <<Job("remove", "snapshot"), Job("remove", "log")>>
    \/ kind = "purge" /\ jobs = <<Job("remove", "log")>>

\* The steps of each change.
Fits(op, step) ==
    \/ op = "append" /\ step \in {"open", "truncate", "write", "broken", "sync", "syncDir", "close"}
    \/ op = "publish" /\ step \in {"open", "temp", "link", "untemp", "syncDir", "close"}
    \/ op = "remove" /\ step \in {"open", "unlink", "syncDir", "close"}

CounterType == [dirty : BOOLEAN, total : Nat, entries : [present : SUBSET Files, temps : Nat]]
CallType == [kind : Kinds, jobs : Seq(Jobs), step : Steps, event : Events \cup {"none"},
             before : Nat]
ToldType == [status : {"none", "live", "expired"}, lines : Histories]

FilesType == [Files -> Versions \cup {NoFile}]

Typed ==
    /\ disk \in FilesType /\ stable \in FilesType
    /\ \A file \in Files \ {"log"} : Exists(file) => ~disk[file].torn
    /\ temps \in 0 .. MaxTemps
    /\ counter \in CounterType
    /\ call \in CallType
    /\ told \in ToldType
    /\ requests \subseteq {"create", "purge"}
    /\ relied \in BOOLEAN /\ power \in {"kept", "lost", "relied"}

\* A call is at a step of one of its changes; a temporary file of its own exists.
Underway ==
    call # Idle =>
        /\ Agenda(call.kind, call.jobs)
        /\ Fits(Op, call.step)
        /\ call.event = "none" <=> call.kind # "append"
        /\ call.step \in {"link", "untemp"} => temps > 0

HasTerminal == Exists("terminal")
HasTombstone == Exists("tombstone")
HasLog == Exists("log")
KeptTerminal == stable["terminal"] # NoFile
KeptTombstone == stable["tombstone"] # NoFile
KeptLog == stable["log"] # NoFile
KeptLines(file) == stable[file].lines

\* The steps of a change before it takes effect.
Early == {"open", "truncate", "write", "broken", "temp", "link", "unlink"}

\* What each kind of call may assume of the files, from its checks under the lock to
\* its answer: nothing else touches them.
Appending ==
    call.kind = "append" =>
        /\ ~HasTerminal /\ ~HasTombstone
        /\ call.step \in Early => Len(LogLines) < MaxLines /\ Accepts(LogLines, call.event)
        /\ call.event = "created" => told.status = "none" /\ "create" \in requests
        /\ call.step = "truncate" => HasLog
        /\ call.step \notin Early => HasLog /\ ~LogEmpty
        /\ call.step \notin {"syncDir", "close"} => call.event = "created" \/ KeptLog
        /\ call.step = "close" => stable["log"] = disk["log"]

Compacting ==
    call.kind = "compact" =>
        /\ ~HasTombstone
        /\ File = "terminal" =>
            /\ HasLog /\ IsDone(Lines("log")) /\ stable["log"] = disk["log"]
            /\ call.step \in Early => ~HasTerminal
            /\ call.step \notin Early => HasTerminal
            /\ call.step = "close" => KeptTerminal
        /\ File = "log" => HasTerminal /\ (KeptTerminal \/ relied)

Pruning ==
    call.kind = "prune" =>
        /\ File = "tombstone" =>
            /\ ~HasLog
            /\ call.step \in Early => HasTerminal
            /\ call.step \notin Early => HasTombstone
            /\ call.step = "close" => KeptTombstone
        /\ File # "tombstone" => HasTombstone /\ (KeptTombstone \/ relied)

Purging ==
    call.kind = "purge" =>
        /\ "purge" \in requests
        /\ File # "tombstone" => ~HasTombstone /\ (~KeptTombstone \/ relied)
        /\ File \in {"snapshot", "log"} => ~HasTerminal /\ (~KeptTerminal \/ relied)

Removing ==
    call # Idle /\ Op = "remove" =>
        /\ call.step \in {"syncDir", "close"} => ~Exists(File)
        /\ call.step = "close" => stable[File] = NoFile \/ relied

CallInv == Underway /\ Appending /\ Compacting /\ Pruning /\ Purging /\ Removing

\* What is found on the disk d agrees with itself and with the last answer.
Extends(answer, lines) == answer.status = "live" => IsPrefix(answer.lines, lines)

Answered(answer) ==
    /\ answer.status = "live" => answer.lines # <<>>
    /\ answer.status # "live" => answer.lines = <<>>

DiskRecords(d, answer) ==
    /\ d["terminal"] # NoFile =>
          IsDone(d["terminal"].lines) /\ Extends(answer, d["terminal"].lines)
    /\ d["terminal"] # NoFile /\ d["log"] # NoFile => d["log"].lines = d["terminal"].lines
    /\ d["tombstone"] # NoFile /\ d["log"] # NoFile => IsDone(d["log"].lines)
    /\ d["log"] # NoFile => Extends(answer, d["log"].lines)

\* What the record may have become since it was last told.
DiskAnswers(d, answer, asked) ==
    /\ answer.status = "expired" /\ d["tombstone"] = NoFile => "purge" \in asked
    /\ answer.status = "none" /\ (\/ d["tombstone"] # NoFile \/ d["terminal"] # NoFile
                                  \/ d["log"] # NoFile /\ d["log"].lines # <<>>)
          => "create" \in asked
    /\ answer.status = "live" =>
          \/ "purge" \in asked
          \/ d["tombstone"] # NoFile \/ d["terminal"] # NoFile \/ d["log"] # NoFile

OnDisk(d, answer, asked) ==
    Answered(answer) /\ DiskRecords(d, answer) /\ DiskAnswers(d, answer, asked)

\* So does everything that power may leave of the disk d and the durable versions k.
KeptRecords(d, k, answer, appending) ==
    /\ k["terminal"] # NoFile =>
          IsDone(k["terminal"].lines) /\ Extends(answer, k["terminal"].lines)
    /\ k["terminal"] # NoFile /\ d["log"] # NoFile => k["terminal"].lines = d["log"].lines
    /\ k["terminal"] # NoFile /\ k["log"] # NoFile => k["terminal"].lines = k["log"].lines
    /\ k["terminal"] # NoFile /\ d["terminal"] # NoFile =>
          k["terminal"].lines = d["terminal"].lines
    /\ appending => /\ k["terminal"] = NoFile /\ k["tombstone"] = NoFile
                    /\ k["log"] # NoFile => d["log"] # NoFile

KeptLogs(d, k, answer) ==
    /\ k["log"] # NoFile /\ d["terminal"] # NoFile => k["log"].lines = d["terminal"].lines
    /\ d["log"] # NoFile /\ (\/ d["terminal"] # NoFile \/ k["terminal"] # NoFile
                             \/ d["tombstone"] # NoFile \/ k["tombstone"] # NoFile
                             \/ answer.status = "live")
          => k["log"] # NoFile
    /\ k["log"] # NoFile /\ (d["tombstone"] # NoFile \/ k["tombstone"] # NoFile)
          => IsDone(k["log"].lines)
    /\ k["log"] # NoFile => Extends(answer, k["log"].lines)
    /\ k["log"] # NoFile /\ d["log"] # NoFile => IsPrefix(k["log"].lines, d["log"].lines)

KeptAnswers(d, k, answer, asked) ==
    /\ answer.status = "expired" /\ k["tombstone"] = NoFile => "purge" \in asked
    /\ answer.status = "none" /\ (\/ k["tombstone"] # NoFile \/ k["terminal"] # NoFile
                                  \/ k["log"] # NoFile /\ k["log"].lines # <<>>)
          => "create" \in asked
    /\ answer.status = "live" =>
          \/ "purge" \in asked
          \/ d["tombstone"] # NoFile /\ k["tombstone"] # NoFile
          \/ d["terminal"] # NoFile /\ k["terminal"] # NoFile
          \/ d["log"] # NoFile /\ k["log"] # NoFile

Kept(d, k, answer, asked, appending) ==
    /\ KeptRecords(d, k, answer, appending)
    /\ KeptLogs(d, k, answer)
    /\ KeptAnswers(d, k, answer, asked)

Holds == power # "relied" => OnDisk(disk, told, requests)

\* While no answer and no removal relied on an entry that was not synced.
Survivable ==
    ~relied /\ power # "relied" => Kept(disk, stable, told, requests, call.kind = "append")

\* While the counter is not marked dirty it counts every file; a change that is underway
\* has marked it, and knows by how much it is off.
Counting ==
    power = "kept" =>
        /\ ~counter.dirty => counter.total = Usage /\ counter.entries = Entries
        /\ call # Idle /\ call.step # "open" =>
              /\ counter.dirty
              /\ counter.total + Size(disk[File]) + OwnTemp = Usage + call.before

Inv == Typed /\ CallInv /\ Holds /\ Survivable /\ Counting

---------------------------------------------------------------------------
(* The agenda *)

LEMMA Tails ==
    ASSUME NEW a, NEW b, NEW c, NEW d
    PROVE  /\ Head(<<a>>) = a /\ Len(<<a>>) = 1
           /\ Head(<<a, b>>) = a /\ Tail(<<a, b>>) = <<b>> /\ Len(<<a, b>>) = 2
           /\ Head(<<a, b, c>>) = a /\ Tail(<<a, b, c>>) = <<b, c>> /\ Len(<<a, b, c>>) = 3
           /\ Head(<<a, b, c, d>>) = a /\ Tail(<<a, b, c, d>>) = <<b, c, d>>
           /\ Len(<<a, b, c, d>>) = 4
OBVIOUS

LEMMA AgendaTyped ==
    ASSUME NEW kind, NEW jobs, Agenda(kind, jobs)
    PROVE  /\ kind \in Kinds \ {"none"}
           /\ jobs \in Seq(Jobs) /\ jobs # <<>> /\ Len(jobs) \in 1 .. 4
           /\ Head(jobs) \in Jobs
<1>1. \A op \in {"append", "publish", "remove"}, file \in Files : Job(op, file) \in Jobs
  BY DEF Job, Jobs
<1>2. /\ Job("append", "log") \in Jobs /\ Job("publish", "snapshot") \in Jobs
      /\ Job("publish", "terminal") \in Jobs /\ Job("publish", "tombstone") \in Jobs
      /\ Job("remove", "log") \in Jobs /\ Job("remove", "terminal") \in Jobs
      /\ Job("remove", "snapshot") \in Jobs /\ Job("remove", "tombstone") \in Jobs
  BY <1>1 DEF Files
<1> HIDE DEF Job, Jobs
<1>3. kind \in Kinds \ {"none"}
  BY DEF Agenda, Kinds
<1>4. jobs \in Seq(Jobs) /\ Len(jobs) \in 1 .. 4
  <2>1. \A a \in Jobs : <<a>> \in Seq(Jobs) /\ Len(<<a>>) = 1
    OBVIOUS
  <2>2. \A a, b \in Jobs : <<a, b>> \in Seq(Jobs) /\ Len(<<a, b>>) = 2
    OBVIOUS
  <2>3. \A a, b, c \in Jobs : <<a, b, c>> \in Seq(Jobs) /\ Len(<<a, b, c>>) = 3
    OBVIOUS
  <2>4. \A a, b, c, d \in Jobs : <<a, b, c, d>> \in Seq(Jobs) /\ Len(<<a, b, c, d>>) = 4
    OBVIOUS
  <2>5. \/ \E a \in Jobs : jobs = <<a>>
        \/ \E a, b \in Jobs : jobs = <<a, b>>
        \/ \E a, b, c \in Jobs : jobs = <<a, b, c>>
        \/ \E a, b, c, d \in Jobs : jobs = <<a, b, c, d>>
    BY <1>2, Zenon DEF Agenda
  <2>6. CASE \E a \in Jobs : jobs = <<a>>
    BY <2>1, <2>6
  <2>7. CASE \E a, b \in Jobs : jobs = <<a, b>>
    BY <2>2, <2>7
  <2>8. CASE \E a, b, c \in Jobs : jobs = <<a, b, c>>
    BY <2>3, <2>8
  <2>9. CASE \E a, b, c, d \in Jobs : jobs = <<a, b, c, d>>
    BY <2>4, <2>9
  <2> QED
    BY <2>5, <2>6, <2>7, <2>8, <2>9
<1>5. jobs # <<>>
  BY <1>4
<1> QED
  BY <1>3, <1>4, <1>5, HeadTailProperties

\* The change at the head says which kind of call it belongs to, and whether it is the last.
LEMMA AgendaHead ==
    ASSUME NEW kind, NEW jobs, Agenda(kind, jobs)
    PROVE  /\ kind = "append" =>
                Head(jobs).op = "append" /\ Head(jobs).file = "log" /\ Len(jobs) = 1
           /\ kind = "refresh" =>
                Head(jobs).op = "publish" /\ Head(jobs).file = "snapshot" /\ Len(jobs) = 1
           /\ kind = "compact" =>
                \/ Head(jobs).op = "publish" /\ Head(jobs).file = "terminal" /\ Len(jobs) > 1
                \/ Head(jobs).op = "remove" /\ Head(jobs).file = "log" /\ Len(jobs) = 1
           /\ kind = "prune" =>
                \/ Head(jobs).op = "publish" /\ Head(jobs).file = "tombstone" /\ Len(jobs) > 1
                \/ Head(jobs).op = "remove" /\ Head(jobs).file = "terminal" /\ Len(jobs) > 1
                \/ Head(jobs).op = "remove" /\ Head(jobs).file = "snapshot" /\ Len(jobs) = 1
           /\ kind = "purge" =>
                \/ Head(jobs).op = "remove" /\ Len(jobs) > 1
                   /\ Head(jobs).file \in {"tombstone", "terminal", "snapshot"}
                \/ Head(jobs).op = "remove" /\ Head(jobs).file = "log" /\ Len(jobs) = 1
BY DEF Agenda, Job

\* The file of a change of a call, and the file of its next change.
Follows(kind, file, next) ==
    /\ kind = "compact" => next = "log"
    /\ kind = "prune" => \/ file = "tombstone" /\ next = "terminal"
                         \/ file = "terminal" /\ next = "snapshot"
    /\ kind = "purge" => \/ file = "tombstone" /\ next = "terminal"
                         \/ file = "terminal" /\ next = "snapshot"
                         \/ file = "snapshot" /\ next = "log"

LEMMA AgendaTail ==
    ASSUME NEW kind, NEW jobs, Agenda(kind, jobs), Len(jobs) > 1
    PROVE  /\ Agenda(kind, Tail(jobs))
           /\ Head(Tail(jobs)).op = "remove"
           /\ Follows(kind, Head(jobs).file, Head(Tail(jobs)).file)
<1>1. CASE jobs = <<Job("publish", "terminal"), Job("remove", "log")>>
  <2>1. kind = "compact"
    BY <1>1, Tails DEF Agenda, Job
  <2> QED
    BY <1>1, <2>1, Tails DEF Agenda, Job, Follows
<1>2. CASE jobs = <<Job("publish", "tombstone"), Job("remove", "terminal"),
                    Job("remove", "snapshot")>>
  <2>1. kind = "prune"
    BY <1>2, Tails DEF Agenda, Job
  <2>2. /\ Tail(jobs) = <<Job("remove", "terminal"), Job("remove", "snapshot")>>
        /\ Head(jobs) = Job("publish", "tombstone") /\ Head(Tail(jobs)) = Job("remove", "terminal")
    BY <1>2, Tails
  <2>3. Agenda(kind, Tail(jobs))
    BY <2>1, <2>2 DEF Agenda
  <2> QED
    BY <2>1, <2>2, <2>3 DEF Job, Follows
<1>3. CASE jobs = <<Job("remove", "terminal"), Job("remove", "snapshot")>>
  <2>1. kind = "prune"
    BY <1>3, Tails DEF Agenda, Job
  <2>2. /\ Tail(jobs) = <<Job("remove", "snapshot")>>
        /\ Head(jobs) = Job("remove", "terminal") /\ Head(Tail(jobs)) = Job("remove", "snapshot")
    BY <1>3, Tails
  <2>3. Agenda(kind, Tail(jobs))
    BY <2>1, <2>2 DEF Agenda
  <2> QED
    BY <2>1, <2>2, <2>3 DEF Job, Follows
<1>4. CASE jobs = <<Job("remove", "tombstone"), Job("remove", "terminal"),
                    Job("remove", "snapshot"), Job("remove", "log")>>
  <2>1. kind = "purge"
    BY <1>4, Tails DEF Agenda, Job
  <2>2. /\ Tail(jobs) = <<Job("remove", "terminal"), Job("remove", "snapshot"),
                         Job("remove", "log")>>
        /\ Head(jobs) = Job("remove", "tombstone") /\ Head(Tail(jobs)) = Job("remove", "terminal")
    BY <1>4, Tails
  <2>3. Agenda(kind, Tail(jobs))
    BY <2>1, <2>2 DEF Agenda
  <2> QED
    BY <2>1, <2>2, <2>3 DEF Job, Follows
<1>5. CASE jobs = <<Job("remove", "terminal"), Job("remove", "snapshot"), Job("remove", "log")>>
  <2>1. kind = "purge"
    BY <1>5, Tails DEF Agenda, Job
  <2>2. /\ Tail(jobs) = <<Job("remove", "snapshot"), Job("remove", "log")>>
        /\ Head(jobs) = Job("remove", "terminal") /\ Head(Tail(jobs)) = Job("remove", "snapshot")
    BY <1>5, Tails
  <2>3. Agenda(kind, Tail(jobs))
    BY <2>1, <2>2 DEF Agenda
  <2> QED
    BY <2>1, <2>2, <2>3 DEF Job, Follows
<1>6. CASE jobs = <<Job("remove", "snapshot"), Job("remove", "log")>>
  <2>1. kind = "purge"
    BY <1>6, Tails DEF Agenda, Job
  <2>2. /\ Tail(jobs) = <<Job("remove", "log")>>
        /\ Head(jobs) = Job("remove", "snapshot") /\ Head(Tail(jobs)) = Job("remove", "log")
    BY <1>6, Tails
  <2>3. Agenda(kind, Tail(jobs))
    BY <2>1, <2>2 DEF Agenda
  <2> QED
    BY <2>1, <2>2, <2>3 DEF Job, Follows
<1>7. \A a : jobs # <<a>>
  BY Tails
<1> QED
  BY <1>1, <1>2, <1>3, <1>4, <1>5, <1>6, <1>7 DEF Agenda

---------------------------------------------------------------------------
(* Types *)

LEMMA VersionTyped ==
    ASSUME NEW lines \in Histories
    PROVE  /\ Version(lines) \in Versions /\ Version(lines) # NoFile
           /\ Version(lines).lines = lines /\ Version(lines).torn = FALSE
<1>1. Version(lines) \in Versions
  BY DEF Version, Versions
<1>2. Version(lines) # NoFile
  BY <1>1, NoFileAssumption
<1> QED
  BY <1>1, <1>2 DEF Version

LEMMA FileTyped ==
    ASSUME Typed, NEW file \in Files
    PROVE  /\ disk[file] \in Versions \cup {NoFile} /\ stable[file] \in Versions \cup {NoFile}
           /\ Exists(file) => disk[file] \in Versions /\ Lines(file) \in Histories
                              /\ disk[file].torn \in BOOLEAN
           /\ stable[file] # NoFile => stable[file] \in Versions /\ KeptLines(file) \in Histories
BY DEF Typed, FilesType, Exists, Lines, KeptLines, Versions

LEMMA LogTyped ==
    ASSUME Typed
    PROVE  /\ LogLines \in Histories
           /\ HasLog => LogLines = Lines("log") /\ Lines("log") \in Histories
           /\ HasTerminal => Lines("terminal") \in Histories
           /\ KeptLog => KeptLines("log") \in Histories
           /\ KeptTerminal => KeptLines("terminal") \in Histories
           /\ ~HasLog => LogEmpty
           /\ HasLog => (LogEmpty <=> Lines("log") = <<>>)
           /\ told.lines \in Histories
<1>1. "log" \in Files /\ "terminal" \in Files
  BY DEF Files
<1> QED
  BY <1>1, FileTyped, NoHistory
     DEF LogLines, LogEmpty, HasLog, HasTerminal, KeptLog, KeptTerminal, Exists, Lines, Typed,
         ToldType

LEMMA SizeTyped == ASSUME NEW v \in Versions \cup {NoFile} PROVE Size(v) \in Nat
<1>1. Size(NoFile) = 0
  BY DEF Size
<1>2. ASSUME v \in Versions PROVE Size(v) \in Nat
  <2>1. v.lines \in Histories /\ v # NoFile
    BY <1>2, NoFileAssumption DEF Versions
  <2>2. Len(v.lines) \in Nat
    BY <2>1, HistoryTyped
  <2>3. CASE v.torn
    BY <2>1, <2>2, <2>3 DEF Size
  <2>4. CASE ~v.torn
    BY <2>1, <2>2, <2>4 DEF Size
  <2> QED
    BY <2>3, <2>4
<1> QED
  BY <1>1, <1>2

LEMMA UsageTyped ==
    ASSUME Typed
    PROVE  /\ Usage \in Nat /\ Usage >= temps /\ temps \in Nat
           /\ \A file \in Files : Size(disk[file]) \in Nat
           /\ Entries \in [present : SUBSET Files, temps : Nat]
           /\ Counted \in Nat
<1>1. temps \in Nat
  BY BoundsAssumption DEF Typed
<1>2. \A file \in Files : Size(disk[file]) \in Nat
  BY FileTyped, SizeTyped
<1>3. {"log", "terminal", "tombstone", "snapshot"} \subseteq Files
  BY DEF Files
<1>4. Usage \in Nat /\ Usage >= temps
  BY <1>1, <1>2, <1>3 DEF Usage
<1>5. Entries \in [present : SUBSET Files, temps : Nat]
  BY <1>1 DEF Entries
<1> QED
  BY <1>1, <1>2, <1>4, <1>5 DEF Counted, Typed, CounterType

LEMMA CleanTyped ==
    ASSUME Typed, NEW total \in Nat
    PROVE  /\ Clean(total) \in CounterType
           /\ Clean(total).dirty = FALSE /\ Clean(total).total = total
           /\ Clean(total).entries = Entries
           /\ [Clean(total) EXCEPT !.dirty = TRUE] \in CounterType
           /\ [Clean(total) EXCEPT !.dirty = TRUE].dirty = TRUE
           /\ [Clean(total) EXCEPT !.dirty = TRUE].total = total
           /\ [Clean(total) EXCEPT !.dirty = TRUE].entries = Entries
<1>1. Entries \in [present : SUBSET Files, temps : Nat]
  BY UsageTyped
<1> QED
  BY <1>1 DEF Clean, CounterType

LEMMA IdleTyped ==
    /\ Idle \in CallType /\ Idle.kind = "none" /\ Idle.step = "close" /\ Idle.event = "none"
<1>1. <<>> \in Seq(Jobs)
  BY EmptySeq
<1> QED
  BY <1>1 DEF Idle, CallType, Kinds, Steps

LEMMA BeginTyped ==
    ASSUME NEW kind, NEW jobs, NEW event \in Events \cup {"none"}, Agenda(kind, jobs),
           Begin(kind, jobs, event)
    PROVE  /\ call' \in CallType /\ call' # Idle
           /\ call'.kind = kind /\ call'.jobs = jobs /\ call'.step = "open"
           /\ call'.event = event
           /\ Op' = Head(jobs).op /\ File' = Head(jobs).file
<1>1. kind \in Kinds \ {"none"} /\ jobs \in Seq(Jobs)
  BY AgendaTyped
<1>2. /\ call'.kind = kind /\ call'.jobs = jobs /\ call'.step = "open"
      /\ call'.event = event
  BY DEF Begin
<1>3. call' \in CallType
  BY <1>1 DEF Begin, CallType, Steps
<1> QED
  BY <1>1, <1>2, <1>3, IdleTyped DEF Op, File

LEMMA GotoTyped ==
    ASSUME Typed, Underway, call # Idle, NEW step \in Steps, Goto(step)
    PROVE  /\ call' \in CallType /\ call' # Idle
           /\ call'.kind = call.kind /\ call'.jobs = call.jobs /\ call'.step = step
           /\ call'.event = call.event /\ call'.before = call.before
           /\ Op' = Op /\ File' = File
<1>1. call \in CallType /\ call.kind # "none"
  BY AgendaTyped DEF Typed, Underway
<1>2. /\ call' \in CallType
      /\ call'.kind = call.kind /\ call'.jobs = call.jobs /\ call'.step = step
      /\ call'.event = call.event /\ call'.before = call.before
  BY <1>1 DEF Goto, CallType
<1> QED
  BY <1>1, <1>2, IdleTyped DEF Op, File

\* What the change of a call that is underway tells of the call.
LEMMA CallTyped ==
    ASSUME Typed, Underway, call # Idle
    PROVE  /\ call.kind \in Kinds \ {"none"} /\ File \in Files
           /\ call.jobs \in Seq(Jobs) /\ call.jobs # <<>> /\ Len(call.jobs) \in 1 .. 4
           /\ call.step \in Steps /\ call.before \in Nat
           /\ call.event \in Events \cup {"none"}
<1>1. Head(call.jobs) \in Jobs
  BY AgendaTyped DEF Underway
<1> QED
  BY <1>1, AgendaTyped DEF Underway, Typed, CallType, File, Jobs

LEMMA CallShape ==
    ASSUME Typed, Underway, call # Idle
    PROVE  /\ call.kind = "append" => Op = "append" /\ File = "log" /\ Len(call.jobs) = 1
           /\ call.kind = "refresh" => Op = "publish" /\ File = "snapshot" /\ Len(call.jobs) = 1
           /\ call.kind = "compact" =>
                \/ Op = "publish" /\ File = "terminal" /\ Len(call.jobs) > 1
                \/ Op = "remove" /\ File = "log" /\ Len(call.jobs) = 1
           /\ call.kind = "prune" =>
                \/ Op = "publish" /\ File = "tombstone" /\ Len(call.jobs) > 1
                \/ Op = "remove" /\ File = "terminal" /\ Len(call.jobs) > 1
                \/ Op = "remove" /\ File = "snapshot" /\ Len(call.jobs) = 1
           /\ call.kind = "purge" =>
                \/ Op = "remove" /\ Len(call.jobs) > 1
                   /\ File \in {"tombstone", "terminal", "snapshot"}
                \/ Op = "remove" /\ File = "log" /\ Len(call.jobs) = 1
BY AgendaHead DEF Underway, Op, File

---------------------------------------------------------------------------
(* What each change of a file, and each answer, does to the record *)

LEMMA FilesTyped ==
    ASSUME NEW d \in FilesType, NEW file \in Files, d[file] # NoFile
    PROVE  d[file] \in Versions /\ d[file].lines \in Histories /\ d[file].torn \in BOOLEAN
BY DEF FilesType, Versions

\* A directory or a log is synced: the durable version becomes the one on the disk.
LEMMA SyncKept ==
    ASSUME NEW d \in FilesType, NEW k \in FilesType, NEW answer \in ToldType, NEW asked,
           NEW appending \in BOOLEAN, NEW file \in Files, file = "log" \/ ~appending,
           OnDisk(d, answer, asked), Kept(d, k, answer, asked, appending)
    PROVE  Kept(d, [k EXCEPT ![file] = d[file]], answer, asked, appending)
<1> DEFINE k2 == [k EXCEPT ![file] = d[file]]
<1>1. /\ k2[file] = d[file]
      /\ file # "log" => k2["log"] = k["log"]
      /\ file # "terminal" => k2["terminal"] = k["terminal"]
      /\ file # "tombstone" => k2["tombstone"] = k["tombstone"]
  BY DEF FilesType, Files
<1>2. d["log"] # NoFile => IsPrefix(d["log"].lines, d["log"].lines)
  BY FilesTyped, PrefixRefl DEF Files
<1> HIDE DEF k2
<1> USE DEF OnDisk, DiskRecords, DiskAnswers, Kept
<1>3. CASE file = "log"
  <2>0. d["log"] # NoFile /\ k["tombstone"] # NoFile => IsDone(d["log"].lines)
    <3> SUFFICES ASSUME d["log"] # NoFile, k["tombstone"] # NoFile PROVE IsDone(d["log"].lines)
      OBVIOUS
    <3>1. /\ k["log"] # NoFile /\ IsDone(k["log"].lines)
          /\ IsPrefix(k["log"].lines, d["log"].lines)
      BY DEF KeptLogs
    <3> QED
      BY <3>1, FilesTyped, PrefixDone DEF Files
  <2>1. KeptRecords(d, k2, answer, appending)
    BY <1>1, <1>3 DEF KeptRecords, KeptLogs
  <2>2. KeptLogs(d, k2, answer)
    BY <1>1, <1>2, <1>3, <2>0 DEF KeptRecords, KeptLogs
  <2>3. KeptAnswers(d, k2, answer, asked)
    BY <1>1, <1>3 DEF KeptAnswers
  <2> QED
    BY <2>1, <2>2, <2>3 DEF k2
<1>4. CASE file = "terminal"
  <2>1. KeptRecords(d, k2, answer, appending)
    BY <1>1, <1>4 DEF KeptRecords, KeptLogs
  <2>2. KeptLogs(d, k2, answer)
    BY <1>1, <1>4 DEF KeptRecords, KeptLogs
  <2>3. KeptAnswers(d, k2, answer, asked)
    BY <1>1, <1>4 DEF KeptAnswers
  <2> QED
    BY <2>1, <2>2, <2>3 DEF k2
<1>5. CASE file = "tombstone"
  <2>1. KeptRecords(d, k2, answer, appending)
    BY <1>1, <1>5 DEF KeptRecords, KeptLogs
  <2>2. KeptLogs(d, k2, answer)
    BY <1>1, <1>5 DEF KeptRecords, KeptLogs
  <2>3. KeptAnswers(d, k2, answer, asked)
    BY <1>1, <1>5 DEF KeptAnswers
  <2> QED
    BY <2>1, <2>2, <2>3 DEF k2
<1>6. CASE file = "snapshot"
  BY <1>1, <1>6 DEF KeptRecords, KeptLogs, KeptAnswers, k2
<1> QED
  BY <1>3, <1>4, <1>5, <1>6 DEF Files

\* The record is told again as it is found.
LEMMA TellTerminal ==
    ASSUME NEW d \in FilesType, NEW answer \in ToldType, NEW asked, NEW new \in ToldType,
           OnDisk(d, answer, asked), d["terminal"] # NoFile,
           new.status = "live", new.lines = d["terminal"].lines
    PROVE  /\ OnDisk(d, new, asked)
           /\ \A k \in FilesType, appending \in BOOLEAN :
                  /\ Kept(d, k, answer, asked, appending)
                  /\ k["terminal"] # NoFile \/ d["log"] # NoFile
                  => Kept(d, k, new, asked, appending)
<1>1. d["terminal"].lines \in Histories
  BY FilesTyped DEF Files
<1>2. /\ IsPrefix(new.lines, d["terminal"].lines) /\ new.lines # <<>>
      /\ IsDone(d["terminal"].lines)
  BY <1>1, PrefixRefl, DoneIsSome DEF OnDisk, DiskRecords
<1>3. OnDisk(d, new, asked)
  BY <1>2 DEF OnDisk, DiskRecords, DiskAnswers, Answered, Extends
<1>4. ASSUME NEW k \in FilesType, NEW appending \in BOOLEAN,
             Kept(d, k, answer, asked, appending),
             k["terminal"] # NoFile \/ d["log"] # NoFile
      PROVE  Kept(d, k, new, asked, appending)
  <2>1. KeptRecords(d, k, new, appending)
    BY <1>2, <1>4 DEF Kept, KeptRecords, Extends
  <2>2. KeptLogs(d, k, new)
    BY <1>2, <1>4 DEF Kept, KeptLogs, Extends
  <2>3. KeptAnswers(d, k, new, asked)
    BY <1>4, <2>2 DEF KeptLogs, KeptAnswers
  <2> QED
    BY <2>1, <2>2, <2>3 DEF Kept
<1> QED
  BY <1>3, <1>4

LEMMA TellLog ==
    ASSUME NEW d \in FilesType, NEW answer \in ToldType, NEW asked, NEW new \in ToldType,
           OnDisk(d, answer, asked), d["terminal"] = NoFile,
           d["log"] # NoFile, d["log"].lines # <<>>,
           new.status = "live", new.lines = d["log"].lines
    PROVE  /\ OnDisk(d, new, asked)
           /\ \A k \in FilesType, appending \in BOOLEAN :
                  Kept(d, k, answer, asked, appending) /\ k["log"] = d["log"]
                  => Kept(d, k, new, asked, appending)
<1>1. d["log"].lines \in Histories
  BY FilesTyped DEF Files
<1>2. IsPrefix(new.lines, d["log"].lines)
  BY <1>1, PrefixRefl
<1>3. OnDisk(d, new, asked)
  BY <1>2 DEF OnDisk, DiskRecords, DiskAnswers, Answered, Extends
<1>4. ASSUME NEW k \in FilesType, NEW appending \in BOOLEAN,
             Kept(d, k, answer, asked, appending), k["log"] = d["log"]
      PROVE  Kept(d, k, new, asked, appending)
  <2>1. KeptRecords(d, k, new, appending)
    BY <1>2, <1>4 DEF Kept, KeptRecords, Extends
  <2>2. KeptLogs(d, k, new)
    BY <1>2, <1>4 DEF Kept, KeptLogs, Extends
  <2>3. KeptAnswers(d, k, new, asked)
    BY <1>4 DEF KeptAnswers
  <2> QED
    BY <2>1, <2>2, <2>3 DEF Kept
<1> QED
  BY <1>3, <1>4

LEMMA TellExpired ==
    ASSUME NEW d \in FilesType, NEW answer \in ToldType, NEW asked, NEW new \in ToldType,
           OnDisk(d, answer, asked), d["tombstone"] # NoFile,
           new.status = "expired", new.lines = <<>>
    PROVE  /\ OnDisk(d, new, asked)
           /\ \A k \in FilesType, appending \in BOOLEAN :
                  Kept(d, k, answer, asked, appending) /\ k["tombstone"] # NoFile
                  => Kept(d, k, new, asked, appending)
<1>1. OnDisk(d, new, asked)
  BY DEF OnDisk, DiskRecords, DiskAnswers, Answered, Extends
<1>2. ASSUME NEW k \in FilesType, NEW appending \in BOOLEAN,
             Kept(d, k, answer, asked, appending), k["tombstone"] # NoFile
      PROVE  Kept(d, k, new, asked, appending)
  <2>1. KeptRecords(d, k, new, appending)
    BY <1>2 DEF Kept, KeptRecords, Extends
  <2>2. KeptLogs(d, k, new)
    BY <1>2 DEF Kept, KeptLogs, Extends
  <2>3. KeptAnswers(d, k, new, asked)
    BY <1>2 DEF KeptAnswers
  <2> QED
    BY <2>1, <2>2, <2>3 DEF Kept
<1> QED
  BY <1>1, <1>2

\* Nothing durable differs from a disk without a record: no earlier answer is left to keep.
LEMMA TellNone ==
    ASSUME NEW d \in FilesType, NEW answer \in ToldType, NEW asked, NEW new \in ToldType,
           NEW again, OnDisk(d, answer, asked),
           d["tombstone"] = NoFile, d["terminal"] = NoFile,
           d["log"] # NoFile => d["log"].lines = <<>>,
           new.status = "none", new.lines = <<>>
    PROVE  /\ OnDisk(d, new, again)
           /\ \A k \in FilesType, appending \in BOOLEAN :
                  (\A file \in Files \ {"snapshot"} : k[file] # NoFile => k[file] = d[file])
                  => Kept(d, k, new, again, appending)
<1>1. OnDisk(d, new, again)
  BY DEF OnDisk, DiskRecords, DiskAnswers, Answered, Extends
<1>2. ASSUME NEW k \in FilesType, NEW appending \in BOOLEAN,
             \A file \in Files \ {"snapshot"} : k[file] # NoFile => k[file] = d[file]
      PROVE  Kept(d, k, new, again, appending)
  <2>1. /\ k["terminal"] = NoFile /\ k["tombstone"] = NoFile
        /\ k["log"] # NoFile => k["log"] = d["log"]
    BY <1>2 DEF Files
  <2>2. d["log"] # NoFile => IsPrefix(d["log"].lines, d["log"].lines)
    BY FilesTyped, PrefixRefl DEF Files
  <2>3. KeptRecords(d, k, new, appending)
    BY <2>1 DEF KeptRecords, Extends
  <2>4. KeptLogs(d, k, new)
    BY <2>1, <2>2 DEF KeptLogs, Extends
  <2>5. KeptAnswers(d, k, new, again)
    BY <2>1 DEF KeptAnswers
  <2> QED
    BY <2>3, <2>4, <2>5 DEF Kept
<1> QED
  BY <1>1, <1>2

\* A line is appended, or its beginning, or a torn line is cut off.
LEMMA LogWritten ==
    ASSUME NEW d \in FilesType, NEW answer \in ToldType, NEW asked, NEW v \in Versions,
           OnDisk(d, answer, asked), d["terminal"] = NoFile, d["tombstone"] = NoFile,
           d["log"] # NoFile => IsPrefix(d["log"].lines, v.lines),
           answer.status = "live" => d["log"] # NoFile,
           answer.status = "none" /\ v.lines # <<>> => "create" \in asked
    PROVE  /\ OnDisk([d EXCEPT !["log"] = v], answer, asked)
           /\ \A k \in FilesType :
                  Kept(d, k, answer, asked, TRUE)
                  => Kept([d EXCEPT !["log"] = v], k, answer, asked, TRUE)
<1> DEFINE d2 == [d EXCEPT !["log"] = v]
<1>1. /\ d2["log"] = v /\ d2["terminal"] = NoFile /\ d2["tombstone"] = NoFile
      /\ v # NoFile /\ v.lines \in Histories
  BY NoFileAssumption DEF FilesType, Files, Versions
<1>2. Extends(answer, v.lines)
  <2> SUFFICES ASSUME answer.status = "live" PROVE IsPrefix(answer.lines, v.lines)
    BY DEF Extends
  <2>1. IsPrefix(answer.lines, d["log"].lines) /\ d["log"].lines \in Histories
    BY FilesTyped DEF OnDisk, DiskRecords, Extends, Files
  <2> QED
    BY <1>1, <2>1, PrefixTrans DEF ToldType
<1> HIDE DEF d2
<1>3. OnDisk(d2, answer, asked)
  BY <1>1, <1>2 DEF OnDisk, DiskRecords, DiskAnswers
<1>4. ASSUME NEW k \in FilesType, Kept(d, k, answer, asked, TRUE)
      PROVE  Kept(d2, k, answer, asked, TRUE)
  <2>1. /\ k["terminal"] = NoFile /\ k["tombstone"] = NoFile
        /\ k["log"] # NoFile => d["log"] # NoFile
    BY <1>4 DEF Kept, KeptRecords
  <2>2. k["log"] # NoFile => IsPrefix(k["log"].lines, v.lines)
    <3> SUFFICES ASSUME k["log"] # NoFile PROVE IsPrefix(k["log"].lines, v.lines)
      OBVIOUS
    <3>1. /\ IsPrefix(k["log"].lines, d["log"].lines)
          /\ k["log"].lines \in Histories /\ d["log"].lines \in Histories
      BY <1>4, <2>1, FilesTyped DEF Kept, KeptLogs, Files
    <3> QED
      BY <1>1, <2>1, <3>1, PrefixTrans
  <2>3. KeptRecords(d2, k, answer, TRUE)
    BY <1>1, <2>1 DEF KeptRecords
  <2>4. KeptLogs(d2, k, answer)
    BY <1>1, <1>4, <2>1, <2>2 DEF Kept, KeptLogs
  <2>5. KeptAnswers(d2, k, answer, asked)
    BY <1>1, <1>4, <2>1 DEF Kept, KeptAnswers
  <2> QED
    BY <2>3, <2>4, <2>5 DEF Kept
<1> QED
  BY <1>3, <1>4 DEF d2

\* The terminal record repeats a complete log that is durable.
LEMMA TerminalLinked ==
    ASSUME NEW d \in FilesType, NEW answer \in ToldType, NEW asked, NEW v \in Versions,
           OnDisk(d, answer, asked), d["tombstone"] = NoFile,
           d["log"] # NoFile, IsDone(d["log"].lines), v.lines = d["log"].lines
    PROVE  /\ OnDisk([d EXCEPT !["terminal"] = v], answer, asked)
           /\ \A k \in FilesType :
                  Kept(d, k, answer, asked, FALSE) /\ k["log"] = d["log"]
                  => Kept([d EXCEPT !["terminal"] = v], k, answer, asked, FALSE)
<1> DEFINE d2 == [d EXCEPT !["terminal"] = v]
<1>1. /\ d2["log"] = d["log"] /\ d2["terminal"] = v /\ d2["tombstone"] = NoFile
      /\ v # NoFile /\ d["log"].lines # <<>>
  BY NoFileAssumption, FilesTyped, DoneIsSome DEF FilesType, Files
<1> HIDE DEF d2
<1>2. OnDisk(d2, answer, asked)
  BY <1>1 DEF OnDisk, DiskRecords, DiskAnswers
<1>3. ASSUME NEW k \in FilesType, Kept(d, k, answer, asked, FALSE), k["log"] = d["log"]
      PROVE  Kept(d2, k, answer, asked, FALSE)
  <2>1. KeptRecords(d2, k, answer, FALSE)
    BY <1>1, <1>3 DEF Kept, KeptRecords
  <2>2. KeptLogs(d2, k, answer)
    BY <1>1, <1>3 DEF Kept, KeptLogs
  <2>3. KeptAnswers(d2, k, answer, asked)
    BY <1>1, <1>3 DEF Kept, KeptAnswers
  <2> QED
    BY <2>1, <2>2, <2>3 DEF Kept
<1> QED
  BY <1>2, <1>3 DEF d2

LEMMA TombstoneLinked ==
    ASSUME NEW d \in FilesType, NEW answer \in ToldType, NEW asked, NEW v \in Versions,
           OnDisk(d, answer, asked), d["log"] = NoFile, d["terminal"] # NoFile
    PROVE  /\ OnDisk([d EXCEPT !["tombstone"] = v], answer, asked)
           /\ \A k \in FilesType :
                  Kept(d, k, answer, asked, FALSE)
                  => Kept([d EXCEPT !["tombstone"] = v], k, answer, asked, FALSE)
<1> DEFINE d2 == [d EXCEPT !["tombstone"] = v]
<1>1. /\ d2["log"] = NoFile /\ d2["terminal"] = d["terminal"] /\ d2["tombstone"] = v
      /\ v # NoFile
  BY NoFileAssumption DEF FilesType, Files
<1> HIDE DEF d2
<1>2. OnDisk(d2, answer, asked)
  BY <1>1 DEF OnDisk, DiskRecords, DiskAnswers
<1>3. ASSUME NEW k \in FilesType, Kept(d, k, answer, asked, FALSE)
      PROVE  Kept(d2, k, answer, asked, FALSE)
  <2>1. KeptRecords(d2, k, answer, FALSE)
    BY <1>1, <1>3 DEF Kept, KeptRecords
  <2>2. KeptLogs(d2, k, answer)
    BY <1>1, <1>3 DEF Kept, KeptLogs, OnDisk, DiskRecords
  <2>3. KeptAnswers(d2, k, answer, asked)
    BY <1>1, <1>3 DEF Kept, KeptAnswers
  <2> QED
    BY <2>1, <2>2, <2>3 DEF Kept
<1> QED
  BY <1>2, <1>3 DEF d2

\* The snapshot is nobody's authority.
LEMMA SnapshotApart ==
    ASSUME NEW d \in FilesType, NEW answer, NEW asked, NEW v
    PROVE  /\ OnDisk(d, answer, asked) => OnDisk([d EXCEPT !["snapshot"] = v], answer, asked)
           /\ \A k, appending :
                  Kept(d, k, answer, asked, appending)
                  => Kept([d EXCEPT !["snapshot"] = v], k, answer, asked, appending)
<1> DEFINE d2 == [d EXCEPT !["snapshot"] = v]
<1>1. /\ d2["log"] = d["log"] /\ d2["terminal"] = d["terminal"]
      /\ d2["tombstone"] = d["tombstone"]
  BY DEF FilesType, Files
<1> HIDE DEF d2
<1>2. OnDisk(d, answer, asked) => OnDisk(d2, answer, asked)
  BY <1>1 DEF OnDisk, DiskRecords, DiskAnswers
<1>3. ASSUME NEW k, NEW appending, Kept(d, k, answer, asked, appending)
      PROVE  Kept(d2, k, answer, asked, appending)
  BY <1>1, <1>3 DEF Kept, KeptRecords, KeptLogs, KeptAnswers
<1> QED
  BY <1>2, <1>3 DEF d2

\* A file is removed once a later record stands for it, or at the caller's wish.
LEMMA Unlinked ==
    ASSUME NEW d \in FilesType, NEW answer \in ToldType, NEW asked, NEW file \in Files,
           OnDisk(d, answer, asked),
           \/ "purge" \in asked
           \/ file = "snapshot"
           \/ file = "terminal" /\ d["tombstone"] # NoFile
           \/ file = "log" /\ d["terminal"] # NoFile
    PROVE  /\ OnDisk([d EXCEPT ![file] = NoFile], answer, asked)
           /\ \A k \in FilesType :
                  /\ Kept(d, k, answer, asked, FALSE)
                  /\ \/ "purge" \in asked
                     \/ file = "snapshot"
                     \/ file = "terminal" /\ k["tombstone"] # NoFile
                     \/ file = "log" /\ k["terminal"] # NoFile
                  => Kept([d EXCEPT ![file] = NoFile], k, answer, asked, FALSE)
<1> DEFINE d2 == [d EXCEPT ![file] = NoFile]
<1>1. /\ d2[file] = NoFile
      /\ file # "log" => d2["log"] = d["log"]
      /\ file # "terminal" => d2["terminal"] = d["terminal"]
      /\ file # "tombstone" => d2["tombstone"] = d["tombstone"]
  BY DEF FilesType, Files
<1>2. file \in {"log", "terminal", "tombstone", "snapshot"}
  BY DEF Files
<1> HIDE DEF d2
<1>3. DiskRecords(d2, answer)
  BY <1>1, <1>2 DEF OnDisk, DiskRecords
<1>4. DiskAnswers(d2, answer, asked)
  BY <1>1, <1>2 DEF OnDisk, DiskAnswers
<1>5. ASSUME NEW k \in FilesType, Kept(d, k, answer, asked, FALSE),
             \/ "purge" \in asked
             \/ file = "snapshot"
             \/ file = "terminal" /\ k["tombstone"] # NoFile
             \/ file = "log" /\ k["terminal"] # NoFile
      PROVE  Kept(d2, k, answer, asked, FALSE)
  <2>1. KeptRecords(d2, k, answer, FALSE)
    BY <1>1, <1>2, <1>5 DEF Kept, KeptRecords
  <2>2. KeptLogs(d2, k, answer)
    BY <1>1, <1>2, <1>5 DEF Kept, KeptLogs
  <2>3. KeptAnswers(d2, k, answer, asked)
    BY <1>1, <1>2, <1>5 DEF Kept, KeptAnswers
  <2> QED
    BY <2>1, <2>2, <2>3 DEF Kept
<1> QED
  BY <1>3, <1>4, <1>5 DEF OnDisk, d2

\* After a power failure there is nothing unsynced.
LEMMA AllKept ==
    ASSUME NEW d \in FilesType, NEW answer, NEW asked, OnDisk(d, answer, asked)
    PROVE  Kept(d, d, answer, asked, FALSE)
<1>1. d["log"] # NoFile => IsPrefix(d["log"].lines, d["log"].lines)
  BY FilesTyped, PrefixRefl DEF Files
<1>2. KeptRecords(d, d, answer, FALSE)
  BY DEF OnDisk, DiskRecords, KeptRecords
<1>3. KeptLogs(d, d, answer)
  BY <1>1 DEF OnDisk, DiskRecords, KeptLogs
<1>4. KeptAnswers(d, d, answer, asked)
  BY DEF OnDisk, DiskAnswers, KeptAnswers
<1> QED
  BY <1>2, <1>3, <1>4 DEF Kept

\* What power may leave of a log n: one of its two versions, or something between them.
Between(d, k, n) ==
    \/ n["log"] \in {d["log"], k["log"]}
    \/ /\ d["log"] # NoFile /\ n["log"] \in Versions
       /\ IsPrefix(n["log"].lines, d["log"].lines)
       /\ k["log"] # NoFile => Len(n["log"].lines) >= Len(k["log"].lines)

LEMMA PowerKeepsLog ==
    ASSUME NEW d \in FilesType, NEW k \in FilesType, NEW n \in FilesType,
           NEW answer \in ToldType, NEW asked, NEW appending,
           OnDisk(d, answer, asked), Kept(d, k, answer, asked, appending),
           Between(d, k, n), n["log"] # NoFile
    PROVE  /\ Extends(answer, n["log"].lines)
           /\ d["terminal"] # NoFile => n["log"].lines = d["terminal"].lines
           /\ k["terminal"] # NoFile => n["log"].lines = k["terminal"].lines
           /\ d["tombstone"] # NoFile \/ k["tombstone"] # NoFile => IsDone(n["log"].lines)
           /\ n["log"].lines # <<>> => \/ d["log"] # NoFile /\ d["log"].lines # <<>>
                                       \/ k["log"] # NoFile /\ k["log"].lines # <<>>
<1> USE DEF Kept, OnDisk
<1>1. CASE n["log"] = k["log"]
  BY <1>1 DEF KeptLogs, KeptRecords
<1>2. CASE n["log"] = d["log"]
  <2>1. d["tombstone"] # NoFile \/ k["tombstone"] # NoFile => IsDone(n["log"].lines)
    <3> SUFFICES ASSUME d["tombstone"] # NoFile \/ k["tombstone"] # NoFile
                 PROVE  IsDone(d["log"].lines)
      BY <1>2
    <3>1. /\ k["log"] # NoFile /\ IsDone(k["log"].lines)
          /\ IsPrefix(k["log"].lines, d["log"].lines)
      BY <1>2 DEF KeptLogs
    <3> QED
      BY <1>2, <3>1, FilesTyped, PrefixDone DEF Files
  <2> QED
    BY <1>2, <2>1 DEF DiskRecords, KeptRecords
<1>3. CASE /\ d["log"] # NoFile /\ n["log"] \in Versions
           /\ IsPrefix(n["log"].lines, d["log"].lines)
           /\ k["log"] # NoFile => Len(n["log"].lines) >= Len(k["log"].lines)
  <2>1. n["log"].lines \in Histories /\ d["log"].lines \in Histories
    BY <1>3, FilesTyped DEF Files
  <2>2. n["log"].lines # <<>> => d["log"].lines # <<>>
    BY <1>3, <2>1, PrefixOfNothing
  <2>3. CASE k["log"] = NoFile
    <3>1. /\ d["terminal"] = NoFile /\ k["terminal"] = NoFile
          /\ d["tombstone"] = NoFile /\ k["tombstone"] = NoFile
          /\ answer.status # "live"
      BY <1>3, <2>3 DEF KeptLogs
    <3> QED
      BY <1>3, <2>2, <3>1 DEF Extends
  <2>4. CASE k["log"] # NoFile
    <3>1. /\ k["log"].lines \in Histories
          /\ IsPrefix(k["log"].lines, d["log"].lines)
      BY <1>3, <2>4, FilesTyped DEF KeptLogs, Files
    <3>2. IsPrefix(k["log"].lines, n["log"].lines)
      <4>1. Len(k["log"].lines) <= Len(n["log"].lines)
        BY <1>3, <2>1, <2>4, <3>1, HistoryTyped
      <4> QED
        BY <1>3, <2>1, <3>1, <4>1, PrefixBetween
    <3>3. Extends(answer, n["log"].lines)
      <4> SUFFICES ASSUME answer.status = "live" PROVE IsPrefix(answer.lines, n["log"].lines)
        BY DEF Extends
      <4>1. IsPrefix(answer.lines, k["log"].lines) /\ answer.lines \in Histories
        BY <2>4 DEF KeptLogs, Extends, ToldType
      <4> QED
        BY <2>1, <3>1, <3>2, <4>1, PrefixTrans
    <3>4. ASSUME k["log"].lines = d["log"].lines PROVE n["log"].lines = d["log"].lines
      <4>1. Len(d["log"].lines) <= Len(n["log"].lines)
        BY <1>3, <2>1, <2>4, <3>4, HistoryTyped
      <4> QED
        BY <1>3, <2>1, <4>1, PrefixAnti
    <3>5. d["terminal"] # NoFile => n["log"].lines = d["terminal"].lines
      BY <1>3, <2>4, <3>4 DEF KeptLogs, DiskRecords
    <3>6. k["terminal"] # NoFile => n["log"].lines = k["terminal"].lines
      BY <1>3, <2>4, <3>4 DEF KeptRecords
    <3>7. d["tombstone"] # NoFile \/ k["tombstone"] # NoFile => IsDone(n["log"].lines)
      <4> SUFFICES ASSUME d["tombstone"] # NoFile \/ k["tombstone"] # NoFile
                   PROVE  IsDone(n["log"].lines)
        OBVIOUS
      <4>1. IsDone(k["log"].lines)
        BY <2>4 DEF KeptLogs
      <4> QED
        BY <2>1, <3>1, <3>2, <4>1, PrefixDone
    <3> QED
      BY <1>3, <2>2, <3>3, <3>5, <3>6, <3>7
  <2> QED
    BY <2>3, <2>4
<1> QED
  BY <1>1, <1>2, <1>3 DEF Between

\* Whatever power leaves of the files agrees with itself and with the last answer.
LEMMA PowerKeeps ==
    ASSUME NEW d \in FilesType, NEW k \in FilesType, NEW n \in FilesType,
           NEW answer \in ToldType, NEW asked, NEW appending,
           OnDisk(d, answer, asked), Kept(d, k, answer, asked, appending),
           Between(d, k, n), n["terminal"] \in {d["terminal"], k["terminal"]},
           n["tombstone"] \in {d["tombstone"], k["tombstone"]}
    PROVE  OnDisk(n, answer, asked)
<1>1. n["log"] # NoFile =>
           /\ Extends(answer, n["log"].lines)
           /\ d["terminal"] # NoFile => n["log"].lines = d["terminal"].lines
           /\ k["terminal"] # NoFile => n["log"].lines = k["terminal"].lines
           /\ d["tombstone"] # NoFile \/ k["tombstone"] # NoFile => IsDone(n["log"].lines)
           /\ n["log"].lines # <<>> => \/ d["log"] # NoFile /\ d["log"].lines # <<>>
                                       \/ k["log"] # NoFile /\ k["log"].lines # <<>>
  BY PowerKeepsLog
<1>2. d["log"] # NoFile /\ k["log"] # NoFile => n["log"] # NoFile
  BY NoFileAssumption DEF Between
<1>3. DiskRecords(n, answer)
  BY <1>1 DEF OnDisk, DiskRecords, Kept, KeptRecords
<1>4. DiskAnswers(n, answer, asked)
  <2>1. answer.status = "expired" /\ n["tombstone"] = NoFile => "purge" \in asked
    BY DEF OnDisk, DiskAnswers, Kept, KeptAnswers
  <2>2. answer.status = "none" /\ (\/ n["tombstone"] # NoFile \/ n["terminal"] # NoFile
                                   \/ n["log"] # NoFile /\ n["log"].lines # <<>>)
          => "create" \in asked
    BY <1>1 DEF OnDisk, DiskAnswers, Kept, KeptAnswers
  <2>3. answer.status = "live" =>
          \/ "purge" \in asked
          \/ n["tombstone"] # NoFile \/ n["terminal"] # NoFile \/ n["log"] # NoFile
    BY <1>2 DEF Kept, KeptAnswers
  <2> QED
    BY <2>1, <2>2, <2>3 DEF DiskAnswers
<1> QED
  BY <1>3, <1>4 DEF OnDisk

---------------------------------------------------------------------------
(* Steps between the calls *)

USE DEF Inv

LEMMA QuietCounting ==
    ASSUME Counting, disk' = disk, temps' = temps, counter' = counter, power' = power,
           call' = Idle \/ call'.step = "open"
    PROVE  Counting'
<1>1. Usage' = Usage /\ Entries' = Entries
  BY DEF Usage, Entries, Exists
<1> QED
  BY <1>1 DEF Counting

LEMMA IdleCallInv == ASSUME call' = Idle PROVE CallInv' /\ call'.kind # "append"
<1>1. call'.kind = "none"
  BY IdleTyped
<1> QED
  BY <1>1 DEF CallInv, Underway, Appending, Compacting, Pruning, Purging, Removing

LEMMA ToldTyped ==
    ASSUME Typed, NEW status \in {"none", "live", "expired"}, NEW lines \in Histories,
           Tell(status, lines)
    PROVE  /\ told' \in ToldType /\ told'.status = status /\ told'.lines = lines
           /\ requests' \subseteq {"create", "purge"}
           /\ status # "none" => requests' = requests
           /\ status = "none" => requests' = {}
BY DEF Tell, ToldType, Typed

\* The log is looked for, and synced when it is there.
LEMMA LookKept ==
    ASSUME Inv, call.kind # "append", ReadLog \/ UNCHANGED files
    PROVE  /\ disk' = disk /\ temps' = temps /\ stable' \in FilesType
           /\ stable'["terminal"] = stable["terminal"]
           /\ stable'["tombstone"] = stable["tombstone"]
           /\ ReadLog /\ HasLog => stable'["log"] = disk["log"]
           /\ stable'["log"] \in {stable["log"], disk["log"]}
           /\ ~HasLog => stable'["log"] = stable["log"]
           /\ ~relied /\ power # "relied" => Kept(disk, stable', told, requests, FALSE)
<1>1. ~relied /\ power # "relied" =>
          OnDisk(disk, told, requests) /\ Kept(disk, stable, told, requests, FALSE)
  BY DEF Holds, Survivable
<1>2. disk \in FilesType /\ stable \in FilesType /\ told \in ToldType
  BY DEF Typed
<1>3. CASE ReadLog /\ HasLog
  <2>1. stable' = [stable EXCEPT !["log"] = disk["log"]] /\ disk' = disk /\ temps' = temps
    BY <1>3 DEF ReadLog, HasLog
  <2>2. "log" \in Files
    BY DEF Files
  <2>3. ~relied /\ power # "relied" => Kept(disk, stable', told, requests, FALSE)
    BY <1>1, <1>2, <2>1, <2>2, SyncKept
  <2>4. /\ stable' \in FilesType /\ stable'["log"] = disk["log"]
        /\ stable'["terminal"] = stable["terminal"]
        /\ stable'["tombstone"] = stable["tombstone"]
    BY <1>2, <2>1, <2>2 DEF FilesType, Files
  <2> QED
    BY <1>3, <2>1, <2>3, <2>4
<1>4. CASE ~(ReadLog /\ HasLog)
  <2>1. stable' = stable /\ disk' = disk /\ temps' = temps
    BY <1>4 DEF ReadLog, HasLog, files
  <2> QED
    BY <1>1, <1>2, <1>4, <2>1
<1> QED
  BY <1>3, <1>4

\* A call that only answers.
LEMMA AnswerNext ==
    ASSUME Inv, call = Idle, call' = call, counter' = counter, ReadLog \/ UNCHANGED files,
           \/ HasTombstone /\ Answer("expired", <<>>)
           \/ HasTerminal /\ Answer("live", Lines("terminal"))
           \/ ~HasTerminal /\ ~LogEmpty /\ ReadLog /\ Answer("live", Lines("log"))
           \/ ~HasTombstone /\ ~HasTerminal /\ LogEmpty /\ Answer("none", <<>>)
    PROVE  Inv'
<1>1. call.kind = "none"
  BY IdleTyped
<1>2. /\ disk' = disk /\ temps' = temps /\ stable' \in FilesType
      /\ stable'["terminal"] = stable["terminal"]
      /\ stable'["tombstone"] = stable["tombstone"]
      /\ ReadLog /\ HasLog => stable'["log"] = disk["log"]
      /\ stable'["log"] \in {stable["log"], disk["log"]}
      /\ ~HasLog => stable'["log"] = stable["log"]
      /\ ~relied /\ power # "relied" => Kept(disk, stable', told, requests, FALSE)
  BY <1>1, LookKept
<1>3. disk \in FilesType /\ told \in ToldType
  BY DEF Typed
<1>4. PICK status \in {"none", "live", "expired"}, lines \in Histories : Answer(status, lines)
  BY NoHistory, LogTyped
<1>5. /\ power' = power /\ relied' \in BOOLEAN /\ (relied => relied')
      /\ told' \in ToldType /\ requests' \subseteq {"create", "purge"}
  BY <1>4, ToldTyped DEF Answer, Rely, Typed
<1>6. Typed'
  BY <1>2, <1>3, <1>5 DEF Typed, Exists
<1>7. CallInv' /\ Counting'
  BY <1>2, <1>5, IdleCallInv, QuietCounting
<1>8. ASSUME power # "relied"
      PROVE  /\ OnDisk(disk, told', requests')
             /\ ~relied' => Kept(disk, stable', told', requests', FALSE)
  <2>1. OnDisk(disk, told, requests)
    BY <1>8 DEF Holds
  <2>2. CASE HasTombstone /\ Answer("expired", <<>>)
    <3>1. /\ told'.status = "expired" /\ told'.lines = <<>> /\ requests' = requests
          /\ ~relied' => ~relied /\ stable["tombstone"] # NoFile
      BY <2>2, NoHistory, ToldTyped DEF Answer, Rely, Unsynced
    <3> QED
      BY <1>2, <1>3, <1>5, <1>8, <2>1, <2>2, <3>1, TellExpired DEF HasTombstone, Exists
  <2>3. CASE HasTerminal /\ Answer("live", Lines("terminal"))
    <3>1. /\ told'.status = "live" /\ told'.lines = Lines("terminal") /\ requests' = requests
          /\ ~relied' => ~relied /\ (stable["terminal"] # NoFile \/ HasLog)
      BY <2>3, LogTyped, ToldTyped DEF Answer, Rely, Unsynced, HasLog
    <3> QED
      BY <1>2, <1>3, <1>5, <1>8, <2>1, <2>3, <3>1, TellTerminal
         DEF HasTerminal, HasLog, Exists, Lines
  <2>4. CASE ~HasTerminal /\ ~LogEmpty /\ ReadLog /\ Answer("live", Lines("log"))
    <3>1. HasLog /\ Lines("log") \in Histories /\ Lines("log") # <<>>
      BY <2>4, LogTyped
    <3>2. /\ told'.status = "live" /\ told'.lines = Lines("log") /\ requests' = requests
          /\ ~relied' => ~relied
      BY <2>4, <3>1, ToldTyped DEF Answer, Rely
    <3> QED
      BY <1>2, <1>3, <1>5, <1>8, <2>1, <2>4, <3>1, <3>2, TellLog
         DEF HasTerminal, HasLog, Exists, Lines
  <2>5. CASE ~HasTombstone /\ ~HasTerminal /\ LogEmpty /\ Answer("none", <<>>)
    <3>1. /\ told'.status = "none" /\ told'.lines = <<>>
          /\ ~relied' => \A file \in Files \ {"snapshot"} :
                             stable[file] # NoFile => stable[file] = disk[file]
      BY <2>5, NoHistory, ToldTyped DEF Answer, Rely, Unsynced
    <3>2. ~relied' => \A file \in Files \ {"snapshot"} :
                          stable'[file] # NoFile => stable'[file] = disk[file]
      BY <1>2, <3>1 DEF Files
    <3>3. disk["log"] # NoFile => disk["log"].lines = <<>>
      BY <2>5, LogTyped DEF HasLog, Exists, Lines
    <3> QED
      BY <1>2, <1>3, <1>5, <2>1, <2>5, <3>1, <3>2, <3>3, TellNone
         DEF HasTerminal, HasTombstone, Exists
  <2> QED
    BY <2>2, <2>3, <2>4, <2>5
<1>9. Holds' /\ Survivable'
  BY <1>1, <1>2, <1>5, <1>8 DEF Holds, Survivable
<1> QED
  BY <1>6, <1>7, <1>9

LEMMA LoadNext == ASSUME Inv, Load PROVE Inv'
<1>1. call = Idle /\ call' = call /\ counter' = counter /\ ReadLog
  BY DEF Load
<1>2. \/ HasTombstone /\ Answer("expired", <<>>)
      \/ HasTerminal /\ Answer("live", Lines("terminal"))
      \/ ~HasTerminal /\ ~LogEmpty /\ ReadLog /\ Answer("live", Lines("log"))
      \/ ~HasTombstone /\ ~HasTerminal /\ LogEmpty /\ Answer("none", <<>>)
  BY <1>1 DEF Load, HasTombstone, HasTerminal
<1> QED
  BY <1>1, <1>2, AnswerNext

---------------------------------------------------------------------------
(* The beginning of each call *)

LEMMA BeginShape ==
    ASSUME Inv, call = Idle, ReadLog \/ UNCHANGED files, counter' = counter,
           NEW kind, NEW jobs, NEW event \in Events \cup {"none"},
           Agenda(kind, jobs), event = "none" <=> kind # "append", Begin(kind, jobs, event),
           power' = power, relied' \in BOOLEAN, told' \in ToldType,
           requests' \subseteq {"create", "purge"}
    PROVE  /\ Typed' /\ Underway' /\ Removing' /\ Counting'
           /\ call' # Idle /\ call'.kind = kind /\ call'.step = "open" /\ call'.event = event
           /\ File' = Head(jobs).file
<1>1. call.kind = "none"
  BY IdleTyped
<1>2. disk' = disk /\ temps' = temps /\ stable' \in FilesType
  BY <1>1, LookKept
<1>3. /\ call' \in CallType /\ call' # Idle
      /\ call'.kind = kind /\ call'.jobs = jobs /\ call'.step = "open"
      /\ call'.event = event
      /\ Op' = Head(jobs).op /\ File' = Head(jobs).file
  BY BeginTyped
<1>4. Typed'
  BY <1>2, <1>3 DEF Typed, Exists
<1>5. Head(jobs).op \in {"append", "publish", "remove"}
  BY AgendaTyped DEF Jobs
<1>6. Underway'
  BY <1>3, <1>5 DEF Underway, Fits
<1>7. Removing' /\ Counting'
  BY <1>2, <1>3, QuietCounting DEF Removing
<1> QED
  BY <1>3, <1>4, <1>6, <1>7

\* A call that begins without telling or appending anything.
LEMMA BeginKept ==
    ASSUME Inv, call = Idle, ReadLog \/ UNCHANGED files, call'.kind # "append",
           told' = told, requests \subseteq requests', power' = power, relied => relied'
    PROVE  Holds' /\ Survivable'
<1>1. call.kind = "none"
  BY IdleTyped
<1>2. /\ disk' = disk
      /\ ~relied /\ power # "relied" => Kept(disk, stable', told, requests, FALSE)
  BY <1>1, LookKept
<1>3. power # "relied" => OnDisk(disk, told, requests')
  BY DEF Holds, OnDisk, DiskAnswers
<1>4. ~relied' /\ power # "relied" => Kept(disk, stable', told, requests', FALSE)
  BY <1>2 DEF Kept, KeptAnswers
<1> QED
  BY <1>2, <1>3, <1>4 DEF Holds, Survivable

LEMMA RefreshNext == ASSUME Inv, Refresh PROVE Inv'
<1> DEFINE jobs == <<Job("publish", "snapshot")>>
<1>1. /\ call = Idle /\ ReadLog /\ Begin("refresh", jobs, "none") /\ counter' = counter
      /\ told' = told /\ requests' = requests /\ relied' = relied /\ power' = power
  BY DEF Refresh, history
<1>2. Agenda("refresh", jobs)
  BY DEF Agenda
<1>3. told \in ToldType /\ relied \in BOOLEAN /\ requests \subseteq {"create", "purge"}
  BY DEF Typed
<1>4. /\ Typed' /\ Underway' /\ Removing' /\ Counting' /\ call'.kind = "refresh"
  BY <1>1, <1>2, <1>3, BeginShape
<1>5. CallInv'
  BY <1>4 DEF CallInv, Appending, Compacting, Pruning, Purging
<1> QED
  BY <1>1, <1>4, <1>5, BeginKept

LEMMA CompactNext == ASSUME Inv, Compact PROVE Inv'
<1>1. call = Idle /\ counter' = counter
  BY DEF Compact
<1>2. told \in ToldType /\ relied \in BOOLEAN /\ requests \subseteq {"create", "purge"}
  BY DEF Typed
<1>3. CASE Exists("tombstone") /\ Answer("expired", <<>>) /\ UNCHANGED <<files, call>>
  BY <1>1, <1>3, AnswerNext DEF HasTombstone
<1>4. CASE /\ ~Exists("tombstone") /\ Exists("terminal") /\ ~Exists("log")
           /\ Answer("live", Lines("terminal"))
           /\ UNCHANGED <<files, call>>
  BY <1>1, <1>4, AnswerNext DEF HasTerminal
<1>5. CASE /\ ~Exists("tombstone") /\ Exists("terminal") /\ Exists("log")
           /\ ReadLog /\ Begin("compact", <<Job("remove", "log")>>, "none")
           /\ Rely(stable["terminal"] = NoFile)
           /\ UNCHANGED <<told, requests>>
  <2>1. Agenda("compact", <<Job("remove", "log")>>)
    BY DEF Agenda
  <2>2. /\ relied' \in BOOLEAN /\ power' = power /\ (relied => relied')
        /\ relied' \/ KeptTerminal
    BY <1>2, <1>5 DEF Rely, KeptTerminal
  <2>3. /\ Typed' /\ Underway' /\ Removing' /\ Counting' /\ call'.kind = "compact"
        /\ File' = Head(<<Job("remove", "log")>>).file
    BY <1>1, <1>2, <1>5, <2>1, <2>2, BeginShape
  <2>4. File' = "log"
    BY <2>3, Tails DEF Job
  <2>5. disk' = disk /\ stable'["terminal"] = stable["terminal"]
    BY <1>1, <1>5, IdleTyped, LookKept
  <2>6. Compacting'
    BY <1>5, <2>2, <2>4, <2>5
       DEF Compacting, HasTombstone, HasTerminal, KeptTerminal, Exists
  <2>7. CallInv'
    BY <2>3, <2>6 DEF CallInv, Appending, Pruning, Purging
  <2> QED
    BY <1>1, <1>5, <2>2, <2>3, <2>7, BeginKept
<1>6. CASE /\ ~Exists("tombstone") /\ ~Exists("terminal") /\ LogEmpty
           /\ ReadLog /\ Answer("none", <<>>) /\ UNCHANGED call
  BY <1>1, <1>6, AnswerNext DEF HasTerminal, HasTombstone
<1>7. CASE /\ ~Exists("tombstone") /\ ~Exists("terminal") /\ ~LogEmpty /\ IsDone(Lines("log"))
           /\ ReadLog
           /\ Begin("compact", <<Job("publish", "terminal"), Job("remove", "log")>>, "none")
           /\ UNCHANGED history
  <2> DEFINE jobs == <<Job("publish", "terminal"), Job("remove", "log")>>
  <2>1. Agenda("compact", jobs)
    BY DEF Agenda
  <2>2. told' = told /\ requests' = requests /\ relied' = relied /\ power' = power
    BY <1>7 DEF history
  <2>3. /\ Typed' /\ Underway' /\ Removing' /\ Counting' /\ call'.kind = "compact"
        /\ call'.step = "open" /\ File' = Head(jobs).file
    BY <1>1, <1>2, <1>7, <2>1, <2>2, BeginShape
  <2>4. File' = "terminal"
    BY <2>3, Tails DEF Job
  <2>5. disk' = disk /\ HasLog /\ stable'["log"] = disk["log"]
    BY <1>1, <1>7, IdleTyped, LookKept, LogTyped
  <2>6. Compacting'
    BY <1>7, <2>3, <2>4, <2>5
       DEF Compacting, HasTombstone, HasTerminal, HasLog, Exists, Lines, Early
  <2>7. CallInv'
    BY <2>3, <2>6 DEF CallInv, Appending, Pruning, Purging
  <2> QED
    BY <1>1, <1>7, <2>2, <2>3, <2>7, BeginKept
<1> QED
  BY <1>3, <1>4, <1>5, <1>6, <1>7 DEF Compact

LEMMA PruneNext == ASSUME Inv, Prune PROVE Inv'
<1>1. /\ call = Idle /\ counter' = counter /\ UNCHANGED files
      /\ told' = told /\ requests' = requests /\ disk' = disk /\ stable' = stable
  BY DEF Prune, files
<1>2. told \in ToldType /\ relied \in BOOLEAN /\ requests \subseteq {"create", "purge"}
  BY DEF Typed
<1>3. CASE /\ Exists("tombstone")
           /\ Begin("prune", <<Job("remove", "terminal"), Job("remove", "snapshot")>>, "none")
           /\ Rely(stable["tombstone"] = NoFile)
  <2> DEFINE jobs == <<Job("remove", "terminal"), Job("remove", "snapshot")>>
  <2>1. Agenda("prune", jobs)
    BY DEF Agenda
  <2>2. /\ relied' \in BOOLEAN /\ power' = power /\ (relied => relied')
        /\ relied' \/ KeptTombstone
    BY <1>2, <1>3 DEF Rely, KeptTombstone
  <2>3. /\ Typed' /\ Underway' /\ Removing' /\ Counting' /\ call'.kind = "prune"
        /\ File' = Head(jobs).file
    BY <1>1, <1>2, <1>3, <2>1, <2>2, BeginShape
  <2>4. File' = "terminal"
    BY <2>3, Tails DEF Job
  <2>5. Pruning'
    BY <1>1, <1>3, <2>2, <2>4 DEF Pruning, HasTombstone, KeptTombstone, Exists
  <2>6. CallInv'
    BY <2>3, <2>5 DEF CallInv, Appending, Compacting, Purging
  <2> QED
    BY <1>1, <2>2, <2>3, <2>6, BeginKept
<1>4. CASE /\ ~Exists("tombstone") /\ Exists("terminal") /\ ~Exists("log")
           /\ Begin("prune", <<Job("publish", "tombstone"), Job("remove", "terminal"),
                               Job("remove", "snapshot")>>, "none")
           /\ Rely(FALSE)
  <2> DEFINE jobs == <<Job("publish", "tombstone"), Job("remove", "terminal"),
                       Job("remove", "snapshot")>>
  <2>1. Agenda("prune", jobs)
    BY DEF Agenda
  <2>2. relied' \in BOOLEAN /\ power' = power /\ (relied => relied')
    BY <1>2, <1>4 DEF Rely
  <2>3. /\ Typed' /\ Underway' /\ Removing' /\ Counting' /\ call'.kind = "prune"
        /\ call'.step = "open" /\ File' = Head(jobs).file
    BY <1>1, <1>2, <1>4, <2>1, <2>2, BeginShape
  <2>4. File' = "tombstone"
    BY <2>3, Tails DEF Job
  <2>5. Pruning'
    BY <1>1, <1>4, <2>3, <2>4
       DEF Pruning, HasTombstone, HasTerminal, HasLog, Exists, Early
  <2>6. CallInv'
    BY <2>3, <2>5 DEF CallInv, Appending, Compacting, Purging
  <2> QED
    BY <1>1, <2>2, <2>3, <2>6, BeginKept
<1> QED
  BY <1>3, <1>4 DEF Prune

LEMMA PurgeNext == ASSUME Inv, Purge PROVE Inv'
<1> DEFINE jobs == <<Job("remove", "tombstone"), Job("remove", "terminal"),
                     Job("remove", "snapshot"), Job("remove", "log")>>
<1>1. /\ call = Idle /\ ReadLog /\ Begin("purge", jobs, "none") /\ counter' = counter
      /\ told' = told /\ requests' = requests \cup {"purge"}
      /\ relied' = relied /\ power' = power
  BY DEF Purge
<1>2. Agenda("purge", jobs)
  BY DEF Agenda
<1>3. told \in ToldType /\ relied \in BOOLEAN /\ requests' \subseteq {"create", "purge"}
  BY <1>1 DEF Typed
<1>4. /\ Typed' /\ Underway' /\ Removing' /\ Counting' /\ call'.kind = "purge"
      /\ File' = Head(jobs).file
  BY <1>1, <1>2, <1>3, BeginShape
<1>5. File' = "tombstone"
  BY <1>4, Tails DEF Job
<1>6. Purging'
  BY <1>1, <1>5 DEF Purging
<1>7. CallInv'
  BY <1>4, <1>6 DEF CallInv, Appending, Compacting, Pruning
<1> QED
  BY <1>1, <1>4, <1>7, BeginKept

\* Only a creation is accepted by an empty history, and by no other.
LEMMA AcceptsCreated ==
    ASSUME NEW lines \in Histories, NEW event \in Events, Accepts(lines, event)
    PROVE  event = "created" <=> lines = <<>>
<1>1. event \in {"created", "work", "done", "withheld"}
  BY EventsAssumption
<1>2. CASE event = "created"
  BY <1>2 DEF Accepts
<1>3. CASE event \in {"work", "done"}
  BY <1>3 DEF Accepts
<1>4. CASE event = "withheld"
  <2>1. IsDone(lines)
    BY <1>4 DEF Accepts
  <2> QED
    BY <1>4, <2>1, DoneIsSome
<1> QED
  BY <1>1, <1>2, <1>3, <1>4

LEMMA AppendEventNext ==
    ASSUME Inv, NEW expected \in 0 .. MaxLines, NEW event \in Events,
           AppendEvent(expected, event)
    PROVE  Inv'
<1>1. call = Idle /\ counter' = counter /\ expected < MaxLines
  BY DEF AppendEvent
<1>2. CASE Exists("tombstone") /\ Answer("expired", <<>>) /\ UNCHANGED <<files, call>>
  BY <1>1, <1>2, AnswerNext DEF HasTombstone
<1>3. CASE /\ ~Exists("tombstone") /\ ~Exists("terminal")
           /\ ReadLog
           /\ Len(LogLines) = expected /\ Accepts(LogLines, event)
           /\ Begin("append", <<Job("append", "log")>>, event)
           /\ Found(expected)
  <2> DEFINE jobs == <<Job("append", "log")>>
  <2>0. event # "none"
    BY EventsAssumption
  <2>1. Agenda("append", jobs)
    BY DEF Agenda
  <2>2. told \in ToldType /\ requests \subseteq {"create", "purge"} /\ disk \in FilesType
    BY DEF Typed
  <2>3. NoRecord \in ToldType /\ NoRecord.status = "none" /\ NoRecord.lines = <<>>
    BY NoHistory DEF NoRecord, ToldType
  <2>4. /\ relied' \in BOOLEAN /\ power' = power
        /\ ~relied' => /\ ~relied
                       /\ \A file \in Files \ {"snapshot"} :
                              stable[file] # NoFile => stable[file] = disk[file]
    BY <1>3 DEF Found, Rely, Unsynced, Typed
  <2>5. told' \in ToldType /\ requests' \subseteq {"create", "purge"}
    BY <1>3, <2>2, <2>3 DEF Found
  <2>6. /\ Typed' /\ Underway' /\ Removing' /\ Counting' /\ call'.kind = "append"
        /\ call'.step = "open" /\ call'.event = event
    BY <1>1, <1>3, <2>0, <2>1, <2>4, <2>5, BeginShape
  <2>7. /\ disk' = disk /\ stable' \in FilesType
        /\ stable'["terminal"] = stable["terminal"]
        /\ stable'["tombstone"] = stable["tombstone"]
        /\ HasLog => stable'["log"] = disk["log"]
        /\ ~HasLog => stable'["log"] = stable["log"]
        /\ ~relied /\ power # "relied" => Kept(disk, stable', told, requests, FALSE)
    BY <1>1, <1>3, IdleTyped, LookKept
  <2>8. /\ LogLines \in Histories /\ (event = "created" <=> LogEmpty)
        /\ (LogEmpty <=> expected = 0)
    <3>1. LogLines \in Histories
      BY LogTyped
    <3>2. event = "created" <=> LogLines = <<>>
      BY <1>3, <3>1, AcceptsCreated
    <3>3. LogLines = <<>> <=> Len(LogLines) = 0
      BY <3>1, HistoryTyped, EmptySeq
    <3> QED
      BY <1>3, <3>1, <3>2, <3>3 DEF LogEmpty
  <2>9. ~LogEmpty => HasLog
    BY LogTyped
  <2>10. LogLines' = LogLines
    BY <2>7 DEF LogLines, Exists, Lines
  <2>11. Appending'
    <3>1. (event = "created" => told.status = "none" /\ "create" \in requests)'
      BY <1>3, <2>3, <2>8 DEF Found
    <3>2. event = "created" \/ KeptLog'
      BY <2>7, <2>8, <2>9 DEF KeptLog, HasLog, Exists
    <3>3. ~HasTerminal' /\ ~HasTombstone'
      BY <1>3, <2>7 DEF HasTerminal, HasTombstone, Exists
    <3>4. Len(LogLines') < MaxLines /\ Accepts(LogLines', call'.event)
      BY <1>1, <1>3, <2>6, <2>10
    <3> QED
      BY <2>6, <3>1, <3>2, <3>3, <3>4 DEF Appending, Early
  <2>12. CallInv'
    BY <2>6, <2>11 DEF CallInv, Compacting, Pruning, Purging
  <2>13. ASSUME power # "relied"
         PROVE  /\ OnDisk(disk, told', requests')
                /\ ~relied' => Kept(disk, stable', told', requests', TRUE)
    <3>1. OnDisk(disk, told, requests)
      BY <2>13 DEF Holds
    <3>2. disk["terminal"] = NoFile /\ disk["tombstone"] = NoFile
      BY <1>3 DEF Exists
    <3>3. ~relied' => \A file \in Files \ {"snapshot"} :
                          stable'[file] # NoFile => stable'[file] = disk[file]
      BY <2>4, <2>7 DEF Files
    <3>4. CASE expected = 0
      <4>1. told' = NoRecord
        BY <1>3, <3>4 DEF Found
      <4>2. disk["log"] # NoFile => disk["log"].lines = <<>>
        BY <2>8, <3>4, LogTyped DEF HasLog, Exists, Lines
      <4> QED
        BY <2>2, <2>3, <2>5, <2>7, <3>1, <3>2, <3>3, <4>1, <4>2, TellNone
    <3>5. CASE expected # 0
      <4>1. told' = told /\ requests' = requests
        BY <1>3, <3>5 DEF Found
      <4>2. ASSUME ~relied' PROVE Kept(disk, stable', told, requests, TRUE)
        <5>1. Kept(disk, stable', told, requests, FALSE)
          BY <2>4, <2>7, <2>13, <4>2
        <5>2. /\ stable'["terminal"] = NoFile /\ stable'["tombstone"] = NoFile
              /\ stable'["log"] # NoFile => disk["log"] # NoFile
          BY <3>2, <3>3, <4>2 DEF Files
        <5> QED
          BY <5>1, <5>2 DEF Kept, KeptRecords
      <4> QED
        BY <3>1, <4>1, <4>2
    <3> QED
      BY <3>4, <3>5
  <2>14. Holds' /\ Survivable'
    BY <2>4, <2>6, <2>7, <2>13 DEF Holds, Survivable
  <2> QED
    BY <2>6, <2>12, <2>14
<1> QED
  BY <1>2, <1>3 DEF AppendEvent

---------------------------------------------------------------------------
(* Steps that leave the files of the record alone *)

LEMMA QuietKept ==
    ASSUME Inv, UNCHANGED <<disk, stable, told, requests, power>>, relied => relied',
           call'.kind = "append" => call.kind = "append"
    PROVE  Holds' /\ Survivable'
<1>1. Holds'
  BY DEF Holds
<1>2. ASSUME ~relied', power # "relied"
      PROVE  Kept(disk, stable, told, requests, call'.kind = "append")
  <2>1. Kept(disk, stable, told, requests, call.kind = "append")
    BY <1>2 DEF Survivable
  <2>2. KeptRecords(disk, stable, told, call'.kind = "append")
    BY <2>1 DEF Kept, KeptRecords
  <2> QED
    BY <2>1, <2>2 DEF Kept
<1> QED
  BY <1>1, <1>2 DEF Survivable

LEMMA DieNext == ASSUME Inv, Die PROVE Inv'
<1>1. /\ call' = Idle /\ disk' = disk /\ stable' = stable /\ temps' = temps
      /\ counter' = counter /\ told' = told /\ requests' = requests
      /\ relied' = relied /\ power' = power
  BY DEF Die, files, history
<1>2. Typed'
  BY <1>1, IdleTyped DEF Typed, Exists
<1>3. CallInv' /\ Counting' /\ call'.kind # "append"
  BY <1>1, IdleCallInv, QuietCounting
<1> QED
  BY <1>1, <1>2, <1>3, QuietKept

LEMMA OpenNext == ASSUME Inv, Open PROVE Inv'
<1>1. /\ call = Idle /\ call' = call /\ disk' = disk /\ stable' = stable /\ temps' = temps
      /\ counter' = Clean(Counted) /\ told' = told /\ requests' = requests
      /\ relied' = relied /\ power' = power
  BY DEF Open, files, history
<1>2. /\ Counted \in Nat /\ counter' \in CounterType
      /\ counter'.total = Counted /\ counter'.entries = Entries
  BY <1>1, UsageTyped, CleanTyped
<1>3. Typed'
  BY <1>1, <1>2, IdleTyped DEF Typed, Exists
<1>4. Counting'
  <2>1. power = "kept" => Counted = Usage
    BY DEF Counting, Counted, Typed, CounterType
  <2>2. Usage' = Usage /\ Entries' = Entries
    BY <1>1 DEF Usage, Entries, Exists
  <2> QED
    BY <1>1, <1>2, <2>1, <2>2 DEF Counting
<1>5. CallInv' /\ call'.kind # "append"
  BY <1>1, IdleCallInv
<1> QED
  BY <1>1, <1>3, <1>4, <1>5, QuietKept

LEMMA EntriesWith ==
    ASSUME NEW entries \in [present : SUBSET Files, temps : Nat], NEW n \in Nat
    PROVE  [entries EXCEPT !.temps = n] = [present |-> entries.present, temps |-> n]
OBVIOUS

LEMMA FailNext == ASSUME Inv, Fail PROVE Inv'
<1>1. /\ call # Idle /\ call' = Idle /\ temps' = temps - OwnTemp
      /\ disk' = disk /\ stable' = stable /\ told' = told /\ requests' = requests
      /\ relied' = relied /\ power' = power
      /\ call.step = "open" => counter' = counter
      /\ \/ counter' = counter
         \/ counter' = [dirty |-> FALSE, total |-> Usage - OwnTemp,
                        entries |-> [Entries EXCEPT !.temps = temps - OwnTemp]]
  BY DEF Fail, history
<1>2. /\ temps \in Nat /\ Usage \in Nat /\ Usage >= temps
      /\ Entries \in [present : SUBSET Files, temps : Nat]
      /\ \A file \in Files : Size(disk[file]) \in Nat
  BY UsageTyped
<1>3. /\ OwnTemp \in 0 .. 1 /\ OwnTemp <= temps /\ (call.step = "open" => OwnTemp = 0)
  BY <1>1, <1>2 DEF CallInv, Underway, OwnTemp
<1>4. temps' \in Nat /\ temps' <= temps /\ Usage - OwnTemp \in Nat
  BY <1>1, <1>2, <1>3
<1>5. /\ Entries' = [present |-> Entries.present, temps |-> temps']
      /\ Entries' = [Entries EXCEPT !.temps = temps - OwnTemp]
  <2>1. Entries' = [present |-> Entries.present, temps |-> temps']
    BY <1>1 DEF Entries, Exists
  <2> QED
    BY <1>1, <1>2, <1>4, <2>1, EntriesWith
<1>6. Entries' \in [present : SUBSET Files, temps : Nat]
  <2>1. Entries.present \in SUBSET Files
    BY <1>2
  <2> QED
    BY <1>4, <1>5, <2>1
<1>7. Usage' = Usage - OwnTemp
  <2>1. {"log", "terminal", "tombstone", "snapshot"} \subseteq Files
    BY DEF Files
  <2> QED
    BY <1>1, <1>2, <1>3, <2>1 DEF Usage
<1>8. Typed'
  <2>1. counter' \in CounterType
    <3>1. \/ counter' = counter
          \/ counter' = [dirty |-> FALSE, total |-> Usage - OwnTemp, entries |-> Entries']
      BY <1>1, <1>5
    <3>2. ASSUME NEW total \in Nat, NEW entries \in [present : SUBSET Files, temps : Nat]
          PROVE  [dirty |-> FALSE, total |-> total, entries |-> entries] \in CounterType
      BY DEF CounterType
    <3>3. [dirty |-> FALSE, total |-> Usage - OwnTemp, entries |-> Entries'] \in CounterType
      BY <1>4, <1>6, <3>2
    <3> QED
      BY <3>1, <3>3 DEF Typed
  <2>2. temps' \in 0 .. MaxTemps
    BY <1>1, <1>2, <1>3, <1>4, BoundsAssumption DEF Typed
  <2> QED
    BY <1>1, <2>1, <2>2, IdleTyped DEF Typed, Exists
<1>9. Counting'
  <2> SUFFICES ASSUME power = "kept", ~counter'.dirty
               PROVE  counter'.total = Usage' /\ counter'.entries = Entries'
    BY <1>1 DEF Counting
  <2>1. CASE call.step = "open"
    <3>1. counter' = counter /\ temps' = temps
      BY <1>1, <1>2, <1>3, <2>1
    <3>2. Usage' = Usage /\ Entries' = Entries
      BY <1>1, <3>1 DEF Usage, Entries, Exists
    <3> QED
      BY <3>1, <3>2 DEF Counting
  <2>2. CASE call.step # "open"
    <3>1. counter' # counter
      BY <1>1, <2>2 DEF Counting
    <3> QED
      BY <1>1, <1>5, <1>7, <3>1
  <2> QED
    BY <2>1, <2>2
<1>10. CallInv' /\ call'.kind # "append"
  BY <1>1, IdleCallInv
<1> QED
  BY <1>1, <1>8, <1>9, <1>10, QuietKept

LEMMA QuotaOpenNext == ASSUME Inv, QuotaOpen PROVE Inv'
<1>1. /\ call # Idle /\ call.step = "open"
      /\ disk' = disk /\ stable' = stable /\ temps' = temps
      /\ told' = told /\ requests' = requests
  BY DEF QuotaOpen, At, files
<1>2. /\ Counted \in Nat /\ \A file \in Files : Size(disk[file]) \in Nat
      /\ Usage \in Nat
  BY UsageTyped
<1>3. power = "kept" => Counted = Usage
  BY DEF Counting, Counted, Typed, CounterType
<1>4. Usage' = Usage /\ Entries' = Entries
  BY <1>1 DEF Usage, Entries, Exists
<1>5. CASE counter' = Clean(Counted) /\ call' = Idle /\ Rely(FALSE)
  <2>1. relied' = relied /\ power' = power
    BY <1>5 DEF Rely, Typed
  <2>2. counter' \in CounterType /\ counter'.total = Counted /\ counter'.entries = Entries
    BY <1>2, <1>5, CleanTyped
  <2>3. Typed'
    BY <1>1, <1>5, <2>1, <2>2, IdleTyped DEF Typed, Exists
  <2>4. Counting'
    BY <1>3, <1>4, <1>5, <2>1, <2>2 DEF Counting
  <2>5. CallInv' /\ call'.kind # "append"
    BY <1>5, IdleCallInv
  <2> QED
    BY <1>1, <2>1, <2>3, <2>4, <2>5, QuietKept
<1>6. CASE /\ counter' = [Clean(Counted) EXCEPT !.dirty = TRUE]
           /\ call' = [call EXCEPT !.before = Size(disk[File]), !.step =
                         CASE Op = "append" -> IF Exists("log") /\ disk["log"].torn
                                               THEN "truncate" ELSE "write"
                           [] Op = "publish" -> "temp"
                           [] Op = "remove" -> IF Exists(File) THEN "unlink" ELSE "close"]
           /\ Rely(Op = "remove" /\ ~Exists(File) /\ stable[File] # NoFile)
  <2>1. /\ relied' \in BOOLEAN /\ power' = power /\ (relied => relied')
        /\ Op = "remove" /\ ~Exists(File) => stable[File] = NoFile \/ relied'
    BY <1>6 DEF Rely, Typed
  <2>2. /\ counter' \in CounterType /\ counter'.dirty = TRUE /\ counter'.total = Counted
        /\ counter'.entries = Entries
    BY <1>2, <1>6, CleanTyped
  <2>3. /\ call.kind \in Kinds \ {"none"} /\ File \in Files
        /\ call.jobs \in Seq(Jobs) /\ call.jobs # <<>>
        /\ call.event \in Events \cup {"none"}
        /\ call \in CallType /\ Fits(Op, call.step)
    BY <1>1, CallTyped DEF CallInv, Underway, Typed
  <2>4. /\ call'.kind = call.kind /\ call'.jobs = call.jobs /\ call'.event = call.event
        /\ call'.before = Size(disk[File])
        /\ \/ Op = "append" /\ call'.step = "truncate" /\ HasLog
           \/ Op = "append" /\ call'.step = "write"
           \/ Op = "publish" /\ call'.step = "temp"
           \/ Op = "remove" /\ call'.step = "unlink"
           \/ Op = "remove" /\ call'.step = "close" /\ ~Exists(File)
    BY <1>6, <2>3 DEF Fits, CallType, HasLog
  <2>5. /\ call' \in CallType /\ call' # Idle
    <3>1. call'.step \in Steps
      BY <2>4 DEF Steps
    <3>2. call'.before \in Nat
      BY <1>2, <2>3, <2>4
    <3>3. call' = [kind |-> call'.kind, jobs |-> call'.jobs, step |-> call'.step,
                   event |-> call'.event, before |-> call'.before]
      BY <1>6, <2>3 DEF CallType
    <3> HIDE DEF Size
    <3>4. call' \in CallType
      BY <2>3, <2>4, <3>1, <3>2, <3>3 DEF CallType
    <3> QED
      BY <2>3, <2>4, <3>4, IdleTyped
  <2>6. Op' = Op /\ File' = File
    BY <2>4 DEF Op, File
  <2>7. Typed'
    BY <1>1, <2>1, <2>2, <2>5 DEF Typed, Exists
  <2>8. Counting'
    <3>1. OwnTemp' = 0
      BY <2>4 DEF OwnTemp
    <3> QED
      BY <1>1, <1>2, <1>3, <1>4, <2>1, <2>2, <2>3, <2>4, <2>6, <3>1 DEF Counting
  <2>9. Underway'
    BY <1>1, <2>4, <2>6 DEF CallInv, Underway, Fits
  <2> USE DEF HasLog, HasTerminal, HasTombstone, KeptLog, KeptTerminal, KeptTombstone
  <2>10. LogLines' = LogLines /\ LogEmpty' = LogEmpty /\ \A file : Exists(file)' = Exists(file)
    BY <1>1 DEF LogLines, LogEmpty, Exists, Lines
  <2>11. Appending'
    <3>1. call.kind = "append" => Op = "append"
      BY <1>1, CallShape DEF CallInv
    <3> QED
      BY <1>1, <2>4, <2>10, <3>1 DEF CallInv, Appending, Early
  <2>12. Compacting'
    <3>1. call.kind = "compact" => Op # "append" /\ (File = "terminal" => Op = "publish")
      BY <1>1, CallShape DEF CallInv
    <3> QED
      BY <1>1, <2>1, <2>4, <2>6, <2>10, <3>1 DEF CallInv, Compacting, Early, Lines
  <2>13. Pruning'
    <3>1. call.kind = "prune" => Op # "append" /\ (File = "tombstone" => Op = "publish")
      BY <1>1, CallShape DEF CallInv
    <3> QED
      BY <1>1, <2>1, <2>4, <2>6, <2>10, <3>1 DEF CallInv, Pruning, Early
  <2>14. Purging'
    BY <1>1, <2>1, <2>4, <2>6, <2>10 DEF CallInv, Purging
  <2>15. Removing'
    BY <1>1, <2>1, <2>4, <2>6, <2>10 DEF Removing
  <2>16. CallInv'
    BY <2>9, <2>11, <2>12, <2>13, <2>14, <2>15 DEF CallInv
  <2> QED
    BY <1>1, <2>1, <2>4, <2>7, <2>8, <2>16, QuietKept
<1> QED
  BY <1>5, <1>6 DEF QuotaOpen

LEMMA NotAppending ==
    ASSUME NEW d, NEW k, NEW answer, NEW asked, NEW appending,
           Kept(d, k, answer, asked, appending)
    PROVE  Kept(d, k, answer, asked, FALSE)
BY DEF Kept, KeptRecords

\* A call goes on to its next change: what it has done is what that change relies on.
LEMMA NextJob ==
    ASSUME Inv, QuotaClose, Len(call.jobs) > 1
    PROVE  /\ CallInv' /\ call' \in CallType /\ call'.step = "open"
           /\ UNCHANGED <<told, requests, relied, power>> /\ call'.kind # "append"
<1>1. /\ call # Idle /\ call.step = "close"
      /\ disk' = disk /\ stable' = stable /\ temps' = temps
      /\ told' = told /\ requests' = requests /\ relied' = relied /\ power' = power
      /\ call' = [call EXCEPT !.jobs = Tail(@), !.step = "open"]
  BY DEF QuotaClose, At, files, history
<1>2. /\ call.kind \in Kinds \ {"none"} /\ File \in Files
      /\ call.jobs \in Seq(Jobs) /\ call.jobs # <<>> /\ call.before \in Nat
      /\ call.event \in Events \cup {"none"} /\ call \in CallType
      /\ Agenda(call.kind, call.jobs)
  BY <1>1, CallTyped DEF CallInv, Underway, Typed
<1>3. /\ Agenda(call.kind, Tail(call.jobs)) /\ Head(Tail(call.jobs)).op = "remove"
      /\ Follows(call.kind, File, Head(Tail(call.jobs)).file)
  BY <1>2, AgendaTail DEF File
<1>4. /\ call'.kind = call.kind /\ call'.jobs = Tail(call.jobs) /\ call'.step = "open"
      /\ call'.event = call.event /\ call'.before = call.before
  BY <1>1, <1>2 DEF CallType
<1>5. /\ call' \in CallType /\ call' # Idle
  <2>1. Tail(call.jobs) \in Seq(Jobs)
    BY <1>2, HeadTailProperties
  <2>2. call' \in CallType
    <3>1. call' = [kind |-> call.kind, jobs |-> Tail(call.jobs), step |-> "open",
                   event |-> call.event, before |-> call.before]
      BY <1>1, <1>2 DEF CallType
    <3> QED
      BY <1>2, <2>1, <3>1 DEF CallType, Steps
  <2> QED
    BY <1>2, <1>4, <2>2, IdleTyped
<1>6. Op' = "remove" /\ File' = Head(Tail(call.jobs)).file
  BY <1>3, <1>4 DEF Op, File
<1>7. Underway'
  <2>1. Agenda(call'.kind, call'.jobs)
    BY <1>3, <1>4
  <2>2. Fits(Op', call'.step)
    BY <1>4, <1>6 DEF Fits
  <2>3. call'.event = "none" <=> call'.kind # "append"
    BY <1>1, <1>4 DEF CallInv, Underway
  <2> QED
    BY <1>4, <2>1, <2>2, <2>3 DEF Underway
<1>8. /\ call.kind # "append" /\ call.kind # "refresh"
      /\ call.kind = "compact" => File = "terminal"
      /\ call.kind = "purge" => Op = "remove"
  <2>1. /\ call.kind = "append" => Len(call.jobs) = 1
        /\ call.kind = "refresh" => Len(call.jobs) = 1
        /\ call.kind = "compact" => File = "terminal" \/ Len(call.jobs) = 1
        /\ call.kind = "purge" => Op = "remove"
    BY <1>1, CallShape DEF CallInv
  <2>2. Len(call.jobs) # 1
    <3> DEFINE left == Len(call.jobs)
    <3>1. left \in 1 .. 4 /\ left > 1
      BY <1>1, CallTyped DEF CallInv
    <3> HIDE DEF left
    <3>2. left # 1
      BY <3>1
    <3> QED
      BY <3>2 DEF left
  <2> QED
    BY <2>1, <2>2
<1> USE DEF HasLog, HasTerminal, HasTombstone, KeptLog, KeptTerminal, KeptTombstone
<1>9. \A file : Exists(file)' = Exists(file)
  BY <1>1 DEF Exists
<1>10. Compacting'
  BY <1>1, <1>3, <1>4, <1>6, <1>8, <1>9 DEF CallInv, Compacting, Early, Follows
<1>11. Pruning'
  BY <1>1, <1>3, <1>4, <1>6, <1>9 DEF CallInv, Pruning, Early, Follows
<1>12. Purging'
  BY <1>1, <1>3, <1>4, <1>6, <1>8, <1>9 DEF CallInv, Purging, Removing, Follows
<1>13. Removing' /\ Appending'
  BY <1>4, <1>8 DEF Removing, Appending
<1> QED
  BY <1>1, <1>4, <1>5, <1>7, <1>8, <1>10, <1>11, <1>12, <1>13 DEF CallInv

\* A call answers what its changes have made true, and durable.
LEMMA LastJob ==
    ASSUME Inv, QuotaClose, Len(call.jobs) <= 1
    PROVE  /\ call' = Idle /\ UNCHANGED <<relied, power>>
           /\ told' \in ToldType /\ requests' \subseteq {"create", "purge"}
           /\ Holds' /\ Survivable'
<1>1. /\ call # Idle /\ call.step = "close" /\ call' = Idle
      /\ disk' = disk /\ stable' = stable /\ relied' = relied /\ power' = power
      /\ CASE call.kind = "append" -> Tell("live", Lines("log"))
           [] call.kind = "compact" -> Tell("live", Lines("terminal"))
           [] call.kind = "prune" -> Tell("expired", <<>>)
           [] call.kind = "purge" -> Tell("none", <<>>)
           [] call.kind = "refresh" -> UNCHANGED <<told, requests>>
  <2>1. ~(Len(call.jobs) > 1)
    <3>1. Len(call.jobs) \in 1 .. 4
      BY CallTyped DEF CallInv, QuotaClose, At
    <3> QED
      BY <3>1
  <2> QED
    BY <2>1 DEF QuotaClose, At, files
<1>2. /\ call.kind \in {"append", "compact", "prune", "purge", "refresh"}
      /\ Len(call.jobs) \in 1 .. 4
  BY <1>1, CallTyped DEF CallInv, Kinds
<1>3. /\ call.kind = "append" => Op = "append" /\ File = "log"
      /\ call.kind = "compact" => Op = "remove" /\ File = "log"
      /\ call.kind = "prune" => Op = "remove" /\ File = "snapshot"
      /\ call.kind = "purge" => Op = "remove" /\ File = "log"
  BY <1>1, <1>2, CallShape DEF CallInv
<1>4. disk \in FilesType /\ stable \in FilesType /\ told \in ToldType
  BY DEF Typed
<1>5. power # "relied" =>
         /\ OnDisk(disk, told, requests)
         /\ ~relied => Kept(disk, stable, told, requests, call.kind = "append")
  BY DEF Holds, Survivable
<1>6. SUFFICES /\ told' \in ToldType /\ requests' \subseteq {"create", "purge"}
               /\ power # "relied" =>
                     /\ OnDisk(disk, told', requests')
                     /\ ~relied => Kept(disk, stable, told', requests', FALSE)
  BY <1>1, IdleTyped DEF Holds, Survivable
<1> USE DEF HasLog, HasTerminal, HasTombstone, KeptLog, KeptTerminal, KeptTombstone, Exists
<1>7. CASE call.kind = "append"
  <2>1. /\ disk["terminal"] = NoFile /\ disk["log"] # NoFile /\ ~LogEmpty
        /\ stable["log"] = disk["log"]
    BY <1>1, <1>7 DEF CallInv, Appending, Early
  <2>2. Lines("log") \in Histories /\ disk["log"].lines # <<>> /\ Lines("log") = disk["log"].lines
    BY <2>1, LogTyped DEF Lines
  <2>3. /\ told' \in ToldType /\ told'.status = "live" /\ told'.lines = Lines("log")
        /\ requests' = requests /\ requests' \subseteq {"create", "purge"}
    BY <1>1, <1>7, <2>2, ToldTyped
  <2>4. power # "relied" /\ ~relied => Kept(disk, stable, told, requests, FALSE)
    BY <1>5, NotAppending
  <2> QED
    BY <1>4, <1>5, <2>1, <2>2, <2>3, <2>4, TellLog
<1>8. CASE call.kind = "compact"
  <2>1. disk["terminal"] # NoFile /\ (stable["terminal"] # NoFile \/ relied)
    BY <1>1, <1>3, <1>8 DEF CallInv, Compacting
  <2>2. Lines("terminal") \in Histories /\ Lines("terminal") = disk["terminal"].lines
    BY <2>1, LogTyped DEF Lines
  <2>3. /\ told' \in ToldType /\ told'.status = "live" /\ told'.lines = Lines("terminal")
        /\ requests' = requests /\ requests' \subseteq {"create", "purge"}
    BY <1>1, <1>8, <2>2, ToldTyped
  <2>4. power # "relied" /\ ~relied => Kept(disk, stable, told, requests, FALSE)
    BY <1>5, NotAppending
  <2> QED
    BY <1>4, <1>5, <2>1, <2>2, <2>3, <2>4, TellTerminal
<1>9. CASE call.kind = "prune"
  <2>1. disk["tombstone"] # NoFile /\ (stable["tombstone"] # NoFile \/ relied)
    BY <1>1, <1>3, <1>9 DEF CallInv, Pruning
  <2>2. /\ told' \in ToldType /\ told'.status = "expired" /\ told'.lines = <<>>
        /\ requests' = requests /\ requests' \subseteq {"create", "purge"}
    BY <1>1, <1>9, NoHistory, ToldTyped
  <2>3. power # "relied" /\ ~relied => Kept(disk, stable, told, requests, FALSE)
    BY <1>5, NotAppending
  <2> QED
    BY <1>4, <1>5, <2>1, <2>2, <2>3, TellExpired
<1>10. CASE call.kind = "purge"
  <2>1. /\ disk["tombstone"] = NoFile /\ disk["terminal"] = NoFile /\ disk["log"] = NoFile
        /\ ~relied => \A file \in Files \ {"snapshot"} : stable[file] = NoFile
    BY <1>1, <1>3, <1>10 DEF CallInv, Purging, Removing, Files
  <2>2. /\ told' \in ToldType /\ told'.status = "none" /\ told'.lines = <<>>
        /\ requests' = {} /\ requests' \subseteq {"create", "purge"}
    BY <1>1, <1>10, NoHistory, ToldTyped
  <2> QED
    BY <1>4, <1>5, <2>1, <2>2, TellNone
<1>11. CASE call.kind = "refresh"
  <2>1. told' = told /\ requests' = requests
    BY <1>1, <1>11
  <2> QED
    BY <1>5, <2>1, NotAppending DEF Typed
<1> QED
  BY <1>2, <1>7, <1>8, <1>9, <1>10, <1>11

LEMMA QuotaCloseNext == ASSUME Inv, QuotaClose PROVE Inv'
<1>1. /\ call # Idle /\ call.step = "close"
      /\ counter.total + Size(disk[File]) >= call.before
      /\ counter' = Clean((counter.total + Size(disk[File])) - call.before)
      /\ disk' = disk /\ stable' = stable /\ temps' = temps
  BY DEF QuotaClose, At, files
<1>2. /\ File \in Files /\ call.before \in Nat /\ Size(disk[File]) \in Nat
      /\ counter.total \in Nat /\ Usage \in Nat
  BY <1>1, CallTyped, UsageTyped DEF CallInv, Typed, CounterType
<1>3. (counter.total + Size(disk[File])) - call.before \in Nat
  BY <1>1, <1>2
<1>4. /\ counter' \in CounterType /\ counter'.entries = Entries
      /\ counter'.total = (counter.total + Size(disk[File])) - call.before
  BY <1>1, <1>3, CleanTyped
<1>5. Counting /\ power' = power /\ (call' = Idle \/ call'.step = "open") => Counting'
  <2>1. power = "kept" => counter'.total = Usage
    <3>1. OwnTemp = 0
      BY <1>1 DEF OwnTemp
    <3> QED
      BY <1>1, <1>2, <1>4, <3>1 DEF Counting
  <2>2. Usage' = Usage /\ Entries' = Entries
    BY <1>1 DEF Usage, Entries, Exists
  <2> QED
    BY <1>4, <2>1, <2>2 DEF Counting
<1>6. CASE Len(call.jobs) > 1
  <2>1. /\ CallInv' /\ call' \in CallType /\ call'.step = "open"
        /\ UNCHANGED <<told, requests, relied, power>> /\ call'.kind # "append"
    BY <1>6, NextJob
  <2>2. Typed'
    BY <1>1, <1>4, <2>1 DEF Typed, Exists
  <2> QED
    BY <1>1, <1>5, <2>1, <2>2, QuietKept
<1>7. CASE Len(call.jobs) <= 1
  <2>1. /\ call' = Idle /\ UNCHANGED <<relied, power>>
        /\ told' \in ToldType /\ requests' \subseteq {"create", "purge"}
        /\ Holds' /\ Survivable'
    BY <1>7, LastJob
  <2>2. Typed'
    BY <1>1, <1>4, <2>1, IdleTyped DEF Typed, Exists
  <2> QED
    BY <1>5, <2>1, <2>2, IdleCallInv
<1> QED
  <2>1. Len(call.jobs) \in 1 .. 4
    BY <1>1, CallTyped DEF CallInv
  <2> QED
    BY <1>6, <1>7, <2>1

---------------------------------------------------------------------------
(* The steps of a change *)

\* A step of the call that holds the lock, which is neither its first nor its last.
LEMMA StepShape ==
    ASSUME Inv, NEW from, NEW to \in Steps, At(from), Goto(to),
           UNCHANGED <<counter, told, requests, relied, power>>,
           disk' \in FilesType, stable' \in FilesType, temps' \in 0 .. MaxTemps,
           \A file \in Files \ {"log"} : disk'[file] # NoFile => ~disk'[file].torn
    PROVE  /\ Typed' /\ call # Idle /\ call' # Idle
           /\ call'.kind = call.kind /\ call'.jobs = call.jobs /\ call'.step = to
           /\ call'.event = call.event /\ call'.before = call.before
           /\ Op' = Op /\ File' = File /\ File \in Files
           /\ Fits(Op, from)
           /\ Fits(Op, to) /\ (to \in {"link", "untemp"} => temps' > 0) => Underway'
<1>1. call # Idle /\ call.step = from
  BY DEF At
<1>2. /\ call' \in CallType /\ call' # Idle
      /\ call'.kind = call.kind /\ call'.jobs = call.jobs /\ call'.step = to
      /\ call'.event = call.event /\ call'.before = call.before
      /\ Op' = Op /\ File' = File
  BY <1>1, GotoTyped DEF CallInv
<1>3. Typed'
  BY <1>2 DEF Typed, Exists
<1>4. File \in Files /\ Fits(Op, from)
  BY <1>1, CallTyped DEF CallInv, Underway
<1>5. ASSUME Fits(Op, to), to \in {"link", "untemp"} => temps' > 0 PROVE Underway'
  <2>1. Agenda(call'.kind, call'.jobs) /\ (call'.event = "none" <=> call'.kind # "append")
    BY <1>1, <1>2 DEF CallInv, Underway
  <2>2. Fits(Op', call'.step)
    BY <1>2, <1>5
  <2> QED
    BY <1>2, <1>5, <2>1, <2>2 DEF Underway
<1> QED
  BY <1>1, <1>2, <1>3, <1>4, <1>5

\* The change and its temporary file are all that the counter is off by.
LEMMA StepCounting ==
    ASSUME Inv, NEW from, NEW to \in Steps \ {"open"}, At(from), from # "open", Goto(to),
           UNCHANGED <<counter, power>>, Typed',
           \A file \in Files \ {File} : disk'[file] = disk[file],
           temps' + OwnTemp = temps + OwnTemp'
    PROVE  Counting'
<1>1. call # Idle /\ call.step # "open"
  BY DEF At
<1>2. /\ call' # Idle /\ call'.step # "open" /\ call'.before = call.before /\ File' = File
      /\ File \in Files /\ call.before \in Nat
  BY <1>1, GotoTyped, CallTyped DEF CallInv
<1>3. \A file \in Files : Size(disk[file]) \in Nat /\ Size(disk'[file]) \in Nat
  <2>1. \A file \in Files : disk'[file] \in Versions \cup {NoFile}
    BY DEF Typed, FilesType
  <2> QED
    BY <2>1, SizeTyped, UsageTyped
<1>4. temps \in Nat /\ temps' \in Nat /\ OwnTemp \in Nat /\ OwnTemp' \in Nat
  BY BoundsAssumption DEF Typed, OwnTemp
<1>5. Usage' + Size(disk[File]) + OwnTemp = Usage + Size(disk'[File]) + OwnTemp'
  <2>1. {"log", "terminal", "tombstone", "snapshot"} = Files
    BY DEF Files
  <2> DEFINE S(file) == Size(disk[file])
             N(file) == Size(disk'[file])
  <2>2. /\ Usage = S("log") + S("terminal") + S("tombstone") + S("snapshot") + temps
        /\ Usage' = N("log") + N("terminal") + N("tombstone") + N("snapshot") + temps'
    BY DEF Usage
  <2>3. \A file \in Files \ {File} : N(file) = S(file)
    OBVIOUS
  <2>4. \A file \in Files : S(file) \in Nat /\ N(file) \in Nat
    BY <1>3
  <2>5. Usage' + S(File) + OwnTemp = Usage + N(File) + OwnTemp'
    <3> HIDE DEF S, N
    <3>0. /\ S("log") \in Nat /\ S("terminal") \in Nat /\ S("tombstone") \in Nat
          /\ S("snapshot") \in Nat /\ N("log") \in Nat /\ N("terminal") \in Nat
          /\ N("tombstone") \in Nat /\ N("snapshot") \in Nat
      BY <2>1, <2>4
    <3>1. CASE File = "log"
      <4>1. /\ S(File) = S("log") /\ N(File) = N("log")
            /\ N("terminal") = S("terminal") /\ N("tombstone") = S("tombstone")
            /\ N("snapshot") = S("snapshot")
        BY <2>1, <2>3, <3>1
      <4> QED
        BY <1>4, <2>2, <3>0, <4>1
    <3>2. CASE File = "terminal"
      <4>1. /\ S(File) = S("terminal") /\ N(File) = N("terminal")
            /\ N("log") = S("log") /\ N("tombstone") = S("tombstone")
            /\ N("snapshot") = S("snapshot")
        BY <2>1, <2>3, <3>2
      <4> QED
        BY <1>4, <2>2, <3>0, <4>1
    <3>3. CASE File = "tombstone"
      <4>1. /\ S(File) = S("tombstone") /\ N(File) = N("tombstone")
            /\ N("log") = S("log") /\ N("terminal") = S("terminal")
            /\ N("snapshot") = S("snapshot")
        BY <2>1, <2>3, <3>3
      <4> QED
        BY <1>4, <2>2, <3>0, <4>1
    <3>4. CASE File = "snapshot"
      <4>1. /\ S(File) = S("snapshot") /\ N(File) = N("snapshot")
            /\ N("log") = S("log") /\ N("terminal") = S("terminal")
            /\ N("tombstone") = S("tombstone")
        BY <2>1, <2>3, <3>4
      <4> QED
        BY <1>4, <2>2, <3>0, <4>1
    <3> QED
      BY <1>2, <2>1, <3>1, <3>2, <3>3, <3>4
  <2> QED
    BY <2>5
<1>6. SUFFICES ASSUME power = "kept"
               PROVE  /\ counter.dirty
                      /\ counter.total + Size(disk'[File]) + OwnTemp' = Usage' + call.before
  BY <1>1, <1>2 DEF Counting
<1>7. /\ counter.dirty
      /\ counter.total + Size(disk[File]) + OwnTemp = Usage + call.before
  BY <1>1, <1>6 DEF Counting
<1>8. counter.total \in Nat /\ Usage \in Nat /\ Usage' \in Nat
  <2>1. Usage' \in Nat
    BY <1>3, <1>4 DEF Usage, Files
  <2> QED
    BY <2>1, UsageTyped DEF Typed, CounterType
<1> QED
  BY <1>2, <1>3, <1>4, <1>5, <1>7, <1>8

LEMMA WriteTempNext == ASSUME Inv, WriteTemp PROVE Inv'
<1>1. /\ At("temp") /\ Goto("link") /\ temps < MaxTemps /\ temps' = temps + 1
      /\ disk' = disk /\ stable' = stable
      /\ UNCHANGED <<counter, told, requests, relied, power>>
  BY DEF WriteTemp, history
<1>2. temps' \in 0 .. MaxTemps /\ temps' > 0 /\ temps \in Nat
  BY <1>1, BoundsAssumption DEF Typed
<1>3. /\ disk' \in FilesType /\ stable' \in FilesType
      /\ \A file \in Files \ {"log"} : disk'[file] # NoFile => ~disk'[file].torn
  BY <1>1 DEF Typed, Exists
<1>4. /\ Typed' /\ call # Idle /\ call.step = "temp" /\ call'.kind = call.kind
      /\ call'.step = "link" /\ Op' = Op /\ File' = File /\ Fits(Op, "temp")
      /\ Fits(Op, "link") => Underway'
  BY <1>1, <1>2, <1>3, StepShape DEF Steps, At
<1>5. Op = "publish" /\ Underway'
  BY <1>4 DEF Fits
<1>6. Counting'
  <2>1. OwnTemp = 0 /\ OwnTemp' = 1
    BY <1>4 DEF OwnTemp
  <2> QED
    BY <1>1, <1>2, <1>4, <2>1, StepCounting DEF Steps
<1>7. call.kind # "append"
  BY <1>4, <1>5, CallShape DEF CallInv
<1> USE DEF HasLog, HasTerminal, HasTombstone, KeptLog, KeptTerminal, KeptTombstone, Exists, Lines
<1>8. Appending' /\ Removing'
  BY <1>4, <1>5, <1>7 DEF Appending, Removing
<1>9. Compacting'
  BY <1>1, <1>4 DEF CallInv, Compacting, Early
<1>10. Pruning'
  BY <1>1, <1>4 DEF CallInv, Pruning, Early
<1>11. Purging'
  BY <1>1, <1>4 DEF CallInv, Purging
<1> QED
  BY <1>1, <1>4, <1>5, <1>6, <1>7, <1>8, <1>9, <1>10, <1>11, QuietKept DEF CallInv

LEMMA RemoveTempNext == ASSUME Inv, RemoveTemp PROVE Inv'
<1>1. /\ At("untemp") /\ Goto("syncDir") /\ temps' = temps - 1
      /\ disk' = disk /\ stable' = stable
      /\ UNCHANGED <<counter, told, requests, relied, power>>
  BY DEF RemoveTemp, history
<1>2. temps' \in 0 .. MaxTemps /\ temps \in Nat
  <2>1. temps > 0
    BY <1>1 DEF CallInv, Underway, At
  <2> QED
    BY <1>1, <2>1, BoundsAssumption DEF Typed
<1>3. /\ disk' \in FilesType /\ stable' \in FilesType
      /\ \A file \in Files \ {"log"} : disk'[file] # NoFile => ~disk'[file].torn
  BY <1>1 DEF Typed, Exists
<1>4. /\ Typed' /\ call # Idle /\ call.step = "untemp" /\ call'.kind = call.kind
      /\ call'.step = "syncDir" /\ Op' = Op /\ File' = File /\ Fits(Op, "untemp")
      /\ Fits(Op, "syncDir") => Underway'
  BY <1>1, <1>2, <1>3, StepShape DEF Steps, At
<1>5. Op = "publish" /\ Underway'
  BY <1>4 DEF Fits
<1>6. Counting'
  <2>1. OwnTemp = 1 /\ OwnTemp' = 0
    BY <1>4 DEF OwnTemp
  <2> QED
    BY <1>1, <1>2, <1>4, <2>1, StepCounting DEF Steps
<1>7. call.kind # "append"
  BY <1>4, <1>5, CallShape DEF CallInv
<1> USE DEF HasLog, HasTerminal, HasTombstone, KeptLog, KeptTerminal, KeptTombstone, Exists, Lines
<1>8. Appending' /\ Removing'
  BY <1>4, <1>5, <1>7 DEF Appending, Removing
<1>9. Compacting'
  BY <1>1, <1>4 DEF CallInv, Compacting, Early
<1>10. Pruning'
  BY <1>1, <1>4 DEF CallInv, Pruning, Early
<1>11. Purging'
  BY <1>1, <1>4 DEF CallInv, Purging
<1> QED
  BY <1>1, <1>4, <1>5, <1>6, <1>7, <1>8, <1>9, <1>10, <1>11, QuietKept DEF CallInv

---------------------------------------------------------------------------
(* The steps that change a file *)

LEMMA StepKept ==
    ASSUME Inv, UNCHANGED <<told, requests, relied, power>>, call'.kind = call.kind,
           power # "relied" /\ OnDisk(disk, told, requests) => OnDisk(disk', told, requests),
           (/\ power # "relied" /\ ~relied /\ OnDisk(disk, told, requests)
            /\ Kept(disk, stable, told, requests, call.kind = "append"))
              => Kept(disk', stable', told, requests, call.kind = "append")
    PROVE  Holds' /\ Survivable'
BY DEF Holds, Survivable

LEMMA AppendKept ==
    ASSUME Inv, UNCHANGED <<told, requests, relied, power>>,
           call.kind = "append", call'.kind = "append",
           power # "relied" /\ OnDisk(disk, told, requests) => OnDisk(disk', told, requests),
           (/\ power # "relied" /\ ~relied /\ OnDisk(disk, told, requests)
            /\ Kept(disk, stable, told, requests, TRUE))
              => Kept(disk', stable', told, requests, TRUE)
    PROVE  Holds' /\ Survivable'
<1>1. \A d, k : Kept(d, k, told, requests, call.kind = "append")
                 <=> Kept(d, k, told, requests, TRUE)
  BY DEF Kept, KeptRecords
<1> QED
  BY <1>1, StepKept

LEMMA RecordKept ==
    ASSUME Inv, UNCHANGED <<told, requests, relied, power>>,
           call.kind # "append", call'.kind # "append",
           power # "relied" /\ OnDisk(disk, told, requests) => OnDisk(disk', told, requests),
           (/\ power # "relied" /\ ~relied /\ OnDisk(disk, told, requests)
            /\ Kept(disk, stable, told, requests, FALSE))
              => Kept(disk', stable', told, requests, FALSE)
    PROVE  Holds' /\ Survivable'
<1>1. \A d, k : Kept(d, k, told, requests, call.kind = "append")
                 <=> Kept(d, k, told, requests, FALSE)
  BY DEF Kept, KeptRecords
<1>2. \A d, k : Kept(d, k, told, requests, call'.kind = "append")
                 <=> Kept(d, k, told, requests, FALSE)
  BY DEF Kept, KeptRecords
<1> QED
  BY <1>1, <1>2 DEF Holds, Survivable

\* A step of an append: only what an append assumes is left to show.
LEMMA AppendStep ==
    ASSUME Inv, NEW from \in {"truncate", "write", "sync"}, At(from)
    PROVE  /\ call # Idle /\ call.step = from
           /\ call.kind = "append" /\ Op = "append" /\ File = "log"
           /\ disk["terminal"] = NoFile /\ disk["tombstone"] = NoFile
           /\ call'.kind = "append" /\ Op' = "append" /\ Underway' /\ Appending' => CallInv'
<1>1. call # Idle /\ call.step = from
  BY DEF At
<1>2. Op = "append"
  BY <1>1 DEF CallInv, Underway, Fits
<1>3. call.kind \in Kinds \ {"none"}
  BY <1>1, CallTyped DEF CallInv
<1>4. call.kind = "append" /\ File = "log"
  BY <1>1, <1>2, <1>3, CallShape DEF CallInv, Kinds
<1>5. disk["terminal"] = NoFile /\ disk["tombstone"] = NoFile
  BY <1>4 DEF CallInv, Appending, HasTerminal, HasTombstone, Exists
<1>6. ASSUME call'.kind = "append", Op' = "append", Underway', Appending' PROVE CallInv'
  BY <1>6 DEF CallInv, Compacting, Pruning, Purging, Removing
<1> QED
  BY <1>1, <1>2, <1>4, <1>5, <1>6

LEMMA LogSet ==
    ASSUME Typed, NEW version \in Versions, SetLog(version)
    PROVE  /\ disk' \in FilesType /\ disk'["log"] = version /\ version # NoFile
           /\ \A file \in Files \ {"log"} : disk'[file] = disk[file]
           /\ \A file \in Files \ {"log"} : disk'[file] # NoFile => ~disk'[file].torn
           /\ LogLines' = version.lines /\ HasLog' /\ HasTerminal' = HasTerminal
           /\ HasTombstone' = HasTombstone
<1>1. disk' \in FilesType /\ disk'["log"] = version /\ version # NoFile
  BY NoFileAssumption DEF SetLog, Typed, FilesType, Files
<1>2. \A file \in Files \ {"log"} : disk'[file] = disk[file]
  BY DEF SetLog, Typed, FilesType
<1>3. disk'["terminal"] = disk["terminal"] /\ disk'["tombstone"] = disk["tombstone"]
  BY <1>2 DEF Files
<1> QED
  BY <1>1, <1>2, <1>3 DEF LogLines, HasLog, HasTerminal, HasTombstone, Exists, Lines, Typed

LEMMA TruncateNext == ASSUME Inv, Truncate PROVE Inv'
<1> DEFINE v == [disk["log"] EXCEPT !.torn = FALSE]
<1>1. /\ At("truncate") /\ Goto("write") /\ SetLog(v)
      /\ stable' = stable /\ temps' = temps
      /\ UNCHANGED <<counter, told, requests, relied, power>>
  BY DEF Truncate, history
<1>2. /\ call.step = "truncate" /\ call.kind = "append" /\ File = "log"
      /\ disk["terminal"] = NoFile /\ disk["tombstone"] = NoFile
  BY <1>1, AppendStep
<1>3. /\ disk["log"] # NoFile /\ disk["log"] \in Versions /\ disk["log"].lines \in Histories
      /\ LogLines = disk["log"].lines
  <2>1. HasLog
    BY <1>2 DEF CallInv, Appending
  <2> QED
    BY <2>1, FileTyped DEF HasLog, LogLines, Lines, Exists, Files
<1>4. v \in Versions /\ v.lines = disk["log"].lines
  BY <1>3 DEF Versions
<1> HIDE DEF v
<1>5. /\ disk' \in FilesType /\ \A file \in Files \ {"log"} : disk'[file] = disk[file]
      /\ \A file \in Files \ {"log"} : disk'[file] # NoFile => ~disk'[file].torn
      /\ LogLines' = LogLines /\ HasLog' /\ HasTerminal' = HasTerminal
      /\ HasTombstone' = HasTombstone
  BY <1>1, <1>3, <1>4, LogSet
<1>6. /\ Typed' /\ call'.kind = call.kind /\ call'.step = "write" /\ call'.event = call.event
      /\ Op' = Op /\ Underway'
  <2>1. stable' \in FilesType /\ temps' \in 0 .. MaxTemps
    BY <1>1 DEF Typed
  <2>2. /\ Typed' /\ call'.kind = call.kind /\ call'.step = "write" /\ call'.event = call.event
        /\ Op' = Op /\ (Fits(Op, "write") => Underway')
    BY <1>1, <1>5, <2>1, StepShape DEF Steps
  <2> QED
    BY <1>1, <2>2, AppendStep DEF Fits
<1>7. Counting'
  <2>1. OwnTemp = 0 /\ OwnTemp' = 0
    BY <1>2, <1>6 DEF OwnTemp
  <2> QED
    BY <1>1, <1>2, <1>5, <1>6, <2>1, StepCounting DEF Steps
<1>8. Appending'
  BY <1>1, <1>2, <1>5, <1>6 DEF CallInv, Appending, Early, KeptLog
<1>9. CallInv'
  BY <1>1, <1>2, <1>6, <1>8, AppendStep
<1>10. Holds' /\ Survivable'
  <2>1. IsPrefix(disk["log"].lines, v.lines)
    BY <1>3, <1>4, PrefixRefl
  <2>2. disk \in FilesType /\ stable \in FilesType /\ told \in ToldType
    BY DEF Typed
  <2>3. OnDisk(disk, told, requests) => (told.status = "none" /\ v.lines # <<>> => "create" \in requests)
    BY <1>3, <1>4 DEF OnDisk, DiskAnswers
  <2>4. OnDisk(disk, told, requests) =>
           /\ OnDisk(disk', told, requests)
           /\ Kept(disk, stable, told, requests, TRUE) => Kept(disk', stable, told, requests, TRUE)
    BY <1>1, <1>2, <1>3, <1>4, <2>1, <2>2, <2>3, LogWritten DEF SetLog
  <2> QED
    BY <1>1, <1>2, <1>6, <2>4, AppendKept
<1> QED
  BY <1>6, <1>7, <1>9, <1>10

\* What a write leaves: the line that was appended, or its beginning.
LEMMA WriteNext == ASSUME Inv, Write PROVE Inv'
<1>1. /\ At("write") /\ stable' = stable /\ temps' = temps
      /\ UNCHANGED <<counter, told, requests, relied, power>>
  BY DEF Write, history
<1>2. /\ call # Idle /\ call.step = "write" /\ call.kind = "append" /\ File = "log"
      /\ disk["terminal"] = NoFile /\ disk["tombstone"] = NoFile
  BY <1>1, AppendStep
<1>3. /\ Len(LogLines) < MaxLines /\ Accepts(LogLines, call.event)
      /\ call.event = "created" => told.status = "none" /\ "create" \in requests
      /\ call.event = "created" \/ KeptLog
  BY <1>2 DEF CallInv, Appending, Early
<1>4. LogLines \in Histories /\ call.event \in Events
  <2>1. call.event \in Events \cup {"none"} /\ call.event # "none"
    BY <1>2, CallTyped DEF CallInv, Underway
  <2> QED
    BY <2>1, LogTyped
<1>5. call.event = "created" <=> LogLines = <<>>
  BY <1>3, <1>4, AcceptsCreated
<1>6. disk["log"] # NoFile => LogLines = disk["log"].lines
  BY DEF LogLines, Lines, Exists
<1>7. disk["log"] = NoFile => LogLines = <<>>
  BY DEF LogLines, Exists
<1> DEFINE longer == Append(LogLines, call.event)
<1>8. longer \in Histories /\ IsPrefix(LogLines, longer) /\ longer # <<>>
  BY <1>3, <1>4, LongerHistory, PrefixAppend
<1> HIDE DEF longer
<1>9. ASSUME NEW v \in Versions, SetLog(v), IsPrefix(LogLines, v.lines),
             NEW to \in {"sync", "broken"}, Goto(to),
             to = "sync" => v.lines # <<>>, to = "broken" => v.lines = LogLines
      PROVE  Inv'
  <2>1. /\ disk' \in FilesType /\ \A file \in Files \ {"log"} : disk'[file] = disk[file]
        /\ \A file \in Files \ {"log"} : disk'[file] # NoFile => ~disk'[file].torn
        /\ LogLines' = v.lines /\ HasLog' /\ HasTerminal' = HasTerminal
        /\ HasTombstone' = HasTombstone
    BY <1>9, LogSet
  <2>2. /\ Typed' /\ call'.kind = call.kind /\ call'.step = to /\ call'.event = call.event
        /\ Op' = Op /\ Underway'
    <3>1. stable' \in FilesType /\ temps' \in 0 .. MaxTemps /\ to \in Steps
      BY <1>1 DEF Typed, Steps
    <3>2. /\ Typed' /\ call'.kind = call.kind /\ call'.step = to /\ call'.event = call.event
          /\ Op' = Op /\ (Fits(Op, to) => Underway')
      BY <1>1, <1>9, <2>1, <3>1, StepShape
    <3> QED
      BY <1>1, <3>2, AppendStep DEF Fits
  <2>3. Counting'
    <3>1. OwnTemp = 0 /\ OwnTemp' = 0
      BY <1>2, <2>2 DEF OwnTemp
    <3> QED
      BY <1>1, <1>2, <1>9, <2>1, <2>2, <3>1, StepCounting DEF Steps
  <2>4. Appending'
    <3>1. CASE to = "sync"
      BY <1>1, <1>2, <1>3, <1>9, <2>1, <2>2, <3>1
         DEF CallInv, Appending, Early, KeptLog, LogEmpty
    <3>2. CASE to = "broken"
      BY <1>1, <1>2, <1>3, <1>9, <2>1, <2>2, <3>2 DEF CallInv, Appending, Early, KeptLog
    <3> QED
      BY <3>1, <3>2
  <2>5. CallInv'
    BY <1>1, <1>2, <2>2, <2>4, AppendStep
  <2>6. Holds' /\ Survivable'
    <3>1. disk \in FilesType /\ stable \in FilesType /\ told \in ToldType
      BY DEF Typed
    <3>2. ASSUME OnDisk(disk, told, requests)
          PROVE  told.status = "none" /\ v.lines # <<>> => "create" \in requests
      BY <1>3, <1>5, <1>6, <1>7, <3>2 DEF OnDisk, DiskAnswers
    <3>3. ASSUME OnDisk(disk, told, requests), told.status = "live" PROVE disk["log"] # NoFile
      <4> SUFFICES ASSUME disk["log"] = NoFile PROVE FALSE
        OBVIOUS
      <4> QED
        BY <1>3, <1>5, <1>7, <3>3
    <3>4. disk["log"] # NoFile => IsPrefix(disk["log"].lines, v.lines)
      BY <1>6, <1>9
    <3>5. OnDisk(disk, told, requests) =>
             /\ OnDisk(disk', told, requests)
             /\ Kept(disk, stable, told, requests, TRUE)
                => Kept(disk', stable, told, requests, TRUE)
      BY <1>2, <1>9, <3>1, <3>2, <3>3, <3>4, LogWritten DEF SetLog
    <3> QED
      BY <1>1, <1>2, <2>2, <3>5, AppendKept
  <2> QED
    BY <2>2, <2>3, <2>5, <2>6
<1>10. CASE SetLog(Version(longer)) /\ Goto("sync")
  BY <1>8, <1>9, <1>10, VersionTyped
<1>11. CASE SetLog([lines |-> LogLines, torn |-> TRUE]) /\ Goto("broken")
  <2>1. [lines |-> LogLines, torn |-> TRUE] \in Versions
    BY <1>4 DEF Versions
  <2>2. [lines |-> LogLines, torn |-> TRUE].lines = LogLines
    OBVIOUS
  <2>3. IsPrefix(LogLines, LogLines)
    BY <1>4, PrefixRefl
  <2> DEFINE w == [lines |-> LogLines, torn |-> TRUE]
  <2>4. w \in Versions /\ w.lines = LogLines /\ SetLog(w)
    BY <1>11, <2>1
  <2> HIDE DEF w
  <2> QED
    BY <1>9, <1>11, <2>3, <2>4
<1> QED
  BY <1>10, <1>11 DEF Write, longer

LEMMA SyncNext == ASSUME Inv, Sync PROVE Inv'
<1> DEFINE to == IF call.event = "created" THEN "syncDir" ELSE "close"
<1>1. /\ At("sync") /\ Goto(to) /\ disk' = disk /\ temps' = temps
      /\ stable' = IF stable["log"] = NoFile THEN stable
                   ELSE [stable EXCEPT !["log"] = disk["log"]]
      /\ UNCHANGED <<counter, told, requests, relied, power>>
  BY DEF Sync, history
<1>2. /\ call # Idle /\ call.step = "sync" /\ call.kind = "append" /\ File = "log"
      /\ disk["terminal"] = NoFile /\ disk["tombstone"] = NoFile
  BY <1>1, AppendStep
<1>3. /\ HasLog /\ ~LogEmpty /\ (call.event = "created" \/ KeptLog)
      /\ call.event = "created" => told.status = "none" /\ "create" \in requests
  BY <1>2 DEF CallInv, Appending, Early
<1>4. /\ stable' \in FilesType /\ (KeptLog => stable'["log"] = disk["log"])
  BY <1>1 DEF Typed, FilesType, Files, KeptLog
<1>5. to \in {"syncDir", "close"} /\ (to = "close" => stable'["log"] = disk["log"])
      /\ (to = "close" => call.event # "created")
  BY <1>3, <1>4
<1>6. /\ disk' \in FilesType /\ temps' \in 0 .. MaxTemps
      /\ \A file \in Files \ {"log"} : disk'[file] # NoFile => ~disk'[file].torn
  BY <1>1 DEF Typed, Exists
<1> HIDE DEF to
<1>7. /\ Typed' /\ call'.kind = call.kind /\ call'.step = to /\ call'.event = call.event
      /\ Op' = Op /\ Underway'
  <2>1. /\ Typed' /\ call'.kind = call.kind /\ call'.step = to /\ call'.event = call.event
        /\ Op' = Op /\ (Fits(Op, to) => Underway')
    BY <1>1, <1>4, <1>5, <1>6, StepShape DEF Steps
  <2> QED
    BY <1>1, <1>5, <2>1, AppendStep DEF Fits
<1>8. Counting'
  <2>1. OwnTemp = 0 /\ OwnTemp' = 0
    BY <1>2, <1>5, <1>7 DEF OwnTemp
  <2> QED
    BY <1>1, <1>2, <1>5, <1>7, <2>1, StepCounting DEF Steps
<1>9. Appending'
  <2>1. /\ HasLog' /\ ~LogEmpty' /\ HasTerminal' = HasTerminal /\ HasTombstone' = HasTombstone
    BY <1>1, <1>3 DEF HasLog, HasTerminal, HasTombstone, LogEmpty, LogLines, Lines, Exists
  <2> QED
    BY <1>1, <1>2, <1>3, <1>5, <1>7, <2>1 DEF CallInv, Appending, Early
<1>10. CallInv'
  BY <1>1, <1>2, <1>7, <1>9, AppendStep
<1>11. Holds' /\ Survivable'
  <2>1. disk \in FilesType /\ stable \in FilesType /\ told \in ToldType /\ "log" \in Files
    BY DEF Typed, Files
  <2>2. OnDisk(disk, told, requests) /\ Kept(disk, stable, told, requests, TRUE)
           => Kept(disk, [stable EXCEPT !["log"] = disk["log"]], told, requests, TRUE)
    BY <2>1, SyncKept
  <2>3. OnDisk(disk, told, requests) /\ Kept(disk, stable, told, requests, TRUE)
           => Kept(disk, stable', told, requests, TRUE)
    BY <1>1, <2>2
  <2> QED
    BY <1>1, <1>2, <1>7, <2>3, AppendKept
<1> QED
  BY <1>7, <1>8, <1>10, <1>11

\* A file of the journal is replaced, and the others are not.
LEMMA FileSet ==
    ASSUME Typed, NEW file \in Files, NEW version \in Versions \cup {NoFile},
           disk' = [disk EXCEPT ![file] = version],
           file # "log" /\ version # NoFile => ~version.torn
    PROVE  /\ disk' \in FilesType /\ disk'[file] = version
           /\ \A other \in Files \ {file} : disk'[other] = disk[other]
           /\ \A other \in Files \ {"log"} : disk'[other] # NoFile => ~disk'[other].torn
           /\ file # "log" => disk'["log"] = disk["log"]
           /\ file # "terminal" => disk'["terminal"] = disk["terminal"]
           /\ file # "tombstone" => disk'["tombstone"] = disk["tombstone"]
<1>1. disk' \in FilesType /\ disk'[file] = version
  BY DEF Typed, FilesType
<1>2. \A other \in Files \ {file} : disk'[other] = disk[other]
  BY DEF Typed, FilesType
<1>3. \A other \in Files \ {"log"} : disk'[other] # NoFile => ~disk'[other].torn
  BY <1>1, <1>2 DEF Typed, Exists
<1> QED
  BY <1>1, <1>2, <1>3 DEF Files

LEMMA LinkNext == ASSUME Inv, Link PROVE Inv'
<1> DEFINE to == IF File = "snapshot" THEN "syncDir" ELSE "untemp"
<1>1. /\ At("link") /\ stable' = stable
      /\ disk' = [disk EXCEPT ![File] = Content]
      /\ Goto(to) /\ temps' = IF File = "snapshot" THEN temps - 1 ELSE temps
      /\ UNCHANGED <<counter, told, requests, relied, power>>
  BY DEF Link, history
<1>2. /\ call # Idle /\ call.step = "link" /\ Op = "publish" /\ File \in Files
      /\ call.kind \in Kinds \ {"none"} /\ temps > 0 /\ temps \in Nat /\ temps <= MaxTemps
  <2>1. call # Idle /\ call.step = "link"
    BY <1>1 DEF At
  <2>2. Op = "publish" /\ temps > 0
    BY <2>1 DEF CallInv, Underway, Fits
  <2> QED
    BY <2>1, <2>2, CallTyped, BoundsAssumption DEF CallInv, Typed
<1>3. \/ call.kind = "refresh" /\ File = "snapshot"
      \/ call.kind = "compact" /\ File = "terminal"
      \/ call.kind = "prune" /\ File = "tombstone"
  BY <1>2, CallShape DEF CallInv, Kinds
<1>4. call.kind = "compact" =>
         /\ ~HasTombstone /\ HasLog /\ IsDone(Lines("log")) /\ stable["log"] = disk["log"]
         /\ Lines("log") \in Histories
  BY <1>2, <1>3, LogTyped DEF CallInv, Compacting
<1>5. call.kind = "prune" => ~HasLog /\ HasTerminal
  BY <1>2, <1>3 DEF CallInv, Pruning, Early
<1>6. /\ Content \in Versions /\ ~Content.torn /\ Content # NoFile
      /\ File = "terminal" => Content.lines = Lines("log")
  BY <1>3, <1>4, NoHistory, VersionTyped DEF Content, Marker
<1>7. /\ disk' \in FilesType /\ disk'[File] = Content
      /\ \A other \in Files \ {File} : disk'[other] = disk[other]
      /\ \A other \in Files \ {"log"} : disk'[other] # NoFile => ~disk'[other].torn
      /\ disk'["log"] = disk["log"]
      /\ File # "terminal" => disk'["terminal"] = disk["terminal"]
      /\ File # "tombstone" => disk'["tombstone"] = disk["tombstone"]
  BY <1>1, <1>2, <1>3, <1>6, FileSet
<1>8. /\ to \in {"syncDir", "untemp"} /\ temps' \in 0 .. MaxTemps
      /\ to = "untemp" => temps' > 0 /\ temps' = temps
      /\ to = "syncDir" => temps' = temps - 1
  BY <1>1, <1>2, BoundsAssumption
<1>9. /\ Typed' /\ call'.kind = call.kind /\ call'.step = to
      /\ Op' = Op /\ File' = File /\ Underway'
  <2>1. stable' \in FilesType
    BY <1>1 DEF Typed
  <2> HIDE DEF to
  <2>2. /\ Typed' /\ call'.kind = call.kind /\ call'.step = to
        /\ Op' = Op /\ File' = File
        /\ Fits(Op, to) /\ (to \in {"link", "untemp"} => temps' > 0) => Underway'
    BY <1>1, <1>7, <1>8, <2>1, StepShape DEF Steps
  <2> QED
    BY <1>2, <1>8, <2>2 DEF Fits
<1> HIDE DEF to
<1>10. Counting'
  <2>1. OwnTemp = 1
    BY <1>2 DEF OwnTemp
  <2>2. (to = "untemp" => OwnTemp' = 1) /\ (to = "syncDir" => OwnTemp' = 0)
    BY <1>9 DEF OwnTemp
  <2>3. temps' + OwnTemp = temps + OwnTemp'
    <3>1. CASE to = "untemp"
      BY <1>2, <1>8, <2>1, <2>2, <3>1
    <3>2. CASE to = "syncDir"
      BY <1>2, <1>8, <2>1, <2>2, <3>2
    <3> QED
      BY <1>8, <3>1, <3>2
  <2>4. to \in Steps \ {"open"} /\ At("link") /\ Goto(to) /\ Typed'
        /\ UNCHANGED <<counter, power>>
    BY <1>1, <1>8, <1>9 DEF Steps
  <2> QED
    BY <1>7, <2>3, <2>4, StepCounting
<1> USE DEF HasLog, HasTerminal, HasTombstone, KeptLog, KeptTerminal, KeptTombstone, Exists, Lines
<1>11. Appending' /\ Removing' /\ Purging'
  BY <1>2, <1>3, <1>9 DEF Appending, Removing, Purging
<1>12. Compacting'
  BY <1>1, <1>3, <1>4, <1>6, <1>7, <1>8, <1>9 DEF Compacting, Early
<1>13. Pruning'
  BY <1>1, <1>3, <1>5, <1>6, <1>7, <1>8, <1>9 DEF Pruning, Early
<1>14. Holds' /\ Survivable'
  <2>1. disk \in FilesType /\ stable \in FilesType /\ told \in ToldType
    BY DEF Typed
  <2>2. ASSUME OnDisk(disk, told, requests)
        PROVE  /\ OnDisk(disk', told, requests)
               /\ Kept(disk, stable, told, requests, FALSE)
                  => Kept(disk', stable, told, requests, FALSE)
    <3>1. CASE File = "snapshot"
      BY <1>1, <2>1, <2>2, <3>1, SnapshotApart
    <3>2. CASE File = "terminal"
      BY <1>1, <1>3, <1>4, <1>6, <2>1, <2>2, <3>2, TerminalLinked
    <3>3. CASE File = "tombstone"
      BY <1>1, <1>3, <1>5, <1>6, <2>1, <2>2, <3>3, TombstoneLinked
    <3> QED
      BY <1>3, <3>1, <3>2, <3>3
  <2> QED
    BY <1>1, <1>3, <1>9, <2>2, RecordKept
<1> QED
  BY <1>9, <1>10, <1>11, <1>12, <1>13, <1>14 DEF CallInv

LEMMA UnlinkNext == ASSUME Inv, Unlink PROVE Inv'
<1>1. /\ At("unlink") /\ Goto("syncDir") /\ stable' = stable /\ temps' = temps
      /\ disk' = [disk EXCEPT ![File] = NoFile]
      /\ UNCHANGED <<counter, told, requests, relied, power>>
  BY DEF Unlink, history
<1>2. /\ call # Idle /\ call.step = "unlink" /\ Op = "remove" /\ File \in Files
      /\ call.kind \in Kinds \ {"none"}
  <2>1. call # Idle /\ call.step = "unlink"
    BY <1>1 DEF At
  <2>2. Op = "remove"
    BY <2>1 DEF CallInv, Underway, Fits
  <2> QED
    BY <2>1, <2>2, CallTyped DEF CallInv
<1>3. \/ call.kind = "compact" /\ File = "log"
      \/ call.kind = "prune" /\ File \in {"terminal", "snapshot"}
      \/ call.kind = "purge"
  BY <1>2, CallShape DEF CallInv, Kinds
<1>4. /\ disk' \in FilesType /\ disk'[File] = NoFile
      /\ \A other \in Files \ {File} : disk'[other] = disk[other]
      /\ \A other \in Files \ {"log"} : disk'[other] # NoFile => ~disk'[other].torn
      /\ File # "log" => disk'["log"] = disk["log"]
      /\ File # "terminal" => disk'["terminal"] = disk["terminal"]
      /\ File # "tombstone" => disk'["tombstone"] = disk["tombstone"]
  BY <1>1, <1>2, FileSet
<1>5. /\ Typed' /\ call'.kind = call.kind /\ call'.step = "syncDir"
      /\ Op' = Op /\ File' = File /\ Underway'
  <2>1. stable' \in FilesType /\ temps' \in 0 .. MaxTemps
    BY <1>1 DEF Typed
  <2>2. /\ Typed' /\ call'.kind = call.kind /\ call'.step = "syncDir"
        /\ Op' = Op /\ File' = File
        /\ Fits(Op, "syncDir") => Underway'
    BY <1>1, <1>4, <2>1, StepShape DEF Steps
  <2> QED
    BY <1>2, <2>2 DEF Fits
<1>6. Counting'
  <2>1. OwnTemp = 0 /\ OwnTemp' = 0
    BY <1>2, <1>5 DEF OwnTemp
  <2> QED
    BY <1>1, <1>2, <1>4, <1>5, <2>1, StepCounting DEF Steps
<1> USE DEF HasLog, HasTerminal, HasTombstone, KeptLog, KeptTerminal, KeptTombstone, Exists, Lines
<1>7. Appending'
  BY <1>2, <1>3, <1>5 DEF Appending
<1>8. Removing'
  BY <1>1, <1>4, <1>5 DEF Removing
<1>9. Compacting'
  BY <1>1, <1>2, <1>3, <1>4, <1>5 DEF CallInv, Compacting
<1>10. Pruning'
  BY <1>1, <1>2, <1>3, <1>4, <1>5 DEF CallInv, Pruning
<1>11. Purging'
  BY <1>1, <1>2, <1>4, <1>5 DEF CallInv, Purging
<1>12. Holds' /\ Survivable'
  <2>1. disk \in FilesType /\ stable \in FilesType /\ told \in ToldType
    BY DEF Typed
  <2>2. \/ "purge" \in requests
        \/ File = "snapshot"
        \/ File = "terminal" /\ disk["tombstone"] # NoFile
        \/ File = "log" /\ disk["terminal"] # NoFile
    BY <1>2, <1>3 DEF CallInv, Compacting, Pruning, Purging
  <2>3. ~relied =>
        \/ "purge" \in requests
        \/ File = "snapshot"
        \/ File = "terminal" /\ stable["tombstone"] # NoFile
        \/ File = "log" /\ stable["terminal"] # NoFile
    BY <1>2, <1>3 DEF CallInv, Compacting, Pruning, Purging
  <2>4. ASSUME OnDisk(disk, told, requests)
        PROVE  /\ OnDisk(disk', told, requests)
               /\ ~relied /\ Kept(disk, stable, told, requests, FALSE)
                  => Kept(disk', stable, told, requests, FALSE)
    BY <1>1, <1>2, <2>1, <2>2, <2>3, <2>4, Unlinked
  <2> QED
    BY <1>1, <1>3, <1>5, <2>4, RecordKept
<1> QED
  BY <1>5, <1>6, <1>7, <1>8, <1>9, <1>10, <1>11, <1>12 DEF CallInv

LEMMA SyncDirectoryNext == ASSUME Inv, SyncDirectory PROVE Inv'
<1>1. /\ At("syncDir") /\ Goto("close") /\ disk' = disk /\ temps' = temps
      /\ stable' = [stable EXCEPT ![File] = disk[File]]
      /\ UNCHANGED <<counter, told, requests, relied, power>>
  BY DEF SyncDirectory, history
<1>2. /\ call # Idle /\ call.step = "syncDir" /\ File \in Files
      /\ call.kind \in Kinds \ {"none"}
      /\ call.kind = "append" => File = "log"
  <2>1. call # Idle /\ call.step = "syncDir"
    BY <1>1 DEF At
  <2> QED
    BY <2>1, CallTyped, CallShape DEF CallInv
<1>3. /\ stable' \in FilesType /\ stable'[File] = disk[File]
      /\ File # "log" => stable'["log"] = stable["log"]
      /\ File # "terminal" => stable'["terminal"] = stable["terminal"]
      /\ File # "tombstone" => stable'["tombstone"] = stable["tombstone"]
  BY <1>1, <1>2 DEF Typed, FilesType, Files
<1>4. /\ disk' \in FilesType /\ temps' \in 0 .. MaxTemps
      /\ \A file \in Files \ {"log"} : disk'[file] # NoFile => ~disk'[file].torn
  BY <1>1 DEF Typed, Exists
<1>5. /\ Typed' /\ call'.kind = call.kind /\ call'.step = "close" /\ call'.event = call.event
      /\ Op' = Op /\ File' = File /\ Underway'
  <2>1. /\ Typed' /\ call'.kind = call.kind /\ call'.step = "close" /\ call'.event = call.event
        /\ Op' = Op /\ File' = File
        /\ Fits(Op, "syncDir") /\ (Fits(Op, "close") => Underway')
    BY <1>1, <1>3, <1>4, StepShape DEF Steps
  <2>2. Fits(Op, "close")
    BY <2>1 DEF Fits
  <2> QED
    BY <2>1, <2>2
<1>6. Counting'
  <2>1. OwnTemp = 0 /\ OwnTemp' = 0
    BY <1>2, <1>5 DEF OwnTemp
  <2> QED
    BY <1>1, <1>2, <1>5, <2>1, StepCounting DEF Steps
<1> USE DEF HasLog, HasTerminal, HasTombstone, KeptLog, KeptTerminal, KeptTombstone, Exists, Lines
<1>7. Appending'
  <2>1. LogEmpty' = LogEmpty
    BY <1>1 DEF LogEmpty, LogLines
  <2> QED
    BY <1>1, <1>2, <1>3, <1>5, <2>1 DEF CallInv, Appending, Early
<1>8. Removing'
  BY <1>1, <1>2, <1>3, <1>5 DEF CallInv, Removing
<1>9. Compacting'
  BY <1>1, <1>2, <1>3, <1>5 DEF CallInv, Compacting, Early
<1>10. Pruning'
  BY <1>1, <1>2, <1>3, <1>5 DEF CallInv, Pruning, Early
<1>11. Purging'
  <2>1. File = "terminal" /\ call.kind = "purge" => ~HasTombstone
    BY <1>2 DEF CallInv, Purging
  <2> QED
    BY <1>1, <1>2, <1>3, <1>5 DEF CallInv, Purging
<1>12. Holds' /\ Survivable'
  <2>1. disk \in FilesType /\ stable \in FilesType /\ told \in ToldType
    BY DEF Typed
  <2>2. CASE call.kind = "append"
    <3>1. OnDisk(disk, told, requests) /\ Kept(disk, stable, told, requests, TRUE)
             => Kept(disk, stable', told, requests, TRUE)
      BY <1>1, <1>2, <2>1, <2>2, SyncKept
    <3> QED
      BY <1>1, <1>5, <2>2, <3>1, AppendKept
  <2>3. CASE call.kind # "append"
    <3>1. OnDisk(disk, told, requests) /\ Kept(disk, stable, told, requests, FALSE)
             => Kept(disk, stable', told, requests, FALSE)
      BY <1>1, <1>2, <2>1, SyncKept
    <3> QED
      BY <1>1, <1>5, <2>3, <3>1, RecordKept
  <2> QED
    BY <2>2, <2>3
<1> QED
  BY <1>5, <1>6, <1>7, <1>8, <1>9, <1>10, <1>11, <1>12 DEF CallInv

---------------------------------------------------------------------------
(* Power *)

\* A terminal, tombstone or snapshot that is durable is whole: it was linked, not written.
Whole == \A file \in Files \ {"log"} : stable[file] # NoFile => ~stable[file].torn

LEMMA SurvivesIs ==
    ASSUME Typed, NEW file \in Files, NEW v \in Survives(file)
    PROVE  /\ v \in Versions \cup {NoFile}
           /\ file # "log" => v \in {disk[file], stable[file]}
           /\ file = "log" =>
                \/ v \in {disk["log"], stable["log"]}
                \/ /\ disk["log"] # NoFile /\ v \in Versions
                   /\ IsPrefix(v.lines, disk["log"].lines)
                   /\ stable["log"] # NoFile => Len(v.lines) >= Len(stable["log"].lines)
<1>1. \/ v \in {stable[file], disk[file]}
      \/ /\ file = "log" /\ disk[file] # NoFile /\ v \in Versions
         /\ IsPrefix(v.lines, disk[file].lines)
         /\ Len(v.lines) >= IF stable[file] = NoFile THEN 0 ELSE Len(stable[file].lines)
  <2>1. CASE file # "log" \/ disk[file] = NoFile
    BY <2>1 DEF Survives
  <2>2. CASE file = "log" /\ disk[file] # NoFile
    BY <2>2 DEF Survives
  <2> QED
    BY <2>1, <2>2
<1> QED
  BY <1>1, FileTyped

LEMMA PowerLossNext == ASSUME Inv, Whole, PowerLoss PROVE Inv'
<1>1. PICK log \in Survives("log"), terminal \in Survives("terminal"),
           tombstone \in Survives("tombstone"), snapshot \in Survives("snapshot") :
         disk' = [file \in Files |-> CASE file = "log" -> log
                                       [] file = "terminal" -> terminal
                                       [] file = "tombstone" -> tombstone
                                       [] file = "snapshot" -> snapshot]
  BY DEF PowerLoss
<1>2. /\ stable' = disk' /\ temps' \in 0 .. temps /\ call' = Idle
      /\ power' = IF relied \/ power = "relied" THEN "relied" ELSE "lost"
      /\ UNCHANGED <<counter, told, requests, relied>>
  BY DEF PowerLoss
<1>3. /\ disk'["log"] = log /\ disk'["terminal"] = terminal
      /\ disk'["tombstone"] = tombstone /\ disk'["snapshot"] = snapshot
  <2>1. disk'["log"] = log
    BY <1>1 DEF Files
  <2>2. disk'["terminal"] = terminal
    BY <1>1 DEF Files
  <2>3. disk'["tombstone"] = tombstone
    BY <1>1 DEF Files
  <2>4. disk'["snapshot"] = snapshot
    BY <1>1 DEF Files
  <2> QED
    BY <2>1, <2>2, <2>3, <2>4
<1>4. /\ log \in Versions \cup {NoFile} /\ terminal \in Versions \cup {NoFile}
      /\ tombstone \in Versions \cup {NoFile} /\ snapshot \in Versions \cup {NoFile}
      /\ terminal \in {disk["terminal"], stable["terminal"]}
      /\ tombstone \in {disk["tombstone"], stable["tombstone"]}
      /\ snapshot \in {disk["snapshot"], stable["snapshot"]}
  BY SurvivesIs DEF Files
<1>5. disk' \in FilesType
  <2> DEFINE Left(file) == CASE file = "log" -> log
                              [] file = "terminal" -> terminal
                              [] file = "tombstone" -> tombstone
                              [] file = "snapshot" -> snapshot
  <2>1. disk' = [file \in Files |-> Left(file)]
    BY <1>1
  <2>2. \A file \in Files : Left(file) \in Versions \cup {NoFile}
    BY <1>4 DEF Files
  <2> HIDE DEF Left
  <2> QED
    BY <2>1, <2>2 DEF FilesType
<1>6. \A file \in Files \ {"log"} : disk'[file] # NoFile => ~disk'[file].torn
  BY <1>3, <1>4 DEF Files, Whole, Typed, Exists
<1>7. Typed'
  <2>1. temps' \in 0 .. MaxTemps
    BY <1>2, BoundsAssumption DEF Typed
  <2> QED
    BY <1>2, <1>5, <1>6, <2>1, IdleTyped DEF Typed, Exists
<1>8. CallInv' /\ call'.kind # "append"
  BY <1>2, IdleCallInv
<1>9. Counting'
  BY <1>2 DEF Counting
<1>10. Between(disk, stable, disk')
  BY <1>3, SurvivesIs DEF Between, Files
<1>11. power' # "relied" => OnDisk(disk', told, requests)
  <2> SUFFICES ASSUME power' # "relied" PROVE OnDisk(disk', told, requests)
    OBVIOUS
  <2>1. ~relied /\ power # "relied"
    BY <1>2
  <2>2. /\ OnDisk(disk, told, requests)
        /\ Kept(disk, stable, told, requests, call.kind = "append")
    BY <2>1 DEF Holds, Survivable
  <2>3. disk \in FilesType /\ stable \in FilesType /\ told \in ToldType
    BY DEF Typed
  <2> QED
    BY <1>3, <1>4, <1>5, <1>10, <2>2, <2>3, PowerKeeps
<1>12. Holds'
  BY <1>2, <1>11 DEF Holds
<1>13. Survivable'
  <2>1. power' # "relied" => Kept(disk', disk', told, requests, FALSE)
    BY <1>5, <1>11, AllKept
  <2>2. Kept(disk', disk', told, requests, FALSE)
          => Kept(disk', disk', told, requests, call'.kind = "append")
    BY <1>8 DEF Kept, KeptRecords
  <2> QED
    BY <1>2, <2>1, <2>2 DEF Survivable
<1> QED
  BY <1>7, <1>8, <1>9, <1>12, <1>13

---------------------------------------------------------------------------
(* Every step *)

LEMMA WholeNext == ASSUME Inv, Whole, Next PROVE Whole'
<1>1. ASSUME \A file \in Files \ {"log"} : stable'[file] = stable[file] PROVE Whole'
  BY <1>1 DEF Whole
<1>2. ASSUME UNCHANGED files PROVE Whole'
  BY <1>2 DEF Whole, files
<1>3. ASSUME ReadLog PROVE Whole'
  BY <1>1, <1>3 DEF ReadLog, Typed, FilesType
<1>4. ASSUME UNCHANGED stable PROVE Whole'
  BY <1>4 DEF Whole
<1>5. ASSUME NEW expected \in 0 .. MaxLines, NEW event \in Events, AppendEvent(expected, event)
      PROVE  Whole'
  BY <1>2, <1>3, <1>5 DEF AppendEvent
<1>6. ASSUME Load \/ Refresh \/ Compact \/ Prune \/ Purge \/ Open PROVE Whole'
  <2>1. ReadLog \/ UNCHANGED files
    BY <1>6 DEF Load, Refresh, Compact, Prune, Purge, Open
  <2> QED
    BY <1>2, <1>3, <2>1
<1>7. ASSUME QuotaOpen \/ QuotaClose \/ Die PROVE Whole'
  BY <1>2, <1>7 DEF QuotaOpen, QuotaClose, Die
<1>8. ASSUME Truncate \/ Write \/ WriteTemp \/ Link \/ RemoveTemp \/ Unlink \/ Fail PROVE Whole'
  BY <1>4, <1>8 DEF Truncate, Write, WriteTemp, Link, RemoveTemp, Unlink, Fail
<1>9. CASE Sync
  BY <1>1, <1>9 DEF Sync, Typed, FilesType
<1>10. CASE SyncDirectory
  <2>1. call # Idle
    BY <1>10 DEF SyncDirectory, At
  <2>2. File \in Files
    BY <2>1, CallTyped DEF CallInv
  <2>3. \A file \in Files : stable'[file] = stable[file] \/ stable'[file] = disk[file]
    BY <1>10, <2>2 DEF SyncDirectory, Typed, FilesType
  <2> QED
    BY <2>3 DEF Whole, Typed, Exists
<1>11. CASE PowerLoss
  <2>1. Typed' /\ stable' = disk'
    BY <1>11, PowerLossNext DEF PowerLoss
  <2> QED
    BY <2>1 DEF Whole, Typed, Exists
<1> QED
  BY <1>5, <1>6, <1>7, <1>8, <1>9, <1>10, <1>11 DEF Next, Change

LEMMA InvInit == Init => Inv /\ Whole
<1> SUFFICES ASSUME Init PROVE Inv /\ Whole
  OBVIOUS
<1>1. /\ \A file \in Files : disk[file] = NoFile /\ stable[file] = NoFile
      /\ disk \in FilesType /\ stable \in FilesType
      /\ call = Idle /\ temps = 0 /\ told = NoRecord /\ requests = {}
      /\ relied = FALSE /\ power = "kept"
  BY DEF Init, FilesType
<1>2. Entries \in [present : SUBSET Files, temps : Nat]
  BY <1>1 DEF Entries
<1>3. /\ counter \in CounterType /\ counter.total = 0 /\ counter.entries = Entries
      /\ counter.dirty = FALSE
  BY <1>2 DEF Init, CounterType
<1>4. told \in ToldType /\ told.status = "none" /\ told.lines = <<>>
  BY <1>1, NoHistory DEF NoRecord, ToldType
<1>5. Typed /\ Whole
  <2>1. temps \in 0 .. MaxTemps
    BY <1>1, BoundsAssumption
  <2>2. call \in CallType
    BY <1>1, IdleTyped
  <2>3. /\ \A file \in Files \ {"log"} : Exists(file) => ~disk[file].torn
        /\ Whole
    BY <1>1 DEF Exists, Whole
  <2>4. /\ requests \subseteq {"create", "purge"}
        /\ relied \in BOOLEAN /\ power \in {"kept", "lost", "relied"}
    BY <1>1
  <2> QED
    BY <1>1, <1>3, <1>4, <2>1, <2>2, <2>3, <2>4 DEF Typed
<1>6. CallInv
  BY <1>1, IdleTyped DEF CallInv, Underway, Appending, Compacting, Pruning, Purging, Removing
<1>7. OnDisk(disk, told, requests)
  BY <1>1, <1>4 DEF OnDisk, Answered, DiskRecords, DiskAnswers, Files
<1>8. Kept(disk, stable, told, requests, call.kind = "append")
  BY <1>1, <1>4, IdleTyped DEF Kept, KeptRecords, KeptLogs, KeptAnswers, Files
<1>9. Counting
  <2>1. Size(NoFile) = 0
    BY DEF Size
  <2>2. Usage = 0
    BY <1>1, <2>1 DEF Usage, Files
  <2> QED
    BY <1>1, <1>3, <2>2 DEF Counting
<1> QED
  BY <1>5, <1>6, <1>7, <1>8, <1>9 DEF Holds, Survivable

LEMMA InvNext == Inv /\ Whole /\ [Next]_vars => Inv' /\ Whole'
<1> SUFFICES ASSUME Inv, Whole, [Next]_vars PROVE Inv' /\ Whole'
  OBVIOUS
<1>1. CASE UNCHANGED vars
  <2>1. /\ disk' = disk /\ stable' = stable /\ temps' = temps /\ counter' = counter
        /\ call' = call /\ told' = told /\ requests' = requests /\ relied' = relied
        /\ power' = power
    BY <1>1 DEF vars, files, history
  <2>2. Typed' /\ Whole'
    BY <2>1 DEF Typed, Exists, Whole
  <2>3. CallInv'
    <3>1. Underway'
      BY <2>1 DEF CallInv, Underway, Op
    <3>2. LogLines' = LogLines /\ LogEmpty' = LogEmpty
      BY <2>1 DEF LogEmpty, LogLines, Exists, Lines
    <3> USE DEF HasLog, HasTerminal, HasTombstone, KeptLog, KeptTerminal, KeptTombstone,
                Exists, Lines, File, Op
    <3>3. Appending'
      BY <2>1, <3>2 DEF CallInv, Appending
    <3>4. Compacting'
      BY <2>1 DEF CallInv, Compacting
    <3>5. Pruning'
      BY <2>1 DEF CallInv, Pruning
    <3>6. Purging' /\ Removing'
      BY <2>1 DEF CallInv, Purging, Removing
    <3> QED
      BY <3>1, <3>3, <3>4, <3>5, <3>6 DEF CallInv
  <2>4. Holds' /\ Survivable'
    BY <2>1, QuietKept
  <2>5. Counting'
    BY <2>1 DEF Counting, Usage, Entries, Exists, OwnTemp, File
  <2> QED
    BY <2>2, <2>3, <2>4, <2>5
<1>2. CASE Next
  <2>1. Inv'
    BY <1>2, AppendEventNext, LoadNext, RefreshNext, CompactNext, PruneNext, PurgeNext, OpenNext,
       QuotaOpenNext, QuotaCloseNext, TruncateNext, WriteNext, SyncNext, WriteTempNext, LinkNext,
       RemoveTempNext, UnlinkNext, SyncDirectoryNext, FailNext, DieNext, PowerLossNext
       DEF Next, Change
  <2>2. Whole'
    BY <1>2, WholeNext
  <2> QED
    BY <2>1, <2>2
<1> QED
  BY <1>1, <1>2

LEMMA InvHolds == Spec => [](Inv /\ Whole)
BY InvInit, InvNext, PTL DEF Spec

---------------------------------------------------------------------------
(* What the journal guarantees *)

\* The files, the counter, the call and the answers have their types, and a file that was
\* linked is never torn.
THEOREM JournalTypeCorrect == Spec => []TypeOK
<1>1. Inv => TypeOK
  <2> SUFFICES ASSUME Inv PROVE TypeOK
    OBVIOUS
  <2>1. counter.dirty \in BOOLEAN /\ counter.total \in Nat
    BY DEF Typed, CounterType
  <2>2. call.kind \in Kinds /\ call.step \in Steps /\ call.jobs \in Seq(Jobs)
    BY DEF Typed, CallType
  <2>3. ToSet(call.jobs) \subseteq Jobs
    BY <2>2, ElementOfSeq, LenProperties DEF ToSet
  <2>4. told.status \in {"none", "live", "expired"} /\ told.lines \in Histories
    BY DEF Typed, ToldType
  <2> QED
    BY <2>1, <2>2, <2>3, <2>4 DEF TypeOK, Typed, FilesType
<1> QED
  BY <1>1, InvHolds, PTL

\* reconcileTerminalWithLog and the checks beside a tombstone never meet files that
\* disagree, whatever process died and whatever power took back.
THEOREM FilesNeverDisagree == Spec => []NeverCorrupt
<1>1. Inv => NeverCorrupt
  BY DEF Holds, OnDisk, DiskRecords, NeverCorrupt, Exists, Lines
<1> QED
  BY <1>1, InvHolds, PTL

\* A counter that loadCurrentQuotaCounter would trust counts what is on the disk.
THEOREM CounterIsExact == Spec => []QuotaIsExact
<1>1. Inv => QuotaIsExact
  BY DEF Counting, QuotaIsExact
<1> QED
  BY <1>1, InvHolds, PTL

---------------------------------------------------------------------------
(* The promise of OperationRecord *)

LEMMA ToldIs ==
    ASSUME Inv, power # "relied"
    PROVE  /\ told.status \in {"none", "live", "expired"}
           /\ told.status = "none" => told = Record!None
           /\ told.status = "expired" => told = Record!Expired
           /\ OnDisk(disk, told, requests)
<1>1. /\ OnDisk(disk, told, requests) /\ told \in ToldType
  BY DEF Holds, Typed
<1>2. /\ told.status \in {"none", "live", "expired"}
      /\ told.status # "live" => told.lines = <<>>
  BY <1>1 DEF OnDisk, Answered, ToldType
<1>3. Record!None \in ToldType /\ Record!Expired \in ToldType
  BY NoHistory DEF Record!None, Record!Expired, ToldType
<1>4. told.status = "none" => told = Record!None
  BY <1>1, <1>2, <1>3 DEF Record!None, ToldType
<1>5. told.status = "expired" => told = Record!Expired
  BY <1>1, <1>2, <1>3 DEF Record!Expired, ToldType
<1> QED
  BY <1>1, <1>2, <1>4, <1>5

\* What is found is told: it extends what was told before, or a creation or a purge explains it.
LEMMA TellsLive ==
    ASSUME Inv, power # "relied", ~HasTombstone, NEW lines, Tell("live", lines), power' = power,
           \/ HasTerminal /\ lines = Lines("terminal")
           \/ HasLog /\ ~LogEmpty /\ lines = Lines("log")
    PROVE  Record!Next
<1>1. /\ told.status \in {"none", "live", "expired"}
      /\ told.status = "none" => told = Record!None
      /\ told.status = "expired" => told = Record!Expired
      /\ OnDisk(disk, told, requests)
  BY ToldIs
<1>2. lines \in Histories /\ (HasLog => (LogEmpty <=> Lines("log") = <<>>))
  BY LogTyped
<1>3. told.status = "live" => IsPrefix(told.lines, lines)
  BY <1>1 DEF OnDisk, DiskRecords, Extends, HasTerminal, HasLog, Exists, Lines
<1>4. told.status = "none" => "create" \in requests
  BY <1>1, <1>2 DEF OnDisk, DiskAnswers, HasTerminal, HasLog, Exists, Lines
<1>5. told.status = "expired" => "purge" \in requests
  BY <1>1 DEF OnDisk, DiskAnswers, HasTombstone, Exists
<1>6. told' = Record!Live(lines) /\ requests' = requests
  BY DEF Tell, Record!Live
<1>7. \/ told = Record!None /\ "create" \in requests
      \/ told.status = "live" /\ IsPrefix(told.lines, lines)
      \/ told = Record!Expired /\ "purge" \in requests
  BY <1>1, <1>3, <1>4, <1>5
<1>8. Record!Answer(lines)
  BY <1>6, <1>7 DEF Record!Answer, Record!IsPrefix, IsPrefix
<1> QED
  BY <1>2, <1>8 DEF Record!Next

LEMMA TellsExpired ==
    ASSUME Inv, power # "relied", HasTombstone, Tell("expired", <<>>), power' = power
    PROVE  Record!Next
<1>1. /\ OnDisk(disk, told, requests)
  BY ToldIs
<1>2. told = Record!None => "create" \in requests
  BY <1>1 DEF Record!None, OnDisk, DiskAnswers, HasTombstone, Exists
<1>3. told' = Record!Expired /\ requests' = requests
  BY DEF Tell, Record!Expired
<1> QED
  BY <1>2, <1>3 DEF Record!Next, Record!Expire

\* Where nothing is found, nothing was told, or a purge was asked for.
LEMMA NothingTold ==
    ASSUME Inv, power # "relied", ~HasTombstone, ~HasTerminal, LogEmpty
    PROVE  told # Record!None => "purge" \in requests
<1>1. /\ told.status \in {"none", "live", "expired"}
      /\ told.status = "none" => told = Record!None
      /\ OnDisk(disk, told, requests)
  BY ToldIs
<1>2. HasLog => Lines("log") = <<>>
  BY LogTyped
<1>3. told.status = "expired" => "purge" \in requests
  BY <1>1 DEF OnDisk, DiskAnswers, HasTombstone, Exists
<1>4. ASSUME told.status = "live", "purge" \notin requests PROVE FALSE
  <2>1. HasLog /\ IsPrefix(told.lines, <<>>) /\ told.lines # <<>> /\ told.lines \in Histories
    BY <1>1, <1>2, <1>4, LogTyped
       DEF OnDisk, DiskAnswers, DiskRecords, Answered, Extends, HasTombstone, HasTerminal, HasLog,
           Exists, Lines
  <2> QED
    BY <2>1, NoHistory, PrefixOfNothing
<1> QED
  BY <1>1, <1>3, <1>4

LEMMA TellsNone ==
    ASSUME Inv, power # "relied", ~HasTombstone, ~HasTerminal, LogEmpty, power' = power,
           Tell("none", <<>>)
    PROVE  Record!Next
<1>1. told' = Record!None /\ requests' = {}
  BY DEF Tell, Record!None
<1> QED
  BY <1>1, NothingTold DEF Record!Next, Record!Forget

LEMMA RecordNext == Inv /\ [Next]_vars => [Record!Next \/ power = "relied"]_(Record!vars)
<1> SUFFICES ASSUME Inv, [Next]_vars, power # "relied"
             PROVE  Record!Next \/ UNCHANGED Record!vars
  OBVIOUS
<1>1. ASSUME told' = told, requests' = requests, power' = power PROVE UNCHANGED Record!vars
  BY <1>1 DEF Record!vars
<1>2. (HasLog \/ LogEmpty) /\ LogLines \in Histories
  BY LogTyped
<1> USE DEF HasLog, HasTerminal, HasTombstone
<1>3. ASSUME NEW expected \in 0 .. MaxLines, NEW event \in Events, AppendEvent(expected, event)
      PROVE  Record!Next \/ UNCHANGED Record!vars
  <2>1. CASE Exists("tombstone") /\ Answer("expired", <<>>)
    BY <2>1, TellsExpired DEF Answer, Rely
  <2>2. CASE ~Exists("tombstone") /\ ~Exists("terminal") /\ Len(LogLines) = expected
             /\ Found(expected)
    <3>1. CASE expected = 0
      <4>1. LogEmpty
        BY <1>2, <2>2, <3>1, HistoryTyped, EmptySeq DEF LogEmpty
      <4>2. told # Record!None => "purge" \in requests
        BY <2>2, <4>1, NothingTold
      <4>3. told' = NoRecord /\ requests' = {"create"} /\ power' = power
        BY <2>2, <3>1 DEF Found, Rely
      <4>4. Record!Create
        BY <4>2, <4>3 DEF Record!Create, Record!None, NoRecord
      <4> QED
        BY <4>4 DEF Record!Next
    <3>2. CASE expected # 0
      BY <1>1, <2>2, <3>2 DEF Found, Rely
    <3> QED
      BY <3>1, <3>2
  <2> QED
    BY <1>3, <2>1, <2>2 DEF AppendEvent
<1>4. CASE Load
  <2>1. CASE Exists("tombstone") /\ Answer("expired", <<>>)
    BY <2>1, TellsExpired DEF Answer, Rely
  <2>2. CASE ~Exists("tombstone") /\ Exists("terminal") /\ Answer("live", Lines("terminal"))
    BY <2>2, TellsLive DEF Answer, Rely
  <2>3. CASE ~Exists("tombstone") /\ ~Exists("terminal") /\ LogEmpty /\ Answer("none", <<>>)
    BY <2>3, TellsNone DEF Answer, Rely
  <2>4. CASE ~Exists("tombstone") /\ ~Exists("terminal") /\ ~LogEmpty
             /\ Answer("live", Lines("log"))
    BY <1>2, <2>4, TellsLive DEF Answer, Rely
  <2> QED
    BY <1>4, <2>1, <2>2, <2>3, <2>4 DEF Load
<1>5. CASE Compact
  <2>1. CASE Exists("tombstone") /\ Answer("expired", <<>>)
    BY <2>1, TellsExpired DEF Answer, Rely
  <2>2. CASE ~Exists("tombstone") /\ Exists("terminal") /\ Answer("live", Lines("terminal"))
    BY <2>2, TellsLive DEF Answer, Rely
  <2>3. CASE ~Exists("tombstone") /\ ~Exists("terminal") /\ LogEmpty /\ Answer("none", <<>>)
    BY <2>3, TellsNone DEF Answer, Rely
  <2>4. CASE told' = told /\ requests' = requests /\ power' = power
    BY <1>1, <2>4
  <2> QED
    BY <1>5, <2>1, <2>2, <2>3, <2>4 DEF Compact, Rely, history
<1>6. CASE Refresh \/ Prune \/ Open \/ QuotaOpen \/ Fail \/ Die
  <2>1. told' = told /\ requests' = requests /\ power' = power
    BY <1>6 DEF Refresh, Prune, Open, QuotaOpen, Fail, Die, Rely, history
  <2> QED
    BY <1>1, <2>1
<1>7. CASE Purge
  <2>1. told' = told /\ requests' = requests \cup {"purge"} /\ power' = power
    BY <1>7 DEF Purge
  <2> QED
    BY <2>1 DEF Record!Next, Record!Purge
<1>8. CASE Change
  <2>1. told' = told /\ requests' = requests /\ power' = power
    BY <1>8 DEF Change, Truncate, Write, Sync, WriteTemp, Link, RemoveTemp, Unlink, SyncDirectory,
                history
  <2> QED
    BY <1>1, <2>1
<1>9. CASE QuotaClose
  <2>1. call # Idle /\ call.step = "close"
    BY <1>9 DEF QuotaClose, At
  <2>2. call.kind \in {"append", "compact", "prune", "purge", "refresh"}
    BY <2>1, CallTyped DEF CallInv, Kinds
  <2>3. CASE told' = told /\ requests' = requests /\ power' = power
    BY <1>1, <2>3
  <2>4. CASE ~(Len(call.jobs) > 1) /\ power' = power
    <3>1. CASE call.kind = "append"
      <4>1. Tell("live", Lines("log"))
        BY <1>9, <2>4, <3>1 DEF QuotaClose
      <4>2. ~HasTombstone /\ HasLog /\ ~LogEmpty
        BY <2>1, <3>1 DEF CallInv, Appending, Early
      <4> QED
        BY <2>4, <4>1, <4>2, TellsLive
    <3>2. CASE call.kind = "compact"
      <4>1. Tell("live", Lines("terminal"))
        BY <1>9, <2>4, <3>2 DEF QuotaClose
      <4>2. ~HasTombstone /\ HasTerminal
        BY <2>1, <3>2, CallShape DEF CallInv, Compacting, Early
      <4> QED
        BY <2>4, <4>1, <4>2, TellsLive
    <3>3. CASE call.kind = "prune"
      <4>1. Tell("expired", <<>>)
        BY <1>9, <2>4, <3>3 DEF QuotaClose
      <4>2. HasTombstone
        BY <2>1, <3>3 DEF CallInv, Pruning, Early
      <4> QED
        BY <2>4, <4>1, <4>2, TellsExpired
    <3>4. CASE call.kind = "purge"
      <4>1. Tell("none", <<>>)
        BY <1>9, <2>4, <3>4 DEF QuotaClose
      <4>2. File = "log" /\ Op = "remove"
        <5>1. \/ Op = "remove" /\ Len(call.jobs) > 1
              \/ Op = "remove" /\ File = "log"
          BY <2>1, <3>4, CallShape DEF CallInv
        <5> QED
          BY <2>4, <5>1
      <4>3. ~HasTombstone /\ ~HasTerminal /\ ~HasLog
        BY <2>1, <3>4, <4>2 DEF CallInv, Purging, Removing
      <4> QED
        BY <1>2, <2>4, <4>1, <4>3, TellsNone
    <3>5. CASE call.kind = "refresh"
      <4>1. told' = told /\ requests' = requests
        BY <1>9, <2>4, <3>5 DEF QuotaClose
      <4> QED
        BY <1>1, <2>4, <4>1
    <3> QED
      BY <2>2, <3>1, <3>2, <3>3, <3>4, <3>5
  <2> QED
    BY <1>9, <2>3, <2>4 DEF QuotaClose, history
<1>10. CASE PowerLoss
  <2>1. told' = told /\ requests' = requests /\ power' \in {"relied", "lost"}
    BY <1>10 DEF PowerLoss
  <2>2. CASE power' = "relied"
    BY <2>1, <2>2 DEF Record!Next, Record!Excuse
  <2>3. CASE power' = "lost"
    BY <2>1, <2>3 DEF Record!vars
  <2> QED
    BY <2>1, <2>2, <2>3
<1>11. CASE UNCHANGED vars
  BY <1>1, <1>11 DEF vars, history
<1> QED
  BY <1>3, <1>4, <1>5, <1>6, <1>7, <1>8, <1>9, <1>10, <1>11 DEF Next

\* Appends, compaction, pruning and purging, with deaths, failed steps and power failures
\* between any two of their steps, keep what was once answered.
THEOREM RecordOutlives == Spec => RecordIsKept
<1>1. Init => Record!Init
  BY DEF Init, Record!Init, Record!None, NoRecord
<1> QED
  BY <1>1, InvHolds, RecordNext, PTL DEF Spec, RecordIsKept, Record!Spec
=============================================================================
