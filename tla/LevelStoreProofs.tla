-------------------------- MODULE LevelStoreProofs --------------------------
(* No file that is needed is deleted and no number is given out twice, and *)
(* the engine implements KeyStore, for any number of writes, flushes,      *)
(* compactions, faults, kills and losses of power.                         *)
EXTENDS LevelStore, TLAPS

\* A record is a batch that is not empty, and a log counts its synced records.
Record == [seq : Nat \ {0}, batch : Seq(Writes)]
LogFile == [records : Seq(Record), synced : Nat, torn : BOOLEAN]
Manifest ==
    [tables : SUBSET Nat, log : Nat, next : Nat, last : Nat, end : {"whole", "torn", "lost"}]

\* The entries of log n, and the record of the group at work.
InLog(n) == LogEntries(logs[n], Len(logs[n].records))
GroupRecord == [seq |-> last_sequence + 1, batch |-> group]

-----------------------------------------------------------------------------
(* The inductive invariant. *)

\* The types of the variables.
DiskTypes ==
    /\ DOMAIN logs \subseteq Nat /\ logs \in [DOMAIN logs -> LogFile]
    /\ \A n \in DOMAIN logs : logs[n].synced <= Len(logs[n].records)
    /\ DOMAIN tables \subseteq Nat /\ tables \in [DOMAIN tables -> SUBSET Entry]
    /\ manifest \in Manifest

NumberTypes ==
    /\ next_file_number \in Nat /\ last_sequence \in Nat
    /\ log_number \in Nat /\ logfile_number_ \in Nat

MemTypes ==
    /\ state \in {"down", "replaying", "opening", "up"} /\ replay \subseteq DOMAIN logs
    /\ mem \subseteq Entry /\ imm \subseteq Entry
    /\ current \subseteq Nat /\ pending_outputs_ \subseteq Nat

WriteTypes ==
    /\ writers_ \in Seq(Writes) /\ group \in Seq(Writes)
    /\ stage \in {"front", "wait", "append", "sync", "insert", "failed", "unsynced"}
    /\ answer \in [Writes -> {"none", "asked", "ok", "failed", "lost"}]

WorkTypes ==
    /\ flush \in Nat \cup {NoFlush}
    /\ compact \in CompactionState \cup {NoCompaction}
    /\ edit \in EditRecord \cup {NoEdit}

FlagTypes == bg_error_ \in BOOLEAN /\ bg_compaction_scheduled_ \in BOOLEAN

Types == DiskTypes /\ NumberTypes /\ MemTypes /\ WriteTypes /\ WorkTypes /\ FlagTypes

\* The queue holds each writer once, exactly the ones without an answer, and
\* the group is the front of it.  A sync writer makes its group a synced one.
Queue ==
    /\ \A i, j \in 1 .. Len(writers_) : writers_[i] = writers_[j] => i = j
    /\ \A i \in 1 .. Len(writers_) : answer[writers_[i]] = "asked"
    /\ Len(group) <= Len(writers_)
    /\ \A i \in 1 .. Len(group) : group[i] = writers_[i]
    /\ group = <<>> <=> stage \in {"front", "wait"}
    /\ \A i \in 1 .. Len(group) : group[i] \in sync => group[1] \in sync
    /\ state # "up" => writers_ = <<>> /\ \A w \in Writes : answer[w] # "asked"

\* What is at work in which state of the process.
Control ==
    /\ state # "up" =>
          /\ mem = {} /\ imm = {} /\ pending_outputs_ = {} /\ ~bg_error_
          /\ flush = NoFlush /\ compact = NoCompaction /\ reader = NoReader
    /\ state = "down" => edit = NoEdit /\ current = {}
    /\ state \in {"replaying", "opening"} =>
          edit # NoEdit /\ edit.by = "open" /\ edit.deleted = {}
    /\ state = "replaying" => ~edit.logged
    /\ state # "replaying" => replay = {}
    /\ state = "up" /\ edit # NoEdit =>
          \/ edit.by = "flush" /\ flush # NoFlush /\ edit.deleted = {}
          \/ /\ edit.by = "compact" /\ flush = NoFlush /\ compact # NoCompaction
             /\ compact.written /\ edit.deleted = compact.inputs

\* The files of every version in use are there, and without an error the
\* manifest says what the version in memory does.
Files ==
    /\ manifest.tables \cup current \subseteq DOMAIN tables
    /\ reader # NoReader => reader \subseteq DOMAIN tables
    /\ compact # NoCompaction =>
          /\ compact.inputs \subseteq compact.version /\ compact.inputs \subseteq current
          /\ compact.version \subseteq DOMAIN tables
          /\ compact.output # 0 => compact.output \in pending_outputs_
          /\ compact.written => compact.output \in DOMAIN tables /\ compact.output # 0
    /\ edit # NoEdit => edit.added \subseteq DOMAIN tables
    /\ state = "up" /\ edit # NoEdit =>
          edit.added = IF edit.by = "flush" THEN {flush} ELSE {compact.output}
    /\ state # "down" /\ ~bg_error_ =>
          manifest.tables = IF edit # NoEdit /\ edit.logged
                            THEN (current \ edit.deleted) \cup edit.added
                            ELSE current
    /\ state = "up" /\ ~bg_error_ => manifest.end = "whole"
    /\ state = "opening" /\ edit.logged => manifest.end = "whole"

\* The numbers of files: those in use are below next_file_number, those in the
\* manifest below the manifest's; the outputs of the background thread are new.
Numbers ==
    /\ \A n \in manifest.tables : n < manifest.next
    /\ manifest.log < manifest.next
    /\ state # "down" => manifest.next <= next_file_number
    /\ state # "down" => \A n \in DOMAIN logs : n \in replay \/ n < next_file_number
    /\ state = "replaying" => \A n \in edit.added : n < next_file_number
    /\ state \notin {"down", "replaying"} /\ edit # NoEdit =>
          /\ manifest.next <= edit.next /\ edit.next <= next_file_number
          /\ edit.log < edit.next /\ edit.log <= logfile_number_
          /\ \A n \in edit.added : n < edit.next
    /\ state \in {"opening", "up"} =>
          /\ logfile_number_ \in DOMAIN logs
          /\ \A n \in DOMAIN logs : n <= logfile_number_
    /\ state = "up" =>
          /\ \A n \in DOMAIN tables : n < next_file_number
          /\ log_number <= logfile_number_
    /\ flush # NoFlush =>
          /\ flush < next_file_number
          /\ edit = NoEdit => flush \notin DOMAIN tables
          /\ compact # NoCompaction => flush # compact.output
    /\ compact # NoCompaction /\ compact.output # 0 =>
          /\ compact.output < next_file_number
          /\ ~compact.written => compact.output \notin DOMAIN tables

\* Sequence numbers: whatever is stored has been counted.
Sequences ==
    /\ \A n \in manifest.tables : \A e \in tables[n] : e[1] <= manifest.last
    /\ state # "down" => manifest.last <= last_sequence
    /\ state = "replaying" => \A n \in edit.added : \A e \in tables[n] : e[1] <= last_sequence
    /\ state \notin {"down", "replaying"} /\ edit # NoEdit =>
          /\ manifest.last <= edit.last /\ edit.last <= last_sequence
          /\ \A n \in edit.added : \A e \in tables[n] : e[1] <= edit.last
    /\ state = "up" =>
          /\ \A n \in DOMAIN tables : \A e \in tables[n] : e[1] <= last_sequence
          /\ \A e \in mem \cup imm : e[1] <= last_sequence

BaseInv == Types /\ Queue /\ Control /\ Files /\ Numbers /\ Sequences

-----------------------------------------------------------------------------
(* Facts about the operators. *)

\* Its type.
LEMMA WithTyped ==
    ASSUME NEW f, NEW x, NEW T, NEW v \in T, f \in [DOMAIN f -> T]
    PROVE  With(f, x, v) \in [DOMAIN With(f, x, v) -> T]
BY DEF With

\* Entries of a record are pairs of a positive number and a write.
LEMMA EntriesTyped == ASSUME NEW r \in Record PROVE EntriesOf(r) \subseteq Entry
<1>1. r.seq \in Nat \ {0} /\ r.batch \in Seq(Writes)
  BY DEF Record
<1>2. ASSUME NEW i \in DOMAIN r.batch PROVE <<r.seq + i - 1, r.batch[i]>> \in Entry
  <2>1. i \in Nat /\ i >= 1 /\ r.batch[i] \in Writes
    BY <1>1
  <2> QED
    BY <1>1, <2>1 DEF Entry
<1> QED
  BY <1>2 DEF EntriesOf

\* So are the entries of a log.
LEMMA LogEntriesTyped ==
    ASSUME NEW log \in LogFile, NEW n \in Nat, n <= Len(log.records)
    PROVE  LogEntries(log, n) \subseteq Entry
<1>1. log.records \in Seq(Record)
  BY DEF LogFile
<1>2. ASSUME NEW i \in 1 .. n PROVE EntriesOf(log.records[i]) \subseteq Entry
  <2>1. log.records[i] \in Record
    BY <1>1
  <2> QED
    BY <2>1, EntriesTyped
<1> QED
  BY <1>2 DEF LogEntries

\* The empty log.
LEMMA EmptyLogFacts ==
    /\ EmptyLog \in LogFile /\ EmptyLog.records = <<>> /\ EmptyLog.synced = 0
    /\ EmptyLog.synced <= Len(EmptyLog.records)
BY DEF EmptyLog, LogFile

\* The record that AddRecord appends.
LEMMA GroupRecordTyped ==
    ASSUME Types
    PROVE  GroupRecord \in Record /\ EntriesOf(GroupRecord) \subseteq Entry
<1>1. last_sequence + 1 \in Nat \ {0} /\ group \in Seq(Writes)
  BY DEF Types, NumberTypes, WriteTypes
<1>2. GroupRecord \in Record
  BY <1>1 DEF GroupRecord, Record
<1> QED
  BY <1>2, EntriesTyped

-----------------------------------------------------------------------------
(* The types. *)

\* What the edit and the compaction at work are.
LEMMA WorkFacts ==
    ASSUME Types
    PROVE  /\ edit # NoEdit =>
                 /\ edit \in EditRecord /\ edit.added \subseteq Nat /\ edit.deleted \subseteq Nat
                 /\ edit.log \in Nat /\ edit.next \in Nat /\ edit.last \in Nat
                 /\ edit.logged \in BOOLEAN
           /\ compact # NoCompaction =>
                 /\ compact \in CompactionState /\ compact.inputs \subseteq Nat
                 /\ compact.version \subseteq Nat /\ compact.output \in Nat
                 /\ compact.written \in BOOLEAN
           /\ manifest.tables \subseteq Nat /\ manifest.log \in Nat /\ manifest.next \in Nat
           /\ manifest.last \in Nat /\ manifest.end \in {"whole", "torn", "lost"}
BY DEF Types, WorkTypes, DiskTypes, EditRecord, CompactionState, Manifest

\* Writers leave the queue with an answer that they may have.
LEMMA DismissTyped ==
    ASSUME WriteTypes, NEW n \in Nat, n <= Len(writers_),
           NEW status \in {"none", "asked", "ok", "failed", "lost"}, Dismiss(n, status)
    PROVE  /\ writers_' \in Seq(Writes)
           /\ answer' \in [Writes -> {"none", "asked", "ok", "failed", "lost"}]
<1>1. writers_' = SubSeq(writers_, n + 1, Len(writers_)) /\ writers_ \in Seq(Writes)
  BY DEF Dismiss, WriteTypes
<1>2. writers_' \in Seq(Writes)
  BY <1>1
<1> QED
  BY <1>2 DEF Dismiss, WriteTypes

\* The logs after AddRecord: only a torn log may be without the new record.
LEMMA AddRecordLogs ==
    ASSUME Types, logfile_number_ \in DOMAIN logs, NEW ok \in BOOLEAN, AddRecord(ok)
    PROVE  /\ DOMAIN logs' = DOMAIN logs
           /\ \A n \in DOMAIN logs : n # logfile_number_ => logs'[n] = logs[n]
           /\ \/ logs'[logfile_number_].records = logs[logfile_number_].records
              \/ logs'[logfile_number_].records =
                    Append(logs[logfile_number_].records, GroupRecord)
           /\ logs'[logfile_number_].torn \/
                logs'[logfile_number_].records =
                    Append(logs[logfile_number_].records, GroupRecord)
           /\ ok => logs'[logfile_number_].torn = logs[logfile_number_].torn
           /\ ~ok => logs'[logfile_number_].torn
           /\ logs'[logfile_number_].synced = logs[logfile_number_].synced
           /\ logs' \in [DOMAIN logs' -> LogFile]
           /\ \A n \in DOMAIN logs' : logs'[n].synced <= Len(logs'[n].records)
<1> DEFINE k == logfile_number_
           new == Append(logs[k].records, GroupRecord)
<1>1. logs \in [DOMAIN logs -> LogFile] /\ \A n \in DOMAIN logs : logs[n].synced <= Len(logs[n].records)
  BY DEF Types, DiskTypes
<1>2. logs[k].records \in Seq(Record) /\ logs[k].synced \in Nat /\ logs[k] \in LogFile
      /\ logs[k].torn \in BOOLEAN /\ GroupRecord \in Record
  BY <1>1, GroupRecordTyped DEF LogFile
<1>3. new \in Seq(Record) /\ Len(new) = Len(logs[k].records) + 1 /\ Len(logs[k].records) \in Nat
  BY <1>2
<1>4. PICK found \in {logs[k].records, new} :
         /\ ok => logs' = [logs EXCEPT ![k].records = found] /\ (~logs[k].torn => found = new)
         /\ ~ok => logs' = [logs EXCEPT ![k] = [@ EXCEPT !.records = found, !.torn = TRUE]]
  <2>1. CASE ok
    <3>1. PICK found \in IF logs[k].torn THEN {logs[k].records, new} ELSE {new} :
             logs' = [logs EXCEPT ![k].records = found]
      BY <2>1 DEF AddRecord, GroupRecord
    <3> QED
      BY <2>1, <3>1
  <2>2. CASE ~ok
    <3>1. PICK found \in {logs[k].records, new} :
             logs' = [logs EXCEPT ![k] = [@ EXCEPT !.records = found, !.torn = TRUE]]
      BY <2>2 DEF AddRecord, GroupRecord
    <3> QED
      BY <2>2, <3>1
  <2> QED
    BY <2>1, <2>2
<1>5. found \in Seq(Record) /\ Len(logs[k].records) <= Len(found)
  BY <1>2, <1>3, <1>4
<1>6. PICK t \in BOOLEAN :
         /\ logs' = [logs EXCEPT ![k] = [logs[k] EXCEPT !.records = found, !.torn = t]]
         /\ t = IF ok THEN logs[k].torn ELSE TRUE
  <2>1. CASE ok
    <3>1. [logs[k] EXCEPT !.records = found] = [logs[k] EXCEPT !.records = found, !.torn = logs[k].torn]
      BY <1>2 DEF LogFile
    <3>2. logs' = [logs EXCEPT ![k] = [logs[k] EXCEPT !.records = found]]
      BY <2>1, <1>4
    <3> QED
      BY <1>2, <2>1, <3>1, <3>2
  <2>2. CASE ~ok
    BY <2>2, <1>4
  <2> QED
    BY <2>1, <2>2
<1>7. DOMAIN logs' = DOMAIN logs /\ (\A n \in DOMAIN logs : n # k => logs'[n] = logs[n])
      /\ logs'[k] = [logs[k] EXCEPT !.records = found, !.torn = t]
  BY <1>1, <1>6
<1>8. logs'[k].records = found /\ logs'[k].synced = logs[k].synced /\ logs'[k].torn = t
      /\ logs'[k] \in LogFile
  BY <1>2, <1>5, <1>7 DEF LogFile
<1>9. ASSUME NEW n \in DOMAIN logs'
      PROVE  logs'[n] \in LogFile /\ logs'[n].synced <= Len(logs'[n].records)
  <2>1. CASE n = k
    <3>1. logs[k].synced <= Len(logs[k].records) /\ Len(found) \in Nat
      BY <1>1, <1>5
    <3> QED
      BY <2>1, <3>1, <1>2, <1>3, <1>5, <1>8
  <2>2. CASE n # k
    BY <2>2, <1>1, <1>7
  <2> QED
    BY <2>1, <2>2
<1>10. logs' \in [DOMAIN logs' -> LogFile]
  BY <1>1, <1>6, <1>9
<1>11. t \/ found = new
  <2>1. CASE ok
    BY <2>1, <1>4, <1>6
  <2>2. CASE ~ok
    BY <2>2, <1>6
  <2> QED
    BY <2>1, <2>2
<1>12. (ok => logs'[k].torn = logs[k].torn) /\ (~ok => logs'[k].torn)
  BY <1>6, <1>8
<1>13. (found = logs[k].records \/ found = new) /\ (logs'[k].torn \/ found = new)
  BY <1>4, <1>8, <1>11
<1> QED
  BY <1>7, <1>8, <1>9, <1>10, <1>12, <1>13

\* The log of the memtable after it was synced.
LEMMA SyncLogs ==
    ASSUME Types, logfile_number_ \in DOMAIN logs,
           logs' = [logs EXCEPT ![logfile_number_].synced = Len(logs[logfile_number_].records)]
    PROVE  /\ DOMAIN logs' = DOMAIN logs
           /\ \A n \in DOMAIN logs : logs'[n].records = logs[n].records
           /\ \A n \in DOMAIN logs : n # logfile_number_ => logs'[n] = logs[n]
           /\ logs'[logfile_number_].synced = Len(logs[logfile_number_].records)
           /\ logs' \in [DOMAIN logs' -> LogFile]
           /\ \A n \in DOMAIN logs' : logs'[n].synced <= Len(logs'[n].records)
           /\ \A n \in DOMAIN logs' : logs[n].synced <= logs'[n].synced
           /\ \A n \in DOMAIN logs : logs'[n].torn = logs[n].torn
<1> DEFINE k == logfile_number_
<1>1. logs \in [DOMAIN logs -> LogFile] /\ \A n \in DOMAIN logs : logs[n].synced <= Len(logs[n].records)
  BY DEF Types, DiskTypes
<1>2. DOMAIN logs' = DOMAIN logs /\ (\A n \in DOMAIN logs : n # k => logs'[n] = logs[n])
      /\ logs'[k] = [logs[k] EXCEPT !.synced = Len(logs[k].records)]
  BY <1>1
<1>3. logs[k].records \in Seq(Record) /\ Len(logs[k].records) \in Nat /\ logs[k] \in LogFile
      /\ logs[k].synced \in Nat
  BY <1>1 DEF LogFile
<1>4. logs'[k].records = logs[k].records /\ logs'[k].synced = Len(logs[k].records)
      /\ logs'[k] \in LogFile /\ logs'[k].torn = logs[k].torn
  BY <1>2, <1>3 DEF LogFile
<1>5. ASSUME NEW n \in DOMAIN logs'
      PROVE  /\ logs'[n] \in LogFile /\ logs'[n].synced <= Len(logs'[n].records)
             /\ logs[n].synced <= logs'[n].synced /\ logs'[n].records = logs[n].records
             /\ logs'[n].torn = logs[n].torn
  <2>1. CASE n = k
    BY <2>1, <1>1, <1>2, <1>3, <1>4
  <2>2. CASE n # k
    <3>1. logs'[n] = logs[n] /\ logs[n] \in LogFile /\ logs[n].synced \in Nat
      BY <2>2, <1>1, <1>2 DEF LogFile
    <3> QED
      BY <3>1, <1>1, <1>2
  <2> QED
    BY <2>1, <2>2
<1>6. logs' \in [DOMAIN logs' -> LogFile]
  BY <1>1, <1>2, <1>5
<1> QED
  BY <1>2, <1>4, <1>5, <1>6

\* The logs once a new one was created.
LEMMA NewLogFile ==
    ASSUME DiskTypes, NEW k, logs' = With(logs, k, EmptyLog)
    PROVE  /\ DOMAIN logs' = DOMAIN logs \cup {k} /\ logs' \in [DOMAIN logs' -> LogFile]
           /\ logs'[k] = EmptyLog
           /\ \A n \in DOMAIN logs : n # k => logs'[n] = logs[n]
<1>1. logs \in [DOMAIN logs -> LogFile] /\ EmptyLog \in LogFile
  BY EmptyLogFacts DEF DiskTypes
<1>2. With(logs, k, EmptyLog) \in [DOMAIN With(logs, k, EmptyLog) -> LogFile]
  BY <1>1, WithTyped
<1>3. /\ DOMAIN With(logs, k, EmptyLog) = DOMAIN logs \cup {k}
      /\ With(logs, k, EmptyLog)[k] = EmptyLog
      /\ \A n \in DOMAIN logs : n # k => With(logs, k, EmptyLog)[n] = logs[n]
  BY DEF With
<1> QED
  BY <1>2, <1>3, Zenon

\* Tables of the types they have: what a set of tables holds.
LEMMA TableEntriesTyped ==
    ASSUME Types, NEW S, S \subseteq DOMAIN tables
    PROVE  TableEntries(S) \subseteq Entry
BY DEF Types, DiskTypes, TableEntries

-----------------------------------------------------------------------------
(* Steps of the writers. *)

\* The parts of the invariant that do not depend on the queue.
NoQueueInv ==
    /\ DiskTypes /\ NumberTypes /\ MemTypes /\ WorkTypes
    /\ Control /\ Files /\ Numbers /\ Sequences

\* A step that leaves files, numbers and memtables alone.
LEMMA QuietFrame ==
    ASSUME BaseInv,
           UNCHANGED <<diskVars, openVars, numberVars, mem, imm, current, pending_outputs_,
                       bg_error_, flush, compact, edit, reader>>
    PROVE  NoQueueInv'
<1> USE DEF diskVars, openVars, numberVars
<1>1. DiskTypes' /\ NumberTypes' /\ MemTypes' /\ WorkTypes'
  BY DEF BaseInv, Types, DiskTypes, NumberTypes, MemTypes, WorkTypes
<1>2. Control'
  BY DEF BaseInv, Control
<1>3. Files'
  BY DEF BaseInv, Files
<1>4. Numbers'
  BY DEF BaseInv, Numbers
<1>5. Sequences'
  BY DEF BaseInv, Sequences
<1> QED
  BY <1>1, <1>2, <1>3, <1>4, <1>5 DEF NoQueueInv

\* A step of the background thread leaves the queue alone, but may wake up the
\* writer at its front.
LEMMA QueueFrame ==
    ASSUME BaseInv, UNCHANGED <<writers_, group, answer, sync, state>>,
           stage' = stage \/ SignalAll
    PROVE  WriteTypes' /\ Queue'
<1>1. WriteTypes /\ Queue
  BY DEF BaseInv, Types
<1>2. stage' = stage \/ (stage = "wait" /\ stage' = "front")
  BY DEF SignalAll
<1>3. WriteTypes'
  BY <1>1, <1>2 DEF WriteTypes
<1>4. Queue'
  BY <1>1, <1>2 DEF Queue
<1> QED
  BY <1>3, <1>4

\* A write is asked for.
LEMMA BaseEnqueue == ASSUME BaseInv, NEW w \in Writes, Enqueue(w) PROVE BaseInv'
<1>1. WriteTypes /\ Queue /\ FlagTypes
  BY DEF BaseInv, Types
<1>2. NoQueueInv' /\ FlagTypes'
  BY <1>1, QuietFrame DEF Enqueue, FlagTypes, bgVars
<1>3. /\ writers_ \in Seq(Writes) /\ Len(writers_) \in Nat /\ group \in Seq(Writes)
      /\ writers_' = Append(writers_, w) /\ answer[w] = "none"
      /\ answer' = [answer EXCEPT ![w] = "asked"] /\ sync' = sync \cup ({w} \cap SyncWrites)
      /\ UNCHANGED <<stage, group, state>> /\ state = "up"
      /\ answer \in [Writes -> {"none", "asked", "ok", "failed", "lost"}]
  BY <1>1 DEF Enqueue, WriteTypes, openVars
<1>4. /\ writers_' \in Seq(Writes) /\ Len(writers_') = Len(writers_) + 1
      /\ \A i \in 1 .. Len(writers_) : writers_'[i] = writers_[i]
      /\ writers_'[Len(writers_) + 1] = w
  BY <1>3
<1>5. WriteTypes'
  BY <1>1, <1>3, <1>4 DEF WriteTypes
<1>6. \A i \in 1 .. Len(writers_) : writers_[i] # w /\ answer'[writers_[i]] = "asked"
  <2>1. \A i \in 1 .. Len(writers_) : writers_[i] \in Writes
    BY <1>3
  <2> QED
    BY <1>1, <1>3, <2>1 DEF Queue
<1>7. \A i, j \in 1 .. Len(writers_') : writers_'[i] = writers_'[j] => i = j
  BY <1>1, <1>3, <1>4, <1>6 DEF Queue
<1>8. ASSUME NEW i \in 1 .. Len(writers_') PROVE answer'[writers_'[i]] = "asked"
  <2>1. CASE i \in 1 .. Len(writers_)
    BY <2>1, <1>4, <1>6
  <2>2. CASE i = Len(writers_) + 1
    BY <2>2, <1>3, <1>4
  <2> QED
    BY <1>3, <1>4, <2>1, <2>2
<1>9. Len(group) \in Nat /\ Len(group) <= Len(writers_)
      /\ \A i \in 1 .. Len(group) : i \in 1 .. Len(writers_) /\ group[i] = writers_[i]
  BY <1>1, <1>3 DEF Queue
<1>10. ASSUME NEW i \in 1 .. Len(group), group[i] \in sync' PROVE group[1] \in sync'
  <2>1. group[i] # w
    BY <1>6, <1>9
  <2> QED
    BY <1>1, <1>3, <1>10, <2>1 DEF Queue
<1>11. Queue'
  <2>1. Len(group') <= Len(writers_') /\ \A i \in 1 .. Len(group') : group'[i] = writers_'[i]
    BY <1>3, <1>4, <1>9
  <2>2. \A i \in 1 .. Len(group') : group'[i] \in sync' => group'[1] \in sync'
    BY <1>3, <1>10
  <2>3. group' = <<>> <=> stage' \in {"front", "wait"}
    BY <1>1, <1>3 DEF Queue
  <2> QED
    BY <1>3, <1>7, <1>8, <2>1, <2>2, <2>3 DEF Queue
<1> QED
  BY <1>2, <1>5, <1>11 DEF NoQueueInv, BaseInv, Types

\* The first n writers leave: who is left is still asked for, once.
LEMMA DismissQueue ==
    ASSUME WriteTypes, Queue, NEW n \in Nat, n <= Len(writers_), state = "up",
           NEW status \in {"ok", "failed"}, Dismiss(n, status),
           group' = <<>>, stage' = "front", UNCHANGED <<sync, state>>
    PROVE  WriteTypes' /\ Queue'
<1>1. /\ writers_' = SubSeq(writers_, n + 1, Len(writers_)) /\ writers_ \in Seq(Writes)
      /\ Len(writers_) \in Nat
      /\ answer' = [w \in Writes |-> IF w \in FirstWriters(n) THEN status ELSE answer[w]]
  BY DEF Dismiss, WriteTypes
<1>2. /\ Len(writers_') = Len(writers_) - n
      /\ \A i \in 1 .. Len(writers_') : writers_'[i] = writers_[n + i]
  BY <1>1
<1>3. WriteTypes'
  BY DismissTyped DEF WriteTypes
<1>4. ASSUME NEW i \in 1 .. Len(writers_')
      PROVE  /\ n + i \in 1 .. Len(writers_) /\ writers_[n + i] \in Writes
             /\ writers_[n + i] \notin FirstWriters(n)
  <2>1. n + i \in 1 .. Len(writers_) /\ n + i \notin 1 .. n
    BY <1>1, <1>2
  <2>2. writers_[n + i] \in Writes
    BY <1>1, <2>1
  <2>3. ASSUME NEW j \in 1 .. n PROVE writers_[j] # writers_[n + i]
    BY <1>1, <2>1 DEF Queue
  <2> QED
    BY <2>1, <2>2, <2>3 DEF FirstWriters
<1>5. ASSUME NEW i \in 1 .. Len(writers_') PROVE answer'[writers_'[i]] = "asked"
  <2>1. writers_'[i] = writers_[n + i] /\ answer[writers_[n + i]] = "asked"
    BY <1>2, <1>4 DEF Queue
  <2> QED
    BY <1>1, <1>4, <2>1
<1>6. \A i, j \in 1 .. Len(writers_') : writers_'[i] = writers_'[j] => i = j
  <2> SUFFICES ASSUME NEW i \in 1 .. Len(writers_'), NEW j \in 1 .. Len(writers_'),
                      writers_'[i] = writers_'[j]
               PROVE  i = j
    OBVIOUS
  <2>1. n + i = n + j
    BY <1>2, <1>4 DEF Queue
  <2> QED
    BY <1>1, <1>2, <2>1
<1>7. Len(group') = 0 /\ Len(writers_') \in Nat /\ 1 .. Len(group') = {}
  BY <1>3 DEF WriteTypes
<1>8. Queue'
  BY <1>5, <1>6, <1>7 DEF Queue
<1> QED
  BY <1>3, <1>8

\* The front writer is rejected.
LEMMA BaseRejectWrite == ASSUME BaseInv, RejectWrite PROVE BaseInv'
<1>1. WriteTypes /\ Queue /\ FlagTypes
  BY DEF BaseInv, Types
<1>2. NoQueueInv' /\ FlagTypes'
  BY <1>1, QuietFrame DEF RejectWrite, FlagTypes, bgVars
<1>3. 1 <= Len(writers_) /\ state = "up" /\ Dismiss(1, "failed") /\ group = <<>>
      /\ group' = <<>> /\ stage' = "front" /\ UNCHANGED <<sync, state>>
  BY <1>1 DEF RejectWrite, AtFront, WriteTypes, Queue, openVars, histVars
<1>4. WriteTypes' /\ Queue'
  BY <1>1, <1>3, DismissQueue
<1> QED
  BY <1>2, <1>4 DEF NoQueueInv, BaseInv, Types

\* The front writer waits for a flush.
LEMMA BaseWaitForFlush == ASSUME BaseInv, WaitForFlush PROVE BaseInv'
<1>1. WriteTypes /\ Queue /\ FlagTypes
  BY DEF BaseInv, Types
<1>2. NoQueueInv' /\ FlagTypes'
  BY <1>1, QuietFrame DEF WaitForFlush, FlagTypes, bgVars
<1>3. stage = "front" /\ stage' = "wait" /\ UNCHANGED <<writers_, group, answer, sync, state>>
  BY DEF WaitForFlush, AtFront, openVars, histVars
<1>4. WriteTypes'
  BY <1>1, <1>3 DEF WriteTypes
<1>5. Queue'
  BY <1>1, <1>3 DEF Queue
<1> QED
  BY <1>2, <1>4, <1>5 DEF NoQueueInv, BaseInv, Types

\* The front writer takes a group.
LEMMA BaseBuildBatchGroup ==
    ASSUME BaseInv, NEW n \in 1 .. Len(writers_), BuildBatchGroup(n)
    PROVE  BaseInv'
<1>1. WriteTypes /\ Queue /\ FlagTypes
  BY DEF BaseInv, Types
<1>2. NoQueueInv' /\ FlagTypes'
  BY <1>1, QuietFrame DEF BuildBatchGroup, FlagTypes, bgVars
<1>3. /\ group' = SubSeq(writers_, 1, n) /\ stage' = "append" /\ state = "up"
      /\ UNCHANGED <<writers_, answer, sync, state>>
      /\ \A i \in 1 .. n : writers_[i] \in sync => writers_[1] \in sync
  BY DEF BuildBatchGroup, AtFront, GroupAllowed, openVars, histVars
<1>4. n \in Nat /\ n >= 1 /\ n <= Len(writers_) /\ writers_ \in Seq(Writes) /\ Len(writers_) \in Nat
  BY <1>1 DEF WriteTypes
<1>5. group' \in Seq(Writes) /\ Len(group') = n /\ \A i \in 1 .. n : group'[i] = writers_[i]
  BY <1>3, <1>4
<1>6. WriteTypes'
  BY <1>1, <1>3, <1>5 DEF WriteTypes
<1>7. group' # <<>>
  BY <1>4, <1>5
<1>8. \A i \in 1 .. Len(group') : group'[i] \in sync' => group'[1] \in sync'
  BY <1>3, <1>4, <1>5
<1>9. Queue'
  BY <1>1, <1>3, <1>4, <1>5, <1>7, <1>8 DEF Queue
<1> QED
  BY <1>2, <1>6, <1>9 DEF NoQueueInv, BaseInv, Types

\* A new log and a new memtable, or the write fails.
LEMMA BaseSwitchMemTable == ASSUME BaseInv, NEW ok \in BOOLEAN, SwitchMemTable(ok) PROVE BaseInv'
<1>1. WriteTypes /\ Queue /\ FlagTypes /\ DiskTypes /\ NumberTypes /\ MemTypes /\ WorkTypes
      /\ Control /\ Files /\ Numbers /\ Sequences
  BY DEF BaseInv, Types
<1>2. state = "up" /\ writers_ # <<>> /\ stage = "front" /\ imm = {}
      /\ UNCHANGED <<tables, manifest, openVars, last_sequence, log_number, current,
                     pending_outputs_, bg_error_, stage, group, flush, compact, edit,
                     reader, sync>>
  BY DEF SwitchMemTable, AtFront
<1>3. CASE ok
  <2>1. /\ logs' = With(logs, next_file_number, EmptyLog) /\ logfile_number_' = next_file_number
        /\ next_file_number' = next_file_number + 1 /\ imm' = mem /\ mem' = {}
        /\ bg_compaction_scheduled_' = TRUE /\ UNCHANGED <<writers_, answer>>
    BY <1>3 DEF SwitchMemTable
  <2>2. DOMAIN logs' = DOMAIN logs \cup {next_file_number} /\ logs' \in [DOMAIN logs' -> LogFile]
        /\ logs'[next_file_number] = EmptyLog
        /\ \A n \in DOMAIN logs : n # next_file_number => logs'[n] = logs[n]
    BY <1>1, <2>1, NewLogFile
  <2>3. DiskTypes'
    BY <1>1, <1>2, <2>2, EmptyLogFacts DEF DiskTypes, NumberTypes
  <2>4. NumberTypes' /\ WorkTypes' /\ FlagTypes' /\ MemTypes'
    BY <1>1, <1>2, <2>1, <2>2 DEF NumberTypes, WorkTypes, FlagTypes, MemTypes, openVars
  <2>5. Control'
    BY <1>1, <1>2 DEF Control, openVars
  <2>6. Files'
    BY <1>1, <1>2 DEF Files, openVars
  <2>7. Numbers'
    <3>1. \A n \in DOMAIN logs : n < next_file_number
      BY <1>1, <1>2 DEF Numbers, Control
    <3>2. logfile_number_ < next_file_number /\ log_number <= logfile_number_
      BY <1>1, <1>2, <3>1 DEF Numbers
    <3>3. DOMAIN logs' \subseteq Nat /\ DOMAIN tables \subseteq Nat /\ next_file_number \in Nat
          /\ log_number \in Nat /\ logfile_number_ \in Nat
      BY <1>1, <2>3 DEF DiskTypes, NumberTypes
    <3> QED
      BY <1>1, <1>2, <2>1, <2>2, <3>1, <3>2, <3>3, WorkFacts DEF Numbers, openVars, BaseInv, WorkTypes
  <2>8. Sequences'
    BY <1>1, <1>2, <2>1 DEF Sequences, openVars
  <2>9. WriteTypes' /\ Queue'
    BY <1>2, <2>1, QueueFrame DEF openVars
  <2> QED
    BY <2>3, <2>4, <2>5, <2>6, <2>7, <2>8, <2>9 DEF BaseInv, Types
<1>4. CASE ~ok
  <2>1. Dismiss(1, "failed") /\ UNCHANGED <<logs, logfile_number_, next_file_number, imm, mem,
                                            bg_compaction_scheduled_>>
    BY <1>4 DEF SwitchMemTable
  <2>2. NoQueueInv' /\ FlagTypes'
    BY <1>1, <1>2, <2>1, QuietFrame DEF FlagTypes, diskVars, numberVars
  <2>3. 1 <= Len(writers_) /\ group = <<>> /\ group' = <<>> /\ stage' = "front"
    BY <1>1, <1>2 DEF WriteTypes, Queue
  <2>4. WriteTypes' /\ Queue'
    BY <1>1, <1>2, <2>1, <2>3, DismissQueue DEF openVars
  <2> QED
    BY <2>2, <2>4 DEF NoQueueInv, BaseInv, Types
<1> QED
  BY <1>3, <1>4

\* The stage of the front writer after a step that keeps its group.
LEMMA StageQueue ==
    ASSUME WriteTypes, Queue, UNCHANGED <<writers_, group, answer, sync, state>>,
           stage \notin {"front", "wait"},
           stage' \in {"append", "sync", "insert", "failed", "unsynced"}
    PROVE  WriteTypes' /\ Queue'
BY DEF WriteTypes, Queue

\* A change of the records of logs does not disturb what is known of files.
LEMMA LogsFrame ==
    ASSUME BaseInv, DOMAIN logs' = DOMAIN logs, logs' \in [DOMAIN logs' -> LogFile],
           \A n \in DOMAIN logs' : logs'[n].synced <= Len(logs'[n].records),
           UNCHANGED <<tables, manifest, openVars, numberVars, mem, imm, current,
                       pending_outputs_, bg_error_, flush, compact, edit, reader>>
    PROVE  NoQueueInv'
<1> USE DEF openVars, numberVars
<1>1. DiskTypes'
  BY DEF BaseInv, Types, DiskTypes
<1>2. NumberTypes' /\ MemTypes' /\ WorkTypes'
  BY DEF BaseInv, Types, NumberTypes, MemTypes, WorkTypes
<1>3. Control'
  BY DEF BaseInv, Control
<1>4. Files'
  BY DEF BaseInv, Files
<1>5. Numbers'
  BY DEF BaseInv, Numbers
<1>6. Sequences'
  BY DEF BaseInv, Sequences
<1> QED
  BY <1>1, <1>2, <1>3, <1>4, <1>5, <1>6 DEF NoQueueInv

\* The record of the group is appended to the log, or not.
LEMMA BaseAddRecord == ASSUME BaseInv, NEW ok \in BOOLEAN, AddRecord(ok) PROVE BaseInv'
<1>1. WriteTypes /\ Queue /\ FlagTypes /\ Types /\ Numbers
  BY DEF BaseInv, Types
<1>2. state = "up" /\ stage = "append"
      /\ UNCHANGED <<tables, manifest, openVars, numberVars, mem, imm, current,
                     pending_outputs_, bg_error_, flush, compact, edit, reader>>
      /\ UNCHANGED <<writers_, group, answer, sync, state, bg_compaction_scheduled_>>
  BY DEF AddRecord, bgVars, openVars
<1>3. stage' \in {"append", "sync", "insert", "failed", "unsynced"}
  BY DEF AddRecord
<1>4. WriteTypes' /\ Queue'
  BY <1>1, <1>2, <1>3, StageQueue
<1>5. NoQueueInv'
  <2>1. logfile_number_ \in DOMAIN logs
    BY <1>1, <1>2 DEF Numbers
  <2> QED
    BY <1>1, <1>2, <2>1, AddRecordLogs, LogsFrame
<1>6. FlagTypes'
  BY <1>1, <1>2 DEF FlagTypes
<1> QED
  BY <1>4, <1>5, <1>6 DEF NoQueueInv, BaseInv, Types

\* The log is synced, or not.
LEMMA BaseSyncLog == ASSUME BaseInv, NEW ok \in BOOLEAN, SyncLog(ok) PROVE BaseInv'
<1>1. WriteTypes /\ Queue /\ FlagTypes /\ Types /\ Numbers
  BY DEF BaseInv, Types
<1>2. state = "up" /\ stage = "sync"
      /\ UNCHANGED <<tables, manifest, openVars, numberVars, mem, imm, current,
                     pending_outputs_, bg_error_, flush, compact, edit, reader>>
      /\ UNCHANGED <<writers_, group, answer, sync, state, bg_compaction_scheduled_>>
  BY DEF SyncLog, bgVars, openVars
<1>3. stage' \in {"append", "sync", "insert", "failed", "unsynced"}
  BY DEF SyncLog
<1>4. WriteTypes' /\ Queue'
  BY <1>1, <1>2, <1>3, StageQueue
<1>5. NoQueueInv'
  <2>1. CASE ok
    <3>1. logs' = [logs EXCEPT ![logfile_number_].synced = Len(logs[logfile_number_].records)]
      BY <2>1 DEF SyncLog
    <3>2. logfile_number_ \in DOMAIN logs
      BY <1>1, <1>2 DEF Numbers
    <3> QED
      BY <1>1, <1>2, <3>1, <3>2, SyncLogs, LogsFrame
  <2>2. CASE ~ok
    BY <1>2, <2>2, QuietFrame DEF SyncLog, diskVars
  <2> QED
    BY <2>1, <2>2
<1>6. FlagTypes'
  BY <1>1, <1>2 DEF FlagTypes
<1> QED
  BY <1>4, <1>5, <1>6 DEF NoQueueInv, BaseInv, Types

\* The entries of the group have sequence numbers that are counted next.
LEMMA GroupNumbers ==
    ASSUME Types
    PROVE  /\ Len(group) \in Nat
           /\ \A e \in EntriesOf(GroupRecord) :
                 e[1] \in Nat /\ last_sequence < e[1] /\ e[1] <= last_sequence + Len(group)
<1>1. last_sequence \in Nat /\ group \in Seq(Writes) /\ Len(group) \in Nat
      /\ DOMAIN group = 1 .. Len(group)
  BY DEF Types, NumberTypes, WriteTypes
<1>2. ASSUME NEW e \in EntriesOf(GroupRecord)
      PROVE  e[1] \in Nat /\ last_sequence < e[1] /\ e[1] <= last_sequence + Len(group)
  <2>1. PICK i \in 1 .. Len(group) : e = <<last_sequence + 1 + i - 1, group[i]>>
    BY <1>1 DEF EntriesOf, GroupRecord
  <2>2. e[1] = last_sequence + i
    BY <1>1, <2>1
  <2> QED
    BY <1>1, <2>1, <2>2
<1> QED
  BY <1>1, <1>2

\* The group is inserted and answered.
LEMMA BaseFinishWrite == ASSUME BaseInv, FinishWrite PROVE BaseInv'
<1>1. WriteTypes /\ Queue /\ FlagTypes /\ Types /\ DiskTypes /\ NumberTypes /\ MemTypes /\ WorkTypes
      /\ Control /\ Files /\ Numbers /\ Sequences
  BY DEF BaseInv, Types
<1>2. /\ state = "up" /\ stage \in {"insert", "failed", "unsynced"}
      /\ mem' = IF stage = "insert" THEN mem \cup EntriesOf(GroupRecord) ELSE mem
      /\ last_sequence' = last_sequence + Len(group)
      /\ bg_error_' = (bg_error_ \/ stage = "unsynced")
      /\ Dismiss(Len(group), IF stage = "insert" THEN "ok" ELSE "failed")
      /\ stage' = "front" /\ group' = <<>>
      /\ UNCHANGED <<diskVars, openVars, next_file_number, log_number, logfile_number_, imm,
                     current, pending_outputs_, bgVars, reader, sync, state>>
  BY DEF FinishWrite, GroupRecord, histVars, openVars
<1>3. WriteTypes' /\ Queue'
  <2>1. Len(group) \in Nat /\ Len(group) <= Len(writers_)
    BY <1>1, GroupNumbers DEF Queue
  <2>2. (IF stage = "insert" THEN "ok" ELSE "failed") \in {"ok", "failed"}
    OBVIOUS
  <2> QED
    BY <1>1, <1>2, <2>1, <2>2, DismissQueue
<1>4. DiskTypes' /\ WorkTypes'
  BY <1>1, <1>2 DEF DiskTypes, WorkTypes, diskVars, bgVars
<1>5. NumberTypes'
  BY <1>1, <1>2, GroupNumbers DEF NumberTypes
<1>6. MemTypes'
  BY <1>1, <1>2, GroupRecordTyped DEF MemTypes, openVars, diskVars
<1>7. FlagTypes'
  BY <1>1, <1>2 DEF FlagTypes, bgVars
<1>8. Control'
  BY <1>1, <1>2 DEF Control, openVars, bgVars
<1>9. Files'
  BY <1>1, <1>2 DEF Files, openVars, bgVars, diskVars, FlagTypes
<1>10. Numbers'
  BY <1>1, <1>2 DEF Numbers, openVars, bgVars, diskVars
<1>11. Sequences'
  <2>1. last_sequence \in Nat /\ last_sequence' \in Nat /\ last_sequence <= last_sequence'
    BY <1>1, <1>2, GroupNumbers DEF NumberTypes
  <2>2. \A e \in Entry : e[1] \in Nat
    BY DEF Entry
  <2>3. \A e \in mem' \cup imm' : e[1] <= last_sequence'
    BY <1>1, <1>2, <2>1, <2>2, GroupNumbers DEF Sequences, MemTypes
  <2>4. \A n \in DOMAIN tables : \A e \in tables[n] : e[1] <= last_sequence'
    BY <1>1, <1>2, <2>1, <2>2 DEF Sequences, DiskTypes
  <2>5. manifest.last \in Nat /\ (edit # NoEdit => edit.last \in Nat)
    BY <1>1, WorkFacts
  <2> QED
    BY <1>1, <1>2, <2>1, <2>3, <2>4, <2>5 DEF Sequences, openVars, bgVars, diskVars
<1> QED
  BY <1>3, <1>4, <1>5, <1>6, <1>7, <1>8, <1>9, <1>10, <1>11 DEF BaseInv, Types

-----------------------------------------------------------------------------
(* Steps of the background thread. *)

\* The tables once a new one was written.
LEMMA NewTable ==
    ASSUME DiskTypes, NEW k \in Nat, NEW E \in SUBSET Entry, tables' = With(tables, k, E)
    PROVE  /\ DOMAIN tables' = DOMAIN tables \cup {k} /\ DOMAIN tables' \subseteq Nat
           /\ tables' \in [DOMAIN tables' -> SUBSET Entry]
           /\ tables'[k] = E
           /\ \A n \in DOMAIN tables : n # k => tables'[n] = tables[n]
<1>1. tables \in [DOMAIN tables -> SUBSET Entry] /\ DOMAIN tables \subseteq Nat
  BY DEF DiskTypes
<1>2. With(tables, k, E) \in [DOMAIN With(tables, k, E) -> SUBSET Entry]
  BY <1>1, WithTyped
<1>3. /\ DOMAIN With(tables, k, E) = DOMAIN tables \cup {k}
      /\ With(tables, k, E)[k] = E
      /\ \A n \in DOMAIN tables : n # k => With(tables, k, E)[n] = tables[n]
  BY DEF With
<1>4. DOMAIN tables \cup {k} \subseteq Nat
  BY <1>1
<1> QED
  BY <1>2, <1>3, <1>4, Zenon

\* The background thread leaves queue and logs alone here.
LEMMA NextNumberPositive ==
    ASSUME BaseInv, state = "up"
    PROVE  /\ next_file_number \in Nat /\ next_file_number # 0
           /\ logfile_number_ < next_file_number
           /\ \A n \in DOMAIN logs : n < next_file_number
<1>1. DiskTypes /\ NumberTypes /\ Numbers /\ Control
  BY DEF BaseInv, Types
<1>2. \A n \in DOMAIN logs : n < next_file_number
  BY <1>1 DEF Numbers, Control
<1> QED
  BY <1>1, <1>2 DEF Numbers, NumberTypes

\* A flush takes a new number.
LEMMA BaseStartFlush == ASSUME BaseInv, StartFlush PROVE BaseInv'
<1>1. FlagTypes /\ Types /\ DiskTypes /\ NumberTypes /\ MemTypes /\ WorkTypes
      /\ Control /\ Files /\ Numbers /\ Sequences
  BY DEF BaseInv, Types
<1>2. /\ state = "up" /\ flush = NoFlush /\ edit = NoEdit /\ flush' = next_file_number
      /\ next_file_number' = next_file_number + 1
      /\ pending_outputs_' = pending_outputs_ \cup {next_file_number}
      /\ UNCHANGED <<diskVars, openVars, last_sequence, log_number, logfile_number_, mem, imm,
                     current, bg_error_, writeVars, bg_compaction_scheduled_, compact, edit,
                     reader, answer, sync>>
  BY DEF StartFlush, histVars
<1>3. WriteTypes' /\ Queue'
  BY <1>2, QueueFrame DEF writeVars, openVars
<1>4. DiskTypes' /\ NumberTypes' /\ MemTypes' /\ WorkTypes' /\ FlagTypes'
  BY <1>1, <1>2 DEF DiskTypes, NumberTypes, MemTypes, WorkTypes, FlagTypes, diskVars, openVars
<1>5. Control'
  BY <1>1, <1>2 DEF Control, openVars
<1>6. Files'
  BY <1>1, <1>2 DEF Files, openVars, diskVars
<1>7. Numbers'
  <2>1. next_file_number \in Nat /\ next_file_number # 0
    BY <1>2, NextNumberPositive
  <2>2. DOMAIN logs \subseteq Nat /\ DOMAIN tables \subseteq Nat /\ manifest.next \in Nat
        /\ (compact # NoCompaction => compact.output \in Nat)
    BY <1>1, WorkFacts DEF DiskTypes
  <2>3. next_file_number \notin DOMAIN tables
        /\ (compact # NoCompaction => compact.output # next_file_number)
    BY <1>1, <1>2, <2>1, <2>2 DEF Numbers
  <2> QED
    BY <1>1, <1>2, <2>1, <2>2, <2>3 DEF Numbers, openVars, diskVars
<1>8. Sequences'
  BY <1>1, <1>2 DEF Sequences, openVars, diskVars
<1> QED
  BY <1>3, <1>4, <1>5, <1>6, <1>7, <1>8 DEF BaseInv, Types

\* Nothing is done after an error.
LEMMA BaseGiveUp == ASSUME BaseInv, GiveUp PROVE BaseInv'
<1>1. WriteTypes' /\ Queue'
  BY QueueFrame DEF GiveUp, openVars, histVars
<1>2. NoQueueInv'
  BY QuietFrame DEF GiveUp
<1>3. FlagTypes'
  BY DEF GiveUp, FlagTypes, BaseInv, Types
<1> QED
  BY <1>1, <1>2, <1>3 DEF NoQueueInv, BaseInv, Types

\* The table of the flush is written, or the flush fails.
LEMMA BaseBuildTable == ASSUME BaseInv, NEW ok \in BOOLEAN, BuildTable(ok) PROVE BaseInv'
<1>1. FlagTypes /\ Types /\ DiskTypes /\ NumberTypes /\ MemTypes /\ WorkTypes
      /\ Control /\ Files /\ Numbers /\ Sequences
  BY DEF BaseInv, Types
<1>2. /\ state = "up" /\ flush # NoFlush /\ edit = NoEdit
      /\ pending_outputs_' = pending_outputs_ \ {flush}
      /\ UNCHANGED <<logs, manifest, openVars, numberVars, mem, imm, current, writers_, group,
                     compact, reader, answer, sync>>
  BY DEF BuildTable
<1>3. WriteTypes' /\ Queue'
  BY <1>2, QueueFrame DEF BuildTable, openVars
<1>4. flush \in Nat /\ flush < next_file_number /\ flush \notin DOMAIN tables
      /\ (compact # NoCompaction => flush # compact.output)
      /\ (compact # NoCompaction => compact.output \in Nat)
  BY <1>1, <1>2, WorkFacts DEF WorkTypes, Numbers
<1>5. NumberTypes' /\ MemTypes'
  BY <1>1, <1>2 DEF NumberTypes, MemTypes, numberVars, openVars
<1>6. CASE ok
  <2>1. /\ tables' = With(tables, flush, imm)
        /\ edit' = VersionEdit("flush", {flush}, {}, logfile_number_, next_file_number, last_sequence)
        /\ UNCHANGED <<flush, bg_error_, bg_compaction_scheduled_, stage>>
    BY <1>6 DEF BuildTable, FlushLogNumber
  <2>2. /\ DOMAIN tables' = DOMAIN tables \cup {flush} /\ DOMAIN tables' \subseteq Nat
        /\ tables' \in [DOMAIN tables' -> SUBSET Entry] /\ tables'[flush] = imm
        /\ \A n \in DOMAIN tables : tables'[n] = tables[n]
    BY <1>1, <1>4, <2>1, NewTable DEF MemTypes
  <2>3. /\ edit' \in EditRecord /\ edit' # NoEdit /\ edit'.by = "flush" /\ edit'.added = {flush}
        /\ edit'.deleted = {} /\ edit'.log = logfile_number_ /\ edit'.next = next_file_number
        /\ edit'.last = last_sequence /\ edit'.logged = FALSE
    <3>1. {flush} \in SUBSET Nat /\ logfile_number_ \in Nat /\ next_file_number \in Nat
          /\ last_sequence \in Nat
      BY <1>1, <1>4 DEF NumberTypes
    <3>2. edit' = [by |-> "flush", added |-> {flush}, deleted |-> {}, log |-> logfile_number_,
                   next |-> next_file_number, last |-> last_sequence, logged |-> FALSE]
      BY <2>1 DEF VersionEdit
    <3>3. edit' \in EditRecord
      BY <3>1, <3>2 DEF EditRecord
    <3> QED
      BY <3>2, <3>3, StoreAssumption
  <2>4. DiskTypes'
    BY <1>1, <1>2, <2>2 DEF DiskTypes
  <2>5. WorkTypes' /\ FlagTypes'
    BY <1>1, <1>2, <2>1, <2>3 DEF WorkTypes, FlagTypes
  <2>6. Control'
    BY <1>1, <1>2, <2>1, <2>3 DEF Control, openVars
  <2>7. Files'
    BY <1>1, <1>2, <1>4, <2>1, <2>2, <2>3 DEF Files, openVars
  <2>8. Numbers'
    <3>1. manifest.next \in Nat /\ next_file_number \in Nat /\ logfile_number_ \in Nat
          /\ logfile_number_ < next_file_number
      BY <1>1, <1>2, WorkFacts, NextNumberPositive DEF NumberTypes
    <3>2. flush' = flush
      BY <2>1
    <3> QED
      BY <1>1, <1>2, <1>4, <2>2, <2>3, <3>1, <3>2 DEF Numbers, openVars, numberVars
  <2>9. Sequences'
    <3>1. flush \notin manifest.tables /\ manifest.tables \subseteq DOMAIN tables
      BY <1>1, <1>4 DEF Files
    <3>2. last_sequence \in Nat /\ manifest.last \in Nat
      BY <1>1, WorkFacts DEF NumberTypes
    <3> QED
      BY <1>1, <1>2, <2>2, <2>3, <3>1, <3>2 DEF Sequences, openVars, numberVars
  <2> QED
    BY <1>3, <1>5, <2>4, <2>5, <2>6, <2>7, <2>8, <2>9 DEF BaseInv, Types
<1>7. CASE ~ok
  <2>1. flush' = NoFlush /\ bg_error_' = TRUE /\ UNCHANGED <<tables, edit>>
        /\ bg_compaction_scheduled_' \in BOOLEAN
    BY <1>7 DEF BuildTable, EndBackgroundCall
  <2>2. DiskTypes' /\ WorkTypes' /\ FlagTypes'
    BY <1>1, <1>2, <2>1 DEF DiskTypes, WorkTypes, FlagTypes
  <2>3. Control'
    BY <1>1, <1>2, <2>1 DEF Control, openVars
  <2>4. Files'
    BY <1>1, <1>2, <1>4, <2>1 DEF Files, openVars
  <2>5. Numbers'
    BY <1>1, <1>2, <2>1 DEF Numbers, openVars, numberVars
  <2>6. Sequences'
    BY <1>1, <1>2, <2>1 DEF Sequences, openVars, numberVars
  <2> QED
    BY <1>3, <1>5, <2>2, <2>3, <2>4, <2>5, <2>6 DEF BaseInv, Types
<1> QED
  BY <1>6, <1>7

\* A compaction of some tables of the current version starts.
LEMMA BaseStartCompaction ==
    ASSUME BaseInv, NEW inputs \in SUBSET current, StartCompaction(inputs)
    PROVE  BaseInv'
<1>1. FlagTypes /\ Types /\ DiskTypes /\ NumberTypes /\ MemTypes /\ WorkTypes
      /\ Control /\ Files /\ Numbers /\ Sequences
  BY DEF BaseInv, Types
<1>2. /\ state = "up" /\ flush = NoFlush /\ compact = NoCompaction
      /\ compact' = [inputs |-> inputs, version |-> current, output |-> 0, written |-> FALSE]
      /\ bg_compaction_scheduled_' = TRUE
      /\ UNCHANGED <<diskVars, openVars, numberVars, mem, imm, current, pending_outputs_,
                     bg_error_, writeVars, flush, edit, reader, answer, sync>>
  BY DEF StartCompaction
<1>3. WriteTypes' /\ Queue'
  BY <1>2, QueueFrame DEF writeVars, openVars
<1>4. /\ compact' \in CompactionState /\ compact'.inputs = inputs /\ compact'.version = current
      /\ compact'.output = 0 /\ compact'.written = FALSE
  <2>1. inputs \in SUBSET Nat /\ current \in SUBSET Nat
    BY <1>1 DEF MemTypes
  <2> QED
    BY <1>2, <2>1 DEF CompactionState
<1>5. DiskTypes' /\ NumberTypes' /\ MemTypes' /\ WorkTypes' /\ FlagTypes'
  BY <1>1, <1>2, <1>4
  DEF DiskTypes, NumberTypes, MemTypes, WorkTypes, FlagTypes, diskVars, openVars, numberVars
<1>6. edit = NoEdit \/ edit.by # "compact"
  BY <1>1, <1>2 DEF Control
<1>7. Control'
  BY <1>1, <1>2, <1>6 DEF Control, openVars
<1>8. Files'
  BY <1>1, <1>2, <1>4, <1>6 DEF Files, Control, openVars, diskVars
<1>9. Numbers'
  BY <1>1, <1>2, <1>4 DEF Numbers, openVars, diskVars, numberVars
<1>10. Sequences'
  BY <1>1, <1>2 DEF Sequences, openVars, diskVars, numberVars
<1> QED
  BY <1>3, <1>5, <1>7, <1>8, <1>9, <1>10 DEF BaseInv, Types

\* The compaction takes a number for its output.
LEMMA BaseOpenCompactionOutputFile ==
    ASSUME BaseInv, OpenCompactionOutputFile
    PROVE  BaseInv'
<1>1. FlagTypes /\ Types /\ DiskTypes /\ NumberTypes /\ MemTypes /\ WorkTypes
      /\ Control /\ Files /\ Numbers /\ Sequences
  BY DEF BaseInv, Types
<1>2. /\ state = "up" /\ flush = NoFlush /\ edit = NoEdit /\ compact # NoCompaction
      /\ compact.output = 0
      /\ compact' = [compact EXCEPT !.output = next_file_number]
      /\ pending_outputs_' = pending_outputs_ \cup {next_file_number}
      /\ next_file_number' = next_file_number + 1
      /\ UNCHANGED <<diskVars, openVars, last_sequence, log_number, logfile_number_, mem, imm,
                     current, bg_error_, writeVars, bg_compaction_scheduled_, flush, edit,
                     reader, answer, sync>>
  BY DEF OpenCompactionOutputFile, AtWork, histVars
<1>3. WriteTypes' /\ Queue'
  BY <1>2, QueueFrame DEF writeVars, openVars
<1>4. next_file_number \in Nat /\ next_file_number # 0
  BY <1>2, NextNumberPositive
<1>5. /\ compact' \in CompactionState /\ compact'.inputs = compact.inputs
      /\ compact'.version = compact.version /\ compact'.output = next_file_number
      /\ compact'.written = compact.written /\ compact' # NoCompaction
  <2>1. compact \in CompactionState
    BY <1>1, <1>2 DEF WorkTypes
  <2>2. compact' \in CompactionState
    BY <1>2, <1>4, <2>1 DEF CompactionState
  <2> QED
    BY <1>2, <2>1, <2>2, StoreAssumption DEF CompactionState
<1>6. ~compact.written
  BY <1>1, <1>2 DEF Files
<1>7. DiskTypes' /\ NumberTypes' /\ MemTypes' /\ WorkTypes' /\ FlagTypes'
  BY <1>1, <1>2, <1>4, <1>5
  DEF DiskTypes, NumberTypes, MemTypes, WorkTypes, FlagTypes, diskVars, openVars
<1>8. Control'
  BY <1>1, <1>2, <1>5 DEF Control, openVars
<1>9. Files'
  BY <1>1, <1>2, <1>5, <1>6 DEF Files, openVars, diskVars
<1>10. Numbers'
  <2>1. DOMAIN logs \subseteq Nat /\ DOMAIN tables \subseteq Nat /\ manifest.next \in Nat
    BY <1>1, WorkFacts DEF DiskTypes
  <2>2. next_file_number \notin DOMAIN tables
    BY <1>1, <1>2, <1>4, <2>1 DEF Numbers
  <2> QED
    BY <1>1, <1>2, <1>4, <1>5, <2>1, <2>2 DEF Numbers, openVars, diskVars
<1>11. Sequences'
  BY <1>1, <1>2 DEF Sequences, openVars, diskVars
<1> QED
  BY <1>3, <1>7, <1>8, <1>9, <1>10, <1>11 DEF BaseInv, Types

\* The output of the compaction is written.
LEMMA BaseFinishCompactionOutputFile ==
    ASSUME BaseInv, FinishCompactionOutputFile
    PROVE  BaseInv'
<1>1. FlagTypes /\ Types /\ DiskTypes /\ NumberTypes /\ MemTypes /\ WorkTypes
      /\ Control /\ Files /\ Numbers /\ Sequences
  BY DEF BaseInv, Types
<1>2. /\ state = "up" /\ flush = NoFlush /\ edit = NoEdit /\ compact # NoCompaction
      /\ compact.output # 0 /\ ~compact.written
      /\ compact' = [compact EXCEPT !.written = TRUE]
      /\ UNCHANGED <<logs, manifest, openVars, numberVars, mem, imm, current, pending_outputs_,
                     bg_error_, writeVars, bg_compaction_scheduled_, flush, edit, reader, answer,
                     sync>>
  BY DEF FinishCompactionOutputFile, AtWork, histVars
<1>3. WriteTypes' /\ Queue'
  BY <1>2, QueueFrame DEF writeVars, openVars
<1>4. /\ compact' \in CompactionState /\ compact'.inputs = compact.inputs
      /\ compact'.version = compact.version /\ compact'.output = compact.output
      /\ compact'.written = TRUE /\ compact' # NoCompaction
  <2>1. compact \in CompactionState
    BY <1>1, <1>2 DEF WorkTypes
  <2>2. compact' \in CompactionState
    BY <1>2, <2>1 DEF CompactionState
  <2> QED
    BY <1>2, <2>1, <2>2, StoreAssumption DEF CompactionState
<1>5. compact.output \in Nat /\ compact.output \notin DOMAIN tables
      /\ compact.output < next_file_number /\ compact.inputs \subseteq DOMAIN tables
  BY <1>1, <1>2, WorkFacts DEF Numbers, Files
<1>6. TableEntries(compact.inputs) \in SUBSET Entry
  BY <1>1, <1>5, TableEntriesTyped
<1>7. /\ DOMAIN tables' = DOMAIN tables \cup {compact.output} /\ DOMAIN tables' \subseteq Nat
      /\ tables' \in [DOMAIN tables' -> SUBSET Entry]
      /\ tables'[compact.output] = TableEntries(compact.inputs)
      /\ \A n \in DOMAIN tables : tables'[n] = tables[n]
  BY <1>1, <1>5, <1>6, NewTable DEF FinishCompactionOutputFile
<1>8. DiskTypes'
  BY <1>1, <1>2, <1>7 DEF DiskTypes
<1>9. NumberTypes' /\ MemTypes' /\ WorkTypes' /\ FlagTypes'
  BY <1>1, <1>2, <1>4 DEF NumberTypes, MemTypes, WorkTypes, FlagTypes, numberVars, openVars
<1>10. Control'
  BY <1>1, <1>2, <1>4 DEF Control, openVars
<1>11. Files'
  BY <1>1, <1>2, <1>4, <1>5, <1>7 DEF Files, openVars
<1>12. Numbers'
  BY <1>1, <1>2, <1>4, <1>5, <1>7 DEF Numbers, openVars, numberVars
<1>13. Sequences'
  <2>1. \A e \in TableEntries(compact.inputs) : e[1] <= last_sequence
    BY <1>1, <1>2, <1>5 DEF Sequences, TableEntries
  <2>2. manifest.tables \subseteq DOMAIN tables
    BY <1>1 DEF Files
  <2> QED
    BY <1>1, <1>2, <1>7, <2>1, <2>2 DEF Sequences, openVars, numberVars
<1> QED
  BY <1>3, <1>8, <1>9, <1>10, <1>11, <1>12, <1>13 DEF BaseInv, Types

\* The version edit of the compaction.
LEMMA BaseInstallCompactionResults ==
    ASSUME BaseInv, InstallCompactionResults
    PROVE  BaseInv'
<1>1. FlagTypes /\ Types /\ DiskTypes /\ NumberTypes /\ MemTypes /\ WorkTypes
      /\ Control /\ Files /\ Numbers /\ Sequences
  BY DEF BaseInv, Types
<1>2. /\ state = "up" /\ flush = NoFlush /\ edit = NoEdit /\ compact # NoCompaction
      /\ compact.written
      /\ edit' = VersionEdit("compact", {compact.output}, compact.inputs, log_number,
                             next_file_number, last_sequence)
      /\ UNCHANGED <<diskVars, openVars, numberVars, mem, imm, current, pending_outputs_,
                     bg_error_, writeVars, bg_compaction_scheduled_, flush, compact, reader,
                     answer, sync>>
  BY DEF InstallCompactionResults, AtWork, histVars
<1>3. WriteTypes' /\ Queue'
  BY <1>2, QueueFrame DEF writeVars, openVars
<1>4. compact.output \in Nat /\ compact.inputs \subseteq Nat /\ compact.output # 0
      /\ compact.output \in DOMAIN tables /\ compact.output < next_file_number
      /\ compact.inputs \subseteq DOMAIN tables
  BY <1>1, <1>2, WorkFacts DEF Numbers, Files
<1>5. /\ edit' \in EditRecord /\ edit' # NoEdit /\ edit'.by = "compact"
      /\ edit'.added = {compact.output} /\ edit'.deleted = compact.inputs
      /\ edit'.log = log_number /\ edit'.next = next_file_number
      /\ edit'.last = last_sequence /\ edit'.logged = FALSE
  <2>1. edit' = [by |-> "compact", added |-> {compact.output}, deleted |-> compact.inputs,
                 log |-> log_number, next |-> next_file_number, last |-> last_sequence,
                 logged |-> FALSE]
    BY <1>2 DEF VersionEdit
  <2>2. {compact.output} \in SUBSET Nat /\ compact.inputs \in SUBSET Nat /\ log_number \in Nat
        /\ next_file_number \in Nat /\ last_sequence \in Nat
    BY <1>1, <1>4 DEF NumberTypes
  <2>3. edit' \in EditRecord
    BY <2>1, <2>2 DEF EditRecord
  <2> QED
    BY <2>1, <2>3, StoreAssumption
<1>6. DiskTypes' /\ NumberTypes' /\ MemTypes' /\ WorkTypes' /\ FlagTypes'
  BY <1>1, <1>2, <1>5
  DEF DiskTypes, NumberTypes, MemTypes, WorkTypes, FlagTypes, diskVars, openVars, numberVars
<1>7. Control'
  BY <1>1, <1>2, <1>5 DEF Control, openVars
<1>8. Files'
  BY <1>1, <1>2, <1>4, <1>5 DEF Files, openVars, diskVars
<1>9. Numbers'
  <2>1. manifest.next \in Nat /\ next_file_number \in Nat /\ logfile_number_ \in Nat
        /\ log_number \in Nat /\ logfile_number_ < next_file_number
    BY <1>1, <1>2, WorkFacts, NextNumberPositive DEF NumberTypes
  <2> QED
    BY <1>1, <1>2, <1>4, <1>5, <2>1, SMTT(30) DEF Numbers, openVars, numberVars, diskVars
<1>10. Sequences'
  <2>1. \A e \in tables[compact.output] : e[1] <= last_sequence
    BY <1>1, <1>2, <1>4 DEF Sequences
  <2>2. last_sequence \in Nat /\ manifest.last \in Nat
    BY <1>1, WorkFacts DEF NumberTypes
  <2>3. UNCHANGED <<tables, manifest, state, last_sequence, mem, imm>>
    BY <1>2 DEF openVars, numberVars, diskVars
  <2>5. manifest.last <= last_sequence
    BY <1>1, <1>2 DEF Sequences
  <2>6. edit'.last = last_sequence /\ edit'.added = {compact.output}
    BY <1>5
  <2>4. /\ manifest'.last <= edit'.last /\ edit'.last <= last_sequence'
        /\ \A n \in edit'.added : \A e \in tables'[n] : e[1] <= edit'.last
    BY <2>1, <2>2, <2>3, <2>5, <2>6
  <2> QED
    BY <1>1, <1>2, <2>3, <2>4 DEF Sequences
<1> QED
  BY <1>3, <1>6, <1>7, <1>8, <1>9, <1>10 DEF BaseInv, Types

\* The compaction ends with an error.
LEMMA BaseAbortCompaction == ASSUME BaseInv, AbortCompaction PROVE BaseInv'
<1>1. FlagTypes /\ Types /\ DiskTypes /\ NumberTypes /\ MemTypes /\ WorkTypes
      /\ Control /\ Files /\ Numbers /\ Sequences
  BY DEF BaseInv, Types
<1>2. /\ state = "up" /\ flush = NoFlush /\ edit = NoEdit
      /\ bg_error_' = TRUE /\ compact' = NoCompaction
      /\ pending_outputs_' \subseteq pending_outputs_
      /\ bg_compaction_scheduled_' \in BOOLEAN
      /\ UNCHANGED <<diskVars, openVars, numberVars, mem, imm, current, writers_, group, flush,
                     edit, reader, answer, sync>>
  BY DEF AbortCompaction, AtWork, FailCompaction, EndBackgroundCall
<1>3. WriteTypes' /\ Queue'
  BY <1>2, QueueFrame DEF AbortCompaction, openVars
<1>4. DiskTypes' /\ NumberTypes' /\ MemTypes' /\ WorkTypes' /\ FlagTypes'
  BY <1>1, <1>2
  DEF DiskTypes, NumberTypes, MemTypes, WorkTypes, FlagTypes, diskVars, openVars, numberVars
<1>5. Control'
  BY <1>1, <1>2 DEF Control, openVars
<1>6. Files'
  BY <1>1, <1>2 DEF Files, openVars, diskVars
<1>7. Numbers'
  BY <1>1, <1>2 DEF Numbers, openVars, numberVars, diskVars
<1>8. Sequences'
  BY <1>1, <1>2 DEF Sequences, openVars, numberVars, diskVars
<1> QED
  BY <1>3, <1>4, <1>5, <1>6, <1>7, <1>8 DEF BaseInv, Types

-----------------------------------------------------------------------------
(* The manifest and the versions. *)

\* What the manifest adds up to after the step: the edit is in it, or not.
EditApplied ==
    /\ manifest'.tables = (manifest.tables \ edit.deleted) \cup edit.added
    /\ manifest'.log = edit.log /\ manifest'.next = edit.next /\ manifest'.last = edit.last
EditLost ==
    /\ manifest'.tables = manifest.tables
    /\ manifest'.log = manifest.log /\ manifest'.next = manifest.next
    /\ manifest'.last = manifest.last

\* The manifest with the edit.
LEMMA AppliedFacts ==
    ASSUME Types, edit # NoEdit, NEW m, m = Applied(manifest, edit)
    PROVE  /\ m \in Manifest
           /\ m.tables = (manifest.tables \ edit.deleted) \cup edit.added
           /\ m.log = edit.log /\ m.next = edit.next /\ m.last = edit.last
           /\ m.end = IF edit.by = "open" THEN "whole" ELSE manifest.end
<1>1. /\ edit.added \subseteq Nat /\ edit.deleted \subseteq Nat /\ edit.log \in Nat
      /\ edit.next \in Nat /\ edit.last \in Nat /\ manifest.tables \subseteq Nat
      /\ manifest.end \in {"whole", "torn", "lost"}
  BY WorkFacts
<1>2. m = [tables |-> (manifest.tables \ edit.deleted) \cup edit.added, log |-> edit.log,
           next |-> edit.next, last |-> edit.last,
           end |-> IF edit.by = "open" THEN "whole" ELSE manifest.end]
  BY DEF Applied
<1> QED
  BY <1>1, <1>2 DEF Manifest

\* A manifest that differs in its end.
LEMMA EndFacts ==
    ASSUME NEW m \in Manifest, NEW end \in {"whole", "torn", "lost"}
    PROVE  /\ [m EXCEPT !.end = end] \in Manifest
           /\ [m EXCEPT !.end = end].tables = m.tables /\ [m EXCEPT !.end = end].log = m.log
           /\ [m EXCEPT !.end = end].next = m.next /\ [m EXCEPT !.end = end].last = m.last
           /\ [m EXCEPT !.end = end].end = end
BY DEF Manifest

\* What LogEdit does to the manifest.
LEMMA LogEditCases ==
    ASSUME BaseInv, LogEdit
    PROVE  /\ manifest' \in Manifest
           /\ \/ /\ EditApplied /\ (manifest.end # "lost" \/ edit.by = "open")
                 /\ manifest'.end = IF edit.by = "open" THEN "whole" ELSE manifest.end
              \/ /\ EditLost /\ manifest'.end = "lost" /\ manifest.end # "whole"
                 /\ edit.by # "open"
<1>1. Types /\ manifest \in Manifest
  BY DEF BaseInv, Types, DiskTypes
<1>2. CASE (manifest.end # "lost" \/ edit.by = "open") /\ manifest' = Applied(manifest, edit)
  BY <1>1, <1>2, AppliedFacts DEF EditApplied, LogEdit
<1>3. CASE /\ manifest.end # "whole" /\ edit.by # "open"
           /\ manifest' = [manifest EXCEPT !.end = "lost"]
  BY <1>1, <1>3, EndFacts DEF EditLost
<1> QED
  BY <1>2, <1>3 DEF LogEdit

\* What a failed one does.
LEMMA LogEditFailsCases ==
    ASSUME BaseInv, LogEditFails
    PROVE  /\ manifest' \in Manifest
           /\ EditApplied \/ EditLost
           /\ manifest'.end # "lost" => manifest.end # "lost"
           /\ EditLost \/ manifest.end # "lost"
<1>1. Types /\ manifest \in Manifest
  BY DEF BaseInv, Types, DiskTypes
<1>2. CASE /\ manifest.end # "lost"
           /\ \E m \in {manifest, Applied(manifest, edit)} : manifest' = [m EXCEPT !.end = "torn"]
  <2>1. PICK m \in {manifest, Applied(manifest, edit)} : manifest' = [m EXCEPT !.end = "torn"]
    BY <1>2
  <2>2. CASE m = manifest
    <3>1. manifest' = [manifest EXCEPT !.end = "torn"]
      BY <2>1, <2>2
    <3> QED
      BY <1>1, <1>2, <3>1, EndFacts DEF EditLost
  <2>3. CASE m = Applied(manifest, edit)
    <3>1. m \in Manifest
          /\ m.tables = (manifest.tables \ edit.deleted) \cup edit.added
          /\ m.log = edit.log /\ m.next = edit.next /\ m.last = edit.last
      BY <1>1, <2>3, AppliedFacts DEF LogEditFails
    <3>2. manifest' \in Manifest /\ manifest'.tables = m.tables /\ manifest'.log = m.log
          /\ manifest'.next = m.next /\ manifest'.last = m.last
      BY <2>1, <3>1, EndFacts
    <3> QED
      BY <1>2, <3>1, <3>2 DEF EditApplied
  <2> QED
    BY <2>1, <2>2, <2>3
<1>3. CASE manifest.end # "whole" /\ manifest' = [manifest EXCEPT !.end = "lost"]
  BY <1>1, <1>3, EndFacts DEF EditLost
<1> QED
  BY <1>2, <1>3 DEF LogEditFails

\* What holds of the manifest after it: its tables are there, and their
\* numbers and sequence numbers have been counted.
LEMMA AppliedInv ==
    ASSUME BaseInv, state \notin {"down", "replaying"}, edit # NoEdit,
           EditApplied, UNCHANGED <<tables, next_file_number, last_sequence>>
    PROVE  /\ manifest'.tables \subseteq DOMAIN tables
           /\ \A n \in manifest'.tables : n < manifest'.next
           /\ manifest'.log < manifest'.next /\ manifest'.next <= next_file_number
           /\ \A n \in manifest'.tables : \A e \in tables[n] : e[1] <= manifest'.last
           /\ manifest'.last <= last_sequence
<1>1. Types /\ Files /\ Numbers /\ Sequences
  BY DEF BaseInv
<1>2. /\ edit.added \subseteq Nat /\ edit.deleted \subseteq Nat /\ edit.log \in Nat
      /\ edit.next \in Nat /\ edit.last \in Nat /\ manifest.tables \subseteq Nat
      /\ manifest.next \in Nat /\ manifest.last \in Nat
  BY <1>1, WorkFacts
<1>3. /\ manifest'.tables = (manifest.tables \ edit.deleted) \cup edit.added
      /\ manifest'.log = edit.log /\ manifest'.next = edit.next /\ manifest'.last = edit.last
  BY DEF EditApplied
<1>4. manifest.next <= edit.next /\ edit.next <= next_file_number /\ edit.log < edit.next
      /\ (\A n \in edit.added : n < edit.next) /\ (\A n \in manifest.tables : n < manifest.next)
  BY <1>1 DEF Numbers
<1>5. manifest.last <= edit.last /\ edit.last <= last_sequence
      /\ (\A n \in edit.added : \A e \in tables[n] : e[1] <= edit.last)
      /\ (\A n \in manifest.tables : \A e \in tables[n] : e[1] <= manifest.last)
  BY <1>1 DEF Sequences
<1>6. manifest.tables \subseteq DOMAIN tables /\ edit.added \subseteq DOMAIN tables
  BY <1>1 DEF Files
<1>7. \A n \in manifest.tables : \A e \in tables[n] : e[1] \in Nat
  BY <1>1, <1>6 DEF Types, DiskTypes, Entry
<1>8. \A n \in manifest'.tables : n < manifest'.next
  BY <1>2, <1>3, <1>4
<1>9. \A n \in manifest'.tables : \A e \in tables[n] : e[1] <= manifest'.last
  BY <1>2, <1>3, <1>5, <1>7
<1> QED
  BY <1>3, <1>4, <1>5, <1>6, <1>8, <1>9

\* The edit is in the manifest.
LEMMA BaseLogEdit == ASSUME BaseInv, LogEdit PROVE BaseInv'
<1>1. FlagTypes /\ Types /\ DiskTypes /\ NumberTypes /\ MemTypes /\ WorkTypes
      /\ Control /\ Files /\ Numbers /\ Sequences
  BY DEF BaseInv, Types
<1>2. /\ edit # NoEdit /\ ~edit.logged /\ state \notin {"down", "replaying"}
      /\ edit' = [edit EXCEPT !.logged = TRUE]
      /\ UNCHANGED <<logs, tables, openVars, numberVars, mem, imm, current, pending_outputs_,
                     bg_error_, writeVars, bg_compaction_scheduled_, flush, compact, reader,
                     answer, sync>>
  BY <1>1 DEF LogEdit, Control, histVars
<1>3. WriteTypes' /\ Queue'
  BY <1>2, QueueFrame DEF writeVars, openVars
<1>4. /\ edit' \in EditRecord /\ edit' # NoEdit /\ edit'.by = edit.by /\ edit'.added = edit.added
      /\ edit'.deleted = edit.deleted /\ edit'.log = edit.log /\ edit'.next = edit.next
      /\ edit'.last = edit.last /\ edit'.logged = TRUE
  <2>1. edit \in EditRecord
    BY <1>1, <1>2 DEF WorkTypes
  <2>2. edit' \in EditRecord
    BY <1>2, <2>1 DEF EditRecord
  <2> QED
    BY <1>2, <2>1, <2>2, StoreAssumption DEF EditRecord
<1>5. /\ manifest' \in Manifest
      /\ \/ /\ EditApplied
            /\ manifest'.end = IF edit.by = "open" THEN "whole" ELSE manifest.end
         \/ EditLost /\ manifest.end # "whole" /\ edit.by # "open"
  BY LogEditCases
<1>6. /\ manifest'.tables \subseteq DOMAIN tables
      /\ \A n \in manifest'.tables : n < manifest'.next
      /\ manifest'.log < manifest'.next /\ manifest'.next <= next_file_number
      /\ \A n \in manifest'.tables : \A e \in tables[n] : e[1] <= manifest'.last
      /\ manifest'.last <= last_sequence
  <2>1. UNCHANGED <<tables, next_file_number, last_sequence>>
    BY <1>2 DEF numberVars
  <2>2. CASE EditApplied
    BY <1>2, <2>1, <2>2, AppliedInv
  <2>3. CASE EditLost
    BY <1>1, <1>2, <2>3 DEF EditLost, Files, Numbers, Sequences
  <2> QED
    BY <1>5, <2>2, <2>3
<1>7. DiskTypes' /\ NumberTypes' /\ MemTypes' /\ WorkTypes' /\ FlagTypes'
  BY <1>1, <1>2, <1>4, <1>5
  DEF DiskTypes, NumberTypes, MemTypes, WorkTypes, FlagTypes, openVars, numberVars
<1>8. Control'
  BY <1>1, <1>2, <1>4 DEF Control, openVars
<1>9. Files'
  <2>1. state = "opening" => edit.by = "open"
    BY <1>1 DEF Control
  <2>2. state \in {"opening", "up"}
    BY <1>1, <1>2 DEF MemTypes
  <2>3. state = "up" /\ edit.by = "open" => FALSE
    BY <1>1, <1>2 DEF Control
  <2>4. ~bg_error_ =>
           /\ manifest'.tables = (current \ edit.deleted) \cup edit.added
           /\ manifest'.end = "whole"
    <3>1. CASE EditApplied /\ manifest'.end = IF edit.by = "open" THEN "whole" ELSE manifest.end
      BY <1>1, <1>2, <2>1, <2>2, <3>1 DEF Files, EditApplied
    <3>2. CASE EditLost /\ manifest.end # "whole" /\ edit.by # "open"
      BY <1>1, <2>1, <2>2, <3>2 DEF Files
    <3> QED
      BY <1>5, <3>1, <3>2
  <2>5. state = "opening" => ~bg_error_
    BY <1>1 DEF Control
  <2> QED
    BY <1>1, <1>2, <1>4, <1>6, <2>2, <2>4, <2>5 DEF Files, openVars
<1>10. Numbers'
  <2>1. edit.next \in Nat /\ manifest.next <= edit.next
    BY <1>1, <1>2, WorkFacts DEF Numbers
  <2>2. manifest'.next <= edit'.next
    BY <1>4, <1>5, <2>1 DEF EditApplied, EditLost
  <2> QED
    BY <1>1, <1>2, <1>4, <1>6, <2>2 DEF Numbers, openVars, numberVars
<1>11. Sequences'
  <2>1. edit.last \in Nat /\ manifest.last <= edit.last
    BY <1>1, <1>2, WorkFacts DEF Sequences
  <2>2. manifest'.last <= edit'.last
    BY <1>4, <1>5, <2>1 DEF EditApplied, EditLost
  <2>3. state \notin {"down", "replaying"} /\ UNCHANGED <<tables, state, last_sequence, mem, imm>>
    BY <1>2 DEF openVars, numberVars
  <2> QED
    BY <1>1, <1>2, <1>4, <1>6, <2>2, <2>3 DEF Sequences
<1> QED
  BY <1>3, <1>7, <1>8, <1>9, <1>10, <1>11 DEF BaseInv, Types

\* The edit may or may not be in the manifest.
LEMMA BaseLogEditFails == ASSUME BaseInv, LogEditFails PROVE BaseInv'
<1>1. FlagTypes /\ Types /\ DiskTypes /\ NumberTypes /\ MemTypes /\ WorkTypes
      /\ Control /\ Files /\ Numbers /\ Sequences
  BY DEF BaseInv, Types
<1>2. /\ edit # NoEdit /\ edit.by # "open" /\ state = "up"
      /\ edit' = NoEdit
      /\ bg_error_' = TRUE /\ bg_compaction_scheduled_' \in BOOLEAN
      /\ flush' \in {flush, NoFlush}
      /\ \/ compact' = NoCompaction
         \/ compact' = compact /\ UNCHANGED pending_outputs_
      /\ pending_outputs_' \subseteq pending_outputs_
      /\ UNCHANGED <<logs, tables, openVars, numberVars, mem, imm, current, writers_, group,
                     reader, answer, sync>>
  BY <1>1 DEF LogEditFails, FailCompaction, EndBackgroundCall, Control, MemTypes
<1>3. WriteTypes' /\ Queue'
  BY <1>2, QueueFrame DEF LogEditFails, openVars
<1>4. flush' = NoFlush
  BY <1>1, <1>2 DEF Control, LogEditFails
<1>5. /\ manifest' \in Manifest /\ manifest'.tables \subseteq DOMAIN tables
      /\ \A n \in manifest'.tables : n < manifest'.next
      /\ manifest'.log < manifest'.next /\ manifest'.next <= next_file_number
      /\ \A n \in manifest'.tables : \A e \in tables[n] : e[1] <= manifest'.last
      /\ manifest'.last <= last_sequence
  <2>1. manifest' \in Manifest /\ (EditApplied \/ EditLost)
    BY LogEditFailsCases
  <2>2. CASE EditLost
    BY <1>1, <1>2, <2>1, <2>2 DEF EditLost, Files, Numbers, Sequences
  <2>3. CASE EditApplied
    <3>1. UNCHANGED <<tables, next_file_number, last_sequence>> /\ state \notin {"down", "replaying"}
      BY <1>2 DEF numberVars
    <3> QED
      BY <1>2, <2>1, <2>3, <3>1, AppliedInv
  <2> QED
    BY <2>1, <2>2, <2>3
<1>6. DiskTypes' /\ NumberTypes' /\ MemTypes' /\ WorkTypes' /\ FlagTypes'
  BY <1>1, <1>2, <1>4, <1>5
  DEF DiskTypes, NumberTypes, MemTypes, WorkTypes, FlagTypes, openVars, numberVars
<1>7. Control'
  BY <1>1, <1>2, <1>4 DEF Control, openVars
<1>8. Files'
  BY <1>1, <1>2, <1>5 DEF Files, openVars
<1>9. Numbers'
  BY <1>1, <1>2, <1>4, <1>5 DEF Numbers, openVars, numberVars
<1>10. Sequences'
  <2>1. state = "up" /\ UNCHANGED <<tables, state, last_sequence, mem, imm>>
    BY <1>2 DEF openVars, numberVars
  <2> QED
    BY <1>1, <1>2, <1>5, <2>1 DEF Sequences
<1> QED
  BY <1>3, <1>6, <1>7, <1>8, <1>9, <1>10 DEF BaseInv, Types

\* An iterator takes the current version.
LEMMA BaseNewIterator == ASSUME BaseInv, NewIterator PROVE BaseInv'
<1>1. FlagTypes /\ Types /\ DiskTypes /\ NumberTypes /\ MemTypes /\ WorkTypes
      /\ Control /\ Files /\ Numbers /\ Sequences
  BY DEF BaseInv, Types
<1>2. /\ state = "up" /\ reader' = current
      /\ UNCHANGED <<diskVars, openVars, numberVars, mem, imm, current, pending_outputs_,
                     bg_error_, writeVars, bgVars, answer, sync>>
  BY DEF NewIterator
<1>3. WriteTypes' /\ Queue'
  BY <1>2, QueueFrame DEF writeVars, openVars
<1>4. DiskTypes' /\ NumberTypes' /\ MemTypes' /\ WorkTypes' /\ FlagTypes'
  BY <1>1, <1>2
  DEF DiskTypes, NumberTypes, MemTypes, WorkTypes, FlagTypes, diskVars, openVars, numberVars, bgVars
<1>5. Control'
  BY <1>1, <1>2 DEF Control, openVars, bgVars
<1>6. Files'
  BY <1>1, <1>2 DEF Files, openVars, diskVars, bgVars
<1>7. Numbers'
  BY <1>1, <1>2 DEF Numbers, openVars, numberVars, diskVars, bgVars
<1>8. Sequences'
  BY <1>1, <1>2 DEF Sequences, openVars, numberVars, diskVars, bgVars
<1> QED
  BY <1>3, <1>4, <1>5, <1>6, <1>7, <1>8 DEF BaseInv, Types

\* An iterator lets its version go.
LEMMA BaseDeleteIterator == ASSUME BaseInv, DeleteIterator PROVE BaseInv'
<1>1. FlagTypes /\ Types /\ DiskTypes /\ NumberTypes /\ MemTypes /\ WorkTypes
      /\ Control /\ Files /\ Numbers /\ Sequences
  BY DEF BaseInv, Types
<1>2. /\ reader' = NoReader
      /\ UNCHANGED <<diskVars, openVars, numberVars, mem, imm, current, pending_outputs_,
                     bg_error_, writeVars, bgVars, answer, sync>>
  BY DEF DeleteIterator, histVars
<1>3. WriteTypes' /\ Queue'
  BY <1>2, QueueFrame DEF writeVars, openVars
<1>4. DiskTypes' /\ NumberTypes' /\ MemTypes' /\ WorkTypes' /\ FlagTypes'
  BY <1>1, <1>2
  DEF DiskTypes, NumberTypes, MemTypes, WorkTypes, FlagTypes, diskVars, openVars, numberVars, bgVars
<1>5. Control'
  BY <1>1, <1>2 DEF Control, openVars, bgVars
<1>6. Files'
  BY <1>1, <1>2 DEF Files, openVars, diskVars, bgVars
<1>7. Numbers'
  BY <1>1, <1>2 DEF Numbers, openVars, numberVars, diskVars, bgVars
<1>8. Sequences'
  BY <1>1, <1>2 DEF Sequences, openVars, numberVars, diskVars, bgVars
<1> QED
  BY <1>3, <1>4, <1>5, <1>6, <1>7, <1>8 DEF BaseInv, Types

\* What DeleteObsoleteFiles leaves.
LEMMA FilesLeft ==
    ASSUME Types, NEW pending, NEW c, DeleteObsoleteFiles(pending, c)
    PROVE  /\ DOMAIN logs' \subseteq DOMAIN logs /\ logs' \in [DOMAIN logs' -> LogFile]
           /\ \A n \in DOMAIN logs' : logs'[n] = logs[n]
           /\ \A n \in DOMAIN logs : n >= log_number' => n \in DOMAIN logs'
           /\ ~bg_error_ => \A n \in DOMAIN logs' : n >= log_number'
           /\ DOMAIN tables' \subseteq DOMAIN tables
           /\ tables' \in [DOMAIN tables' -> SUBSET Entry]
           /\ \A n \in DOMAIN tables' : tables'[n] = tables[n]
           /\ bg_error_ => tables' = tables
           /\ ~bg_error_ =>
                 \A n \in DOMAIN tables : n \in LiveTables(pending, current', c) => n \in DOMAIN tables'
<1>1. logs \in [DOMAIN logs -> LogFile] /\ tables \in [DOMAIN tables -> SUBSET Entry]
  BY DEF Types, DiskTypes
<1>2. CASE bg_error_
  BY <1>1, <1>2 DEF DeleteObsoleteFiles
<1>3. CASE ~bg_error_
  <2> DEFINE S == {m \in DOMAIN logs : m >= log_number'}
             L == LiveTables(pending, current', c)
  <2>1. logs' = Only(logs, S) /\ tables' = Only(tables, L)
    BY <1>3 DEF DeleteObsoleteFiles
  <2> HIDE DEF L
  <2>2. DOMAIN logs' = DOMAIN logs \cap S /\ \A n \in DOMAIN logs \cap S : logs'[n] = logs[n]
    BY <2>1 DEF Only
  <2>3. DOMAIN tables' = DOMAIN tables \cap L /\ \A n \in DOMAIN tables \cap L : tables'[n] = tables[n]
    BY <2>1 DEF Only
  <2>4. logs' \in [DOMAIN logs' -> LogFile]
    BY <1>1, <2>1 DEF Only
  <2>5. tables' \in [DOMAIN tables' -> SUBSET Entry]
    BY <1>1, <2>1 DEF Only
  <2> QED
    BY <1>3, <2>2, <2>3, <2>4, <2>5 DEF L
<1> QED
  BY <1>2, <1>3

\* What is left is of the right types.
LEMMA FilesLeftTyped ==
    ASSUME DiskTypes, DOMAIN logs' \subseteq DOMAIN logs, logs' \in [DOMAIN logs' -> LogFile],
           \A n \in DOMAIN logs' : logs'[n] = logs[n],
           DOMAIN tables' \subseteq DOMAIN tables, tables' \in [DOMAIN tables' -> SUBSET Entry],
           UNCHANGED manifest
    PROVE  DiskTypes'
BY DEF DiskTypes

\* The new version and the version edit it was made with.
LEMMA InstallFacts ==
    ASSUME BaseInv, NEW by, Install(by)
    PROVE  /\ edit # NoEdit /\ edit.by = by /\ edit.logged /\ edit' = NoEdit
           /\ current' = (current \ edit.deleted) \cup edit.added
           /\ log_number' = edit.log /\ edit.log <= logfile_number_ /\ log_number' \in Nat
           /\ current' \subseteq DOMAIN tables /\ current' \subseteq Nat
           /\ ~bg_error_ => manifest.tables = current'
           /\ state \in {"opening", "up"}
<1>1. Types /\ Control /\ Files /\ Numbers /\ MemTypes
  BY DEF BaseInv, Types
<1>2. edit # NoEdit /\ edit.by = by /\ edit.logged /\ edit' = NoEdit
      /\ current' = (current \ edit.deleted) \cup edit.added /\ log_number' = edit.log
  BY DEF Install
<1>3. state \in {"opening", "up"}
  BY <1>1, <1>2 DEF Control, MemTypes
<1>4. edit.log \in Nat /\ edit.added \subseteq Nat
  BY <1>1, <1>2, WorkFacts
<1>5. edit.log <= logfile_number_
  BY <1>1, <1>2, <1>3 DEF Numbers
<1>6. current \subseteq DOMAIN tables /\ edit.added \subseteq DOMAIN tables
      /\ (~bg_error_ => manifest.tables = current')
  BY <1>1, <1>2, <1>3 DEF Files
<1>7. current' \subseteq DOMAIN tables /\ current' \subseteq Nat
  BY <1>1, <1>2, <1>4, <1>6 DEF MemTypes
<1> QED
  BY <1>2, <1>3, <1>4, <1>5, <1>6, <1>7

\* The flush is done.
LEMMA BaseInstallFlush == ASSUME BaseInv, InstallFlush PROVE BaseInv'
<1>1. FlagTypes /\ Types /\ DiskTypes /\ NumberTypes /\ MemTypes /\ WorkTypes
      /\ Control /\ Files /\ Numbers /\ Sequences
  BY DEF BaseInv, Types
<1>2. /\ Install("flush") /\ imm' = {} /\ flush' = NoFlush
      /\ DeleteObsoleteFiles(pending_outputs_, compact)
      /\ UNCHANGED <<manifest, openVars, next_file_number, last_sequence, logfile_number_, mem,
                     pending_outputs_, writers_, group, compact, reader, answer, sync, bg_error_>>
      /\ bg_compaction_scheduled_' \in BOOLEAN
  BY DEF InstallFlush, EndBackgroundCall, histVars
<1>3. /\ edit # NoEdit /\ edit.by = "flush" /\ edit.logged /\ edit' = NoEdit
      /\ log_number' = edit.log /\ edit.log <= logfile_number_ /\ log_number' \in Nat
      /\ current' \subseteq DOMAIN tables /\ current' \subseteq Nat
      /\ ~bg_error_ => manifest.tables = current'
      /\ current' = (current \ edit.deleted) \cup edit.added
  BY <1>2, InstallFacts
<1>4. state = "up" /\ edit.deleted = {}
  BY <1>1, <1>3 DEF Control, MemTypes
<1>5. /\ DOMAIN logs' \subseteq DOMAIN logs /\ logs' \in [DOMAIN logs' -> LogFile]
      /\ \A n \in DOMAIN logs' : logs'[n] = logs[n]
      /\ \A n \in DOMAIN logs : n >= log_number' => n \in DOMAIN logs'
      /\ DOMAIN tables' \subseteq DOMAIN tables
      /\ tables' \in [DOMAIN tables' -> SUBSET Entry]
      /\ \A n \in DOMAIN tables' : tables'[n] = tables[n]
      /\ bg_error_ => tables' = tables
      /\ ~bg_error_ =>
            \A n \in DOMAIN tables : n \in LiveTables(pending_outputs_, current', compact)
                                     => n \in DOMAIN tables'
  BY <1>1, <1>2, FilesLeft
<1>6. WriteTypes' /\ Queue'
  BY <1>2, QueueFrame DEF InstallFlush, openVars
<1>7. DiskTypes'
  BY <1>1, <1>2, <1>5, FilesLeftTyped
<1>8. NumberTypes' /\ MemTypes' /\ WorkTypes' /\ FlagTypes'
  <2>1. replay = {}
    BY <1>1, <1>4 DEF Control
  <2> QED
    BY <1>1, <1>2, <1>3, <2>1 DEF NumberTypes, MemTypes, WorkTypes, FlagTypes, openVars
<1>9. Control'
  BY <1>1, <1>2, <1>3, <1>4 DEF Control, openVars
<1>10. Files'
  <2>1. manifest.tables \cup current' \subseteq DOMAIN tables'
        /\ (reader # NoReader => reader \subseteq DOMAIN tables')
    <3>1. CASE bg_error_
      BY <1>1, <1>3, <1>5, <3>1 DEF Files
    <3>2. CASE ~bg_error_
      BY <1>1, <1>3, <1>5, <3>2 DEF Files, LiveTables
    <3> QED
      BY <3>1, <3>2
  <2>2. ASSUME compact # NoCompaction
        PROVE  /\ compact.version \subseteq DOMAIN tables'
               /\ compact.inputs \subseteq current'
               /\ compact.written => compact.output \in DOMAIN tables'
    <3>1. /\ compact.version \subseteq DOMAIN tables /\ compact.inputs \subseteq current
          /\ compact.written => compact.output \in DOMAIN tables /\ compact.output \in pending_outputs_
      BY <1>1, <2>2 DEF Files
    <3>2. CASE bg_error_
      BY <1>3, <1>4, <1>5, <3>1, <3>2
    <3>3. CASE ~bg_error_
      BY <1>3, <1>4, <1>5, <2>2, <3>1, <3>3 DEF LiveTables
    <3> QED
      BY <3>2, <3>3
  <2> QED
    BY <1>1, <1>2, <1>3, <1>4, <2>1, <2>2 DEF Files, openVars
<1>11. Numbers'
  <2>1. logfile_number_ \in DOMAIN logs'
    BY <1>1, <1>3, <1>4, <1>5 DEF Numbers, NumberTypes
  <2>2. DOMAIN logs' \subseteq DOMAIN logs /\ DOMAIN tables' \subseteq DOMAIN tables
    BY <1>5
  <2>3. log_number' <= logfile_number_
    BY <1>3
  <2> QED
    BY <1>1, <1>2, <1>3, <1>4, <2>1, <2>2, <2>3 DEF Numbers, openVars
<1>12. Sequences'
  <2>1. manifest.tables \subseteq DOMAIN tables'
    BY <1>2, <1>10 DEF Files
  <2>2. /\ DOMAIN tables' \subseteq DOMAIN tables
        /\ \A n \in DOMAIN tables' : tables'[n] = tables[n]
        /\ UNCHANGED <<manifest, state, last_sequence, mem>>
    BY <1>2, <1>5 DEF openVars
  <2> QED
    BY <1>1, <1>2, <1>3, <1>4, <2>1, <2>2 DEF Sequences
<1> QED
  BY <1>6, <1>7, <1>8, <1>9, <1>10, <1>11, <1>12 DEF BaseInv, Types

\* The compaction is done.
LEMMA BaseInstallCompaction == ASSUME BaseInv, InstallCompaction PROVE BaseInv'
<1>1. FlagTypes /\ Types /\ DiskTypes /\ NumberTypes /\ MemTypes /\ WorkTypes
      /\ Control /\ Files /\ Numbers /\ Sequences
  BY DEF BaseInv, Types
<1>2. /\ Install("compact") /\ compact' = NoCompaction
      /\ pending_outputs_' = pending_outputs_ \ edit.added
      /\ DeleteObsoleteFiles(pending_outputs_', NoCompaction)
      /\ UNCHANGED <<manifest, openVars, next_file_number, last_sequence, logfile_number_, mem,
                     writers_, group, flush, reader, answer, sync, bg_error_, imm>>
      /\ bg_compaction_scheduled_' \in BOOLEAN
  BY DEF InstallCompaction, EndBackgroundCall, histVars
<1>3. /\ edit # NoEdit /\ edit.by = "compact" /\ edit.logged /\ edit' = NoEdit
      /\ log_number' = edit.log /\ edit.log <= logfile_number_ /\ log_number' \in Nat
      /\ current' \subseteq DOMAIN tables /\ current' \subseteq Nat
      /\ ~bg_error_ => manifest.tables = current'
  BY <1>2, InstallFacts
<1>4. state = "up" /\ flush = NoFlush
  BY <1>1, <1>3 DEF Control, MemTypes
<1>5. /\ DOMAIN logs' \subseteq DOMAIN logs /\ logs' \in [DOMAIN logs' -> LogFile]
      /\ \A n \in DOMAIN logs' : logs'[n] = logs[n]
      /\ \A n \in DOMAIN logs : n >= log_number' => n \in DOMAIN logs'
      /\ DOMAIN tables' \subseteq DOMAIN tables
      /\ tables' \in [DOMAIN tables' -> SUBSET Entry]
      /\ \A n \in DOMAIN tables' : tables'[n] = tables[n]
      /\ bg_error_ => tables' = tables
      /\ ~bg_error_ =>
            \A n \in DOMAIN tables : n \in LiveTables(pending_outputs_', current', NoCompaction)
                                     => n \in DOMAIN tables'
  BY <1>1, <1>2, FilesLeft
<1>6. WriteTypes' /\ Queue'
  BY <1>2, QueueFrame DEF InstallCompaction, openVars
<1>7. DiskTypes'
  BY <1>1, <1>2, <1>5, FilesLeftTyped
<1>8. NumberTypes' /\ MemTypes' /\ WorkTypes' /\ FlagTypes'
  <2>1. replay = {}
    BY <1>1, <1>4 DEF Control
  <2> QED
    BY <1>1, <1>2, <1>3, <2>1 DEF NumberTypes, MemTypes, WorkTypes, FlagTypes, openVars
<1>9. Control'
  BY <1>1, <1>2, <1>3, <1>4 DEF Control, openVars
<1>10. Files'
  <2>1. manifest.tables \cup current' \subseteq DOMAIN tables'
        /\ (reader # NoReader => reader \subseteq DOMAIN tables')
    <3>1. CASE bg_error_
      BY <1>1, <1>3, <1>5, <3>1 DEF Files
    <3>2. CASE ~bg_error_
      BY <1>1, <1>3, <1>5, <3>2 DEF Files, LiveTables
    <3> QED
      BY <3>1, <3>2
  <2> QED
    BY <1>1, <1>2, <1>3, <1>4, <2>1 DEF Files, openVars
<1>11. Numbers'
  <2>1. logfile_number_ \in DOMAIN logs'
    BY <1>1, <1>3, <1>4, <1>5 DEF Numbers, NumberTypes
  <2>2. DOMAIN logs' \subseteq DOMAIN logs /\ DOMAIN tables' \subseteq DOMAIN tables
    BY <1>5
  <2>3. log_number' <= logfile_number_
    BY <1>3
  <2> QED
    BY <1>1, <1>2, <1>3, <1>4, <2>1, <2>2, <2>3 DEF Numbers, openVars
<1>12. Sequences'
  <2>1. manifest.tables \subseteq DOMAIN tables'
    BY <1>2, <1>10 DEF Files
  <2>2. /\ DOMAIN tables' \subseteq DOMAIN tables
        /\ \A n \in DOMAIN tables' : tables'[n] = tables[n]
        /\ UNCHANGED <<manifest, state, last_sequence, mem, imm>>
    BY <1>2, <1>5 DEF openVars
  <2> QED
    BY <1>1, <1>2, <1>3, <1>4, <2>1, <2>2 DEF Sequences
<1> QED
  BY <1>6, <1>7, <1>8, <1>9, <1>10, <1>11, <1>12 DEF BaseInv, Types

\* Open is done.
LEMMA BaseFinishOpen == ASSUME BaseInv, FinishOpen PROVE BaseInv'
<1>1. FlagTypes /\ Types /\ DiskTypes /\ NumberTypes /\ MemTypes /\ WorkTypes /\ WriteTypes
      /\ Control /\ Files /\ Numbers /\ Sequences /\ Queue
  BY DEF BaseInv, Types
<1>2. /\ Install("open") /\ state' = "up"
      /\ DeleteObsoleteFiles({}, NoCompaction)
      /\ UNCHANGED <<manifest, replay, next_file_number, last_sequence, logfile_number_, mem,
                     imm, pending_outputs_, bg_error_, writeVars, bg_compaction_scheduled_, flush,
                     compact, reader, answer, sync>>
  BY DEF FinishOpen, histVars
<1>3. /\ edit # NoEdit /\ edit.by = "open" /\ edit.logged /\ edit' = NoEdit
      /\ log_number' = edit.log /\ edit.log <= logfile_number_ /\ log_number' \in Nat
      /\ current' \subseteq DOMAIN tables /\ current' \subseteq Nat
      /\ ~bg_error_ => manifest.tables = current'
      /\ state \in {"opening", "up"}
  BY <1>2, InstallFacts
<1>4. /\ state = "opening" /\ ~bg_error_ /\ mem = {} /\ imm = {} /\ pending_outputs_ = {}
      /\ flush = NoFlush /\ compact = NoCompaction /\ reader = NoReader /\ replay = {}
  BY <1>1, <1>3 DEF Control
<1>5. /\ DOMAIN logs' \subseteq DOMAIN logs /\ logs' \in [DOMAIN logs' -> LogFile]
      /\ \A n \in DOMAIN logs' : logs'[n] = logs[n]
      /\ \A n \in DOMAIN logs : n >= log_number' => n \in DOMAIN logs'
      /\ DOMAIN tables' \subseteq DOMAIN tables
      /\ tables' \in [DOMAIN tables' -> SUBSET Entry]
      /\ \A n \in DOMAIN tables' : tables'[n] = tables[n]
      /\ \A n \in DOMAIN tables : n \in LiveTables({}, current', NoCompaction)
                                     => n \in DOMAIN tables'
  BY <1>1, <1>2, <1>4, FilesLeft
<1>5a. DOMAIN tables' \subseteq current'
  <2>1. tables' = Only(tables, LiveTables({}, current', NoCompaction))
    BY <1>2, <1>4 DEF DeleteObsoleteFiles
  <2>2. LiveTables({}, current', NoCompaction) = current'
    BY <1>4 DEF LiveTables
  <2> QED
    BY <2>1, <2>2 DEF Only
<1>6. WriteTypes' /\ Queue'
  BY <1>1, <1>2, <1>4 DEF WriteTypes, Queue, writeVars
<1>7. DiskTypes'
  BY <1>1, <1>2, <1>5, FilesLeftTyped
<1>8. NumberTypes' /\ MemTypes' /\ WorkTypes' /\ FlagTypes'
  BY <1>1, <1>2, <1>3, <1>4 DEF NumberTypes, MemTypes, WorkTypes, FlagTypes
<1>9. Control'
  BY <1>1, <1>2, <1>3, <1>4 DEF Control
<1>10. Files'
  <2>1. manifest.tables = current' /\ current' \subseteq DOMAIN tables'
    BY <1>3, <1>4, <1>5 DEF LiveTables
  <2>2. manifest'.end = "whole"
    BY <1>1, <1>2, <1>3, <1>4 DEF Files
  <2> QED
    BY <1>2, <1>3, <1>4, <2>1, <2>2 DEF Files
<1>11. Numbers'
  <2>1. logfile_number_ \in DOMAIN logs'
    BY <1>1, <1>3, <1>4, <1>5 DEF Numbers, NumberTypes
  <2>2. DOMAIN logs' \subseteq DOMAIN logs
    BY <1>5
  <2>3. log_number' <= logfile_number_
    BY <1>3
  <2>4. \A n \in DOMAIN tables' : n < next_file_number
    <3>1. /\ \A n \in manifest.tables : n < manifest.next
          /\ manifest.next <= next_file_number
      BY <1>1, <1>4 DEF Numbers
    <3>2. manifest.tables \subseteq Nat /\ manifest.next \in Nat /\ next_file_number \in Nat
      BY <1>1, WorkFacts DEF NumberTypes
    <3> QED
      BY <1>3, <1>4, <1>5a, <3>1, <3>2
  <2> QED
    BY <1>1, <1>2, <1>3, <1>4, <2>1, <2>2, <2>3, <2>4 DEF Numbers
<1>12. Sequences'
  <2>1. manifest.tables = current' /\ DOMAIN tables' \subseteq manifest.tables
        /\ manifest.tables \subseteq DOMAIN tables'
    BY <1>2, <1>3, <1>4, <1>5a, <1>10 DEF Files
  <2>2. /\ \A n \in DOMAIN tables' : tables'[n] = tables[n] /\ tables[n] \subseteq Entry
        /\ UNCHANGED <<manifest, last_sequence, mem, imm>>
    BY <1>1, <1>2, <1>5 DEF DiskTypes
  <2>3. /\ \A n \in manifest.tables : \A e \in tables[n] : e[1] <= manifest.last
        /\ manifest.last <= last_sequence
    BY <1>1, <1>4 DEF Sequences
  <2>4. manifest.last \in Nat /\ last_sequence \in Nat
    BY <1>1, WorkFacts DEF NumberTypes
  <2>5. \A n \in DOMAIN tables' : \A e \in tables'[n] : e[1] <= manifest.last /\ e[1] <= last_sequence
    BY <2>1, <2>2, <2>3, <2>4 DEF Entry
  <2> QED
    BY <1>2, <1>3, <1>4, <2>1, <2>2, <2>3, <2>5 DEF Sequences
<1> QED
  BY <1>6, <1>7, <1>8, <1>9, <1>10, <1>11, <1>12 DEF BaseInv, Types

-----------------------------------------------------------------------------
(* Crash and recovery. *)

\* The process ends.
LEMMA BaseStop ==
    ASSUME BaseInv, Stop, DOMAIN logs' = DOMAIN logs, logs' \in [DOMAIN logs' -> LogFile],
           \A n \in DOMAIN logs' : logs'[n].synced <= Len(logs'[n].records)
    PROVE  BaseInv'
<1>1. DiskTypes /\ NumberTypes /\ WriteTypes /\ Files /\ Numbers /\ Sequences
  BY DEF BaseInv, Types
<1>2. /\ state' = "down" /\ replay' = {} /\ mem' = {} /\ imm' = {} /\ current' = {}
      /\ pending_outputs_' = {} /\ bg_error_' = FALSE
      /\ writers_' = <<>> /\ stage' = "front" /\ group' = <<>>
      /\ bg_compaction_scheduled_' = FALSE
      /\ flush' = NoFlush /\ compact' = NoCompaction /\ edit' = NoEdit /\ reader' = NoReader
      /\ answer' = [w \in Writes |-> IF answer[w] = "asked" THEN "lost" ELSE answer[w]]
      /\ UNCHANGED <<tables, manifest, numberVars, sync>>
  BY DEF Stop
<1>3. DiskTypes' /\ NumberTypes'
  BY <1>1, <1>2 DEF DiskTypes, NumberTypes, numberVars
<1>4. MemTypes' /\ WorkTypes' /\ FlagTypes'
  BY <1>2 DEF MemTypes, WorkTypes, FlagTypes
<1>5. WriteTypes'
  <2>1. writers_' \in Seq(Writes) /\ group' \in Seq(Writes)
    BY <1>2
  <2>2. answer' \in [Writes -> {"none", "asked", "ok", "failed", "lost"}]
    BY <1>1, <1>2 DEF WriteTypes
  <2> QED
    BY <1>2, <2>1, <2>2 DEF WriteTypes
<1>6. Queue'
  <2>1. Len(writers_') = 0 /\ Len(group') = 0 /\ 1 .. Len(writers_') = {} /\ 1 .. Len(group') = {}
    BY <1>2
  <2>2. \A w \in Writes : answer'[w] # "asked"
    BY <1>1, <1>2 DEF WriteTypes
  <2> QED
    BY <1>2, <2>1, <2>2 DEF Queue
<1>7. Control'
  BY <1>2 DEF Control
<1>8. Files'
  BY <1>1, <1>2 DEF Files
<1>9. Numbers'
  BY <1>1, <1>2 DEF Numbers
<1>10. Sequences'
  BY <1>1, <1>2 DEF Sequences
<1> QED
  BY <1>3, <1>4, <1>5, <1>6, <1>7, <1>8, <1>9, <1>10 DEF BaseInv, Types

\* The process is killed.
LEMMA BaseKill == ASSUME BaseInv, Kill PROVE BaseInv'
<1>1. Stop /\ logs' = logs /\ DiskTypes
  BY DEF Kill, BaseInv, Types
<1> QED
  BY <1>1, BaseStop DEF DiskTypes

\* What is left of the logs when the power goes.
LEMMA PowerLossLogs ==
    ASSUME Types, PowerLoss
    PROVE  /\ DOMAIN logs' = DOMAIN logs /\ logs' \in [DOMAIN logs' -> LogFile]
           /\ \A n \in DOMAIN logs :
                 /\ logs[n].synced <= logs'[n].synced
                 /\ logs'[n].synced = Len(logs'[n].records)
                 /\ Len(logs'[n].records) \in Nat
                 /\ Len(logs'[n].records) <= Len(logs[n].records)
                 /\ \A i \in 1 .. Len(logs'[n].records) : logs'[n].records[i] = logs[n].records[i]
<1>1. logs \in [DOMAIN logs -> LogFile]
  BY DEF Types, DiskTypes
<1>2. PICK keep \in [DOMAIN logs -> 0 .. MaxWrites] :
          /\ \A n \in DOMAIN logs :
                keep[n] >= logs[n].synced /\ keep[n] <= Len(logs[n].records)
          /\ logs' = [n \in DOMAIN logs |->
                         [logs[n] EXCEPT !.records = SubSeq(@, 1, keep[n]), !.synced = keep[n]]]
  BY DEF PowerLoss
<1>3. DOMAIN logs' = DOMAIN logs
  BY <1>2
<1>4. ASSUME NEW n \in DOMAIN logs
      PROVE  /\ logs'[n] \in LogFile
             /\ logs[n].synced <= logs'[n].synced
             /\ logs'[n].synced = Len(logs'[n].records)
             /\ Len(logs'[n].records) \in Nat
             /\ Len(logs'[n].records) <= Len(logs[n].records)
             /\ \A i \in 1 .. Len(logs'[n].records) : logs'[n].records[i] = logs[n].records[i]
  <2>1. logs[n].records \in Seq(Record) /\ logs[n].synced \in Nat /\ Len(logs[n].records) \in Nat
        /\ logs[n] \in LogFile
    BY <1>1 DEF LogFile
  <2>2. keep[n] \in Nat /\ keep[n] >= logs[n].synced /\ keep[n] <= Len(logs[n].records)
    <3>1. keep[n] \in 0 .. MaxWrites /\ keep[n] >= logs[n].synced /\ keep[n] <= Len(logs[n].records)
      BY <1>2
    <3> QED
      BY <3>1, StoreAssumption
  <2>3. logs'[n] = [logs[n] EXCEPT !.records = SubSeq(logs[n].records, 1, keep[n]),
                                   !.synced = keep[n]]
    BY <1>2
  <2>4. logs'[n].records = SubSeq(logs[n].records, 1, keep[n]) /\ logs'[n].synced = keep[n]
    BY <2>1, <2>3 DEF LogFile
  <2>5. /\ SubSeq(logs[n].records, 1, keep[n]) \in Seq(Record)
        /\ Len(SubSeq(logs[n].records, 1, keep[n])) = keep[n]
        /\ \A i \in 1 .. keep[n] : SubSeq(logs[n].records, 1, keep[n])[i] = logs[n].records[i]
    BY <2>1, <2>2
  <2>6. logs'[n] \in LogFile
    BY <2>1, <2>2, <2>3, <2>5 DEF LogFile
  <2> QED
    BY <2>1, <2>2, <2>4, <2>5, <2>6
<1>5. logs' \in [DOMAIN logs' -> LogFile]
  BY <1>2, <1>4
<1> QED
  BY <1>3, <1>4, <1>5

\* The power goes.
LEMMA BasePowerLoss == ASSUME BaseInv, PowerLoss PROVE BaseInv'
<1>1. Types /\ Stop
  BY DEF PowerLoss, BaseInv
<1>2. DOMAIN logs' = DOMAIN logs /\ logs' \in [DOMAIN logs' -> LogFile]
      /\ \A n \in DOMAIN logs' : logs'[n].synced <= Len(logs'[n].records)
  BY <1>1, PowerLossLogs
<1> QED
  BY <1>1, <1>2, BaseStop

\* Open fails.
LEMMA BaseOpenFails == ASSUME BaseInv, OpenFails PROVE BaseInv'
<1>1. FlagTypes /\ DiskTypes /\ NumberTypes /\ MemTypes /\ WorkTypes /\ WriteTypes
      /\ Control /\ Files /\ Numbers /\ Sequences /\ Queue
  BY DEF BaseInv, Types
<1>2. /\ edit # NoEdit /\ edit.by = "open" /\ state' = "down" /\ replay' = {} /\ edit' = NoEdit
      /\ current' = {}
      /\ UNCHANGED <<diskVars, numberVars, mem, imm, pending_outputs_, bg_error_, writeVars,
                     bg_compaction_scheduled_, flush, compact, reader, answer, sync>>
  BY DEF OpenFails
<1>3. state # "up"
  BY <1>1, <1>2 DEF Control
<1>4. DiskTypes' /\ NumberTypes' /\ MemTypes' /\ WorkTypes' /\ FlagTypes' /\ WriteTypes'
  BY <1>1, <1>2
  DEF DiskTypes, NumberTypes, MemTypes, WorkTypes, FlagTypes, WriteTypes, diskVars, numberVars,
      writeVars
<1>5. Queue'
  BY <1>1, <1>2, <1>3 DEF Queue, writeVars
<1>6. Control'
  BY <1>1, <1>2, <1>3 DEF Control
<1>7. Files'
  BY <1>1, <1>2, <1>3 DEF Files, Control, diskVars
<1>8. Numbers'
  BY <1>1, <1>2, <1>3 DEF Numbers, Control, diskVars
<1>9. Sequences'
  BY <1>1, <1>2 DEF Sequences, diskVars
<1> QED
  BY <1>4, <1>5, <1>6, <1>7, <1>8, <1>9 DEF BaseInv, Types

\* The manifest is read.
LEMMA BaseRecover == ASSUME BaseInv, Recover PROVE BaseInv'
<1>1. FlagTypes /\ DiskTypes /\ NumberTypes /\ MemTypes /\ WorkTypes /\ WriteTypes /\ Types
      /\ Control /\ Files /\ Numbers /\ Sequences /\ Queue
  BY DEF BaseInv, Types
<1>2. /\ manifest.tables \subseteq Nat /\ manifest.log \in Nat /\ manifest.next \in Nat
      /\ manifest.last \in Nat /\ manifest \in Manifest
  BY <1>1, WorkFacts DEF DiskTypes
<1>3. /\ RecoveredVersion.tables = manifest.tables /\ RecoveredVersion.log = manifest.log
      /\ RecoveredVersion.next = manifest.next + 1 /\ RecoveredVersion.last = manifest.last
  BY <1>2 DEF RecoveredVersion, Manifest
<1>4. /\ state = "down" /\ state' = "replaying"
      /\ replay' = {n \in DOMAIN logs : n >= manifest.log}
      /\ next_file_number' = manifest.next + 1 /\ last_sequence' = manifest.last
      /\ log_number' = manifest.log /\ current' = manifest.tables
      /\ edit' = [by |-> "open", added |-> {}, deleted |-> {}, log |-> manifest.log,
                  next |-> manifest.next + 1, last |-> manifest.last, logged |-> FALSE]
      /\ UNCHANGED <<diskVars, logfile_number_, mem, imm, pending_outputs_, bg_error_,
                     writeVars, bg_compaction_scheduled_, flush, compact, reader, answer, sync>>
  BY <1>3 DEF Recover, VersionEdit, histVars
<1>5. /\ edit' \in EditRecord /\ edit' # NoEdit /\ edit'.by = "open" /\ edit'.added = {}
      /\ edit'.deleted = {} /\ edit'.logged = FALSE
  <2>1. manifest.next + 1 \in Nat
    BY <1>2
  <2>2. edit' \in EditRecord
    BY <1>2, <1>4, <2>1 DEF EditRecord
  <2> QED
    BY <1>4, <2>2, StoreAssumption
<1>6. DiskTypes' /\ WriteTypes' /\ FlagTypes' /\ WorkTypes'
  BY <1>1, <1>4, <1>5 DEF DiskTypes, WriteTypes, FlagTypes, WorkTypes, diskVars, writeVars
<1>7. NumberTypes' /\ MemTypes'
  BY <1>1, <1>2, <1>4 DEF NumberTypes, MemTypes, diskVars
<1>8. Queue'
  BY <1>1, <1>4 DEF Queue, writeVars
<1>9. Control'
  BY <1>1, <1>4, <1>5 DEF Control
<1>10. Files'
  BY <1>1, <1>4, <1>5 DEF Files, Control, diskVars
<1>11. Numbers'
  <2>1. \A n \in manifest.tables : n < manifest.next
    BY <1>1 DEF Numbers
  <2>2. manifest.log < manifest.next /\ manifest.next <= manifest.next + 1
    BY <1>1, <1>2 DEF Numbers
  <2>3. \A n \in DOMAIN logs : n \in replay' \/ n < manifest.next + 1
    BY <1>1, <1>2, <1>4, <2>2 DEF DiskTypes
  <2>4. flush' = NoFlush /\ compact' = NoCompaction
    BY <1>1, <1>4 DEF Control
  <2> QED
    BY <1>4, <1>5, <2>1, <2>2, <2>3, <2>4 DEF Numbers, diskVars
<1>12. Sequences'
  BY <1>1, <1>2, <1>4, <1>5 DEF Sequences, diskVars
<1> QED
  BY <1>6, <1>7, <1>8, <1>9, <1>10, <1>11, <1>12 DEF BaseInv, Types

\* The next number after that of a log was marked.
LEMMA MarkFacts ==
    ASSUME NEW next \in Nat, NEW n \in Nat
    PROVE  /\ MarkFileNumberUsed(next, n) \in Nat /\ next <= MarkFileNumberUsed(next, n)
           /\ n < MarkFileNumberUsed(next, n)
BY DEF MarkFileNumberUsed

\* The numbers and the table of a log that is replayed.
LEMMA ReplayFacts ==
    ASSUME BaseInv, NEW n \in replay, RecoverLogFile(n)
    PROVE  /\ next_file_number \in Nat /\ next_file_number' \in Nat /\ last_sequence' \in Nat
           /\ next_file_number <= next_file_number' /\ n < next_file_number'
           /\ last_sequence <= last_sequence' /\ InLog(n) \subseteq Entry
           /\ \A e \in InLog(n) : e[1] <= last_sequence'
           /\ \/ logs[n].records = <<>> /\ UNCHANGED <<tables, edit>>
              \/ /\ logs[n].records # <<>>
                 /\ next_file_number < next_file_number'
                 /\ tables' = With(tables, next_file_number, InLog(n))
                 /\ edit' = [edit EXCEPT !.added = @ \cup {next_file_number}]
<1>1. DiskTypes /\ NumberTypes /\ MemTypes
  BY DEF BaseInv, Types
<1>2. n \in DOMAIN logs /\ n \in Nat /\ logs[n] \in LogFile
  BY <1>1 DEF MemTypes, DiskTypes
<1>3. Len(logs[n].records) \in Nat
  BY <1>2 DEF LogFile
<1>4. InLog(n) \subseteq Entry
  BY <1>2, <1>3, LogEntriesTyped DEF InLog
<1> DEFINE numbers == {last_sequence} \cup {e[1] : e \in InLog(n)}
<1>5. numbers \subseteq Nat
  <2>1. \A e \in InLog(n) : e[1] \in Nat
    BY <1>4 DEF Entry
  <2> QED
    BY <1>1, <2>1 DEF NumberTypes
<1>6. last_sequence' \in numbers /\ \A q \in numbers : q <= last_sequence'
  BY DEF RecoverLogFile, InLog
<1>7. last_sequence' \in Nat /\ last_sequence <= last_sequence'
      /\ \A e \in InLog(n) : e[1] <= last_sequence'
  BY <1>5, <1>6
<1>8. next_file_number \in Nat
  BY <1>1 DEF NumberTypes
<1>9. CASE logs[n].records = <<>>
  <2>1. next_file_number' = MarkFileNumberUsed(next_file_number, n) /\ UNCHANGED <<tables, edit>>
    BY <1>9 DEF RecoverLogFile
  <2> QED
    BY <1>2, <1>4, <1>7, <1>8, <1>9, <2>1, MarkFacts
<1>10. CASE logs[n].records # <<>>
  <2>1. /\ next_file_number' = MarkFileNumberUsed(next_file_number + 1, n)
        /\ tables' = With(tables, next_file_number, InLog(n))
        /\ edit' = [edit EXCEPT !.added = @ \cup {next_file_number}]
    BY <1>10 DEF RecoverLogFile, InLog
  <2>2. next_file_number' \in Nat /\ next_file_number + 1 <= next_file_number' /\ n < next_file_number'
    BY <1>2, <1>8, <2>1, MarkFacts
  <2>3. next_file_number <= next_file_number' /\ next_file_number < next_file_number'
    BY <1>8, <2>2
  <2> QED
    BY <1>4, <1>7, <1>8, <1>10, <2>1, <2>2, <2>3
<1> QED
  BY <1>9, <1>10

\* What replaying a log changes: one more table, under a number that no table
\* of the manifest or of the edit has.
LEMMA ReplayTable ==
    ASSUME BaseInv, NEW n \in replay, RecoverLogFile(n)
    PROVE  /\ DOMAIN tables \subseteq DOMAIN tables' /\ DOMAIN tables' \subseteq Nat
           /\ tables' \in [DOMAIN tables' -> SUBSET Entry]
           /\ \A m \in manifest.tables \cup edit.added : tables'[m] = tables[m]
           /\ edit' \in EditRecord /\ edit' # NoEdit /\ edit'.by = edit.by
           /\ edit'.deleted = edit.deleted /\ edit'.logged = edit.logged
           /\ edit.added \subseteq edit'.added
           /\ edit'.added \subseteq DOMAIN tables'
           /\ \A m \in edit'.added : m < next_file_number'
           /\ \A m \in edit'.added \ edit.added : tables'[m] = InLog(n)
           /\ InLog(n) # {} => edit'.added # edit.added
<1>1. DiskTypes /\ NumberTypes /\ MemTypes /\ WorkTypes /\ Types /\ Control /\ Files /\ Numbers
  BY DEF BaseInv, Types
<1>2. /\ next_file_number \in Nat /\ next_file_number' \in Nat
      /\ next_file_number <= next_file_number' /\ InLog(n) \in SUBSET Entry
  BY ReplayFacts
<1>3. state = "replaying" /\ edit # NoEdit /\ edit \in EditRecord
  BY <1>1 DEF RecoverLogFile, Control, WorkTypes
<1>4. /\ \A m \in manifest.tables \cup edit.added : m \in Nat /\ m < next_file_number
      /\ manifest.tables \cup edit.added \subseteq DOMAIN tables
  <2>1. manifest.tables \subseteq Nat /\ manifest.next \in Nat /\ edit.added \subseteq Nat
    BY <1>1, <1>3, WorkFacts
  <2>2. /\ \A m \in manifest.tables : m < manifest.next
        /\ manifest.next <= next_file_number
        /\ \A m \in edit.added : m < next_file_number
    BY <1>1, <1>3 DEF Numbers
  <2> QED
    BY <1>1, <1>2, <1>3, <2>1, <2>2 DEF Files
<1>5. CASE logs[n].records = <<>>
  <2>1. UNCHANGED <<tables, edit>>
    BY <1>5 DEF RecoverLogFile
  <2>2. InLog(n) = {}
    <3>1. Len(logs[n].records) = 0 /\ 1 .. Len(logs[n].records) = {}
      BY <1>5
    <3> QED
      BY <3>1 DEF InLog, LogEntries
  <2>3. \A m \in edit.added : m < next_file_number'
    BY <1>2, <1>4
  <2>4. DOMAIN tables \subseteq Nat /\ tables \in [DOMAIN tables -> SUBSET Entry]
    BY <1>1 DEF DiskTypes
  <2> QED
    BY <1>3, <1>4, <2>1, <2>2, <2>3, <2>4
<1>6. CASE logs[n].records # <<>>
  <2>1. /\ next_file_number < next_file_number'
        /\ tables' = With(tables, next_file_number, InLog(n))
        /\ edit' = [edit EXCEPT !.added = @ \cup {next_file_number}]
    BY <1>6, ReplayFacts
  <2>2. /\ DOMAIN tables' = DOMAIN tables \cup {next_file_number} /\ DOMAIN tables' \subseteq Nat
        /\ tables' \in [DOMAIN tables' -> SUBSET Entry]
        /\ tables'[next_file_number] = InLog(n)
        /\ \A m \in DOMAIN tables : m # next_file_number => tables'[m] = tables[m]
    BY <1>1, <1>2, <2>1, NewTable
  <2>3. edit.added \subseteq Nat
    BY <1>3 DEF EditRecord
  <2>4. edit' \in EditRecord
    BY <1>2, <1>3, <2>1, <2>3 DEF EditRecord
  <2>5. /\ edit'.by = edit.by /\ edit'.deleted = edit.deleted /\ edit'.logged = edit.logged
        /\ edit'.added = edit.added \cup {next_file_number}
    BY <1>3, <2>1 DEF EditRecord
  <2>6. edit' # NoEdit
    BY <2>4, StoreAssumption
  <2>7. \A m \in manifest.tables \cup edit.added : m # next_file_number
    BY <1>2, <1>4
  <2>8. \A m \in edit'.added : m < next_file_number'
    BY <1>2, <1>4, <2>1, <2>5
  <2>9. \A m \in manifest.tables \cup edit.added : tables'[m] = tables[m]
    BY <1>4, <2>2, <2>7
  <2>10. edit'.added \subseteq DOMAIN tables' /\ edit.added \subseteq edit'.added
    BY <1>4, <2>2, <2>5
  <2>11. \A m \in edit'.added \ edit.added : tables'[m] = InLog(n)
    BY <2>2, <2>5
  <2>12. edit'.added # edit.added
    BY <2>5, <2>7
  <2> QED
    BY <2>2, <2>4, <2>5, <2>6, <2>8, <2>9, <2>10, <2>11, <2>12
<1> QED
  BY <1>5, <1>6

\* A log is replayed.
LEMMA BaseRecoverLogFile == ASSUME BaseInv, NEW n \in replay, RecoverLogFile(n) PROVE BaseInv'
<1>1. FlagTypes /\ DiskTypes /\ NumberTypes /\ MemTypes /\ WorkTypes /\ WriteTypes /\ Types
      /\ Control /\ Files /\ Numbers /\ Sequences /\ Queue
  BY DEF BaseInv, Types
<1>2. /\ state = "replaying" /\ replay' = replay \ {n}
      /\ UNCHANGED <<logs, manifest, state, log_number, logfile_number_, mem, imm, current,
                     pending_outputs_, bg_error_, writeVars, bg_compaction_scheduled_, flush,
                     compact, reader, answer, sync>>
  BY DEF RecoverLogFile, histVars
<1>3. /\ next_file_number \in Nat /\ next_file_number' \in Nat /\ last_sequence' \in Nat
      /\ next_file_number <= next_file_number' /\ n < next_file_number'
      /\ last_sequence <= last_sequence' /\ InLog(n) \subseteq Entry
      /\ \A e \in InLog(n) : e[1] <= last_sequence'
  BY ReplayFacts
<1>4. /\ DOMAIN tables \subseteq DOMAIN tables' /\ DOMAIN tables' \subseteq Nat
      /\ tables' \in [DOMAIN tables' -> SUBSET Entry]
      /\ \A m \in manifest.tables \cup edit.added : tables'[m] = tables[m]
      /\ edit' \in EditRecord /\ edit' # NoEdit /\ edit'.by = edit.by
      /\ edit'.deleted = edit.deleted /\ edit'.logged = edit.logged
      /\ edit.added \subseteq edit'.added
      /\ edit'.added \subseteq DOMAIN tables'
      /\ \A m \in edit'.added : m < next_file_number'
      /\ \A m \in edit'.added \ edit.added : tables'[m] = InLog(n)
  BY ReplayTable
<1>5. /\ edit # NoEdit /\ edit.by = "open" /\ edit.deleted = {} /\ ~edit.logged
      /\ flush = NoFlush /\ compact = NoCompaction /\ reader = NoReader /\ mem = {} /\ imm = {}
      /\ ~bg_error_ /\ pending_outputs_ = {}
  BY <1>1, <1>2 DEF Control
<1>6. DiskTypes' /\ WriteTypes' /\ FlagTypes' /\ WorkTypes'
  BY <1>1, <1>2, <1>4 DEF DiskTypes, WriteTypes, FlagTypes, WorkTypes, writeVars
<1>7. NumberTypes' /\ MemTypes'
  BY <1>1, <1>2, <1>3 DEF NumberTypes, MemTypes
<1>8. Queue'
  BY <1>1, <1>2 DEF Queue, writeVars
<1>9. Control'
  BY <1>2, <1>4, <1>5 DEF Control
<1>10. Files'
  <2>1. manifest.tables = current /\ manifest.tables \cup current \subseteq DOMAIN tables
    BY <1>1, <1>2, <1>5 DEF Files
  <2> QED
    BY <1>2, <1>4, <1>5, <2>1 DEF Files
<1>11. Numbers'
  <2>1. \A m \in DOMAIN logs : m \in replay' \/ m < next_file_number'
    <3>1. \A m \in DOMAIN logs : m \in Nat /\ (m \in replay \/ m < next_file_number)
      BY <1>1, <1>2 DEF Numbers, DiskTypes
    <3> QED
      BY <1>2, <1>3, <3>1
  <2>2. manifest.next <= next_file_number'
    <3>1. manifest.next \in Nat /\ manifest.next <= next_file_number
      BY <1>1, <1>2, WorkFacts DEF Numbers
    <3> QED
      BY <1>3, <3>1
  <2>3. (\A m \in manifest.tables : m < manifest.next) /\ manifest.log < manifest.next
    BY <1>1 DEF Numbers
  <2> QED
    BY <1>2, <1>4, <1>5, <2>1, <2>2, <2>3 DEF Numbers
<1>12. Sequences'
  <2>1. \A m \in manifest.tables : \A e \in tables'[m] : e[1] <= manifest.last
    BY <1>1, <1>4 DEF Sequences
  <2>2. manifest.last <= last_sequence'
    <3>1. manifest.last \in Nat /\ last_sequence \in Nat /\ manifest.last <= last_sequence
      BY <1>1, <1>2, WorkFacts DEF Sequences, NumberTypes
    <3> QED
      BY <1>3, <3>1
  <2>3. ASSUME NEW m \in edit'.added, NEW e \in tables'[m] PROVE e[1] <= last_sequence'
    <3>1. CASE m \in edit.added
      <4>1. e \in tables[m] /\ m \in DOMAIN tables
        BY <1>1, <1>4, <1>5, <3>1 DEF Files
      <4>2. e[1] <= last_sequence /\ e[1] \in Nat /\ last_sequence \in Nat
        BY <1>1, <1>2, <3>1, <4>1 DEF Sequences, DiskTypes, Entry, NumberTypes
      <4> QED
        BY <1>3, <4>2
    <3>2. CASE m \notin edit.added
      BY <1>3, <1>4, <3>2
    <3> QED
      BY <3>1, <3>2
  <2> QED
    BY <1>2, <2>1, <2>2, <2>3 DEF Sequences
<1> QED
  BY <1>6, <1>7, <1>8, <1>9, <1>10, <1>11, <1>12 DEF BaseInv, Types

\* Open creates its log.
LEMMA BaseNewLog == ASSUME BaseInv, NewLog PROVE BaseInv'
<1>1. FlagTypes /\ DiskTypes /\ NumberTypes /\ MemTypes /\ WorkTypes /\ WriteTypes /\ Types
      /\ Control /\ Files /\ Numbers /\ Sequences /\ Queue
  BY DEF BaseInv, Types
<1>2. /\ state = "replaying" /\ replay = {} /\ state' = "opening"
      /\ logs' = With(logs, next_file_number, EmptyLog) /\ logfile_number_' = next_file_number
      /\ next_file_number' = next_file_number + 1
      /\ edit' = VersionEdit("open", edit.added, {}, next_file_number, next_file_number + 1,
                             last_sequence)
      /\ UNCHANGED <<tables, manifest, replay, last_sequence, log_number, mem, imm, current,
                     pending_outputs_, bg_error_, writeVars, bg_compaction_scheduled_, flush,
                     compact, reader, answer, sync>>
  BY DEF NewLog, histVars
<1>3. /\ edit # NoEdit /\ edit.added \subseteq Nat /\ next_file_number \in Nat
      /\ last_sequence \in Nat /\ next_file_number + 1 \in Nat /\ ~edit.logged
      /\ flush = NoFlush /\ compact = NoCompaction /\ reader = NoReader
  BY <1>1, <1>2, WorkFacts DEF Control, NumberTypes
<1>4. /\ edit' \in EditRecord /\ edit' # NoEdit /\ edit'.by = "open" /\ edit'.added = edit.added
      /\ edit'.deleted = {} /\ edit'.log = next_file_number /\ edit'.next = next_file_number + 1
      /\ edit'.last = last_sequence /\ edit'.logged = FALSE
  <2>1. edit' = [by |-> "open", added |-> edit.added, deleted |-> {}, log |-> next_file_number,
                 next |-> next_file_number + 1, last |-> last_sequence, logged |-> FALSE]
    BY <1>2 DEF VersionEdit
  <2>2. edit' \in EditRecord
    BY <1>3, <2>1 DEF EditRecord
  <2> QED
    BY <2>1, <2>2, StoreAssumption
<1>5. DOMAIN logs' = DOMAIN logs \cup {next_file_number} /\ logs' \in [DOMAIN logs' -> LogFile]
      /\ logs'[next_file_number] = EmptyLog
      /\ \A n \in DOMAIN logs : n # next_file_number => logs'[n] = logs[n]
  BY <1>1, <1>2, NewLogFile
<1>6. DiskTypes'
  BY <1>1, <1>2, <1>3, <1>5, EmptyLogFacts DEF DiskTypes
<1>7. NumberTypes' /\ MemTypes' /\ WriteTypes' /\ FlagTypes' /\ WorkTypes'
  BY <1>1, <1>2, <1>3, <1>4 DEF NumberTypes, MemTypes, WriteTypes, FlagTypes, WorkTypes, writeVars
<1>8. Queue'
  BY <1>1, <1>2 DEF Queue, writeVars
<1>9. Control'
  BY <1>1, <1>2, <1>4 DEF Control
<1>10. Files'
  <2>1. /\ manifest.tables = current /\ manifest.tables \cup current \subseteq DOMAIN tables
        /\ edit.added \subseteq DOMAIN tables
    BY <1>1, <1>2, <1>3 DEF Files, Control
  <2> QED
    BY <1>2, <1>3, <1>4, <2>1 DEF Files
<1>11. Numbers'
  <2>1. \A n \in DOMAIN logs : n < next_file_number
    BY <1>1, <1>2 DEF Numbers
  <2>2. DOMAIN logs' \subseteq Nat /\ manifest.next \in Nat
    BY <1>1, <1>6, WorkFacts DEF DiskTypes
  <2>3. /\ manifest.next <= next_file_number /\ manifest.log < manifest.next
        /\ \A n \in edit.added : n < next_file_number
        /\ \A n \in manifest.tables : n < manifest.next
    BY <1>1, <1>2 DEF Numbers
  <2>4. \A n \in DOMAIN logs' : n < next_file_number + 1 /\ n <= next_file_number
    BY <1>3, <1>5, <2>1, <2>2
  <2>5. manifest.next <= next_file_number + 1 /\ \A n \in edit.added : n < next_file_number + 1
    BY <1>3, <2>2, <2>3
  <2> QED
    BY <1>2, <1>3, <1>4, <1>5, <2>3, <2>4, <2>5 DEF Numbers
<1>12. Sequences'
  <2>1. manifest.last <= last_sequence
        /\ (\A n \in edit.added : \A e \in tables[n] : e[1] <= last_sequence)
        /\ (\A n \in manifest.tables : \A e \in tables[n] : e[1] <= manifest.last)
    BY <1>1, <1>2 DEF Sequences
  <2> QED
    BY <1>2, <1>3, <1>4, <2>1 DEF Sequences
<1> QED
  BY <1>6, <1>7, <1>8, <1>9, <1>10, <1>11, <1>12 DEF BaseInv, Types

-----------------------------------------------------------------------------
(* The invariant of files and numbers. *)

\* It holds of a new database.
LEMMA BaseInit == ASSUME Init PROVE BaseInv
<1>1. logs = [n \in {} |-> EmptyLog] /\ tables = [n \in {} |-> {}]
      /\ manifest = [tables |-> {}, log |-> 0, next |-> 2, last |-> 0, end |-> "whole"]
  BY DEF Init
<1>2. DOMAIN logs = {} /\ DOMAIN tables = {}
  BY <1>1
<1>3. logs \in [DOMAIN logs -> LogFile] /\ tables \in [DOMAIN tables -> SUBSET Entry]
  BY <1>1, <1>2
<1>4. manifest \in Manifest /\ manifest.tables = {} /\ manifest.log = 0 /\ manifest.next = 2
  BY <1>1 DEF Manifest
<1>5. DiskTypes
  BY <1>2, <1>3, <1>4 DEF DiskTypes
<1>6. NumberTypes /\ MemTypes /\ WorkTypes /\ FlagTypes
  BY DEF Init, NumberTypes, MemTypes, WorkTypes, FlagTypes
<1>7. writers_ = <<>> /\ group = <<>> /\ stage = "front" /\ answer = [w \in Writes |-> "none"]
      /\ state = "down" /\ flush = NoFlush /\ compact = NoCompaction /\ edit = NoEdit
      /\ reader = NoReader /\ current = {}
  BY DEF Init
<1>8. writers_ \in Seq(Writes) /\ group \in Seq(Writes) /\ Len(writers_) = 0 /\ Len(group) = 0
  BY <1>7
<1>9. WriteTypes
  BY <1>7, <1>8 DEF WriteTypes
<1>10. Queue
  <2>1. 1 .. Len(writers_) = {} /\ 1 .. Len(group) = {}
    BY <1>8
  <2> QED
    BY <1>7, <1>8, <2>1 DEF Queue
<1>11. Control
  BY DEF Init, Control
<1>12. Files
  BY <1>4, <1>7 DEF Files
<1>13. Numbers
  BY <1>4, <1>7 DEF Numbers
<1>14. Sequences
  BY <1>4, <1>7 DEF Sequences
<1> QED
  BY <1>5, <1>6, <1>9, <1>10, <1>11, <1>12, <1>13, <1>14 DEF BaseInv, Types

\* A step in which nothing happens.
LEMMA BaseStutter == ASSUME BaseInv, UNCHANGED vars PROVE BaseInv'
<1>1. UNCHANGED <<diskVars, openVars, numberVars, mem, imm, current, pending_outputs_,
                  bg_error_, writeVars, bgVars, reader, answer, histVars>>
  BY DEF vars
<1>2. NoQueueInv'
  BY <1>1, QuietFrame DEF bgVars
<1>3. WriteTypes' /\ Queue'
  BY <1>1, QueueFrame DEF writeVars, histVars, openVars
<1>4. FlagTypes'
  BY <1>1 DEF BaseInv, Types, FlagTypes, bgVars
<1> QED
  BY <1>2, <1>3, <1>4 DEF NoQueueInv, BaseInv, Types

\* Every step keeps it.
LEMMA BaseStep == ASSUME BaseInv, [Next]_vars PROVE BaseInv'
<1>1. CASE \E w \in Writes : Enqueue(w)
  BY <1>1, BaseEnqueue
<1>2. CASE WriterStep
  <2>1. CASE RejectWrite
    BY <2>1, BaseRejectWrite
  <2>2. CASE WaitForFlush
    BY <2>2, BaseWaitForFlush
  <2>3. CASE \E n \in 1 .. Len(writers_) : BuildBatchGroup(n)
    BY <2>3, BaseBuildBatchGroup
  <2>4. CASE \E ok \in BOOLEAN : SwitchMemTable(ok)
    BY <2>4, BaseSwitchMemTable
  <2>5. CASE \E ok \in BOOLEAN : AddRecord(ok)
    BY <2>5, BaseAddRecord
  <2>6. CASE \E ok \in BOOLEAN : SyncLog(ok)
    BY <2>6, BaseSyncLog
  <2>7. CASE FinishWrite
    BY <2>7, BaseFinishWrite
  <2> QED
    BY <1>2, <2>1, <2>2, <2>3, <2>4, <2>5, <2>6, <2>7 DEF WriterStep
<1>3. CASE BackgroundStep
  <2>1. CASE StartFlush \/ GiveUp
    BY <2>1, BaseStartFlush, BaseGiveUp
  <2>2. CASE \E ok \in BOOLEAN : BuildTable(ok)
    BY <2>2, BaseBuildTable
  <2>3. CASE \E inputs \in SUBSET current : StartCompaction(inputs)
    BY <2>3, BaseStartCompaction
  <2>4. CASE OpenCompactionOutputFile \/ FinishCompactionOutputFile
    BY <2>4, BaseOpenCompactionOutputFile, BaseFinishCompactionOutputFile
  <2>5. CASE AbortCompaction \/ InstallCompactionResults
    BY <2>5, BaseAbortCompaction, BaseInstallCompactionResults
  <2>6. CASE LogEdit \/ LogEditFails
    BY <2>6, BaseLogEdit, BaseLogEditFails
  <2>7. CASE InstallFlush \/ InstallCompaction
    BY <2>7, BaseInstallFlush, BaseInstallCompaction
  <2> QED
    BY <1>3, <2>1, <2>2, <2>3, <2>4, <2>5, <2>6, <2>7 DEF BackgroundStep
<1>4. CASE NewIterator \/ DeleteIterator
  BY <1>4, BaseNewIterator, BaseDeleteIterator
<1>5. CASE Kill \/ PowerLoss
  BY <1>5, BaseKill, BasePowerLoss
<1>6. CASE Recover \/ OpenFails \/ NewLog \/ FinishOpen
  BY <1>6, BaseRecover, BaseOpenFails, BaseNewLog, BaseFinishOpen
<1>7. CASE \E n \in replay : RecoverLogFile(n)
  BY <1>7, BaseRecoverLogFile
<1>8. CASE UNCHANGED vars
  BY <1>8, BaseStutter
<1> QED
  BY <1>1, <1>2, <1>3, <1>4, <1>5, <1>6, <1>7, <1>8 DEF Next

\* It is an invariant.
LEMMA BaseAlways == Spec => []BaseInv
<1>1. Init => BaseInv
  BY BaseInit
<1>2. BaseInv /\ [Next]_vars => BaseInv'
  BY BaseStep
<1> QED
  BY <1>1, <1>2, PTL DEF Spec

\* The variables keep their types, the writers in the queue wait for their
\* answer and the group is the front of the queue (DBImpl::Write, writers_),
\* through every fault and crash.
THEOREM StoreTypes == Spec => []TypeOK
<1>1. ASSUME BaseInv PROVE TypeOK
  <2>1. DiskTypes /\ NumberTypes /\ MemTypes /\ WriteTypes /\ FlagTypes /\ Types /\ Queue
    BY <1>1 DEF BaseInv, Types
  <2>2. manifest.tables \subseteq Nat
    BY <2>1, WorkFacts
  <2>3. group = SubSeq(writers_, 1, Len(group))
    <3>1. writers_ \in Seq(Writes) /\ group \in Seq(Writes) /\ Len(group) \in Nat
          /\ Len(group) <= Len(writers_) /\ \A i \in 1 .. Len(group) : group[i] = writers_[i]
      BY <2>1 DEF WriteTypes, Queue
    <3>2. /\ SubSeq(writers_, 1, Len(group)) \in Seq(Writes)
          /\ Len(SubSeq(writers_, 1, Len(group))) = Len(group)
          /\ \A i \in 1 .. Len(group) : SubSeq(writers_, 1, Len(group))[i] = writers_[i]
      BY <3>1
    <3> QED
      BY <3>1, <3>2
  <2>4. \A i \in DOMAIN writers_ : answer[writers_[i]] = "asked"
    BY <2>1 DEF WriteTypes, Queue
  <2>5. \A n \in DOMAIN tables : tables[n] \subseteq Entry
    BY <2>1 DEF DiskTypes
  <2> QED
    BY <2>1, <2>2, <2>3, <2>4, <2>5 DEF TypeOK, DiskTypes, NumberTypes, MemTypes, WriteTypes, FlagTypes
<1> QED
  BY <1>1, BaseAlways, PTL

\* No file number and no sequence number is given out twice: every file on the
\* disk is below VersionSet::next_file_number_ and every entry that is stored
\* at most last_sequence_, whatever crash interrupted whatever Open.
THEOREM NumbersStayFresh == Spec => []NumbersFresh
<1>1. ASSUME BaseInv PROVE NumbersFresh
  BY <1>1 DEF BaseInv, NumbersFresh, Numbers, Sequences, Control
<1> QED
  BY <1>1, BaseAlways, PTL

\* DBImpl::DeleteObsoleteFiles never deletes a table that the manifest, the
\* current version, an iterator or a compaction at work needs.
THEOREM NeededFilesStay == Spec => []NeededFilesExist
<1>1. ASSUME BaseInv PROVE NeededFilesExist
  BY <1>1 DEF BaseInv, NeededFilesExist, Files
<1> QED
  BY <1>1, BaseAlways, PTL

-----------------------------------------------------------------------------
(* The engine implements KeyStore: what the logs and the tables hold,      *)
(* against what readers see, in every state of the process and the disk.   *)

\* The entries of tables S in file system t, of logs S in l, the synced ones of
\* those logs, and the logs from number k on.
InTables(t, S) == UNION {t[n] : n \in S}
InLogs(l, S) == UNION {LogEntries(l[n], Len(l[n].records)) : n \in S}
SyncedIn(l, S) == UNION {LogEntries(l[n], l[n].synced) : n \in S}
From(l, k) == {m \in DOMAIN l : m >= k}

\* What readers see, or would once the database is open.
Hist == IF state = "up" THEN Visible ELSE Recoverable

\* The entries of the group at work, once its record may be in the log.
Appended == {"sync", "insert", "unsynced"}
Tried == {"sync", "insert", "unsynced", "failed"}
InFlight == IF stage \in Tried THEN EntriesOf(GroupRecord) ELSE {}

\* Whatever is stored somewhere and may come to light again.
Held ==
    Recoverable \cup
    (IF state = "up" THEN Visible \cup InFlight \cup InLogs(logs, From(logs, log_number))
                     ELSE {})

\* Entry e is of a write that the engine has given up.
GivenUp(e) == answer[e[2]] = "failed"

-----------------------------------------------------------------------------
(* The inductive invariant. *)

\* Which logs the manifest needs, and the ones it will need after the edit.
EditRange ==
    /\ edit # NoEdit /\ edit.logged /\ manifest.end # "lost" =>
          manifest.log = edit.log /\ edit.added \subseteq manifest.tables
    /\ state = "opening" =>
          /\ logs[logfile_number_].records = <<>> /\ ~logs[logfile_number_].torn
          /\ edit.log = logfile_number_
    /\ state = "up" =>
          /\ manifest.end # "lost" => log_number <= manifest.log
          /\ manifest.log <= logfile_number_
          /\ edit # NoEdit =>
                edit.log = IF edit.by = "flush" THEN logfile_number_ ELSE log_number

\* The record of the group is the last one of the log, unless the log is torn,
\* and is synced in time.
RecordLogged ==
    stage \in Appended /\ ~logs[logfile_number_].torn =>
        LET log == logs[logfile_number_]
        IN  /\ log.records # <<>> /\ log.records[Len(log.records)] = GroupRecord
            /\ stage = "insert" /\ group[1] \in sync => log.synced = Len(log.records)

\* While Open is at work its tables hold what the logs it has replayed do.
Replayed ==
    /\ state = "replaying" =>
          /\ \A n \in replay : n >= manifest.log
          /\ InTables(tables, edit.added) = InLogs(logs, From(logs, manifest.log) \ replay)
    /\ state = "opening" /\ ~edit.logged =>
          InTables(tables, edit.added) = InLogs(logs, From(logs, manifest.log))

\* The old logs that are still needed hold nothing but what readers see and
\* what was given up, and so does the current one, apart from the group at work.
\* What is in mem has been acknowledged.
LogContents ==
    state = "up" =>
        /\ \A n \in DOMAIN logs :
              (n >= log_number \/ n >= manifest.log) /\ n # logfile_number_ =>
                 \A e \in InLog(n) : e \in imm \cup InTables(tables, current) \/ GivenUp(e)
        /\ \A e \in InLog(logfile_number_) : e \in mem \cup InFlight \/ GivenUp(e)
        /\ \A e \in mem : answer[e[2]] = "ok"

\* The tables of the manifest are those of the current version, but perhaps for
\* a flush, and as long as the manifest can be read; the outputs hold what they
\* should.
TableContents ==
    state = "up" =>
        /\ manifest.end # "lost" =>
              InTables(tables, current) \subseteq InTables(tables, manifest.tables)
        /\ InTables(tables, manifest.tables) \subseteq imm \cup InTables(tables, current)
        /\ flush # NoFlush => imm # {}
        /\ edit # NoEdit /\ edit.by = "flush" => tables[flush] = imm
        /\ compact # NoCompaction /\ compact.written =>
              tables[compact.output] = InTables(tables, compact.inputs)

\* The pairs that are stored are of writes that had their answer, or are being
\* written; no sequence number and no write is in two of them.
Pairs ==
    /\ \A g, h \in Held : g[1] = h[1] \/ g[2] = h[2] => g = h
    /\ \A h \in Held : h \in InFlight \/ answer[h[2]] \in {"ok", "failed", "lost"}
    /\ state = "up" => \A h \in Held : h \in InFlight \/ h[1] <= last_sequence

ContentInv ==
    EditRange /\ RecordLogged /\ Replayed /\ LogContents /\ TableContents /\ Pairs

StoreInv == BaseInv /\ ContentInv

-----------------------------------------------------------------------------
(* Steps of KeyStore. *)

StoreStep == [Store!Next]_(Store!storeVars)

\* A step that nobody can tell from none.
LEMMA StutterStep ==
    ASSUME Hist' = Hist, Recoverable' = Recoverable, Durable' = Durable, Torn' = Torn,
           UNCHANGED <<answer, sync, outages>>
    PROVE  StoreStep
BY DEF StoreStep, Store!storeVars, Hist

\* More becomes durable.
LEMMA PersistStep ==
    ASSUME Hist' = Hist, Hist \cap Recoverable \subseteq Recoverable',
           Hist \cap Durable \subseteq Durable', Torn' = Torn \/ Torn' = FALSE,
           UNCHANGED <<answer, sync, outages>>
    PROVE  StoreStep
<1>1. Store!Persist
  BY DEF Store!Persist, Store!Kept, Hist
<1> QED
  BY <1>1 DEF StoreStep, Store!Next

\* A write is asked for.
LEMMA AskStep ==
    ASSUME Hist' = Hist, Recoverable' = Recoverable, Durable' = Durable, Torn' = Torn,
           UNCHANGED outages,
           NEW w \in Writes, answer[w] = "none", answer' = [answer EXCEPT ![w] = "asked"],
           sync' = sync \/ sync' = sync \cup {w}
    PROVE  StoreStep
<1>1. Store!Ask(w)
  BY DEF Store!Ask, Hist
<1> QED
  BY <1>1 DEF StoreStep, Store!Next

\* Writes fail.
LEMMA RejectStep ==
    ASSUME Hist' = Hist, Recoverable' = Recoverable, Durable' = Durable,
           Torn' = Torn \/ Torn' = TRUE, UNCHANGED <<sync, outages>>,
           NEW S \in SUBSET Writes, S # {}, \A w \in S : answer[w] = "asked",
           answer' = [w \in Writes |-> IF w \in S THEN "failed" ELSE answer[w]]
    PROVE  StoreStep
<1>1. Store!Reject(S)
  BY DEF Store!Reject, Hist
<1> QED
  BY <1>1 DEF StoreStep, Store!Next

\* Writes take effect.
LEMMA CommitStep ==
    ASSUME NEW S \in SUBSET Writes, NEW G,
           Hist' = Hist \cup G, G \cap Hist = {}, {g[2] : g \in G} = S,
           \A w \in S : answer[w] = "asked",
           \A g \in G, h \in Hist : g[1] > h[1],
           \A g, f \in G : g[1] = f[1] \/ g[2] = f[2] => g = f,
           Torn \/ G \subseteq Recoverable',
           Torn \/ \A g \in G : g[2] \in sync => g \in Durable',
           answer' = [w \in Writes |-> IF w \in S THEN "ok" ELSE answer[w]],
           Recoverable' = Recoverable, Durable' = Durable, Torn' = Torn,
           UNCHANGED <<sync, outages>>
    PROVE  StoreStep
<1>1. G \in SUBSET (Hist' \ Hist)
  OBVIOUS
<1>2. Store!Commit(S)
  BY <1>1 DEF Store!Commit, Store!Follows, Store!Kept, Hist
<1> QED
  BY <1>2 DEF StoreStep, Store!Next

\* The process or the machine stops.
LEMMA CrashStep ==
    ASSUME \/ outages' = outages /\ Hist \cap Recoverable \subseteq Hist'
           \/ outages' = outages + 1 /\ Hist \cap Durable \subseteq Hist',
           \A h \in Hist' \ Hist : answer[h[2]] \in {"asked", "failed", "lost"},
           \A g, h \in Hist' : g[1] = h[1] \/ g[2] = h[2] => g = h,
           answer' = [w \in Writes |-> IF answer[w] = "asked" THEN "lost" ELSE answer[w]],
           Hist' \subseteq Recoverable', Hist \cap Durable \subseteq Durable', Torn' = FALSE,
           UNCHANGED sync
    PROVE  StoreStep
<1>1. Store!Kill \/ Store!PowerLoss
  BY DEF Store!Kill, Store!PowerLoss, Store!Crash, Hist
<1> QED
  BY <1>1 DEF StoreStep, Store!Next

\* The log in use is torn as much as before.
LEMMA SameTorn ==
    ASSUME UNCHANGED <<state, logfile_number_>>, stage' = "failed" <=> stage = "failed",
           state = "up" => logs'[logfile_number_].torn = logs[logfile_number_].torn
    PROVE  Torn' = Torn
BY DEF Torn

\* No log is in use unless the database is open.
LEMMA NoLogInUse ==
    /\ state # "up" => Torn = FALSE
    /\ state' # "up" => Torn' = FALSE
BY DEF Torn

-----------------------------------------------------------------------------
(* Facts about the contents of files. *)

\* Recoverable and Durable, now and after the step.
LEMMA DiskContents ==
    /\ Recoverable = InTables(tables, manifest.tables) \cup InLogs(logs, From(logs, manifest.log))
    /\ Durable = InTables(tables, manifest.tables) \cup SyncedIn(logs, From(logs, manifest.log))
    /\ Recoverable' = InTables(tables', manifest'.tables) \cup InLogs(logs', From(logs', manifest'.log))
    /\ Durable' = InTables(tables', manifest'.tables) \cup SyncedIn(logs', From(logs', manifest'.log))
    /\ Visible = mem \cup imm \cup InTables(tables, current)
    /\ Visible' = mem' \cup imm' \cup InTables(tables', current')
BY DEF Recoverable, Durable, Visible, TableEntries, InTables, InLogs, SyncedIn, From

\* Held, now and after the step.
LEMMA HeldParts ==
    /\ state = "up" =>
          Held = Recoverable \cup Visible \cup InFlight \cup InLogs(logs, From(logs, log_number))
    /\ state # "up" => Held = Recoverable
    /\ state' = "up" =>
          Held' = Recoverable' \cup Visible' \cup InFlight'
                     \cup InLogs(logs', From(logs', log_number'))
    /\ state' # "up" => Held' = Recoverable'
BY DEF Held, InLogs, From

\* A step that leaves the disk, the memtables and the version alone.
LEMMA SameDisk ==
    ASSUME UNCHANGED <<logs, tables, manifest>>
    PROVE  Recoverable' = Recoverable /\ Durable' = Durable /\ \A n : InLog(n)' = InLog(n)
BY DEF Recoverable, Durable, TableEntries, InLog

\* What is on the disk are pairs of a sequence number and a write.
LEMMA ContentsTyped ==
    ASSUME BaseInv
    PROVE  /\ \A n \in DOMAIN logs : InLog(n) \subseteq Entry
           /\ Recoverable \subseteq Entry /\ Visible \subseteq Entry /\ Held \subseteq Entry
           /\ \A e \in Entry : e[1] \in Nat /\ e[2] \in Writes
<1>1. DiskTypes /\ MemTypes /\ Files /\ Types
  BY DEF BaseInv, Types
<1>2. ASSUME NEW n \in DOMAIN logs PROVE InLog(n) \subseteq Entry
  <2>1. logs[n] \in LogFile /\ Len(logs[n].records) \in Nat
    BY <1>1 DEF DiskTypes, LogFile
  <2> QED
    BY <2>1, LogEntriesTyped DEF InLog
<1>3. TableEntries(manifest.tables) \subseteq Entry /\ TableEntries(current) \subseteq Entry
  BY <1>1, TableEntriesTyped DEF Files
<1>4. Recoverable \subseteq Entry
  BY <1>2, <1>3 DEF Recoverable, InLog
<1>5. Visible \subseteq Entry
  BY <1>1, <1>3 DEF Visible, MemTypes
<1>6. InLogs(logs, From(logs, log_number)) \subseteq Entry
  BY <1>2 DEF InLogs, From, InLog
<1>7. InFlight \subseteq Entry
  BY <1>1, GroupRecordTyped DEF InFlight
<1>8. Held \subseteq Entry
  BY <1>4, <1>5, <1>6, <1>7, HeldParts
<1> QED
  BY <1>2, <1>4, <1>5, <1>8 DEF Entry

\* Fewer pairs are pairs still.
LEMMA FewerPairs ==
    ASSUME Pairs, Held' \subseteq Held, InFlight' = InFlight,
           UNCHANGED <<answer, last_sequence>>, state' = "up" => state = "up"
    PROVE  Pairs'
BY DEF Pairs

\* Such a step changes nothing a reader can see, nor the contents of files,
\* provided it drops no answer, no error and no output that was written.
LEMMA QuietContent ==
    ASSUME StoreInv,
           UNCHANGED <<logs, tables, manifest, state, replay, last_sequence, log_number,
                       logfile_number_, mem, imm, current, edit>>,
           InFlight' = InFlight, RecordLogged',
           \A w \in Writes : answer[w] \in {"ok", "failed", "lost"} => answer'[w] = answer[w],
           flush' = flush \/ (edit = NoEdit /\ (flush' = NoFlush \/ imm # {})),
           \/ compact' = NoCompaction
           \/ ~compact'.written
           \/ compact' = compact
    PROVE  ContentInv' /\ Hist' = Hist /\ Recoverable' = Recoverable /\ Durable' = Durable
<1>1. EditRange /\ Replayed /\ LogContents /\ TableContents /\ Pairs /\ BaseInv
  BY DEF StoreInv, ContentInv
<1>2. Recoverable' = Recoverable /\ Durable' = Durable /\ \A n : InLog(n)' = InLog(n)
  BY SameDisk
<1>3. EditRange'
  BY <1>1 DEF EditRange
<1>4. Replayed'
  BY <1>1 DEF Replayed
<1>5. LogContents'
  <2> SUFFICES ASSUME state = "up" PROVE LogContents'
    BY DEF LogContents
  <2>1. InLog(logfile_number_)' = InLog(logfile_number_)
    BY DEF InLog
  <2>2. \A n \in DOMAIN logs : InLog(n)' = InLog(n)
    BY DEF InLog
  <2>3. /\ \A n \in DOMAIN logs : \A e \in InLog(n) : e[2] \in Writes
        /\ \A e \in mem : e[2] \in Writes
        /\ logfile_number_ \in DOMAIN logs
    <3>1. mem \subseteq Visible
      BY DEF Visible
    <3> QED
      BY <1>1, <3>1, ContentsTyped DEF BaseInv, Numbers
  <2>4. \A n \in DOMAIN logs : \A e \in InLog(n) : GivenUp(e) => GivenUp(e)'
    BY <2>3 DEF GivenUp
  <2>5. \A e \in mem' : answer'[e[2]] = "ok"
    BY <1>1, <2>3 DEF LogContents
  <2>6. \A e \in InLog(logfile_number_)' : e \in mem' \cup InFlight' \/ GivenUp(e)'
    BY <1>1, <2>1, <2>3, <2>4 DEF LogContents
  <2>7. ASSUME NEW n \in DOMAIN logs', (n >= log_number' \/ n >= manifest'.log) /\ n # logfile_number_',
               NEW e \in InLog(n)'
        PROVE  e \in imm' \cup InTables(tables', current') \/ GivenUp(e)'
    <3>1. e \in imm \cup InTables(tables, current) \/ GivenUp(e)
      BY <1>1, <2>2, <2>7 DEF LogContents
    <3> QED
      BY <2>2, <2>4, <2>7, <3>1
  <2> QED
    BY <2>5, <2>6, <2>7 DEF LogContents
<1>6. TableContents'
  BY <1>1, <1>2 DEF TableContents
<1>7. Hist' = Hist /\ Visible' = Visible
  BY <1>2 DEF Hist, Visible, TableEntries
<1>8. Pairs'
  <2>1. Held' = Held
    BY <1>2, <1>7, HeldParts
  <2>2. \A h \in Held : h[2] \in Writes
    BY <1>1, ContentsTyped
  <2> QED
    BY <1>1, <2>1, <2>2 DEF Pairs
<1> QED
  BY <1>2, <1>3, <1>4, <1>5, <1>6, <1>7, <1>8 DEF ContentInv

\* A step between stages in which no record is in the log.
LEMMA NoRecord ==
    ASSUME stage \notin Tried, stage' \notin Tried
    PROVE  InFlight = {} /\ InFlight' = {} /\ RecordLogged'
BY DEF InFlight, RecordLogged, Tried, Appended

\* A step that leaves the group and its record alone.
LEMMA SameRecord ==
    ASSUME StoreInv, UNCHANGED <<logs, last_sequence, logfile_number_, group, sync>>,
           stage' = stage \/ SignalAll
    PROVE  InFlight' = InFlight /\ RecordLogged' /\ (UNCHANGED state => Torn' = Torn)
<1>1. stage' = stage \/ (stage \notin Tried /\ stage' \notin Tried)
  BY DEF SignalAll, Tried
<1>2. UNCHANGED state => Torn' = Torn
  <2>1. stage' = "failed" <=> stage = "failed"
    BY <1>1 DEF Tried
  <2> QED
    BY <2>1, SameTorn
<1>3. CASE stage' = stage
  BY <1>2, <1>3 DEF InFlight, GroupRecord, RecordLogged, StoreInv, ContentInv
<1>4. CASE stage \notin Tried /\ stage' \notin Tried
  BY <1>2, <1>4, NoRecord
<1> QED
  BY <1>1, <1>3, <1>4

\* A write is asked for.
LEMMA ContentEnqueue ==
    ASSUME StoreInv, NEW w \in Writes, Enqueue(w)
    PROVE  ContentInv' /\ StoreStep
<1>1. /\ answer[w] = "none" /\ answer' = [answer EXCEPT ![w] = "asked"]
      /\ (sync' = sync \/ sync' = sync \cup {w})
      /\ UNCHANGED <<logs, tables, manifest, state, replay, last_sequence, log_number,
                     logfile_number_, mem, imm, current, edit, flush, compact, bg_error_,
                     stage, group, outages>>
  BY DEF Enqueue, diskVars, openVars, numberVars, bgVars
<1>2. InFlight' = InFlight
  BY <1>1 DEF InFlight, GroupRecord
<1>3. RecordLogged'
  <2>1. ASSUME stage = "insert", group[1] \in sync' PROVE group[1] \in sync
    <3>1. Queue /\ WriteTypes
      BY DEF StoreInv, BaseInv, Types
    <3>2. 1 \in 1 .. Len(group) /\ 1 \in 1 .. Len(writers_) /\ group[1] = writers_[1]
      BY <2>1, <3>1 DEF Queue, WriteTypes
    <3>3. answer[group[1]] = "asked"
      BY <3>1, <3>2 DEF Queue
    <3> QED
      BY <1>1, <2>1, <3>3
  <2>2. RecordLogged
    BY DEF StoreInv, ContentInv
  <2> QED
    BY <1>1, <2>1, <2>2 DEF RecordLogged, GroupRecord
<1>4. \A v \in Writes : answer[v] \in {"ok", "failed", "lost"} => answer'[v] = answer[v]
  BY <1>1 DEF StoreInv, BaseInv, Types, WriteTypes
<1>5. ContentInv' /\ Hist' = Hist /\ Recoverable' = Recoverable /\ Durable' = Durable
  BY <1>1, <1>2, <1>3, <1>4, QuietContent
<1>6. Torn' = Torn
  BY <1>1, SameTorn
<1> QED
  BY <1>1, <1>5, <1>6, AskStep

\* The first n writers of the queue are dismissed: who they are.
LEMMA FirstAsked ==
    ASSUME StoreInv, NEW n \in Nat, n <= Len(writers_)
    PROVE  /\ FirstWriters(n) \in SUBSET Writes
           /\ \A w \in FirstWriters(n) : answer[w] = "asked"
<1>1. Queue /\ writers_ \in Seq(Writes) /\ Len(writers_) \in Nat
  BY DEF StoreInv, BaseInv, Types, WriteTypes
<1>2. \A i \in 1 .. n : i \in 1 .. Len(writers_) /\ writers_[i] \in Writes /\ answer[writers_[i]] = "asked"
  BY <1>1 DEF Queue
<1> QED
  BY <1>2 DEF FirstWriters

\* Writers are sent away without their write.
LEMMA ContentDismissed ==
    ASSUME StoreInv, NEW n \in Nat \ {0}, n <= Len(writers_), Dismiss(n, "failed"),
           stage = "front", UNCHANGED <<stage, sync, outages, bg_error_, flush, compact>>,
           UNCHANGED <<logs, tables, manifest, state, replay, last_sequence, log_number,
                       logfile_number_, mem, imm, current, edit>>
    PROVE  ContentInv' /\ StoreStep
<1>1. /\ FirstWriters(n) \in SUBSET Writes /\ \A w \in FirstWriters(n) : answer[w] = "asked"
      /\ answer' = [w \in Writes |-> IF w \in FirstWriters(n) THEN "failed" ELSE answer[w]]
  BY FirstAsked DEF Dismiss
<1>2. InFlight' = InFlight /\ RecordLogged'
  BY NoRecord DEF Tried
<1>3. \A v \in Writes : answer[v] \in {"ok", "failed", "lost"} => answer'[v] = answer[v]
  BY <1>1
<1>4. ContentInv' /\ Hist' = Hist /\ Recoverable' = Recoverable /\ Durable' = Durable
  BY <1>2, <1>3, QuietContent
<1>5. Torn' = Torn
  BY SameTorn
<1>6. FirstWriters(n) # {}
  <2>1. 1 \in 1 .. n
    OBVIOUS
  <2> QED
    BY <2>1 DEF FirstWriters
<1> QED
  BY <1>1, <1>4, <1>5, <1>6, RejectStep

\* The front writer is rejected.
LEMMA ContentRejectWrite == ASSUME StoreInv, RejectWrite PROVE ContentInv' /\ StoreStep
<1>1. 1 <= Len(writers_)
  BY DEF RejectWrite, AtFront, StoreInv, BaseInv, Types, WriteTypes
<1>2. /\ Dismiss(1, "failed") /\ stage = "front"
      /\ UNCHANGED <<stage, sync, outages, bg_error_, flush, compact>>
      /\ UNCHANGED <<logs, tables, manifest, state, replay, last_sequence, log_number,
                     logfile_number_, mem, imm, current, edit>>
  BY DEF RejectWrite, AtFront, diskVars, openVars, numberVars, bgVars, histVars
<1> QED
  BY <1>1, <1>2, ContentDismissed

\* The front writer waits, or takes a group: no record is in the log yet.
LEMMA ContentWaitOrGroup ==
    ASSUME StoreInv, WaitForFlush \/ \E n \in 1 .. Len(writers_) : BuildBatchGroup(n)
    PROVE  ContentInv' /\ StoreStep
<1>1. /\ stage = "front" /\ stage' \in {"wait", "append"}
      /\ UNCHANGED <<answer, sync, outages, bg_error_, flush, compact>>
      /\ UNCHANGED <<logs, tables, manifest, state, replay, last_sequence, log_number,
                     logfile_number_, mem, imm, current, edit>>
  BY DEF WaitForFlush, BuildBatchGroup, AtFront, diskVars, openVars, numberVars, bgVars, histVars
<1>2. InFlight' = InFlight /\ RecordLogged'
  BY <1>1, NoRecord DEF Tried
<1>3. ContentInv' /\ Hist' = Hist /\ Recoverable' = Recoverable /\ Durable' = Durable
  BY <1>1, <1>2, QuietContent
<1>4. Torn' = Torn
  BY <1>1, SameTorn
<1> QED
  BY <1>1, <1>3, <1>4, StutterStep

\* Steps of the background thread and of iterators that write no file, and
\* those that give up.
LEMMA ContentBackground ==
    ASSUME StoreInv,
           \/ StartFlush \/ GiveUp \/ BuildTable(FALSE)
           \/ \E inputs \in SUBSET current : StartCompaction(inputs)
           \/ OpenCompactionOutputFile \/ AbortCompaction
           \/ NewIterator \/ DeleteIterator \/ UNCHANGED vars
    PROVE  ContentInv' /\ StoreStep
<1> USE DEF diskVars, openVars, numberVars, bgVars, histVars, writeVars
<1>1. /\ UNCHANGED <<answer, sync, outages, group>>
      /\ UNCHANGED <<logs, tables, manifest, state, replay, last_sequence, log_number,
                     logfile_number_, mem, imm, current, edit>>
      /\ stage' = stage \/ SignalAll
      /\ bg_error_ => bg_error_'
  <2>1. CASE StartFlush \/ GiveUp
    BY <2>1 DEF StartFlush, GiveUp
  <2>2. CASE BuildTable(FALSE)
    BY <2>2 DEF BuildTable
  <2>3. CASE \E inputs \in SUBSET current : StartCompaction(inputs)
    BY <2>3 DEF StartCompaction
  <2>4. CASE OpenCompactionOutputFile
    BY <2>4 DEF OpenCompactionOutputFile
  <2>5. CASE AbortCompaction
    BY <2>5 DEF AbortCompaction, FailCompaction
  <2>6. CASE NewIterator \/ DeleteIterator \/ UNCHANGED vars
    BY <2>6 DEF NewIterator, DeleteIterator, vars
  <2> QED
    BY <2>1, <2>2, <2>3, <2>4, <2>5, <2>6
<1>2. flush' = flush \/ (edit = NoEdit /\ (flush' = NoFlush \/ imm # {}))
  <2>1. CASE StartFlush \/ GiveUp
    BY <2>1 DEF StartFlush, GiveUp
  <2>2. CASE BuildTable(FALSE)
    BY <2>2 DEF BuildTable
  <2>3. CASE \E inputs \in SUBSET current : StartCompaction(inputs)
    BY <2>3 DEF StartCompaction
  <2>4. CASE OpenCompactionOutputFile \/ AbortCompaction
    BY <2>4 DEF OpenCompactionOutputFile, AbortCompaction
  <2>5. CASE NewIterator \/ DeleteIterator \/ UNCHANGED vars
    BY <2>5 DEF NewIterator, DeleteIterator, vars
  <2> QED
    BY <2>1, <2>2, <2>3, <2>4, <2>5
<1>3. compact' = NoCompaction \/ ~compact'.written \/ compact' = compact
  <2>1. CASE StartFlush \/ GiveUp \/ BuildTable(FALSE)
    BY <2>1 DEF StartFlush, GiveUp, BuildTable
  <2>2. CASE \E inputs \in SUBSET current : StartCompaction(inputs)
    BY <2>2 DEF StartCompaction
  <2>3. CASE OpenCompactionOutputFile
    <3>1. /\ compact' = [compact EXCEPT !.output = next_file_number] /\ compact # NoCompaction
          /\ compact.output = 0
      BY <2>3 DEF OpenCompactionOutputFile, AtWork
    <3>2. compact \in CompactionState /\ ~compact.written
      BY <3>1 DEF StoreInv, BaseInv, Types, WorkTypes, Files
    <3>3. compact'.written = compact.written
      BY <3>1, <3>2 DEF CompactionState
    <3> QED
      BY <3>2, <3>3
  <2>4. CASE AbortCompaction
    BY <2>4 DEF AbortCompaction, FailCompaction
  <2>5. CASE NewIterator \/ DeleteIterator \/ UNCHANGED vars
    BY <2>5 DEF NewIterator, DeleteIterator, vars
  <2> QED
    BY <2>1, <2>2, <2>3, <2>4, <2>5
<1>4. InFlight' = InFlight /\ RecordLogged' /\ Torn' = Torn
  BY <1>1, SameRecord
<1>5. ContentInv' /\ Hist' = Hist /\ Recoverable' = Recoverable /\ Durable' = Durable
  BY <1>1, <1>2, <1>3, <1>4, QuietContent
<1> QED
  BY <1>1, <1>4, <1>5, StutterStep

-----------------------------------------------------------------------------
(* Steps of the front writer. *)

\* A longer part of a log holds more.
LEMMA LongerPrefix ==
    ASSUME NEW log, NEW n \in Nat, NEW m \in Nat, n <= m
    PROVE  LogEntries(log, n) \subseteq LogEntries(log, m)
<1>1. 1 .. n \subseteq 1 .. m
  OBVIOUS
<1> QED
  BY <1>1 DEF LogEntries

\* The entries of a log once record r was appended to it.
LEMMA AppendedEntries ==
    ASSUME NEW k, NEW r, logs[k] \in LogFile, logs'[k].records = Append(logs[k].records, r),
           logs'[k].synced = logs[k].synced, logs[k].synced <= Len(logs[k].records)
    PROVE  /\ LogEntries(logs'[k], Len(logs'[k].records)) =
                 LogEntries(logs[k], Len(logs[k].records)) \cup EntriesOf(r)
           /\ LogEntries(logs'[k], logs'[k].synced) = LogEntries(logs[k], logs[k].synced)
           /\ logs'[k].records # <<>> /\ logs'[k].records[Len(logs'[k].records)] = r
<1> DEFINE old == logs[k].records
           new == logs'[k].records
<1>1. old \in Seq(Record) /\ Len(old) \in Nat /\ logs[k].synced \in Nat
  BY DEF LogFile
<1>2. /\ Len(new) = Len(old) + 1
      /\ \A i \in 1 .. Len(old) : new[i] = old[i]
      /\ new[Len(old) + 1] = r
  BY <1>1
<1>3. 1 .. Len(new) = 1 .. Len(old) \cup {Len(old) + 1}
  BY <1>1, <1>2
<1>4. LogEntries(logs'[k], Len(old)) = LogEntries(logs[k], Len(old))
  BY <1>2 DEF LogEntries
<1>5. LogEntries(logs'[k], Len(new)) = LogEntries(logs'[k], Len(old)) \cup EntriesOf(r)
  BY <1>2, <1>3 DEF LogEntries
<1>6. LogEntries(logs'[k], logs[k].synced) = LogEntries(logs[k], logs[k].synced)
  <2>1. \A i \in 1 .. logs[k].synced : new[i] = old[i]
    BY <1>1, <1>2
  <2> QED
    BY <2>1 DEF LogEntries
<1>7. new # <<>>
  BY <1>1, <1>2
<1> QED
  BY <1>2, <1>4, <1>5, <1>6, <1>7

\* The entries of the group: its writes are waiting, each has its number.
LEMMA GroupEntries ==
    ASSUME BaseInv
    PROVE  /\ EntriesOf(GroupRecord) \subseteq Entry
           /\ \A e \in EntriesOf(GroupRecord) :
                 e[1] \in Nat /\ last_sequence < e[1] /\ e[1] <= last_sequence + Len(group)
           /\ {e[2] : e \in EntriesOf(GroupRecord)} = FirstWriters(Len(group))
           /\ \A e \in EntriesOf(GroupRecord) : e[2] \in FirstWriters(Len(group))
           /\ \A e, f \in EntriesOf(GroupRecord) : e[1] = f[1] \/ e[2] = f[2] => e = f
           /\ \A e \in EntriesOf(GroupRecord) : e[2] \in sync => group[1] \in sync
           /\ Len(group) \in Nat /\ Len(group) <= Len(writers_)
<1>1. Types /\ Queue
  BY DEF BaseInv
<1>2. /\ last_sequence \in Nat /\ group \in Seq(Writes) /\ writers_ \in Seq(Writes)
      /\ Len(group) \in Nat /\ Len(writers_) \in Nat
  BY <1>1 DEF Types, NumberTypes, WriteTypes
<1>3. EntriesOf(GroupRecord) = {<<last_sequence + i, group[i]>> : i \in 1 .. Len(group)}
  <2>1. DOMAIN group = 1 .. Len(group) /\ \A i \in 1 .. Len(group) : last_sequence + 1 + i - 1 = last_sequence + i
    BY <1>2
  <2> QED
    BY <2>1 DEF EntriesOf, GroupRecord
<1>4. Len(group) <= Len(writers_)
      /\ \A i \in 1 .. Len(group) : i \in 1 .. Len(writers_) /\ group[i] = writers_[i]
  BY <1>1, <1>2 DEF Queue
<1>5. {e[2] : e \in EntriesOf(GroupRecord)} = FirstWriters(Len(group))
  <2>1. ASSUME NEW e \in EntriesOf(GroupRecord) PROVE e[2] \in FirstWriters(Len(group))
    BY <1>3, <1>4 DEF FirstWriters
  <2>2. ASSUME NEW w \in FirstWriters(Len(group))
        PROVE  \E e \in EntriesOf(GroupRecord) : w = e[2]
    <3>1. PICK i \in 1 .. Len(group) : w = writers_[i]
      BY DEF FirstWriters
    <3>2. <<last_sequence + i, group[i]>> \in EntriesOf(GroupRecord) /\ w = group[i]
      BY <1>3, <1>4, <3>1
    <3> QED
      BY <3>2
  <2> QED
    BY <2>1, <2>2
<1>6. \A e, f \in EntriesOf(GroupRecord) : e[1] = f[1] \/ e[2] = f[2] => e = f
  <2> SUFFICES ASSUME NEW e \in EntriesOf(GroupRecord), NEW f \in EntriesOf(GroupRecord),
                      e[1] = f[1] \/ e[2] = f[2]
               PROVE  e = f
    OBVIOUS
  <2>1. PICK i \in 1 .. Len(group) : e = <<last_sequence + i, group[i]>>
    BY <1>3
  <2>2. PICK j \in 1 .. Len(group) : f = <<last_sequence + j, group[j]>>
    BY <1>3
  <2>3. CASE e[1] = f[1]
    BY <1>2, <2>1, <2>2, <2>3
  <2>4. CASE e[2] = f[2]
    <3>1. writers_[i] = writers_[j]
      BY <1>4, <2>1, <2>2, <2>4
    <3>2. i = j
      BY <1>1, <1>4, <3>1 DEF Queue
    <3> QED
      BY <2>1, <2>2, <3>2
  <2> QED
    BY <2>3, <2>4
<1>7. \A e \in EntriesOf(GroupRecord) : e[2] \in sync => group[1] \in sync
  BY <1>1, <1>3 DEF Queue
<1>8. \A e \in EntriesOf(GroupRecord) : e[2] \in FirstWriters(Len(group))
  BY <1>5
<1> QED
  BY <1>1, <1>2, <1>4, <1>5, <1>6, <1>7, <1>8, GroupNumbers, GroupRecordTyped

\* The record of the group is appended.
LEMMA ContentAddRecord ==
    ASSUME StoreInv, NEW ok \in BOOLEAN, AddRecord(ok)
    PROVE  ContentInv' /\ StoreStep
<1> DEFINE k == logfile_number_
           G == EntriesOf(GroupRecord)
<1>1. BaseInv /\ Types /\ DiskTypes /\ NumberTypes /\ Numbers /\ Queue /\ Files /\ EditRange
      /\ LogContents /\ TableContents /\ Pairs
  BY DEF StoreInv, BaseInv, Types, ContentInv
<1>2. /\ state = "up" /\ stage = "append"
      /\ UNCHANGED <<tables, manifest, state, replay, last_sequence, log_number, logfile_number_,
                     mem, imm, current, bg_error_, writers_, group, flush, compact, edit, answer,
                     sync, outages>>
      /\ stage' = IF ok THEN (IF writers_[1] \in sync THEN "sync" ELSE "insert") ELSE "failed"
  BY DEF AddRecord, openVars, numberVars, bgVars
<1>3. k \in DOMAIN logs /\ manifest.log <= k /\ log_number <= k
      /\ k \in Nat /\ log_number \in Nat /\ manifest.log \in Nat
  BY <1>1, <1>2, WorkFacts DEF Numbers, EditRange, NumberTypes
<1>4. /\ DOMAIN logs' = DOMAIN logs
      /\ \A n \in DOMAIN logs : n # k => logs'[n] = logs[n]
      /\ \/ logs'[k].records = logs[k].records
         \/ logs'[k].records = Append(logs[k].records, GroupRecord)
      /\ logs'[k].torn \/ logs'[k].records = Append(logs[k].records, GroupRecord)
      /\ ok => logs'[k].torn = logs[k].torn
      /\ logs'[k].synced = logs[k].synced
  BY <1>1, <1>3, AddRecordLogs
<1>5. logs[k] \in LogFile /\ logs[k].synced <= Len(logs[k].records)
  BY <1>1, <1>3 DEF DiskTypes
<1>6. logs'[k].records = Append(logs[k].records, GroupRecord) =>
        /\ LogEntries(logs'[k], Len(logs'[k].records)) =
              LogEntries(logs[k], Len(logs[k].records)) \cup G
        /\ LogEntries(logs'[k], logs'[k].synced) = LogEntries(logs[k], logs[k].synced)
        /\ logs'[k].records # <<>> /\ logs'[k].records[Len(logs'[k].records)] = GroupRecord
  BY <1>4, <1>5, AppendedEntries
<1>7. PICK D \in {{}, G} :
        /\ LogEntries(logs'[k], Len(logs'[k].records)) =
              LogEntries(logs[k], Len(logs[k].records)) \cup D
        /\ LogEntries(logs'[k], logs'[k].synced) = LogEntries(logs[k], logs[k].synced)
  <2>1. CASE logs'[k].records = Append(logs[k].records, GroupRecord)
    BY <1>6, <2>1
  <2>2. CASE logs'[k].records = logs[k].records
    <3>1. /\ LogEntries(logs'[k], Len(logs'[k].records)) = LogEntries(logs[k], Len(logs[k].records))
          /\ LogEntries(logs'[k], logs'[k].synced) = LogEntries(logs[k], logs[k].synced)
      BY <1>4, <2>2 DEF LogEntries
    <3> QED
      BY <3>1
  <2> QED
    BY <1>4, <2>1, <2>2
<1>8. InLog(k)' = InLog(k) \cup D /\ \A n \in DOMAIN logs : n # k => InLog(n)' = InLog(n)
  BY <1>2, <1>4, <1>7 DEF InLog
<1>9. ASSUME NEW j \in Nat, j <= k
      PROVE  /\ InLogs(logs', From(logs', j)) = InLogs(logs, From(logs, j)) \cup D
             /\ SyncedIn(logs', From(logs', j)) = SyncedIn(logs, From(logs, j))
  <2>1. From(logs', j) = From(logs, j) /\ k \in From(logs, j) /\ From(logs, j) \subseteq DOMAIN logs
    BY <1>3, <1>4, <1>9 DEF From
  <2>2. \A n \in From(logs, j) : n # k => logs'[n] = logs[n]
    BY <1>4, <2>1
  <2>3. InLogs(logs', From(logs', j)) = InLogs(logs, From(logs, j)) \cup D
    BY <1>7, <2>1, <2>2 DEF InLogs
  <2>4. SyncedIn(logs', From(logs', j)) = SyncedIn(logs, From(logs, j))
    BY <1>7, <2>1, <2>2 DEF SyncedIn
  <2> QED
    BY <2>3, <2>4
<1>10. Recoverable' = Recoverable \cup D /\ Durable' = Durable /\ Visible' = Visible
  <2>1. /\ InLogs(logs', From(logs', manifest.log)) = InLogs(logs, From(logs, manifest.log)) \cup D
        /\ SyncedIn(logs', From(logs', manifest.log)) = SyncedIn(logs, From(logs, manifest.log))
    BY <1>3, <1>9
  <2> QED
    BY <1>2, <2>1, DiskContents
<1>11. InFlight = {} /\ InFlight' = G
  BY <1>2 DEF InFlight, Tried, GroupRecord
<1>12. EditRange'
  BY <1>1, <1>2 DEF EditRange
<1>13. RecordLogged'
  <2>1. group[1] = writers_[1]
    BY <1>1, <1>2 DEF Queue, Types, WriteTypes
  <2> QED
    BY <1>2, <1>4, <1>6, <2>1 DEF RecordLogged, GroupRecord, Appended
<1>14. Replayed'
  BY <1>2 DEF Replayed
<1>15. LogContents'
  <2>1. InLog(logfile_number_)' = InLog(k) \cup D
    BY <1>2, <1>8 DEF InLog
  <2>2. \A e \in InLog(logfile_number_)' : e \in mem' \cup InFlight' \/ GivenUp(e)'
    BY <1>1, <1>2, <1>11, <2>1 DEF LogContents, GivenUp
  <2>3. ASSUME NEW n \in DOMAIN logs', (n >= log_number' \/ n >= manifest'.log) /\ n # logfile_number_',
               NEW e \in InLog(n)'
        PROVE  e \in imm' \cup InTables(tables', current') \/ GivenUp(e)'
    <3>1. n \in DOMAIN logs /\ InLog(n)' = InLog(n)
      BY <1>2, <1>4, <1>8, <2>3
    <3> QED
      BY <1>1, <1>2, <2>3, <3>1 DEF LogContents, GivenUp
  <2>4. \A e \in mem' : answer'[e[2]] = "ok"
    BY <1>1, <1>2 DEF LogContents
  <2> QED
    BY <2>2, <2>3, <2>4 DEF LogContents
<1>16. TableContents'
  BY <1>1, <1>2 DEF TableContents
<1>17. Pairs'
  <2>1. Held' \subseteq Held \cup G
    <3>1. InLogs(logs', From(logs', log_number)) = InLogs(logs, From(logs, log_number)) \cup D
      BY <1>3, <1>9
    <3> QED
      BY <1>2, <1>10, <1>11, <3>1, HeldParts
  <2>2. /\ \A h \in Held : answer[h[2]] \in {"ok", "failed", "lost"} /\ h[1] <= last_sequence
        /\ \A h \in Held : h[1] \in Nat
    BY <1>1, <1>2, <1>11, ContentsTyped DEF Pairs
  <2>3. \A g \in G : g[1] \in Nat /\ last_sequence < g[1] /\ answer[g[2]] = "asked"
    BY <1>1, GroupEntries, FirstAsked
  <2>4. \A g \in G, h \in Held : g[1] # h[1] /\ g[2] # h[2]
    BY <1>1, <2>2, <2>3 DEF Types, NumberTypes
  <2>5. \A g, h \in Held' : g[1] = h[1] \/ g[2] = h[2] => g = h
    <3>1. /\ \A g, h \in Held : g[1] = h[1] \/ g[2] = h[2] => g = h
          /\ \A g, h \in G : g[1] = h[1] \/ g[2] = h[2] => g = h
      BY <1>1, GroupEntries DEF Pairs
    <3> QED
      BY <2>1, <2>4, <3>1
  <2> QED
    BY <1>2, <1>11, <2>1, <2>2, <2>5 DEF Pairs
<1>18. Hist' = Hist
  BY <1>2, <1>10 DEF Hist
<1>19. Torn' = Torn \/ Torn' = FALSE
  <2>1. CASE ok
    BY <1>2, <1>4, <2>1, SameTorn
  <2>2. CASE ~ok
    BY <1>2, <2>2 DEF Torn
  <2> QED
    BY <2>1, <2>2
<1>20. StoreStep
  BY <1>2, <1>10, <1>18, <1>19, PersistStep
<1> QED
  BY <1>12, <1>13, <1>14, <1>15, <1>16, <1>17, <1>20 DEF ContentInv

\* The log is synced, or not.
LEMMA ContentSyncLog ==
    ASSUME StoreInv, NEW ok \in BOOLEAN, SyncLog(ok)
    PROVE  ContentInv' /\ StoreStep
<1> DEFINE k == logfile_number_
<1>1. BaseInv /\ Types /\ DiskTypes /\ Numbers /\ EditRange /\ RecordLogged /\ LogContents
      /\ TableContents /\ Pairs
  BY DEF StoreInv, BaseInv, Types, ContentInv
<1>2. /\ state = "up" /\ stage = "sync"
      /\ UNCHANGED <<tables, manifest, state, replay, last_sequence, log_number, logfile_number_,
                     mem, imm, current, bg_error_, group, flush, compact, edit, answer, sync,
                     outages>>
  BY DEF SyncLog, openVars, numberVars, bgVars
<1>3. CASE ~ok
  <2>1. stage' = "unsynced" /\ UNCHANGED logs
    BY <1>3 DEF SyncLog
  <2>2. InFlight' = InFlight
    BY <1>2, <2>1 DEF InFlight, GroupRecord, Tried
  <2>3. RecordLogged'
    BY <1>1, <1>2, <2>1 DEF RecordLogged, GroupRecord, Appended
  <2>4. ContentInv' /\ Hist' = Hist /\ Recoverable' = Recoverable /\ Durable' = Durable
    BY <1>2, <2>1, <2>2, <2>3, QuietContent
  <2>5. Torn' = Torn
    BY <1>2, <2>1, SameTorn
  <2> QED
    BY <1>2, <2>4, <2>5, StutterStep
<1>4. CASE ok
  <2>1. logs' = [logs EXCEPT ![k].synced = Len(logs[k].records)] /\ stage' = "insert"
    BY <1>4 DEF SyncLog
  <2>2. k \in DOMAIN logs
    BY <1>1, <1>2 DEF Numbers
  <2>3. /\ DOMAIN logs' = DOMAIN logs
        /\ \A n \in DOMAIN logs : logs'[n].records = logs[n].records
        /\ logs'[k].synced = Len(logs[k].records)
        /\ \A n \in DOMAIN logs : logs[n].synced <= logs'[n].synced
        /\ logs' \in [DOMAIN logs' -> LogFile]
        /\ logs'[k].torn = logs[k].torn
    BY <1>1, <2>1, <2>2, SyncLogs
  <2>4. \A n \in DOMAIN logs : InLog(n)' = InLog(n)
    BY <2>3 DEF InLog, LogEntries
  <2>5. \A n \in DOMAIN logs : LogEntries(logs[n], logs[n].synced) \subseteq LogEntries(logs'[n], logs'[n].synced)
    <3> TAKE n \in DOMAIN logs
    <3>1. logs[n].synced \in Nat /\ logs'[n].synced \in Nat
      BY <1>1, <2>3 DEF DiskTypes, LogFile
    <3>2. 1 .. logs[n].synced \subseteq 1 .. logs'[n].synced
      BY <2>3, <3>1
    <3> QED
      BY <2>3, <3>2 DEF LogEntries
  <2>6. From(logs', manifest.log) = From(logs, manifest.log)
        /\ From(logs, manifest.log) \subseteq DOMAIN logs
    BY <2>3 DEF From
  <2>7. \A j : InLogs(logs', From(logs', j)) = InLogs(logs, From(logs, j))
    <3> TAKE j
    <3>1. From(logs', j) = From(logs, j) /\ From(logs, j) \subseteq DOMAIN logs
      BY <2>3 DEF From
    <3> QED
      BY <2>4, <3>1 DEF InLogs, InLog
  <2>8. SyncedIn(logs, From(logs, manifest.log)) \subseteq SyncedIn(logs', From(logs', manifest.log))
    BY <2>5, <2>6 DEF SyncedIn
  <2>9. Recoverable' = Recoverable /\ Durable \subseteq Durable' /\ Visible' = Visible
    BY <1>2, <2>7, <2>8, DiskContents
  <2>10. InFlight' = InFlight
    BY <1>2, <2>1 DEF InFlight, GroupRecord, Tried
  <2>11. EditRange' /\ Replayed'
    BY <1>1, <1>2 DEF EditRange, Replayed
  <2>12. RecordLogged'
    <3>1. logs'[k].records = logs[k].records /\ logs'[k].synced = Len(logs'[k].records)
      BY <2>2, <2>3
    <3> QED
      BY <1>1, <1>2, <2>1, <3>1 DEF RecordLogged, GroupRecord, Appended
  <2>13. LogContents'
    <3>1. InLog(logfile_number_)' = InLog(k)
      BY <1>2, <2>2, <2>4 DEF InLog
    <3> QED
      BY <1>1, <1>2, <2>3, <2>4, <2>10, <3>1 DEF LogContents, GivenUp
  <2>14. TableContents'
    BY <1>1, <1>2, <2>9 DEF TableContents
  <2>15. Pairs'
    <3>1. Held' = Held
      BY <1>2, <2>7, <2>9, <2>10, HeldParts
    <3> QED
      BY <1>1, <1>2, <2>10, <3>1, FewerPairs
  <2>16. Hist' = Hist
    BY <1>2, <2>9 DEF Hist
  <2>17. Torn' = Torn
    BY <1>2, <2>1, <2>3, SameTorn
  <2>18. StoreStep
    BY <1>2, <2>9, <2>16, <2>17, PersistStep
  <2> QED
    BY <2>11, <2>12, <2>13, <2>14, <2>15, <2>18 DEF ContentInv
<1> QED
  BY <1>3, <1>4

\* What readers see has been counted.
LEMMA VisibleCounted ==
    ASSUME BaseInv, state = "up"
    PROVE  \A e \in Visible : e[1] <= last_sequence
BY DEF BaseInv, Sequences, Files, Visible, TableEntries

\* The group gets its answer.
LEMMA ContentFinishWrite == ASSUME StoreInv, FinishWrite PROVE ContentInv' /\ StoreStep
<1> DEFINE k == logfile_number_
           G == EntriesOf(GroupRecord)
           S == FirstWriters(Len(group))
           status == IF stage = "insert" THEN "ok" ELSE "failed"
<1>1. BaseInv /\ Types /\ DiskTypes /\ Numbers /\ Files /\ EditRange /\ RecordLogged /\ LogContents
      /\ TableContents /\ Pairs
  BY DEF StoreInv, BaseInv, Types, ContentInv
<1>2. /\ state = "up" /\ stage \in {"insert", "failed", "unsynced"}
      /\ mem' = IF stage = "insert" THEN mem \cup G ELSE mem
      /\ last_sequence' = last_sequence + Len(group)
      /\ answer' = [w \in Writes |-> IF w \in S THEN status ELSE answer[w]]
      /\ stage' = "front"
      /\ UNCHANGED <<logs, tables, manifest, state, replay, log_number, logfile_number_, imm,
                     current, flush, compact, edit, sync, outages>>
  BY DEF FinishWrite, Dismiss, GroupRecord, diskVars, openVars, bgVars, histVars
<1> HIDE DEF status
<1>3. /\ S \in SUBSET Writes /\ \A w \in S : answer[w] = "asked"
  BY <1>1, GroupEntries, FirstAsked
<1>4. /\ G \subseteq Entry
      /\ \A e \in G : e[1] \in Nat /\ last_sequence < e[1] /\ e[1] <= last_sequence + Len(group)
      /\ {e[2] : e \in G} = S /\ (\A e \in G : e[2] \in S)
      /\ \A e, f \in G : e[1] = f[1] \/ e[2] = f[2] => e = f
      /\ \A e \in G : e[2] \in sync => group[1] \in sync
      /\ Len(group) \in Nat
  BY <1>1, GroupEntries
<1>5. S # {}
  <2>1. group # <<>> /\ group \in Seq(Writes)
    BY <1>2 DEF StoreInv, BaseInv, Queue, Types, WriteTypes
  <2>2. 1 \in 1 .. Len(group)
    BY <2>1
  <2> QED
    BY <2>2 DEF FirstWriters
<1> HIDE DEF S
<1>6. Recoverable' = Recoverable /\ Durable' = Durable
  BY <1>2, SameDisk
<1>7. InFlight = G /\ InFlight' = {}
  BY <1>2 DEF InFlight, Tried
<1>8. /\ \A w \in Writes : /\ w \in S => answer'[w] = status
                           /\ w \notin S => answer'[w] = answer[w]
      /\ \A w \in Writes : answer[w] # "asked" => answer'[w] = answer[w]
      /\ status = IF stage = "insert" THEN "ok" ELSE "failed"
      /\ \A n \in DOMAIN logs : \A e \in InLog(n) : e[2] \in Writes
      /\ mem \subseteq Visible
      /\ \A h \in Held : h[2] \in Writes /\ h[1] \in Nat
      /\ \A g \in G : g[2] \in Writes
  BY <1>1, <1>2, <1>3, <1>4, ContentsTyped DEF status, Visible
<1>9. EditRange' /\ Replayed'
  BY <1>1, <1>2 DEF EditRange, Replayed
<1>10. RecordLogged'
  BY <1>2 DEF RecordLogged, Appended
<1>11. \A h \in Visible : h \in Held
  BY <1>2, HeldParts
<1>12. LogContents'
  <2>1. InLog(logfile_number_)' = InLog(k) /\ \A n \in DOMAIN logs : InLog(n)' = InLog(n)
    BY <1>2 DEF InLog
  <2>2. k \in DOMAIN logs
    BY <1>1, <1>2 DEF Numbers
  <2>3. \A n \in DOMAIN logs : \A e \in InLog(n) : GivenUp(e) => GivenUp(e)'
    BY <1>8 DEF GivenUp
  <2>4. ASSUME NEW e \in InLog(k) PROVE e \in mem' \/ GivenUp(e)'
    <3>1. CASE e \in G /\ stage # "insert"
      BY <1>4, <1>8, <3>1 DEF GivenUp
    <3>2. CASE e \in G /\ stage = "insert"
      BY <1>2, <3>2
    <3>3. CASE e \notin G
      BY <1>1, <1>2, <1>7, <2>2, <2>3, <3>3 DEF LogContents
    <3> QED
      BY <3>1, <3>2, <3>3
  <2>5. ASSUME NEW e \in mem' PROVE answer'[e[2]] = "ok"
    <3>1. CASE e \in mem
      <4>1. answer[e[2]] = "ok" /\ e[2] \in Writes
        BY <1>1, <1>2, <1>8, <1>11, <3>1 DEF LogContents
      <4> QED
        BY <1>8, <4>1
    <3>2. CASE e \notin mem
      <4>1. e \in G /\ stage = "insert"
        BY <1>2, <2>5, <3>2
      <4> QED
        BY <1>4, <1>8, <4>1
    <3> QED
      BY <3>1, <3>2
  <2>6. ASSUME NEW n \in DOMAIN logs', (n >= log_number' \/ n >= manifest'.log) /\ n # logfile_number_',
               NEW e \in InLog(n)'
        PROVE  e \in imm' \cup InTables(tables', current') \/ GivenUp(e)'
    <3>1. n \in DOMAIN logs /\ e \in InLog(n)
      BY <1>2, <2>1, <2>6
    <3>2. e \in imm \cup InTables(tables, current) \/ GivenUp(e)
      BY <1>1, <1>2, <2>6, <3>1 DEF LogContents
    <3> QED
      BY <1>2, <2>3, <3>1, <3>2
  <2> QED
    BY <2>1, <2>4, <2>5, <2>6 DEF LogContents
<1>13. TableContents'
  BY <1>1, <1>2 DEF TableContents
<1>14. Pairs'
  <2>1. Held' \subseteq Held
    <3>1. Visible' \subseteq Visible \cup G
      BY <1>2, DiskContents
    <3> QED
      BY <1>2, <1>6, <1>7, <3>1, HeldParts
  <2>2. ASSUME NEW h \in Held
        PROVE  answer'[h[2]] \in {"ok", "failed", "lost"} /\ h[1] <= last_sequence'
    <3>1. CASE h \in G
      BY <1>2, <1>4, <1>8, <3>1
    <3>2. CASE h \notin G
      <4>1. answer[h[2]] \in {"ok", "failed", "lost"} /\ h[1] <= last_sequence
        BY <1>1, <1>2, <1>7, <3>2 DEF Pairs
      <4>2. answer'[h[2]] \in {"ok", "failed", "lost"}
        BY <1>8, <4>1
      <4>3. h[1] <= last_sequence' /\ last_sequence \in Nat
        BY <1>1, <1>2, <1>4, <1>8, <4>1 DEF Types, NumberTypes
      <4> QED
        BY <4>2, <4>3
    <3> QED
      BY <3>1, <3>2
  <2>3. \A g, h \in Held' : g[1] = h[1] \/ g[2] = h[2] => g = h
    BY <1>1, <2>1 DEF Pairs
  <2> QED
    BY <2>1, <2>2, <2>3 DEF Pairs
<1>15. StoreStep
  <2>1. CASE stage = "insert"
    <3>1. Hist' = Hist \cup G /\ Hist = Visible
      BY <1>2, <2>1, DiskContents DEF Hist
    <3>2. \A h \in Hist : h[1] <= last_sequence /\ h[1] \in Nat
      BY <1>1, <1>2, <1>8, <1>11, <3>1, VisibleCounted
    <3>3. \A g \in G, h \in Hist : g[1] > h[1]
      BY <1>1, <1>4, <3>2 DEF Types, NumberTypes
    <3>4. G \cap Hist = {}
      <4>1. ASSUME NEW g \in G, g \in Hist PROVE FALSE
        BY <1>1, <1>4, <3>2, <4>1 DEF Types, NumberTypes
      <4> QED
        BY <4>1
    <3>5. Torn' = Torn
      BY <1>2, <2>1, SameTorn
    <3>6. ASSUME ~Torn
          PROVE  G \subseteq Recoverable' /\ \A g \in G : g[2] \in sync => g \in Durable'
      <4>1. ~logs[k].torn
        BY <1>2, <2>1, <3>6 DEF Torn
      <4>2. /\ logs[k].records # <<>> /\ logs[k].records[Len(logs[k].records)] = GroupRecord
            /\ group[1] \in sync => logs[k].synced = Len(logs[k].records)
            /\ k \in DOMAIN logs /\ k >= manifest.log
        BY <1>1, <1>2, <2>1, <4>1 DEF RecordLogged, Appended, Numbers, EditRange
      <4>3. logs[k].records \in Seq(Record)
        BY <1>1, <4>2 DEF DiskTypes, LogFile
      <4>4. Len(logs[k].records) \in 1 .. Len(logs[k].records)
        BY <4>2, <4>3
      <4>5. G \subseteq LogEntries(logs[k], Len(logs[k].records))
        BY <4>2, <4>4 DEF LogEntries
      <4>6. k \in From(logs, manifest.log)
        BY <4>2 DEF From
      <4>7. G \subseteq InLogs(logs, From(logs, manifest.log))
        BY <4>5, <4>6 DEF InLogs
      <4>8. group[1] \in sync => G \subseteq SyncedIn(logs, From(logs, manifest.log))
        BY <4>2, <4>5, <4>6 DEF SyncedIn
      <4> QED
        BY <1>4, <1>6, <4>7, <4>8, DiskContents
    <3>7. answer' = [w \in Writes |-> IF w \in S THEN "ok" ELSE answer[w]]
      BY <1>2, <2>1 DEF status
    <3> HIDE DEF G
    <3> QED
      BY <1>2, <1>3, <1>4, <1>6, <3>1, <3>3, <3>4, <3>5, <3>6, <3>7, CommitStep
  <2>2. CASE stage # "insert"
    <3>1. Hist' = Hist
      BY <1>2, <2>2, DiskContents DEF Hist
    <3>2. answer' = [w \in Writes |-> IF w \in S THEN "failed" ELSE answer[w]]
      BY <1>2, <2>2 DEF status
    <3>3. Torn' = Torn \/ Torn' = TRUE
      <4>1. logs[k].torn \in BOOLEAN
        BY <1>1, <1>2 DEF DiskTypes, LogFile, Numbers
      <4>2. Torn' \in BOOLEAN
        BY DEF Torn
      <4>3. ~Torn' => ~Torn
        BY <1>2 DEF Torn
      <4>4. Torn \in BOOLEAN
        BY DEF Torn
      <4> QED
        BY <4>2, <4>3, <4>4, Zenon
    <3> QED
      BY <1>2, <1>3, <1>5, <1>6, <3>1, <3>2, <3>3, RejectStep
  <2> QED
    BY <2>1, <2>2
<1> QED
  BY <1>9, <1>10, <1>12, <1>13, <1>14, <1>15 DEF ContentInv

\* An empty log adds nothing.
LEMMA EmptyLogAdds ==
    ASSUME DiskTypes, NEW k, k \notin DOMAIN logs, logs' = With(logs, k, EmptyLog)
    PROVE  /\ DOMAIN logs' = DOMAIN logs \cup {k} /\ logs'[k] = EmptyLog
           /\ LogEntries(logs'[k], Len(logs'[k].records)) = {}
           /\ \A n \in DOMAIN logs : logs'[n] = logs[n] /\ InLog(n)' = InLog(n)
           /\ \A j : InLogs(logs', From(logs', j)) = InLogs(logs, From(logs, j))
           /\ \A j : SyncedIn(logs', From(logs', j)) = SyncedIn(logs, From(logs, j))
<1>1. /\ DOMAIN logs' = DOMAIN logs \cup {k} /\ logs'[k] = EmptyLog
      /\ \A n \in DOMAIN logs : n # k => logs'[n] = logs[n]
  BY NewLogFile
<1>2. \A n \in DOMAIN logs : logs'[n] = logs[n] /\ InLog(n)' = InLog(n)
  BY <1>1 DEF InLog
<1>3. /\ LogEntries(logs'[k], Len(logs'[k].records)) = {}
      /\ LogEntries(logs'[k], logs'[k].synced) = {}
  <2>1. logs'[k].records = <<>> /\ logs'[k].synced = 0 /\ Len(logs'[k].records) = 0 /\ 1 .. 0 = {}
    BY <1>1, EmptyLogFacts
  <2> QED
    BY <2>1 DEF LogEntries
<1>4. ASSUME NEW j
      PROVE  /\ InLogs(logs', From(logs', j)) = InLogs(logs, From(logs, j))
             /\ SyncedIn(logs', From(logs', j)) = SyncedIn(logs, From(logs, j))
  <2>1. From(logs, j) \subseteq From(logs', j) /\ From(logs', j) \subseteq From(logs, j) \cup {k}
        /\ From(logs, j) \subseteq DOMAIN logs
    BY <1>1 DEF From
  <2>2. InLogs(logs', From(logs', j)) = InLogs(logs, From(logs, j))
    BY <1>2, <1>3, <2>1 DEF InLogs
  <2>3. SyncedIn(logs', From(logs', j)) = SyncedIn(logs, From(logs, j))
    BY <1>2, <1>3, <2>1 DEF SyncedIn
  <2> QED
    BY <2>2, <2>3
<1> QED
  BY <1>1, <1>2, <1>3, <1>4

\* A new log and a new memtable.
LEMMA ContentSwitchMemTable ==
    ASSUME StoreInv, NEW ok \in BOOLEAN, SwitchMemTable(ok)
    PROVE  ContentInv' /\ StoreStep
<1>1. BaseInv /\ Types /\ DiskTypes /\ NumberTypes /\ Numbers /\ Control /\ EditRange /\ LogContents
      /\ TableContents /\ Pairs
  BY DEF StoreInv, BaseInv, Types, ContentInv
<1>2. /\ state = "up" /\ stage = "front" /\ writers_ # <<>> /\ imm = {} /\ ~bg_error_
      /\ UNCHANGED <<tables, manifest, state, replay, last_sequence, log_number, current,
                     bg_error_, stage, group, flush, compact, edit, sync, outages>>
  BY DEF SwitchMemTable, AtFront, openVars
<1>3. CASE ~ok
  <2>1. Dismiss(1, "failed") /\ UNCHANGED <<logs, logfile_number_, imm, mem>>
    BY <1>3 DEF SwitchMemTable
  <2>2. 1 <= Len(writers_)
    BY <1>1, <1>2 DEF Types, WriteTypes
  <2> QED
    BY <1>2, <2>1, <2>2, ContentDismissed
<1>4. CASE ok
  <2> DEFINE k == next_file_number
             old == logfile_number_
  <2>1. /\ logs' = With(logs, k, EmptyLog) /\ logfile_number_' = k /\ imm' = mem /\ mem' = {}
        /\ UNCHANGED answer
    BY <1>4 DEF SwitchMemTable
  <2>2. /\ k \in Nat /\ old \in DOMAIN logs /\ old < k /\ k \notin DOMAIN logs
        /\ manifest.log \in Nat /\ manifest.log <= old /\ old \in Nat /\ log_number \in Nat
    BY <1>1, <1>2, NextNumberPositive, WorkFacts DEF Numbers, EditRange, NumberTypes, DiskTypes
  <2>3. /\ DOMAIN logs' = DOMAIN logs \cup {k} /\ logs'[k] = EmptyLog
        /\ LogEntries(logs'[k], Len(logs'[k].records)) = {}
        /\ \A n \in DOMAIN logs : InLog(n)' = InLog(n)
        /\ \A j : InLogs(logs', From(logs', j)) = InLogs(logs, From(logs, j))
        /\ \A j : SyncedIn(logs', From(logs', j)) = SyncedIn(logs, From(logs, j))
    BY <1>1, <2>1, <2>2, EmptyLogAdds
  <2>4. Recoverable' = Recoverable /\ Durable' = Durable /\ Visible' = Visible
    BY <1>2, <2>1, <2>3, DiskContents
  <2>5. InFlight = {} /\ InFlight' = {} /\ RecordLogged'
    BY <1>2, NoRecord DEF Tried
  <2>6. flush = NoFlush /\ (edit # NoEdit => edit.by # "flush")
    BY <1>1, <1>2 DEF TableContents, Control
  <2>7. EditRange'
    BY <1>1, <1>2, <2>1, <2>2, <2>6 DEF EditRange
  <2>8. Replayed'
    BY <1>2 DEF Replayed
  <2>9. LogContents'
    <3>1. InLog(logfile_number_)' = {}
      BY <2>1, <2>3 DEF InLog
    <3>2. ASSUME NEW n \in DOMAIN logs', (n >= log_number' \/ n >= manifest'.log) /\ n # logfile_number_',
                 NEW e \in InLog(n)'
          PROVE  e \in imm' \cup InTables(tables', current') \/ GivenUp(e)'
      <4>1. n \in DOMAIN logs /\ e \in InLog(n)
        BY <2>1, <2>3, <3>2
      <4>2. e \in mem \cup InTables(tables, current) \/ GivenUp(e)
        BY <1>1, <1>2, <2>5, <3>2, <4>1 DEF LogContents
      <4> QED
        BY <1>2, <2>1, <4>2 DEF GivenUp
    <3>3. \A e \in mem' : answer'[e[2]] = "ok"
      BY <2>1
    <3> QED
      BY <3>1, <3>2, <3>3 DEF LogContents
  <2>10. TableContents'
    BY <1>1, <1>2, <2>1, <2>6 DEF TableContents
  <2>11. Pairs'
    <3>1. Held' = Held
      BY <1>2, <2>3, <2>4, <2>5, HeldParts
    <3> QED
      BY <1>1, <1>2, <2>1, <2>5, <3>1, FewerPairs
  <2>12. Hist' = Hist
    BY <1>2, <2>4 DEF Hist
  <2>13. Torn' = FALSE
    BY <2>1, <2>3 DEF Torn, EmptyLog
  <2> QED
    BY <1>2, <2>1, <2>4, <2>5, <2>7, <2>8, <2>9, <2>10, <2>11, <2>12, <2>13, PersistStep DEF ContentInv
<1> QED
  BY <1>3, <1>4

-----------------------------------------------------------------------------
(* Steps of the background thread. *)

\* Tables that were there hold what they held.
LEMMA SameTables ==
    ASSUME NEW S, \A n \in S : tables'[n] = tables[n]
    PROVE  InTables(tables', S) = InTables(tables, S)
BY DEF InTables

\* A step that writes a new table, or starts an edit.
LEMMA NewTableContent ==
    ASSUME StoreInv, state = "up", \A n \in DOMAIN tables : tables'[n] = tables[n],
           UNCHANGED <<logs, manifest, state, replay, last_sequence, log_number, logfile_number_,
                       mem, imm, current, bg_error_, stage, group, flush, answer, sync, outages>>,
           edit' # NoEdit =>
               /\ ~edit'.logged
               /\ edit'.log = IF edit'.by = "flush" THEN logfile_number_ ELSE log_number
               /\ edit'.by = "flush" => tables'[flush] = imm,
           compact' # NoCompaction /\ compact'.written =>
               tables'[compact'.output] = InTables(tables', compact'.inputs)
    PROVE  ContentInv' /\ StoreStep
<1>1. BaseInv /\ Files /\ EditRange /\ RecordLogged /\ LogContents /\ TableContents /\ Pairs
  BY DEF StoreInv, BaseInv, ContentInv
<1>2. manifest.tables \subseteq DOMAIN tables /\ current \subseteq DOMAIN tables
  BY <1>1 DEF Files
<1>3. /\ InTables(tables', manifest.tables) = InTables(tables, manifest.tables)
      /\ InTables(tables', current) = InTables(tables, current)
  BY <1>2, SameTables
<1>4. Recoverable' = Recoverable /\ Durable' = Durable /\ Visible' = Visible
  BY <1>3, DiskContents
<1>5. InFlight' = InFlight /\ RecordLogged' /\ Torn' = Torn
  BY SameRecord
<1>6. EditRange' /\ Replayed'
  BY <1>1 DEF EditRange, Replayed
<1>7. LogContents'
  <2>1. InLog(logfile_number_)' = InLog(logfile_number_) /\ \A n \in DOMAIN logs : InLog(n)' = InLog(n)
    BY DEF InLog
  <2> QED
    BY <1>1, <1>3, <1>5, <2>1 DEF LogContents, GivenUp
<1>8. TableContents'
  BY <1>1, <1>3 DEF TableContents
<1>9. Pairs'
  <2>1. Held' = Held
    BY <1>4, <1>5, HeldParts
  <2> QED
    BY <1>1, <1>5, <2>1, FewerPairs
<1>10. Hist' = Hist
  BY <1>4 DEF Hist
<1> QED
  BY <1>4, <1>5, <1>6, <1>7, <1>8, <1>9, <1>10, StutterStep DEF ContentInv

\* The table of a flush is written.
LEMMA ContentBuildTable == ASSUME StoreInv, BuildTable(TRUE) PROVE ContentInv' /\ StoreStep
<1>1. BaseInv /\ Types /\ DiskTypes /\ WorkTypes /\ MemTypes /\ Files /\ Numbers /\ TableContents
  BY DEF StoreInv, BaseInv, Types, ContentInv
<1>2. /\ state = "up" /\ flush # NoFlush /\ edit = NoEdit
      /\ tables' = With(tables, flush, imm)
      /\ edit' = [by |-> "flush", added |-> {flush}, deleted |-> {}, log |-> logfile_number_,
                  next |-> next_file_number, last |-> last_sequence, logged |-> FALSE]
      /\ UNCHANGED <<logs, manifest, state, replay, last_sequence, log_number, logfile_number_,
                     mem, imm, current, bg_error_, stage, group, flush, compact, answer, sync,
                     outages>>
  BY DEF BuildTable, VersionEdit, FlushLogNumber, openVars, numberVars
<1>3. flush \in Nat /\ flush \notin DOMAIN tables
  BY <1>1, <1>2 DEF WorkTypes, Numbers
<1>4. /\ tables'[flush] = imm
      /\ \A n \in DOMAIN tables : tables'[n] = tables[n]
  BY <1>1, <1>2, <1>3, NewTable DEF MemTypes
<1>5. ASSUME compact # NoCompaction, compact.written
      PROVE  tables'[compact.output] = InTables(tables', compact.inputs)
  <2>1. compact.output \in DOMAIN tables /\ compact.inputs \subseteq DOMAIN tables
    BY <1>1, <1>5 DEF Files
  <2>2. InTables(tables', compact.inputs) = InTables(tables, compact.inputs)
    BY <1>4, <2>1, SameTables
  <2> QED
    BY <1>1, <1>2, <1>4, <1>5, <2>1, <2>2 DEF TableContents
<1>6. ~edit'.logged /\ edit'.log = logfile_number_ /\ edit'.by = "flush"
  BY <1>2
<1> QED
  BY <1>2, <1>4, <1>5, <1>6, NewTableContent

\* The output of the compaction is written.
LEMMA ContentFinishCompactionOutputFile ==
    ASSUME StoreInv, FinishCompactionOutputFile
    PROVE  ContentInv' /\ StoreStep
<1>1. BaseInv /\ Types /\ DiskTypes /\ WorkTypes /\ Files /\ Numbers
  BY DEF StoreInv, BaseInv, Types
<1>2. /\ state = "up" /\ edit = NoEdit /\ compact # NoCompaction /\ compact.output # 0
      /\ ~compact.written /\ compact' = [compact EXCEPT !.written = TRUE]
      /\ tables' = With(tables, compact.output, TableEntries(compact.inputs))
      /\ UNCHANGED <<logs, manifest, state, replay, last_sequence, log_number, logfile_number_,
                     mem, imm, current, bg_error_, stage, group, flush, edit, answer, sync,
                     outages>>
  BY DEF FinishCompactionOutputFile, AtWork, openVars, numberVars, writeVars, histVars
<1>3. compact.output \in Nat /\ compact.output \notin DOMAIN tables
      /\ compact.inputs \subseteq DOMAIN tables
  BY <1>1, <1>2, WorkFacts DEF Numbers, Files
<1>4. TableEntries(compact.inputs) \in SUBSET Entry
  BY <1>1, <1>3, TableEntriesTyped
<1>5. /\ tables'[compact.output] = TableEntries(compact.inputs)
      /\ \A n \in DOMAIN tables : tables'[n] = tables[n]
  BY <1>1, <1>2, <1>3, <1>4, NewTable
<1>6. InTables(tables', compact.inputs) = TableEntries(compact.inputs)
  BY <1>3, <1>5, SameTables DEF InTables, TableEntries
<1>7. compact'.output = compact.output /\ compact'.inputs = compact.inputs
  BY <1>1, <1>2 DEF WorkTypes, CompactionState
<1> QED
  BY <1>2, <1>5, <1>6, <1>7, NewTableContent

\* The edit of the compaction.
LEMMA ContentInstallCompactionResults ==
    ASSUME StoreInv, InstallCompactionResults
    PROVE  ContentInv' /\ StoreStep
<1>1. TableContents
  BY DEF StoreInv, ContentInv
<1>2. /\ state = "up"
      /\ edit' = [by |-> "compact", added |-> {compact.output}, deleted |-> compact.inputs,
                  log |-> log_number, next |-> next_file_number, last |-> last_sequence,
                  logged |-> FALSE]
      /\ UNCHANGED <<logs, tables, manifest, state, replay, last_sequence, log_number,
                     logfile_number_, mem, imm, current, bg_error_, stage, group, flush, compact,
                     answer, sync, outages>>
  BY DEF InstallCompactionResults, AtWork, VersionEdit, diskVars, openVars, numberVars, writeVars,
         histVars
<1>3. ~edit'.logged /\ edit'.log = log_number /\ edit'.by = "compact"
  BY <1>2
<1>4. compact # NoCompaction /\ compact.written =>
          tables[compact.output] = InTables(tables, compact.inputs)
  BY <1>1, <1>2 DEF TableContents
<1> QED
  BY <1>2, <1>3, <1>4, NewTableContent

\* The manifest with the edit of a flush or of a compaction in it: it loses
\* nothing that readers see, and needs no pair that was given away.
LEMMA AppliedContents ==
    ASSUME StoreInv, state = "up", edit # NoEdit, EditApplied, manifest.end # "lost",
           UNCHANGED <<logs, tables>>
    PROVE  /\ InTables(tables, current) \subseteq InTables(tables, manifest'.tables)
           /\ InTables(tables, manifest'.tables) \subseteq imm \cup InTables(tables, current)
           /\ Visible \cap Recoverable \subseteq Recoverable'
           /\ Visible \cap Durable \subseteq Durable'
           /\ Recoverable' \subseteq Held
           /\ log_number <= manifest'.log /\ manifest'.log <= logfile_number_
           /\ manifest'.log = edit.log /\ edit.added \subseteq manifest'.tables
           /\ manifest'.log \in Nat /\ log_number \in Nat
<1> DEFINE k == logfile_number_
           M == manifest.tables
<1>1. BaseInv /\ Types /\ DiskTypes /\ NumberTypes /\ Files /\ Control /\ Numbers /\ EditRange
      /\ LogContents /\ TableContents
  BY DEF StoreInv, BaseInv, Types, ContentInv
<1>2. manifest'.tables = (M \ edit.deleted) \cup edit.added /\ manifest'.log = edit.log
  BY DEF EditApplied
<1>3. /\ InTables(tables, current) \subseteq InTables(tables, M)
      /\ InTables(tables, M) \subseteq imm \cup InTables(tables, current)
  BY <1>1 DEF TableContents
<1>4. /\ Recoverable = InTables(tables, M) \cup InLogs(logs, From(logs, manifest.log))
      /\ Durable = InTables(tables, M) \cup SyncedIn(logs, From(logs, manifest.log))
      /\ Recoverable' = InTables(tables, manifest'.tables) \cup InLogs(logs, From(logs, edit.log))
      /\ Durable' = InTables(tables, manifest'.tables) \cup SyncedIn(logs, From(logs, edit.log))
      /\ Visible = mem \cup imm \cup InTables(tables, current)
  BY <1>2, DiskContents
<1>5. /\ log_number \in Nat /\ k \in Nat /\ manifest.log \in Nat /\ DOMAIN logs \subseteq Nat
      /\ log_number <= manifest.log /\ manifest.log <= k /\ k \in DOMAIN logs
      /\ \A n \in DOMAIN logs : n <= k
  BY <1>1, WorkFacts DEF NumberTypes, EditRange, DiskTypes, Numbers
<1>6. \A n \in DOMAIN logs : LogEntries(logs[n], logs[n].synced) \subseteq InLog(n)
  <2> TAKE n \in DOMAIN logs
  <2>1. logs[n].synced \in Nat /\ Len(logs[n].records) \in Nat /\ logs[n].synced <= Len(logs[n].records)
    BY <1>1 DEF DiskTypes, LogFile
  <2> QED
    BY <2>1, LongerPrefix DEF InLog
<1>7. ASSUME NEW n \in DOMAIN logs, n >= manifest.log, n # k, NEW e \in InLog(n), e \in Visible
      PROVE  e \in imm \cup InTables(tables, current)
  <2>1. e \in imm \cup InTables(tables, current) \/ GivenUp(e)
    BY <1>1, <1>7 DEF LogContents
  <2>2. e \in mem => ~GivenUp(e)
    BY <1>1 DEF LogContents, GivenUp
  <2> QED
    BY <1>4, <1>7, <2>1, <2>2
<1>8. log_number <= edit.log /\ edit.log <= k /\ edit.log \in Nat
  BY <1>1, <1>5 DEF EditRange, Numbers
<1>9. InLogs(logs, From(logs, edit.log)) \subseteq Held
  <2>1. From(logs, edit.log) \subseteq From(logs, log_number)
    BY <1>5, <1>8 DEF From
  <2>2. InLogs(logs, From(logs, edit.log)) \subseteq InLogs(logs, From(logs, log_number))
    BY <2>1 DEF InLogs
  <2> QED
    BY <2>2, HeldParts
<1>10. /\ InTables(tables, current) \subseteq InTables(tables, manifest'.tables)
       /\ InTables(tables, manifest'.tables) \subseteq imm \cup InTables(tables, current)
       /\ Visible \cap Recoverable \subseteq Recoverable'
       /\ Visible \cap Durable \subseteq Durable'
  <2>1. CASE edit.by = "flush"
    <3>1. edit.added = {flush} /\ edit.deleted = {} /\ tables[flush] = imm /\ edit.log = k
      BY <1>1, <2>1 DEF Files, Control, TableContents, EditRange
    <3>2. InTables(tables, manifest'.tables) = InTables(tables, M) \cup imm
      BY <1>2, <3>1 DEF InTables
    <3>3. ASSUME NEW n \in From(logs, manifest.log), NEW e \in InLog(n), e \in Visible
          PROVE  e \in InTables(tables, manifest'.tables) \/ n \in From(logs, edit.log)
      <4>1. n \in DOMAIN logs /\ n >= manifest.log
        BY DEF From
      <4>2. CASE n = k
        BY <1>5, <3>1, <4>2 DEF From
      <4>3. CASE n # k
        BY <1>3, <1>7, <3>2, <3>3, <4>1, <4>3
      <4> QED
        BY <4>2, <4>3
    <3>4. ASSUME NEW e \in Visible, e \in Recoverable PROVE e \in Recoverable'
      <4>1. CASE e \in InTables(tables, M)
        BY <1>4, <3>2, <4>1
      <4>2. CASE e \in InLogs(logs, From(logs, manifest.log))
        <5>1. PICK n \in From(logs, manifest.log) : e \in InLog(n)
          BY <4>2 DEF InLogs, InLog
        <5>2. n \in From(logs, edit.log) => e \in InLogs(logs, From(logs, edit.log))
          BY <5>1 DEF InLogs, InLog
        <5> QED
          BY <1>4, <3>3, <5>1, <5>2
      <4> QED
        BY <1>4, <3>4, <4>1, <4>2
    <3>5. ASSUME NEW e \in Visible, e \in Durable PROVE e \in Durable'
      <4>1. CASE e \in InTables(tables, M)
        BY <1>4, <3>2, <4>1
      <4>2. CASE e \in SyncedIn(logs, From(logs, manifest.log))
        <5>1. PICK n \in From(logs, manifest.log) : e \in LogEntries(logs[n], logs[n].synced)
          BY <4>2 DEF SyncedIn
        <5>2. e \in InLog(n)
          BY <1>6, <5>1 DEF From
        <5>3. n \in From(logs, edit.log) => e \in SyncedIn(logs, From(logs, edit.log))
          BY <5>1 DEF SyncedIn
        <5> QED
          BY <1>4, <3>3, <5>1, <5>2, <5>3
      <4> QED
        BY <1>4, <3>5, <4>1, <4>2
    <3> QED
      BY <1>3, <3>2, <3>4, <3>5
  <2>2. CASE edit.by # "flush"
    <3>1. /\ compact # NoCompaction /\ compact.written /\ edit.added = {compact.output}
          /\ edit.deleted = compact.inputs /\ compact.inputs \subseteq current
          /\ tables[compact.output] = InTables(tables, compact.inputs) /\ edit.log = log_number
      BY <1>1, <2>2 DEF Files, Control, TableContents, EditRange
    <3>2. InTables(tables, compact.inputs) \subseteq InTables(tables, current)
      BY <3>1 DEF InTables
    <3>3. InTables(tables, manifest'.tables) = InTables(tables, M)
      <4>1. InTables(tables, M) \subseteq InTables(tables, manifest'.tables)
        BY <1>2, <3>1 DEF InTables
      <4>2. InTables(tables, manifest'.tables) \subseteq InTables(tables, M) \cup tables[compact.output]
        BY <1>2, <3>1 DEF InTables
      <4> QED
        BY <1>3, <3>1, <3>2, <4>1, <4>2
    <3>4. From(logs, manifest.log) \subseteq From(logs, edit.log)
      BY <1>5, <3>1 DEF From
    <3>5. InLogs(logs, From(logs, manifest.log)) \subseteq InLogs(logs, From(logs, edit.log))
          /\ SyncedIn(logs, From(logs, manifest.log)) \subseteq SyncedIn(logs, From(logs, edit.log))
      BY <3>4 DEF InLogs, SyncedIn
    <3> QED
      BY <1>3, <1>4, <3>3, <3>5
  <2> QED
    BY <2>1, <2>2
<1>11. Recoverable' \subseteq Held
  <2>1. InTables(tables, manifest'.tables) \subseteq Visible
    BY <1>4, <1>10
  <2> QED
    BY <1>4, <1>9, <2>1, HeldParts
<1> QED
  BY <1>2, <1>5, <1>8, <1>10, <1>11

\* A step that adds the edit to the manifest or leaves the manifest's contents,
\* while the rest of the disk stays: what it costs.
LEMMA ManifestContents ==
    ASSUME StoreInv, state = "up", edit # NoEdit,
           EditLost \/ (EditApplied /\ manifest.end # "lost"),
           manifest'.end # "lost" => manifest.end # "lost",
           UNCHANGED <<logs, tables, state, last_sequence, log_number, logfile_number_, mem, imm,
                       current, answer>>,
           InFlight' = InFlight
    PROVE  /\ manifest'.end # "lost" =>
                 InTables(tables, current) \subseteq InTables(tables, manifest'.tables)
           /\ InTables(tables, manifest'.tables) \subseteq imm \cup InTables(tables, current)
           /\ Hist \cap Recoverable \subseteq Recoverable' /\ Hist \cap Durable \subseteq Durable'
           /\ manifest'.end # "lost" => log_number <= manifest'.log
           /\ manifest'.log <= logfile_number_
           /\ LogContents' /\ Pairs' /\ Hist' = Hist
<1>1. BaseInv /\ EditRange /\ LogContents /\ TableContents /\ Pairs
  BY DEF StoreInv, ContentInv
<1>2. Visible' = Visible /\ Hist = Visible
  BY DiskContents DEF Hist
<1>3. /\ manifest'.end # "lost" =>
            InTables(tables, current) \subseteq InTables(tables, manifest'.tables)
      /\ InTables(tables, manifest'.tables) \subseteq imm \cup InTables(tables, current)
      /\ Hist \cap Recoverable \subseteq Recoverable' /\ Hist \cap Durable \subseteq Durable'
      /\ manifest'.end # "lost" => log_number <= manifest'.log
      /\ manifest'.log <= logfile_number_
      /\ Recoverable' \subseteq Held
      /\ manifest'.log = manifest.log \/ (manifest'.log \in Nat /\ log_number \in Nat /\ log_number <= manifest'.log)
  <2>1. CASE EditApplied /\ manifest.end # "lost"
    BY <1>2, <2>1, AppliedContents
  <2>2. CASE EditLost
    <3>1. manifest'.tables = manifest.tables /\ manifest'.log = manifest.log
      BY <2>2 DEF EditLost
    <3>2. Recoverable' = Recoverable /\ Durable' = Durable
      BY <3>1, DiskContents
    <3> QED
      BY <1>1, <3>1, <3>2, HeldParts DEF TableContents, EditRange
  <2> QED
    BY <2>1, <2>2
<1>4. LogContents'
  <2>1. InLog(logfile_number_)' = InLog(logfile_number_) /\ \A n \in DOMAIN logs : InLog(n)' = InLog(n)
    BY DEF InLog
  <2>2. ASSUME NEW n \in DOMAIN logs, n >= log_number \/ n >= manifest'.log
        PROVE  n >= log_number \/ n >= manifest.log
    <3>1. n \in Nat
      BY <1>1 DEF BaseInv, Types, DiskTypes
    <3> QED
      BY <1>3, <2>2, <3>1
  <2> QED
    BY <1>1, <2>1, <2>2 DEF LogContents, GivenUp
<1>5. Pairs'
  <2>1. Held' \subseteq Held
    BY <1>2, <1>3, HeldParts
  <2> QED
    BY <1>1, <2>1, FewerPairs
<1>6. Hist' = Hist
  BY <1>2 DEF Hist
<1> QED
  BY <1>3, <1>4, <1>5, <1>6

\* The edit is in the manifest, or lost to its reader.
LEMMA ContentLogEdit == ASSUME StoreInv, LogEdit PROVE ContentInv' /\ StoreStep
<1>1. BaseInv /\ Types /\ Control /\ Numbers /\ MemTypes /\ EditRange /\ Replayed /\ LogContents
      /\ TableContents /\ Pairs
  BY DEF StoreInv, BaseInv, Types, ContentInv
<1>2. /\ edit # NoEdit /\ ~edit.logged /\ state \in {"opening", "up"}
      /\ edit' = [edit EXCEPT !.logged = TRUE]
      /\ UNCHANGED <<logs, tables, state, replay, last_sequence, log_number, logfile_number_, mem,
                     imm, current, bg_error_, stage, group, flush, compact, answer, sync, outages>>
  BY <1>1 DEF LogEdit, Control, MemTypes, openVars, numberVars, writeVars, histVars
<1>3. /\ edit'.logged /\ edit'.by = edit.by /\ edit'.added = edit.added /\ edit'.log = edit.log
      /\ edit' # NoEdit
  <2>1. edit \in EditRecord
    BY <1>1, <1>2, WorkFacts
  <2>2. edit' \in EditRecord
    BY <1>2, <2>1 DEF EditRecord
  <2> QED
    BY <1>2, <2>1, <2>2, StoreAssumption DEF EditRecord
<1>4. \/ /\ EditApplied /\ (manifest.end # "lost" \/ edit.by = "open")
         /\ manifest'.end = IF edit.by = "open" THEN "whole" ELSE manifest.end
      \/ EditLost /\ manifest'.end = "lost" /\ edit.by # "open"
  BY <1>1, LogEditCases
<1>5. InFlight' = InFlight /\ RecordLogged' /\ Torn' = Torn
  BY <1>2, SameRecord
<1>6. CASE state = "up"
  <2>1. edit.by # "open"
    BY <1>1, <1>2, <1>6 DEF Control
  <2>2. EditLost \/ (EditApplied /\ manifest.end # "lost")
    BY <1>4, <2>1
  <2>3. manifest'.end # "lost" => manifest.end # "lost" /\ EditApplied
    BY <1>4, <2>1
  <2>4. /\ manifest'.end # "lost" =>
              InTables(tables, current) \subseteq InTables(tables, manifest'.tables)
        /\ InTables(tables, manifest'.tables) \subseteq imm \cup InTables(tables, current)
        /\ Hist \cap Recoverable \subseteq Recoverable' /\ Hist \cap Durable \subseteq Durable'
        /\ manifest'.end # "lost" => log_number <= manifest'.log
        /\ manifest'.log <= logfile_number_
        /\ LogContents' /\ Pairs' /\ Hist' = Hist
    BY <1>2, <1>5, <1>6, <2>2, <2>3, ManifestContents
  <2>5. EditRange' /\ Replayed'
    <3>1. manifest'.end # "lost" => manifest'.log = edit.log /\ edit.added \subseteq manifest'.tables
      BY <2>3 DEF EditApplied
    <3> QED
      BY <1>1, <1>2, <1>3, <1>6, <2>4, <3>1 DEF EditRange, Replayed
  <2>6. TableContents'
    BY <1>1, <1>2, <1>3, <1>6, <2>4 DEF TableContents
  <2> QED
    BY <1>2, <1>5, <2>4, <2>5, <2>6, PersistStep DEF ContentInv
<1>7. CASE state = "opening"
  <2> DEFINE k == logfile_number_
             M == manifest.tables
  <2>0. /\ manifest'.tables = (M \ edit.deleted) \cup edit.added /\ manifest'.log = edit.log
        /\ edit.by = "open"
    BY <1>1, <1>4, <1>7 DEF Control, EditApplied
  <2>1. /\ edit.deleted = {} /\ edit.log = k /\ logs[k].records = <<>> /\ k \in DOMAIN logs
        /\ \A n \in DOMAIN logs : n <= k
        /\ InTables(tables, edit.added) = InLogs(logs, From(logs, manifest.log))
    BY <1>1, <1>2, <1>7 DEF Control, EditRange, Numbers, Replayed
  <2>2. InTables(tables, manifest'.tables) = InTables(tables, M) \cup InTables(tables, edit.added)
    BY <2>0, <2>1 DEF InTables
  <2>3. InLogs(logs, From(logs, k)) = {}
    <3>1. From(logs, k) = {k}
      <4>1. DOMAIN logs \subseteq Nat
        BY <1>1 DEF Types, DiskTypes
      <4> QED
        BY <2>1, <4>1 DEF From
    <3>2. Len(logs[k].records) = 0 /\ 1 .. 0 = {}
      BY <2>1
    <3>3. LogEntries(logs[k], Len(logs[k].records)) = {}
      BY <3>2 DEF LogEntries
    <3> QED
      BY <3>1, <3>3 DEF InLogs
  <2>4. SyncedIn(logs, From(logs, manifest.log)) \subseteq InLogs(logs, From(logs, manifest.log))
    <3>1. ASSUME NEW n \in From(logs, manifest.log)
          PROVE  LogEntries(logs[n], logs[n].synced) \subseteq LogEntries(logs[n], Len(logs[n].records))
      <4>1. n \in DOMAIN logs
        BY DEF From
      <4>2. logs[n].synced \in Nat /\ Len(logs[n].records) \in Nat /\ logs[n].synced <= Len(logs[n].records)
        BY <1>1, <4>1 DEF Types, DiskTypes, LogFile
      <4> QED
        BY <4>2, LongerPrefix
    <3> QED
      BY <3>1 DEF SyncedIn, InLogs
  <2>5. Recoverable' = Recoverable /\ Durable \subseteq Durable'
    <3>1. /\ Recoverable = InTables(tables, M) \cup InLogs(logs, From(logs, manifest.log))
          /\ Durable = InTables(tables, M) \cup SyncedIn(logs, From(logs, manifest.log))
          /\ Recoverable' = InTables(tables, manifest'.tables) \cup InLogs(logs, From(logs, k))
          /\ Durable' = InTables(tables, manifest'.tables) \cup SyncedIn(logs, From(logs, k))
      BY <1>2, <2>0, <2>1, DiskContents
    <3> QED
      BY <2>1, <2>2, <2>3, <2>4, <3>1
  <2>6. EditRange' /\ Replayed'
    BY <1>1, <1>2, <1>3, <1>7, <2>0, <2>1 DEF EditRange, Replayed
  <2>7. LogContents' /\ TableContents'
    BY <1>2, <1>7 DEF LogContents, TableContents
  <2>8. Pairs'
    <3>1. Held' = Held
      BY <1>2, <1>7, <2>5, HeldParts
    <3> QED
      BY <1>1, <1>2, <1>5, <3>1, FewerPairs
  <2>9. Hist' = Hist
    BY <1>2, <1>7, <2>5 DEF Hist
  <2> QED
    BY <1>2, <1>5, <2>5, <2>6, <2>7, <2>8, <2>9, PersistStep DEF ContentInv
<1> QED
  BY <1>2, <1>6, <1>7

\* The edit may or may not be in the manifest.
LEMMA ContentLogEditFails == ASSUME StoreInv, LogEditFails PROVE ContentInv' /\ StoreStep
<1>1. BaseInv /\ Types /\ Control /\ MemTypes /\ EditRange /\ LogContents /\ TableContents /\ Pairs
  BY DEF StoreInv, BaseInv, Types, ContentInv
<1>2. /\ edit # NoEdit /\ edit.by # "open" /\ state = "up" /\ edit' = NoEdit
      /\ compact' = NoCompaction \/ compact' = compact
      /\ stage' = stage \/ SignalAll
      /\ UNCHANGED <<logs, tables, state, replay, last_sequence, log_number, logfile_number_, mem,
                     imm, current, group, answer, sync, outages>>
  BY <1>1 DEF LogEditFails, FailCompaction, Control, MemTypes, openVars, numberVars
<1>3. flush' = NoFlush \/ flush' = flush
  BY DEF LogEditFails
<1>4. InFlight' = InFlight /\ RecordLogged' /\ Torn' = Torn
  BY <1>2, SameRecord
<1>5. /\ EditLost \/ (EditApplied /\ manifest.end # "lost")
      /\ manifest'.end # "lost" => manifest.end # "lost"
  BY <1>1, LogEditFailsCases
<1>6. /\ manifest'.end # "lost" =>
            InTables(tables, current) \subseteq InTables(tables, manifest'.tables)
      /\ InTables(tables, manifest'.tables) \subseteq imm \cup InTables(tables, current)
      /\ Hist \cap Recoverable \subseteq Recoverable' /\ Hist \cap Durable \subseteq Durable'
      /\ manifest'.end # "lost" => log_number <= manifest'.log
      /\ manifest'.log <= logfile_number_
      /\ LogContents' /\ Pairs' /\ Hist' = Hist
  BY <1>2, <1>4, <1>5, ManifestContents
<1>7. EditRange' /\ Replayed'
  BY <1>2, <1>6 DEF EditRange, Replayed
<1>8. TableContents'
  BY <1>1, <1>2, <1>3, <1>6 DEF TableContents
<1> QED
  BY <1>2, <1>4, <1>6, <1>7, <1>8, PersistStep DEF ContentInv

\* Deleting files that the manifest does not need loses nothing.
LEMMA DeletedContents ==
    ASSUME Types, UNCHANGED manifest, manifest.tables \subseteq DOMAIN tables',
           \A n \in DOMAIN tables' : tables'[n] = tables[n],
           DOMAIN logs' \subseteq DOMAIN logs, \A n \in DOMAIN logs' : logs'[n] = logs[n],
           \A n \in DOMAIN logs : n >= manifest.log => n \in DOMAIN logs'
    PROVE  Recoverable' = Recoverable /\ Durable' = Durable
<1>2. From(logs', manifest.log) = From(logs, manifest.log) /\ From(logs, manifest.log) \subseteq DOMAIN logs'
  BY DEF From
<1>3. InTables(tables', manifest.tables) = InTables(tables, manifest.tables)
  BY SameTables
<1>4. InLogs(logs', From(logs', manifest.log)) = InLogs(logs, From(logs, manifest.log))
  BY <1>2 DEF InLogs
<1>5. SyncedIn(logs', From(logs', manifest.log)) = SyncedIn(logs, From(logs, manifest.log))
  BY <1>2 DEF SyncedIn
<1> QED
  BY <1>3, <1>4, <1>5, DiskContents

\* The record of the group when other logs were deleted.
LEMMA KeptRecord ==
    ASSUME StoreInv, BaseInv', state' = "up", UNCHANGED <<last_sequence, logfile_number_, group, sync>>,
           stage' = stage \/ SignalAll, \A n \in DOMAIN logs' : logs'[n] = logs[n]
    PROVE  InFlight' = InFlight /\ RecordLogged' /\ (UNCHANGED state => Torn' = Torn)
<1>1. logfile_number_' \in DOMAIN logs'
  BY DEF BaseInv, Numbers
<1>2. logs'[logfile_number_] = logs[logfile_number_]
  BY <1>1
<1>3. stage' = stage \/ (stage \notin Tried /\ stage' \notin Tried)
  BY DEF SignalAll, Tried
<1>4. UNCHANGED state => Torn' = Torn
  <2>1. stage' = "failed" <=> stage = "failed"
    BY <1>3 DEF Tried
  <2> QED
    BY <1>2, <2>1, SameTorn
<1>5. CASE stage' = stage
  BY <1>2, <1>4, <1>5 DEF InFlight, GroupRecord, RecordLogged, StoreInv, ContentInv
<1>6. CASE stage \notin Tried /\ stage' \notin Tried
  BY <1>4, <1>6, NoRecord
<1> QED
  BY <1>3, <1>5, <1>6

\* DeleteObsoleteFiles leaves the logs that the manifest needs.
LEMMA NeededLogsLeft ==
    ASSUME StoreInv, state = "up", NEW by, Install(by), NEW pending, NEW c,
           DeleteObsoleteFiles(pending, c)
    PROVE  \A n \in DOMAIN logs : n >= manifest.log => n \in DOMAIN logs'
<1>1. CASE bg_error_
  BY <1>1 DEF DeleteObsoleteFiles
<1>2. CASE ~bg_error_
  <2>1. BaseInv /\ Types /\ Files /\ EditRange
    BY DEF StoreInv, BaseInv, ContentInv
  <2>2. manifest.end = "whole"
    BY <1>2, <2>1 DEF Files
  <2>3. manifest.log = log_number'
    BY <2>1, <2>2 DEF EditRange, Install
  <2> QED
    BY <2>1, <2>3, FilesLeft
<1> QED
  BY <1>1, <1>2

\* Fewer logs hold fewer entries.
LEMMA FewerLogs ==
    ASSUME DOMAIN logs \subseteq Nat, DOMAIN logs' \subseteq DOMAIN logs,
           \A n \in DOMAIN logs' : logs'[n] = logs[n],
           NEW j \in Nat, NEW i \in Nat, j <= i
    PROVE  InLogs(logs', From(logs', i)) \subseteq InLogs(logs, From(logs, j))
<1>1. From(logs', i) \subseteq From(logs, j) /\ From(logs', i) \subseteq DOMAIN logs'
  BY DEF From
<1> QED
  BY <1>1 DEF InLogs

\* The flush is done.
LEMMA ContentInstallFlush == ASSUME StoreInv, InstallFlush PROVE ContentInv' /\ StoreStep
<1> DEFINE k == logfile_number_
<1>1. BaseInv /\ Types /\ DiskTypes /\ NumberTypes /\ Control /\ Files /\ Numbers /\ EditRange
      /\ LogContents /\ TableContents /\ Pairs /\ BaseInv'
  BY BaseInstallFlush DEF StoreInv, BaseInv, Types, ContentInv
<1>2. /\ Install("flush") /\ imm' = {} /\ flush' = NoFlush
      /\ DeleteObsoleteFiles(pending_outputs_, compact)
      /\ stage' = stage \/ SignalAll
      /\ UNCHANGED <<manifest, state, replay, last_sequence, logfile_number_, mem, group, compact,
                     answer, sync, outages, bg_error_>>
  BY DEF InstallFlush, histVars, openVars
<1>3. /\ edit # NoEdit /\ edit.by = "flush" /\ edit.logged /\ edit' = NoEdit
      /\ log_number' = edit.log /\ state \in {"opening", "up"}
      /\ current' = (current \ edit.deleted) \cup edit.added
  BY <1>1, <1>2, InstallFacts
<1>4. /\ state = "up" /\ edit.deleted = {} /\ edit.added = {flush} /\ edit.log = k
      /\ manifest.end # "lost" => manifest.log = k /\ flush \in manifest.tables
      /\ tables[flush] = imm /\ k \in Nat /\ manifest.log <= k
  BY <1>1, <1>3 DEF Control, Files, EditRange, TableContents, NumberTypes
<1>5. /\ DOMAIN logs' \subseteq DOMAIN logs /\ \A n \in DOMAIN logs' : logs'[n] = logs[n]
      /\ \A n \in DOMAIN logs : n >= log_number' => n \in DOMAIN logs'
      /\ \A n \in DOMAIN tables' : tables'[n] = tables[n]
  BY <1>1, <1>2, FilesLeft
<1>6. /\ manifest.tables \subseteq DOMAIN tables' /\ current' \subseteq DOMAIN tables'
      /\ compact # NoCompaction => compact.inputs \subseteq DOMAIN tables'
      /\ compact # NoCompaction /\ compact.written => compact.output \in DOMAIN tables'
  BY <1>1, <1>2 DEF BaseInv, Files
<1>7. Recoverable' = Recoverable /\ Durable' = Durable
  <2>1. \A n \in DOMAIN logs : n >= manifest.log => n \in DOMAIN logs'
    BY <1>2, <1>4, NeededLogsLeft
  <2> QED
    BY <1>1, <1>2, <1>5, <1>6, <2>1, DeletedContents
<1>8. InTables(tables', current') = InTables(tables, current) \cup imm
      /\ InTables(tables', manifest.tables) = InTables(tables, manifest.tables)
  <2>1. InTables(tables', current') = InTables(tables, current')
        /\ InTables(tables', manifest.tables) = InTables(tables, manifest.tables)
    BY <1>5, <1>6, SameTables
  <2>2. InTables(tables, current') = InTables(tables, current) \cup imm
    BY <1>3, <1>4 DEF InTables
  <2> QED
    BY <2>1, <2>2
<1>9. manifest.end # "lost" => imm \subseteq InTables(tables, manifest.tables)
  BY <1>4 DEF InTables
<1>10. Visible' = Visible
  BY <1>2, <1>8, DiskContents
<1>11. InFlight' = InFlight /\ RecordLogged' /\ Torn' = Torn
  BY <1>1, <1>2, <1>4, <1>5, KeptRecord
<1>12. EditRange' /\ Replayed'
  BY <1>2, <1>3, <1>4 DEF EditRange, Replayed
<1>13. LogContents'
  <2>1. k \in DOMAIN logs' /\ \A n \in DOMAIN logs' : n \in Nat /\ n <= k
    BY <1>1, <1>2, <1>4 DEF BaseInv, Types, DiskTypes, Numbers
  <2>2. InLog(logfile_number_)' = InLog(k) /\ \A n \in DOMAIN logs' : InLog(n)' = InLog(n)
    BY <1>2, <1>5, <2>1 DEF InLog
  <2>3. ASSUME NEW n \in DOMAIN logs', (n >= log_number' \/ n >= manifest'.log) /\ n # logfile_number_',
               NEW e \in InLog(n)'
        PROVE  e \in imm' \cup InTables(tables', current') \/ GivenUp(e)'
    <3>1. n \in DOMAIN logs /\ e \in InLog(n) /\ n # k /\ n >= manifest.log
      BY <1>2, <1>3, <1>4, <1>5, <2>1, <2>2, <2>3
    <3>2. e \in imm \cup InTables(tables, current) \/ GivenUp(e)
      BY <1>1, <1>4, <3>1 DEF LogContents
    <3> QED
      BY <1>2, <1>8, <3>2 DEF GivenUp
  <2>4. \A e \in InLog(logfile_number_)' : e \in mem' \cup InFlight' \/ GivenUp(e)'
    BY <1>1, <1>2, <1>4, <1>11, <2>2 DEF LogContents, GivenUp
  <2>5. \A e \in mem' : answer'[e[2]] = "ok"
    BY <1>1, <1>2, <1>4 DEF LogContents
  <2> QED
    BY <2>3, <2>4, <2>5 DEF LogContents
<1>14. TableContents'
  <2>1. /\ manifest.end # "lost" =>
              InTables(tables', current') \subseteq InTables(tables', manifest.tables)
        /\ InTables(tables', manifest.tables) \subseteq InTables(tables', current')
    BY <1>1, <1>4, <1>8, <1>9 DEF TableContents
  <2>2. ASSUME compact # NoCompaction, compact.written
        PROVE  tables'[compact.output] = InTables(tables', compact.inputs)
    <3>1. InTables(tables', compact.inputs) = InTables(tables, compact.inputs)
      BY <1>5, <1>6, <2>2, SameTables
    <3> QED
      BY <1>1, <1>4, <1>5, <1>6, <2>2, <3>1 DEF TableContents
  <2> QED
    BY <1>2, <1>3, <2>1, <2>2 DEF TableContents
<1>15. Pairs'
  <2>1. log_number \in Nat /\ log_number <= k /\ DOMAIN logs \subseteq Nat /\ log_number' = k
    BY <1>1, <1>3, <1>4 DEF NumberTypes, Numbers, DiskTypes
  <2>2. InLogs(logs', From(logs', k)) \subseteq InLogs(logs, From(logs, log_number))
    BY <1>4, <1>5, <2>1, FewerLogs
  <2>3. Held' \subseteq Held
    BY <1>2, <1>4, <1>7, <1>10, <1>11, <2>1, <2>2, HeldParts
  <2> QED
    BY <1>1, <1>2, <1>11, <2>3, FewerPairs
<1>16. Hist' = Hist
  BY <1>2, <1>4, <1>10 DEF Hist
<1> QED
  BY <1>2, <1>7, <1>11, <1>12, <1>13, <1>14, <1>15, <1>16, StutterStep DEF ContentInv

\* The compaction is done.
LEMMA ContentInstallCompaction == ASSUME StoreInv, InstallCompaction PROVE ContentInv' /\ StoreStep
<1> DEFINE k == logfile_number_
<1>1. BaseInv /\ Types /\ DiskTypes /\ NumberTypes /\ Control /\ Files /\ Numbers /\ EditRange
      /\ LogContents /\ TableContents /\ Pairs /\ BaseInv'
  BY BaseInstallCompaction DEF StoreInv, BaseInv, Types, ContentInv
<1>2. /\ Install("compact") /\ compact' = NoCompaction
      /\ DeleteObsoleteFiles(pending_outputs_', NoCompaction)
      /\ stage' = stage \/ SignalAll
      /\ UNCHANGED <<manifest, state, replay, last_sequence, logfile_number_, mem, imm, group,
                     flush, answer, sync, outages, bg_error_>>
  BY DEF InstallCompaction, histVars, openVars
<1>3. /\ edit # NoEdit /\ edit.by = "compact" /\ edit.logged /\ edit' = NoEdit
      /\ log_number' = edit.log /\ state \in {"opening", "up"}
      /\ current' = (current \ edit.deleted) \cup edit.added
  BY <1>1, <1>2, InstallFacts
<1>4. /\ state = "up" /\ flush = NoFlush /\ compact # NoCompaction /\ compact.written
      /\ edit.deleted = compact.inputs /\ edit.added = {compact.output}
      /\ compact.inputs \subseteq current /\ edit.log = log_number
      /\ tables[compact.output] = InTables(tables, compact.inputs) /\ log_number \in Nat
  BY <1>1, <1>3 DEF Control, Files, EditRange, TableContents, NumberTypes
<1>5. /\ DOMAIN logs' \subseteq DOMAIN logs /\ \A n \in DOMAIN logs' : logs'[n] = logs[n]
      /\ \A n \in DOMAIN logs : n >= log_number' => n \in DOMAIN logs'
      /\ \A n \in DOMAIN tables' : tables'[n] = tables[n]
  BY <1>1, <1>2, FilesLeft
<1>6. manifest.tables \subseteq DOMAIN tables' /\ current' \subseteq DOMAIN tables'
  BY <1>1, <1>2 DEF BaseInv, Files
<1>7. Recoverable' = Recoverable /\ Durable' = Durable
  <2>1. \A n \in DOMAIN logs : n >= manifest.log => n \in DOMAIN logs'
    BY <1>2, <1>4, NeededLogsLeft
  <2> QED
    BY <1>1, <1>2, <1>5, <1>6, <2>1, DeletedContents
<1>8. InTables(tables', current') = InTables(tables, current)
      /\ InTables(tables', manifest.tables) = InTables(tables, manifest.tables)
  <2>1. InTables(tables', current') = InTables(tables, current')
        /\ InTables(tables', manifest.tables) = InTables(tables, manifest.tables)
    BY <1>5, <1>6, SameTables
  <2>2. InTables(tables, current) \subseteq InTables(tables, current')
    BY <1>3, <1>4 DEF InTables
  <2>3. InTables(tables, compact.inputs) \subseteq InTables(tables, current)
    BY <1>4 DEF InTables
  <2>4. InTables(tables, current') \subseteq InTables(tables, current) \cup tables[compact.output]
    BY <1>3, <1>4 DEF InTables
  <2> QED
    BY <1>4, <2>1, <2>2, <2>3, <2>4
<1>9. Visible' = Visible
  BY <1>2, <1>8, DiskContents
<1>10. InFlight' = InFlight /\ RecordLogged' /\ Torn' = Torn
  BY <1>1, <1>2, <1>4, <1>5, KeptRecord
<1>11. EditRange' /\ Replayed'
  BY <1>1, <1>2, <1>3, <1>4 DEF EditRange, Replayed
<1>12. LogContents'
  <2>1. k \in DOMAIN logs'
    BY <1>1, <1>2, <1>4 DEF BaseInv, Numbers
  <2>2. InLog(logfile_number_)' = InLog(k) /\ \A n \in DOMAIN logs' : InLog(n)' = InLog(n)
    BY <1>2, <1>5, <2>1 DEF InLog
  <2> QED
    BY <1>1, <1>2, <1>3, <1>4, <1>5, <1>8, <1>10, <2>2 DEF LogContents, GivenUp
<1>13. TableContents'
  BY <1>1, <1>2, <1>3, <1>4, <1>7, <1>8 DEF TableContents
<1>14. Pairs'
  <2>1. DOMAIN logs \subseteq Nat /\ log_number' = log_number
    BY <1>1, <1>3, <1>4 DEF DiskTypes
  <2>2. InLogs(logs', From(logs', log_number)) \subseteq InLogs(logs, From(logs, log_number))
    BY <1>4, <1>5, <2>1, FewerLogs
  <2>3. Held' \subseteq Held
    BY <1>2, <1>4, <1>7, <1>9, <1>10, <2>1, <2>2, HeldParts
  <2> QED
    BY <1>1, <1>2, <1>10, <2>3, FewerPairs
<1>15. Hist' = Hist
  BY <1>2, <1>4, <1>9 DEF Hist
<1> QED
  BY <1>2, <1>7, <1>10, <1>11, <1>12, <1>13, <1>14, <1>15, StutterStep DEF ContentInv

-----------------------------------------------------------------------------
(* Crash and recovery. *)

\* No group is at work unless the database is open.
LEMMA NothingAtWork ==
    ASSUME BaseInv, state # "up"
    PROVE  stage \in {"front", "wait"} /\ InFlight = {}
<1>1. Queue /\ WriteTypes /\ writers_ = <<>>
  BY DEF BaseInv, Types, Queue
<1>2. Len(group) = 0 /\ group = <<>>
  BY <1>1 DEF Queue, WriteTypes
<1> QED
  BY <1>1, <1>2 DEF Queue, InFlight, Tried

\* Open is done.
LEMMA ContentFinishOpen == ASSUME StoreInv, FinishOpen PROVE ContentInv' /\ StoreStep
<1> DEFINE k == logfile_number_
<1>1. BaseInv /\ Types /\ DiskTypes /\ NumberTypes /\ Control /\ Files /\ Numbers /\ EditRange
      /\ Pairs /\ BaseInv'
  BY BaseFinishOpen DEF StoreInv, BaseInv, Types, ContentInv
<1>2. /\ Install("open") /\ state' = "up" /\ DeleteObsoleteFiles({}, NoCompaction)
      /\ UNCHANGED <<manifest, replay, last_sequence, logfile_number_, mem, imm, stage, group,
                     flush, compact, answer, sync, outages, bg_error_>>
  BY DEF FinishOpen, histVars, writeVars
<1>3. /\ edit # NoEdit /\ edit.by = "open" /\ edit.logged /\ edit' = NoEdit
      /\ log_number' = edit.log /\ state \in {"opening", "up"}
      /\ ~bg_error_ => manifest.tables = current'
  BY <1>1, <1>2, InstallFacts
<1>4. /\ state = "opening" /\ ~bg_error_ /\ mem = {} /\ imm = {} /\ flush = NoFlush
      /\ compact = NoCompaction
  BY <1>1, <1>3 DEF Control
<1>5. /\ edit.log = k /\ manifest.log = k /\ logs[k].records = <<>> /\ ~logs[k].torn /\ k \in Nat
      /\ manifest.tables = current'
  BY <1>1, <1>3, <1>4 DEF EditRange, NumberTypes, Files
<1>6. /\ DOMAIN logs' \subseteq DOMAIN logs /\ \A n \in DOMAIN logs' : logs'[n] = logs[n]
      /\ \A n \in DOMAIN logs : n >= log_number' => n \in DOMAIN logs'
      /\ \A n \in DOMAIN tables' : tables'[n] = tables[n]
  BY <1>1, <1>2, FilesLeft
<1>7. manifest.tables \subseteq DOMAIN tables'
  BY <1>1, <1>2 DEF BaseInv, Files
<1>8. Recoverable' = Recoverable /\ Durable' = Durable
  BY <1>1, <1>2, <1>3, <1>5, <1>6, <1>7, DeletedContents
<1>9. /\ k \in DOMAIN logs' /\ (\A n \in DOMAIN logs' : n \in Nat /\ n <= k)
      /\ InLog(logfile_number_)' = {}
  <2>1. k \in DOMAIN logs' /\ \A n \in DOMAIN logs' : n \in Nat /\ n <= k
    BY <1>1, <1>2 DEF BaseInv, Types, DiskTypes, Numbers
  <2>2. logs'[k].records = <<>>
    BY <1>5, <1>6, <2>1
  <2>3. Len(logs'[k].records) = 0 /\ 1 .. 0 = {}
    BY <2>2
  <2> QED
    BY <1>2, <2>1, <2>3 DEF InLog, LogEntries
<1>10. InLogs(logs', From(logs', k)) = {}
  <2>1. From(logs', k) = {k}
    BY <1>5, <1>9 DEF From
  <2> QED
    BY <1>2, <1>9, <2>1 DEF InLogs, InLog
<1>11. Recoverable' = InTables(tables', current')
  BY <1>2, <1>5, <1>10, DiskContents
<1>12. Hist' = Hist
  <2>1. Visible' = InTables(tables', current')
    BY <1>2, <1>4, DiskContents
  <2> QED
    BY <1>2, <1>4, <1>8, <1>11, <2>1 DEF Hist
<1>13. stage \notin Tried /\ stage' \notin Tried
  BY <1>1, <1>2, <1>4, NothingAtWork DEF Tried
<1>14. InFlight = {} /\ InFlight' = {} /\ RecordLogged'
  BY <1>13, NoRecord
<1>15. EditRange' /\ Replayed'
  BY <1>2, <1>3, <1>5 DEF EditRange, Replayed
<1>16. LogContents'
  <2>1. \A n \in DOMAIN logs' : ~((n >= log_number' \/ n >= manifest'.log) /\ n # k)
    BY <1>2, <1>3, <1>5, <1>9
  <2> QED
    BY <1>2, <1>4, <1>9, <2>1 DEF LogContents
<1>17. TableContents'
  BY <1>2, <1>3, <1>4, <1>5 DEF TableContents
<1>18. Pairs'
  <2>1. \A h \in Recoverable' : h[1] <= last_sequence'
    <3>1. \A n \in DOMAIN tables' : \A e \in tables'[n] : e[1] <= last_sequence'
      BY <1>1, <1>2 DEF BaseInv, Sequences
    <3> QED
      BY <1>5, <1>7, <1>11, <3>1 DEF InTables
  <2>2. Held = Recoverable
    BY <1>4, HeldParts
  <2>3. Held' = Recoverable'
    <3>1. Visible' = Recoverable' /\ log_number' = k
      BY <1>2, <1>3, <1>4, <1>5, <1>11, DiskContents
    <3> QED
      BY <1>2, <1>10, <1>14, <3>1, HeldParts
  <2>4. /\ \A g, h \in Recoverable' : g[1] = h[1] \/ g[2] = h[2] => g = h
        /\ \A h \in Recoverable' : answer[h[2]] \in {"ok", "failed", "lost"}
    BY <1>1, <1>8, <1>14, <2>2 DEF Pairs
  <2> QED
    BY <1>2, <2>1, <2>3, <2>4 DEF Pairs
<1>19. Torn' = Torn
  <2>1. Torn = FALSE
    BY <1>4, NoLogInUse
  <2>2. logs'[k].torn = logs[k].torn
    BY <1>6, <1>9
  <2>3. Torn' = FALSE
    BY <1>2, <1>5, <2>2 DEF Torn
  <2> QED
    BY <2>1, <2>3
<1> QED
  BY <1>2, <1>8, <1>12, <1>14, <1>15, <1>16, <1>17, <1>18, <1>19, StutterStep DEF ContentInv

\* What is found after a crash and was not seen before it was asked for and not
\* acknowledged.
LEMMA CrashContents ==
    ASSUME StoreInv
    PROVE  \A h \in Recoverable \ Hist : answer[h[2]] \in {"asked", "failed", "lost"}
<1>1. BaseInv /\ LogContents /\ TableContents
  BY DEF StoreInv, ContentInv
<1>2. CASE state # "up"
  BY <1>2 DEF Hist
<1>3. CASE state = "up"
  <2> DEFINE k == logfile_number_
             M == manifest.tables
             L == From(logs, manifest.log)
  <2>1. Recoverable = InTables(tables, M) \cup InLogs(logs, L)
        /\ Hist = mem \cup imm \cup InTables(tables, current)
    BY <1>3, DiskContents DEF Hist
  <2> SUFFICES ASSUME NEW h \in Recoverable \ Hist
               PROVE  answer[h[2]] \in {"asked", "failed", "lost"}
    BY <1>3
  <2>2. h \notin InTables(tables, M)
    <3>1. InTables(tables, M) \subseteq imm \cup InTables(tables, current)
      BY <1>1, <1>3 DEF TableContents
    <3> QED
      BY <2>1, <3>1
  <2>3. PICK n \in L : h \in LogEntries(logs[n], Len(logs[n].records))
    BY <2>1, <2>2 DEF InLogs
  <2>4. n \in DOMAIN logs /\ n >= manifest.log /\ h \in InLog(n)
    BY <2>3 DEF From, InLog
  <2>5. h \in InFlight \/ GivenUp(h)
    <3>1. CASE n = k
      BY <1>1, <1>3, <2>1, <2>4, <3>1 DEF LogContents
    <3>2. CASE n # k
      BY <1>1, <1>3, <2>1, <2>4, <3>2 DEF LogContents
    <3> QED
      BY <3>1, <3>2
  <2>6. CASE h \in InFlight
    <3>1. h \in EntriesOf(GroupRecord)
      BY <2>6 DEF InFlight
    <3> QED
      BY <1>1, <3>1, GroupEntries, FirstAsked
  <2>7. CASE GivenUp(h)
    BY <2>7 DEF GivenUp
  <2> QED
    BY <2>5, <2>6, <2>7
<1> QED
  BY <1>2, <1>3

\* The state after the process ended.
LEMMA StoppedContent ==
    ASSUME StoreInv, Stop, Recoverable' \subseteq Recoverable
    PROVE  ContentInv' /\ Hist' = Recoverable'
<1>1. /\ state' = "down" /\ edit' = NoEdit /\ stage' = "front" /\ UNCHANGED sync
      /\ answer' = [w \in Writes |-> IF answer[w] = "asked" THEN "lost" ELSE answer[w]]
  BY DEF Stop
<1>2. EditRange' /\ RecordLogged' /\ Replayed' /\ LogContents' /\ TableContents'
  BY <1>1 DEF EditRange, RecordLogged, Replayed, LogContents, TableContents, Appended
<1>3. ASSUME NEW h \in Recoverable PROVE answer'[h[2]] \in {"ok", "failed", "lost"}
  <2>1. BaseInv /\ h[2] \in Writes /\ h \in Held
    BY <1>3, ContentsTyped, HeldParts DEF StoreInv
  <2>2. CASE h \in InFlight
    <3>1. h \in EntriesOf(GroupRecord)
      BY <2>2 DEF InFlight
    <3>2. answer[h[2]] = "asked"
      BY <2>1, <3>1, GroupEntries, FirstAsked
    <3> QED
      BY <1>1, <2>1, <3>2
  <2>3. CASE h \notin InFlight
    BY <1>1, <2>1, <2>3 DEF StoreInv, ContentInv, Pairs
  <2> QED
    BY <2>2, <2>3
<1>4. \A g, h \in Recoverable : g[1] = h[1] \/ g[2] = h[2] => g = h
  BY HeldParts DEF StoreInv, ContentInv, Pairs
<1>5. Pairs'
  <2>1. Held' \subseteq Recoverable
    BY <1>1, HeldParts
  <2> QED
    BY <1>1, <1>3, <1>4, <2>1 DEF Pairs
<1>6. Hist' = Recoverable'
  BY <1>1 DEF Hist
<1> QED
  BY <1>2, <1>5, <1>6 DEF ContentInv

\* The process is killed.
LEMMA ContentKill == ASSUME StoreInv, Kill PROVE ContentInv' /\ StoreStep
<1>1. /\ Stop /\ UNCHANGED <<logs, tables, manifest, outages, sync>>
      /\ answer' = [w \in Writes |-> IF answer[w] = "asked" THEN "lost" ELSE answer[w]]
  BY DEF Kill, Stop
<1>2. Recoverable' = Recoverable /\ Durable' = Durable
  BY <1>1, SameDisk
<1>3. ContentInv' /\ Hist' = Recoverable
  BY <1>1, <1>2, StoppedContent
<1>4. \A h \in Recoverable \ Hist : answer[h[2]] \in {"asked", "failed", "lost"}
  BY CrashContents
<1>5. \A g, h \in Recoverable : g[1] = h[1] \/ g[2] = h[2] => g = h
  BY HeldParts DEF StoreInv, ContentInv, Pairs
<1>6. Torn' = FALSE
  BY <1>1, NoLogInUse DEF Stop
<1> QED
  BY <1>1, <1>2, <1>3, <1>4, <1>5, <1>6, CrashStep

\* The power goes.
LEMMA ContentPowerLoss == ASSUME StoreInv, PowerLoss PROVE ContentInv' /\ StoreStep
<1> DEFINE L == From(logs, manifest.log)
<1>1. /\ Stop /\ UNCHANGED <<tables, manifest, sync>> /\ outages' = outages + 1
      /\ answer' = [w \in Writes |-> IF answer[w] = "asked" THEN "lost" ELSE answer[w]]
  BY DEF PowerLoss, Stop
<1>2. Types /\ DiskTypes
  BY DEF StoreInv, BaseInv, Types
<1>3. /\ DOMAIN logs' = DOMAIN logs
      /\ \A n \in DOMAIN logs :
            /\ logs[n].synced <= logs'[n].synced
            /\ logs'[n].synced = Len(logs'[n].records)
            /\ Len(logs'[n].records) \in Nat
            /\ Len(logs'[n].records) <= Len(logs[n].records)
            /\ \A i \in 1 .. Len(logs'[n].records) : logs'[n].records[i] = logs[n].records[i]
  BY <1>2, PowerLossLogs
<1>4. From(logs', manifest.log) = L /\ L \subseteq DOMAIN logs
  BY <1>3 DEF From
<1>5. ASSUME NEW n \in DOMAIN logs
      PROVE  /\ LogEntries(logs'[n], Len(logs'[n].records)) \subseteq LogEntries(logs[n], Len(logs[n].records))
             /\ LogEntries(logs[n], logs[n].synced) \subseteq LogEntries(logs'[n], logs'[n].synced)
             /\ LogEntries(logs'[n], logs'[n].synced) = LogEntries(logs'[n], Len(logs'[n].records))
  <2>1. logs[n].synced \in Nat /\ Len(logs[n].records) \in Nat
    BY <1>2 DEF DiskTypes, LogFile
  <2>2. 1 .. Len(logs'[n].records) \subseteq 1 .. Len(logs[n].records)
        /\ 1 .. logs[n].synced \subseteq 1 .. Len(logs'[n].records)
    BY <1>3, <2>1
  <2>3. LogEntries(logs'[n], Len(logs'[n].records)) \subseteq LogEntries(logs[n], Len(logs[n].records))
    BY <1>3, <2>2 DEF LogEntries
  <2>4. LogEntries(logs[n], logs[n].synced) \subseteq LogEntries(logs'[n], Len(logs'[n].records))
    BY <1>3, <2>2 DEF LogEntries
  <2> QED
    BY <1>3, <2>3, <2>4
<1>6. InLogs(logs', L) \subseteq InLogs(logs, L)
  BY <1>4, <1>5 DEF InLogs
<1>7. SyncedIn(logs, L) \subseteq SyncedIn(logs', L)
  BY <1>4, <1>5 DEF SyncedIn
<1>8. SyncedIn(logs', L) = InLogs(logs', L)
  BY <1>4, <1>5 DEF SyncedIn, InLogs
<1>9. Recoverable' \subseteq Recoverable /\ Durable \subseteq Durable' /\ Durable' = Recoverable'
  BY <1>1, <1>4, <1>6, <1>7, <1>8, DiskContents
<1>10. ContentInv' /\ Hist' = Recoverable'
  BY <1>1, <1>9, StoppedContent
<1>11. \A h \in Recoverable \ Hist : answer[h[2]] \in {"asked", "failed", "lost"}
  BY CrashContents
<1>12. \A g, h \in Recoverable : g[1] = h[1] \/ g[2] = h[2] => g = h
  BY HeldParts DEF StoreInv, ContentInv, Pairs
<1>13. /\ Hist \cap Durable \subseteq Hist'
       /\ \A h \in Hist' \ Hist : answer[h[2]] \in {"asked", "failed", "lost"}
       /\ \A g, h \in Hist' : g[1] = h[1] \/ g[2] = h[2] => g = h
  BY <1>9, <1>10, <1>11, <1>12
<1>14. Torn' = FALSE
  BY <1>1, NoLogInUse DEF Stop
<1> QED
  BY <1>1, <1>9, <1>10, <1>13, <1>14, CrashStep

\* A step of Open that keeps what the manifest says and needs.
LEMMA OpenContent ==
    ASSUME StoreInv, state # "up", state' # "up", Recoverable' = Recoverable, Durable' = Durable,
           UNCHANGED <<stage, answer, sync, outages>>, EditRange', Replayed'
    PROVE  ContentInv' /\ StoreStep
<1>1. BaseInv /\ Pairs
  BY DEF StoreInv, ContentInv
<1>2. stage \notin Tried /\ stage' \notin Tried
  BY <1>1, NothingAtWork DEF Tried
<1>3. InFlight = {} /\ InFlight' = {} /\ RecordLogged'
  BY <1>2, NoRecord
<1>4. LogContents' /\ TableContents'
  BY DEF LogContents, TableContents
<1>5. Pairs'
  <2>1. Held' = Held
    BY HeldParts
  <2> QED
    BY <1>1, <1>3, <2>1 DEF Pairs
<1>6. Hist' = Hist /\ Torn' = Torn
  BY NoLogInUse DEF Hist
<1> QED
  BY <1>3, <1>4, <1>5, <1>6, StutterStep DEF ContentInv

\* Open fails.
LEMMA ContentOpenFails == ASSUME StoreInv, OpenFails PROVE ContentInv' /\ StoreStep
<1>1. /\ edit # NoEdit /\ edit.by = "open" /\ state' = "down" /\ edit' = NoEdit
      /\ UNCHANGED <<logs, tables, manifest, stage, answer, sync, outages>>
  BY DEF OpenFails, diskVars, writeVars
<1>2. state # "up"
  BY <1>1 DEF StoreInv, BaseInv, Control
<1>3. Recoverable' = Recoverable /\ Durable' = Durable
  BY <1>1, SameDisk
<1>4. EditRange' /\ Replayed'
  BY <1>1 DEF EditRange, Replayed
<1> QED
  BY <1>1, <1>2, <1>3, <1>4, OpenContent

\* The manifest is read.
LEMMA ContentRecover == ASSUME StoreInv, Recover PROVE ContentInv' /\ StoreStep
<1>1. manifest \in Manifest
  BY DEF StoreInv, BaseInv, Types, DiskTypes
<1>2. RecoveredVersion.log = manifest.log
  BY <1>1 DEF RecoveredVersion, Manifest
<1>3. /\ state = "down" /\ state' = "replaying"
      /\ replay' = {n \in DOMAIN logs : n >= manifest.log}
      /\ edit'.added = {} /\ ~edit'.logged
      /\ UNCHANGED <<logs, tables, manifest, stage, answer, sync, outages>>
  BY <1>2 DEF Recover, VersionEdit, diskVars, writeVars, histVars
<1>4. Recoverable' = Recoverable /\ Durable' = Durable
  BY <1>3, SameDisk
<1>5. EditRange'
  BY <1>3 DEF EditRange
<1>6. Replayed'
  <2>1. From(logs, manifest.log) \ replay' = {}
    BY <1>3 DEF From
  <2>2. InTables(tables, {}) = {} /\ InLogs(logs, {}) = {}
    BY DEF InTables, InLogs
  <2> QED
    BY <1>3, <2>1, <2>2 DEF Replayed
<1> QED
  BY <1>3, <1>4, <1>5, <1>6, OpenContent

\* A log is replayed.
LEMMA ContentRecoverLogFile ==
    ASSUME StoreInv, NEW n \in replay, RecoverLogFile(n)
    PROVE  ContentInv' /\ StoreStep
<1>1. BaseInv /\ Types /\ MemTypes /\ Control /\ Replayed
  BY DEF StoreInv, BaseInv, Types, ContentInv
<1>2. /\ state = "replaying" /\ replay' = replay \ {n}
      /\ UNCHANGED <<logs, manifest, state, stage, answer, sync, outages>>
  BY DEF RecoverLogFile, writeVars, histVars
<1>3. /\ \A m \in manifest.tables \cup edit.added : tables'[m] = tables[m]
      /\ edit.added \subseteq edit'.added /\ edit'.logged = edit.logged
      /\ \A m \in edit'.added \ edit.added : tables'[m] = InLog(n)
      /\ InLog(n) # {} => edit'.added # edit.added
  BY <1>1, ReplayTable
<1>4. ~edit.logged /\ n \in DOMAIN logs
  BY <1>1, <1>2 DEF Control, MemTypes
<1>5. InTables(tables', manifest.tables) = InTables(tables, manifest.tables)
  BY <1>3, SameTables
<1>6. Recoverable' = Recoverable /\ Durable' = Durable
  BY <1>2, <1>5, DiskContents
<1>7. EditRange'
  BY <1>2, <1>3, <1>4 DEF EditRange
<1>8. InTables(tables', edit'.added) = InTables(tables, edit.added) \cup InLog(n)
  <2>1. InTables(tables', edit.added) = InTables(tables, edit.added)
    BY <1>3, SameTables
  <2>2. InTables(tables', edit'.added) = InTables(tables', edit.added) \cup InTables(tables', edit'.added \ edit.added)
    BY <1>3 DEF InTables
  <2>3. InTables(tables', edit'.added \ edit.added) = InLog(n)
    <3>1. CASE edit'.added = edit.added
      BY <1>3, <3>1 DEF InTables
    <3>2. CASE edit'.added # edit.added
      <4>1. PICK m \in edit'.added \ edit.added : TRUE
        BY <1>3, <3>2
      <4> QED
        BY <1>3, <4>1 DEF InTables
    <3> QED
      BY <3>1, <3>2
  <2> QED
    BY <2>1, <2>2, <2>3
<1>9. /\ \A m \in replay : m >= manifest.log
      /\ InTables(tables, edit.added) = InLogs(logs, From(logs, manifest.log) \ replay)
  BY <1>1, <1>2 DEF Replayed
<1>10. From(logs, manifest.log) \ replay' = (From(logs, manifest.log) \ replay) \cup {n}
  BY <1>2, <1>4, <1>9 DEF From
<1>11. InLogs(logs, From(logs, manifest.log) \ replay') =
           InLogs(logs, From(logs, manifest.log) \ replay) \cup InLog(n)
  BY <1>10 DEF InLogs, InLog
<1>12. Replayed'
  BY <1>2, <1>8, <1>9, <1>11 DEF Replayed
<1> QED
  BY <1>2, <1>6, <1>7, <1>12, OpenContent

\* Open creates its log.
LEMMA ContentNewLog == ASSUME StoreInv, NewLog PROVE ContentInv' /\ StoreStep
<1> DEFINE k == next_file_number
<1>1. BaseInv /\ DiskTypes /\ NumberTypes /\ Numbers /\ Replayed
  BY DEF StoreInv, BaseInv, Types, ContentInv
<1>2. /\ state = "replaying" /\ replay = {} /\ state' = "opening"
      /\ logs' = With(logs, k, EmptyLog) /\ logfile_number_' = k
      /\ edit' = [by |-> "open", added |-> edit.added, deleted |-> {}, log |-> k,
                  next |-> k + 1, last |-> last_sequence, logged |-> FALSE]
      /\ UNCHANGED <<tables, manifest, stage, answer, sync, outages>>
  BY DEF NewLog, VersionEdit, writeVars, histVars
<1>3. k \notin DOMAIN logs
  BY <1>1, <1>2 DEF Numbers, NumberTypes
<1>4. /\ logs'[k] = EmptyLog
      /\ InLogs(logs', From(logs', manifest.log)) = InLogs(logs, From(logs, manifest.log))
      /\ SyncedIn(logs', From(logs', manifest.log)) = SyncedIn(logs, From(logs, manifest.log))
  BY <1>1, <1>2, <1>3, EmptyLogAdds
<1>5. Recoverable' = Recoverable /\ Durable' = Durable
  BY <1>2, <1>4, DiskContents
<1>6. edit'.added = edit.added /\ edit'.log = k /\ ~edit'.logged
  BY <1>2
<1>7. EditRange'
  BY <1>2, <1>4, <1>6 DEF EditRange, EmptyLog
<1>8. Replayed'
  <2>1. InTables(tables, edit.added) = InLogs(logs, From(logs, manifest.log))
    <3>1. From(logs, manifest.log) \ replay = From(logs, manifest.log)
      BY <1>2
    <3> QED
      BY <1>1, <1>2, <3>1 DEF Replayed
  <2> QED
    BY <1>2, <1>4, <1>6, <2>1 DEF Replayed
<1> QED
  BY <1>2, <1>5, <1>7, <1>8, OpenContent

-----------------------------------------------------------------------------
(* The refinement. *)

\* A new database, for its owner and for its users.
LEMMA ContentInit == ASSUME Init PROVE ContentInv /\ Store!Init
<1>1. /\ state = "down" /\ edit = NoEdit /\ stage = "front" /\ manifest.tables = {}
      /\ DOMAIN logs = {} /\ sync = {} /\ outages = 0 /\ answer = [w \in Writes |-> "none"]
  BY DEF Init
<1>2. Recoverable = {} /\ Durable = {} /\ Hist = {} /\ Torn = FALSE
  BY <1>1, NoLogInUse DEF Recoverable, Durable, TableEntries, Hist
<1>3. EditRange /\ RecordLogged /\ Replayed /\ LogContents /\ TableContents
  BY <1>1 DEF EditRange, RecordLogged, Replayed, LogContents, TableContents, Appended
<1>4. Pairs
  BY <1>1, <1>2, HeldParts DEF Pairs
<1>5. Store!Init
  BY <1>1, <1>2 DEF Store!Init, Hist
<1> QED
  BY <1>3, <1>4, <1>5 DEF ContentInv

\* Every step keeps the invariant and is a step of KeyStore.
LEMMA ContentStep == ASSUME StoreInv, [Next]_vars PROVE StoreInv' /\ StoreStep
<1>1. BaseInv'
  BY BaseStep DEF StoreInv
<1>2. ContentInv' /\ StoreStep
  <2>1. CASE \E w \in Writes : Enqueue(w)
    BY <2>1, ContentEnqueue
  <2>2. CASE WriterStep
    <3>1. CASE RejectWrite
      BY <3>1, ContentRejectWrite
    <3>2. CASE WaitForFlush \/ \E n \in 1 .. Len(writers_) : BuildBatchGroup(n)
      BY <3>2, ContentWaitOrGroup
    <3>3. CASE \E ok \in BOOLEAN : SwitchMemTable(ok)
      BY <3>3, ContentSwitchMemTable
    <3>4. CASE \E ok \in BOOLEAN : AddRecord(ok)
      BY <3>4, ContentAddRecord
    <3>5. CASE \E ok \in BOOLEAN : SyncLog(ok)
      BY <3>5, ContentSyncLog
    <3>6. CASE FinishWrite
      BY <3>6, ContentFinishWrite
    <3> QED
      BY <2>2, <3>1, <3>2, <3>3, <3>4, <3>5, <3>6 DEF WriterStep
  <2>3. CASE BackgroundStep
    <3>1. CASE \/ StartFlush \/ GiveUp \/ BuildTable(FALSE)
               \/ \E inputs \in SUBSET current : StartCompaction(inputs)
               \/ OpenCompactionOutputFile \/ AbortCompaction
      BY <3>1, ContentBackground
    <3>2. CASE BuildTable(TRUE)
      BY <3>2, ContentBuildTable
    <3>3. CASE FinishCompactionOutputFile
      BY <3>3, ContentFinishCompactionOutputFile
    <3>4. CASE InstallCompactionResults
      BY <3>4, ContentInstallCompactionResults
    <3>5. CASE LogEdit \/ LogEditFails
      BY <3>5, ContentLogEdit, ContentLogEditFails
    <3>6. CASE InstallFlush \/ InstallCompaction
      BY <3>6, ContentInstallFlush, ContentInstallCompaction
    <3>7. ASSUME NEW ok \in BOOLEAN, BuildTable(ok) PROVE BuildTable(TRUE) \/ BuildTable(FALSE)
      <4>1. CASE ok = TRUE
        BY <3>7, <4>1
      <4>2. CASE ok = FALSE
        BY <3>7, <4>2
      <4> QED
        BY <4>1, <4>2
    <3> QED
      BY <2>3, <3>1, <3>2, <3>3, <3>4, <3>5, <3>6, <3>7 DEF BackgroundStep
  <2>4. CASE NewIterator \/ DeleteIterator \/ UNCHANGED vars
    BY <2>4, ContentBackground
  <2>5. CASE Kill \/ PowerLoss
    BY <2>5, ContentKill, ContentPowerLoss
  <2>6. CASE Recover \/ OpenFails \/ NewLog \/ FinishOpen
    BY <2>6, ContentRecover, ContentOpenFails, ContentNewLog, ContentFinishOpen
  <2>7. CASE \E n \in replay : RecoverLogFile(n)
    BY <2>7, ContentRecoverLogFile
  <2> QED
    BY <2>1, <2>2, <2>3, <2>4, <2>5, <2>6, <2>7 DEF Next
<1> QED
  BY <1>1, <1>2 DEF StoreInv

\* The storage engine keeps the promises of KeyStore: unless an earlier write
\* has failed and torn the log in use (Writer::EmitPhysicalRecord), a write that
\* is acknowledged outlives the process (DBImpl::Write, Recover) and a synced
\* one the machine; no crash brings back anything but writes that were asked
\* for and not acknowledged; and flushes, compactions and deletions of files
\* change nothing a reader can see.
THEOREM EngineKeepsPromises == Spec => StoreSpec
<1>1. Init => StoreInv /\ Store!Init
  BY BaseInit, ContentInit DEF StoreInv
<1>2. StoreInv /\ [Next]_vars => StoreInv' /\ [Store!Next]_(Store!storeVars)
  BY ContentStep DEF StoreStep
<1> QED
  BY <1>1, <1>2, PTL DEF Spec, StoreSpec, Store!Spec

=============================================================================
