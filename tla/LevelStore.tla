----------------------------- MODULE LevelStore -----------------------------
(***************************************************************************)
(* Writing, flushing, compacting, deleting files, crashing and recovering  *)
(* in the storage engine (leveldb/db/db_impl.cc, version_set.cc).          *)
(*                                                                         *)
(* Threads: callers of Write, queued in writers_, the one at the front     *)
(* working for a group of them; one background thread, which flushes imm_  *)
(* and compacts tables, and may flush in the middle of a compaction.  Each *)
(* action is what one thread does between two points where it lets go of   *)
(* mutex_.  The disk: record logs, table files and the manifest.           *)
(*                                                                         *)
(* Keys are left to module Levels and bytes to module LevelLog: here a     *)
(* write is one entry with its sequence number, a log is a sequence of     *)
(* records, and a table is a set of entries.                               *)
(***************************************************************************)
EXTENDS Naturals, Sequences, FiniteSets

CONSTANTS
    MaxWrites,    \* bound: writes asked for
    SyncWrites,   \* the ones asked for with WriteOptions::sync
    MemTableSize, \* entries that fill the memtable (write_buffer_size)
    MaxCompactions, \* bound: compactions started
    MaxKills,     \* bound: times the process ends or is ended
    MaxOutages,   \* bound: times the power goes
    MaxFaults,    \* bound: calls of the file system that fail
    MaxReads,     \* bound: iterators opened
    NoFlush, NoCompaction, NoEdit, NoReader

\* A compaction at work, and a version edit (VersionEdit, version_edit.h).
CompactionState ==
    [inputs : SUBSET Nat, version : SUBSET Nat, output : Nat, written : BOOLEAN]
EditRecord ==
    [by : {"flush", "compact", "open"}, added : SUBSET Nat, deleted : SUBSET Nat,
     log : Nat, next : Nat, last : Nat, logged : BOOLEAN]

ASSUME StoreAssumption ==
    /\ {MaxWrites, MaxCompactions, MaxKills, MaxOutages, MaxFaults, MaxReads} \subseteq Nat
    /\ MemTableSize \in Nat \ {0}
    /\ SyncWrites \subseteq 1 .. MaxWrites
    /\ NoFlush \notin Nat /\ NoCompaction \notin CompactionState /\ NoEdit \notin EditRecord

VARIABLES
    \* The disk.
    logs,              \* for each log file: the records that a reader of it
                       \* will find, how many of them are synced, and whether
                       \* an append to it has failed
    tables,            \* for each table file: its entries
    manifest,          \* what the manifest named by CURRENT adds up to, and
                       \* whether its end is whole, torn by an append that
                       \* failed, or lost to its reader
    \* The process.
    state,             \* "down", "replaying", "opening" or "up"
    replay,            \* the logs that Recover has yet to replay
    next_file_number,
    last_sequence,
    log_number,        \* versions_->LogNumber()
    logfile_number_,   \* the log of mem
    mem, imm,
    current,           \* numbers of the table files of the current version
    pending_outputs_,
    bg_error_,         \* whether an error has been recorded
    bg_compaction_scheduled_,
    writers_,
    stage,             \* how far the front writer is, "wait" if in bg_cv_.Wait
    group,             \* the writes it works for
    flush,             \* CompactMemTable at work
    compact,           \* DoCompactionWork at work
    edit,              \* the version edit LogAndApply is writing
    reader,            \* the version an iterator holds
    \* History.
    answer, sync, outages, used

diskVars == <<logs, tables, manifest>>
openVars == <<state, replay>>
writeVars == <<writers_, stage, group>>
numberVars == <<next_file_number, last_sequence, log_number, logfile_number_>>
bgVars == <<bg_compaction_scheduled_, flush, compact, edit>>
histVars == <<sync, outages, used>>
vars == <<diskVars, openVars, numberVars, mem, imm, current, pending_outputs_, bg_error_,
          writeVars, bgVars, reader, answer, histVars>>

Writes == 1 .. MaxWrites
Entry == (Nat \ {0}) \X Writes

\* f with x mapped to v.
With(f, x, v) == [n \in DOMAIN f \cup {x} |-> IF n = x THEN v ELSE f[n]]
Only(f, S) == [n \in DOMAIN f \cap S |-> f[n]]

EmptyLog == [records |-> <<>>, synced |-> 0, torn |-> FALSE]

\* Record r holds consecutive entries from sequence number r.seq.
EntriesOf(r) == {<<r.seq + i - 1, r.batch[i]>> : i \in DOMAIN r.batch}
LogEntries(log, n) == UNION {EntriesOf(log.records[i]) : i \in 1 .. n}
TableEntries(S) == UNION {tables[n] : n \in S}

\* Calls of the file system fail now and then.
Fault == used.faults < MaxFaults /\ used' = [used EXCEPT !.faults = @ + 1]

-----------------------------------------------------------------------------
\* DBImpl::Write.
Enqueue(w) ==
    /\ state = "up"
    /\ answer[w] = "none" /\ \A v \in 1 .. w - 1 : answer[v] # "none"
    /\ writers_' = Append(writers_, w)
    /\ answer' = [answer EXCEPT ![w] = "asked"]
    /\ sync' = sync \cup ({w} \cap SyncWrites)
    /\ UNCHANGED <<diskVars, openVars, numberVars, mem, imm, current, pending_outputs_,
                   bg_error_, stage, group, bgVars, reader, outages, used>>

AtFront == state = "up" /\ writers_ # <<>> /\ stage = "front"
Full == Cardinality(mem) >= MemTableSize
FirstWriters(n) == {writers_[i] : i \in 1 .. n}

\* Mutant: the group is answered but only its first writer leaves the queue.
DismissFirst(n, status) ==
    /\ writers_' = Tail(writers_)
    /\ answer' = [w \in Writes |-> IF w \in FirstWriters(n) THEN status ELSE answer[w]]

\* The first n writers leave the queue with their answer.
Dismiss(n, status) ==
    /\ writers_' = SubSeq(writers_, n + 1, Len(writers_))
    /\ answer' = [w \in Writes |-> IF w \in FirstWriters(n) THEN status ELSE answer[w]]

\* MakeRoomForWrite yields the background error.
RejectWrite ==
    /\ AtFront /\ bg_error_
    /\ Dismiss(1, "failed")
    /\ UNCHANGED <<diskVars, openVars, numberVars, mem, imm, current, pending_outputs_,
                   bg_error_, stage, group, bgVars, reader, histVars>>

\* MakeRoomForWrite: both memtables are full.
WaitForFlush ==
    /\ AtFront /\ ~bg_error_ /\ Full /\ imm # {}
    /\ stage' = "wait"
    /\ UNCHANGED <<diskVars, openVars, numberVars, mem, imm, current, pending_outputs_,
                   bg_error_, writers_, group, bgVars, reader, answer, histVars>>

\* MakeRoomForWrite: the memtable is full and the last one has been flushed.
\* If the new log cannot be created the write fails, and only that.
SwitchMemTable(ok) ==
    /\ AtFront /\ ~bg_error_ /\ Full /\ imm = {}
    /\ \/ /\ ok
          /\ logs' = With(logs, next_file_number, EmptyLog)
          /\ logfile_number_' = next_file_number
          /\ next_file_number' = next_file_number + 1
          /\ imm' = mem
          /\ mem' = {}
          /\ bg_compaction_scheduled_' = TRUE
          /\ UNCHANGED <<writers_, answer, used>>
       \/ /\ ~ok /\ Fault
          /\ Dismiss(1, "failed")
          /\ UNCHANGED <<logs, logfile_number_, next_file_number, imm, mem,
                         bg_compaction_scheduled_>>
    /\ UNCHANGED <<tables, manifest, openVars, last_sequence, log_number, current,
                   pending_outputs_, bg_error_, stage, group, flush, compact, edit,
                   reader, sync, outages>>

\* Mutant: a sync write may ride with one that is not.
AnyGroup(n) == TRUE

\* A group handled by a non-sync write has no sync write in it.
GroupAllowed(n) ==
    \A i \in 1 .. n : writers_[i] \in sync => writers_[1] \in sync

\* BuildBatchGroup: the front writer and some that wait behind it.
BuildBatchGroup(n) ==
    /\ AtFront /\ ~bg_error_ /\ ~Full
    /\ GroupAllowed(n)
    /\ group' = SubSeq(writers_, 1, n)
    /\ stage' = "append"
    /\ UNCHANGED <<diskVars, openVars, numberVars, mem, imm, current, pending_outputs_,
                   bg_error_, writers_, bgVars, reader, answer, histVars>>

\* log_->AddRecord, without the mutex.  An append that fails leaves some of its
\* bytes, at times all of them, and is no background error: the log goes on
\* being used, and what comes after the torn bytes may be lost to its reader.
AddRecord(ok) ==
    /\ state = "up" /\ stage = "append"
    /\ LET log == logs[logfile_number_]
           without == log.records
           appended == Append(without, [seq |-> last_sequence + 1, batch |-> group])
       IN  \/ /\ ok
              /\ \E found \in IF log.torn THEN {without, appended} ELSE {appended} :
                    logs' = [logs EXCEPT ![logfile_number_].records = found]
              /\ stage' = IF writers_[1] \in sync THEN "sync" ELSE "insert"
              /\ UNCHANGED used
           \/ /\ ~ok /\ Fault
              /\ \E found \in {without, appended} :
                    logs' = [logs EXCEPT ![logfile_number_] =
                                [@ EXCEPT !.records = found, !.torn = TRUE]]
              /\ stage' = "failed"
    /\ UNCHANGED <<tables, manifest, openVars, numberVars, mem, imm, current,
                   pending_outputs_, bg_error_, writers_, group, bgVars, reader, answer,
                   sync, outages>>

\* logfile_->Sync, without the mutex.
SyncLog(ok) ==
    /\ state = "up" /\ stage = "sync"
    /\ \/ /\ ok
          /\ logs' = [logs EXCEPT ![logfile_number_].synced =
                         Len(logs[logfile_number_].records)]
          /\ stage' = "insert"
          /\ UNCHANGED used
       \/ /\ ~ok /\ Fault
          /\ stage' = "unsynced"
          /\ UNCHANGED logs
    /\ UNCHANGED <<tables, manifest, openVars, numberVars, mem, imm, current,
                   pending_outputs_, bg_error_, writers_, group, bgVars, reader, answer,
                   sync, outages>>

\* InsertInto(mem_), then with the mutex: the sequence numbers are used up
\* whatever happened, and the whole group gets its answer.  After a failed sync
\* all future writes fail.
FinishWrite ==
    /\ state = "up" /\ stage \in {"insert", "failed", "unsynced"}
    /\ mem' = IF stage = "insert"
              THEN mem \cup EntriesOf([seq |-> last_sequence + 1, batch |-> group])
              ELSE mem
    /\ last_sequence' = last_sequence + Len(group)
    /\ bg_error_' = (bg_error_ \/ stage = "unsynced")
    /\ Dismiss(Len(group), IF stage = "insert" THEN "ok" ELSE "failed")
    /\ stage' = "front"
    /\ group' = <<>>
    /\ UNCHANGED <<diskVars, openVars, next_file_number, log_number, logfile_number_, imm,
                   current, pending_outputs_, bgVars, reader, histVars>>

-----------------------------------------------------------------------------
\* The background thread.

\* Mutant: nobody is told, and the writer in bg_cv_.Wait sleeps on.
NoSignal == UNCHANGED stage

\* bg_cv_.SignalAll, in RecordBackgroundError, at the end of BackgroundCall and
\* after a flush in the middle of a compaction.
SignalAll == stage' = IF stage = "wait" THEN "front" ELSE stage

\* The end of BackgroundCall, if c is no longer at work: MaybeScheduleCompaction.
EndBackgroundCall(c) ==
    bg_compaction_scheduled_' = (c # NoCompaction \/ (~bg_error_' /\ imm' # {}))

VersionEdit(by, added, deleted, log, next, last) ==
    [by |-> by, added |-> added, deleted |-> deleted, log |-> log, next |-> next,
     last |-> last, logged |-> FALSE]

\* CompactMemTable up to the unlock of WriteLevel0Table.  BackgroundCall starts
\* it if there was no error, DoCompactionWork in any case.
StartFlush ==
    /\ state = "up" /\ bg_compaction_scheduled_
    /\ imm # {} /\ flush = NoFlush /\ edit = NoEdit
    /\ compact = NoCompaction => ~bg_error_
    /\ flush' = next_file_number
    /\ next_file_number' = next_file_number + 1
    /\ pending_outputs_' = pending_outputs_ \cup {next_file_number}
    /\ UNCHANGED <<diskVars, openVars, last_sequence, log_number, logfile_number_, mem, imm,
                   current, bg_error_, writeVars, bg_compaction_scheduled_, compact, edit,
                   reader, answer, histVars>>

\* BackgroundCall finds an error that a writer has recorded in the meantime.
GiveUp ==
    /\ state = "up" /\ bg_compaction_scheduled_ /\ bg_error_
    /\ flush = NoFlush /\ compact = NoCompaction
    /\ bg_compaction_scheduled_' = FALSE
    /\ SignalAll
    /\ UNCHANGED <<diskVars, openVars, numberVars, mem, imm, current, pending_outputs_,
                   bg_error_, writers_, group, flush, compact, edit, reader, answer,
                   histVars>>

\* "Earlier logs no longer needed".
FlushLogNumber == logfile_number_

\* BuildTable without the mutex, then the version edit of CompactMemTable.
BuildTable(ok) ==
    /\ state = "up" /\ flush # NoFlush /\ edit = NoEdit
    /\ pending_outputs_' = pending_outputs_ \ {flush}
    /\ \/ /\ ok
          /\ tables' = With(tables, flush, imm)
          /\ edit' = VersionEdit("flush", {flush}, {}, FlushLogNumber, next_file_number,
                                 last_sequence)
          /\ UNCHANGED <<flush, bg_error_, bg_compaction_scheduled_, stage, used>>
       \/ /\ ~ok /\ Fault
          /\ flush' = NoFlush
          /\ bg_error_' = TRUE
          /\ SignalAll
          /\ EndBackgroundCall(compact)
          /\ UNCHANGED <<tables, edit>>
    /\ UNCHANGED <<logs, manifest, openVars, numberVars, mem, imm, current, writers_, group,
                   compact, reader, answer, sync, outages>>

\* BackgroundCompaction up to the unlock of DoCompactionWork.
StartCompaction(inputs) ==
    /\ state = "up" /\ ~bg_error_ /\ imm = {}
    /\ flush = NoFlush /\ compact = NoCompaction
    /\ inputs # {} /\ used.compactions < MaxCompactions
    /\ used' = [used EXCEPT !.compactions = @ + 1]
    /\ bg_compaction_scheduled_' = TRUE
    /\ compact' = [inputs |-> inputs, version |-> current, output |-> 0,
                    written |-> FALSE]
    /\ UNCHANGED <<diskVars, openVars, numberVars, mem, imm, current, pending_outputs_,
                   bg_error_, writeVars, flush, edit, reader, answer, sync, outages>>

AtWork == state = "up" /\ compact # NoCompaction /\ flush = NoFlush /\ edit = NoEdit

OpenCompactionOutputFile ==
    /\ AtWork /\ compact.output = 0
    /\ compact' = [compact EXCEPT !.output = next_file_number]
    /\ pending_outputs_' = pending_outputs_ \cup {next_file_number}
    /\ next_file_number' = next_file_number + 1
    /\ UNCHANGED <<diskVars, openVars, last_sequence, log_number, logfile_number_, mem, imm,
                   current, bg_error_, writeVars, bg_compaction_scheduled_, flush, edit,
                   reader, answer, histVars>>

\* An output file is written and synced; the loop may go on.
FinishCompactionOutputFile ==
    /\ AtWork /\ compact.output # 0 /\ ~compact.written
    /\ compact' = [compact EXCEPT !.written = TRUE]
    /\ tables' = With(tables, compact.output, TableEntries(compact.inputs))
    /\ UNCHANGED <<logs, manifest, openVars, numberVars, mem, imm, current, pending_outputs_,
                   bg_error_, writeVars, bg_compaction_scheduled_, flush, edit, reader, answer,
                   histVars>>

\* InstallCompactionResults, up to the unlock of LogAndApply.
InstallCompactionResults ==
    /\ AtWork /\ compact.written
    /\ edit' = VersionEdit("compact", {compact.output}, compact.inputs, log_number,
                           next_file_number, last_sequence)
    /\ UNCHANGED <<diskVars, openVars, numberVars, mem, imm, current, pending_outputs_,
                   bg_error_, writeVars, bg_compaction_scheduled_, flush, compact, reader,
                   answer, histVars>>

\* RecordBackgroundError and CleanupCompaction: DeleteObsoleteFiles does nothing.
FailCompaction ==
    /\ bg_error_' = TRUE
    /\ pending_outputs_' = pending_outputs_ \ {compact.output}
    /\ compact' = NoCompaction

AbortCompaction ==
    /\ AtWork /\ Fault
    /\ FailCompaction
    /\ SignalAll
    /\ EndBackgroundCall(NoCompaction)
    /\ UNCHANGED <<diskVars, openVars, numberVars, mem, imm, current, writers_, group, flush,
                   edit, reader, answer, sync, outages>>

-----------------------------------------------------------------------------
\* VersionSet::LogAndApply.  Open writes a new manifest.
Applied(m, e) ==
    [tables |-> (m.tables \ e.deleted) \cup e.added, log |-> e.log, next |-> e.next,
     last |-> e.last, end |-> IF e.by = "open" THEN "whole" ELSE m.end]

\* The record is added to the manifest and synced; for Open, CURRENT is renamed
\* to the new manifest.  After a failed append the manifest goes on being used:
\* its reader may find the record, or stop before it and all that follow.
LogEdit ==
    /\ state # "replaying" /\ edit # NoEdit /\ ~edit.logged
    /\ \/ /\ manifest.end # "lost" \/ edit.by = "open"
          /\ manifest' = Applied(manifest, edit)
       \/ /\ manifest.end # "whole" /\ edit.by # "open"
          /\ manifest' = [manifest EXCEPT !.end = "lost"]
    /\ edit' = [edit EXCEPT !.logged = TRUE]
    /\ UNCHANGED <<logs, tables, openVars, numberVars, mem, imm, current, pending_outputs_,
                   bg_error_, writeVars, bg_compaction_scheduled_, flush, compact, reader,
                   answer, histVars>>

\* The record may or may not be in the manifest: the version stays, the error
\* is recorded and a compaction is cleaned up.
LogEditFails ==
    /\ edit # NoEdit /\ ~edit.logged /\ edit.by # "open" /\ Fault
    /\ \/ /\ manifest.end # "lost"
          /\ \E m \in {manifest, Applied(manifest, edit)} :
                manifest' = [m EXCEPT !.end = "torn"]
       \/ /\ manifest.end # "whole"
          /\ manifest' = [manifest EXCEPT !.end = "lost"]
    /\ edit' = NoEdit
    /\ \/ /\ edit.by = "flush"
          /\ flush' = NoFlush
          /\ bg_error_' = TRUE
          /\ EndBackgroundCall(compact)
          /\ UNCHANGED <<compact, pending_outputs_>>
       \/ /\ edit.by = "compact"
          /\ FailCompaction
          /\ EndBackgroundCall(NoCompaction)
          /\ UNCHANGED flush
    /\ SignalAll
    /\ UNCHANGED <<logs, tables, openVars, numberVars, mem, imm, current, writers_, group,
                   reader, answer, sync, outages>>

\* Open fails before CURRENT is renamed, and its process has no database.
OpenFails ==
    /\ edit # NoEdit /\ ~edit.logged /\ edit.by = "open" /\ Fault
    /\ state' = "down"
    /\ replay' = {}
    /\ edit' = NoEdit
    /\ current' = {}
    /\ UNCHANGED <<diskVars, numberVars, mem, imm, pending_outputs_, bg_error_, writeVars,
                   bg_compaction_scheduled_, flush, compact, reader, answer, sync, outages>>

\* Mutant: the files of versions that are still open are not kept.
LiveWithoutVersions(pending, cur, c) == pending \cup cur

\* pending_outputs_ and AddLiveFiles: the files of all versions in use, the one
\* of compaction c among them.
LiveTables(pending, cur, c) ==
    pending \cup cur \cup (IF reader = NoReader THEN {} ELSE reader)
        \cup (IF c = NoCompaction THEN {} ELSE c.version)

\* DeleteObsoleteFiles, once the other variables have their new values: not
\* after an error, when nobody knows what the manifest says.
DeleteObsoleteFiles(pending, c) ==
    /\ logs' = IF bg_error_ THEN logs ELSE Only(logs, {m \in DOMAIN logs : m >= log_number'})
    /\ tables' = IF bg_error_ THEN tables ELSE Only(tables, LiveTables(pending, current', c))

\* AppendVersion and what the caller does before it lets the mutex go.
Install(by) ==
    /\ edit # NoEdit /\ edit.logged /\ edit.by = by
    /\ current' = (current \ edit.deleted) \cup edit.added
    /\ log_number' = edit.log
    /\ edit' = NoEdit

InstallFlush ==
    /\ Install("flush")
    /\ imm' = {}
    /\ flush' = NoFlush
    /\ DeleteObsoleteFiles(pending_outputs_, compact)
    /\ SignalAll
    /\ UNCHANGED bg_error_
    /\ EndBackgroundCall(compact)
    /\ UNCHANGED <<manifest, openVars, next_file_number, last_sequence, logfile_number_, mem,
                   pending_outputs_, writers_, group, compact, reader, answer, histVars>>

\* CleanupCompaction and ReleaseInputs come before DeleteObsoleteFiles.
InstallCompaction ==
    /\ Install("compact")
    /\ compact' = NoCompaction
    /\ pending_outputs_' = pending_outputs_ \ edit.added
    /\ DeleteObsoleteFiles(pending_outputs_', NoCompaction)
    /\ SignalAll
    /\ UNCHANGED <<bg_error_, imm>>
    /\ EndBackgroundCall(NoCompaction)
    /\ UNCHANGED <<manifest, openVars, next_file_number, last_sequence, logfile_number_, mem,
                   writers_, group, flush, reader, answer, histVars>>

-----------------------------------------------------------------------------
\* An iterator or a Get holds the version it started with.
NewIterator ==
    /\ state = "up" /\ reader = NoReader /\ used.reads < MaxReads
    /\ reader' = current
    /\ used' = [used EXCEPT !.reads = @ + 1]
    /\ UNCHANGED <<diskVars, openVars, numberVars, mem, imm, current, pending_outputs_,
                   bg_error_, writeVars, bgVars, answer, sync, outages>>

DeleteIterator ==
    /\ reader # NoReader
    /\ reader' = NoReader
    /\ UNCHANGED <<diskVars, openVars, numberVars, mem, imm, current, pending_outputs_,
                   bg_error_, writeVars, bgVars, answer, histVars>>

-----------------------------------------------------------------------------
\* Crash and recovery.  Nothing of the process is left.
Stop ==
    /\ state' = "down" /\ replay' = {}
    /\ mem' = {} /\ imm' = {} /\ current' = {}
    /\ pending_outputs_' = {}
    /\ bg_error_' = FALSE
    /\ writers_' = <<>> /\ stage' = "front" /\ group' = <<>>
    /\ bg_compaction_scheduled_' = FALSE
    /\ flush' = NoFlush /\ compact' = NoCompaction /\ edit' = NoEdit
    /\ reader' = NoReader
    /\ answer' = [w \in Writes |-> IF answer[w] = "asked" THEN "lost" ELSE answer[w]]
    /\ UNCHANGED <<tables, manifest, numberVars, sync>>

\* The process ends; what it had written is in the hands of the system.
Kill ==
    /\ state # "down"
    /\ used.kills < MaxKills
    /\ used' = [used EXCEPT !.kills = @ + 1]
    /\ Stop
    /\ UNCHANGED <<logs, outages>>

\* The machine stops: every log loses records that were not synced.
PowerLoss ==
    /\ outages < MaxOutages
    /\ outages' = outages + 1
    /\ Stop
    /\ \E keep \in [DOMAIN logs -> 0 .. MaxWrites] :
          /\ \A n \in DOMAIN logs :
                keep[n] >= logs[n].synced /\ keep[n] <= Len(logs[n].records)
          /\ logs' = [n \in DOMAIN logs |->
                         [logs[n] EXCEPT !.records = SubSeq(@, 1, keep[n]),
                                         !.synced = keep[n]]]
    /\ UNCHANGED used

\* Mutant: file numbers of the logs found are not marked as used.
MarkNothing(next, number) == next

MarkFileNumberUsed(next, number) == IF next <= number THEN number + 1 ELSE next

\* VersionSet::Recover: what the manifest adds up to, and the first number
\* that is free once the new manifest has one.
RecoveredVersion == [manifest EXCEPT !.next = @ + 1]

\* DBImpl::Recover up to the loop: the check for missing files (by number
\* only), and the logs that the manifest does not say to be obsolete.
\* When the reader of the manifest reports damage the database stays shut.
Recover ==
    /\ state = "down"
    /\ RecoveredVersion.tables \subseteq DOMAIN tables \cup DOMAIN logs
    /\ state' = "replaying"
    /\ replay' = {n \in DOMAIN logs : n >= RecoveredVersion.log}
    /\ next_file_number' = RecoveredVersion.next
    /\ last_sequence' = RecoveredVersion.last
    /\ log_number' = RecoveredVersion.log
    /\ current' = RecoveredVersion.tables
    /\ edit' = VersionEdit("open", {}, {}, RecoveredVersion.log, RecoveredVersion.next,
                           RecoveredVersion.last)
    /\ UNCHANGED <<diskVars, logfile_number_, mem, imm, pending_outputs_, bg_error_,
                   writeVars, bg_compaction_scheduled_, flush, compact, reader, answer,
                   histVars>>

\* RecoverLogFile, oldest log first: a log that has records becomes a table.
\* Then the number of the log is marked.  last_sequence is the highest sequence
\* number met so far; nobody reads it before the end of the loop.
RecoverLogFile(n) ==
    /\ state = "replaying" /\ \A m \in replay : n <= m
    /\ LET entries == LogEntries(logs[n], Len(logs[n].records))
           numbers == {last_sequence} \cup {e[1] : e \in entries}
       IN  /\ IF logs[n].records = <<>>
              THEN /\ next_file_number' = MarkFileNumberUsed(next_file_number, n)
                   /\ UNCHANGED <<tables, edit>>
              ELSE /\ tables' = With(tables, next_file_number, entries)
                   /\ edit' = [edit EXCEPT !.added = @ \cup {next_file_number}]
                   /\ next_file_number' = MarkFileNumberUsed(next_file_number + 1, n)
           /\ last_sequence' \in numbers
           /\ \A q \in numbers : q <= last_sequence'
    /\ replay' = replay \ {n}
    /\ UNCHANGED <<logs, manifest, state, log_number, logfile_number_, mem, imm, current,
                   pending_outputs_, bg_error_, writeVars, bg_compaction_scheduled_, flush,
                   compact, reader, answer, histVars>>

\* DB::Open once Recover is done: the new log, up to LogAndApply.
NewLog ==
    /\ state = "replaying" /\ replay = {}
    /\ state' = "opening"
    /\ logs' = With(logs, next_file_number, EmptyLog)
    /\ logfile_number_' = next_file_number
    /\ next_file_number' = next_file_number + 1
    /\ edit' = VersionEdit("open", edit.added, {}, next_file_number, next_file_number + 1,
                           last_sequence)
    /\ UNCHANGED <<tables, manifest, replay, last_sequence, log_number, mem, imm, current,
                   pending_outputs_, bg_error_, writeVars, bg_compaction_scheduled_, flush,
                   compact, reader, answer, histVars>>

FinishOpen ==
    /\ Install("open")
    /\ state' = "up"
    /\ DeleteObsoleteFiles({}, NoCompaction)
    /\ UNCHANGED <<manifest, replay, next_file_number, last_sequence, logfile_number_, mem,
                   imm, pending_outputs_, bg_error_, writeVars, bg_compaction_scheduled_, flush,
                   compact, reader, answer, histVars>>

\* NewDB: an empty manifest, and CURRENT that names it.
Init ==
    /\ logs = [n \in {} |-> EmptyLog]
    /\ tables = [n \in {} |-> {}]
    /\ manifest = [tables |-> {}, log |-> 0, next |-> 2, last |-> 0, end |-> "whole"]
    /\ state = "down" /\ replay = {}
    /\ next_file_number = 2 /\ last_sequence = 0
    /\ log_number = 0 /\ logfile_number_ = 0
    /\ mem = {} /\ imm = {} /\ current = {} /\ pending_outputs_ = {}
    /\ bg_error_ = FALSE
    /\ writers_ = <<>> /\ stage = "front" /\ group = <<>>
    /\ bg_compaction_scheduled_ = FALSE
    /\ flush = NoFlush /\ compact = NoCompaction /\ edit = NoEdit
    /\ reader = NoReader
    /\ answer = [w \in Writes |-> "none"]
    /\ sync = {} /\ outages = 0
    /\ used = [faults |-> 0, kills |-> 0, reads |-> 0, compactions |-> 0]

\* The steps of the front writer and of the background thread.
WriterStep ==
    \/ RejectWrite \/ WaitForFlush
    \/ \E n \in 1 .. Len(writers_) : BuildBatchGroup(n)
    \/ \E ok \in BOOLEAN : SwitchMemTable(ok) \/ AddRecord(ok) \/ SyncLog(ok)
    \/ FinishWrite

BackgroundStep ==
    \/ StartFlush \/ GiveUp
    \/ \E ok \in BOOLEAN : BuildTable(ok)
    \/ \E inputs \in SUBSET current : StartCompaction(inputs)
    \/ OpenCompactionOutputFile \/ FinishCompactionOutputFile
    \/ AbortCompaction \/ InstallCompactionResults
    \/ LogEdit \/ LogEditFails \/ InstallFlush \/ InstallCompaction

Next ==
    \/ \E w \in Writes : Enqueue(w)
    \/ WriterStep \/ BackgroundStep
    \/ NewIterator \/ DeleteIterator
    \/ Kill \/ PowerLoss
    \/ Recover \/ OpenFails \/ NewLog \/ FinishOpen
    \/ \E n \in replay : RecoverLogFile(n)

\* The threads run: none of them is starved by the system.
Spec == Init /\ [][Next]_vars /\ WF_vars(WriterStep) /\ WF_vars(BackgroundStep)

-----------------------------------------------------------------------------
\* The variables have the types of the fields they stand for; the writers in
\* the queue have no answer yet, and the group is the front of the queue.
TypeOK ==
    /\ state \in {"down", "replaying", "opening", "up"} /\ replay \subseteq DOMAIN logs
    /\ DOMAIN logs \cup DOMAIN tables \subseteq Nat
    /\ \A n \in DOMAIN logs : logs[n].synced <= Len(logs[n].records)
    /\ \A n \in DOMAIN tables : tables[n] \subseteq Entry
    /\ {next_file_number, last_sequence, log_number, logfile_number_} \subseteq Nat
    /\ current \cup pending_outputs_ \cup manifest.tables \subseteq Nat
    /\ mem \subseteq Entry /\ imm \subseteq Entry
    /\ {bg_error_, bg_compaction_scheduled_} \subseteq BOOLEAN
    /\ stage \in {"front", "wait", "append", "sync", "insert", "failed", "unsynced"}
    /\ \A i \in DOMAIN writers_ : answer[writers_[i]] = "asked"
    /\ group = SubSeq(writers_, 1, Len(group))

\* MarkFileNumberUsed, SetLastSequence: no file number and no sequence number
\* is ever given out twice, not even after a crash in the middle of Open.
NumbersFresh ==
    state = "up" =>
        /\ \A n \in DOMAIN logs \cup DOMAIN tables : n < next_file_number
        /\ \A n \in DOMAIN tables : \A e \in tables[n] : e[1] <= last_sequence
        /\ \A e \in mem \cup imm : e[1] <= last_sequence

\* DeleteObsoleteFiles: no table that the current version, a reader, a
\* compaction at work or the manifest needs is ever deleted, so Open never
\* finds files missing.
NeededFilesExist ==
    /\ manifest.tables \subseteq DOMAIN tables
    /\ current \subseteq DOMAIN tables
    /\ reader # NoReader => reader \subseteq DOMAIN tables
    /\ compact # NoCompaction => compact.inputs \subseteq DOMAIN tables

\* Every Write returns, with or without success: a writer that waits for a
\* flush is woken up, by the flush or by the error that ended it.
EveryWriteReturns ==
    \A w \in Writes : answer[w] = "asked" ~> answer[w] # "asked"

\* What a reader without a snapshot sees, and what Open would make of the disk.
Visible == mem \cup imm \cup TableEntries(current)
Recoverable ==
    TableEntries(manifest.tables) \cup
    UNION {LogEntries(logs[n], Len(logs[n].records)) :
              n \in {m \in DOMAIN logs : m >= manifest.log}}

\* What a loss of power would leave at least.
Durable ==
    TableEntries(manifest.tables) \cup
    UNION {LogEntries(logs[n], logs[n].synced) :
              n \in {m \in DOMAIN logs : m >= manifest.log}}

\* WriteOptions::sync: "if it is just the process that crashes (i.e., the
\* machine does not reboot), no writes will be lost even if sync==false".
NoWritesLost ==
    state = "down" /\ outages = 0 =>
        \A w \in Writes : answer[w] = "ok" => \E e \in Recoverable : e[2] = w

\* The log in use is torn, and the caller of the write that tore it knows.
Torn == state = "up" /\ stage # "failed" /\ logs[logfile_number_].torn

Store == INSTANCE KeyStore WITH
    hist <- IF state = "up" THEN Visible ELSE Recoverable,
    safe <- Recoverable, durable <- Durable, torn <- Torn

\* The engine keeps the promises of KeyStore: flushing, compacting, deleting
\* files and recovering change nothing a reader can see, and no crash loses
\* what had been promised.
StoreSpec == Store!Spec

=============================================================================
