------------------------------ MODULE LevelLog ------------------------------
(***************************************************************************)
(* The record log of the storage engine (leveldb/db/log_writer.cc and      *)
(* log_reader.cc): the writer cuts each record into fragments that never   *)
(* cross a block, the reader puts the records together again from a file   *)
(* that a crash may have cut short, a failed append may have torn or the   *)
(* disk may have damaged.                                                  *)
(*                                                                         *)
(* A file is a sequence of cells.  A cell stands for a byte and says what  *)
(* the writer meant by it; the checksum of a fragment matches exactly when *)
(* its cells are the ones that were written.                               *)
(***************************************************************************)
EXTENDS Naturals, Sequences

CONSTANTS
    BlockSize,    \* kBlockSize
    HeaderSize,   \* kHeaderSize
    MaxLength,    \* bound: payload of a record
    MaxRecords,   \* bound: records added
    MaxFaults     \* bound: failed appends, damaged cells and failed reads

ASSUME SizeAssumption ==
    /\ {BlockSize, HeaderSize} \subseteq Nat
    /\ 0 < HeaderSize /\ HeaderSize < BlockSize
ASSUME LogBoundsAssumption == {MaxLength, MaxRecords, MaxFaults} \subseteq Nat

VARIABLES
    \* The file and its writer.
    file,                  \* the cells on disk
    block_offset_,         \* where the writer believes it is in its block
    left,                  \* payload of the record being added still to emit
    begin,                 \* no fragment of that record has been emitted
    \* The reader.
    phase,                 \* "write", "idle" (add no more), "read", "end"
    end_of_buffer_offset_, \* offset just past the buffer
    size,                  \* buffer_.size()
    eof_,
    initial_offset_,
    resyncing_,
    in_fragmented_record,
    scratch,               \* payload gathered so far
    prospective,           \* prospective_record_offset
    records,               \* what ReadRecord returned: offset and payload
    \* History.
    added,                 \* the records added: offset, length, end (0: unfinished)
    harmed,                \* offsets of the damaged cells
    torn,                  \* 0, or 1 + what the file held when I/O failed
    reported,              \* whether ReportCorruption has been called
    faults

writerVars == <<file, block_offset_, left, begin>>
fragmentVars == <<in_fragmented_record, scratch, prospective>>
bufferVars == <<end_of_buffer_offset_, size, eof_>>
readerVars == <<bufferVars, fragmentVars, initial_offset_, resyncing_, records>>
histVars == <<added, harmed, torn, reported, faults>>
vars == <<writerVars, phase, readerVars, histVars>>

RecordType == {"full", "first", "middle", "last"}

\* Cell i of the header of a fragment: record r, payload from + 1 .. from + n.
HeaderCell(i, type, n, r, from) ==
    [is |-> "header", i |-> i, type |-> type, len |-> n, rec |-> r, from |-> from]
DataCell(r, q) == [is |-> "data", rec |-> r, at |-> q]
ZeroCell == [is |-> "zero"]
BadCell == [is |-> "bad"]

Payload(r, from, n) == [q \in 1 .. n |-> DataCell(r, from + q)]
Fragment(type, n, r, from) ==
    [i \in 1 .. HeaderSize |-> HeaderCell(i, type, n, r, from)] \o Payload(r, from, n)

Zeros(n) == [i \in 1 .. n |-> ZeroCell]

-----------------------------------------------------------------------------
\* The writer.
Adding == left > 0 \/ begin

AddRecord(n) ==
    /\ phase = "write" /\ ~Adding /\ Len(added) < MaxRecords
    /\ left' = n
    /\ begin' = TRUE
    /\ added' = Append(added, [offset |-> 0, len |-> n, end |-> 0])
    /\ UNCHANGED <<file, block_offset_, phase, readerVars, harmed, torn, reported,
                   faults>>

\* Mutant: a new block only when the last one is full to the last byte.
SwitchBlockWhenFull(offset) == BlockSize - offset = 0

\* Whether the rest of the block is a trailer.
SwitchBlock(offset) == BlockSize - offset < HeaderSize

fragment_type(end) ==
    CASE begin /\ end -> "full"
      [] begin /\ ~end -> "first"
      [] ~begin /\ end -> "last"
      [] OTHER -> "middle"

\* One round of AddRecord's loop, EmitPhysicalRecord included: the trailer if
\* the block has no room for a header, then a fragment.  The first j bytes of
\* the trailer are appended: whether that failed is not looked at.  A failed
\* append or flush of the fragment leaves its first k bytes behind, perhaps all
\* of them, and ends AddRecord, but the writer counts the whole as written.
Emit(ok) ==
    /\ phase = "write" /\ Adding
    /\ LET gap == IF SwitchBlock(block_offset_) THEN BlockSize - block_offset_ ELSE 0
           offset == IF SwitchBlock(block_offset_) THEN 0 ELSE block_offset_
           avail == BlockSize - offset - HeaderSize
           n == IF left < avail THEN left ELSE avail
           r == Len(added)
           from == added[r].len - left
           f == Fragment(fragment_type(left = n), n, r, from)
       IN  \E j \in 0 .. gap, k \in 0 .. Len(f) :
              LET start == Len(file) + j IN
              /\ ok => k = Len(f)
              /\ file' = file \o Zeros(j) \o SubSeq(f, 1, k)
              /\ block_offset_' = offset + HeaderSize + n
              /\ begin' = FALSE
              /\ left' = IF ok THEN left - n ELSE 0
              /\ added' = [added EXCEPT
                    ![r].offset = IF begin THEN start ELSE @,
                    ![r].end = IF ok /\ left = n THEN start + k ELSE 0]
              /\ \/ ok /\ j = gap /\ UNCHANGED <<torn, faults>>
                 \/ /\ ~ok \/ j < gap
                    /\ faults < MaxFaults
                    /\ torn' = IF torn = 0 THEN start + 1 ELSE torn
                    /\ faults' = faults + 1
    /\ UNCHANGED <<phase, readerVars, harmed, reported>>

\* The process or the machine stops: what had not reached the disk is gone,
\* and the file system may have kept the length of the file but not its data.
Crash ==
    /\ phase = "write"
    /\ \E cut \in 0 .. Len(file) :
          \/ /\ file' = SubSeq(file, 1, cut)
             /\ UNCHANGED <<harmed, faults>>
          \/ /\ cut < Len(file) /\ faults < MaxFaults
             /\ file' = SubSeq(file, 1, cut) \o Zeros(Len(file) - cut)
             /\ harmed' = harmed \cup (cut .. Len(file) - 1)
             /\ faults' = faults + 1
    /\ phase' = "idle"
    /\ left' = 0
    /\ begin' = FALSE
    /\ UNCHANGED <<block_offset_, readerVars, added, torn, reported>>

\* A cell of the file goes bad before it is read.
Damage(i) ==
    /\ phase = "idle" /\ faults < MaxFaults
    /\ i < Len(file)
    /\ file' = [file EXCEPT ![i + 1] = BadCell]
    /\ harmed' = harmed \cup {i}
    /\ faults' = faults + 1
    /\ UNCHANGED <<block_offset_, left, begin, phase, readerVars, added, torn,
                   reported>>

-----------------------------------------------------------------------------
\* The reader.

\* Reader::SkipToInitialBlock: where reading starts for initial offset o.
SkipToInitialBlock(o) ==
    o - (o % BlockSize)
        + (IF o % BlockSize > BlockSize - (HeaderSize - 1) THEN BlockSize ELSE 0)

\* The engine reads every log from offset 0; other offsets are tried on files
\* to which nothing happened.
Open(o) ==
    /\ phase = "idle"
    /\ o > 0 => harmed = {} /\ torn = 0
    /\ phase' = "read"
    /\ initial_offset_' = o
    /\ end_of_buffer_offset_' = IF o > 0 THEN SkipToInitialBlock(o) ELSE 0
    /\ resyncing_' = (o > 0)
    /\ UNCHANGED <<writerVars, size, eof_, fragmentVars, records, histVars>>

\* The bytes of the buffer.
Buffer == SubSeq(file, end_of_buffer_offset_ - size + 1, end_of_buffer_offset_)

\* ReadPhysicalRecord refills a buffer that cannot hold a header any more.  A
\* failed read is reported and looks like the end of the file.
ReadBlock(ok) ==
    /\ phase = "read" /\ size < HeaderSize /\ ~eof_
    /\ \/ /\ ok
          /\ LET rest == IF Len(file) > end_of_buffer_offset_
                         THEN Len(file) - end_of_buffer_offset_ ELSE 0
                 n == IF rest < BlockSize THEN rest ELSE BlockSize
             IN  /\ size' = n
                 /\ end_of_buffer_offset_' = end_of_buffer_offset_ + n
                 /\ eof_' = (n < BlockSize)
          /\ UNCHANGED <<torn, reported, faults>>
       \/ /\ ~ok /\ faults < MaxFaults
          /\ size' = 0
          /\ eof_' = TRUE
          /\ torn' = IF torn = 0 \/ end_of_buffer_offset_ + 1 < torn
                     THEN end_of_buffer_offset_ + 1 ELSE torn
          /\ reported' = TRUE
          /\ faults' = faults + 1
          /\ UNCHANGED end_of_buffer_offset_
    /\ UNCHANGED <<writerVars, phase, fragmentVars, initial_offset_, resyncing_,
                   records, added, harmed>>

\* The buffer starts with a header as the writer wrote it.
HeaderIntact(b) ==
    /\ b[1].is = "header"
    /\ \A i \in 1 .. HeaderSize : b[i] = [b[1] EXCEPT !.i = i]

\* The checksum covers the type and the payload.
ChecksumMatches(b) ==
    SubSeq(b, HeaderSize + 1, HeaderSize + b[1].len) = Payload(b[1].rec, b[1].from, b[1].len)

Outcome(type, data, drops) == [type |-> type, data |-> data, drops |-> drops]

\* Mutant: a record that runs past the end of the file is a corruption.
OverrunReported(atEof) == {Outcome("bad", <<>>, TRUE)}

\* A fragment that runs past the buffer: corruption, or at the end of the file
\* what a writer that died leaves.
Overrun(atEof) ==
    IF atEof THEN {Outcome("eof", <<>>, FALSE)} ELSE {Outcome("bad", <<>>, TRUE)}

\* What ReadPhysicalRecord may return for buffer b, and whether it reports a
\* drop.  The length and the type in a damaged header may be any; only a
\* fragment that starts before the initial offset leaves the rest of the buffer
\* in place.
ReadPhysicalRecord(b, atEof) ==
    IF Len(b) < HeaderSize THEN {Outcome("eof", <<>>, FALSE)}
    ELSE IF ~HeaderIntact(b) THEN
        IF \A i \in 1 .. HeaderSize : b[i] = ZeroCell
        THEN {Outcome("bad", <<>>, FALSE)}
        ELSE {Outcome("bad", <<>>, drops) : drops \in BOOLEAN} \cup Overrun(atEof)
    ELSE IF HeaderSize + b[1].len > Len(b) THEN Overrun(atEof)
    ELSE IF ~ChecksumMatches(b) THEN {Outcome("bad", <<>>, TRUE)}
    ELSE IF end_of_buffer_offset_ - Len(b) < initial_offset_
    THEN {Outcome("skipped", <<>>, FALSE)}
    ELSE {Outcome(b[1].type, SubSeq(b, HeaderSize + 1, HeaderSize + b[1].len), FALSE)}

\* What is left of the buffer after outcome o.
Remaining(o) ==
    IF o.type \in RecordType \cup {"skipped"}
    THEN size - HeaderSize - Buffer[1].len ELSE 0

\* ReadRecord asks for the next fragment and gets o.
Fetch(o) ==
    /\ phase = "read"
    /\ size < HeaderSize => eof_
    /\ o \in ReadPhysicalRecord(Buffer, eof_)
    /\ size' = Remaining(o)
    /\ UNCHANGED <<writerVars, end_of_buffer_offset_, eof_, initial_offset_, added,
                   harmed, torn, faults>>

\* physical_record_offset
Offset == end_of_buffer_offset_ - size

\* ReadRecord returns a record; the next call starts with an empty scratch.
Return(offset, data) ==
    /\ records' = Append(records, [offset |-> offset, data |-> data])
    /\ scratch' = <<>>
    /\ in_fragmented_record' = FALSE

\* While resyncing, the fragments of a record that began before the initial
\* offset are passed over.
Resync ==
    \E o \in ReadPhysicalRecord(Buffer, eof_) :
        /\ Fetch(o) /\ resyncing_ /\ o.type \in {"middle", "last"}
        /\ resyncing_' = (o.type = "middle")
        /\ UNCHANGED <<phase, fragmentVars, records, reported>>

\* A whole record, or the first fragment of one; what was being gathered is
\* dropped.
Start ==
    \E o \in ReadPhysicalRecord(Buffer, eof_) :
        /\ Fetch(o) /\ o.type \in {"full", "first"}
        /\ resyncing_' = FALSE
        /\ prospective' = Offset
        /\ \/ /\ o.type = "full"
              /\ Return(Offset, o.data)
           \/ /\ o.type = "first"
              /\ scratch' = o.data
              /\ in_fragmented_record' = TRUE
              /\ UNCHANGED records
        /\ reported' = (reported \/ (in_fragmented_record /\ scratch # <<>>))
        /\ UNCHANGED phase

\* A middle or last fragment continues the record that is being gathered.
Continue ==
    \E o \in ReadPhysicalRecord(Buffer, eof_) :
        /\ Fetch(o) /\ o.type \in {"middle", "last"} /\ ~resyncing_
        /\ \/ /\ in_fragmented_record /\ o.type = "middle"
              /\ scratch' = scratch \o o.data
              /\ UNCHANGED <<in_fragmented_record, records, reported>>
           \/ /\ in_fragmented_record /\ o.type = "last"
              /\ Return(prospective, scratch \o o.data)
              /\ UNCHANGED reported
           \/ /\ ~in_fragmented_record
              /\ reported' = TRUE
              /\ UNCHANGED <<in_fragmented_record, scratch, records>>
        /\ UNCHANGED <<phase, resyncing_, prospective>>

\* Mutant: the fragments gathered before a bad one are kept.
SkipBadKeepsScratch ==
    \E o \in ReadPhysicalRecord(Buffer, eof_) :
        /\ Fetch(o) /\ o.type \in {"bad", "skipped"}
        /\ resyncing_' = FALSE
        /\ reported' = (reported \/ o.drops)
        /\ UNCHANGED <<phase, fragmentVars, records>>

\* Mutant: a bad fragment ends the reading.
SkipBadEnds ==
    \E o \in ReadPhysicalRecord(Buffer, eof_) :
        /\ Fetch(o) /\ o.type \in {"bad", "skipped"}
        /\ phase' = "end"
        /\ UNCHANGED <<resyncing_, reported, fragmentVars, records>>

\* A bad fragment, or one before the initial offset.
SkipBad ==
    \E o \in ReadPhysicalRecord(Buffer, eof_) :
        /\ Fetch(o) /\ o.type \in {"bad", "skipped"}
        /\ resyncing_' = FALSE
        /\ in_fragmented_record' = FALSE
        /\ scratch' = <<>>
        /\ reported' = (reported \/ o.drops \/ in_fragmented_record)
        /\ UNCHANGED <<phase, prospective, records>>

\* ReadRecord returns false: an unfinished record is ignored.
ReadEof ==
    \E o \in ReadPhysicalRecord(Buffer, eof_) :
        /\ Fetch(o) /\ o.type = "eof"
        /\ resyncing_' = FALSE
        /\ scratch' = <<>>
        /\ phase' = "end"
        /\ UNCHANGED <<in_fragmented_record, prospective, records, reported>>

-----------------------------------------------------------------------------
Init ==
    /\ file = <<>> /\ block_offset_ = 0
    /\ left = 0 /\ begin = FALSE
    /\ phase = "write"
    /\ end_of_buffer_offset_ = 0 /\ size = 0 /\ eof_ = FALSE
    /\ initial_offset_ = 0 /\ resyncing_ = FALSE
    /\ in_fragmented_record = FALSE /\ scratch = <<>> /\ prospective = 0
    /\ records = <<>>
    /\ added = <<>> /\ harmed = {} /\ torn = 0
    /\ reported = FALSE /\ faults = 0

Write == (\E n \in 0 .. MaxLength : AddRecord(n)) \/ (\E ok \in BOOLEAN : Emit(ok))
Disturb == Crash \/ \E i \in 0 .. Len(file) : Damage(i)
Read ==
    \/ \E o \in 0 .. Len(file) : Open(o)
    \/ \E ok \in BOOLEAN : ReadBlock(ok)
    \/ Resync \/ Start \/ Continue \/ SkipBad \/ ReadEof

Next == Write \/ Disturb \/ Read

Spec == Init /\ [][Next]_vars
-----------------------------------------------------------------------------
\* The variables have the types of the fields they stand for, the writer stays
\* within its block (the assertion of EmitPhysicalRecord), and the reader's
\* buffer holds part of the file.
TypeOK ==
    /\ block_offset_ \in 0 .. BlockSize
    /\ left \in 0 .. MaxLength
    /\ begin \in BOOLEAN
    /\ phase \in {"write", "idle", "read", "end"}
    /\ size \in 0 .. BlockSize
    /\ end_of_buffer_offset_ \in Nat /\ size <= end_of_buffer_offset_
    /\ size > 0 => end_of_buffer_offset_ <= Len(file)
    /\ {eof_, resyncing_, in_fragmented_record, reported} \subseteq BOOLEAN
    /\ {initial_offset_, prospective, torn} \subseteq Nat
    /\ harmed \subseteq 0 .. Len(file) - 1
    /\ faults \in 0 .. MaxFaults

\* log_reader.cc: whatever happened to the file, each record returned is one
\* that AddRecord was given, whole, at the offset where it was written, and
\* records come back in the order they were added, none of them twice.
Genuine ==
    /\ \A i \in DOMAIN records : \E r \in DOMAIN added :
          /\ records[i].offset = added[r].offset
          /\ records[i].data = Payload(r, 0, added[r].len)
    /\ \A i, j \in DOMAIN records : i < j => records[i].offset < records[j].offset

\* Record r was written in full, starts at or after the initial offset, and
\* nothing happened to the blocks it lies in up to its last byte.
Spared(r) ==
    LET a == added[r] IN
    /\ 0 < a.end /\ a.end <= Len(file)
    /\ a.offset >= initial_offset_
    /\ torn # 0 => a.end < torn
    /\ \A h \in harmed :
          \/ h >= a.end
          \/ h \div BlockSize \notin (a.offset \div BlockSize) .. ((a.end - 1) \div BlockSize)

\* log_reader.h: reading starts "at the first record located at physical
\* position >= initial_offset" and loses only what was damaged: a crash costs
\* the records it cut, a bad byte the rest of its block, a torn append or a
\* failed read what comes after it.
NothingElseLost ==
    phase = "end" => \A r \in DOMAIN added :
        Spared(r) => \E i \in DOMAIN records : records[i].offset = added[r].offset

\* log_reader.cc 154-158, 217-220 and 239-241: what a writer that died leaves
\* behind is not a corruption.  Only damage, a torn append or a failed read
\* makes the reader report one.
NoFalseAlarm ==
    reported /\ initial_offset_ = 0 => harmed # {} \/ torn # 0

=============================================================================
