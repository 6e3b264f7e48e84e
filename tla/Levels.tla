------------------------------- MODULE Levels -------------------------------
(***************************************************************************)
(* How the storage engine (leveldb) keeps versions of a key apart: the     *)
(* memtables, the levels of table files, flushing and compaction           *)
(* (db_impl.cc, version_set.cc), snapshots (snapshot.h) and the search of  *)
(* DBImpl::Get and Version::Get through all of them.                       *)
(*                                                                         *)
(* Bytes are left out: where the code compares sizes with a limit, either  *)
(* outcome may happen.  The background thread is the only one that changes *)
(* levels; it drops the mutex while it compacts (compaction), and writes,  *)
(* snapshots and the flush of imm happen meanwhile.                        *)
(***************************************************************************)
EXTENDS Integers, FiniteSets

CONSTANTS
    MaxKey,               \* user keys are 1 .. MaxKey
    NumLevels,            \* kNumLevels
    MaxMemCompactLevel,   \* kMaxMemCompactLevel
    MaxSequence,          \* bound: writes
    MaxSnapshots,         \* bound: snapshots held at a time
    Manual                \* whether DB::CompactRange is called

ASSUME LevelsAssumption ==
    /\ {MaxKey, NumLevels, MaxMemCompactLevel, MaxSequence, MaxSnapshots} \subseteq Nat
    /\ NumLevels > 1 /\ MaxMemCompactLevel < NumLevels
ASSUME ManualAssumption == Manual \in BOOLEAN

VARIABLES
    mem, imm,         \* entries of the memtables; imm = {} is a null imm_
    files,            \* current_->files_: the table files of each level
    last_sequence,
    snapshots,        \* sequence numbers of the snapshots not released
    compaction,       \* the set of what DoCompactionWork works on: none or one
    written           \* history: every entry ever written

vars == <<mem, imm, files, last_sequence, snapshots, compaction, written>>

Keys == 1 .. MaxKey
Level == 0 .. NumLevels - 1
Entry == [key : Keys, seq : 1 .. MaxSequence, type : {"value", "deletion"}]

\* A table file.  Numbers are compared only between level-0 files, where a
\* later file has a higher one; below level 0 they are left out (0).
File == [number : Nat, entries : (SUBSET Entry) \ {{}}]
NewFile(l, E) ==
    [number |-> IF l > 0 \/ files[0] = {} THEN 0
                ELSE 1 + (CHOOSE f \in files[0] :
                             \A g \in files[0] : g.number <= f.number).number,
     entries |-> E]

\* InternalKeyComparator: increasing user key, decreasing sequence number.
Before(e, f) == e.key < f.key \/ (e.key = f.key /\ e.seq > f.seq)

smallest(f) == CHOOSE e \in f.entries : \A g \in f.entries : g = e \/ Before(e, g)
largest(f) == CHOOSE e \in f.entries : \A g \in f.entries : g = e \/ Before(g, e)

Entries(F) == UNION {f.entries : f \in F}

-----------------------------------------------------------------------------
\* Reading.

\* The versions of key k in E that a reader at sequence number s may see, and
\* the one a seek to (k, s) stops at.
Versions(E, k, s) == {e \in E : e.key = k /\ e.seq <= s}
Newest(E) == CHOOSE e \in E : \A g \in E : g.seq <= e.seq

\* Level 0: the files that cover k, newest first, until one has an answer.
SearchLevel0(F, k, s) ==
    LET hits == {f \in F : /\ smallest(f).key <= k /\ k <= largest(f).key
                           /\ Versions(f.entries, k, s) # {}}
    IN  IF hits = {} THEN {}
        ELSE Versions((CHOOSE f \in hits : \A g \in hits : g.number <= f.number).entries,
                      k, s)

\* FindFile: the first file whose largest key is not before (k, s).
FindFile(F, k, s) ==
    LET after == {f \in F : ~Before(largest(f), [key |-> k, seq |-> s])}
    IN  {f \in after : \A g \in after : f = g \/ Before(smallest(f), smallest(g))}

\* The other levels: at most one file can have an answer.
SearchLevel(F, k, s) ==
    UNION {Versions(f.entries, k, s) : f \in {h \in FindFile(F, k, s) : smallest(h).key <= k}}

\* DBImpl::Get looks into mem, imm and the levels in this order.
Sources == 0 .. NumLevels + 1
Probe(i, k, s) ==
    CASE i = 0 -> Versions(mem, k, s)
      [] i = 1 -> Versions(imm, k, s)
      [] i = 2 -> SearchLevel0(files[0], k, s)
      [] OTHER -> SearchLevel(files[i - 2], k, s)

\* The sequence number of the value found, or 0 for NotFound.
Value(E) == IF E # {} /\ Newest(E).type = "value" THEN Newest(E).seq ELSE 0

Get(k, s) ==
    LET hits == {i \in Sources : Probe(i, k, s) # {}}
    IN  IF hits = {} THEN 0
        ELSE Value(Probe(CHOOSE i \in hits : \A j \in hits : i <= j, k, s))

-----------------------------------------------------------------------------
\* Writing.
Write(k, type) ==
    /\ last_sequence < MaxSequence
    /\ last_sequence' = last_sequence + 1
    /\ LET e == [key |-> k, seq |-> last_sequence + 1, type |-> type]
       IN  /\ mem' = mem \cup {e}
           /\ written' = written \cup {e}
    /\ UNCHANGED <<imm, files, snapshots, compaction>>

\* MakeRoomForWrite: a full memtable becomes imm unless the last one is still
\* being flushed.
SwitchMemTable ==
    /\ imm = {} /\ mem # {}
    /\ imm' = mem
    /\ mem' = {}
    /\ UNCHANGED <<files, last_sequence, snapshots, compaction,
                   written>>

\* Files of F whose user key range meets lo .. hi.
Overlapping(F, lo, hi) == {f \in F : largest(f).key >= lo /\ smallest(f).key <= hi}

\* Mutant: the levels between are not looked at.
PickLevelBlindly(lo, hi) == {MaxMemCompactLevel}

\* Mutant: an overlap with level 0 does not stop the table.
PickLevelPastLevel0(lo, hi) ==
    LET free(l) == \A j \in 1 .. l : Overlapping(files[j], lo, hi) = {}
    IN  {l \in 0 .. MaxMemCompactLevel :
            free(l) /\ (l = MaxMemCompactLevel \/ ~free(l + 1))}

\* PickLevelForMemTableOutput: down to MaxMemCompactLevel as long as no file
\* of the next level overlaps, and fewer levels when the files one below
\* overlap too many bytes.
PickLevelForMemTableOutput(lo, hi) ==
    LET free(l) == \A j \in 0 .. l : Overlapping(files[j], lo, hi) = {}
    IN  {l \in 0 .. MaxMemCompactLevel :
            /\ l > 0 => free(l)
            /\ \/ l = MaxMemCompactLevel
               \/ ~free(l + 1)
               \/ l + 2 < NumLevels /\ Overlapping(files[l + 2], lo, hi) # {}}

\* CompactMemTable: by the background thread, also in the middle of a
\* compaction.
CompactMemTable ==
    /\ imm # {}
    /\ LET f == [entries |-> imm]
       IN  \E l \in PickLevelForMemTableOutput(smallest(f).key, largest(f).key) :
              files' = [files EXCEPT ![l] = @ \cup {NewFile(l, imm)}]
    /\ imm' = {}
    /\ UNCHANGED <<mem, last_sequence, snapshots, compaction, written>>

-----------------------------------------------------------------------------
\* Choosing what to compact.

\* GetOverlappingInputs: level-0 files overlap each other, so there the range
\* grows until every file that meets it lies in it.
GetOverlappingInputs(l, lo, hi) ==
    IF l > 0 THEN Overlapping(files[l], lo, hi)
    ELSE LET closed == {r \in Keys \X Keys :
                           /\ r[1] <= lo /\ hi <= r[2]
                           /\ \A f \in Overlapping(files[0], r[1], r[2]) :
                                 r[1] <= smallest(f).key /\ largest(f).key <= r[2]}
             r == CHOOSE r \in closed : \A q \in closed : q[1] <= r[1] /\ r[2] <= q[2]
         IN  Overlapping(files[0], r[1], r[2])

\* GetRange: the user keys that the files of F span.
Low(F) == CHOOSE k \in Keys :
    (\E f \in F : smallest(f).key = k) /\ \A f \in F : k <= smallest(f).key
High(F) == CHOOSE k \in Keys :
    (\E f \in F : largest(f).key = k) /\ \A f \in F : largest(f).key <= k

Inputs(l, F0, F1) == [level |-> l, inputs0 |-> F0, inputs1 |-> F1]

\* SetupOtherInputs: the overlapping files of the next level, and more files
\* of this one if that brings no further file of the next and is not too big.
SetupOtherInputs(l, F0) ==
    LET F1 == GetOverlappingInputs(l + 1, Low(F0), High(F0))
        all == F0 \cup F1
        E0 == GetOverlappingInputs(l, Low(all), High(all))
        E1 == GetOverlappingInputs(l + 1, Low(E0), High(E0))
    IN  {Inputs(l, F0, F1)} \cup
        (IF F1 # {} /\ Cardinality(E0) > Cardinality(F0)
               /\ Cardinality(E1) = Cardinality(F1)
         THEN {Inputs(l, E0, E1)} ELSE {})

\* PickCompaction: the file may be any, of any level but the last: sizes
\* choose it through compact_pointer_, seeks through file_to_compact_.
PickCompaction ==
    UNION {UNION {SetupOtherInputs(l,
                     IF l = 0
                     THEN GetOverlappingInputs(0, smallest(f).key, largest(f).key)
                     ELSE {f}) : f \in files[l]} : l \in 0 .. NumLevels - 2}

\* DBImpl::CompactRange(lo, hi) compacts the levels above the deepest one with
\* files in the range.
RangeLevels(lo, hi) ==
    {l \in 0 .. NumLevels - 2 :
        \/ l = 0
        \/ \E j \in l + 1 .. NumLevels - 1 : Overlapping(files[j], lo, hi) # {}}

\* VersionSet::CompactRange: every file of the level in the range, or a prefix
\* of them when they are too big and the level is not 0.
RangeInputs(l, lo, hi) ==
    LET all == GetOverlappingInputs(l, lo, hi)
        upTo(g) == {f \in all : f = g \/ Before(smallest(f), smallest(g))}
    IN  IF l = 0 THEN {all} \ {{}} ELSE {upTo(g) : g \in all}

CompactRange ==
    UNION {UNION {UNION {SetupOtherInputs(l, F) : F \in RangeInputs(l, r[1], r[2])} :
                  l \in RangeLevels(r[1], r[2])} :
           r \in {q \in Keys \X Keys : q[1] <= q[2]}}

\* IsTrivialMove allows it, and BackgroundCompaction moves the file down.
MoveFile(c) ==
    /\ Cardinality(c.inputs0) = 1 /\ c.inputs1 = {}
    /\ files' = [files EXCEPT ![c.level] = @ \ c.inputs0,
                              ![c.level + 1] = @ \cup
                                  {NewFile(c.level + 1, f.entries) : f \in c.inputs0}]
    /\ UNCHANGED compaction

\* Mutant: what the snapshots still need is not asked for.
LastSequenceOnly(S) == last_sequence

\* DoCompactionWork: snapshots_.oldest(), or last_sequence without snapshots.
SmallestSnapshot(S) == CHOOSE s \in S \cup {last_sequence} :
    \A t \in S \cup {last_sequence} : s <= t

\* The files of input_version_ below the output level, by user key.
DeeperKeys(l) ==
    {k \in Keys : \E j \in l + 2 .. NumLevels - 1 : \E f \in files[j] :
        smallest(f).key <= k /\ k <= largest(f).key}

\* DoCompactionWork up to the unlock: everything the loop will use is fixed.
StartWork(c) ==
    /\ compaction' = {[inputs |-> c,
                       smallest_snapshot |-> SmallestSnapshot(snapshots),
                       deeper |-> DeeperKeys(c.level)]}
    /\ UNCHANGED files

\* Mutant: a second compaction starts while one is at work.
BackgroundCompactionTwice ==
    /\ \E c \in PickCompaction : MoveFile(c) \/ StartWork(c)
    /\ UNCHANGED <<mem, imm, last_sequence, snapshots, written>>

\* The background thread, with nothing to flush, picks a compaction; a trivial
\* move is done at once, but never for DB::CompactRange.
BackgroundCompaction ==
    /\ compaction = {} /\ imm = {}
    /\ \/ \E c \in PickCompaction : MoveFile(c) \/ StartWork(c)
       \/ Manual /\ \E c \in CompactRange : StartWork(c)
    /\ UNCHANGED <<mem, imm, last_sequence, snapshots, written>>

-----------------------------------------------------------------------------
\* The work of a compaction.

\* Rule (A) of DoCompactionWork: a newer version of the key, among the inputs,
\* is all that any snapshot can see.
HiddenEntry(c, e) ==
    \E g \in Entries(c.inputs.inputs0 \cup c.inputs.inputs1) :
        g.key = e.key /\ g.seq > e.seq /\ g.seq <= c.smallest_snapshot

\* Mutant: a deletion marker is dropped although a deeper level has the key.
ObsoleteAnywhere(c, e) == e.type = "deletion" /\ e.seq <= c.smallest_snapshot

\* A deletion marker with nothing left to delete (IsBaseLevelForKey).
ObsoleteDeletion(c, e) ==
    e.type = "deletion" /\ e.seq <= c.smallest_snapshot /\ e.key \notin c.deeper

Kept(c) ==
    {e \in Entries(c.inputs.inputs0 \cup c.inputs.inputs1) :
        ~HiddenEntry(c, e) /\ ~ObsoleteDeletion(c, e)}

\* Where output files may begin: the first entry, and any other that
\* MaxOutputFileSize or ShouldStopBefore picks, one in the middle of the
\* versions of a key included.
CutsOf(E) ==
    {C \in SUBSET E : \A e \in E : (\A g \in E : g = e \/ Before(e, g)) => e \in C}

\* The output files, one for each cut, on level l.
Outputs(l, E, C) ==
    {NewFile(l, {e \in E : /\ e = c \/ Before(c, e)
                           /\ \A d \in C : Before(c, d) => Before(e, d)}) : c \in C}

\* InstallCompactionResults: a version edit that deletes the inputs and adds
\* the outputs one level down.
InstallCompactionResults ==
    \E c \in compaction : \E C \in CutsOf(Kept(c)) :
        /\ files' = [files EXCEPT
              ![c.inputs.level] = @ \ c.inputs.inputs0,
              ![c.inputs.level + 1] = (@ \ c.inputs.inputs1)
                  \cup Outputs(c.inputs.level + 1, Kept(c), C)]
        /\ compaction' = {}
        /\ UNCHANGED <<mem, imm, last_sequence, snapshots, written>>

-----------------------------------------------------------------------------
\* Snapshots.
GetSnapshot ==
    /\ last_sequence \notin snapshots /\ Cardinality(snapshots) < MaxSnapshots
    /\ snapshots' = snapshots \cup {last_sequence}
    /\ UNCHANGED <<mem, imm, files, last_sequence, compaction, written>>

ReleaseSnapshot(s) ==
    /\ snapshots' = snapshots \ {s}
    /\ UNCHANGED <<mem, imm, files, last_sequence, compaction, written>>

Init ==
    /\ mem = {} /\ imm = {}
    /\ files = [l \in Level |-> {}]
    /\ last_sequence = 0
    /\ snapshots = {}
    /\ compaction = {}
    /\ written = {}

Next ==
    \/ \E k \in Keys, t \in {"value", "deletion"} : Write(k, t)
    \/ SwitchMemTable
    \/ CompactMemTable
    \/ BackgroundCompaction
    \/ InstallCompactionResults
    \/ GetSnapshot
    \/ \E s \in snapshots : ReleaseSnapshot(s)

Spec == Init /\ [][Next]_vars

-----------------------------------------------------------------------------
\* The variables have the types of the fields they stand for, and the files a
\* compaction works on are still where it took them from.
TypeOK ==
    /\ mem \subseteq Entry /\ imm \subseteq Entry /\ written \subseteq Entry
    /\ \A l \in Level : files[l] \subseteq File
    /\ last_sequence \in 0 .. MaxSequence
    /\ snapshots \subseteq 0 .. last_sequence
    /\ \A c \in compaction :
          /\ c.inputs.inputs0 \subseteq files[c.inputs.level]
          /\ c.inputs.inputs1 \subseteq files[c.inputs.level + 1]

\* DoCompactionWork drops only what nobody can ask for: the value a reader
\* should find, without a snapshot or with one that is not released, is still
\* in a memtable or a table file, also when the snapshot was taken while the
\* compaction was at work, when an output ends in the middle of a key, and
\* when DB::CompactRange asked for it.
Present == mem \cup imm \cup UNION {Entries(files[l]) : l \in Level}

ValuesKept ==
    \A k \in Keys, s \in snapshots \cup {last_sequence} :
        LET V == Versions(written, k, s)
        IN  V # {} /\ Newest(V).type = "value" => Newest(V) \in Present

\* DBImpl::Get: a reader without a snapshot, or with one that is not released,
\* finds the newest version written up to its sequence number, whatever has
\* been flushed, moved, merged or dropped since.
ReadsCorrect ==
    \A k \in Keys, s \in snapshots \cup {last_sequence} :
        Get(k, s) = Value(Versions(written, k, s))

\* Version::Get, "if we find data in an smaller level, later levels are
\* irrelevant": all versions of a key in one place are newer than all versions
\* of it in the places searched later, and a level-0 file with a higher number
\* is newer than one with a lower.
Newer(E, F) == \A e \in E, f \in F : e.key = f.key => e.seq > f.seq

Places(i) ==
    CASE i = 0 -> mem [] i = 1 -> imm [] OTHER -> Entries(files[i - 2])

NewerAbove ==
    /\ \A i, j \in Sources : i < j => Newer(Places(i), Places(j))
    /\ \A f, g \in files[0] : g.number < f.number => Newer(f.entries, g.entries)

\* VersionSet::Builder::MaybeAddFile asserts "Must not overlap": below level 0
\* the files of a level are disjoint ranges.
LevelsDisjoint ==
    \A l \in Level \ {0} : \A f, g \in files[l] :
        f # g => Before(largest(f), smallest(g)) \/ Before(largest(g), smallest(f))

=============================================================================
