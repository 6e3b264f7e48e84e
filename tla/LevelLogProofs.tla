--------------------------- MODULE LevelLogProofs ---------------------------
(***************************************************************************)
(* Proofs about LevelLog, for blocks, headers and records of any length,   *)
(* any number of records and of faults.                                    *)
(***************************************************************************)
EXTENDS LevelLog, Integers, TLAPS

\* Two sequences in a row.
LEMMA TwoInARow ==
    ASSUME NEW S, NEW a \in Seq(S), NEW b \in Seq(S), NEW s, s = a \o b,
           NEW l \in Nat, NEW m \in Nat, l = Len(a), m = Len(b)
    PROVE  /\ s \in Seq(S) /\ Len(s) = l + m
           /\ \A y \in 1 .. l : s[y] = a[y]
           /\ \A y \in l + 1 .. l + m : s[y] = b[y - l]
           /\ \A i \in 1 .. m : s[l + i] = b[i]
<1>1. s \in Seq(S) /\ Len(s) = l + m /\ \A y \in 1 .. l : s[y] = a[y]
  OBVIOUS
<1>2. \A y \in l + 1 .. l + m : s[y] = b[y - l]
  OBVIOUS
<1>3. ASSUME NEW i \in 1 .. m PROVE s[l + i] = b[i]
  <2>1. PICK y \in l + 1 .. l + m : y = l + i
    OBVIOUS
  <2>2. y - l = i
    BY <2>1
  <2> QED
    BY <1>2, <2>1, <2>2
<1> QED
  BY <1>1, <1>2, <1>3

-----------------------------------------------------------------------------
(* Types. *)

\* What the file, the records added and the records returned consist of.
Cell ==
    [is : {"header"}, i : Nat, type : RecordType, len : Nat, rec : Nat, from : Nat]
    \cup [is : {"data"}, rec : Nat, at : Nat] \cup {ZeroCell, BadCell}
Added == [offset : Nat, len : 0 .. MaxLength, end : Nat]
Returned == [offset : Nat, data : Seq(Cell)]

Shape ==
    /\ file \in Seq(Cell) /\ scratch \in Seq(Cell)
    /\ added \in Seq(Added) /\ records \in Seq(Returned)

\* Before the reader is opened, and after the last record was added.
Fresh ==
    /\ phase \in {"write", "idle"} =>
          /\ size = 0 /\ end_of_buffer_offset_ = 0 /\ initial_offset_ = 0 /\ eof_ = FALSE
          /\ in_fragmented_record = FALSE /\ resyncing_ = FALSE /\ reported = FALSE
          /\ records = <<>> /\ scratch = <<>>
    /\ phase # "write" => left = 0 /\ begin = FALSE
    /\ phase = "write" => harmed = {}

\* The record being added is the last one, and has as much left at least.
Current ==
    Adding => added # <<>> /\ left <= added[Len(added)].len

TypeInv == TypeOK /\ Shape /\ Fresh /\ Current

\* The cells a trailer consists of.
LEMMA TrailerCells ==
    ASSUME NEW n \in Nat
    PROVE  /\ Zeros(n) \in Seq(Cell) /\ Len(Zeros(n)) = n
           /\ \A i \in 1 .. n : Zeros(n)[i] = ZeroCell
<1>1. ZeroCell \in Cell
  BY DEF Cell
<1> QED
  BY <1>1 DEF Zeros

\* The cells a fragment consists of.
LEMMA CellTypes ==
    ASSUME NEW type \in RecordType, NEW n \in Nat, NEW r \in Nat, NEW from \in Nat
    PROVE  /\ Payload(r, from, n) \in Seq(Cell) /\ Len(Payload(r, from, n)) = n
           /\ \A q \in 1 .. n : Payload(r, from, n)[q] = DataCell(r, from + q)
           /\ \A i \in Nat : HeaderCell(i, type, n, r, from) \in Cell
<1>1. \A q \in 1 .. n : DataCell(r, from + q) \in Cell
  BY DEF DataCell, Cell
<1>2. \A i \in Nat : HeaderCell(i, type, n, r, from) \in Cell
  BY DEF HeaderCell, Cell
<1> QED
  BY <1>1, <1>2 DEF Payload

-----------------------------------------------------------------------------
(* The pieces a file is made of. *)

\* What is left of a fragment in the file: its first g.kept cells, from offset
\* g.start on; the writer's block started at g.base.
Piece == [start : Nat, base : Int, type : RecordType, len : Nat, rec : Nat, from : Nat, kept : Nat]

\* Cell i of the fragment.
CellOf(g, i) ==
    IF i <= HeaderSize THEN HeaderCell(i, g.type, g.len, g.rec, g.from)
    ELSE DataCell(g.rec, g.from + (i - HeaderSize))

End(g) == g.start + g.kept
Whole(g) == g.kept = HeaderSize + g.len

\* The fields of a piece.
LEMMA PieceFields ==
    ASSUME NEW g \in Piece
    PROVE  /\ g.start \in Nat /\ g.base \in Int /\ g.type \in RecordType /\ g.len \in Nat
           /\ g.rec \in Nat /\ g.from \in Nat /\ g.kept \in Nat /\ End(g) \in Nat
           /\ End(g) = g.start + g.kept
BY DEF Piece, End

\* The types of fragments that start and that end a record.
Starts == {"full", "first"}
Ends == {"full", "last"}

\* The cells of a fragment, one by one.
LEMMA FragmentCells ==
    ASSUME NEW g \in Piece
    PROVE  /\ Fragment(g.type, g.len, g.rec, g.from) \in Seq(Cell)
           /\ Len(Fragment(g.type, g.len, g.rec, g.from)) = HeaderSize + g.len
           /\ \A i \in 1 .. HeaderSize + g.len :
                 Fragment(g.type, g.len, g.rec, g.from)[i] = CellOf(g, i)
<1>1. PICK type \in RecordType, n \in Nat, r \in Nat, from \in Nat :
         type = g.type /\ n = g.len /\ r = g.rec /\ from = g.from
  BY DEF Piece
<1> DEFINE h == [i \in 1 .. HeaderSize |-> HeaderCell(i, type, n, r, from)]
           p == Payload(r, from, n)
<1>2. /\ p \in Seq(Cell) /\ Len(p) = n /\ \A q \in 1 .. n : p[q] = DataCell(r, from + q)
      /\ \A i \in Nat : HeaderCell(i, type, n, r, from) \in Cell
  BY CellTypes
<1>3. HeaderSize \in Nat
  BY SizeAssumption
<1>4. h \in Seq(Cell) /\ Len(h) = HeaderSize /\ \A i \in 1 .. HeaderSize : h[i] = HeaderCell(i, type, n, r, from)
  BY <1>2, <1>3
<1>5. PICK s : s = h \o p
  OBVIOUS
<1> HIDE DEF h, p
<1>6. /\ s \in Seq(Cell) /\ Len(s) = HeaderSize + n
      /\ \A y \in 1 .. HeaderSize : s[y] = h[y]
      /\ \A y \in HeaderSize + 1 .. HeaderSize + n : s[y] = p[y - HeaderSize]
  <2>1. h \in Seq(Cell) /\ HeaderSize = Len(h) /\ p \in Seq(Cell) /\ n = Len(p)
    BY <1>2, <1>4
  <2> QED
    BY <1>3, <1>5, <2>1, TwoInARow
<1>7. ASSUME NEW i \in 1 .. HeaderSize + n PROVE s[i] = CellOf(g, i)
  <2>1. CASE i <= HeaderSize
    <3>1. s[i] = h[i]
      BY <1>3, <1>6, <2>1
    <3> QED
      BY <1>1, <1>3, <1>4, <2>1, <3>1 DEF CellOf
  <2>2. CASE i > HeaderSize
    <3>1. s[i] = p[i - HeaderSize] /\ i - HeaderSize \in 1 .. n
      BY <1>3, <1>6, <2>2
    <3>2. p[i - HeaderSize] = DataCell(r, from + (i - HeaderSize))
      BY <1>2, <3>1
    <3>3. ~(i <= HeaderSize)
      BY <1>3, <2>2
    <3>4. CellOf(g, i) = DataCell(g.rec, g.from + (i - HeaderSize))
      BY <3>3, Zenon DEF CellOf
    <3> QED
      BY <1>1, <3>1, <3>2, <3>4, Zenon
  <2>3. i <= HeaderSize \/ i > HeaderSize
    BY <1>3
  <2> QED
    BY <2>1, <2>2, <2>3
<1> QED
  BY <1>1, <1>6, <1>7, <1>5 DEF Fragment, h, p

\* The piece behind z zeros: which part of its record it is, and where.
Cut(g, z) ==
    /\ g.rec = Len(added) /\ g.from + left = added[g.rec].len /\ g.len <= left
    /\ g.type \in Starts <=> begin
    /\ g.type \in Ends <=> g.len = left
    /\ g.kept <= HeaderSize + g.len
    /\ g.start = Len(file) + z
    /\ g.base <= g.start /\ g.start + HeaderSize + g.len <= g.base + BlockSize
    /\ z < HeaderSize

\* The piece is where the writer believes it to be.
Fitted(g, z) ==
    \/ z = 0 /\ g.start = g.base + block_offset_
    \/ z < HeaderSize /\ g.start = g.base /\ z + block_offset_ = BlockSize

\* The file f afterwards.
Grown(f, g) ==
    /\ f \in Seq(Cell) /\ Len(f) = End(g)
    /\ \A y \in 1 .. Len(file) : f[y] = file[y]
    /\ \A y \in Len(file) + 1 .. g.start : f[y] = ZeroCell
    /\ \A i \in 1 .. g.kept : f[g.start + i] = CellOf(g, i)

\* The bookkeeping afterwards: the append succeeded or failed.
Counted(g, z, ok) ==
    /\ block_offset_' = g.start + HeaderSize + g.len - g.base
    /\ begin' = FALSE
    /\ ok => Whole(g)
    /\ left' = IF ok THEN left - g.len ELSE 0
    /\ added' = [added EXCEPT ![g.rec].offset = IF begin THEN g.start ELSE @,
                              ![g.rec].end = IF ok /\ left = g.len THEN End(g) ELSE 0]
    /\ \/ ok /\ Fitted(g, z) /\ torn' = torn /\ faults' = faults
       \/ /\ faults < MaxFaults /\ faults' = faults + 1
          /\ torn' = IF torn = 0 THEN g.start + 1 ELSE torn

\* Three sequences in a row.
LEMMA ThreeInARow ==
    ASSUME NEW S, NEW a \in Seq(S), NEW b \in Seq(S), NEW c \in Seq(S), NEW s, s = a \o b \o c,
           NEW l \in Nat, NEW m \in Nat, NEW n \in Nat, l = Len(a), m = Len(b), n = Len(c)
    PROVE  /\ s \in Seq(S) /\ Len(s) = l + m + n
           /\ \A y \in 1 .. l : s[y] = a[y]
           /\ \A y \in l + 1 .. l + m : s[y] = b[y - l]
           /\ \A i \in 1 .. n : s[l + m + i] = c[i]
<1>1. PICK d : d = a \o b
  OBVIOUS
<1>2. /\ d \in Seq(S) /\ Len(d) = l + m
      /\ \A y \in 1 .. l : d[y] = a[y]
      /\ \A y \in l + 1 .. l + m : d[y] = b[y - l]
  BY <1>1, TwoInARow
<1>3. s = d \o c
  BY <1>1
<1>4. PICK k \in Nat : k = l + m
  OBVIOUS
<1>5. d \in Seq(S) /\ k = Len(d)
  BY <1>2, <1>4
<1>6. /\ s \in Seq(S) /\ Len(s) = k + n
      /\ \A y \in 1 .. k : s[y] = d[y]
      /\ \A i \in 1 .. n : s[k + i] = c[i]
  BY <1>3, <1>5, TwoInARow
<1>7. ASSUME NEW y \in 1 .. l PROVE s[y] = a[y]
  <2>1. y \in 1 .. k
    BY <1>4
  <2> QED
    BY <1>2, <1>6, <2>1
<1>8. ASSUME NEW y \in l + 1 .. l + m PROVE s[y] = b[y - l]
  <2>1. y \in 1 .. k
    BY <1>4
  <2> QED
    BY <1>2, <1>6, <2>1
<1> QED
  BY <1>4, <1>6, <1>7, <1>8


\* The type of a fragment says whether it starts and whether it ends its record.
LEMMA TypeOfFragment ==
    ASSUME begin \in BOOLEAN, NEW end \in BOOLEAN
    PROVE  /\ fragment_type(end) \in RecordType
           /\ fragment_type(end) \in Starts <=> begin
           /\ fragment_type(end) \in Ends <=> end
BY DEF fragment_type, RecordType, Starts, Ends

\* A round of AddRecord's loop cuts one piece.
LEMMA EmitCuts ==
    ASSUME TypeInv, NEW ok \in BOOLEAN, Emit(ok)
    PROVE  \E g \in Piece, z \in Nat : Cut(g, z) /\ Grown(file', g) /\ Counted(g, z, ok)
<1>1. /\ HeaderSize \in Nat /\ BlockSize \in Nat /\ HeaderSize < BlockSize /\ 0 < HeaderSize
      /\ block_offset_ \in 0 .. BlockSize /\ left \in Nat /\ begin \in BOOLEAN
      /\ file \in Seq(Cell) /\ torn \in Nat /\ faults \in Nat
  BY SizeAssumption, LogBoundsAssumption DEF TypeInv, TypeOK, Shape
<1>2. PICK r \in Nat : r = Len(added) /\ r \in DOMAIN added /\ added[r] \in Added
                       /\ left <= added[r].len
  BY DEF TypeInv, Shape, Current, Emit
<1>3. PICK gap \in Nat, o \in Nat :
         /\ gap = IF SwitchBlock(block_offset_) THEN BlockSize - block_offset_ ELSE 0
         /\ o = IF SwitchBlock(block_offset_) THEN 0 ELSE block_offset_
         /\ gap < HeaderSize /\ o + HeaderSize <= BlockSize
         /\ \/ gap = 0 /\ o = block_offset_
            \/ o = 0 /\ gap + block_offset_ = BlockSize
  <2>1. CASE SwitchBlock(block_offset_)
    <3>1. PICK d \in Nat : d = BlockSize - block_offset_ /\ d < HeaderSize
      BY <1>1, <2>1 DEF SwitchBlock
    <3>2. d + block_offset_ = BlockSize
      BY <1>1, <3>1
    <3> QED
      BY <1>1, <2>1, <3>1, <3>2
  <2>2. CASE ~SwitchBlock(block_offset_)
    <3>1. block_offset_ + HeaderSize <= BlockSize /\ block_offset_ \in Nat
      BY <1>1, <2>2 DEF SwitchBlock
    <3> QED
      BY <1>1, <2>2, <3>1
  <2> QED
    BY <2>1, <2>2
<1>4. PICK n \in Nat : /\ n = IF left < BlockSize - o - HeaderSize THEN left ELSE BlockSize - o - HeaderSize
                       /\ n <= left /\ o + HeaderSize + n <= BlockSize
  <2>1. PICK d \in Nat : d = BlockSize - o - HeaderSize /\ o + HeaderSize + d = BlockSize
    <3>1. BlockSize - o - HeaderSize \in Nat /\ o + HeaderSize + (BlockSize - o - HeaderSize) = BlockSize
      BY <1>1, <1>3
    <3> QED
      BY <3>1
  <2>2. PICK n \in Nat : n = (IF left < d THEN left ELSE d) /\ n <= left /\ n <= d
    <3>1. CASE left < d
      BY <1>1, <3>1
    <3>2. CASE ~(left < d)
      BY <1>1, <3>2
    <3> QED
      BY <3>1, <3>2
  <2>3. o + HeaderSize + n <= BlockSize
    BY <1>1, <2>1, <2>2
  <2> QED
    BY <2>1, <2>2, <2>3, Zenon
<1>5. PICK from \in Nat : from = added[r].len - left /\ from + left = added[r].len
  <2>1. added[r].len \in Nat
    BY <1>2, LogBoundsAssumption DEF Added
  <2>2. added[r].len - left \in Nat /\ (added[r].len - left) + left = added[r].len
    BY <1>1, <1>2, <2>1
  <2> QED
    BY <2>2
<1>6. PICK end \in BOOLEAN : end = (left = n)
  OBVIOUS
<1>7. PICK type \in RecordType : /\ type = fragment_type(left = n)
                                 /\ type \in Starts <=> begin
                                 /\ type \in Ends <=> n = left
  BY <1>1, <1>6, TypeOfFragment
<1>8. PICK f : f = Fragment(type, n, r, from)
  OBVIOUS
<1>9. PICK z \in 0 .. gap, k \in 0 .. Len(f) :
         /\ ok => k = Len(f)
         /\ file' = file \o Zeros(z) \o SubSeq(f, 1, k)
         /\ block_offset_' = o + HeaderSize + n
         /\ begin' = FALSE
         /\ left' = IF ok THEN left - n ELSE 0
         /\ added' = [added EXCEPT ![r].offset = IF begin THEN Len(file) + z ELSE @,
                                   ![r].end = IF ok /\ left = n THEN Len(file) + z + k ELSE 0]
         /\ \/ ok /\ z = gap /\ UNCHANGED <<torn, faults>>
            \/ /\ ~ok \/ z < gap
               /\ faults < MaxFaults
               /\ torn' = IF torn = 0 THEN Len(file) + z + 1 ELSE torn
               /\ faults' = faults + 1
  <2> DEFINE gap0 == IF SwitchBlock(block_offset_) THEN BlockSize - block_offset_ ELSE 0
             o0 == IF SwitchBlock(block_offset_) THEN 0 ELSE block_offset_
             n0 == IF left < BlockSize - o0 - HeaderSize THEN left ELSE BlockSize - o0 - HeaderSize
             r0 == Len(added)
             f0 == Fragment(fragment_type(left = n0), n0, r0, added[r0].len - left)
             Appends(d, m, q, x, c, j, y) ==
                /\ ok => y = Len(x)
                /\ file' = file \o Zeros(j) \o SubSeq(x, 1, y)
                /\ block_offset_' = c + HeaderSize + m
                /\ begin' = FALSE
                /\ left' = IF ok THEN left - m ELSE 0
                /\ added' = [added EXCEPT ![q].offset = IF begin THEN Len(file) + j ELSE @,
                                          ![q].end = IF ok /\ left = m THEN Len(file) + j + y ELSE 0]
                /\ \/ ok /\ j = d /\ UNCHANGED <<torn, faults>>
                   \/ /\ ~ok \/ j < d
                      /\ faults < MaxFaults
                      /\ torn' = IF torn = 0 THEN Len(file) + j + 1 ELSE torn
                      /\ faults' = faults + 1
  <2>1. \E j \in 0 .. gap0, y \in 0 .. Len(f0) : Appends(gap0, n0, r0, f0, o0, j, y)
    BY Zenon DEF Emit
  <2>2. gap0 = gap /\ o0 = o
    BY <1>3, Zenon
  <2>3. n0 = n
    BY <1>4, <2>2, Zenon
  <2>4. f0 = f /\ r0 = r
    BY <1>2, <1>5, <1>7, <1>8, <2>3, Zenon
  <2> HIDE DEF gap0, o0, n0, r0, f0, Appends
  <2>5. \E j \in 0 .. gap, y \in 0 .. Len(f) : Appends(gap, n, r, f, o, j, y)
    BY <2>1, <2>2, <2>3, <2>4, Zenon
  <2> QED
    BY <2>5, Zenon DEF Appends
<1>10. PICK start \in Nat : start = Len(file) + z
  <2>1. Len(file) \in Nat /\ z \in Nat
    BY <1>1
  <2> QED
    BY <2>1
<1>11. PICK base \in Int : base + o = start /\ base <= start
  <2>1. start - o \in Int /\ (start - o) + o = start /\ start - o <= start
    BY <1>3, <1>10
  <2> QED
    BY <2>1
<1>12. PICK g0 \in Piece : g0.type = type /\ g0.len = n /\ g0.rec = r /\ g0.from = from
  <2>1. [start |-> 0, base |-> 0, type |-> type, len |-> n, rec |-> r, from |-> from, kept |-> 0] \in Piece
    BY DEF Piece
  <2> QED
    BY <2>1
<1>13. /\ f \in Seq(Cell) /\ Len(f) = HeaderSize + n
       /\ \A i \in 1 .. HeaderSize + n : f[i] = CellOf(g0, i)
  BY <1>8, <1>12, FragmentCells
<1>14. /\ z \in Nat /\ k \in Nat /\ k <= HeaderSize + n /\ (ok => k = HeaderSize + n) /\ z < HeaderSize
       /\ Zeros(z) \in Seq(Cell) /\ Len(Zeros(z)) = z /\ \A i \in 1 .. z : Zeros(z)[i] = ZeroCell
  <2>1. PICK m \in Nat : m = Len(f) /\ m = HeaderSize + n
    BY <1>1, <1>13
  <2>2. k \in 0 .. m
    BY <2>1
  <2>3. ok => k = m
    BY <1>9, <2>1
  <2>4. z \in Nat /\ k \in Nat /\ k <= HeaderSize + n /\ z < HeaderSize
    BY <1>1, <1>3, <2>1, <2>2
  <2> QED
    BY <2>1, <2>3, <2>4, TrailerCells
<1>15. PICK g \in Piece : /\ g.type = type /\ g.len = n /\ g.rec = r /\ g.from = from
                          /\ g.start = start /\ g.base = base /\ g.kept = k
  <2>1. [start |-> start, base |-> base, type |-> type, len |-> n, rec |-> r, from |-> from, kept |-> k] \in Piece
    BY DEF Piece
  <2> QED
    BY <2>1
<1>16. \A i : CellOf(g, i) = CellOf(g0, i)
  BY <1>12, <1>15, Zenon DEF CellOf
<1>17. PICK s \in Seq(Cell) : s = SubSeq(f, 1, k) /\ k = Len(s) /\ \A i \in 1 .. k : s[i] = CellOf(g, i)
  <2>1. PICK l \in Nat : l = HeaderSize + n /\ l = Len(f) /\ k <= l
    BY <1>1, <1>13, <1>14
  <2>2. PICK s : s = SubSeq(f, 1, k)
    OBVIOUS
  <2>3. s \in Seq(Cell) /\ k = Len(s) /\ \A i \in 1 .. k : s[i] = f[i]
    BY <1>13, <2>1, <2>2
  <2>4. \A i \in 1 .. k : i \in 1 .. HeaderSize + n
    BY <2>1
  <2> QED
    BY <1>13, <1>16, <2>2, <2>3, <2>4, Zenon
<1>18. PICK h : h = file' /\ \E l \in Nat : l = Len(file)
  BY <1>1
<1> PICK l \in Nat : l = Len(file)
  BY <1>18
<1>19. /\ h \in Seq(Cell) /\ Len(h) = l + z + k
       /\ \A y \in 1 .. l : h[y] = file[y]
       /\ \A y \in l + 1 .. l + z : h[y] = Zeros(z)[y - l]
       /\ \A i \in 1 .. k : h[l + z + i] = s[i]
  <2>1. h = file \o Zeros(z) \o s
    BY <1>9, <1>17, <1>18, Zenon
  <2>2. PICK t \in Seq(Cell) : t = Zeros(z) /\ z = Len(t)
    BY <1>14
  <2>3. /\ h = file \o t \o s /\ z = Len(t) /\ k = Len(s) /\ l = Len(file)
        /\ file \in Seq(Cell) /\ z \in Nat /\ k \in Nat
    BY <1>1, <1>14, <1>17, <2>1, <2>2
  <2>4. /\ h \in Seq(Cell) /\ Len(h) = l + z + k
        /\ \A y \in 1 .. l : h[y] = file[y]
        /\ \A y \in l + 1 .. l + z : h[y] = t[y - l]
        /\ \A i \in 1 .. k : h[l + z + i] = s[i]
    BY <2>3, ThreeInARow
  <2> QED
    BY <2>2, <2>4
<1>20. Grown(file', g)
  <2>1. ASSUME NEW y \in l + 1 .. l + z PROVE h[y] = ZeroCell
    <3>1. y - l \in 1 .. z
      OBVIOUS
    <3>2. h[y] = Zeros(z)[y - l]
      BY <1>19
    <3>3. Zeros(z)[y - l] = ZeroCell
      BY <1>14, <3>1
    <3> QED
      BY <3>2, <3>3
  <2>2. \A y \in l + 1 .. l + z : h[y] = ZeroCell
    BY <2>1
  <2>3. \A i \in 1 .. k : h[l + z + i] = CellOf(g, i)
    BY <1>17, <1>19, Zenon
  <2>4. l + z = start /\ Len(h) = start + k
    BY <1>10, <1>14, <1>19
  <2> QED
    BY <1>15, <1>18, <1>19, <2>2, <2>3, <2>4, Zenon DEF Grown, End
<1>21. Cut(g, z)
  <2>1. start + HeaderSize + n <= base + BlockSize
    BY <1>1, <1>3, <1>4, <1>10, <1>11
  <2> QED
    BY <1>2, <1>4, <1>5, <1>7, <1>10, <1>11, <1>14, <1>15, <2>1, Zenon DEF Cut
<1>22. Counted(g, z, ok)
  <2>1. block_offset_' = start + HeaderSize + n - base
    <3>1. block_offset_' = o + HeaderSize + n
      BY <1>9
    <3> QED
      BY <1>1, <1>3, <1>11, <3>1
  <2>2. ASSUME z = gap
        PROVE  \/ z = 0 /\ start = base + block_offset_
               \/ z < HeaderSize /\ start = base /\ z + block_offset_ = BlockSize
    BY <1>3, <1>11, <1>14, <2>2
  <2>3. z = gap => Fitted(g, z)
    BY <1>15, <2>2, Zenon DEF Fitted
  <2>4. ok => Whole(g)
    BY <1>14, <1>15, Zenon DEF Whole
  <2>5. End(g) = Len(file) + z + k
    BY <1>10, <1>15 DEF End
  <2>6. g.start + 1 = Len(file) + z + 1
    BY <1>10, <1>15
  <2> QED
    BY <1>9, <1>10, <1>15, <2>1, <2>3, <2>4, <2>5, <2>6, Zenon DEF Counted
<1> QED
  BY <1>14, <1>20, <1>21, <1>22


-----------------------------------------------------------------------------
(* What the reader finds. *)

\* A stretch of a sequence.
LEMMA Stretch ==
    ASSUME NEW S, NEW s \in Seq(S), NEW k \in Nat, NEW n \in Nat, n > 0 => k + n <= Len(s),
           NEW t, t = SubSeq(s, k + 1, k + n)
    PROVE  t \in Seq(S) /\ Len(t) = n /\ \A i \in 1 .. n : t[i] = s[k + i]
<1>1. CASE n = 0
  <2>1. t = <<>>
    BY <1>1
  <2> QED
    BY <1>1, <2>1
<1>2. CASE n > 0
  <2>1. t = [i \in 1 .. n |-> s[k + i]]
    <3>1. k + 1 \in Int /\ k + n \in Int /\ 1 + (k + n) - (k + 1) = n
      OBVIOUS
    <3>2. \A i \in 1 .. n : i + (k + 1) - 1 = k + i
      OBVIOUS
    <3> QED
      BY <3>1, <3>2
  <2>2. \A i \in 1 .. n : s[k + i] \in S
    BY <1>2
  <2> QED
    BY <2>1, <2>2
<1> QED
  BY <1>1, <1>2

\* The buffer is what the file holds from the reader's offset on.
LEMMA BufferCells ==
    ASSUME TypeInv
    PROVE  /\ Offset \in Nat /\ Offset + size = end_of_buffer_offset_
           /\ Buffer \in Seq(Cell) /\ Len(Buffer) = size
           /\ \A i \in 1 .. size : Buffer[i] = file[Offset + i]
<1>1. /\ size \in Nat /\ end_of_buffer_offset_ \in Nat /\ size <= end_of_buffer_offset_
      /\ size > 0 => end_of_buffer_offset_ <= Len(file)
      /\ file \in Seq(Cell)
  BY SizeAssumption DEF TypeInv, TypeOK, Shape
<1>2. PICK k \in Nat : k = Offset /\ k + size = end_of_buffer_offset_
                       /\ k + 1 = end_of_buffer_offset_ - size + 1
  BY <1>1 DEF Offset
<1> PICK n \in Nat : n = size
  BY <1>1
<1>3. PICK s, t : s = file /\ t = Buffer
  OBVIOUS
<1>4. s \in Seq(Cell) /\ (n > 0 => k + n <= Len(s)) /\ t = SubSeq(s, k + 1, k + n)
  BY <1>1, <1>2, <1>3 DEF Buffer
<1>5. t \in Seq(Cell) /\ Len(t) = n /\ \A i \in 1 .. n : t[i] = s[k + i]
  BY <1>4, Stretch
<1> QED
  BY <1>2, <1>3, <1>5


\* The cells of g stand in the file f.
Stands(f, g) == \A i \in 1 .. g.kept : f[g.start + i] = CellOf(g, i)

\* Outcome o is due to fragment g, which stands whole where the reader is.
Found(g, o) ==
    /\ g.start = Offset /\ Whole(g) /\ End(g) <= end_of_buffer_offset_
    /\ Stands(file, g)
    /\ Remaining(o) \in Nat /\ End(g) + Remaining(o) = end_of_buffer_offset_
    /\ o.type # "skipped" => o.type = g.type /\ o.data = Payload(g.rec, g.from, g.len)

\* What ReadPhysicalRecord returns: a fragment, or nothing.
LEMMA PhysicalRecord ==
    ASSUME TypeInv, NEW o \in ReadPhysicalRecord(Buffer, eof_)
    PROVE  /\ o.drops \in BOOLEAN /\ o.type \in RecordType \cup {"skipped", "bad", "eof"}
           /\ o.type \in {"bad", "eof"} => Remaining(o) = 0
           /\ o.type = "eof" => eof_ \/ size < HeaderSize
           /\ o.type \in RecordType \cup {"skipped"} => \E g \in Piece : Found(g, o)
<1>1. /\ HeaderSize \in Nat /\ 0 < HeaderSize /\ size \in Nat /\ eof_ \in BOOLEAN
  BY SizeAssumption DEF TypeInv, TypeOK
<1>2. /\ Offset \in Nat /\ Offset + size = end_of_buffer_offset_
      /\ Buffer \in Seq(Cell) /\ Len(Buffer) = size
      /\ \A i \in 1 .. size : Buffer[i] = file[Offset + i]
  BY BufferCells
<1>3. PICK b \in Seq(Cell) : b = Buffer
  BY <1>2
<1> DEFINE Nothing == /\ o.drops \in BOOLEAN /\ o.type \in {"bad", "eof"}
                      /\ o.type = "eof" => eof_ \/ size < HeaderSize
           Intact == /\ HeaderIntact(b) /\ HeaderSize + b[1].len <= size /\ size >= HeaderSize
                     /\ ChecksumMatches(b)
           Something == /\ Intact /\ o.drops = FALSE
                        /\ o.type = "skipped" \/ /\ o.type = b[1].type
                                                 /\ o.data = SubSeq(b, HeaderSize + 1, HeaderSize + b[1].len)
<1>4. Nothing \/ Something
  <2>1. o \in ReadPhysicalRecord(b, eof_) /\ Len(b) = size
    BY <1>2, <1>3
  <2>2. CASE Len(b) < HeaderSize
    <3>1. o = Outcome("eof", <<>>, FALSE) /\ size < HeaderSize
      BY <2>1, <2>2, Zenon DEF ReadPhysicalRecord
    <3>2. o.type = "eof" /\ o.drops = FALSE
      BY <3>1 DEF Outcome
    <3> QED
      BY <3>1, <3>2
  <2>3. ASSUME o \in Overrun(eof_) PROVE Nothing
    <3>1. (eof_ /\ o = Outcome("eof", <<>>, FALSE)) \/ o = Outcome("bad", <<>>, TRUE)
      BY <2>3, Zenon DEF Overrun
    <3>2. (eof_ /\ o.type = "eof" /\ o.drops = FALSE) \/ (o.type = "bad" /\ o.drops = TRUE)
      BY <3>1 DEF Outcome
    <3> QED
      BY <3>2
  <2>4. CASE ~(Len(b) < HeaderSize) /\ ~HeaderIntact(b)
    <3>1. \/ o = Outcome("bad", <<>>, FALSE)
          \/ \E drops \in BOOLEAN : o = Outcome("bad", <<>>, drops)
          \/ o \in Overrun(eof_)
      BY <2>1, <2>4, Zenon DEF ReadPhysicalRecord
    <3>2. ASSUME NEW drops \in BOOLEAN, o = Outcome("bad", <<>>, drops) PROVE Nothing
      <4>1. o.type = "bad" /\ o.drops = drops
        BY <3>2 DEF Outcome
      <4> QED
        BY <4>1
    <3> QED
      BY <2>3, <3>1, <3>2, Zenon
  <2>5. CASE ~(Len(b) < HeaderSize) /\ HeaderIntact(b) /\ HeaderSize + b[1].len > Len(b)
    <3>1. o \in Overrun(eof_)
      BY <2>1, <2>5, Zenon DEF ReadPhysicalRecord
    <3> QED
      BY <2>3, <3>1
  <2>6. CASE ~(Len(b) < HeaderSize) /\ HeaderIntact(b) /\ ~(HeaderSize + b[1].len > Len(b)) /\ ~ChecksumMatches(b)
    <3>1. o = Outcome("bad", <<>>, TRUE)
      BY <2>1, <2>6, Zenon DEF ReadPhysicalRecord
    <3>2. o.type = "bad" /\ o.drops = TRUE
      BY <3>1 DEF Outcome
    <3> QED
      BY <3>2
  <2>7. CASE ~(Len(b) < HeaderSize) /\ HeaderIntact(b) /\ ~(HeaderSize + b[1].len > Len(b)) /\ ChecksumMatches(b)
    <3>1. PICK d : d = SubSeq(b, HeaderSize + 1, HeaderSize + b[1].len)
      OBVIOUS
    <3>2. o = Outcome("skipped", <<>>, FALSE) \/ o = Outcome(b[1].type, d, FALSE)
      BY <2>1, <2>7, <3>1, Zenon DEF ReadPhysicalRecord
    <3>3. o.drops = FALSE /\ (o.type = "skipped" \/ (o.type = b[1].type /\ o.data = d))
      BY <3>2 DEF Outcome
    <3>4. b[1].len \in Nat
      <4>1. PICK i \in Nat : i = 1 /\ i \in 1 .. Len(b)
        BY <1>1, <2>7
      <4>2. b[i] \in Cell /\ b[i].is = "header"
        BY <2>7, <4>1 DEF HeaderIntact
      <4> QED
        BY <4>1, <4>2 DEF Cell, ZeroCell, BadCell
    <3>5. HeaderSize + b[1].len <= size /\ size >= HeaderSize
      BY <1>1, <2>1, <2>7, <3>4
    <3> QED
      BY <2>7, <3>1, <3>3, <3>5, Zenon
  <2> QED
    BY <2>2, <2>4, <2>5, <2>6, <2>7, Zenon
<1>5. CASE Nothing
  BY <1>5 DEF Remaining, RecordType
<1>6. CASE Something
  <2>1. PICK i1 \in Nat : i1 = 1 /\ i1 \in 1 .. Len(b) /\ i1 \in 1 .. size
    BY <1>1, <1>2, <1>3, <1>6
  <2>2. b[i1] \in Cell /\ b[i1].is = "header"
    BY <1>6, <2>1 DEF HeaderIntact
  <2>3. PICK c \in [is : {"header"}, i : Nat, type : RecordType, len : Nat, rec : Nat, from : Nat] : c = b[1]
    BY <2>1, <2>2 DEF Cell, ZeroCell, BadCell
  <2>4. PICK type \in RecordType, n \in Nat, r \in Nat, from \in Nat :
           type = c.type /\ n = c.len /\ r = c.rec /\ from = c.from
    BY <2>3
  <2>5. HeaderSize + n <= size
    BY <1>6, <2>3, <2>4
  <2>6. PICK g \in Piece : /\ g.type = type /\ g.len = n /\ g.rec = r /\ g.from = from
                           /\ g.start = Offset /\ g.kept = HeaderSize + n
    <3>1. Offset \in Nat /\ Offset \in Int /\ HeaderSize + n \in Nat
      BY <1>1, <1>2
    <3>2. [start |-> Offset, base |-> Offset, type |-> type, len |-> n, rec |-> r, from |-> from,
           kept |-> HeaderSize + n] \in Piece
      BY <3>1 DEF Piece
    <3> QED
      BY <3>2
  <2>7. ASSUME NEW i \in 1 .. HeaderSize PROVE b[i] = HeaderCell(i, type, n, r, from)
    <3>1. b[i] = [c EXCEPT !.i = i]
      BY <1>6, <2>3, Zenon DEF HeaderIntact
    <3> QED
      BY <2>3, <2>4, <3>1 DEF HeaderCell
  <2>8. SubSeq(b, HeaderSize + 1, HeaderSize + n) = Payload(r, from, n)
    BY <1>6, <2>3, <2>4 DEF ChecksumMatches
  <2>9. ASSUME NEW q \in 1 .. n PROVE b[HeaderSize + q] = DataCell(r, from + q)
    <3>1. PICK t : t = SubSeq(b, HeaderSize + 1, HeaderSize + n)
      OBVIOUS
    <3>2. n > 0 => HeaderSize + n <= Len(b)
      BY <1>2, <1>3, <2>5
    <3>3. t[q] = b[HeaderSize + q]
      BY <1>1, <3>1, <3>2, Stretch
    <3>4. Payload(r, from, n)[q] = DataCell(r, from + q)
      BY DEF Payload
    <3>5. t[q] = DataCell(r, from + q)
      BY <2>8, <3>1, <3>4
    <3> QED
      BY <3>3, <3>5
  <2>10. ASSUME NEW i \in 1 .. HeaderSize + n PROVE b[i] = CellOf(g, i)
    <3>1. CASE i <= HeaderSize
      <4>1. i \in 1 .. HeaderSize
        BY <1>1, <3>1
      <4> QED
        BY <2>6, <2>7, <3>1, <4>1, Zenon DEF CellOf
    <3>2. CASE ~(i <= HeaderSize)
      <4>1. PICK q \in 1 .. n : q = i - HeaderSize /\ i = HeaderSize + q
        <5>1. i - HeaderSize \in 1 .. n /\ i = HeaderSize + (i - HeaderSize)
          BY <1>1, <3>2
        <5> QED
          BY <5>1
      <4> QED
        BY <2>6, <2>9, <3>2, <4>1, Zenon DEF CellOf
    <3> QED
      BY <3>1, <3>2
  <2>11. ASSUME NEW i \in 1 .. g.kept PROVE file[g.start + i] = CellOf(g, i)
    <3>1. i \in 1 .. HeaderSize + n /\ i \in 1 .. size
      BY <1>1, <2>5, <2>6
    <3> QED
      BY <1>2, <1>3, <2>6, <2>10, <3>1, Zenon
  <2>12. o.type \in RecordType \cup {"skipped"} /\ o.type \notin {"bad", "eof"}
    BY <1>6, <2>3 DEF RecordType
  <2>13. Remaining(o) \in Nat /\ End(g) + Remaining(o) = end_of_buffer_offset_ /\ End(g) <= end_of_buffer_offset_
    <3>1. Remaining(o) = size - HeaderSize - n
      BY <1>3, <2>3, <2>4, <2>12 DEF Remaining
    <3> QED
      BY <1>1, <1>2, <2>5, <2>6, <3>1 DEF End
  <2>14. o.type # "skipped" => o.type = g.type /\ o.data = Payload(g.rec, g.from, g.len)
    BY <1>6, <2>3, <2>4, <2>6, <2>8
  <2>15. Found(g, o)
    BY <2>6, <2>11, <2>13, <2>14 DEF Found, Stands, Whole
  <2> QED
    BY <1>6, <2>12, <2>15
<1> QED
  BY <1>4, <1>5, <1>6


-----------------------------------------------------------------------------
(* Types: every step keeps them. *)

\* Fetching a fragment moves the reader on.
LEMMA FetchMoves ==
    ASSUME TypeInv, NEW o \in ReadPhysicalRecord(Buffer, eof_), Fetch(o)
    PROVE  size' \in Nat /\ size' <= size
<1>1. HeaderSize \in Nat /\ size \in Nat /\ end_of_buffer_offset_ \in Nat
  BY SizeAssumption DEF TypeInv, TypeOK
<1>2. size' = Remaining(o)
  BY DEF Fetch
<1>3. CASE o.type \in {"bad", "eof"}
  BY <1>1, <1>2, <1>3, PhysicalRecord
<1>4. CASE o.type \in RecordType \cup {"skipped"}
  <2>1. PICK g \in Piece : Found(g, o)
    BY <1>4, PhysicalRecord
  <2>2. g.start \in Nat /\ g.kept \in Nat
    BY DEF Piece
  <2>3. g.start = Offset /\ Offset + size = end_of_buffer_offset_
    BY <2>1, BufferCells DEF Found
  <2>4. Remaining(o) \in Nat /\ End(g) + Remaining(o) = end_of_buffer_offset_
    BY <2>1 DEF Found
  <2> QED
    BY <1>1, <1>2, <2>2, <2>3, <2>4 DEF End
<1> QED
  BY <1>3, <1>4, PhysicalRecord

\* What Fetch leaves alone keeps its type.
LEMMA FetchTypes ==
    ASSUME TypeInv, NEW o \in ReadPhysicalRecord(Buffer, eof_), Fetch(o),
           resyncing_' \in BOOLEAN, in_fragmented_record' \in BOOLEAN, reported' \in BOOLEAN,
           prospective' \in Nat, scratch' \in Seq(Cell), records' \in Seq(Returned),
           phase' \in {"read", "end"}
    PROVE  TypeInv'
<1>1. size' \in Nat /\ size' <= size
  BY FetchMoves
<1>2. /\ file' = file /\ block_offset_' = block_offset_ /\ left' = left /\ begin' = begin
      /\ end_of_buffer_offset_' = end_of_buffer_offset_ /\ eof_' = eof_
      /\ initial_offset_' = initial_offset_ /\ added' = added /\ harmed' = harmed
      /\ torn' = torn /\ faults' = faults /\ phase = "read"
  BY DEF Fetch, writerVars
<1>3. TypeOK'
  <2>1. /\ size \in 0 .. BlockSize /\ BlockSize \in Nat
        /\ end_of_buffer_offset_ \in Nat /\ size <= end_of_buffer_offset_
        /\ size > 0 => end_of_buffer_offset_ <= Len(file)
    BY SizeAssumption DEF TypeInv, TypeOK
  <2>2. /\ size' \in 0 .. BlockSize /\ size' <= end_of_buffer_offset_
        /\ size' > 0 => end_of_buffer_offset_ <= Len(file)
    BY <1>1, <2>1
  <2> QED
    BY <1>2, <2>2 DEF TypeInv, TypeOK
<1>4. Shape'
  BY <1>2 DEF TypeInv, Shape
<1>5. Fresh'
  BY <1>2 DEF TypeInv, Fresh
<1>6. Current'
  BY <1>2 DEF TypeInv, Current, Adding
<1> QED
  BY <1>3, <1>4, <1>5, <1>6 DEF TypeInv

\* The reader's steps keep the types.
LEMMA ReadTypes ==
    ASSUME TypeInv, Resync \/ Start \/ Continue \/ SkipBad \/ ReadEof
    PROVE  TypeInv'
<1>1. /\ {resyncing_, in_fragmented_record, reported} \subseteq BOOLEAN /\ prospective \in Nat
      /\ scratch \in Seq(Cell) /\ records \in Seq(Returned)
      /\ phase \in {"write", "idle", "read", "end"} /\ Offset \in Nat
  BY BufferCells DEF TypeInv, TypeOK, Shape
<1>2. <<>> \in Seq(Cell)
  OBVIOUS
<1>3. ASSUME NEW o \in ReadPhysicalRecord(Buffer, eof_), o.type \in RecordType
      PROVE  o.data \in Seq(Cell)
  <2>1. PICK g \in Piece : Found(g, o)
    BY <1>3, PhysicalRecord
  <2>2. o.data = Payload(g.rec, g.from, g.len)
    BY <1>3, <2>1 DEF Found, RecordType
  <2>3. PICK type \in RecordType, n \in Nat, r \in Nat, from \in Nat :
           type = g.type /\ n = g.len /\ r = g.rec /\ from = g.from
    BY DEF Piece
  <2>4. Payload(r, from, n) \in Seq(Cell)
    BY CellTypes
  <2> QED
    BY <2>2, <2>3, <2>4
<1>4. ASSUME NEW offset \in Nat, NEW data \in Seq(Cell), Return(offset, data)
      PROVE  /\ records' \in Seq(Returned) /\ scratch' \in Seq(Cell)
             /\ in_fragmented_record' \in BOOLEAN
  <2>1. PICK x \in Returned : x = [offset |-> offset, data |-> data]
    <3>1. [offset |-> offset, data |-> data] \in Returned
      BY DEF Returned
    <3> QED
      BY <3>1
  <2>2. Append(records, x) \in Seq(Returned)
    BY <1>1
  <2> QED
    BY <1>2, <1>4, <2>1, <2>2 DEF Return
<1>5. CASE Resync
  <2>1. PICK o \in ReadPhysicalRecord(Buffer, eof_) :
           /\ Fetch(o) /\ resyncing_' \in BOOLEAN
           /\ UNCHANGED <<phase, fragmentVars, records, reported>>
    BY <1>5 DEF Resync
  <2>2. /\ phase' \in {"read", "end"} /\ in_fragmented_record' \in BOOLEAN /\ reported' \in BOOLEAN
        /\ prospective' \in Nat /\ scratch' \in Seq(Cell) /\ records' \in Seq(Returned)
    BY <1>1, <2>1 DEF fragmentVars, Fetch
  <2> QED
    BY <2>1, <2>2, FetchTypes
<1>6. CASE Start
  <2>1. PICK o \in ReadPhysicalRecord(Buffer, eof_) :
           /\ Fetch(o) /\ o.type \in {"full", "first"}
           /\ resyncing_' = FALSE /\ prospective' = Offset
           /\ \/ Return(Offset, o.data)
              \/ scratch' = o.data /\ in_fragmented_record' = TRUE /\ records' = records
           /\ reported' = (reported \/ (in_fragmented_record /\ scratch # <<>>))
           /\ phase' = phase
    BY <1>6 DEF Start
  <2>2. o.data \in Seq(Cell)
    BY <1>3, <2>1 DEF RecordType
  <2>3. /\ in_fragmented_record' \in BOOLEAN /\ scratch' \in Seq(Cell) /\ records' \in Seq(Returned)
    BY <1>1, <1>4, <2>1, <2>2
  <2>4. /\ phase' \in {"read", "end"} /\ reported' \in BOOLEAN /\ prospective' \in Nat
        /\ resyncing_' \in BOOLEAN
    BY <1>1, <2>1 DEF Fetch
  <2> QED
    BY <2>1, <2>3, <2>4, FetchTypes
<1>7. CASE Continue
  <2>1. PICK o \in ReadPhysicalRecord(Buffer, eof_) :
           /\ Fetch(o) /\ o.type \in {"middle", "last"}
           /\ \/ /\ scratch' = scratch \o o.data
                 /\ UNCHANGED <<in_fragmented_record, records, reported>>
              \/ /\ Return(prospective, scratch \o o.data)
                 /\ UNCHANGED reported
              \/ /\ reported' = TRUE
                 /\ UNCHANGED <<in_fragmented_record, scratch, records>>
           /\ UNCHANGED <<phase, resyncing_, prospective>>
    BY <1>7 DEF Continue
  <2>2. scratch \o o.data \in Seq(Cell)
    <3>1. o.data \in Seq(Cell)
      BY <1>3, <2>1 DEF RecordType
    <3> QED
      BY <1>1, <3>1
  <2>3. /\ in_fragmented_record' \in BOOLEAN /\ scratch' \in Seq(Cell) /\ records' \in Seq(Returned)
        /\ reported' \in BOOLEAN
    BY <1>1, <1>4, <2>1, <2>2
  <2>4. phase' \in {"read", "end"} /\ prospective' \in Nat /\ resyncing_' \in BOOLEAN
    BY <1>1, <2>1 DEF Fetch
  <2> QED
    BY <2>1, <2>3, <2>4, FetchTypes
<1>8. CASE SkipBad
  <2>1. PICK o \in ReadPhysicalRecord(Buffer, eof_) :
           /\ Fetch(o) /\ resyncing_' = FALSE /\ in_fragmented_record' = FALSE /\ scratch' = <<>>
           /\ reported' = (reported \/ o.drops \/ in_fragmented_record)
           /\ UNCHANGED <<phase, prospective, records>>
    BY <1>8 DEF SkipBad
  <2>2. /\ resyncing_' \in BOOLEAN /\ in_fragmented_record' \in BOOLEAN /\ reported' \in BOOLEAN
        /\ prospective' \in Nat /\ scratch' \in Seq(Cell) /\ records' \in Seq(Returned)
        /\ phase' \in {"read", "end"}
    BY <1>1, <1>2, <2>1 DEF Fetch
  <2> QED
    BY <2>1, <2>2, FetchTypes
<1>9. CASE ReadEof
  <2>1. PICK o \in ReadPhysicalRecord(Buffer, eof_) :
           /\ Fetch(o) /\ resyncing_' = FALSE /\ scratch' = <<>> /\ phase' = "end"
           /\ UNCHANGED <<in_fragmented_record, prospective, records, reported>>
    BY <1>9 DEF ReadEof
  <2>2. /\ resyncing_' \in BOOLEAN /\ in_fragmented_record' \in BOOLEAN /\ reported' \in BOOLEAN
        /\ prospective' \in Nat /\ scratch' \in Seq(Cell) /\ records' \in Seq(Returned)
        /\ phase' \in {"read", "end"}
    BY <1>1, <1>2, <2>1
  <2> QED
    BY <2>1, <2>2, FetchTypes
<1> QED
  BY <1>5, <1>6, <1>7, <1>8, <1>9


\* What the writer notes about the record a piece belongs to.
LEMMA Bookkeeping ==
    ASSUME TypeInv, NEW ok \in BOOLEAN, NEW g \in Piece, NEW z \in Nat,
           Cut(g, z), Adding, Counted(g, z, ok)
    PROVE  /\ added' \in Seq(Added) /\ Len(added') = Len(added) /\ g.rec \in DOMAIN added
           /\ DOMAIN added' = DOMAIN added
           /\ \A r \in DOMAIN added : /\ added'[r].len = added[r].len
                                      /\ r # g.rec => added'[r] = added[r]
           /\ added'[g.rec].offset = IF begin THEN g.start ELSE added[g.rec].offset
           /\ added'[g.rec].end = IF ok /\ left = g.len THEN End(g) ELSE 0
<1>1. PICK r \in Nat : r = g.rec /\ r \in DOMAIN added /\ added[r] \in Added
  BY DEF TypeInv, Shape, Current, Cut
<1>2. PICK a \in Added : a = added[r]
  BY <1>1
<1>3. PICK x \in Nat : x = IF begin THEN g.start ELSE a.offset
  BY <1>2 DEF Added, Piece
<1>4. PICK e \in Nat : e = IF ok /\ left = g.len THEN End(g) ELSE 0
  <2>1. End(g) \in Nat
    BY PieceFields
  <2> QED
    BY <2>1
<1>5. PICK b \in Added : b = [a EXCEPT !.offset = x, !.end = e]
  <2>1. [a EXCEPT !.offset = x, !.end = e] \in Added
    BY <1>2 DEF Added
  <2> QED
    BY <2>1
<1>6. b.offset = x /\ b.end = e /\ b.len = a.len
  BY <1>5 DEF Added
<1>7. added' = [added EXCEPT ![r] = b]
  BY <1>1, <1>2, <1>3, <1>4, <1>5 DEF Counted, TypeInv, Shape
<1>8. added \in Seq(Added)
  BY DEF TypeInv, Shape
<1>9. /\ added' \in Seq(Added) /\ Len(added') = Len(added) /\ DOMAIN added' = DOMAIN added
      /\ added'[r] = b /\ \A i \in DOMAIN added : i # r => added'[i] = added[i]
  BY <1>1, <1>5, <1>7, <1>8
<1> QED
  BY <1>1, <1>2, <1>3, <1>4, <1>6, <1>9


\* What a crash or bad cells leave of the file: f, with cells h damaged.
Remains(f, h) ==
    /\ f \in Seq(Cell) /\ Len(f) <= Len(file)
    /\ h \subseteq 0 .. Len(f) - 1 /\ harmed \subseteq h
    /\ \A y \in 1 .. Len(f) : \/ f[y] = file[y]
                              \/ f[y] \in {ZeroCell, BadCell} /\ y - 1 \in h

\* A crash or a bad cell loses cells at the end, or puts zeros or garbage for
\* them and notes where.
LEMMA DisturbLeaves ==
    ASSUME TypeInv, Disturb
    PROVE  Remains(file', harmed')
<1>1. file \in Seq(Cell) /\ harmed \subseteq 0 .. Len(file) - 1
  BY DEF TypeInv, TypeOK, Shape
<1>2. PICK l \in Nat : l = Len(file)
  BY <1>1
<1>3. CASE Crash
  <2>1. PICK cut \in 0 .. l :
           \/ file' = SubSeq(file, 1, cut) /\ harmed' = harmed
           \/ /\ cut < l /\ file' = SubSeq(file, 1, cut) \o Zeros(l - cut)
              /\ harmed' = harmed \cup (cut .. l - 1)
    BY <1>2, <1>3 DEF Crash
  <2>2. PICK k \in Nat, n \in Nat : k = cut /\ n = l - k /\ k + n = l /\ k <= l
    <3>1. cut \in Nat /\ l - cut \in Nat /\ cut + (l - cut) = l /\ cut <= l
      BY <2>1
    <3> QED
      BY <3>1
  <2>3. harmed = {}
    BY <1>3 DEF TypeInv, Fresh, Crash
  <2>4. PICK s : s = SubSeq(file, 1, k)
    OBVIOUS
  <2>5. s \in Seq(Cell) /\ k = Len(s) /\ \A y \in 1 .. k : s[y] = file[y]
    BY <1>1, <1>2, <2>2, <2>4
  <2>6. CASE file' = SubSeq(file, 1, cut) /\ harmed' = harmed
    <3>1. file' = s /\ harmed' = {}
      BY <2>2, <2>3, <2>4, <2>6
    <3>2. Len(s) <= Len(file)
      BY <1>2, <2>2, <2>5
    <3> QED
      BY <2>3, <2>5, <3>1, <3>2 DEF Remains
  <2>7. CASE /\ cut < l /\ file' = SubSeq(file, 1, cut) \o Zeros(l - cut)
             /\ harmed' = harmed \cup (cut .. l - 1)
    <3>1. PICK t \in Seq(Cell) : t = Zeros(n) /\ n = Len(t) /\ \A i \in 1 .. n : t[i] = ZeroCell
      BY TrailerCells
    <3>2. PICK f : f = file' /\ f = s \o t
      BY <2>2, <2>4, <2>7, <3>1
    <3>3. /\ f \in Seq(Cell) /\ Len(f) = k + n
          /\ \A y \in 1 .. k : f[y] = s[y]
          /\ \A y \in k + 1 .. k + n : f[y] = t[y - k]
      <4>1. s \in Seq(Cell) /\ k = Len(s) /\ n = Len(t)
        BY <2>5, <3>1
      <4> QED
        BY <3>2, <4>1, TwoInARow
    <3>4. harmed' = k .. l - 1
      BY <2>2, <2>3, <2>7
    <3>5. ASSUME NEW y \in 1 .. Len(f)
          PROVE  f[y] = file[y] \/ (f[y] \in {ZeroCell, BadCell} /\ y - 1 \in harmed')
      <4>1. CASE y <= k
        <5>1. y \in 1 .. k
          BY <4>1, <3>3
        <5> QED
          BY <2>5, <3>3, <5>1
      <4>2. CASE ~(y <= k)
        <5>1. y \in k + 1 .. k + n /\ y - k \in 1 .. n /\ y - 1 \in k .. l - 1
          BY <2>2, <3>3, <4>2
        <5> QED
          BY <3>1, <3>3, <3>4, <5>1, Zenon
      <4> QED
        BY <4>1, <4>2
    <3>6. Len(f) <= Len(file) /\ harmed' \subseteq 0 .. Len(f) - 1
      BY <1>2, <2>2, <3>3, <3>4
    <3> QED
      BY <2>3, <3>2, <3>3, <3>5, <3>6 DEF Remains
  <2> QED
    BY <2>1, <2>6, <2>7
<1>4. ASSUME NEW i \in 0 .. Len(file), Damage(i) PROVE Remains(file', harmed')
  <2>1. /\ i < l /\ file' = [file EXCEPT ![i + 1] = BadCell] /\ harmed' = harmed \cup {i}
    BY <1>2, <1>4 DEF Damage
  <2>2. PICK j \in Nat : j = i + 1 /\ j \in 1 .. l /\ j - 1 = i
    <3>1. i + 1 \in Nat /\ i + 1 \in 1 .. l /\ (i + 1) - 1 = i
      BY <1>2, <2>1
    <3> QED
      BY <3>1
  <2>3. /\ file' \in Seq(Cell) /\ Len(file') = l
        /\ \A y \in 1 .. l : file'[y] = IF y = j THEN BadCell ELSE file[y]
    <3>1. BadCell \in Cell
      BY DEF Cell
    <3> QED
      BY <1>1, <1>2, <2>1, <2>2, <3>1
  <2>4. harmed' \subseteq 0 .. l - 1 /\ harmed \subseteq harmed'
    BY <1>1, <1>2, <2>1
  <2>5. \A y \in 1 .. l : file'[y] = file[y] \/ (file'[y] \in {ZeroCell, BadCell} /\ y - 1 \in harmed')
    BY <2>1, <2>2, <2>3
  <2> QED
    BY <1>2, <2>3, <2>4, <2>5 DEF Remains
<1> QED
  BY <1>3, <1>4 DEF Disturb


\* Reading starts at a block, not before the file.
LEMMA SkipToInitialBlockType ==
    ASSUME NEW o \in Nat
    PROVE  SkipToInitialBlock(o) \in Nat
<1>1. BlockSize \in Nat /\ BlockSize > 0 /\ HeaderSize \in Nat
  BY SizeAssumption
<1>2. o % BlockSize \in Nat /\ o = BlockSize * (o \div BlockSize) + (o % BlockSize) /\ o \div BlockSize \in Int
  BY <1>1
<1>3. PICK q \in Int : q = o \div BlockSize
  BY <1>2
<1>4. BlockSize * q >= 0
  <2>1. o % BlockSize < BlockSize
    BY <1>1
  <2>2. CASE q < 0
    <3>1. BlockSize * q <= BlockSize * (0 - 1)
      BY <1>1, <2>2
    <3> QED
      BY <1>1, <1>2, <1>3, <2>1, <3>1
  <2>3. CASE q >= 0
    BY <1>1, <2>3
  <2> QED
    BY <2>2, <2>3
<1>5. o - (o % BlockSize) \in Nat
  BY <1>1, <1>2, <1>3, <1>4
<1> QED
  BY <1>1, <1>5 DEF SkipToInitialBlock

\* Every step keeps the types.
LEMMA TypeStep ==
    ASSUME TypeInv, [Next]_vars
    PROVE  TypeInv'
<1>1. /\ BlockSize \in Nat /\ HeaderSize \in Nat /\ HeaderSize < BlockSize
      /\ {MaxLength, MaxRecords, MaxFaults} \subseteq Nat
  BY SizeAssumption, LogBoundsAssumption
<1>2. ASSUME NEW n \in 0 .. MaxLength, AddRecord(n) PROVE TypeInv'
  <2>1. PICK x \in Added : x = [offset |-> 0, len |-> n, end |-> 0]
    <3>1. [offset |-> 0, len |-> n, end |-> 0] \in Added
      BY DEF Added
    <3> QED
      BY <3>1
  <2>2. /\ added' \in Seq(Added) /\ Len(added') = Len(added) + 1 /\ added'[Len(added) + 1] = x
        /\ Len(added') > 0
    BY <1>2, <2>1 DEF AddRecord, TypeInv, Shape
  <2>3. Current'
    <3>1. added' # <<>> /\ added'[Len(added')].len = n /\ left' = n
      BY <1>2, <2>1, <2>2 DEF AddRecord
    <3> QED
      BY <3>1 DEF Current
  <2>4. TypeOK'
    BY <1>1, <1>2 DEF AddRecord, TypeInv, TypeOK, readerVars, bufferVars, fragmentVars
  <2>5. Shape'
    BY <1>2, <2>2 DEF AddRecord, TypeInv, Shape, readerVars, fragmentVars
  <2>6. Fresh'
    BY <1>2 DEF AddRecord, TypeInv, Fresh, readerVars, bufferVars, fragmentVars
  <2> QED
    BY <2>3, <2>4, <2>5, <2>6 DEF TypeInv
<1>3. ASSUME NEW ok \in BOOLEAN, Emit(ok) PROVE TypeInv'
  <2>1. PICK g \in Piece, z \in Nat : Cut(g, z) /\ Grown(file', g) /\ Counted(g, z, ok)
    BY <1>3, EmitCuts
  <2>2. /\ added' \in Seq(Added) /\ Len(added') = Len(added) /\ g.rec \in DOMAIN added
        /\ added'[g.rec].len = added[g.rec].len
    <3>1. Adding
      BY <1>3 DEF Emit
    <3> QED
      BY <2>1, <3>1, Bookkeeping
  <2>3. g.start \in Nat /\ g.base \in Int /\ g.len \in Nat /\ g.kept \in Nat
    BY DEF Piece
  <2>4. UNCHANGED <<phase, readerVars, harmed, reported>> /\ phase = "write"
    BY <1>3 DEF Emit
  <2>5. left \in Nat /\ left <= MaxLength /\ torn \in Nat /\ faults \in 0 .. MaxFaults /\ harmed = {}
    BY <1>1, <2>4 DEF TypeInv, TypeOK, Fresh
  <2>6. block_offset_' \in 0 .. BlockSize
    <3>1. /\ block_offset_' = g.start + HeaderSize + g.len - g.base
          /\ g.base <= g.start /\ g.start + HeaderSize + g.len <= g.base + BlockSize
      BY <2>1 DEF Cut, Counted
    <3> QED
      BY <1>1, <2>3, <3>1
  <2>7. left' \in Nat /\ left' <= left /\ begin' = FALSE
    BY <2>1, <2>3, <2>5 DEF Cut, Counted
  <2>8. torn' \in Nat /\ faults' \in 0 .. MaxFaults
    BY <1>1, <2>1, <2>3, <2>5 DEF Counted
  <2>9. TypeOK'
    <3>1. left' \in 0 .. MaxLength
      BY <1>1, <2>5, <2>7
    <3>2. /\ size' = 0 /\ end_of_buffer_offset_' = 0 /\ eof_' = FALSE /\ initial_offset_' = 0
          /\ resyncing_' = FALSE /\ in_fragmented_record' = FALSE /\ reported' = FALSE
          /\ prospective' = prospective /\ harmed' = {} /\ phase' = "write"
      BY <2>4, <2>5 DEF TypeInv, Fresh, readerVars, bufferVars, fragmentVars
    <3>3. prospective \in Nat
      BY DEF TypeInv, TypeOK
    <3>4. {eof_', resyncing_', in_fragmented_record', reported'} \subseteq BOOLEAN /\ begin' \in BOOLEAN
      BY <2>7, <3>2
    <3>5. {initial_offset_', prospective', torn'} \subseteq Nat
      BY <2>8, <3>2, <3>3
    <3>6. /\ size' \in 0 .. BlockSize /\ end_of_buffer_offset_' \in Nat /\ size' <= end_of_buffer_offset_'
          /\ ~(size' > 0)
      BY <1>1, <3>2
    <3>7. harmed' \subseteq 0 .. Len(file') - 1
      BY <3>2
    <3> QED
      BY <2>6, <2>8, <3>1, <3>2, <3>4, <3>5, <3>6, <3>7, Zenon DEF TypeOK
  <2>10. Shape'
    BY <2>1, <2>2, <2>4 DEF TypeInv, Shape, Grown, readerVars, fragmentVars
  <2>11. Fresh'
    BY <2>4 DEF TypeInv, Fresh, readerVars, bufferVars, fragmentVars
  <2>12. Current'
    <3>1. g.rec = Len(added) /\ left <= added[g.rec].len /\ added \in Seq(Added)
      BY <1>3, <2>1 DEF TypeInv, Current, Shape, Cut, Emit
    <3>2. added[g.rec].len \in Nat
      <4>1. added[g.rec] \in Added
        BY <2>2, <3>1
      <4> QED
        BY <1>1, <4>1 DEF Added
    <3>3. left' <= added'[Len(added')].len
      BY <2>2, <2>5, <2>7, <3>1, <3>2
    <3>4. added' # <<>>
      BY <2>2, <3>1
    <3> QED
      BY <3>3, <3>4 DEF Current
  <2> QED
    BY <2>9, <2>10, <2>11, <2>12 DEF TypeInv
<1>4. CASE Disturb
  <2>1. Remains(file', harmed')
    BY <1>4, DisturbLeaves
  <2>2. /\ phase \in {"write", "idle"} /\ phase' = "idle"
        /\ left' \in {0, left} /\ begin' \in {FALSE, begin} /\ (phase' = "idle" /\ phase = "write" => left' = 0 /\ begin' = FALSE)
        /\ faults' \in {faults, faults + 1} /\ (faults' = faults \/ faults < MaxFaults)
        /\ UNCHANGED <<block_offset_, readerVars, added, torn, reported>>
    BY <1>4 DEF Disturb, Crash, Damage
  <2>3. size = 0 /\ left' = 0 /\ begin' = FALSE
    BY <2>2 DEF TypeInv, Fresh
  <2>4. TypeOK'
    <3>1. faults' \in 0 .. MaxFaults
      BY <1>1, <2>2 DEF TypeInv, TypeOK
    <3>2. /\ size' = 0 /\ end_of_buffer_offset_' = 0 /\ eof_' = FALSE /\ initial_offset_' = 0
          /\ resyncing_' = FALSE /\ in_fragmented_record' = FALSE /\ reported' = FALSE
          /\ prospective' = prospective /\ torn' = torn /\ block_offset_' = block_offset_
      BY <2>2 DEF TypeInv, Fresh, readerVars, bufferVars, fragmentVars
    <3>3. prospective \in Nat /\ torn \in Nat /\ block_offset_ \in 0 .. BlockSize
      BY DEF TypeInv, TypeOK
    <3>4. harmed' \subseteq 0 .. Len(file') - 1
      BY <2>1 DEF Remains
    <3>5. {eof_', resyncing_', in_fragmented_record', reported'} \subseteq BOOLEAN /\ begin' \in BOOLEAN
      BY <2>3, <3>2
    <3>6. {initial_offset_', prospective', torn'} \subseteq Nat
      BY <3>2, <3>3
    <3>7. /\ size' \in 0 .. BlockSize /\ end_of_buffer_offset_' \in Nat /\ size' <= end_of_buffer_offset_'
          /\ ~(size' > 0) /\ left' \in 0 .. MaxLength
      BY <1>1, <2>3, <3>2
    <3> QED
      BY <2>2, <3>1, <3>2, <3>3, <3>4, <3>5, <3>6, <3>7, Zenon DEF TypeOK
  <2>5. Shape'
    BY <2>1, <2>2 DEF TypeInv, Shape, Remains, readerVars, fragmentVars
  <2>6. Fresh'
    BY <2>2, <2>3 DEF TypeInv, Fresh, readerVars, bufferVars, fragmentVars
  <2>7. Current'
    BY <2>3 DEF Current, Adding
  <2> QED
    BY <2>4, <2>5, <2>6, <2>7 DEF TypeInv
<1>5. ASSUME NEW o \in 0 .. Len(file), Open(o) PROVE TypeInv'
  <2>1. /\ phase = "idle" /\ phase' = "read" /\ initial_offset_' = o /\ o \in Nat
        /\ end_of_buffer_offset_' = (IF o > 0 THEN SkipToInitialBlock(o) ELSE 0)
        /\ resyncing_' \in BOOLEAN
        /\ UNCHANGED <<writerVars, size, eof_, fragmentVars, records, histVars>>
    BY <1>5 DEF Open
  <2>2. end_of_buffer_offset_' \in Nat
    BY <2>1, SkipToInitialBlockType
  <2>3. size = 0 /\ left = 0 /\ begin = FALSE
    BY <2>1 DEF TypeInv, Fresh
  <2>4. TypeOK'
    BY <1>1, <2>1, <2>2, <2>3 DEF TypeInv, TypeOK, writerVars, fragmentVars, histVars
  <2>5. Shape' /\ Fresh' /\ Current'
    BY <2>1, <2>3 DEF TypeInv, Shape, Fresh, Current, Adding, writerVars, fragmentVars, histVars
  <2> QED
    BY <2>4, <2>5 DEF TypeInv
<1>6. ASSUME NEW ok \in BOOLEAN, ReadBlock(ok) PROVE TypeInv'
  <2>5. /\ torn \in Nat /\ reported \in BOOLEAN /\ faults \in 0 .. MaxFaults
        /\ end_of_buffer_offset_ \in Nat /\ file \in Seq(Cell)
    BY DEF TypeInv, TypeOK, Shape
  <2>6. /\ phase = "read"
        /\ UNCHANGED <<writerVars, phase, fragmentVars, initial_offset_, resyncing_, records, added, harmed>>
    BY <1>6 DEF ReadBlock
  <2>1. torn' \in Nat /\ reported' \in BOOLEAN /\ faults' \in 0 .. MaxFaults
    <3>1. CASE ok
      BY <1>6, <2>5, <3>1 DEF ReadBlock
    <3>2. CASE ~ok
      <4>1. /\ faults < MaxFaults /\ faults' = faults + 1 /\ reported' = TRUE
            /\ torn' = IF torn = 0 \/ end_of_buffer_offset_ + 1 < torn
                       THEN end_of_buffer_offset_ + 1 ELSE torn
        BY <1>6, <3>2 DEF ReadBlock
      <4> QED
        BY <1>1, <2>5, <4>1
    <3> QED
      BY <3>1, <3>2
  <2>2. /\ size' \in 0 .. BlockSize /\ end_of_buffer_offset_' \in Nat /\ size' <= end_of_buffer_offset_'
        /\ size' > 0 => end_of_buffer_offset_' <= Len(file)
        /\ eof_' \in BOOLEAN
    <3>1. PICK e \in Nat, l \in Nat : e = end_of_buffer_offset_ /\ l = Len(file)
      <4>1. Len(file) \in Nat
        BY <2>5
      <4> QED
        BY <2>5, <4>1
    <3>2. CASE ok
      <4>1. PICK rest \in Nat : rest = IF l > e THEN l - e ELSE 0
        <5>1. l > e => l - e \in Nat
          OBVIOUS
        <5> QED
          BY <5>1
      <4>2. PICK n \in Nat : n = IF rest < BlockSize THEN rest ELSE BlockSize
        BY <1>1
      <4>3. size' = n /\ end_of_buffer_offset_' = e + n /\ eof_' = (n < BlockSize)
        BY <1>6, <3>1, <3>2, <4>1, <4>2 DEF ReadBlock
      <4>4. n <= BlockSize /\ (n > 0 => e + n <= l)
        BY <1>1, <4>1, <4>2
      <4> QED
        BY <1>1, <3>1, <4>3, <4>4
    <3>3. CASE ~ok
      <4>1. size' = 0 /\ eof_' = TRUE /\ end_of_buffer_offset_' = e
        BY <1>6, <3>1, <3>3 DEF ReadBlock
      <4> QED
        BY <1>1, <3>1, <4>1
    <3> QED
      BY <3>2, <3>3
  <2>3. TypeOK'
    BY <2>1, <2>2, <2>6 DEF TypeInv, TypeOK, writerVars, fragmentVars
  <2>4. Shape' /\ Fresh' /\ Current'
    BY <2>6 DEF TypeInv, Shape, Fresh, Current, Adding, writerVars, fragmentVars
  <2> QED
    BY <2>3, <2>4 DEF TypeInv
<1>7. CASE UNCHANGED vars
  <2>1. TypeOK' /\ Shape' /\ Fresh' /\ Current'
    BY <1>7 DEF TypeInv, TypeOK, Shape, Fresh, Current, Adding, vars, writerVars, readerVars, histVars, bufferVars, fragmentVars
  <2> QED
    BY <2>1 DEF TypeInv
<1> QED
  BY <1>2, <1>3, <1>4, <1>5, <1>6, <1>7, ReadTypes DEF Next, Write, Read

\* The types of an empty log.
LEMMA TypeInit ==
    ASSUME Init PROVE TypeInv
<1>1. TypeOK
  <2>1. /\ BlockSize \in Nat /\ MaxLength \in Nat /\ MaxFaults \in Nat
    BY SizeAssumption, LogBoundsAssumption
  <2>2. {eof_, resyncing_, in_fragmented_record, reported} \subseteq BOOLEAN /\ begin \in BOOLEAN
    BY DEF Init
  <2>3. /\ block_offset_ \in 0 .. BlockSize /\ left \in 0 .. MaxLength /\ size \in 0 .. BlockSize
        /\ end_of_buffer_offset_ \in Nat /\ size <= end_of_buffer_offset_ /\ ~(size > 0)
        /\ faults \in 0 .. MaxFaults /\ {initial_offset_, prospective, torn} \subseteq Nat
    BY <2>1 DEF Init
  <2> QED
    BY <2>2, <2>3, Zenon DEF Init, TypeOK
<1>2. Shape
  BY DEF Init, Shape
<1>3. Fresh /\ Current
  BY DEF Init, Fresh, Current, Adding
<1> QED
  BY <1>1, <1>2, <1>3 DEF TypeInv

\* The log's variables keep their types, the writer stays within its block
\* (the assertions of log_writer.cc) and the reader's buffer within the file.
THEOREM LogTypes == Spec => []TypeOK
<1>1. Init => TypeInv
  BY TypeInit
<1>2. TypeInv /\ [Next]_vars => TypeInv'
  BY TypeStep
<1>3. TypeInv => TypeOK
  BY DEF TypeInv
<1> QED
  BY <1>1, <1>2, <1>3, PTL DEF Spec


-----------------------------------------------------------------------------
(* The records returned are the records added. *)

\* Piece g goes on where piece f stopped.
Continues(f, g) ==
    Whole(f) /\ f.type \notin Ends /\ f.rec = g.rec /\ f.from + f.len = g.from

\* The pieces F of the records a, in the order of the file: none is longer than
\* its fragment, and each starts its record or goes on from the one before it.
InOrder(F) == \A i, j \in DOMAIN F : i < j => End(F[i]) <= F[j].start
Part(F, k, a) ==
    /\ F[k].rec \in DOMAIN a /\ F[k].kept <= HeaderSize + F[k].len
    /\ F[k].type \in Starts => F[k].from = 0 /\ a[F[k].rec].offset = F[k].start
    /\ F[k].type \in Ends => F[k].from + F[k].len = a[F[k].rec].len
    /\ F[k].type \notin Starts => \E j \in DOMAIN F : j + 1 = k /\ Continues(F[j], F[k])
Layout(F, a) == InOrder(F) /\ \A k \in DOMAIN F : Part(F, k, a)

\* Cell c, at offset y - 1, belongs to a piece or says nothing.
Covered(F, y, c) ==
    \/ c \in {ZeroCell, BadCell}
    \/ \E k \in DOMAIN F : /\ F[k].start < y /\ y <= End(F[k])
                           /\ c = CellOf(F[k], y - F[k].start)
MadeOf(f, F) == \A y \in 1 .. Len(f) : Covered(F, y, f[y])

\* The record being added has no piece yet, or its last piece is the last of all.
Writer(F) ==
    phase = "write" =>
        /\ \A k \in DOMAIN F : End(F[k]) <= Len(file)
        /\ begin => /\ left = added[Len(added)].len
                    /\ \A k \in DOMAIN F : F[k].rec # Len(added)
        /\ left > 0 /\ ~begin =>
              \E k \in DOMAIN F :
                 /\ k = Len(F) /\ Whole(F[k]) /\ F[k].type \notin Ends /\ F[k].rec = Len(added)
                 /\ F[k].from + F[k].len + left = added[Len(added)].len

\* What is being gathered is all of a record up to the end of piece k, and the
\* reader is no further behind that piece than a trailer is long.
Gathered(F, k) ==
    /\ F[k].type \notin Ends /\ Whole(F[k])
    /\ scratch = Payload(F[k].rec, 0, F[k].from + F[k].len)
    /\ prospective = added[F[k].rec].offset
    /\ End(F[k]) <= Offset /\ Offset < End(F[k]) + HeaderSize
    /\ size < HeaderSize /\ eof_ = FALSE => Offset = End(F[k])

Reader(F) ==
    /\ \A i \in DOMAIN records : records[i].offset < Offset
    /\ phase = "read" /\ in_fragmented_record = TRUE =>
          /\ resyncing_ = FALSE /\ prospective < Offset
          /\ \A i \in DOMAIN records : records[i].offset < prospective
          /\ \E k \in DOMAIN F : Gathered(F, k)

Explains(F) ==
    Layout(F, added) /\ MadeOf(file, F) /\ Writer(F) /\ Reader(F) /\ Genuine

\* A piece more.
LEMMA OneMore ==
    ASSUME NEW S, NEW F \in Seq(S), NEW g \in S, NEW G, G = Append(F, g),
           NEW n \in Nat, n = Len(F)
    PROVE  /\ G \in Seq(S) /\ Len(G) = n + 1 /\ n + 1 \in DOMAIN G /\ G[n + 1] = g
           /\ \A k \in DOMAIN G : k \in DOMAIN F \/ k = n + 1
           /\ \A k \in DOMAIN F : k \in DOMAIN G /\ k \in 1 .. n /\ G[k] = F[k]
OBVIOUS

\* Piece g may come behind the pieces F of the records a, which become b.
GoesOn(F, a, g, b) ==
    /\ DOMAIN b = DOMAIN a /\ g.rec \in DOMAIN b /\ g.kept <= HeaderSize + g.len
    /\ \A k \in DOMAIN F : End(F[k]) <= g.start
    /\ \A k \in DOMAIN F : /\ b[F[k].rec].len = a[F[k].rec].len
                           /\ b[F[k].rec].offset = a[F[k].rec].offset
    /\ g.type \in Starts => g.from = 0 /\ b[g.rec].offset = g.start
    /\ g.type \in Ends => g.from + g.len = b[g.rec].len
    /\ g.type \notin Starts => \E j \in DOMAIN F : j = Len(F) /\ Continues(F[j], g)

\* Behind the pieces F, a piece of the last of the records a.
LEMMA LayoutGrows ==
    ASSUME NEW F \in Seq(Piece), NEW g \in Piece, NEW G, G = Append(F, g),
           NEW a, NEW b, Layout(F, a), GoesOn(F, a, g, b)
    PROVE  Layout(G, b)
<1>1. PICK n \in Nat : n = Len(F)
  OBVIOUS
<1>2. /\ G \in Seq(Piece) /\ n + 1 \in DOMAIN G /\ G[n + 1] = g
      /\ \A k \in DOMAIN G : k \in DOMAIN F \/ k = n + 1
      /\ \A k \in DOMAIN F : k \in DOMAIN G /\ k \in 1 .. n /\ G[k] = F[k]
  BY <1>1, OneMore
<1>3. InOrder(G)
  <2>1. SUFFICES ASSUME NEW i \in DOMAIN G, NEW j \in DOMAIN G, i < j PROVE End(G[i]) <= G[j].start
    BY DEF InOrder
  <2>2. CASE j \in DOMAIN F
    <3>1. i \in DOMAIN F
      <4>1. j \in 1 .. n /\ i < j
        BY <1>2, <2>1, <2>2
      <4>2. i # n + 1
        BY <4>1
      <4> QED
        BY <1>2, <4>2
    <3> QED
      BY <1>2, <2>1, <2>2, <3>1 DEF Layout, InOrder
  <2>3. CASE j = n + 1
    <3>1. i \in DOMAIN F
      <4>1. i # n + 1
        BY <2>1, <2>3
      <4> QED
        BY <1>2, <4>1
    <3> QED
      BY <1>2, <2>3, <3>1 DEF GoesOn
  <2> QED
    BY <1>2, <2>2, <2>3
<1>4. ASSUME NEW k \in DOMAIN G PROVE Part(G, k, b)
  <2>1. CASE k \in DOMAIN F
    <3>1. Part(F, k, a) /\ G[k] = F[k]
      BY <1>2, <2>1 DEF Layout
    <3>2. F[k].type \notin Starts => \E j \in DOMAIN G : j + 1 = k /\ Continues(G[j], G[k])
      BY <1>2, <2>1, <3>1, Zenon DEF Part
    <3> QED
      BY <2>1, <3>1, <3>2, Zenon DEF Part, GoesOn
  <2>2. CASE k = n + 1
    <3>1. g.type \notin Starts => \E j \in DOMAIN G : j + 1 = k /\ Continues(G[j], G[k])
      BY <1>1, <1>2, <2>2, Zenon DEF GoesOn
    <3> QED
      BY <1>2, <2>2, <3>1, Zenon DEF Part, GoesOn
  <2> QED
    BY <1>2, <2>1, <2>2
<1> QED
  BY <1>3, <1>4 DEF Layout

\* The file grows by zeros and a piece.
LEMMA CellsGrow ==
    ASSUME NEW F \in Seq(Piece), NEW g \in Piece, NEW G, G = Append(F, g),
           file \in Seq(Cell), Len(file) <= g.start, MadeOf(file, F), NEW f, Grown(f, g)
    PROVE  MadeOf(f, G)
<1>1. PICK n \in Nat, l \in Nat : n = Len(F) /\ l = Len(file)
  OBVIOUS
<1>2. /\ n + 1 \in DOMAIN G /\ G[n + 1] = g
      /\ \A k \in DOMAIN F : k \in DOMAIN G /\ G[k] = F[k]
  BY <1>1, OneMore
<1>3. /\ f \in Seq(Cell) /\ Len(f) = End(g) /\ \A y \in 1 .. l : f[y] = file[y]
      /\ \A y \in l + 1 .. g.start : f[y] = ZeroCell
      /\ \A i \in 1 .. g.kept : f[g.start + i] = CellOf(g, i)
  BY <1>1 DEF Grown
<1>4. g.start \in Nat /\ g.kept \in Nat
  BY DEF Piece
<1>5. SUFFICES ASSUME NEW y \in 1 .. Len(f) PROVE Covered(G, y, f[y])
  BY DEF MadeOf
<1>6. CASE y <= l
  <2>1. y \in 1 .. l /\ y \in 1 .. Len(file)
    BY <1>1, <1>3, <1>6
  <2>2. Covered(F, y, f[y])
    BY <1>3, <2>1 DEF MadeOf
  <2> QED
    BY <1>2, <2>2, Zenon DEF Covered
<1>7. CASE l < y /\ y <= g.start
  <2>1. y \in l + 1 .. g.start
    BY <1>4, <1>7
  <2> QED
    BY <1>3, <2>1 DEF Covered
<1>8. CASE g.start < y
  <2>1. PICK i \in 1 .. g.kept : y = g.start + i /\ i = y - g.start /\ y <= End(g)
    <3>1. y - g.start \in 1 .. g.kept /\ y = g.start + (y - g.start) /\ y <= End(g)
      BY <1>3, <1>4, <1>8 DEF End
    <3> QED
      BY <3>1
  <2>2. f[y] = CellOf(g, y - g.start)
    BY <1>3, <2>1
  <2> QED
    BY <1>2, <1>8, <2>1, <2>2, Zenon DEF Covered
<1> QED
  BY <1>1, <1>3, <1>4, <1>6, <1>7, <1>8


\* A round of AddRecord's loop adds a piece.
LEMMA EmitExplained ==
    ASSUME TypeInv, NEW F \in Seq(Piece), Explains(F), NEW ok \in BOOLEAN, Emit(ok),
           NEW g \in Piece, NEW z \in Nat, Cut(g, z), Grown(file', g), Counted(g, z, ok)
    PROVE  Explains(Append(F, g))'
<1>1. /\ phase = "write" /\ Adding /\ left \in Nat /\ begin \in BOOLEAN /\ file \in Seq(Cell)
      /\ added \in Seq(Added) /\ HeaderSize \in Nat
      /\ UNCHANGED <<phase, readerVars>>
  BY SizeAssumption, LogBoundsAssumption DEF Emit, TypeInv, TypeOK, Shape
<1>2. Cut(g, z) /\ Grown(file', g) /\ Counted(g, z, ok)
  OBVIOUS
<1>3. /\ g.rec \in DOMAIN added /\ DOMAIN added' = DOMAIN added /\ Len(added') = Len(added)
      /\ \A r \in DOMAIN added : /\ added'[r].len = added[r].len
                                 /\ r # g.rec => added'[r] = added[r]
      /\ added'[g.rec].offset = IF begin THEN g.start ELSE added[g.rec].offset
  BY <1>1, <1>2, Bookkeeping
<1>4. /\ g.rec = Len(added) /\ g.from + left = added[g.rec].len /\ g.len <= left
      /\ g.type \in Starts <=> begin
      /\ g.type \in Ends <=> g.len = left
      /\ g.kept <= HeaderSize + g.len
      /\ g.start = Len(file) + z
  BY <1>2 DEF Cut
<1>5. /\ g.start \in Nat /\ g.kept \in Nat /\ g.len \in Nat /\ g.from \in Nat /\ g.rec \in Nat
  BY DEF Piece
<1>6. /\ \A k \in DOMAIN F : End(F[k]) <= Len(file)
      /\ begin => /\ left = added[g.rec].len
                  /\ \A k \in DOMAIN F : F[k].rec # g.rec
      /\ left > 0 /\ ~begin =>
            \E k \in DOMAIN F :
               /\ k = Len(F) /\ Whole(F[k]) /\ F[k].type \notin Ends /\ F[k].rec = g.rec
               /\ F[k].from + F[k].len + left = added[g.rec].len
  BY <1>1, <1>4, Zenon DEF Explains, Writer
<1>7. added[g.rec].len \in Nat
  <2>1. added[g.rec] \in Added
    BY <1>1, <1>3
  <2> QED
    BY <2>1, LogBoundsAssumption DEF Added
<1>8. PICK G : G = Append(F, g)
  OBVIOUS
<1>9. PICK n \in Nat : n = Len(F)
  OBVIOUS
<1>10. /\ G \in Seq(Piece) /\ Len(G) = n + 1 /\ n + 1 \in DOMAIN G /\ G[n + 1] = g
       /\ \A k \in DOMAIN G : k \in DOMAIN F \/ k = n + 1
       /\ \A k \in DOMAIN F : k \in DOMAIN G /\ G[k] = F[k]
  BY <1>8, <1>9, OneMore
<1>11. \A k \in DOMAIN F : End(F[k]) \in Nat /\ F[k].from \in Nat /\ F[k].len \in Nat
  <2>1. ASSUME NEW k \in DOMAIN F PROVE End(F[k]) \in Nat /\ F[k].from \in Nat /\ F[k].len \in Nat
    <3>1. F[k] \in Piece
      OBVIOUS
    <3> QED
      BY <3>1, PieceFields
  <2> QED
    BY <2>1
<1>12. \A k \in DOMAIN F : End(F[k]) <= g.start
  BY <1>1, <1>4, <1>5, <1>6, <1>11
<1>13. Layout(G, added')
  <2>1. PICK a, b : a = added /\ b = added'
    OBVIOUS
  <2>2. Layout(F, a) /\ DOMAIN b = DOMAIN a /\ g.rec \in DOMAIN b /\ b[g.rec].len = a[g.rec].len
    BY <1>3, <2>1 DEF Explains
  <2>3. ASSUME NEW k \in DOMAIN F
        PROVE  b[F[k].rec].len = a[F[k].rec].len /\ b[F[k].rec].offset = a[F[k].rec].offset
    <3>1. F[k].rec \in DOMAIN a
      BY <2>2 DEF Layout, Part
    <3>2. CASE F[k].rec = g.rec
      <4>1. ~begin
        BY <1>6, <3>2
      <4> QED
        BY <1>3, <2>1, <3>2, <4>1
    <3>3. CASE F[k].rec # g.rec
      BY <1>3, <2>1, <3>1, <3>3
    <3> QED
      BY <3>2, <3>3
  <2>4. g.type \in Starts => g.from = 0 /\ b[g.rec].offset = g.start
    <3>1. ASSUME begin PROVE g.from = 0 /\ b[g.rec].offset = g.start
      <4>1. left = added[g.rec].len
        BY <1>6, <3>1
      <4>2. g.from = 0
        BY <1>1, <1>4, <1>5, <4>1
      <4> QED
        BY <1>3, <2>1, <3>1, <4>2
    <3> QED
      BY <1>4, <3>1
  <2>5. g.type \in Ends => g.from + g.len = b[g.rec].len
    BY <1>1, <1>4, <1>5, <2>1, <2>2
  <2>6. g.type \notin Starts => \E j \in DOMAIN F : j = Len(F) /\ Continues(F[j], g)
    <3>1. SUFFICES ASSUME ~begin PROVE \E j \in DOMAIN F : j = Len(F) /\ Continues(F[j], g)
      BY <1>4
    <3>2. PICK k \in DOMAIN F :
             /\ k = Len(F) /\ Whole(F[k]) /\ F[k].type \notin Ends /\ F[k].rec = g.rec
             /\ F[k].from + F[k].len + left = added[g.rec].len
      BY <1>1, <1>6, <3>1 DEF Adding
    <3>3. F[k].from + F[k].len = g.from
      <4>1. PICK x \in Nat, y \in Nat, l \in Nat : x = F[k].from /\ y = F[k].len /\ l = left
        BY <1>1, <1>11
      <4>2. x + y + l = g.from + l
        BY <1>4, <3>2, <4>1
      <4>3. x + y = g.from
        BY <1>5, <4>2
      <4> QED
        BY <4>1, <4>3
    <3> QED
      BY <3>2, <3>3 DEF Continues
  <2>7. GoesOn(F, a, g, b)
    BY <1>4, <1>12, <2>2, <2>3, <2>4, <2>5, <2>6, Zenon DEF GoesOn
  <2>8. Layout(G, b)
    BY <1>8, <2>2, <2>7, LayoutGrows
  <2> QED
    BY <2>1, <2>8
<1>14. MadeOf(file', G)
  <2>1. PICK f : f = file'
    OBVIOUS
  <2>2. Len(file) <= g.start /\ MadeOf(file, F) /\ Grown(f, g)
    BY <1>1, <1>2, <1>4, <2>1 DEF Explains
  <2>3. MadeOf(f, G)
    BY <1>1, <1>8, <2>2, CellsGrow
  <2> QED
    BY <2>1, <2>3
<1>15. Writer(G)'
  <2>1. begin' = FALSE /\ Len(file') = End(g)
    BY <1>2 DEF Counted, Grown
  <2>2. ASSUME NEW k \in DOMAIN G PROVE End(G[k]) <= Len(file')
    <3>1. CASE k \in DOMAIN F
      BY <1>5, <1>10, <1>11, <1>12, <2>1, <3>1 DEF End
    <3>2. CASE k = n + 1
      BY <1>5, <1>10, <2>1, <3>2 DEF End
    <3> QED
      BY <1>10, <3>1, <3>2
  <2>3. ASSUME left' > 0
        PROVE  \E k \in DOMAIN G :
                 /\ k = Len(G) /\ Whole(G[k]) /\ G[k].type \notin Ends /\ G[k].rec = Len(added')
                 /\ G[k].from + G[k].len + left' = added'[Len(added')].len
    <3>1. Whole(g) /\ left' = left - g.len
      BY <1>2, <2>3 DEF Counted
    <3>2. g.type \notin Ends
      BY <1>1, <1>4, <1>5, <2>3, <3>1
    <3>3. g.from + g.len + left' = added'[Len(added')].len /\ g.rec = Len(added')
      <4>1. PICK x \in Nat, y \in Nat, l \in Nat : x = g.from /\ y = g.len /\ l = left
        BY <1>1, <1>5
      <4>2. g.rec = Len(added') /\ added'[g.rec].len = added[g.rec].len
        BY <1>3, <1>4
      <4>3. x + l = added[g.rec].len /\ left' = l - y
        BY <1>4, <3>1, <4>1
      <4>4. x + y + (l - y) = x + l
        OBVIOUS
      <4> QED
        BY <4>1, <4>2, <4>3, <4>4
    <3> QED
      BY <1>10, <3>1, <3>2, <3>3
  <2> QED
    BY <2>1, <2>2, <2>3 DEF Writer
<1>16. records' = <<>> /\ phase' = "write"
  BY <1>1 DEF TypeInv, Fresh, readerVars
<1>17. Reader(G)' /\ Genuine'
  BY <1>16 DEF Reader, Genuine
<1>18. Explains(G)'
  BY <1>13, <1>14, <1>15, <1>17 DEF Explains
<1> QED
  BY <1>8, <1>18


\* A cell of a fragment tells which cell it is, and of which fragment.
LEMMA CellTells ==
    ASSUME NEW f \in Piece, NEW g \in Piece, NEW i \in Nat, NEW j \in Nat, i > 0, j > 0,
           CellOf(f, i) = CellOf(g, j)
    PROVE  /\ i <= HeaderSize <=> j <= HeaderSize
           /\ j <= HeaderSize => /\ i = j /\ f.type = g.type /\ f.len = g.len
                                 /\ f.rec = g.rec /\ f.from = g.from
<1>1. HeaderSize \in Nat
  BY SizeAssumption
<1>2. CASE i <= HeaderSize /\ j <= HeaderSize
  <2>1. HeaderCell(i, f.type, f.len, f.rec, f.from) = HeaderCell(j, g.type, g.len, g.rec, g.from)
    BY <1>2, Zenon DEF CellOf
  <2> QED
    BY <1>2, <2>1 DEF HeaderCell
<1>3. CASE i <= HeaderSize /\ ~(j <= HeaderSize)
  <2>1. HeaderCell(i, f.type, f.len, f.rec, f.from) = DataCell(g.rec, g.from + (j - HeaderSize))
    BY <1>3, Zenon DEF CellOf
  <2> QED
    BY <2>1 DEF HeaderCell, DataCell
<1>4. CASE ~(i <= HeaderSize) /\ j <= HeaderSize
  <2>1. DataCell(f.rec, f.from + (i - HeaderSize)) = HeaderCell(j, g.type, g.len, g.rec, g.from)
    BY <1>4, Zenon DEF CellOf
  <2> QED
    BY <2>1 DEF HeaderCell, DataCell
<1> QED
  BY <1>2, <1>3, <1>4

\* A cell of a fragment is neither zero nor bad.
LEMMA CellSays ==
    ASSUME NEW g, NEW i
    PROVE  CellOf(g, i) \notin {ZeroCell, BadCell}
BY DEF CellOf, HeaderCell, DataCell, ZeroCell, BadCell

\* Piece k is fragment g, whole.
Is(F, k, g) ==
    /\ F[k].start = g.start /\ F[k].type = g.type /\ F[k].len = g.len
    /\ F[k].rec = g.rec /\ F[k].from = g.from /\ F[k].kept = g.kept

\* A fragment that reads whole was written whole.
LEMMA FragmentIsPiece ==
    ASSUME NEW F \in Seq(Piece), NEW a, Layout(F, a), NEW f \in Seq(Cell), MadeOf(f, F),
           NEW g \in Piece, Whole(g), End(g) <= Len(f),
           Stands(f, g)
    PROVE  \E k \in DOMAIN F : Is(F, k, g)
<1>1. HeaderSize \in Nat /\ HeaderSize > 0
  BY SizeAssumption
<1>2. /\ g.start \in Nat /\ g.kept \in Nat /\ g.len \in Nat /\ End(g) = g.start + g.kept
      /\ g.kept = HeaderSize + g.len
  BY PieceFields DEF Whole
<1>3. ASSUME NEW i \in 1 .. g.kept, NEW y, y = g.start + i
      PROVE  \E k \in DOMAIN F : /\ F[k].start < y /\ y <= End(F[k])
                                 /\ CellOf(g, i) = CellOf(F[k], y - F[k].start)
  <2>1. y \in 1 .. Len(f)
    BY <1>2, <1>3
  <2>2. f[y] = CellOf(g, i)
    BY <1>3 DEF Stands
  <2>3. Covered(F, y, CellOf(g, i))
    BY <2>1, <2>2 DEF MadeOf
  <2>4. CellOf(g, i) \notin {ZeroCell, BadCell}
    BY CellSays
  <2> QED
    BY <2>3, <2>4, Zenon DEF Covered
<1>4. PICK i1 \in 1 .. g.kept, y1 \in Nat : i1 = 1 /\ y1 = g.start + i1
  <2>1. 1 \in 1 .. g.kept /\ g.start + 1 \in Nat
    BY <1>1, <1>2
  <2> QED
    BY <2>1
<1>5. PICK k \in DOMAIN F : /\ F[k].start < y1 /\ y1 <= End(F[k])
                            /\ CellOf(g, i1) = CellOf(F[k], y1 - F[k].start)
  BY <1>3, <1>4
<1>6. PICK p \in Piece : p = F[k]
  OBVIOUS
<1>7. /\ p.start \in Nat /\ p.kept \in Nat /\ p.len \in Nat /\ End(p) = p.start + p.kept
  BY PieceFields
<1>8. PICK j \in Nat : j = y1 - p.start /\ j > 0
  <2>1. y1 - p.start \in Nat /\ y1 - p.start > 0
    BY <1>4, <1>5, <1>6, <1>7
  <2> QED
    BY <2>1
<1>9. j = i1 /\ p.type = g.type /\ p.len = g.len /\ p.rec = g.rec /\ p.from = g.from
  <2>1. CellOf(p, j) = CellOf(g, i1) /\ i1 <= HeaderSize /\ i1 \in Nat /\ i1 > 0
    BY <1>1, <1>4, <1>5, <1>6, <1>8
  <2> QED
    BY <1>8, <2>1, CellTells
<1>10. p.start = g.start /\ p.kept > 0
  <2>1. p.start = g.start
    <3>1. y1 - p.start = 1 /\ y1 = g.start + 1
      BY <1>4, <1>8, <1>9
    <3> QED
      BY <1>2, <1>4, <1>7, <3>1
  <2>2. g.start + 1 <= p.start + p.kept
    BY <1>4, <1>5, <1>6, <1>7
  <2> QED
    BY <1>2, <1>7, <2>1, <2>2
<1>11. p.kept <= g.kept
  <2>1. p.kept <= HeaderSize + p.len
    BY <1>6 DEF Layout, Part
  <2>2. g.kept = HeaderSize + p.len
    BY <1>2, <1>9
  <2> QED
    BY <2>1, <2>2
<1>12. ASSUME p.kept < g.kept PROVE FALSE
  <2>1. PICK i \in 1 .. g.kept, y \in Nat : i = p.kept + 1 /\ y = g.start + i /\ y = End(p) + 1
    <3>1. p.kept + 1 \in 1 .. g.kept /\ g.start + (p.kept + 1) \in Nat
      <4>1. PICK x \in Nat, y \in Nat, z \in Nat : x = p.kept /\ y = g.kept /\ z = g.start /\ x < y
        BY <1>2, <1>7, <1>12
      <4>2. x + 1 \in 1 .. y
        <5>1. x < y
          BY <4>1
        <5> QED
          BY <5>1
      <4>3. z + (x + 1) \in Nat
        OBVIOUS
      <4> QED
        BY <4>1, <4>2, <4>3
    <3>2. g.start + (p.kept + 1) = (p.start + p.kept) + 1
      BY <1>2, <1>7, <1>10
    <3> QED
      BY <1>7, <3>1, <3>2
  <2>2. PICK m \in DOMAIN F : /\ F[m].start < y /\ y <= End(F[m])
                              /\ CellOf(g, i) = CellOf(F[m], y - F[m].start)
    BY <1>3, <2>1
  <2>3. PICK q \in Piece : q = F[m]
    OBVIOUS
  <2>4. q.start \in Nat /\ q.kept \in Nat /\ End(q) = q.start + q.kept
    BY PieceFields
  <2>5. y = End(p) + 1
    BY <2>1
  <2>6. q.start = End(p)
    <3>1. m \in Nat /\ k \in Nat
      OBVIOUS
    <3>2. m # k
      BY <1>2, <1>6, <1>7, <2>2, <2>3, <2>5
    <3>3. ~(m < k)
      <4>1. m < k => End(q) <= p.start
        BY <1>6, <2>3 DEF Layout, InOrder
      <4>2. y <= End(q)
        BY <2>2, <2>3
      <4>3. PICK ps \in Nat, pe \in Nat, qe \in Nat, pk \in Nat :
               ps = p.start /\ pe = End(p) /\ qe = End(q) /\ pk = p.kept /\ pe = ps + pk
        BY PieceFields
      <4>4. pe + 1 <= qe /\ (m < k => qe <= ps)
        BY <2>5, <4>1, <4>2, <4>3
      <4> QED
        BY <4>3, <4>4
    <3>4. k < m => End(p) <= q.start
      BY <1>6, <2>3 DEF Layout, InOrder
    <3>5. End(p) <= q.start
      BY <3>1, <3>2, <3>3, <3>4
    <3>6. q.start < End(p) + 1
      BY <2>2, <2>3, <2>5
    <3>7. End(p) \in Nat
      BY PieceFields
    <3> QED
      BY <2>4, <3>5, <3>6, <3>7
  <2>7. y - q.start = 1
    BY <2>4, <2>5, <2>6
  <2>8. PICK i2 \in Nat : i2 = 1 /\ CellOf(q, i2) = CellOf(g, i) /\ i2 <= HeaderSize /\ i2 > 0
    BY <1>1, <2>2, <2>3, <2>7
  <2>9. i \in Nat /\ i > 0 /\ i # i2
    BY <1>7, <1>10, <2>1, <2>8
  <2> QED
    BY <2>8, <2>9, CellTells
<1>13. p.kept = g.kept
  BY <1>2, <1>7, <1>11, <1>12
<1> QED
  BY <1>6, <1>9, <1>10, <1>13 DEF Is


\* The fragment behind what was gathered goes on from there.
LEMMA NextPiece ==
    ASSUME NEW F \in Seq(Piece), NEW a, Layout(F, a), NEW i \in DOMAIN F, NEW k \in DOMAIN F,
           Whole(F[k]), F[k].type \notin Starts,
           End(F[i]) <= F[k].start, F[k].start < End(F[i]) + HeaderSize
    PROVE  Continues(F[i], F[k])
<1>1. PICK j \in DOMAIN F : j + 1 = k /\ Continues(F[j], F[k])
  BY DEF Layout, Part
<1>2. PICK p \in Piece, q \in Piece, s \in Piece : p = F[i] /\ q = F[k] /\ s = F[j]
  OBVIOUS
<1>3. /\ p.start \in Nat /\ p.kept \in Nat /\ End(p) \in Nat /\ End(p) = p.start + p.kept
      /\ q.start \in Nat /\ q.kept \in Nat /\ End(q) \in Nat /\ End(q) = q.start + q.kept
      /\ s.start \in Nat /\ s.kept \in Nat /\ End(s) \in Nat /\ End(s) = s.start + s.kept
      /\ q.len \in Nat /\ s.len \in Nat
  BY PieceFields
<1>4. HeaderSize \in Nat /\ HeaderSize > 0
  BY SizeAssumption
<1>5. q.kept > 0 /\ s.kept >= HeaderSize
  <2>1. q.kept = HeaderSize + q.len /\ s.kept = HeaderSize + s.len
    BY <1>1, <1>2 DEF Whole, Continues
  <2>2. PICK m \in Nat, n \in Nat : m = q.len /\ n = s.len
    BY <1>3
  <2>3. HeaderSize + m > 0 /\ HeaderSize + n >= HeaderSize
    BY <1>4
  <2> QED
    BY <2>1, <2>2, <2>3
<1>6. i \in Nat /\ j \in Nat /\ k \in Nat
  OBVIOUS
<1>7. End(p) <= q.start /\ q.start < End(p) + HeaderSize
  BY <1>2
<1>8. (i < j => End(p) <= s.start) /\ (k < i => End(q) <= p.start) /\ End(s) <= q.start
  BY <1>1, <1>2, <1>6 DEF Layout, InOrder
<1>9. ~(i < j)
  <2>1. PICK x \in Nat, y \in Nat, z \in Nat, m \in Nat :
           x = End(p) /\ y = q.start /\ z = s.start /\ m = s.kept /\ End(s) = z + m
    BY <1>3
  <2>2. y < x + HeaderSize /\ m >= HeaderSize /\ z + m <= y
    BY <1>5, <1>7, <1>8, <2>1
  <2>3. ~(x <= z)
    BY <1>4, <2>2
  <2> QED
    BY <1>8, <2>1, <2>3
<1>10. ~(k < i)
  <2>1. PICK x \in Nat, y \in Nat, m \in Nat, n \in Nat :
           /\ x = p.start /\ y = q.start /\ m = p.kept /\ n = q.kept
           /\ End(p) = x + m /\ End(q) = y + n
    BY <1>3
  <2>2. x + m <= y /\ n > 0
    BY <1>5, <1>7, <2>1
  <2>3. ~(y + n <= x)
    BY <2>2
  <2> QED
    BY <1>8, <2>1, <2>3
<1>11. i # k
  BY <1>2, <1>3, <1>5, <1>7
<1>12. i = j
  BY <1>1, <1>6, <1>9, <1>10, <1>11
<1> QED
  BY <1>1, <1>12

\* A sequence of the cells of a payload is that payload.
LEMMA PayloadIs ==
    ASSUME NEW r \in Nat, NEW from \in Nat, NEW n \in Nat, NEW t \in Seq(Cell), Len(t) = n,
           \A q \in 1 .. n : t[q] = DataCell(r, from + q)
    PROVE  t = Payload(r, from, n)
<1>1. t = [q \in 1 .. Len(t) |-> t[q]]
  OBVIOUS
<1>2. t = [q \in 1 .. n |-> DataCell(r, from + q)]
  BY <1>1
<1> QED
  BY <1>2 DEF Payload

\* Two parts of a record, one behind the other.
LEMMA PayloadJoins ==
    ASSUME NEW r \in Nat, NEW m \in Nat, NEW n \in Nat
    PROVE  Payload(r, 0, m) \o Payload(r, m, n) = Payload(r, 0, m + n)
<1>1. PICK a, b, s : a = Payload(r, 0, m) /\ b = Payload(r, m, n) /\ s = a \o b
  OBVIOUS
<1>2. PICK type \in RecordType, o \in Nat : type = "full" /\ o = 0
  BY DEF RecordType
<1>3. a \in Seq(Cell) /\ Len(a) = m /\ \A q \in 1 .. m : a[q] = DataCell(r, 0 + q)
  <2>1. /\ Payload(r, o, m) \in Seq(Cell) /\ Len(Payload(r, o, m)) = m
        /\ \A q \in 1 .. m : Payload(r, o, m)[q] = DataCell(r, o + q)
    BY CellTypes
  <2> QED
    BY <1>1, <1>2, <2>1, Zenon
<1>4. b \in Seq(Cell) /\ Len(b) = n /\ \A q \in 1 .. n : b[q] = DataCell(r, m + q)
  <2>1. /\ Payload(r, m, n) \in Seq(Cell) /\ Len(Payload(r, m, n)) = n
        /\ \A q \in 1 .. n : Payload(r, m, n)[q] = DataCell(r, m + q)
    BY CellTypes
  <2> QED
    BY <1>1, <2>1, Zenon
<1>5. /\ s \in Seq(Cell) /\ Len(s) = m + n
      /\ \A y \in 1 .. m : s[y] = a[y]
      /\ \A y \in m + 1 .. m + n : s[y] = b[y - m]
  <2>1. a \in Seq(Cell) /\ m = Len(a) /\ b \in Seq(Cell) /\ n = Len(b) /\ s = a \o b
    BY <1>1, <1>3, <1>4
  <2> QED
    BY <2>1, TwoInARow
<1>6. ASSUME NEW y \in 1 .. m + n PROVE s[y] = DataCell(r, 0 + y)
  <2>1. CASE y <= m
    <3>1. y \in 1 .. m
      BY <2>1
    <3> QED
      BY <1>3, <1>5, <3>1
  <2>2. CASE ~(y <= m)
    <3>1. y \in m + 1 .. m + n /\ y - m \in 1 .. n /\ m + (y - m) = 0 + y
      BY <2>2
    <3>2. s[y] = b[y - m] /\ b[y - m] = DataCell(r, m + (y - m))
      BY <1>4, <1>5, <3>1
    <3> QED
      BY <3>1, <3>2
  <2> QED
    BY <2>1, <2>2
<1>7. PICK l \in Nat : l = m + n /\ Len(s) = l /\ \A y \in 1 .. l : s[y] = DataCell(r, o + y)
  BY <1>2, <1>5, <1>6
<1>8. s = Payload(r, o, l)
  BY <1>5, <1>7, PayloadIs
<1> QED
  BY <1>1, <1>2, <1>7, <1>8


\* Where the reader stands after a fetch.
LEMMA FetchOffset ==
    ASSUME TypeInv, NEW o \in ReadPhysicalRecord(Buffer, eof_), Fetch(o)
    PROVE  /\ Offset \in Nat /\ Offset' \in Nat /\ Offset <= Offset'
           /\ Offset' + Remaining(o) = end_of_buffer_offset_
           /\ size' = Remaining(o) /\ end_of_buffer_offset_' = end_of_buffer_offset_
<1>1. size' \in Nat /\ size' <= size
  BY FetchMoves
<1>2. Offset \in Nat /\ Offset + size = end_of_buffer_offset_ /\ size \in Nat
  BY SizeAssumption, BufferCells DEF TypeInv, TypeOK
<1>3. size' = Remaining(o) /\ end_of_buffer_offset_' = end_of_buffer_offset_
  BY DEF Fetch
<1>4. Offset' = end_of_buffer_offset_ - size'
  BY <1>3 DEF Offset
<1> QED
  BY <1>1, <1>2, <1>3, <1>4

\* The fragment fetched or skipped is a piece.
LEMMA FetchedPiece ==
    ASSUME TypeInv, NEW F \in Seq(Piece), Explains(F),
           NEW o \in ReadPhysicalRecord(Buffer, eof_), Fetch(o), o.type \in RecordType \cup {"skipped"}
    PROVE  \E k \in DOMAIN F :
             /\ F[k].start = Offset /\ Whole(F[k])
             /\ o.type \in RecordType =>
                   o.type = F[k].type /\ o.data = Payload(F[k].rec, F[k].from, F[k].len)
             /\ Offset' = End(F[k]) /\ Offset < Offset' /\ Offset' <= end_of_buffer_offset_
<1>1. PICK g \in Piece : Found(g, o)
  BY PhysicalRecord
<1>2. /\ g.start = Offset /\ Whole(g) /\ End(g) <= end_of_buffer_offset_
      /\ Stands(file, g) /\ End(g) + Remaining(o) = end_of_buffer_offset_ /\ Remaining(o) \in Nat
      /\ o.type \in RecordType => o.type = g.type /\ o.data = Payload(g.rec, g.from, g.len)
  BY <1>1 DEF Found, RecordType
<1>3. /\ g.start \in Nat /\ g.kept \in Nat /\ g.len \in Nat /\ End(g) \in Nat
      /\ End(g) = g.start + g.kept /\ g.kept = HeaderSize + g.len
      /\ HeaderSize \in Nat /\ HeaderSize > 0
  BY <1>2, PieceFields, SizeAssumption DEF Whole
<1>4. /\ Offset \in Nat /\ Offset' \in Nat /\ Offset' + Remaining(o) = end_of_buffer_offset_
  BY FetchOffset
<1>5. Offset' = End(g) /\ Offset < Offset'
  BY <1>2, <1>3, <1>4
<1>6. End(g) <= Len(file) /\ file \in Seq(Cell)
  <2>1. /\ size > 0 => end_of_buffer_offset_ <= Len(file)
        /\ file \in Seq(Cell) /\ size \in Nat /\ end_of_buffer_offset_ \in Nat
    BY SizeAssumption DEF TypeInv, TypeOK, Shape
  <2>2. Offset + size = end_of_buffer_offset_
    BY BufferCells
  <2>3. size > 0
    <3>1. PICK x \in Nat, m \in Nat, n \in Nat, y \in Nat :
             x = Offset /\ m = g.kept /\ n = size /\ y = end_of_buffer_offset_ /\ End(g) = x + m
      BY <1>2, <1>3, <2>1
    <3>2. x + m <= y /\ x + n = y
      BY <1>2, <2>2, <3>1
    <3>3. m > 0
      BY <1>3, <3>1
    <3>4. n > 0
      BY <3>2, <3>3
    <3> QED
      BY <3>1, <3>4
  <2>4. Len(file) \in Nat
    BY <2>1
  <2> QED
    BY <1>2, <1>3, <2>1, <2>3, <2>4
<1>7. PICK k \in DOMAIN F : Is(F, k, g)
  <2>1. PICK a : a = added
    OBVIOUS
  <2>2. PICK f \in Seq(Cell) : f = file
    BY <1>6
  <2>3. Layout(F, a) /\ MadeOf(f, F) /\ Whole(g) /\ End(g) <= Len(f) /\ Stands(f, g)
    BY <1>2, <1>6, <2>1, <2>2 DEF Explains
  <2> QED
    BY <2>3, FragmentIsPiece
<1>8. End(F[k]) = End(g) /\ Whole(F[k])
  BY <1>2, <1>7 DEF Is, End, Whole
<1> QED
  BY <1>2, <1>5, <1>7, <1>8 DEF Is

\* A record returned behind the others.
LEMMA ReturnGenuine ==
    ASSUME TypeInv, Genuine, NEW x \in Nat, NEW d, Return(x, d), added' = added,
           NEW r \in DOMAIN added, x = added[r].offset, d = Payload(r, 0, added[r].len),
           \A i \in DOMAIN records : records[i].offset < x,
           NEW y \in Nat, x < y
    PROVE  Genuine' /\ \A i \in DOMAIN records' : records'[i].offset < y
<1>1. PICK rec : rec = [offset |-> x, data |-> d]
  OBVIOUS
<1>2. rec.offset = x /\ rec.data = d
  BY <1>1
<1>3. records \in Seq(Returned)
  BY DEF TypeInv, Shape
<1>4. PICK n \in Nat : n = Len(records)
  BY <1>3
<1>5. ASSUME NEW i \in DOMAIN records PROVE records[i].offset \in Nat
  <2>1. records[i] \in Returned
    BY <1>3
  <2> QED
    BY <2>1 DEF Returned
<1>6. /\ \A i \in DOMAIN records' : i \in DOMAIN records \/ i = n + 1
      /\ records'[n + 1] = rec
      /\ \A i \in DOMAIN records : i \in 1 .. n /\ records'[i] = records[i]
  BY <1>1, <1>3, <1>4 DEF Return
<1>7. ASSUME NEW i \in DOMAIN records'
      PROVE  /\ \E q \in DOMAIN added : /\ records'[i].offset = added[q].offset
                                        /\ records'[i].data = Payload(q, 0, added[q].len)
             /\ records'[i].offset < y
  <2>1. CASE i \in DOMAIN records
    <3>1. records'[i] = records[i] /\ records[i].offset \in Nat /\ records[i].offset < x
      BY <1>5, <1>6, <2>1
    <3>2. records[i].offset < y
      BY <3>1
    <3> QED
      BY <2>1, <3>1, <3>2 DEF Genuine
  <2>2. CASE i = n + 1
    BY <1>2, <1>6, <2>2
  <2> QED
    BY <1>6, <2>1, <2>2
<1>8. ASSUME NEW i \in DOMAIN records', NEW j \in DOMAIN records', i < j
      PROVE  records'[i].offset < records'[j].offset
  <2>1. CASE j \in DOMAIN records
    <3>1. i # n + 1
      BY <1>6, <1>8, <2>1
    <3>2. i \in DOMAIN records
      BY <1>6, <3>1
    <3> QED
      BY <1>6, <1>8, <2>1, <3>2 DEF Genuine
  <2>2. CASE j = n + 1
    <3>1. i # n + 1
      BY <1>8, <2>2
    <3>2. i \in DOMAIN records
      BY <1>6, <3>1
    <3> QED
      BY <1>2, <1>6, <2>2, <3>2
  <2> QED
    BY <1>6, <2>1, <2>2
<1> QED
  BY <1>7, <1>8 DEF Genuine


\* A step of the reader adds no piece, and returns what the pieces make up.
LEMMA ReadExplained ==
    ASSUME TypeInv, NEW F \in Seq(Piece), Explains(F), Resync \/ Start \/ Continue \/ SkipBad \/ ReadEof
    PROVE  Explains(F)'
<1>1. PICK o \in ReadPhysicalRecord(Buffer, eof_) :
         /\ Fetch(o) /\ phase' \in {"read", "end"}
         /\ \/ /\ records' = records /\ (in_fragmented_record' = FALSE \/ phase' = "end")
            \/ /\ o.type = "full" /\ Return(Offset, o.data)
            \/ /\ o.type = "first" /\ scratch' = o.data /\ prospective' = Offset
               /\ records' = records /\ resyncing_' = FALSE
            \/ /\ in_fragmented_record = TRUE /\ o.type = "middle" /\ scratch' = scratch \o o.data
               /\ records' = records /\ resyncing_' = resyncing_ /\ prospective' = prospective
            \/ /\ in_fragmented_record = TRUE /\ o.type = "last" /\ Return(prospective, scratch \o o.data)
  <2>1. in_fragmented_record \in BOOLEAN
    BY DEF TypeInv, TypeOK
  <2>2. CASE Resync
    <3>1. PICK o \in ReadPhysicalRecord(Buffer, eof_) :
            /\ Fetch(o) /\ resyncing_ /\ UNCHANGED <<phase, fragmentVars, records>>
      BY <2>2 DEF Resync
    <3>2. phase = "read"
      BY <3>1 DEF Fetch
    <3>3. in_fragmented_record = FALSE
      BY <2>1, <3>1, <3>2 DEF Explains, Reader
    <3> QED
      BY <3>1, <3>2, <3>3 DEF fragmentVars
  <2>3. CASE Start
    BY <2>3 DEF Start, Fetch
  <2>4. CASE Continue
    BY <2>1, <2>4 DEF Continue, Fetch
  <2>5. CASE SkipBad
    BY <2>5 DEF SkipBad, Fetch
  <2>6. CASE ReadEof
    BY <2>6 DEF ReadEof
  <2> QED
    BY <2>2, <2>3, <2>4, <2>5, <2>6

<1>2. /\ file' = file /\ added' = added /\ phase = "read"
  BY <1>1 DEF Fetch, writerVars
<1>3. Layout(F, added)' /\ MadeOf(file, F)' /\ Writer(F)'
  BY <1>1, <1>2 DEF Explains, Writer
<1>4. Offset \in Nat /\ Offset' \in Nat /\ Offset <= Offset'
  BY <1>1, FetchOffset
<1>5. ASSUME NEW i \in DOMAIN records
      PROVE  records[i].offset < Offset /\ records[i].offset < Offset'
  <2>1. records[i] \in Returned
    BY DEF TypeInv, Shape
  <2>2. records[i].offset \in Nat
    BY <2>1 DEF Returned
  <2>3. records[i].offset < Offset
    BY DEF Explains, Reader
  <2> QED
    BY <1>4, <2>2, <2>3
<1>6. SUFFICES Reader(F)' /\ Genuine'
  BY <1>3 DEF Explains
<1>7. Genuine /\ (records' = records => Genuine')
  BY <1>2 DEF Explains, Genuine
<1>8. CASE records' = records /\ (in_fragmented_record' = FALSE \/ phase' = "end")
  BY <1>5, <1>7, <1>8 DEF Reader
<1>9. ASSUME o.type \in RecordType
      PROVE  \E k \in DOMAIN F :
               /\ F[k].start = Offset /\ Whole(F[k]) /\ o.type = F[k].type
               /\ o.data = Payload(F[k].rec, F[k].from, F[k].len)
               /\ Offset' = End(F[k]) /\ Offset < Offset'
               /\ F[k] \in Piece /\ Part(F, k, added)
  BY <1>1, <1>9, FetchedPiece DEF Explains, Layout
<1>10. CASE o.type = "full" /\ Return(Offset, o.data)
  <2>1. PICK k \in DOMAIN F :
           /\ F[k].start = Offset /\ Whole(F[k]) /\ o.type = F[k].type
           /\ o.data = Payload(F[k].rec, F[k].from, F[k].len)
           /\ Offset' = End(F[k]) /\ Offset < Offset'
           /\ F[k] \in Piece /\ Part(F, k, added)
    BY <1>9, <1>10 DEF RecordType
  <2>2. PICK r \in DOMAIN added : r = F[k].rec
    BY <2>1 DEF Part
  <2>3. Offset = added[r].offset /\ F[k].from = 0 /\ F[k].from + F[k].len = added[r].len
    BY <1>10, <2>1, <2>2 DEF Part, Starts, Ends
  <2>4. F[k].len = added[r].len
    BY <2>1, <2>3, PieceFields
  <2>5. PICK x \in Nat, y \in Nat : x = Offset /\ y = Offset'
    BY <1>4
  <2>6. PICK d : d = o.data /\ d = Payload(r, 0, added[r].len)
    BY <2>1, <2>2, <2>3, <2>4
  <2>7. Genuine' /\ \A i \in DOMAIN records' : records'[i].offset < y
    BY <1>2, <1>5, <1>7, <1>10, <2>1, <2>3, <2>5, <2>6, ReturnGenuine
  <2>8. in_fragmented_record' = FALSE
    BY <1>10 DEF Return
  <2> QED
    BY <2>5, <2>7, <2>8 DEF Reader
<1>11. CASE /\ o.type = "first" /\ scratch' = o.data /\ prospective' = Offset
            /\ records' = records /\ resyncing_' = FALSE
  <2>1. PICK k \in DOMAIN F :
           /\ F[k].start = Offset /\ Whole(F[k]) /\ o.type = F[k].type
           /\ o.data = Payload(F[k].rec, F[k].from, F[k].len)
           /\ Offset' = End(F[k]) /\ Offset < Offset'
           /\ F[k] \in Piece /\ Part(F, k, added)
    BY <1>9, <1>11 DEF RecordType
  <2>2. F[k].from = 0 /\ added[F[k].rec].offset = Offset /\ F[k].type \notin Ends
    BY <1>11, <2>1 DEF Part, Starts, Ends
  <2>3. F[k].from + F[k].len = F[k].len
    BY <2>1, <2>2, PieceFields
  <2>4. Offset' < End(F[k]) + HeaderSize /\ End(F[k]) <= Offset'
    BY <1>4, <2>1, SizeAssumption
  <2>5. Gathered(F, k)'
    BY <1>2, <1>11, <2>1, <2>2, <2>3, <2>4 DEF Gathered
  <2> QED
    BY <1>5, <1>7, <1>11, <2>1, <2>5 DEF Reader
<1>12. ASSUME in_fragmented_record = TRUE, o.type \in {"middle", "last"}
       PROVE  /\ resyncing_ = FALSE /\ prospective < Offset /\ prospective < Offset' /\ prospective \in Nat
              /\ \A i \in DOMAIN records : records[i].offset < prospective
              /\ \E k \in DOMAIN F :
                   /\ Whole(F[k]) /\ o.type = F[k].type /\ Offset' = End(F[k])
                   /\ scratch \o o.data = Payload(F[k].rec, 0, F[k].from + F[k].len)
                   /\ prospective = added[F[k].rec].offset /\ Part(F, k, added)
  <2>1. /\ resyncing_ = FALSE /\ prospective < Offset /\ prospective \in Nat
        /\ \A i \in DOMAIN records : records[i].offset < prospective
    BY <1>2, <1>12 DEF Explains, Reader, TypeInv, TypeOK
  <2>2. PICK i \in DOMAIN F : Gathered(F, i)
    BY <1>2, <1>12 DEF Explains, Reader
  <2>3. PICK k \in DOMAIN F :
           /\ F[k].start = Offset /\ Whole(F[k]) /\ o.type = F[k].type
           /\ o.data = Payload(F[k].rec, F[k].from, F[k].len)
           /\ Offset' = End(F[k]) /\ Offset < Offset'
           /\ F[k] \in Piece /\ Part(F, k, added)
    BY <1>9, <1>12 DEF RecordType
  <2>4. Continues(F[i], F[k])
    <3>1. F[k].type \notin Starts
      BY <1>12, <2>3 DEF Starts
    <3>2. End(F[i]) <= F[k].start /\ F[k].start < End(F[i]) + HeaderSize
      BY <2>2, <2>3 DEF Gathered
    <3>3. PICK a : a = added /\ Layout(F, a)
      BY DEF Explains
    <3> QED
      BY <2>3, <3>1, <3>2, <3>3, NextPiece
  <2>5. PICK r \in Nat, m \in Nat, n \in Nat : r = F[k].rec /\ m = F[k].from /\ n = F[k].len
    BY <2>3, PieceFields
  <2>6. scratch = Payload(r, 0, m) /\ prospective = added[F[k].rec].offset
    BY <2>2, <2>4, <2>5 DEF Gathered, Continues
  <2>7. scratch \o o.data = Payload(F[k].rec, 0, F[k].from + F[k].len)
    <3>1. Payload(r, 0, m) \o Payload(r, m, n) = Payload(r, 0, m + n)
      BY PayloadJoins
    <3>2. o.data = Payload(r, m, n)
      BY <2>3, <2>5
    <3> QED
      BY <2>5, <2>6, <3>1, <3>2
  <2>8. prospective < Offset'
    BY <1>4, <2>1
  <2> QED
    BY <2>1, <2>3, <2>6, <2>7, <2>8
<1>13. CASE /\ in_fragmented_record = TRUE /\ o.type = "middle" /\ scratch' = scratch \o o.data
            /\ records' = records /\ resyncing_' = resyncing_ /\ prospective' = prospective
  <2>1. /\ resyncing_ = FALSE /\ prospective < Offset'
        /\ \A i \in DOMAIN records : records[i].offset < prospective
    BY <1>12, <1>13
  <2>2. PICK k \in DOMAIN F :
           /\ Whole(F[k]) /\ o.type = F[k].type /\ Offset' = End(F[k])
           /\ scratch \o o.data = Payload(F[k].rec, 0, F[k].from + F[k].len)
           /\ prospective = added[F[k].rec].offset
    BY <1>12, <1>13
  <2>3. Offset' < End(F[k]) + HeaderSize /\ End(F[k]) <= Offset'
    BY <1>4, <2>2, SizeAssumption
  <2>4. F[k].type \notin Ends
    BY <1>13, <2>2 DEF Ends
  <2>5. Gathered(F, k)'
    BY <1>2, <1>13, <2>2, <2>3, <2>4 DEF Gathered
  <2> QED
    BY <1>5, <1>7, <1>13, <2>1, <2>5 DEF Reader
<1>14. CASE in_fragmented_record = TRUE /\ o.type = "last" /\ Return(prospective, scratch \o o.data)
  <2>1. /\ prospective \in Nat /\ prospective < Offset'
        /\ \A i \in DOMAIN records : records[i].offset < prospective
    BY <1>12, <1>14
  <2>2. PICK k \in DOMAIN F :
           /\ Whole(F[k]) /\ o.type = F[k].type
           /\ scratch \o o.data = Payload(F[k].rec, 0, F[k].from + F[k].len)
           /\ prospective = added[F[k].rec].offset /\ Part(F, k, added)
    BY <1>12, <1>14
  <2>3. PICK r \in DOMAIN added : r = F[k].rec
    BY <2>2 DEF Part
  <2>4. F[k].from + F[k].len = added[r].len
    BY <1>14, <2>2, <2>3 DEF Part, Ends
  <2>5. PICK x \in Nat, y \in Nat : x = prospective /\ y = Offset'
    BY <1>4, <2>1
  <2>6. PICK d : d = scratch \o o.data /\ d = Payload(r, 0, added[r].len)
    BY <2>2, <2>3, <2>4
  <2>7. Genuine' /\ \A i \in DOMAIN records' : records'[i].offset < y
    BY <1>2, <1>7, <1>14, <2>1, <2>2, <2>3, <2>5, <2>6, ReturnGenuine
  <2>8. in_fragmented_record' = FALSE
    BY <1>14 DEF Return
  <2> QED
    BY <2>5, <2>7, <2>8 DEF Reader
<1> QED
  BY <1>1, <1>8, <1>10, <1>11, <1>13, <1>14


\* A step that emits nothing leaves the file explained by the same pieces.
LEMMA StaysExplained ==
    ASSUME TypeInv, NEW F \in Seq(Piece), Explains(F), Next \/ UNCHANGED vars,
           \A ok \in BOOLEAN : ~Emit(ok)
    PROVE  Explains(F)'
<1>1. Layout(F, added) /\ MadeOf(file, F) /\ Writer(F) /\ Reader(F) /\ Genuine
  BY DEF Explains
<1>2. ASSUME records' = <<>>, phase' # "read" \/ in_fragmented_record' = FALSE
      PROVE  Reader(F)' /\ Genuine'
  BY <1>2 DEF Reader, Genuine
<1>3. ASSUME NEW n \in 0 .. MaxLength, AddRecord(n) PROVE Explains(F)'
  <2>1. /\ phase = "write" /\ ~Adding /\ file' = file /\ left' = n /\ begin' = TRUE
        /\ UNCHANGED <<phase, readerVars>>
        /\ added' = Append(added, [offset |-> 0, len |-> n, end |-> 0])
    BY <1>3 DEF AddRecord
  <2>2. PICK x \in Added : x = [offset |-> 0, len |-> n, end |-> 0]
    <3>1. [offset |-> 0, len |-> n, end |-> 0] \in Added
      BY DEF Added
    <3> QED
      BY <3>1
  <2>3. added \in Seq(Added)
    BY DEF TypeInv, Shape
  <2>4. PICK m \in Nat : m = Len(added)
    BY <2>3
  <2>5. /\ Len(added') = m + 1 /\ added'[m + 1] = x
        /\ \A r \in DOMAIN added : r \in DOMAIN added' /\ added'[r] = added[r] /\ r # m + 1
    BY <2>1, <2>2, <2>3, <2>4
  <2>6. Layout(F, added')
    <3>1. ASSUME NEW k \in DOMAIN F PROVE Part(F, k, added')
      <4>1. Part(F, k, added)
        BY <1>1 DEF Layout
      <4>2. F[k].rec \in DOMAIN added' /\ added'[F[k].rec] = added[F[k].rec]
        BY <2>5, <4>1 DEF Part
      <4> QED
        BY <4>1, <4>2, Zenon DEF Part
    <3> QED
      BY <1>1, <3>1 DEF Layout
  <2>7. Writer(F)'
    <3>1. \A k \in DOMAIN F : F[k].rec # Len(added') /\ End(F[k]) <= Len(file)
      BY <1>1, <2>1, <2>5 DEF Layout, Part, Writer
    <3>2. added'[Len(added')].len = n
      BY <2>2, <2>5
    <3> QED
      BY <2>1, <3>1, <3>2 DEF Writer
  <2>8. records' = <<>> /\ phase' = "write"
    BY <2>1 DEF TypeInv, Fresh, readerVars
  <2>9. Reader(F)' /\ Genuine'
    BY <1>2, <2>8
  <2> QED
    BY <1>1, <2>1, <2>6, <2>7, <2>9 DEF Explains
<1>4. CASE Disturb
  <2>1. /\ phase \in {"write", "idle"} /\ phase' = "idle" /\ added' = added /\ records' = records
    BY <1>4 DEF Disturb, Crash, Damage, readerVars
  <2>2. MadeOf(file', F)
    <3>1. Remains(file', harmed')
      BY <1>4, DisturbLeaves
    <3>2. file' \in Seq(Cell) /\ file \in Seq(Cell) /\ Len(file') <= Len(file)
      BY <3>1 DEF Remains, TypeInv, Shape
    <3>3. SUFFICES ASSUME NEW y \in 1 .. Len(file') PROVE Covered(F, y, file'[y])
      BY DEF MadeOf
    <3>4. y \in 1 .. Len(file)
      BY <3>2
    <3>5. file'[y] = file[y] \/ file'[y] \in {ZeroCell, BadCell}
      BY <3>1 DEF Remains
    <3>6. Covered(F, y, file[y])
      BY <1>1, <3>4 DEF MadeOf
    <3> QED
      BY <3>5, <3>6 DEF Covered
  <2>3. records' = <<>> /\ phase' # "read"
    BY <2>1 DEF TypeInv, Fresh
  <2>4. Reader(F)' /\ Genuine' /\ Writer(F)'
    BY <1>2, <2>1, <2>3 DEF Writer
  <2> QED
    BY <1>1, <2>1, <2>2, <2>4 DEF Explains
<1>5. ASSUME NEW o \in 0 .. Len(file), Open(o) PROVE Explains(F)'
  <2>1. /\ phase = "idle" /\ phase' = "read" /\ added' = added /\ records' = records /\ file' = file
        /\ in_fragmented_record' = in_fragmented_record
    BY <1>5 DEF Open, writerVars, fragmentVars, histVars
  <2>2. records' = <<>> /\ in_fragmented_record' = FALSE
    BY <2>1 DEF TypeInv, Fresh
  <2>3. Reader(F)' /\ Genuine' /\ Writer(F)'
    BY <1>2, <2>1, <2>2 DEF Writer
  <2> QED
    BY <1>1, <2>1, <2>3 DEF Explains
<1>6. ASSUME NEW ok \in BOOLEAN, ReadBlock(ok) PROVE Explains(F)'
  <2>1. /\ phase = "read" /\ size < HeaderSize /\ ~eof_ /\ phase' = phase
        /\ added' = added /\ records' = records /\ file' = file /\ resyncing_' = resyncing_
        /\ in_fragmented_record' = in_fragmented_record /\ scratch' = scratch /\ prospective' = prospective
    BY <1>6 DEF ReadBlock, writerVars, fragmentVars
  <2>2. /\ Offset \in Nat /\ Offset + size = end_of_buffer_offset_ /\ size \in Nat
        /\ HeaderSize \in Nat /\ BlockSize \in Nat /\ HeaderSize < BlockSize
        /\ end_of_buffer_offset_ \in Nat /\ file \in Seq(Cell) /\ eof_ \in BOOLEAN
    BY SizeAssumption, BufferCells DEF TypeInv, TypeOK, Shape
  <2>3. Offset' = end_of_buffer_offset_ /\ (eof_' = FALSE => ~(size' < HeaderSize))
    <3>1. CASE ok
      <4>1. PICK l \in Nat : l = Len(file)
        BY <2>2
      <4>2. PICK n \in Nat : /\ size' = n /\ end_of_buffer_offset_' = end_of_buffer_offset_ + n
                             /\ eof_' = (n < BlockSize)
        <5>1. PICK e \in Nat : e = end_of_buffer_offset_
          BY <2>2
        <5>2. PICK rest \in Nat : rest = IF l > e THEN l - e ELSE 0
          <6>1. l > e => l - e \in Nat
            OBVIOUS
          <6> QED
            BY <6>1
        <5>3. PICK n \in Nat : n = IF rest < BlockSize THEN rest ELSE BlockSize
          BY <2>2
        <5> QED
          BY <1>6, <3>1, <4>1, <5>1, <5>2, <5>3 DEF ReadBlock
      <4>3. Offset' = end_of_buffer_offset_
        <5>1. Offset' = end_of_buffer_offset_' - size'
          BY DEF Offset
        <5>2. size' = n /\ end_of_buffer_offset_' = end_of_buffer_offset_ + n
          BY <4>2
        <5>3. end_of_buffer_offset_' - size' = end_of_buffer_offset_
          BY <2>2, <5>2
        <5> QED
          BY <5>1, <5>3
      <4>4. eof_' = FALSE => ~(size' < HeaderSize)
        <5>1. eof_' = FALSE => ~(n < BlockSize)
          BY <4>2, Zenon
        <5>2. ~(n < BlockSize) => ~(n < HeaderSize)
          BY <2>2
        <5>3. size' = n
          BY <4>2
        <5> QED
          BY <5>1, <5>2, <5>3
      <4> QED
        BY <4>3, <4>4
    <3>2. CASE ~ok
      <4>1. size' = 0 /\ eof_' = TRUE /\ end_of_buffer_offset_' = end_of_buffer_offset_
        BY <1>6, <3>2 DEF ReadBlock
      <4> QED
        BY <2>2, <4>1 DEF Offset
    <3> QED
      BY <3>1, <3>2
  <2>4. Offset <= Offset' /\ Offset' \in Nat
    BY <2>2, <2>3
  <2>5. ASSUME NEW i \in DOMAIN records PROVE records[i].offset < Offset'
    <3>1. records[i] \in Returned
      BY DEF TypeInv, Shape
    <3>2. records[i].offset \in Nat
      BY <3>1 DEF Returned
    <3>3. records[i].offset < Offset
      BY <1>1 DEF Reader
    <3> QED
      BY <2>2, <2>4, <3>2, <3>3
  <2>6. ASSUME in_fragmented_record = TRUE
        PROVE  /\ resyncing_ = FALSE /\ prospective < Offset'
               /\ \A i \in DOMAIN records : records[i].offset < prospective
               /\ \E k \in DOMAIN F : Gathered(F, k)'
    <3>1. /\ resyncing_ = FALSE /\ prospective < Offset /\ prospective \in Nat
          /\ \A i \in DOMAIN records : records[i].offset < prospective
      BY <1>1, <2>1, <2>6 DEF Reader, TypeInv, TypeOK
    <3>2. PICK k \in DOMAIN F : Gathered(F, k)
      BY <1>1, <2>1, <2>6 DEF Reader
    <3>3. F[k] \in Piece /\ End(F[k]) \in Nat
      BY PieceFields
    <3>4. Offset = End(F[k])
      BY <2>1, <2>2, <3>2 DEF Gathered
    <3>5. End(F[k]) <= Offset' /\ Offset' < End(F[k]) + HeaderSize
      BY <2>1, <2>2, <2>3, <3>3, <3>4
    <3>6. Gathered(F, k)'
      BY <2>1, <2>3, <3>2, <3>5 DEF Gathered
    <3>7. prospective < Offset'
      BY <2>2, <2>4, <3>1
    <3> QED
      BY <3>1, <3>6, <3>7
  <2>7. Reader(F)'
    BY <2>1, <2>5, <2>6 DEF Reader
  <2>8. Genuine' /\ Writer(F)'
    BY <1>1, <2>1 DEF Genuine, Writer
  <2> QED
    BY <1>1, <2>1, <2>7, <2>8 DEF Explains
<1>7. CASE UNCHANGED vars
  <2>1. Layout(F, added') /\ MadeOf(file', F)
    BY <1>1, <1>7 DEF vars, writerVars, histVars
  <2>2. Writer(F)' /\ Genuine'
    BY <1>1, <1>7 DEF Writer, Genuine, vars, writerVars, readerVars, histVars
  <2>3. Reader(F)'
    BY <1>1, <1>7 DEF Reader, Gathered, Offset, vars, readerVars, bufferVars, fragmentVars, histVars
  <2> QED
    BY <2>1, <2>2, <2>3 DEF Explains
<1> QED
  BY <1>3, <1>4, <1>5, <1>6, <1>7, ReadExplained DEF Next, Write, Read


-----------------------------------------------------------------------------
(* No false alarm. *)

\* Before anything went wrong with the writing, or the reading, at t - 1.
Early(g, t) == t = 0 \/ g.start + 1 < t

\* Piece g lies in its block, behind f in the same block or at the start of the
\* next one, if f left less than a header's room.
Fits(g) == g.base <= g.start /\ g.start + HeaderSize + g.len <= g.base + BlockSize
Follows(f, g) ==
    \/ g.base = f.base /\ g.start = End(f)
    \/ g.base = f.base + BlockSize /\ g.start = g.base /\ g.base < End(f) + HeaderSize
Seated(F, k) ==
    /\ Whole(F[k]) /\ Fits(F[k])
    /\ k = 1 => F[k].start = 0 /\ F[k].base = 0
    /\ \A j \in DOMAIN F : j + 1 = k =>
          Follows(F[j], F[k]) /\ (F[k].type \in Starts => F[j].type \in Ends)

\* The cells of g that are in the file f are as written, but for the ones in h.
Intact(f, h, g) ==
    \A i \in 1 .. g.kept :
        g.start + i <= Len(f) /\ g.start + i - 1 \notin h => f[g.start + i] = CellOf(g, i)

\* While nothing went wrong the file ends with the last piece, and the writer
\* knows where it is.
Rest(F) ==
    torn = 0 =>
       \/ F = <<>> /\ file = <<>> /\ (phase = "write" => block_offset_ = 0)
       \/ \E k \in DOMAIN F :
            /\ k = Len(F) /\ Len(file) <= End(F[k])
            /\ phase = "write" =>
                  /\ End(F[k]) = Len(file) /\ block_offset_ = Len(file) - F[k].base
                  /\ F[k].type \in Ends <=> ~(left > 0 /\ ~begin)

Aligned(F) ==
    /\ \A k \in DOMAIN F : Early(F[k], torn) => Seated(F, k) /\ Intact(file, harmed, F[k])
    /\ Rest(F)
    /\ phase = "write" => torn <= Len(file) + 1

\* The piece cut is seated, unless something went wrong before or now.
LEMMA EmitAligned ==
    ASSUME TypeInv, NEW F \in Seq(Piece), Explains(F), Aligned(F), NEW ok \in BOOLEAN, Emit(ok),
           NEW g \in Piece, NEW z \in Nat, Cut(g, z), Grown(file', g), Counted(g, z, ok)
    PROVE  Aligned(Append(F, g))'
<1>1. /\ phase = "write" /\ phase' = "write" /\ Adding /\ left \in Nat /\ begin \in BOOLEAN
      /\ file \in Seq(Cell) /\ HeaderSize \in Nat /\ BlockSize \in Nat /\ HeaderSize < BlockSize
      /\ torn \in Nat /\ harmed' = harmed /\ block_offset_ \in Nat
  BY SizeAssumption, LogBoundsAssumption DEF Emit, TypeInv, TypeOK, Shape
<1>2. PICK l \in Nat, n \in Nat, s \in Nat, e \in Nat, b \in Int, d \in Nat :
         /\ l = Len(file) /\ n = Len(F) /\ s = g.start /\ e = End(g) /\ b = g.base /\ d = g.len
  <2>1. Len(file) \in Nat /\ Len(F) \in Nat
    BY <1>1
  <2>2. g.start \in Nat /\ End(g) \in Nat /\ g.base \in Int /\ g.len \in Nat
    BY PieceFields
  <2> QED
    BY <2>1, <2>2
<1>3. /\ s = l + z /\ e = s + g.kept /\ g.kept \in Nat /\ l <= s /\ s <= e
      /\ b <= s /\ s + HeaderSize + d <= b + BlockSize /\ d <= left
      /\ g.type \in Starts <=> begin
      /\ g.type \in Ends <=> d = left
  <2>1. s = l + z /\ e = s + g.kept /\ g.kept \in Nat
    BY <1>2, PieceFields DEF Cut
  <2>2. l <= s /\ s <= e
    BY <2>1
  <2> QED
    BY <1>2, <2>1, <2>2 DEF Cut
<1>4. /\ file' \in Seq(Cell) /\ Len(file') = e /\ \A y \in 1 .. l : file'[y] = file[y]
      /\ \A i \in 1 .. g.kept : file'[s + i] = CellOf(g, i)
  BY <1>2 DEF Grown
<1>5. /\ block_offset_' = s + HeaderSize + d - b /\ begin' = FALSE
      /\ \/ Whole(g) /\ Fitted(g, z) /\ left' = left - d /\ torn' = torn
         \/ torn' = IF torn = 0 THEN s + 1 ELSE torn
  BY <1>2, Zenon DEF Counted
<1>6. PICK G : G = Append(F, g)
  OBVIOUS
<1>7. /\ G \in Seq(Piece) /\ Len(G) = n + 1 /\ n + 1 \in DOMAIN G /\ G[n + 1] = g
      /\ \A k \in DOMAIN G : k \in DOMAIN F \/ k = n + 1
      /\ \A k \in DOMAIN F : k \in DOMAIN G /\ k \in 1 .. n /\ G[k] = F[k]
  BY <1>2, <1>6, OneMore
<1>8. torn <= l + 1
  BY <1>1, <1>2 DEF Aligned
<1>9. ASSUME Early(g, torn') PROVE torn = 0 /\ Whole(g) /\ Fitted(g, z)
  <2>1. torn' = 0 \/ s + 1 < torn'
    BY <1>2, <1>9 DEF Early
  <2> QED
    BY <1>1, <1>3, <1>5, <1>8, <2>1
<1>10. torn' \in Nat /\ (torn' = 0 => torn = 0 /\ Whole(g) /\ left' = left - d) /\ torn' <= e + 1
  BY <1>1, <1>3, <1>5, <1>8
<1>11. ASSUME NEW k \in DOMAIN F, Early(F[k], torn')
       PROVE  Seated(G, k) /\ Intact(file', harmed', G[k])
  <2>1. Early(F[k], torn)
    BY <1>5, <1>11 DEF Early
  <2>2. Seated(F, k) /\ Intact(file, harmed, F[k])
    BY <2>1 DEF Aligned
  <2>3. G[k] = F[k] /\ k \in 1 .. n
    BY <1>7
  <2>4. ASSUME NEW j \in DOMAIN G, j + 1 = k PROVE j \in DOMAIN F /\ G[j] = F[j]
    <3>1. j # n + 1
      BY <2>3, <2>4
    <3> QED
      BY <1>7, <3>1
  <2>5. Seated(G, k)
    BY <2>2, <2>3, <2>4, Zenon DEF Seated
  <2>6. End(F[k]) <= l
    BY <1>1, <1>2 DEF Explains, Writer
  <2>7. PICK p \in Piece : p = F[k]
    OBVIOUS
  <2>8. p.start \in Nat /\ p.kept \in Nat /\ End(p) = p.start + p.kept
    BY PieceFields
  <2>9. ASSUME NEW i \in 1 .. p.kept, p.start + i - 1 \notin harmed'
        PROVE  file'[p.start + i] = CellOf(p, i)
    <3>1. PICK y \in 1 .. l : y = p.start + i
      <4>1. p.start + i \in 1 .. l
        BY <2>6, <2>7, <2>8
      <4> QED
        BY <4>1
    <3>2. p.start + i <= Len(file) /\ p.start + i - 1 \notin harmed
      BY <1>1, <1>2, <2>9, <3>1
    <3>3. file[p.start + i] = CellOf(p, i)
      BY <2>2, <2>7, <3>2 DEF Intact
    <3> QED
      BY <1>4, <3>1, <3>3
  <2>10. Intact(file', harmed', p)
    BY <2>9 DEF Intact
  <2> QED
    BY <2>3, <2>5, <2>7, <2>10

<1>12. ASSUME torn = 0, Whole(g), Fitted(g, z) PROVE Seated(G, n + 1)
  <2>1. CASE F = <<>> /\ file = <<>> /\ block_offset_ = 0
    <3>1. n = 0 /\ l = 0
      BY <1>2, <2>1
    <3>2. s = 0 /\ b = 0
      BY <1>1, <1>2, <1>3, <1>12, <2>1, <3>1 DEF Fitted
    <3>3. \A j \in DOMAIN G : j + 1 # n + 1
      BY <1>7, <3>1
    <3> QED
      BY <1>2, <1>3, <1>7, <1>12, <3>2, <3>3 DEF Seated, Fits
  <2>2. ASSUME NEW k \in DOMAIN F, k = Len(F), End(F[k]) = Len(file),
               block_offset_ = Len(file) - F[k].base,
               F[k].type \in Ends <=> ~(left > 0 /\ ~begin)
        PROVE  Seated(G, n + 1)
    <3>1. PICK p \in Piece : p = F[k]
      OBVIOUS
    <3>2. PICK c \in Int : c = p.base /\ End(p) = l /\ block_offset_ = l - c
      <4>1. p.base \in Int
        BY PieceFields
      <4>2. End(p) = l /\ block_offset_ = l - p.base
        BY <1>2, <2>2, <3>1
      <4> QED
        BY <4>1, <4>2
    <3>3. (b = c /\ s = l) \/ (b = c + BlockSize /\ s = b /\ b < l + HeaderSize)
      <4>1. CASE z = 0 /\ s = b + block_offset_
        <5>1. s = l + z /\ s = b + (l - c) /\ z = 0
          BY <1>3, <3>2, <4>1
        <5> QED
          BY <5>1
      <4>2. CASE z < HeaderSize /\ s = b /\ z + block_offset_ = BlockSize
        <5>1. s = l + z /\ z + (l - c) = BlockSize
          BY <1>3, <3>2, <4>2
        <5> QED
          BY <1>1, <4>2, <5>1
      <4> QED
        BY <1>2, <1>12, <4>1, <4>2 DEF Fitted
    <3>4. Follows(p, g)
      BY <1>2, <3>2, <3>3 DEF Follows
    <3>5. g.type \in Starts => p.type \in Ends
      BY <1>3, <2>2, <3>1
    <3>6. \A j \in DOMAIN G : j + 1 = n + 1 => G[j] = p
      <4>1. G[k] = p /\ k = n
        BY <1>2, <1>7, <2>2, <3>1
      <4>2. ASSUME NEW j \in DOMAIN G, j + 1 = n + 1 PROVE j = n
        BY <1>7, <4>2
      <4> QED
        BY <4>1, <4>2
    <3>7. n + 1 # 1
      BY <1>2, <1>7, <2>2
    <3> QED
      BY <1>2, <1>3, <1>7, <1>12, <3>4, <3>5, <3>6, <3>7 DEF Seated, Fits
  <2> QED
    BY <1>1, <1>12, <2>1, <2>2 DEF Aligned, Rest
<1>13. Intact(file', harmed', g)
  BY <1>2, <1>4 DEF Intact
<1>14. Rest(G)'
  <2>1. SUFFICES ASSUME torn' = 0
                 PROVE  /\ n + 1 = Len(G) /\ Len(file') <= End(g)
                        /\ End(g) = Len(file') /\ block_offset_' = Len(file') - g.base
                        /\ g.type \in Ends <=> ~(left' > 0 /\ ~begin')
    BY <1>7 DEF Rest
  <2>2. Whole(g) /\ left' = left - d
    BY <1>5, <1>10, <2>1
  <2>3. e = s + HeaderSize + d
    BY <1>1, <1>2, <1>3, <2>2 DEF Whole
  <2>4. d = left <=> ~(left' > 0)
    BY <1>1, <1>3, <2>2
  <2>5. block_offset_' = e - b
    <3>1. block_offset_' = s + HeaderSize + d - b
      BY <1>5
    <3> QED
      BY <1>1, <2>3, <3>1
  <2>6. Len(file') <= End(g)
    BY <1>2, <1>4
  <2> QED
    BY <1>2, <1>3, <1>4, <1>5, <1>7, <2>4, <2>5, <2>6
<1>15. ASSUME NEW k \in DOMAIN G, Early(G[k], torn')
       PROVE  Seated(G, k) /\ Intact(file', harmed', G[k])
  <2>1. CASE k \in DOMAIN F
    BY <1>7, <1>11, <1>15, <2>1
  <2>2. CASE k = n + 1
    BY <1>7, <1>9, <1>12, <1>13, <1>15, <2>2
  <2> QED
    BY <1>7, <2>1, <2>2
<1>16. Aligned(G)'
  BY <1>4, <1>10, <1>14, <1>15 DEF Aligned
<1> QED
  BY <1>6, <1>16


\* A step that emits nothing leaves the pieces where they are.
LEMMA StaysAligned ==
    ASSUME TypeInv, NEW F \in Seq(Piece), Aligned(F), Next \/ UNCHANGED vars,
           \A ok \in BOOLEAN : ~Emit(ok)
    PROVE  Aligned(F)'
<1>1. torn \in Nat /\ file \in Seq(Cell) /\ end_of_buffer_offset_ \in Nat /\ phase \in {"write", "idle", "read", "end"}
  BY DEF TypeInv, TypeOK, Shape
<1>2. \A k \in DOMAIN F : Early(F[k], torn) => Seated(F, k) /\ Intact(file, harmed, F[k])
  BY DEF Aligned
<1>3. ASSUME NEW n \in 0 .. MaxLength, AddRecord(n) PROVE Aligned(F)'
  <2>1. /\ phase = "write" /\ ~(left > 0 /\ ~begin) /\ begin' = TRUE
        /\ UNCHANGED <<file, block_offset_, phase, harmed, torn>>
    BY <1>3 DEF AddRecord, Adding
  <2>2. Rest(F)'
    BY <2>1 DEF Aligned, Rest
  <2> QED
    BY <1>2, <2>1, <2>2 DEF Aligned
<1>4. CASE Disturb
  <2>1. phase' = "idle" /\ torn' = torn
    BY <1>4 DEF Disturb, Crash, Damage
  <2>2. /\ file' \in Seq(Cell) /\ Len(file') <= Len(file) /\ harmed \subseteq harmed'
        /\ \A y \in 1 .. Len(file') : file'[y] = file[y] \/ y - 1 \in harmed'
    BY <1>4, DisturbLeaves DEF Remains
  <2>3. ASSUME NEW k \in DOMAIN F, Intact(file, harmed, F[k]) PROVE Intact(file', harmed', F[k])
    <3>1. PICK p \in Piece : p = F[k]
      OBVIOUS
    <3>2. p.start \in Nat /\ p.kept \in Nat
      BY PieceFields
    <3>3. PICK l \in Nat, m \in Nat : l = Len(file) /\ m = Len(file') /\ m <= l
      <4>1. Len(file) \in Nat /\ Len(file') \in Nat
        BY <1>1, <2>2
      <4> QED
        BY <2>2, <4>1
    <3>4. ASSUME NEW i \in 1 .. p.kept, p.start + i <= m, p.start + i - 1 \notin harmed'
          PROVE  file'[p.start + i] = CellOf(p, i)
      <4>1. PICK y \in 1 .. m : y = p.start + i
        <5>1. p.start + i \in 1 .. m
          BY <3>2, <3>4
        <5> QED
          BY <5>1
      <4>2. file'[y] = file[y]
        <5>1. y \in 1 .. Len(file') /\ y - 1 = p.start + i - 1
          BY <3>2, <3>3, <4>1
        <5>2. y - 1 \notin harmed'
          BY <3>4, <5>1
        <5> QED
          BY <2>2, <5>1, <5>2
      <4>3. p.start + i <= l /\ p.start + i - 1 \notin harmed
        BY <2>2, <3>2, <3>3, <3>4
      <4>4. file[p.start + i] = CellOf(p, i)
        BY <2>3, <3>1, <3>3, <4>3 DEF Intact
      <4> QED
        BY <4>1, <4>2, <4>4
    <3> QED
      BY <3>1, <3>3, <3>4 DEF Intact
  <2>4. Rest(F)'
    <3>1. ASSUME torn = 0, F = <<>>, file = <<>> PROVE file' = <<>>
      <4>1. Len(file) = 0
        BY <3>1
      <4>2. Len(file') = 0
        BY <2>2, <4>1
      <4> QED
        BY <2>2, <4>2
    <3>2. ASSUME NEW k \in DOMAIN F, Len(file) <= End(F[k]) PROVE Len(file') <= End(F[k])
      <4>1. F[k] \in Piece /\ End(F[k]) \in Nat /\ Len(file) \in Nat /\ Len(file') \in Nat
        BY <1>1, <2>2, PieceFields
      <4> QED
        BY <2>2, <3>2, <4>1
    <3> QED
      BY <2>1, <3>1, <3>2 DEF Aligned, Rest
  <2> QED
    BY <1>2, <2>1, <2>3, <2>4 DEF Aligned
<1>5. ASSUME file' = file, harmed' = harmed, phase' # "write",
             torn' = torn \/ (torn' # 0 /\ torn' \in Nat /\ (torn = 0 \/ torn' < torn))
      PROVE  Aligned(F)'
  <2>1. ASSUME NEW k \in DOMAIN F, Early(F[k], torn') PROVE Early(F[k], torn)
    <3>1. F[k] \in Piece /\ F[k].start \in Nat
      BY PieceFields
    <3> QED
      BY <1>1, <1>5, <2>1, <3>1 DEF Early
  <2>2. Rest(F)'
    BY <1>5 DEF Aligned, Rest
  <2> QED
    BY <1>2, <1>5, <2>1, <2>2 DEF Aligned
<1>6. ASSUME NEW o \in 0 .. Len(file), Open(o) PROVE Aligned(F)'
  BY <1>5, <1>6 DEF Open, writerVars, histVars
<1>7. ASSUME NEW ok \in BOOLEAN, ReadBlock(ok) PROVE Aligned(F)'
  <2>1. torn' = torn \/ torn' = (IF torn = 0 \/ end_of_buffer_offset_ + 1 < torn
                                 THEN end_of_buffer_offset_ + 1 ELSE torn)
    BY <1>7 DEF ReadBlock
  <2>2. torn' = torn \/ (torn' # 0 /\ torn' \in Nat /\ (torn = 0 \/ torn' < torn))
    BY <1>1, <2>1
  <2>3. file' = file /\ harmed' = harmed /\ phase' # "write"
    BY <1>7 DEF ReadBlock, writerVars
  <2> QED
    BY <1>5, <2>2, <2>3
<1>8. CASE Resync \/ Start \/ Continue \/ SkipBad \/ ReadEof
  <2>1. file' = file /\ harmed' = harmed /\ torn' = torn /\ phase' # "write"
    BY <1>8 DEF Resync, Start, Continue, SkipBad, ReadEof, Fetch, writerVars
  <2> QED
    BY <1>5, <2>1
<1>9. CASE UNCHANGED vars
  BY <1>2, <1>9 DEF Aligned, Rest, vars, writerVars, histVars
<1> QED
  BY <1>3, <1>4, <1>6, <1>7, <1>8, <1>9 DEF Next, Write, Read


\* Nothing went wrong, and the file is read from its start.
Calm == torn = 0 /\ harmed = {} /\ initial_offset_ = 0

\* As much of piece p as the buffer holds is there.
Shows(p) == \A i \in 1 .. p.kept : i <= size => file[p.start + i] = CellOf(p, i)

\* A fragment that the buffer starts with is returned, if the buffer holds all
\* of it and it does not start before the initial offset.
LEMMA WholeIsReturned ==
    ASSUME TypeInv, NEW p \in Piece, p.start = Offset, Whole(p), Shows(p),
           HeaderSize <= size, NEW o \in ReadPhysicalRecord(Buffer, eof_)
    PROVE  \/ /\ HeaderSize + p.len <= size
              /\ o.type = p.type \/ (o.type = "skipped" /\ initial_offset_ # 0)
              /\ Remaining(o) = size - HeaderSize - p.len
           \/ HeaderSize + p.len > size /\ (eof_ = TRUE => o.type = "eof")
<1>1. /\ HeaderSize \in Nat /\ 0 < HeaderSize /\ size \in Nat /\ eof_ \in BOOLEAN /\ end_of_buffer_offset_ \in Nat
  BY SizeAssumption DEF TypeInv, TypeOK
<1>2. /\ Offset \in Nat /\ Offset + size = end_of_buffer_offset_
      /\ Buffer \in Seq(Cell) /\ Len(Buffer) = size
      /\ \A i \in 1 .. size : Buffer[i] = file[Offset + i]
  BY BufferCells
<1>3. PICK b \in Seq(Cell) : b = Buffer /\ Len(b) = size /\ \A i \in 1 .. size : b[i] = file[Offset + i]
  BY <1>2
<1>4. PICK type \in RecordType, n \in Nat, r \in Nat, from \in Nat :
         type = p.type /\ n = p.len /\ r = p.rec /\ from = p.from
  BY PieceFields
<1>5. p.kept = HeaderSize + n
  BY <1>4 DEF Whole
<1>6. ASSUME NEW i \in 1 .. size, i <= HeaderSize + n PROVE b[i] = CellOf(p, i)
  <2>1. i \in 1 .. p.kept /\ i <= size
    BY <1>1, <1>4, <1>5, <1>6
  <2> QED
    BY <1>3, <2>1 DEF Shows
<1>7. ASSUME NEW i \in 1 .. HeaderSize PROVE b[i] = HeaderCell(i, type, n, r, from)
  <2>1. i \in 1 .. size /\ i <= HeaderSize + n /\ i <= HeaderSize
    BY <1>1, <1>4
  <2>2. b[i] = CellOf(p, i)
    BY <1>6, <2>1
  <2> QED
    BY <1>4, <2>1, <2>2, Zenon DEF CellOf
<1>8. b[1] = HeaderCell(1, type, n, r, from)
  <2>1. PICK i \in 1 .. HeaderSize : i = 1
    BY <1>1
  <2> QED
    BY <1>7, <2>1
<1>9. b[1].len = n /\ b[1].rec = r /\ b[1].from = from /\ b[1].type = type /\ b[1].is = "header"
  BY <1>8 DEF HeaderCell
<1>10. HeaderIntact(b)
  <2>1. ASSUME NEW i \in 1 .. HeaderSize PROVE b[i] = [b[1] EXCEPT !.i = i]
    BY <1>7, <1>8 DEF HeaderCell
  <2> QED
    BY <1>9, <2>1 DEF HeaderIntact
<1>11. o \in ReadPhysicalRecord(b, eof_) /\ ~(Len(b) < HeaderSize)
  BY <1>1, <1>3
<1>12. CASE HeaderSize + n > size
  <2>1. HeaderSize + b[1].len > Len(b)
    BY <1>3, <1>9, <1>12
  <2>2. o \in Overrun(eof_)
    BY <1>10, <1>11, <2>1, Zenon DEF ReadPhysicalRecord
  <2>3. eof_ = TRUE => o = Outcome("eof", <<>>, FALSE)
    BY <2>2, Zenon DEF Overrun
  <2>4. eof_ = TRUE => o.type = "eof"
    BY <2>3 DEF Outcome
  <2> QED
    BY <1>4, <1>12, <2>4
<1>13. CASE ~(HeaderSize + n > size)
  <2>1. ~(HeaderSize + b[1].len > Len(b))
    BY <1>3, <1>9, <1>13
  <2>2. PICK t : t = SubSeq(b, HeaderSize + 1, HeaderSize + n)
    OBVIOUS
  <2>3. n > 0 => HeaderSize + n <= Len(b)
    BY <1>1, <1>3, <1>13
  <2>4. t \in Seq(Cell) /\ Len(t) = n /\ \A q \in 1 .. n : t[q] = b[HeaderSize + q]
    BY <1>1, <2>2, <2>3, Stretch
  <2>5. ASSUME NEW q \in 1 .. n PROVE t[q] = DataCell(r, from + q)
    <3>1. PICK i \in 1 .. size : i = HeaderSize + q
      <4>1. HeaderSize + q \in 1 .. size
        BY <1>1, <1>13
      <4> QED
        BY <4>1
    <3>2. i <= HeaderSize + n /\ ~(i <= HeaderSize) /\ i - HeaderSize = q
      BY <1>1, <3>1
    <3>3. b[i] = CellOf(p, i)
      BY <1>6, <3>2
    <3>4. b[i] = DataCell(r, from + q)
      BY <1>4, <3>2, <3>3, Zenon DEF CellOf
    <3> QED
      BY <2>4, <3>1, <3>4
  <2>6. t = Payload(r, from, n)
    BY <2>4, <2>5, PayloadIs
  <2>7. ChecksumMatches(b)
    BY <1>9, <2>2, <2>6, Zenon DEF ChecksumMatches
  <2>8. o.type = type \/ (o.type = "skipped" /\ initial_offset_ # 0)
    <3>1. CASE end_of_buffer_offset_ - Len(b) < initial_offset_
      <4>1. initial_offset_ # 0
        BY <1>1, <1>2, <1>3, <3>1
      <4>2. o = Outcome("skipped", <<>>, FALSE)
        BY <1>10, <1>11, <2>1, <2>7, <3>1, Zenon DEF ReadPhysicalRecord
      <4> QED
        BY <4>1, <4>2 DEF Outcome
    <3>2. CASE ~(end_of_buffer_offset_ - Len(b) < initial_offset_)
      <4>1. PICK d : o = Outcome(b[1].type, d, FALSE)
        BY <1>10, <1>11, <2>1, <2>7, <3>2, Zenon DEF ReadPhysicalRecord
      <4> QED
        BY <1>9, <4>1 DEF Outcome
    <3> QED
      BY <3>1, <3>2
  <2>9. o.type \in RecordType \cup {"skipped"}
    BY <2>8
  <2>10. Remaining(o) = size - HeaderSize - n
    BY <1>3, <1>9, <2>9, Zenon DEF Remaining
  <2> QED
    BY <1>1, <1>4, <1>13, <2>8, <2>10
<1> QED
  BY <1>12, <1>13


\* The reader has passed the first j pieces; piece j + 1 is next, where the
\* reader stands in the block that ends at nb, or behind a trailer at nb.  The
\* reader is gathering a record if piece j does not end one.
NextBlock(F, nb, j) ==
    /\ end_of_buffer_offset_ <= nb /\ end_of_buffer_offset_ <= Len(file)
    /\ eof_ = TRUE <=> end_of_buffer_offset_ < nb
    /\ \A k \in DOMAIN F : k = j + 1 =>
          \/ F[k].start = Offset /\ F[k].base + BlockSize = nb
          \/ F[k].start = nb /\ F[k].base = nb /\ nb < Offset + HeaderSize
    /\ j = Len(F) => size = 0
    /\ \A k \in DOMAIN F : k = j => End(F[k]) <= Offset
    /\ in_fragmented_record = TRUE <=> \E k \in DOMAIN F : k = j /\ F[k].type \notin Ends

\* While nothing goes wrong nothing is reported, and the reader reads the pieces
\* one by one.
Quiet(F) ==
    Calm =>
       /\ reported = FALSE
       /\ phase = "read" =>
             resyncing_ = FALSE /\ \E nb \in Nat, j \in 0 .. Len(F) : NextBlock(F, nb, j)

\* The piece that is fetched is the next one.
Fetches(F, k, nb, o) ==
    /\ o.type \in RecordType /\ o.type = F[k].type
    /\ F[k].start = Offset /\ F[k].base + BlockSize = nb /\ Offset' = End(F[k])

\* While nothing goes wrong ReadPhysicalRecord returns the next piece, or finds
\* the end of the file.
LEMMA QuietFetch ==
    ASSUME TypeInv, NEW F \in Seq(Piece), Aligned(F), Calm, NEW nb \in Nat, NEW j \in 0 .. Len(F),
           NextBlock(F, nb, j), NEW o \in ReadPhysicalRecord(Buffer, eof_), Fetch(o)
    PROVE  o.type = "eof" \/ \E k \in DOMAIN F : k = j + 1 /\ Fetches(F, k, nb, o)
<1>1. /\ HeaderSize \in Nat /\ 0 < HeaderSize /\ BlockSize \in Nat /\ size \in Nat
      /\ end_of_buffer_offset_ \in Nat /\ file \in Seq(Cell) /\ torn = 0 /\ harmed = {} /\ initial_offset_ = 0
  BY SizeAssumption DEF TypeInv, TypeOK, Shape, Calm
<1>2. /\ Offset \in Nat /\ Offset + size = end_of_buffer_offset_ /\ Len(Buffer) = size
  BY BufferCells
<1>3. CASE size < HeaderSize
  <2>1. Len(Buffer) < HeaderSize
    BY <1>2, <1>3
  <2>2. o = Outcome("eof", <<>>, FALSE)
    BY <2>1, Zenon DEF ReadPhysicalRecord
  <2> QED
    BY <2>2 DEF Outcome
<1>4. CASE ~(size < HeaderSize)
  <2>1. HeaderSize <= size /\ size # 0
    BY <1>1, <1>4
  <2>2. PICK n \in Nat : n = Len(F)
    OBVIOUS
  <2>3. j # n
    BY <2>1, <2>2 DEF NextBlock
  <2>4. PICK k \in DOMAIN F : k = j + 1
    BY <2>2, <2>3
  <2>5. PICK p \in Piece : p = F[k]
    OBVIOUS
  <2>6. /\ p.start \in Nat /\ p.base \in Int /\ p.type \in RecordType /\ p.len \in Nat /\ p.kept \in Nat
        /\ End(p) = p.start + p.kept
    BY PieceFields
  <2>7. /\ \/ p.start = Offset /\ p.base + BlockSize = nb
           \/ p.start = nb /\ p.base = nb /\ nb < Offset + HeaderSize
        /\ end_of_buffer_offset_ <= nb /\ end_of_buffer_offset_ <= Len(file)
        /\ end_of_buffer_offset_ < nb => eof_ = TRUE
    BY <2>4, <2>5 DEF NextBlock
  <2>8. p.start = Offset /\ p.base + BlockSize = nb
    BY <1>1, <1>2, <2>1, <2>7
  <2>9. Early(F[k], torn)
    BY <1>1 DEF Early
  <2>10. Whole(p) /\ Fits(p) /\ Intact(file, harmed, p)
    BY <2>5, <2>9 DEF Aligned, Seated
  <2>11. Shows(p)
    <3>1. ASSUME NEW i \in 1 .. p.kept, i <= size PROVE p.start + i <= Len(file)
      BY <1>1, <1>2, <2>6, <2>7, <2>8, <3>1
    <3> QED
      BY <1>1, <2>10, <3>1 DEF Intact, Shows
  <2>12. CASE HeaderSize + p.len <= size /\ o.type = p.type /\ Remaining(o) = size - HeaderSize - p.len
    <3>1. Offset' \in Nat /\ Offset' + Remaining(o) = end_of_buffer_offset_
      BY FetchOffset
    <3>2. End(p) = Offset + HeaderSize + p.len
      BY <1>1, <1>2, <2>6, <2>8, <2>10 DEF Whole
    <3>3. Offset' = End(p)
      <4>1. PICK x \in Nat, y \in Nat, m \in Int, d \in Nat :
               x = Offset /\ y = Offset' /\ m = Remaining(o) /\ d = p.len /\ m = size - HeaderSize - d
        <5>1. Remaining(o) \in Int
          BY <1>1, <2>6, <2>12
        <5> QED
          BY <1>2, <2>6, <2>12, <3>1, <5>1
      <4>2. y + m = x + size /\ End(p) = x + HeaderSize + d
        BY <1>2, <3>1, <3>2, <4>1
      <4>3. PICK s \in Nat, h \in Nat : s = size /\ h = HeaderSize /\ m = s - h - d /\ y + m = x + s
        BY <1>1, <4>1, <4>2
      <4>4. y = x + h + d
        BY <4>3
      <4> QED
        BY <4>1, <4>2, <4>3, <4>4
    <3>4. Fetches(F, k, nb, o)
      BY <2>5, <2>6, <2>8, <2>12, <3>3 DEF Fetches
    <3> QED
      BY <2>4, <3>4
  <2>13. CASE HeaderSize + p.len > size /\ (eof_ = TRUE => o.type = "eof")
    <3>1. p.start + HeaderSize + p.len <= nb
      BY <2>8, <2>10 DEF Fits
    <3>2. end_of_buffer_offset_ < nb
      BY <1>1, <1>2, <2>6, <2>8, <2>13, <3>1
    <3> QED
      BY <2>7, <2>13, <3>2
  <2> QED
    BY <1>1, <2>1, <2>8, <2>10, <2>11, <2>12, <2>13, WholeIsReturned
<1> QED
  BY <1>3, <1>4


\* Reading pieces one by one reports nothing.
LEMMA QuietRead ==
    ASSUME TypeInv, NEW F \in Seq(Piece), Explains(F), Aligned(F), Quiet(F),
           Resync \/ Start \/ Continue \/ SkipBad \/ ReadEof
    PROVE  Quiet(F)'
<1>1. SUFFICES ASSUME Calm'
               PROVE  /\ reported' = FALSE
                      /\ phase' = "read" => /\ resyncing_' = FALSE
                                            /\ \E nb \in Nat, j \in 0 .. Len(F) : NextBlock(F, nb, j)'
  BY DEF Quiet
<1>2. /\ phase = "read" /\ torn' = torn /\ harmed' = harmed /\ initial_offset_' = initial_offset_
      /\ file' = file /\ end_of_buffer_offset_' = end_of_buffer_offset_ /\ eof_' = eof_
  BY DEF Resync, Start, Continue, SkipBad, ReadEof, Fetch, writerVars
<1>3. Calm
  BY <1>1, <1>2 DEF Calm
<1>4. reported = FALSE /\ resyncing_ = FALSE /\ torn = 0
  BY <1>2, <1>3 DEF Quiet, Calm
<1>5. PICK nb \in Nat, j \in 0 .. Len(F) : NextBlock(F, nb, j)
  BY <1>2, <1>3 DEF Quiet
<1>6. ASSUME NEW k \in DOMAIN F PROVE Seated(F, k)
  BY <1>4 DEF Aligned, Early
<1>7. ASSUME NEW o \in ReadPhysicalRecord(Buffer, eof_), Fetch(o), NEW k \in DOMAIN F, k = j + 1,
             Fetches(F, k, nb, o), in_fragmented_record' = TRUE <=> F[k].type \notin Ends
      PROVE  \E nx \in Nat, i \in 0 .. Len(F) : NextBlock(F, nx, i)'
  <2>1. F[k] \in Piece /\ End(F[k]) \in Nat /\ Offset' = End(F[k]) /\ F[k].base + BlockSize = nb
    BY <1>7, PieceFields DEF Fetches
  <2>2. /\ size' \in Nat /\ Offset' + size' = end_of_buffer_offset_
        /\ end_of_buffer_offset_ \in Nat /\ file \in Seq(Cell)
    <3>1. size' \in Nat
      BY <1>7, FetchMoves
    <3>2. Offset' + size' = end_of_buffer_offset_
      BY <1>7, FetchOffset
    <3> QED
      BY <3>1, <3>2 DEF TypeInv, TypeOK, Shape
  <2>3. ASSUME NEW m \in DOMAIN F, m = k + 1
        PROVE  \/ F[m].start = Offset' /\ F[m].base + BlockSize = nb
               \/ F[m].start = nb /\ F[m].base = nb /\ nb < Offset' + HeaderSize
    <3>1. Follows(F[k], F[m])
      BY <1>6, <2>3 DEF Seated
    <3> QED
      BY <2>1, <3>1 DEF Follows
  <2>4. k = Len(F) => size' = 0
    <3>1. SUFFICES ASSUME k = Len(F) PROVE size' = 0
      OBVIOUS
    <3>2. F # <<>>
      OBVIOUS
    <3>3. Len(file) <= End(F[k])
      BY <1>4, <3>1, <3>2 DEF Aligned, Rest
    <3>4. end_of_buffer_offset_ <= Len(file) /\ Len(file) \in Nat
      BY <1>5, <2>2 DEF NextBlock
    <3> QED
      BY <2>1, <2>2, <3>3, <3>4
  <2>5. k \in 0 .. Len(F) /\ \A m \in DOMAIN F : m = k => End(F[m]) <= Offset'
    <3>1. k \in 0 .. Len(F)
      OBVIOUS
    <3>2. ASSUME NEW m \in DOMAIN F, m = k PROVE End(F[m]) <= Offset'
      BY <2>1, <3>2
    <3> QED
      BY <3>1, <3>2
  <2>6. in_fragmented_record' = TRUE <=> \E m \in DOMAIN F : m = k /\ F[m].type \notin Ends
    BY <1>7, Zenon
  <2>7. NextBlock(F, nb, k)'
    BY <1>2, <1>5, <2>3, <2>4, <2>5, <2>6 DEF NextBlock
  <2> QED
    BY <2>5, <2>7
<1>8. CASE Resync
  BY <1>4, <1>8 DEF Resync
<1>9. CASE Start
  <2>1. PICK o \in ReadPhysicalRecord(Buffer, eof_) :
          /\ Fetch(o) /\ o.type \in {"full", "first"} /\ resyncing_' = FALSE
          /\ (o.type = "full" /\ in_fragmented_record' = FALSE) \/ (o.type = "first" /\ in_fragmented_record' = TRUE)
          /\ reported' = (reported \/ (in_fragmented_record /\ scratch # <<>>))
    BY <1>9 DEF Start, Return
  <2>2. PICK k \in DOMAIN F : k = j + 1 /\ Fetches(F, k, nb, o)
    BY <1>3, <1>5, <2>1, QuietFetch
  <2>3. F[k].type \in Starts /\ F[k].type = o.type
    BY <2>1, <2>2 DEF Fetches, Starts
  <2>4. in_fragmented_record # TRUE
    <3>1. SUFFICES ASSUME in_fragmented_record = TRUE PROVE FALSE
      OBVIOUS
    <3>2. PICK i \in DOMAIN F : i = j /\ F[i].type \notin Ends
      BY <1>5, <3>1 DEF NextBlock
    <3>3. i + 1 = k
      BY <2>2, <3>2
    <3> QED
      BY <1>6, <2>3, <3>2, <3>3 DEF Seated
  <2>5. reported' = FALSE
    <3>1. in_fragmented_record = FALSE
      BY <2>4 DEF TypeInv, TypeOK
    <3> QED
      BY <1>4, <2>1, <3>1, Zenon
  <2>6. in_fragmented_record' = TRUE <=> F[k].type \notin Ends
    BY <2>1, <2>3 DEF Ends
  <2> QED
    BY <1>7, <2>1, <2>2, <2>5, <2>6
<1>10. CASE Continue
  <2>1. PICK o \in ReadPhysicalRecord(Buffer, eof_) :
          /\ Fetch(o) /\ o.type \in {"middle", "last"} /\ resyncing_' = resyncing_
          /\ \/ in_fragmented_record /\ o.type = "middle" /\ in_fragmented_record' = in_fragmented_record /\ reported' = reported
             \/ in_fragmented_record /\ o.type = "last" /\ in_fragmented_record' = FALSE /\ reported' = reported
             \/ ~in_fragmented_record
    BY <1>10, Zenon DEF Continue, Return
  <2>2. PICK k \in DOMAIN F : k = j + 1 /\ Fetches(F, k, nb, o)
    BY <1>3, <1>5, <2>1, QuietFetch
  <2>3. F[k].type \notin Starts /\ F[k].type = o.type
    BY <2>1, <2>2 DEF Fetches, Starts
  <2>4. in_fragmented_record = TRUE
    <3>1. PICK i \in DOMAIN F : i + 1 = k /\ F[i].type \notin Ends
      BY <2>3 DEF Explains, Layout, Part, Continues
    <3>2. i = j
      BY <2>2, <3>1
    <3> QED
      BY <1>5, <3>1, <3>2 DEF NextBlock
  <2>5. reported' = FALSE /\ resyncing_' = FALSE
    BY <1>4, <2>1, <2>4
  <2>6. in_fragmented_record' = TRUE <=> F[k].type \notin Ends
    BY <2>1, <2>3, <2>4 DEF Ends
  <2> QED
    BY <1>7, <2>1, <2>2, <2>5, <2>6
<1>11. CASE SkipBad
  <2>1. PICK o \in ReadPhysicalRecord(Buffer, eof_) : Fetch(o) /\ o.type \in {"bad", "skipped"}
    BY <1>11 DEF SkipBad
  <2>2. PICK k \in DOMAIN F : Fetches(F, k, nb, o)
    BY <1>3, <1>5, <2>1, QuietFetch
  <2> QED
    BY <2>1, <2>2 DEF Fetches, RecordType
<1>12. CASE ReadEof
  BY <1>4, <1>12 DEF ReadEof
<1> QED
  BY <1>8, <1>9, <1>10, <1>11, <1>12


\* A block read without error starts with the next piece.
LEMMA QuietBlock ==
    ASSUME TypeInv, NEW F \in Seq(Piece), Aligned(F), Calm, NEW nb \in Nat, NEW j \in 0 .. Len(F),
           NextBlock(F, nb, j), ReadBlock(TRUE)
    PROVE  NextBlock(F, nb + BlockSize, j)'
<1>1. /\ HeaderSize \in Nat /\ 0 < HeaderSize /\ BlockSize \in Nat /\ size \in Nat
      /\ end_of_buffer_offset_ \in Nat /\ file \in Seq(Cell) /\ torn = 0
      /\ Offset \in Nat /\ Offset + size = end_of_buffer_offset_
  BY SizeAssumption, BufferCells DEF TypeInv, TypeOK, Shape, Calm
<1>2. /\ size < HeaderSize /\ ~eof_ /\ file' = file /\ in_fragmented_record' = in_fragmented_record
  BY DEF ReadBlock, writerVars, fragmentVars
<1>3. PICK l \in Nat : l = Len(file)
  BY <1>1
<1>4. end_of_buffer_offset_ = nb /\ nb <= l
  <2>1. ~(end_of_buffer_offset_ < nb) /\ end_of_buffer_offset_ <= nb /\ end_of_buffer_offset_ <= l
    BY <1>2, <1>3 DEF NextBlock
  <2> QED
    BY <1>1, <2>1
<1>5. PICK rest \in Nat : nb + rest = l /\ rest = IF l > nb THEN l - nb ELSE 0
  <2>1. PICK x \in Int : x = IF l > nb THEN l - nb ELSE 0
    <3>1. l - nb \in Int /\ 0 \in Int
      OBVIOUS
    <3> QED
      BY <3>1
  <2>2. x \in Nat /\ nb + x = l
    BY <1>4, <2>1
  <2> QED
    BY <2>1, <2>2
<1>6. PICK n \in Nat : n = IF rest < BlockSize THEN rest ELSE BlockSize
  BY <1>1
<1>7. size' = n /\ end_of_buffer_offset_' = nb + n /\ eof_' = (n < BlockSize)
  BY <1>3, <1>4, <1>5, <1>6, Zenon DEF ReadBlock
<1>8. n <= rest /\ n <= BlockSize
  BY <1>1, <1>6
<1>9. Offset' = nb
  <2>1. Offset' = end_of_buffer_offset_' - size'
    BY DEF Offset
  <2>2. Offset' = (nb + n) - n
    BY <1>7, <2>1
  <2> QED
    BY <2>2
<1>10. end_of_buffer_offset_' <= nb + BlockSize /\ end_of_buffer_offset_' <= Len(file')
  <2>1. nb + n <= nb + BlockSize /\ nb + n <= l
    BY <1>1, <1>5, <1>8
  <2> QED
    BY <1>2, <1>3, <1>7, <2>1
<1>11. eof_' = TRUE <=> end_of_buffer_offset_' < nb + BlockSize
  <2>1. n < BlockSize <=> nb + n < nb + BlockSize
    BY <1>1
  <2>2. eof_' = TRUE <=> n < BlockSize
    BY <1>7, Zenon
  <2> QED
    BY <1>7, <2>1, <2>2
<1>12. ASSUME NEW k \in DOMAIN F, k = j + 1
       PROVE  F[k].start = Offset' /\ F[k].base + BlockSize = nb + BlockSize
  <2>1. PICK p \in Piece : p = F[k]
    OBVIOUS
  <2>2. p.start \in Nat /\ p.base \in Int /\ p.len \in Nat
    BY PieceFields
  <2>3. \/ p.start = Offset /\ p.base + BlockSize = nb
        \/ p.start = nb /\ p.base = nb
    BY <1>12, <2>1 DEF NextBlock
  <2>4. Fits(p)
    BY <1>1, <2>1 DEF Aligned, Early, Seated
  <2>5. p.start + HeaderSize + p.len <= p.base + BlockSize
    BY <2>4 DEF Fits
  <2>6. ~(p.start = Offset /\ p.base + BlockSize = nb)
    <3>1. PICK x \in Nat, y \in Nat, d \in Nat, s \in Nat :
             x = Offset /\ y = p.start /\ d = p.len /\ s = size /\ x + s = nb /\ s < HeaderSize
      BY <1>1, <1>2, <1>4, <2>2
    <3>2. SUFFICES ASSUME y = x, p.base + BlockSize = nb PROVE FALSE
      BY <3>1
    <3>3. y + HeaderSize + d <= nb
      BY <2>5, <3>1, <3>2
    <3> QED
      BY <1>1, <3>1, <3>2, <3>3
  <2> QED
    BY <1>9, <2>1, <2>3, <2>6
<1>13. j = Len(F) => size' = 0
  <2>1. SUFFICES ASSUME j = Len(F) PROVE l <= nb
    <3>1. l <= nb => n = 0
      BY <1>5, <1>6, <1>8
    <3> QED
      BY <1>7, <3>1
  <2>2. CASE F = <<>> /\ file = <<>>
    BY <1>3, <2>2
  <2>3. ASSUME NEW k \in DOMAIN F, k = Len(F), Len(file) <= End(F[k]) PROVE l <= nb
    <3>1. F[k] \in Piece /\ End(F[k]) \in Nat
      BY PieceFields
    <3>2. End(F[k]) <= Offset
      BY <2>1, <2>3 DEF NextBlock
    <3> QED
      BY <1>1, <1>3, <1>4, <2>3, <3>1, <3>2
  <2> QED
    BY <1>1, <2>2, <2>3 DEF Aligned, Rest
<1>14. ASSUME NEW k \in DOMAIN F, k = j PROVE End(F[k]) <= Offset'
  <2>1. F[k] \in Piece /\ End(F[k]) \in Nat
    BY PieceFields
  <2>2. End(F[k]) <= Offset
    BY <1>14 DEF NextBlock
  <2> QED
    BY <1>1, <1>4, <1>9, <2>1, <2>2
<1>15. in_fragmented_record' = TRUE <=> \E k \in DOMAIN F : k = j /\ F[k].type \notin Ends
  BY <1>2 DEF NextBlock
<1> QED
  BY <1>10, <1>11, <1>12, <1>13, <1>14, <1>15 DEF NextBlock

\* No step of a writer, a crash or a reader reports anything while nothing goes
\* wrong.
LEMMA StaysQuiet ==
    ASSUME TypeInv, NEW F \in Seq(Piece), Explains(F), Aligned(F), Quiet(F), Next \/ UNCHANGED vars,
           \A ok \in BOOLEAN : ~Emit(ok)
    PROVE  Quiet(F)'
<1>1. ASSUME phase \in {"write", "idle"}, reported' = reported, phase' # "read" PROVE Quiet(F)'
  BY <1>1 DEF Quiet, TypeInv, Fresh
<1>2. ASSUME NEW n \in 0 .. MaxLength, AddRecord(n) PROVE Quiet(F)'
  BY <1>1, <1>2 DEF AddRecord
<1>3. CASE Disturb
  BY <1>1, <1>3 DEF Disturb, Crash, Damage
<1>4. ASSUME NEW o \in 0 .. Len(file), Open(o) PROVE Quiet(F)'
  <2>1. SUFFICES ASSUME Calm'
                 PROVE  /\ reported' = FALSE /\ resyncing_' = FALSE
                        /\ \E nb \in Nat, j \in 0 .. Len(F) : NextBlock(F, nb, j)'
    BY DEF Quiet
  <2>2. /\ o = 0 /\ reported' = reported /\ size' = size /\ eof_' = eof_ /\ file' = file /\ torn' = torn
        /\ in_fragmented_record' = in_fragmented_record /\ phase = "idle"
        /\ end_of_buffer_offset_' = IF o > 0 THEN SkipToInitialBlock(o) ELSE 0
        /\ resyncing_' = (o > 0)
    BY <1>4, <2>1 DEF Open, Calm, writerVars, fragmentVars, histVars
  <2>3. ~(o > 0)
    BY <2>2
  <2>4. /\ reported' = FALSE /\ size' = 0 /\ eof_' = FALSE /\ in_fragmented_record' = FALSE
        /\ end_of_buffer_offset_' = 0 /\ resyncing_' = FALSE /\ torn = 0
    <3>1. resyncing_' = FALSE /\ end_of_buffer_offset_' = 0
      <4>1. resyncing_' = (o > 0)
        BY <1>4 DEF Open
      <4>2. resyncing_' = FALSE
        <5>1. resyncing_' \in BOOLEAN
          BY TypeStep DEF TypeInv, TypeOK
        <5>2. resyncing_' = TRUE => o > 0
          BY <4>1, Zenon
        <5> QED
          BY <2>3, <5>1, <5>2
      <4>3. end_of_buffer_offset_' = 0
        BY <2>2, <2>3
      <4> QED
        BY <4>2, <4>3
    <3>2. torn = 0
      BY <2>1, <2>2 DEF Calm
    <3> QED
      BY <2>2, <3>1, <3>2 DEF TypeInv, Fresh
  <2>5. PICK z \in Nat : z = 0 /\ z \in 0 .. Len(F)
    OBVIOUS
  <2>6. Offset' = 0 /\ 0 <= Len(file') /\ HeaderSize \in Nat /\ 0 < HeaderSize
    <3>1. Offset' = end_of_buffer_offset_' - size'
      BY DEF Offset
    <3>2. file \in Seq(Cell)
      BY DEF TypeInv, Shape
    <3> QED
      BY <2>2, <2>4, <3>1, <3>2, SizeAssumption
  <2>7. ASSUME NEW k \in DOMAIN F, k = z + 1
        PROVE  F[k].start = z /\ F[k].base = z /\ z < Offset' + HeaderSize
    <3>1. k = 1
      BY <2>5, <2>7
    <3>2. F[k].start = 0 /\ F[k].base = 0
      BY <2>4, <3>1 DEF Aligned, Early, Seated
    <3> QED
      BY <2>5, <2>6, <3>2
  <2>8. \A k \in DOMAIN F : k # z
    BY <2>5
  <2>9. NextBlock(F, z, z)'
    BY <2>4, <2>5, <2>6, <2>7, <2>8 DEF NextBlock
  <2> QED
    BY <2>4, <2>5, <2>9
<1>5. ASSUME NEW ok \in BOOLEAN, ReadBlock(ok) PROVE Quiet(F)'
  <2>1. SUFFICES ASSUME Calm'
                 PROVE  /\ reported' = FALSE /\ resyncing_' = FALSE
                        /\ \E nb \in Nat, j \in 0 .. Len(F) : NextBlock(F, nb, j)'
    BY DEF Quiet
  <2>2. CASE ~ok
    <3>1. torn' = IF torn = 0 \/ end_of_buffer_offset_ + 1 < torn THEN end_of_buffer_offset_ + 1 ELSE torn
      BY <1>5, <2>2 DEF ReadBlock
    <3>2. end_of_buffer_offset_ \in Nat
      BY DEF TypeInv, TypeOK
    <3> QED
      BY <2>1, <3>1, <3>2 DEF Calm
  <2>3. CASE ok
    <3>1. /\ phase = "read" /\ torn' = torn /\ harmed' = harmed /\ initial_offset_' = initial_offset_
          /\ reported' = reported /\ resyncing_' = resyncing_ /\ ReadBlock(TRUE)
      BY <1>5, <2>3 DEF ReadBlock
    <3>2. Calm
      BY <2>1, <3>1 DEF Calm
    <3>3. PICK nb \in Nat, j \in 0 .. Len(F) : NextBlock(F, nb, j)
      BY <3>1, <3>2 DEF Quiet
    <3>4. reported' = FALSE /\ resyncing_' = FALSE
      BY <3>1, <3>2 DEF Quiet
    <3>5. NextBlock(F, nb + BlockSize, j)'
      BY <3>1, <3>2, <3>3, QuietBlock
    <3>6. nb + BlockSize \in Nat
      BY SizeAssumption
    <3> QED
      BY <3>4, <3>5, <3>6
  <2> QED
    BY <2>2, <2>3
<1>6. CASE UNCHANGED vars
  <2>1. Calm' <=> Calm
    BY <1>6 DEF Calm, vars, histVars, readerVars
  <2>2. \A nb \in Nat, j \in 0 .. Len(F) : NextBlock(F, nb, j) => NextBlock(F, nb, j)'
    BY <1>6 DEF NextBlock, Offset, vars, writerVars, readerVars, bufferVars, fragmentVars
  <2>3. reported' = reported /\ phase' = phase /\ resyncing_' = resyncing_
    BY <1>6 DEF vars, histVars, readerVars
  <2> QED
    BY <2>1, <2>2, <2>3 DEF Quiet
<1> QED
  BY <1>2, <1>3, <1>4, <1>5, <1>6, QuietRead DEF Next, Write, Read

-----------------------------------------------------------------------------
(* Nothing else is lost. *)

\* A block starts here.
Multiple(n) == \E q \in Nat : n = q * BlockSize

\* The blocks before a block.
LEMMA Product ==
    ASSUME NEW x \in Int, NEW y \in Int, NEW b \in Nat, x < y
    PROVE  b * x \in Int /\ b * y \in Int /\ b * x + b <= b * y
<1>1. PICK d \in Nat : y = (x + 1) + d
  <2>1. y - (x + 1) \in Nat /\ y = (x + 1) + (y - (x + 1))
    OBVIOUS
  <2> QED
    BY <2>1
<1>2. b * d \in Nat
  OBVIOUS
<1>3. b * y = b * x + b + b * d
  BY <1>1
<1> QED
  BY <1>2, <1>3

\* From one block to the next.
LEMMA Blocks ==
    /\ Multiple(0)
    /\ \A a \in Nat : Multiple(a) => Multiple(a + BlockSize)
    /\ \A a \in Nat, b \in Nat : Multiple(a) /\ Multiple(b) /\ a < b => a + BlockSize <= b
    /\ \A b \in Nat : Multiple(b) /\ 0 < b => \E a \in Nat : Multiple(a) /\ b = a + BlockSize
<1>1. BlockSize \in Nat /\ 0 < BlockSize
  BY SizeAssumption
<1>2. Multiple(0)
  <2>1. PICK q \in Nat : q = 0
    OBVIOUS
  <2>2. 0 = q * BlockSize
    BY <1>1, <2>1
  <2> QED
    BY <2>2 DEF Multiple
<1>3. ASSUME NEW a \in Nat, Multiple(a) PROVE Multiple(a + BlockSize)
  <2>1. PICK q \in Nat : a = q * BlockSize
    BY <1>3 DEF Multiple
  <2>2. a + BlockSize = (q + 1) * BlockSize /\ q + 1 \in Nat
    BY <1>1, <2>1
  <2> QED
    BY <2>2 DEF Multiple
<1>4. ASSUME NEW a \in Nat, NEW b \in Nat, Multiple(a), Multiple(b), a < b PROVE a + BlockSize <= b
  <2>1. PICK p \in Nat, q \in Nat : a = p * BlockSize /\ b = q * BlockSize
    BY <1>4 DEF Multiple
  <2>2. a = BlockSize * p /\ b = BlockSize * q
    BY <1>1, <2>1
  <2>3. CASE p < q
    BY <1>1, <2>2, <2>3, Product
  <2>4. CASE q < p
    <3>1. BlockSize * q + BlockSize <= BlockSize * p
      BY <1>1, <2>4, Product
    <3> QED
      BY <1>1, <1>4, <2>2, <3>1
  <2>5. CASE p = q
    BY <1>4, <2>2, <2>5
  <2> QED
    BY <2>3, <2>4, <2>5
<1>5. ASSUME NEW b \in Nat, Multiple(b), 0 < b
      PROVE  \E a \in Nat : Multiple(a) /\ b = a + BlockSize
  <2>1. PICK q \in Nat : b = q * BlockSize
    BY <1>5 DEF Multiple
  <2>2. q # 0
    BY <1>1, <1>5, <2>1
  <2>3. PICK p \in Nat : q = p + 1
    <3>1. q - 1 \in Nat /\ q = (q - 1) + 1
      BY <2>2
    <3> QED
      BY <3>1
  <2>4. PICK a \in Nat : a = p * BlockSize
    BY <1>1
  <2>5. b = a + BlockSize
    BY <1>1, <2>1, <2>3, <2>4
  <2> QED
    BY <2>4, <2>5 DEF Multiple
<1> QED
  BY <1>2, <1>3, <1>4, <1>5

\* The number of a byte's block.
LEMMA BlockNumber ==
    ASSUME NEW x \in Nat
    PROVE  /\ x \div BlockSize \in Int
           /\ BlockSize * (x \div BlockSize) <= x /\ x < BlockSize * (x \div BlockSize) + BlockSize
<1>1. BlockSize \in Nat /\ 0 < BlockSize
  BY SizeAssumption
<1>2. /\ x % BlockSize \in Nat /\ x = BlockSize * (x \div BlockSize) + (x % BlockSize)
      /\ x \div BlockSize \in Int /\ x % BlockSize < BlockSize
  BY <1>1
<1>3. PICK q \in Int, c \in Nat : q = x \div BlockSize /\ c = x % BlockSize
  BY <1>2
<1>4. BlockSize * q \in Int
  BY <1>1
<1>5. x = BlockSize * q + c /\ c < BlockSize
  BY <1>2, <1>3
<1>6. BlockSize * q <= x /\ x < BlockSize * q + BlockSize
  BY <1>1, <1>4, <1>5
<1> QED
  BY <1>2, <1>3, <1>6

\* A later byte lies in the same block or in a later one.
LEMMA BlocksInOrder ==
    ASSUME NEW x \in Nat, NEW y \in Nat, x <= y
    PROVE  x \div BlockSize \in Int /\ y \div BlockSize \in Int /\ x \div BlockSize <= y \div BlockSize
<1>1. PICK p \in Int, q \in Int : p = x \div BlockSize /\ q = y \div BlockSize
  BY BlockNumber
<1>2. BlockSize * p <= x /\ y < BlockSize * q + BlockSize /\ BlockSize \in Nat
  BY <1>1, BlockNumber, SizeAssumption
<1>3. ASSUME q < p PROVE FALSE
  <2>1. BlockSize * q \in Int /\ BlockSize * p \in Int /\ BlockSize * q + BlockSize <= BlockSize * p
    BY <1>2, <1>3, Product
  <2> QED
    BY <1>2, <2>1
<1> QED
  BY <1>1, <1>3

\* Two bytes of a block.
LEMMA SameBlock ==
    ASSUME NEW m \in Nat, Multiple(m), NEW x \in Nat, NEW y \in Nat,
           m <= x, x < m + BlockSize, m <= y, y < m + BlockSize
    PROVE  x \div BlockSize = y \div BlockSize
<1>1. PICK q \in Nat : m = BlockSize * q
  <2>1. PICK q \in Nat : m = q * BlockSize
    BY DEF Multiple
  <2>2. m = BlockSize * q
    BY <2>1, SizeAssumption
  <2> QED
    BY <2>2
<1>2. ASSUME NEW s \in Nat, m <= s, s < m + BlockSize PROVE s \div BlockSize = q
  <2>1. PICK p \in Int : p = s \div BlockSize
    BY BlockNumber
  <2>2. BlockSize * p <= s /\ s < BlockSize * p + BlockSize /\ BlockSize \in Nat
    BY <2>1, BlockNumber, SizeAssumption
  <2>3. ASSUME p < q PROVE FALSE
    <3>1. BlockSize * p \in Int /\ BlockSize * q \in Int /\ BlockSize * p + BlockSize <= BlockSize * q
      BY <2>2, <2>3, Product
    <3> QED
      BY <1>1, <1>2, <2>2, <3>1
  <2>4. ASSUME q < p PROVE FALSE
    <3>1. BlockSize * p \in Int /\ BlockSize * q \in Int /\ BlockSize * q + BlockSize <= BlockSize * p
      BY <2>2, <2>4, Product
    <3> QED
      BY <1>1, <1>2, <2>2, <3>1
  <2> QED
    BY <2>1, <2>3, <2>4
<1> QED
  BY <1>2

\* Reading starts with a block, at or before the fragment looked for.
LEMMA SkipTo ==
    ASSUME NEW o \in Nat
    PROVE  /\ Multiple(SkipToInitialBlock(o))
           /\ \A b \in Nat, s \in Nat :
                 Multiple(b) /\ b <= s /\ s + HeaderSize <= b + BlockSize /\ o <= s
                    => SkipToInitialBlock(o) <= s
<1>1. BlockSize \in Nat /\ BlockSize > 0 /\ HeaderSize \in Nat /\ HeaderSize < BlockSize
  BY SizeAssumption
<1>2. /\ o % BlockSize \in Nat /\ o = BlockSize * (o \div BlockSize) + (o % BlockSize)
      /\ o \div BlockSize \in Int /\ o % BlockSize < BlockSize
  BY <1>1
<1>3. PICK q \in Int, c \in Nat : q = o \div BlockSize /\ c = o % BlockSize
  BY <1>2
<1>4. o = BlockSize * q + c /\ c < BlockSize /\ BlockSize * q \in Int
  BY <1>1, <1>2, <1>3
<1>5. q \in Nat
  <2>1. ASSUME q < 0 PROVE FALSE
    <3>1. PICK z \in Int : z = 0
      OBVIOUS
    <3>2. BlockSize * q + BlockSize <= BlockSize * z
      BY <1>1, <2>1, <3>1, Product
    <3>3. BlockSize * z = 0
      BY <1>1, <3>1
    <3> QED
      BY <1>1, <1>4, <3>2, <3>3
  <2> QED
    BY <2>1
<1>6. PICK m \in Nat : m = BlockSize * q /\ o = m + c
  <2>1. BlockSize * q \in Nat
    BY <1>1, <1>5
  <2> QED
    BY <1>4, <2>1
<1>7. Multiple(m)
  <2>1. m = q * BlockSize
    BY <1>1, <1>6
  <2> QED
    BY <1>5, <2>1 DEF Multiple
<1>8. SkipToInitialBlock(o) = IF c > BlockSize - (HeaderSize - 1) THEN m + BlockSize ELSE m
  <2>1. o - c = m /\ o - c + BlockSize = m + BlockSize /\ o - c + 0 = m
    BY <1>1, <1>6
  <2> QED
    BY <1>3, <2>1 DEF SkipToInitialBlock
<1>9. Multiple(SkipToInitialBlock(o))
  BY <1>7, <1>8, Blocks
<1>10. ASSUME NEW b \in Nat, NEW s \in Nat, Multiple(b), b <= s, s + HeaderSize <= b + BlockSize, o <= s
       PROVE  SkipToInitialBlock(o) <= s
  <2>1. CASE c > BlockSize - (HeaderSize - 1)
    <3>1. PICK n \in Nat : n = m + BlockSize /\ Multiple(n)
      <4>1. m + BlockSize \in Nat /\ Multiple(m + BlockSize)
        BY <1>1, <1>7, Blocks
      <4> QED
        BY <4>1
    <3>2. ASSUME s < n PROVE FALSE
      <4>1. b < n
        BY <1>10, <3>2
      <4>2. b + BlockSize <= n
        BY <1>10, <3>1, <4>1, Blocks
      <4> QED
        BY <1>1, <1>6, <1>10, <2>1, <3>1, <4>2
    <3> QED
      BY <1>1, <1>8, <2>1, <3>1, <3>2
  <2>2. CASE ~(c > BlockSize - (HeaderSize - 1))
    BY <1>6, <1>8, <1>10, <2>2
  <2> QED
    BY <2>1, <2>2
<1> QED
  BY <1>9, <1>10

\* The pieces of record r are j .. k: whole, one behind the other, the first of
\* them starts the record, and only the last may end it.
Span(F, r, j, k) ==
    /\ j <= k /\ F[j].type \in Starts
    /\ \A m \in DOMAIN F : F[m].rec = r <=> m \in j .. k
    /\ \A m \in DOMAIN F : m \in j .. k =>
          Whole(F[m]) /\ (m < k => F[m].type \notin Ends) /\ (m > j => F[m].type \notin Starts)

\* The pieces of a record that was written in full.
Complete(F, r, a, j, k) ==
    Span(F, r, j, k) /\ F[j].start = a.offset /\ F[k].type \in Ends /\ End(F[k]) = a.end

\* Records written in full have all their pieces; the one being added has those
\* written so far.
Chains(F) ==
    /\ \A r \in DOMAIN added : added[r].end > 0 =>
          \E j \in DOMAIN F, k \in DOMAIN F : Complete(F, r, added[r], j, k)
    /\ phase = "write" /\ Adding => added[Len(added)].end = 0
    /\ phase = "write" /\ left > 0 /\ begin = FALSE =>
          \E j \in DOMAIN F, k \in DOMAIN F :
             /\ k = Len(F) /\ Span(F, Len(added), j, k)
             /\ F[j].start = added[Len(added)].offset /\ F[k].type \notin Ends

\* The block of piece k starts with a piece.
Rooted(F, k) == \E l \in DOMAIN F : l <= k /\ F[l].start = F[k].base

\* The writer's blocks are those of the file, and a piece stands at the start of
\* each block that has one.
Gridded(F) ==
    \A k \in DOMAIN F : Early(F[k], torn) =>
       F[k].base \in Nat /\ Multiple(F[k].base) /\ Rooted(F, k)

\* A piece of another record behind the last.
LEMMA SpanStays ==
    ASSUME NEW F \in Seq(Piece), NEW g \in Piece, NEW G, G = Append(F, g), NEW r, r # g.rec,
           NEW j \in DOMAIN F, NEW k \in DOMAIN F, Span(F, r, j, k)
    PROVE  Span(G, r, j, k)
<1>1. PICK n \in Nat : n = Len(F)
  OBVIOUS
<1>2. /\ G \in Seq(Piece) /\ Len(G) = n + 1 /\ n + 1 \in DOMAIN G /\ G[n + 1] = g
      /\ \A m \in DOMAIN G : m \in DOMAIN F \/ m = n + 1
      /\ \A m \in DOMAIN F : m \in DOMAIN G /\ m \in 1 .. n /\ G[m] = F[m]
  BY <1>1, OneMore
<1>3. n + 1 \notin j .. k
  BY <1>1
<1>4. ASSUME NEW m \in DOMAIN G PROVE G[m].rec = r <=> m \in j .. k
  <2>1. CASE m \in DOMAIN F
    BY <1>2, <2>1 DEF Span
  <2>2. CASE m = n + 1
    BY <1>2, <1>3, <2>2
  <2> QED
    BY <1>2, <2>1, <2>2
<1>5. ASSUME NEW m \in DOMAIN G, m \in j .. k
      PROVE  Whole(G[m]) /\ (m < k => G[m].type \notin Ends) /\ (m > j => G[m].type \notin Starts)
  <2>1. m \in DOMAIN F /\ G[m] = F[m]
    BY <1>2, <1>3, <1>5
  <2> QED
    BY <1>5, <2>1 DEF Span
<1> QED
  BY <1>2, <1>4, <1>5 DEF Span

\* A first piece behind the last.
LEMMA SpanStarts ==
    ASSUME NEW F \in Seq(Piece), NEW g \in Piece, NEW G, G = Append(F, g), NEW n \in Nat, n = Len(F),
           \A k \in DOMAIN F : F[k].rec # g.rec, g.type \in Starts, Whole(g)
    PROVE  Span(G, g.rec, n + 1, n + 1)
<1>2. /\ G \in Seq(Piece) /\ Len(G) = n + 1 /\ n + 1 \in DOMAIN G /\ G[n + 1] = g
      /\ \A m \in DOMAIN G : m \in DOMAIN F \/ m = n + 1
      /\ \A m \in DOMAIN F : m \in DOMAIN G /\ m \in 1 .. n /\ G[m] = F[m]
  BY OneMore
<1>3. PICK s \in Nat : s = n + 1
  OBVIOUS
<1>4. \A m \in s .. s : m = s
  OBVIOUS
<1>5. s \in s .. s /\ \A m \in DOMAIN F : m \notin s .. s
  BY <1>2, <1>3
<1>6. ASSUME NEW m \in DOMAIN G PROVE G[m].rec = g.rec <=> m \in s .. s
  BY <1>2, <1>3, <1>5
<1>7. ASSUME NEW m \in DOMAIN G, m \in s .. s PROVE Whole(G[m]) /\ ~(m < s) /\ ~(m > s)
  BY <1>2, <1>3, <1>4, <1>7
<1>8. Span(G, g.rec, s, s)
  BY <1>2, <1>3, <1>6, <1>7 DEF Span
<1> QED
  BY <1>3, <1>8

\* The next piece of the record that the last piece belongs to.
LEMMA SpanGrows ==
    ASSUME NEW F \in Seq(Piece), NEW g \in Piece, NEW G, G = Append(F, g), NEW n \in Nat, n = Len(F),
           NEW j \in DOMAIN F, n \in DOMAIN F, Span(F, g.rec, j, n), F[n].type \notin Ends,
           g.type \notin Starts, Whole(g)
    PROVE  Span(G, g.rec, j, n + 1) /\ j \in DOMAIN G /\ G[j] = F[j]
<1>2. /\ G \in Seq(Piece) /\ Len(G) = n + 1 /\ n + 1 \in DOMAIN G /\ G[n + 1] = g
      /\ \A m \in DOMAIN G : m \in DOMAIN F \/ m = n + 1
      /\ \A m \in DOMAIN F : m \in DOMAIN G /\ m \in 1 .. n /\ G[m] = F[m]
  BY OneMore
<1>3. PICK s \in Nat : s = n + 1
  OBVIOUS
<1>4. j <= s /\ s \in j .. s /\ j <= n
  BY <1>2, <1>3
<1>5. ASSUME NEW m \in DOMAIN F PROVE m \in j .. n <=> m \in j .. s
  BY <1>2, <1>3
<1>6. ASSUME NEW m \in DOMAIN G PROVE G[m].rec = g.rec <=> m \in j .. s
  <2>1. CASE m \in DOMAIN F
    BY <1>2, <1>5, <2>1 DEF Span
  <2>2. CASE m = n + 1
    BY <1>2, <1>3, <1>4, <2>2
  <2> QED
    BY <1>2, <2>1, <2>2
<1>7. ASSUME NEW m \in DOMAIN G, m \in j .. s
      PROVE  Whole(G[m]) /\ (m < s => G[m].type \notin Ends) /\ (m > j => G[m].type \notin Starts)
  <2>1. CASE m \in DOMAIN F
    <3>1. m \in j .. n /\ G[m] = F[m] /\ m \in 1 .. n
      BY <1>2, <1>5, <1>7, <2>1
    <3>2. Whole(F[m]) /\ (m < n => F[m].type \notin Ends) /\ (m > j => F[m].type \notin Starts)
      BY <2>1, <3>1 DEF Span
    <3>3. F[m].type \notin Ends
      BY <3>1, <3>2
    <3> QED
      BY <3>1, <3>2, <3>3
  <2>2. CASE m = n + 1
    BY <1>2, <1>3, <2>2
  <2> QED
    BY <1>2, <2>1, <2>2
<1>8. Span(G, g.rec, j, s)
  <2>1. G[j].type \in Starts
    BY <1>2 DEF Span
  <2> QED
    BY <1>4, <1>6, <1>7, <2>1 DEF Span
<1> QED
  BY <1>2, <1>3, <1>8

\* A round of AddRecord's loop starts the chain of its record or makes it longer.
LEMMA EmitChains ==
    ASSUME TypeInv, NEW F \in Seq(Piece), Explains(F), Chains(F), NEW ok \in BOOLEAN, Emit(ok),
           NEW g \in Piece, NEW z \in Nat, Cut(g, z), Grown(file', g), Counted(g, z, ok)
    PROVE  Chains(Append(F, g))'
<1>1. /\ phase = "write" /\ Adding /\ left \in Nat /\ begin \in BOOLEAN /\ added \in Seq(Added)
      /\ phase' = "write" /\ g.len \in Nat
  <2>1. phase = "write" /\ Adding /\ phase' = "write"
    BY DEF Emit
  <2>2. left \in Nat
    BY LogBoundsAssumption DEF TypeInv, TypeOK
  <2>3. begin \in BOOLEAN /\ added \in Seq(Added)
    BY DEF TypeInv, TypeOK, Shape
  <2>4. g.len \in Nat
    BY PieceFields
  <2> QED
    BY <2>1, <2>2, <2>3, <2>4
<1>2. /\ g.rec \in DOMAIN added /\ DOMAIN added' = DOMAIN added /\ Len(added') = Len(added)
      /\ \A r \in DOMAIN added : r # g.rec => added'[r] = added[r]
      /\ added'[g.rec].offset = IF begin THEN g.start ELSE added[g.rec].offset
      /\ added'[g.rec].end = IF ok /\ left = g.len THEN End(g) ELSE 0
  BY <1>1, Bookkeeping
<1>3. /\ g.rec = Len(added) /\ g.len <= left
      /\ g.type \in Starts <=> begin
      /\ g.type \in Ends <=> g.len = left
  BY DEF Cut
<1>4. /\ begin' = FALSE
      /\ ok => Whole(g)
      /\ left' = IF ok THEN left - g.len ELSE 0
  BY DEF Counted
<1>6. PICK G : G = Append(F, g)
  OBVIOUS
<1>7. PICK n \in Nat : n = Len(F)
  OBVIOUS
<1>8. /\ G \in Seq(Piece) /\ Len(G) = n + 1 /\ n + 1 \in DOMAIN G /\ G[n + 1] = g
      /\ \A k \in DOMAIN F : k \in DOMAIN G /\ G[k] = F[k]
  BY <1>6, <1>7, OneMore
<1>9. ASSUME Whole(g)
      PROVE  \E j \in DOMAIN G : Span(G, g.rec, j, n + 1) /\ G[j].start = added'[g.rec].offset
  <2>1. CASE begin
    <3>1. \A k \in DOMAIN F : F[k].rec # g.rec
      BY <1>1, <1>3, <2>1 DEF Explains, Writer
    <3>2. Span(G, g.rec, n + 1, n + 1)
      BY <1>3, <1>6, <1>7, <1>9, <2>1, <3>1, SpanStarts
    <3> QED
      BY <1>2, <1>8, <2>1, <3>2
  <2>2. CASE ~begin
    <3>1. left > 0 /\ begin = FALSE
      BY <1>1, <2>2 DEF Adding
    <3>2. PICK j \in DOMAIN F, k \in DOMAIN F :
             /\ k = Len(F) /\ Span(F, g.rec, j, k)
             /\ F[j].start = added[g.rec].offset /\ F[k].type \notin Ends
      BY <1>1, <1>3, <3>1 DEF Chains
    <3>3. n \in DOMAIN F /\ Span(F, g.rec, j, n) /\ F[n].type \notin Ends
      BY <1>7, <3>2
    <3>4. g.type \notin Starts
      BY <1>3, <2>2
    <3>5. Span(G, g.rec, j, n + 1) /\ j \in DOMAIN G /\ G[j] = F[j]
      BY <1>6, <1>7, <1>9, <3>3, <3>4, SpanGrows, ZenonT(60)
    <3> QED
      BY <1>2, <2>2, <3>2, <3>5
  <2> QED
    BY <2>1, <2>2
<1>10. ASSUME NEW r \in DOMAIN added, added'[r].end > 0
       PROVE  \E j \in DOMAIN G, k \in DOMAIN G : Complete(G, r, added'[r], j, k)
  <2>1. CASE r = g.rec
    <3>1. Whole(g) /\ left = g.len /\ added'[r].end = End(g)
      BY <1>2, <1>4, <1>10, <2>1
    <3>2. PICK j \in DOMAIN G : Span(G, g.rec, j, n + 1) /\ G[j].start = added'[g.rec].offset
      BY <1>9, <3>1
    <3>3. Complete(G, r, added'[r], j, n + 1)
      BY <1>3, <1>8, <2>1, <3>1, <3>2 DEF Complete
    <3> QED
      BY <1>8, <3>3
  <2>2. CASE r # g.rec
    <3>1. added'[r] = added[r]
      BY <1>2, <2>2
    <3>2. PICK j \in DOMAIN F, k \in DOMAIN F : Complete(F, r, added[r], j, k)
      BY <1>10, <3>1 DEF Chains
    <3>3. Span(F, r, j, k) /\ r \in Nat
      BY <1>1, <3>2 DEF Complete
    <3>4. Span(G, r, j, k)
      BY <1>6, <2>2, <3>3, SpanStays, Zenon
    <3>5. j \in DOMAIN G /\ k \in DOMAIN G /\ G[j] = F[j] /\ G[k] = F[k]
      BY <1>8
    <3>7. Complete(G, r, added'[r], j, k) /\ j \in DOMAIN G /\ k \in DOMAIN G
      BY <3>1, <3>2, <3>4, <3>5 DEF Complete
    <3> QED
      BY <3>7
  <2> QED
    BY <2>1, <2>2
<1>11. ASSUME left' > 0
       PROVE  /\ added'[Len(added')].end = 0
              /\ \E j \in DOMAIN G, k \in DOMAIN G :
                   /\ k = Len(G) /\ Span(G, Len(added'), j, k)
                   /\ G[j].start = added'[Len(added')].offset /\ G[k].type \notin Ends
  <2>1. Whole(g) /\ left # g.len
    BY <1>1, <1>4, <1>11
  <2>2. PICK j \in DOMAIN G : Span(G, g.rec, j, n + 1) /\ G[j].start = added'[g.rec].offset
    BY <1>9, <2>1
  <2>3. Len(added') = g.rec /\ added'[g.rec].end = 0 /\ g.type \notin Ends
    BY <1>2, <1>3, <2>1
  <2>4. n + 1 \in DOMAIN G /\ n + 1 = Len(G) /\ G[n + 1].type \notin Ends
    BY <1>8, <2>3
  <2> QED
    BY <2>2, <2>3, <2>4
<1>12. Chains(G)'
  BY <1>2, <1>4, <1>10, <1>11 DEF Chains, Adding
<1> QED
  BY <1>6, <1>12

\* The piece cut lies in a block of the file.
LEMMA EmitGridded ==
    ASSUME TypeInv, NEW F \in Seq(Piece), Explains(F), Aligned(F), Gridded(F), NEW ok \in BOOLEAN, Emit(ok),
           NEW g \in Piece, NEW z \in Nat, Cut(g, z), Grown(file', g), Counted(g, z, ok)
    PROVE  Gridded(Append(F, g))'
<1>1. phase = "write" /\ torn \in Nat
  BY DEF Emit, TypeInv, TypeOK
<1> PICK G : G = Append(F, g)
  OBVIOUS
<1>2. PICK n \in Nat : G = Append(F, g) /\ n = Len(F)
  OBVIOUS
<1>3. /\ G \in Seq(Piece) /\ n + 1 \in DOMAIN G /\ G[n + 1] = g
      /\ \A k \in DOMAIN G : k \in DOMAIN F \/ k = n + 1
      /\ \A k \in DOMAIN F : k \in DOMAIN G /\ k \in 1 .. n /\ G[k] = F[k]
  BY <1>2, OneMore
<1>4. Aligned(G)'
  BY <1>2, EmitAligned
<1>5. ASSUME NEW k \in DOMAIN F, Early(F[k], torn)
      PROVE  G[k].base \in Nat /\ Multiple(G[k].base) /\ Rooted(G, k)
  <2>1. F[k].base \in Nat /\ Multiple(F[k].base) /\ Rooted(F, k)
    BY <1>5 DEF Gridded
  <2>2. Rooted(G, k)
    BY <1>3, <2>1 DEF Rooted
  <2> QED
    BY <1>3, <2>1, <2>2
<1>6. ASSUME NEW k \in DOMAIN F, Early(F[k], torn') PROVE Early(F[k], torn)
  BY <1>6 DEF Early, Counted
<1>7. ASSUME Early(g, torn')
      PROVE  g.base \in Nat /\ Multiple(g.base) /\ Rooted(G, n + 1)
  <2>1. Seated(G, n + 1)
    BY <1>3, <1>4, <1>7 DEF Aligned
  <2>2. g.start \in Nat /\ g.base \in Int /\ n + 1 \in Nat
    BY PieceFields
  <2>3. CASE n = 0
    <3>1. g.start = 0 /\ g.base = 0
      BY <1>3, <2>1, <2>3 DEF Seated
    <3>2. Rooted(G, n + 1)
      BY <1>3, <3>1 DEF Rooted
    <3> QED
      BY <3>1, <3>2, Blocks
  <2>4. CASE n # 0
    <3>1. PICK k \in DOMAIN F : k = n /\ k \in DOMAIN G /\ G[k] = F[k]
      <4>1. n \in DOMAIN F
        BY <1>2, <2>4
      <4> QED
        BY <1>3, <4>1
    <3>2. Follows(F[k], g)
      BY <1>3, <2>1, <3>1 DEF Seated
    <3>3. Early(F[k], torn)
      <4>1. PICK p \in Piece : p = F[k]
        OBVIOUS
      <4>2. PICK s \in Nat, t \in Nat, d \in Nat : s = p.start /\ t = g.start /\ d = z /\ g.start = Len(file) + z
        BY <2>2, PieceFields DEF Cut
      <4>3. End(p) <= Len(file) /\ p.start + p.kept = End(p) /\ p.kept \in Nat /\ Len(file) \in Nat
        <5>1. End(p) <= Len(file)
          BY <1>1, <4>1 DEF Explains, Writer
        <5>2. Len(file) \in Nat
          BY DEF TypeInv, Shape
        <5> QED
          BY <5>1, <5>2, PieceFields
      <4>4. s <= t
        BY <4>2, <4>3
      <4>5. torn' = 0 \/ t + 1 < torn'
        BY <1>7, <4>2 DEF Early
      <4>6. torn' = torn \/ (torn = 0 /\ torn' = t + 1)
        BY <4>2 DEF Counted
      <4>7. torn = 0 \/ s + 1 < torn
        BY <1>1, <4>4, <4>5, <4>6
      <4> QED
        BY <4>1, <4>2, <4>7 DEF Early
    <3>4. F[k].base \in Nat /\ Multiple(F[k].base) /\ Rooted(F, k)
      BY <3>3 DEF Gridded
    <3>5. CASE g.base = F[k].base
      <4>1. PICK l \in DOMAIN F : l <= k /\ F[l].start = F[k].base
        BY <3>4 DEF Rooted
      <4>2. l \in DOMAIN G /\ l <= n + 1 /\ G[l].start = g.base
        BY <1>3, <3>1, <3>5, <4>1
      <4>3. Rooted(G, n + 1)
        BY <1>3, <4>2 DEF Rooted
      <4> QED
        BY <3>4, <3>5, <4>3
    <3>6. CASE g.base = F[k].base + BlockSize /\ g.start = g.base
      <4>1. Rooted(G, n + 1)
        BY <1>3, <3>6 DEF Rooted
      <4>2. PICK b \in Nat : b = F[k].base
        BY <3>4
      <4>3. BlockSize \in Nat /\ Multiple(b)
        BY <3>4, <4>2, SizeAssumption
      <4>4. b + BlockSize \in Nat /\ Multiple(b + BlockSize)
        BY <4>2, <4>3, Blocks
      <4>5. g.base \in Nat /\ Multiple(g.base)
        BY <3>6, <4>2, <4>4
      <4> QED
        BY <4>1, <4>5
    <3> QED
      BY <3>2, <3>5, <3>6 DEF Follows
  <2> QED
    BY <2>3, <2>4
<1>8. Gridded(G)'
  BY <1>3, <1>5, <1>6, <1>7 DEF Gridded
<1> QED
  BY <1>2, <1>8

\* A failed read, the only step but Emit that changes what torn says, moves it
\* forward.
Sooner(t, u) == u = t \/ (u \in Nat /\ u # 0 /\ (t = 0 \/ u < t))

\* A step that emits nothing leaves the chains and the blocks as they are.
LEMMA StaysChained ==
    ASSUME TypeInv, NEW F \in Seq(Piece), Chains(F), Gridded(F), Next \/ UNCHANGED vars,
           \A ok \in BOOLEAN : ~Emit(ok)
    PROVE  Chains(F)' /\ Gridded(F)'
<1>1. torn \in Nat /\ end_of_buffer_offset_ \in Nat /\ added \in Seq(Added)
  BY DEF TypeInv, TypeOK, Shape
<1>2. ASSUME Sooner(torn, torn') PROVE Gridded(F)'
  <2>1. ASSUME NEW k \in DOMAIN F, Early(F[k], torn') PROVE Early(F[k], torn)
    <3>1. F[k] \in Piece /\ F[k].start \in Nat
      BY PieceFields
    <3> QED
      BY <1>1, <1>2, <2>1, <3>1 DEF Early, Sooner
  <2> QED
    BY <2>1 DEF Gridded
<1>3. ASSUME added' = added, phase' # "write" PROVE Chains(F)'
  BY <1>3 DEF Chains
<1>4. ASSUME NEW n \in 0 .. MaxLength, AddRecord(n) PROVE Chains(F)' /\ Gridded(F)'
  <2>1. /\ phase = "write" /\ begin' = TRUE /\ torn' = torn
        /\ added' = Append(added, [offset |-> 0, len |-> n, end |-> 0])
    BY <1>4 DEF AddRecord
  <2>2. PICK x \in Added : x = [offset |-> 0, len |-> n, end |-> 0] /\ x.end = 0
    <3>1. [offset |-> 0, len |-> n, end |-> 0] \in Added
      BY DEF Added
    <3> QED
      BY <3>1
  <2>3. PICK m \in Nat : m = Len(added)
    BY <1>1
  <2>4. added' = Append(added, x)
    BY <2>1, <2>2
  <2>5. /\ Len(added') = m + 1 /\ added'[m + 1] = x
        /\ \A r \in DOMAIN added' : r \in DOMAIN added \/ r = m + 1
        /\ \A r \in DOMAIN added : added'[r] = added[r]
    BY <1>1, <2>3, <2>4, OneMore
  <2>6. ASSUME NEW r \in DOMAIN added', added'[r].end > 0
        PROVE  \E j \in DOMAIN F, k \in DOMAIN F : Complete(F, r, added'[r], j, k)
    <3>1. r # m + 1
      BY <2>2, <2>5, <2>6
    <3>2. r \in DOMAIN added /\ added'[r] = added[r]
      BY <2>5, <3>1
    <3> QED
      BY <2>6, <3>2 DEF Chains
  <2>7. added'[Len(added')].end = 0
    BY <2>2, <2>5
  <2>8. Chains(F)'
    BY <2>1, <2>6, <2>7 DEF Chains
  <2> QED
    BY <1>2, <2>1, <2>8 DEF Sooner
<1>5. CASE Disturb
  <2>1. phase' = "idle" /\ torn' = torn /\ added' = added
    BY <1>5 DEF Disturb, Crash, Damage
  <2> QED
    BY <1>2, <1>3, <2>1 DEF Sooner
<1>6. ASSUME NEW o \in 0 .. Len(file), Open(o) PROVE Chains(F)' /\ Gridded(F)'
  <2>1. phase' = "read" /\ torn' = torn /\ added' = added
    BY <1>6 DEF Open, histVars
  <2> QED
    BY <1>2, <1>3, <2>1 DEF Sooner
<1>7. ASSUME NEW ok \in BOOLEAN, ReadBlock(ok) PROVE Chains(F)' /\ Gridded(F)'
  <2>1. torn' = torn \/ torn' = (IF torn = 0 \/ end_of_buffer_offset_ + 1 < torn
                                 THEN end_of_buffer_offset_ + 1 ELSE torn)
    BY <1>7 DEF ReadBlock
  <2>2. Sooner(torn, torn')
    BY <1>1, <2>1 DEF Sooner
  <2>3. phase' # "write" /\ added' = added
    BY <1>7 DEF ReadBlock
  <2> QED
    BY <1>2, <1>3, <2>2, <2>3
<1>8. CASE Resync \/ Start \/ Continue \/ SkipBad \/ ReadEof
  <2>1. torn' = torn /\ added' = added /\ phase' # "write"
    BY <1>8 DEF Resync, Start, Continue, SkipBad, ReadEof, Fetch
  <2> QED
    BY <1>2, <1>3, <2>1 DEF Sooner
<1>9. CASE UNCHANGED vars
  <2>1. UNCHANGED <<phase, added, torn, left, begin>>
    BY <1>9 DEF vars, writerVars, histVars
  <2>2. Chains(F)'
    BY <2>1 DEF Chains, Adding
  <2> QED
    BY <1>2, <2>1, <2>2 DEF Sooner
<1> QED
  BY <1>4, <1>5, <1>6, <1>7, <1>8, <1>9 DEF Next, Write, Read

\* The buffer ends with the block that ends at nb, or with the file; a reader
\* that met the end of the file has everything up to where I/O failed.
InBlock(nb) ==
    /\ Multiple(nb) /\ end_of_buffer_offset_ <= nb /\ nb <= Offset + BlockSize
    /\ end_of_buffer_offset_ = nb \/ Len(file) <= end_of_buffer_offset_
    /\ eof_ = TRUE => \/ Len(file) <= end_of_buffer_offset_
                      \/ torn # 0 /\ torn <= end_of_buffer_offset_ + 1
    /\ eof_ = FALSE => end_of_buffer_offset_ = nb

\* Piece k is all in the file, and before where I/O failed.
Readable(F, k) == Early(F[k], torn) /\ End(F[k]) <= Len(file)

\* The reader is between two pieces, and at one if the buffer holds more.
Sync(F) ==
    /\ \A k \in DOMAIN F : Readable(F, k) => End(F[k]) <= Offset \/ Offset <= F[k].start
    /\ \A k \in DOMAIN F :
          Readable(F, k) /\ Offset <= F[k].start /\ F[k].start < end_of_buffer_offset_
             => \E l \in DOMAIN F : l <= k /\ F[l].start = Offset

\* The record that starts at x is among those returned.
Returns(rs, x) == \E i \in DOMAIN rs : rs[i].offset = x

\* Of the records to be returned, those behind the reader were returned and the
\* one the reader is in is being gathered.
Done(F) ==
    \A r \in DOMAIN added : Spared(r) =>
       /\ added[r].end <= Offset => Returns(records, added[r].offset)
       /\ added[r].offset < Offset /\ Offset < added[r].end =>
             in_fragmented_record = TRUE /\ \E i \in DOMAIN F : F[i].rec = r /\ Gathered(F, i)
       /\ resyncing_ = TRUE => Offset <= added[r].offset

\* Where the reader is, and what it has returned by then.
Progress(F) ==
    /\ phase = "read" => (\E nb \in Nat : InBlock(nb)) /\ Sync(F) /\ Done(F)
    /\ NothingElseLost

\* A piece that can be read is whole and lies in a block.
LEMMA ReadablePiece ==
    ASSUME NEW F \in Seq(Piece), Aligned(F), Gridded(F), NEW k \in DOMAIN F, Readable(F, k)
    PROVE  /\ F[k].start \in Nat /\ F[k].base \in Nat /\ End(F[k]) \in Nat
           /\ F[k].start + HeaderSize <= End(F[k]) /\ F[k].start < End(F[k])
           /\ F[k].base <= F[k].start /\ End(F[k]) <= F[k].base + BlockSize
           /\ Multiple(F[k].base) /\ Rooted(F, k) /\ Whole(F[k])
<1>1. PICK p \in Piece : p = F[k]
  OBVIOUS
<1>2. p.start \in Nat /\ p.len \in Nat /\ p.kept \in Nat /\ End(p) \in Nat /\ End(p) = p.start + p.kept
  BY PieceFields
<1>3. p.base \in Nat /\ Multiple(p.base) /\ Rooted(F, k)
  BY <1>1 DEF Gridded, Readable
<1>4. Whole(p) /\ Fits(p)
  BY <1>1 DEF Aligned, Readable, Seated
<1>5. p.kept = HeaderSize + p.len /\ p.base <= p.start /\ p.start + HeaderSize + p.len <= p.base + BlockSize
  BY <1>4 DEF Whole, Fits
<1>6. HeaderSize \in Nat /\ 0 < HeaderSize /\ BlockSize \in Nat
  BY SizeAssumption
<1>7. PICK s \in Nat, b \in Nat, d \in Nat, e \in Nat : s = p.start /\ b = p.base /\ d = p.len /\ e = End(p)
  BY <1>2, <1>3
<1>8. e = s + (HeaderSize + d) /\ b <= s /\ s + HeaderSize + d <= b + BlockSize
  BY <1>2, <1>5, <1>7
<1>9. s + HeaderSize <= e /\ s < e /\ e <= b + BlockSize
  BY <1>6, <1>8
<1> QED
  BY <1>1, <1>3, <1>4, <1>7, <1>8, <1>9

\* No piece that can be read crosses a block.
LEMMA NoCrossing ==
    ASSUME NEW F \in Seq(Piece), Aligned(F), Gridded(F), NEW k \in DOMAIN F, Readable(F, k),
           NEW b \in Nat, Multiple(b), F[k].start < b
    PROVE  End(F[k]) <= b
<1>1. PICK s \in Nat, c \in Nat, e \in Nat :
         s = F[k].start /\ c = F[k].base /\ e = End(F[k]) /\ c <= s /\ e <= c + BlockSize /\ Multiple(c)
  BY ReadablePiece
<1>2. c < b
  BY <1>1
<1>3. c + BlockSize <= b
  BY <1>1, <1>2, Blocks
<1> QED
  BY <1>1, <1>3, SizeAssumption

\* What is before a piece that can be read can be read.
LEMMA ReadableBefore ==
    ASSUME NEW F \in Seq(Piece), Layout(F, added), torn \in Nat, file \in Seq(Cell),
           NEW k \in DOMAIN F, Readable(F, k), NEW l \in DOMAIN F, l <= k
    PROVE  Readable(F, l) /\ F[l].start <= F[k].start /\ End(F[l]) <= End(F[k])
<1>1. CASE l = k
  <2>1. F[k] \in Piece /\ F[k].start \in Nat /\ End(F[k]) \in Nat
    BY PieceFields
  <2> QED
    BY <1>1, <2>1
<1>2. CASE l # k
  <2>1. End(F[l]) <= F[k].start
    BY <1>2 DEF Layout, InOrder
  <2>2. PICK p \in Piece, q \in Piece : p = F[l] /\ q = F[k]
    OBVIOUS
  <2>3. PICK s \in Nat, m \in Nat, t \in Nat, n \in Nat :
           s = p.start /\ m = p.kept /\ t = q.start /\ n = q.kept /\ End(p) = s + m /\ End(q) = t + n
    BY PieceFields
  <2>4. s + m <= t
    BY <2>1, <2>2, <2>3
  <2>5. s <= t /\ s + m <= t + n
    BY <2>4
  <2>6. torn = 0 \/ t + 1 < torn
    BY <2>2, <2>3 DEF Readable, Early
  <2>7. torn = 0 \/ s + 1 < torn
    BY <2>5, <2>6
  <2>8. t + n <= Len(file) /\ Len(file) \in Nat
    BY <2>2, <2>3 DEF Readable
  <2>9. s + m <= Len(file)
    BY <2>5, <2>8
  <2> QED
    BY <2>2, <2>3, <2>5, <2>7, <2>9 DEF Readable, Early
<1> QED
  BY <1>1, <1>2

\* All pieces of a record that nothing happened to can be read.
LEMMA SparedChain ==
    ASSUME TypeInv, NEW F \in Seq(Piece), Layout(F, added), Chains(F), NEW r \in DOMAIN added, Spared(r)
    PROVE  /\ added[r].offset \in Nat /\ added[r].end \in Nat /\ added[r].offset < added[r].end
           /\ \E j \in DOMAIN F, k \in DOMAIN F :
                 Complete(F, r, added[r], j, k) /\ \A m \in DOMAIN F : m \in j .. k => Readable(F, m)
<1>1. torn \in Nat /\ file \in Seq(Cell) /\ added[r] \in Added
  BY DEF TypeInv, TypeOK, Shape
<1>2. PICK x \in Nat, y \in Nat : x = added[r].offset /\ y = added[r].end
  BY <1>1 DEF Added
<1>3. 0 < y /\ y <= Len(file) /\ (torn # 0 => y < torn)
  BY <1>2 DEF Spared
<1>4. PICK j \in DOMAIN F, k \in DOMAIN F : Complete(F, r, added[r], j, k)
  BY <1>2, <1>3 DEF Chains
<1>5. Span(F, r, j, k) /\ F[j].start = x /\ End(F[k]) = y
  BY <1>2, <1>4 DEF Complete
<1>6. HeaderSize \in Nat /\ 0 < HeaderSize /\ j \in Nat /\ k \in Nat /\ j <= k
  BY <1>5, SizeAssumption DEF Span
<1>7. ASSUME NEW m \in DOMAIN F, m \in j .. k
      PROVE  F[m].start \in Nat /\ F[m].start < End(F[m])
  <2>1. PICK p \in Piece : p = F[m]
    OBVIOUS
  <2>2. PICK s \in Nat, d \in Nat : s = p.start /\ d = p.len /\ End(p) = s + p.kept
    BY PieceFields
  <2>3. p.kept = HeaderSize + d
    BY <1>5, <1>7, <2>1, <2>2 DEF Span, Whole
  <2>4. End(p) = s + (HeaderSize + d)
    BY <2>2, <2>3
  <2>5. s < s + (HeaderSize + d)
    BY <1>6
  <2> QED
    BY <2>1, <2>2, <2>4, <2>5
<1>8. Readable(F, k)
  <2>1. k \in j .. k
    BY <1>6
  <2>2. PICK s \in Nat : s = F[k].start /\ s < y
    BY <1>5, <1>7, <2>1
  <2>3. torn = 0 \/ s + 1 < torn
    BY <1>1, <1>3, <2>2
  <2> QED
    BY <1>3, <1>5, <2>2, <2>3 DEF Readable, Early
<1>9. ASSUME NEW m \in DOMAIN F, m \in j .. k PROVE Readable(F, m)
  <2>1. m <= k
    BY <1>9
  <2> QED
    BY <1>1, <1>8, <2>1, ReadableBefore
<1>10. x < y
  <2>1. j \in j .. k
    BY <1>6
  <2>2. F[j].start < End(F[j])
    BY <1>7, <2>1
  <2>3. End(F[j]) <= End(F[k])
    BY <1>1, <1>6, <1>8, ReadableBefore
  <2>4. End(F[j]) \in Nat
    <3>1. F[j] \in Piece
      OBVIOUS
    <3> QED
      BY <3>1, PieceFields
  <2> QED
    BY <1>5, <2>2, <2>3, <2>4
<1> QED
  BY <1>2, <1>4, <1>9, <1>10

\* Only what starts before the initial offset is skipped.
LEMMA SkippedBefore ==
    ASSUME TypeInv, NEW o \in ReadPhysicalRecord(Buffer, eof_), o.type = "skipped"
    PROVE  Offset < initial_offset_
<1>1. Offset \in Nat /\ Offset + size = end_of_buffer_offset_ /\ Len(Buffer) = size /\ size \in Nat
      /\ Buffer \in Seq(Cell) /\ end_of_buffer_offset_ \in Nat
  BY BufferCells, SizeAssumption DEF TypeInv, TypeOK
<1>2. PICK b : b = Buffer /\ Len(b) = size
  BY <1>1
<1>3. ASSUME NEW drops PROVE o # Outcome("bad", <<>>, drops) /\ o # Outcome("eof", <<>>, drops)
  BY DEF Outcome
<1>4. o \in ReadPhysicalRecord(b, eof_)
  BY <1>2
<1>5. o \notin Overrun(eof_)
  BY <1>3, Zenon DEF Overrun
<1>6. ~(Len(b) < HeaderSize)
  BY <1>3, <1>4, Zenon DEF ReadPhysicalRecord
<1>7. HeaderIntact(b)
  BY <1>3, <1>4, <1>5, <1>6, Zenon DEF ReadPhysicalRecord
<1>8. ~(HeaderSize + b[1].len > Len(b))
  BY <1>4, <1>5, <1>6, <1>7, Zenon DEF ReadPhysicalRecord
<1>9. CASE end_of_buffer_offset_ - Len(b) < initial_offset_
  BY <1>1, <1>2, <1>9
<1>10. CASE ~(end_of_buffer_offset_ - Len(b) < initial_offset_)
  <2>1. ChecksumMatches(b)
    BY <1>3, <1>4, <1>6, <1>7, <1>8, Zenon DEF ReadPhysicalRecord
  <2>2. PICK d : o = Outcome(b[1].type, d, FALSE)
    BY <1>4, <1>6, <1>7, <1>8, <1>10, <2>1, Zenon DEF ReadPhysicalRecord
  <2>3. b[1].type = "skipped"
    BY <2>2 DEF Outcome
  <2>4. b[1] \in Cell /\ b[1].is = "header"
    <3>1. PICK i \in 1 .. size : i = 1
      BY <1>1, <1>2, <1>6, SizeAssumption
    <3>2. b[i] \in Cell
      BY <1>1, <1>2, <3>1
    <3> QED
      BY <1>7, <3>1, <3>2 DEF HeaderIntact
  <2>5. b[1].type \in RecordType
    BY <2>4 DEF Cell, ZeroCell, BadCell
  <2> QED
    BY <2>3, <2>5 DEF RecordType
<1> QED
  BY <1>9, <1>10

\* Nothing of a spared record's block is damaged, up to the record's end.
LEMMA BlockUnharmed ==
    ASSUME NEW r \in DOMAIN added, Spared(r), NEW x \in Nat, NEW y \in Nat,
           x = added[r].offset, y = added[r].end, NEW m \in Nat, Multiple(m),
           NEW s \in Nat, m <= s, s < m + BlockSize, x <= s, s < y,
           NEW h \in Nat, m <= h, h < m + BlockSize, h < y
    PROVE  h \notin harmed
<1>1. SUFFICES ASSUME h \in harmed PROVE FALSE
  OBVIOUS
<1>2. h >= y \/ h \div BlockSize \notin (x \div BlockSize) .. ((y - 1) \div BlockSize)
  BY <1>1 DEF Spared
<1>3. h \div BlockSize = s \div BlockSize
  BY SameBlock
<1>4. PICK e \in Nat : e = y - 1 /\ s <= e
  <2>1. y - 1 \in Nat /\ s <= y - 1
    OBVIOUS
  <2> QED
    BY <2>1
<1>5. /\ x \div BlockSize \in Int /\ s \div BlockSize \in Int /\ x \div BlockSize <= s \div BlockSize
  BY BlocksInOrder
<1>6. e \div BlockSize \in Int /\ s \div BlockSize <= e \div BlockSize
  BY <1>4, BlocksInOrder
<1>7. s \div BlockSize \in (x \div BlockSize) .. (e \div BlockSize)
  BY <1>5, <1>6
<1> QED
  BY <1>2, <1>3, <1>4, <1>7

\* A spared record that is not behind the reader has a piece in the buffer, if it
\* starts there.
LEMMA PieceAhead ==
    ASSUME TypeInv, NEW F \in Seq(Piece), Explains(F), Aligned(F), Chains(F), Gridded(F), phase = "read",
           NEW nb \in Nat, InBlock(nb), Sync(F), Done(F), size < HeaderSize => eof_ = TRUE,
           NEW r \in DOMAIN added, Spared(r), Offset < added[r].end, added[r].offset < end_of_buffer_offset_
    PROVE  \E m \in DOMAIN F : /\ Readable(F, m) /\ Offset <= F[m].start /\ F[m].start < end_of_buffer_offset_
                               /\ added[r].offset <= F[m].start /\ End(F[m]) <= added[r].end
<1>1. /\ size \in Nat /\ end_of_buffer_offset_ \in Nat /\ eof_ \in BOOLEAN /\ HeaderSize \in Nat
      /\ file \in Seq(Cell) /\ torn \in Nat /\ Offset \in Nat /\ Offset + size = end_of_buffer_offset_
      /\ Layout(F, added) /\ InOrder(F) /\ 0 < HeaderSize
  BY BufferCells, SizeAssumption DEF TypeInv, TypeOK, Shape, Explains, Layout
<1>2. PICK x \in Nat, y \in Nat : x = added[r].offset /\ y = added[r].end
  BY <1>1, SparedChain
<1>3. PICK j \in DOMAIN F, k \in DOMAIN F :
         Complete(F, r, added[r], j, k) /\ \A m \in DOMAIN F : m \in j .. k => Readable(F, m)
  BY <1>1, SparedChain
<1>4. /\ Span(F, r, j, k) /\ F[j].start = x /\ F[k].type \in Ends /\ End(F[k]) = y
      /\ j \in Nat /\ k \in Nat /\ j <= k
  BY <1>2, <1>3 DEF Complete, Span
<1>5. ASSUME NEW m \in DOMAIN F, m \in j .. k
      PROVE  /\ Readable(F, m) /\ F[m].start \in Nat /\ End(F[m]) \in Nat
             /\ F[m].start + HeaderSize <= End(F[m])
             /\ x <= F[m].start /\ End(F[m]) <= y
  <2>1. Readable(F, m) /\ Readable(F, k) /\ m <= k /\ j <= m
    BY <1>3, <1>4, <1>5
  <2>2. /\ F[m].start \in Nat /\ End(F[m]) \in Nat
        /\ F[m].start + HeaderSize <= End(F[m])
    BY <2>1, ReadablePiece
  <2>3. F[j].start <= F[m].start /\ End(F[m]) <= End(F[k])
    BY <1>1, <2>1, ReadableBefore
  <2> QED
    BY <1>4, <2>1, <2>2, <2>3
<1>6. CASE eof_ = TRUE
  <2>1. y <= end_of_buffer_offset_
    <3>1. \/ Len(file) <= end_of_buffer_offset_
          \/ torn # 0 /\ torn <= end_of_buffer_offset_ + 1
      BY <1>6 DEF InBlock
    <3>2. y <= Len(file) /\ (torn # 0 => y < torn) /\ Len(file) \in Nat
      BY <1>1, <1>2 DEF Spared
    <3> QED
      BY <1>1, <3>1, <3>2
  <2>2. k \in j .. k
    BY <1>4
  <2>3. PICK s \in Nat : s = F[k].start /\ s + HeaderSize <= y /\ Readable(F, k) /\ x <= s
    BY <1>4, <1>5, <2>2
  <2>4. y <= Offset \/ Offset <= s
    BY <1>4, <2>3 DEF Sync
  <2>5. Offset <= s /\ s < end_of_buffer_offset_
    BY <1>1, <1>2, <2>1, <2>3, <2>4
  <2>6. s = F[k].start /\ Readable(F, k) /\ x <= s /\ End(F[k]) <= y
    BY <1>4, <2>3
  <2> QED
    BY <1>2, <2>5, <2>6
<1>7. CASE eof_ = FALSE /\ Offset <= x
  <2>1. j \in j .. k
    BY <1>4
  <2>2. Readable(F, j) /\ End(F[j]) <= y /\ F[j].start = x
    BY <1>4, <1>5, <2>1
  <2>3. x < end_of_buffer_offset_ /\ x <= x
    BY <1>2
  <2> QED
    BY <1>2, <1>7, <2>2, <2>3
<1>8. CASE eof_ = FALSE /\ ~(Offset <= x)
  <2>1. PICK i \in DOMAIN F : F[i].rec = r /\ Gathered(F, i)
    <3>1. x < Offset /\ Offset < y
      BY <1>1, <1>2, <1>8
    <3> QED
      BY <1>2, <3>1 DEF Done
  <2>2. /\ F[i].type \notin Ends /\ End(F[i]) <= Offset /\ Offset < End(F[i]) + HeaderSize
    BY <2>1 DEF Gathered
  <2>3. i \in j .. k /\ i # k
    BY <1>4, <2>1, <2>2 DEF Span
  <2>4. PICK m \in DOMAIN F : m = i + 1 /\ m \in j .. k
    <3>1. i + 1 \in j .. k /\ i + 1 \in DOMAIN F
      BY <1>4, <2>3
    <3> QED
      BY <3>1
  <2>5. PICK s \in Nat, e \in Nat, p \in Nat : s = F[m].start /\ e = End(F[m]) /\ p = End(F[i])
    BY <1>5, <2>3, <2>4
  <2>6. Readable(F, m) /\ s + HeaderSize <= e /\ x <= s /\ e <= y
    BY <1>5, <2>4, <2>5
  <2>7. p <= s
    BY <1>1, <2>4, <2>5 DEF InOrder
  <2>8. p <= Offset /\ Offset < p + HeaderSize
    BY <2>2, <2>5
  <2>9. e <= Offset \/ Offset <= s
    BY <2>5, <2>6 DEF Sync
  <2>10. Offset <= s
    BY <1>1, <2>6, <2>7, <2>8, <2>9
  <2>11. s < p + HeaderSize
    <3>1. Follows(F[i], F[m])
      BY <2>4, <2>6 DEF Aligned, Readable, Seated
    <3>2. s = p \/ s < p + HeaderSize
      BY <2>5, <3>1 DEF Follows
    <3> QED
      BY <1>1, <3>2
  <2>12. s < end_of_buffer_offset_
    <3>1. HeaderSize <= size
      BY <1>1, <1>8
    <3> QED
      BY <1>1, <2>8, <2>11, <3>1
  <2> QED
    BY <1>2, <2>5, <2>6, <2>10, <2>12
<1> QED
  BY <1>1, <1>6, <1>7, <1>8

\* While a spared record that is not behind the reader starts in the buffer, the
\* reader is at a fragment, and gets it.
LEMMA MustFetch ==
    ASSUME TypeInv, NEW F \in Seq(Piece), Explains(F), Aligned(F), Chains(F), Gridded(F), phase = "read",
           NEW nb \in Nat, InBlock(nb), Sync(F), Done(F), size < HeaderSize => eof_ = TRUE,
           NEW r \in DOMAIN added, Spared(r), Offset < added[r].end, added[r].offset < end_of_buffer_offset_,
           NEW o \in ReadPhysicalRecord(Buffer, eof_)
    PROVE  o.type \in RecordType \cup {"skipped"}
<1>1. /\ size \in Nat /\ end_of_buffer_offset_ \in Nat /\ HeaderSize \in Nat /\ BlockSize \in Nat
      /\ file \in Seq(Cell) /\ torn \in Nat /\ Offset \in Nat /\ Offset + size = end_of_buffer_offset_
      /\ Layout(F, added) /\ 0 < HeaderSize
  BY BufferCells, SizeAssumption DEF TypeInv, TypeOK, Shape, Explains
<1>2. PICK x \in Nat, y \in Nat : x = added[r].offset /\ y = added[r].end
  BY <1>1, SparedChain
<1>3. PICK m \in DOMAIN F : /\ Readable(F, m) /\ Offset <= F[m].start /\ F[m].start < end_of_buffer_offset_
                            /\ x <= F[m].start /\ End(F[m]) <= y
  BY <1>2, PieceAhead
<1>4. PICK l \in DOMAIN F : l <= m /\ F[l].start = Offset
  BY <1>3 DEF Sync
<1>5. Readable(F, l) /\ End(F[l]) <= End(F[m])
  BY <1>1, <1>3, <1>4, ReadableBefore
<1>6. PICK s \in Nat, e \in Nat, t \in Nat, d \in Nat :
         /\ s = F[m].start /\ e = End(F[m]) /\ t = End(F[l]) /\ d = Offset
         /\ s < e /\ t <= e /\ d + HeaderSize <= t
  BY <1>1, <1>3, <1>4, <1>5, ReadablePiece
<1>7. PICK eb \in Nat, n \in Nat, lf \in Nat :
         eb = end_of_buffer_offset_ /\ n = size /\ lf = Len(file) /\ d + n = eb /\ s < eb /\ d <= s /\ x <= s /\ e <= y
  BY <1>1, <1>2, <1>3, <1>6
<1>8. Multiple(nb) /\ eb <= nb /\ nb <= d + BlockSize /\ (eb = nb \/ lf <= eb)
  BY <1>6, <1>7 DEF InBlock
<1>9. t <= eb /\ t <= lf
  <2>1. F[l].start < nb
    BY <1>4, <1>6, <1>7, <1>8
  <2>2. t <= nb
    BY <1>5, <1>6, <1>8, <2>1, NoCrossing
  <2>3. t <= lf
    BY <1>5, <1>6, <1>7 DEF Readable
  <2> QED
    BY <1>8, <2>2, <2>3
<1>10. PICK b \in Nat : Multiple(b) /\ nb = b + BlockSize
  BY <1>7, <1>8, Blocks
<1>11. PICK p \in Piece : p = F[l]
  OBVIOUS
<1>12. PICK len \in Nat, kept \in Nat : len = p.len /\ kept = p.kept /\ t = d + kept
  <2>1. p.len \in Nat /\ p.kept \in Nat /\ End(p) = p.start + p.kept
    BY PieceFields
  <2> QED
    BY <1>4, <1>6, <1>11, <2>1
<1>13. Whole(p) /\ Intact(file, harmed, p) /\ p.start = d
  BY <1>4, <1>5, <1>6, <1>11 DEF Aligned, Readable, Seated
<1>14. ASSUME NEW i \in 1 .. kept PROVE file[d + i] = CellOf(p, i)
  <2>1. PICK h \in Nat : h = d + i - 1
    BY <1>14
  <2>2. b <= s /\ s < b + BlockSize /\ s < y /\ b <= h /\ h < b + BlockSize /\ h < y
    <3>1. d <= s /\ s < eb /\ eb <= nb /\ nb = b + BlockSize /\ nb <= d + BlockSize
      BY <1>7, <1>8, <1>10
    <3>2. s < e /\ e <= y /\ t <= e /\ t <= eb /\ t = d + kept
      BY <1>6, <1>7, <1>9, <1>12
    <3>3. d <= h /\ h < t
      <4>1. h = d + i - 1 /\ t = d + kept /\ 1 <= i /\ i <= kept /\ i \in Nat
        BY <1>14, <2>1, <3>2
      <4> QED
        BY <4>1
    <3>4. b <= d
      BY <1>1, <3>1
    <3> QED
      BY <1>1, <3>1, <3>2, <3>3, <3>4
  <2>3. h \notin harmed
    BY <1>2, <1>7, <1>10, <2>2, BlockUnharmed
  <2>4. d + i <= Len(file) /\ i \in 1 .. p.kept
    <3>1. i \in Nat /\ i <= kept /\ d + kept <= lf
      BY <1>9, <1>12, <1>14
    <3>2. d + i <= lf
      BY <3>1
    <3> QED
      BY <1>7, <1>12, <3>2
  <2> QED
    BY <1>13, <2>1, <2>3, <2>4 DEF Intact
<1>15. Shows(p)
  BY <1>12, <1>13, <1>14 DEF Shows
<1>16. kept = HeaderSize + len
  BY <1>12, <1>13 DEF Whole
<1>17. HeaderSize <= n /\ ~(HeaderSize + len > n)
  <2>1. d + n = eb /\ t <= eb /\ t = d + (HeaderSize + len)
    BY <1>7, <1>9, <1>12, <1>16
  <2>2. HeaderSize \in Nat
    BY <1>1
  <2>3. HeaderSize + len <= n
    BY <2>1, <2>2
  <2> QED
    BY <2>2, <2>3
<1>18. o.type = p.type \/ o.type = "skipped"
  <2>1. p.start = Offset /\ HeaderSize <= size
    BY <1>6, <1>7, <1>13, <1>17
  <2>2. ~(HeaderSize + p.len > size)
    BY <1>7, <1>12, <1>17
  <2> QED
    BY <1>13, <1>15, <2>1, <2>2, WholeIsReturned
<1>19. p.type \in RecordType
  BY PieceFields
<1> QED
  BY <1>18, <1>19

\* Where the piece fetched stands to a spared record: behind it, before it, or
\* it is one of its pieces.
Place(g, a, x, y) ==
    \/ a.end <= x
    \/ y <= a.offset /\ x <= a.offset
    \/ /\ a.offset < y /\ y <= a.end /\ a.offset <= x
       /\ g.type \in Starts <=> a.offset = x
       /\ g.type \in Ends <=> a.end = y

\* A piece where the reader stands has one of these places.
LEMMA FetchPlace ==
    ASSUME TypeInv, NEW F \in Seq(Piece), Explains(F), Aligned(F), Chains(F), Gridded(F),
           NEW k \in DOMAIN F, Whole(F[k]), F[k].start = Offset,
           NEW r \in DOMAIN added, Spared(r)
    PROVE  /\ Place(F[k], added[r], Offset, End(F[k]))
           /\ added[r].offset < End(F[k]) /\ Offset < added[r].end => F[k].rec = r
<1>1. /\ HeaderSize \in Nat /\ 0 < HeaderSize /\ Offset \in Nat /\ Layout(F, added) /\ InOrder(F)
      /\ torn \in Nat /\ file \in Seq(Cell)
  BY BufferCells, SizeAssumption DEF TypeInv, TypeOK, Shape, Explains, Layout
<1>2. PICK x \in Nat, y \in Nat : x = added[r].offset /\ y = added[r].end /\ x < y
  BY <1>1, SparedChain
<1>3. PICK i \in DOMAIN F, j \in DOMAIN F :
         Complete(F, r, added[r], i, j) /\ \A m \in DOMAIN F : m \in i .. j => Readable(F, m)
  BY <1>1, SparedChain
<1>4. /\ Span(F, r, i, j) /\ F[i].start = x /\ F[j].type \in Ends /\ End(F[j]) = y
      /\ i \in Nat /\ j \in Nat /\ i <= j /\ k \in Nat
  BY <1>2, <1>3 DEF Complete, Span
<1>5. Readable(F, i) /\ Readable(F, j)
  <2>1. i \in i .. j /\ j \in i .. j
    BY <1>4
  <2> QED
    BY <1>3, <2>1
<1>6. PICK u \in Nat, v \in Nat : u = End(F[i]) /\ v = F[j].start /\ x < u /\ v < y
  BY <1>4, <1>5, ReadablePiece
<1>7. PICK d \in Nat, e \in Nat : d = Offset /\ e = End(F[k]) /\ d < e
  <2>1. PICK p \in Piece : p = F[k]
    OBVIOUS
  <2>2. PICK kept \in Nat, len \in Nat : kept = p.kept /\ len = p.len /\ End(p) = p.start + kept
    BY PieceFields
  <2>3. kept = HeaderSize + len
    BY <2>1, <2>2 DEF Whole
  <2>4. End(p) = Offset + kept /\ 0 < kept
    BY <1>1, <2>1, <2>2, <2>3
  <2> QED
    BY <1>1, <2>1, <2>4
<1>8. /\ k < i => e <= x
      /\ i < k => u <= d
      /\ k < j => e <= v
      /\ j < k => y <= d
  BY <1>1, <1>4, <1>6, <1>7 DEF InOrder
<1>9. CASE j < k
  BY <1>2, <1>7, <1>8, <1>9 DEF Place
<1>10. CASE k < i
  BY <1>2, <1>7, <1>8, <1>10 DEF Place
<1>11. CASE i <= k /\ k <= j
  <2>1. k \in i .. j
    BY <1>4, <1>11
  <2>2. F[k].rec = r /\ (k < j => F[k].type \notin Ends) /\ (k > i => F[k].type \notin Starts)
    BY <1>4, <2>1 DEF Span
  <2>3. F[i].type \in Starts
    BY <1>4 DEF Span
  <2>4. F[k].type \in Starts <=> k = i
    BY <1>4, <1>11, <2>2, <2>3
  <2>5. F[k].type \in Ends <=> k = j
    BY <1>4, <1>11, <2>2
  <2>6. k = i <=> x = d
    BY <1>4, <1>6, <1>7, <1>8, <1>11
  <2>7. k = j <=> y = e
    BY <1>4, <1>6, <1>7, <1>8, <1>11
  <2>8. x < e /\ e <= y /\ x <= d
    BY <1>4, <1>6, <1>7, <1>8, <1>11, <2>6, <2>7
  <2>9. Place(F[k], added[r], d, e)
    BY <1>2, <2>4, <2>5, <2>6, <2>7, <2>8 DEF Place
  <2> QED
    BY <1>7, <2>2, <2>9
<1> QED
  BY <1>4, <1>9, <1>10, <1>11

\* A fetch stays in the block, and spares the same records.
LEMMA FetchKeeps ==
    ASSUME TypeInv, NEW nb \in Nat, InBlock(nb), NEW o \in ReadPhysicalRecord(Buffer, eof_), Fetch(o)
    PROVE  InBlock(nb)' /\ \A r : Spared(r)' => Spared(r)
<1>1. /\ file' = file /\ end_of_buffer_offset_' = end_of_buffer_offset_ /\ eof_' = eof_ /\ torn' = torn
      /\ added' = added /\ harmed' = harmed /\ initial_offset_' = initial_offset_
  BY DEF Fetch, writerVars
<1>2. PICK x \in Nat, y \in Nat : x = Offset /\ y = Offset' /\ x <= y
  BY FetchOffset
<1>3. nb <= y + BlockSize
  <2>1. nb <= x + BlockSize
    BY <1>2 DEF InBlock
  <2> QED
    BY <1>2, <2>1, SizeAssumption
<1>4. InBlock(nb)'
  BY <1>1, <1>2, <1>3 DEF InBlock
<1>5. ASSUME NEW r, Spared(r)' PROVE Spared(r)
  BY <1>1, <1>5 DEF Spared
<1> QED
  BY <1>4, <1>5

\* Past a piece the reader is between two pieces again.
LEMMA SyncPast ==
    ASSUME TypeInv, NEW F \in Seq(Piece), Explains(F), Aligned(F), Gridded(F), NEW nb \in Nat, InBlock(nb), Sync(F),
           NEW o \in ReadPhysicalRecord(Buffer, eof_), Fetch(o),
           NEW k \in DOMAIN F, F[k].start = Offset, Offset' = End(F[k]), Offset < Offset'
    PROVE  Sync(F)'
<1>1. /\ file' = file /\ end_of_buffer_offset_' = end_of_buffer_offset_ /\ torn' = torn
      /\ torn \in Nat /\ file \in Seq(Cell) /\ end_of_buffer_offset_ \in Nat
      /\ Layout(F, added) /\ InOrder(F) /\ BlockSize \in Nat
  BY SizeAssumption DEF Fetch, writerVars, TypeInv, TypeOK, Shape, Explains, Layout
<1>2. PICK x \in Nat, y \in Nat, eb \in Nat :
         x = Offset /\ y = Offset' /\ x < y /\ eb = end_of_buffer_offset_ /\ F[k].start = x /\ End(F[k]) = y
  BY <1>1, FetchOffset
<1>3. ASSUME NEW m \in DOMAIN F PROVE Readable(F, m)' <=> Readable(F, m)
  BY <1>1 DEF Readable
<1>4. ASSUME NEW m \in DOMAIN F, Readable(F, m)
      PROVE  /\ F[m].start \in Nat /\ End(F[m]) \in Nat
             /\ End(F[m]) <= y \/ (y <= F[m].start /\ k < m)
  <2>1. PICK s \in Nat, e \in Nat : s = F[m].start /\ e = End(F[m]) /\ s < e
    BY <1>4, ReadablePiece
  <2>2. e <= x \/ x <= s
    BY <1>2, <1>4, <2>1 DEF Sync
  <2>3. CASE m = k
    BY <1>2, <2>1, <2>3
  <2>4. CASE k < m
    <3>1. y <= s
      BY <1>1, <1>2, <2>1, <2>4 DEF InOrder
    <3> QED
      BY <2>1, <2>4, <3>1
  <2>5. CASE m < k
    <3>1. e <= x
      BY <1>1, <1>2, <2>1, <2>5 DEF InOrder
    <3>2. e <= y
      BY <1>2, <3>1
    <3> QED
      BY <2>1, <3>2
  <2>6. m \in Nat /\ k \in Nat
    OBVIOUS
  <2> QED
    BY <2>3, <2>4, <2>5, <2>6
<1>5. ASSUME NEW m \in DOMAIN F, Readable(F, m), y <= F[m].start, F[m].start < eb
      PROVE  \E l \in DOMAIN F : l <= m /\ F[l].start = y
  <2>1. PICK s \in Nat, e \in Nat : s = F[m].start /\ e = End(F[m]) /\ s < e
    BY <1>5, ReadablePiece
  <2>2. k < m /\ k \in Nat /\ m \in Nat
    BY <1>4, <1>5, <2>1
  <2>3. PICK l \in DOMAIN F : l = k + 1 /\ l <= m
    <3>1. k + 1 \in DOMAIN F /\ k + 1 <= m
      BY <2>2
    <3> QED
      BY <3>1
  <2>4. Readable(F, l) /\ F[l].start <= s
    BY <1>1, <1>5, <2>1, <2>3, ReadableBefore
  <2>5. Readable(F, k)
    BY <1>1, <1>5, <2>2, ReadableBefore
  <2>6. PICK b \in Nat : b = F[k].base /\ Multiple(b) /\ b <= x /\ y <= b + BlockSize
    BY <1>2, <2>5, ReadablePiece
  <2>7. Follows(F[k], F[l])
    BY <2>3, <2>4 DEF Aligned, Readable, Seated
  <2>8. CASE F[l].start = y
    BY <2>3, <2>8
  <2>9. CASE F[l].start = b + BlockSize
    <3>1. PICK c \in Nat : c = b + BlockSize /\ Multiple(c)
      <4>1. Multiple(b)
        BY <2>6
      <4>2. Multiple(b + BlockSize)
        BY <4>1, Blocks
      <4>3. b + BlockSize \in Nat
        BY <1>1
      <4> QED
        BY <4>2, <4>3
    <3>2. Multiple(nb) /\ eb <= nb /\ nb <= x + BlockSize
      BY <1>2 DEF InBlock
    <3>3. c < nb
      <4>1. c <= s /\ s < eb
        BY <1>5, <2>1, <2>4, <2>9, <3>1
      <4> QED
        BY <3>2, <4>1
    <3>4. c + BlockSize <= nb
      BY <3>1, <3>2, <3>3, Blocks
    <3>5. y <= c
      BY <2>6, <3>1
    <3> QED
      BY <1>1, <1>2, <3>2, <3>4, <3>5
  <2> QED
    BY <1>2, <2>6, <2>7, <2>8, <2>9 DEF Follows
<1> QED
  BY <1>1, <1>2, <1>3, <1>4, <1>5 DEF Sync

\* So it is where the buffer ends.
LEMMA SyncEnd ==
    ASSUME TypeInv, NEW F \in Seq(Piece), Aligned(F), Gridded(F), NEW nb \in Nat, InBlock(nb),
           NEW o \in ReadPhysicalRecord(Buffer, eof_), Fetch(o), Offset' = end_of_buffer_offset_
    PROVE  Sync(F)'
<1>1. /\ file' = file /\ end_of_buffer_offset_' = end_of_buffer_offset_ /\ torn' = torn
      /\ file \in Seq(Cell) /\ end_of_buffer_offset_ \in Nat
  BY DEF Fetch, writerVars, TypeInv, TypeOK, Shape
<1>2. PICK eb \in Nat, lf \in Nat : eb = end_of_buffer_offset_ /\ lf = Len(file)
  BY <1>1
<1>3. ASSUME NEW m \in DOMAIN F PROVE Readable(F, m)' <=> Readable(F, m)
  BY <1>1 DEF Readable
<1>4. ASSUME NEW m \in DOMAIN F, Readable(F, m) PROVE End(F[m]) <= eb \/ eb <= F[m].start
  <2>1. PICK s \in Nat, e \in Nat : s = F[m].start /\ e = End(F[m])
    BY <1>4, ReadablePiece
  <2>2. Multiple(nb) /\ eb <= nb /\ (eb = nb \/ lf <= eb) /\ e <= lf
    BY <1>2, <1>4, <2>1 DEF InBlock, Readable
  <2>3. ASSUME s < eb PROVE e <= nb
    <3>1. F[m].start < nb
      BY <2>1, <2>2, <2>3
    <3> QED
      BY <1>4, <2>1, <2>2, <3>1, NoCrossing
  <2> QED
    BY <2>1, <2>2, <2>3
<1>5. ASSUME NEW m \in DOMAIN F, Readable(F, m) PROVE ~(eb <= F[m].start /\ F[m].start < eb)
  <2>1. F[m].start \in Nat
    BY <1>5, ReadablePiece
  <2> QED
    BY <2>1
<1> QED
  BY <1>1, <1>2, <1>3, <1>4, <1>5 DEF Sync

\* What was gathered ends where the reader is.
LEMMA GatheredHere ==
    ASSUME NEW F \in Seq(Piece), InOrder(F), NEW i \in DOMAIN F, NEW k \in DOMAIN F, Whole(F[i]), Whole(F[k]),
           End(F[i]) <= End(F[k]), End(F[k]) < End(F[i]) + HeaderSize
    PROVE  i = k
<1>1. PICK p \in Piece, q \in Piece : p = F[i] /\ q = F[k]
  OBVIOUS
<1>2. HeaderSize \in Nat /\ 0 < HeaderSize /\ i \in Nat /\ k \in Nat
  BY SizeAssumption
<1>3. Whole(p) /\ Whole(q) /\ End(p) <= End(q) /\ End(q) < End(p) + HeaderSize
  BY <1>1
<1>4. PICK s \in Nat, d \in Nat, t \in Nat, e \in Nat :
         s = p.start /\ d = p.kept /\ t = q.start /\ e = q.kept /\ End(p) = s + d /\ End(q) = t + e
  BY PieceFields
<1>5. d >= HeaderSize /\ e >= HeaderSize
  <2>1. PICK m \in Nat, n \in Nat : m = p.len /\ n = q.len
    BY PieceFields
  <2>2. d = HeaderSize + m /\ e = HeaderSize + n
    BY <1>3, <1>4, <2>1 DEF Whole
  <2> QED
    BY <1>2, <2>2
<1>6. s + d <= t + e /\ t + e < (s + d) + HeaderSize
  BY <1>3, <1>4
<1>7. ~(i < k)
  <2>1. i < k => s + d <= t
    BY <1>1, <1>4 DEF InOrder
  <2> QED
    BY <1>2, <1>5, <1>6, <2>1
<1>8. ~(k < i)
  <2>1. k < i => t + e <= s
    BY <1>1, <1>4 DEF InOrder
  <2> QED
    BY <1>2, <1>5, <1>6, <2>1
<1> QED
  BY <1>2, <1>7, <1>8

\* What ReadRecord does with a fragment, as far as the spared records go.
Uses(o) ==
    /\ \A x \in Nat : Returns(records, x) => Returns(records', x)
    /\ o.type = "full" => Returns(records', Offset)
    /\ o.type = "first" => in_fragmented_record' = TRUE
    /\ resyncing_ = FALSE /\ in_fragmented_record = TRUE =>
          /\ o.type = "middle" => in_fragmented_record' = TRUE
          /\ o.type = "last" => Returns(records', prospective)
    /\ resyncing_' = TRUE => resyncing_ = TRUE /\ o.type \in {"middle", "last"}

\* The spared records behind the piece fetched have been returned, and the one it
\* belongs to is being gathered.
LEMMA DonePast ==
    ASSUME TypeInv, NEW F \in Seq(Piece), Explains(F), Aligned(F), Chains(F), Gridded(F),
           phase = "read", phase' = "read", NEW nb \in Nat, InBlock(nb), Done(F), Explains(F)',
           NEW o \in ReadPhysicalRecord(Buffer, eof_), Fetch(o), o.type \in RecordType,
           NEW k \in DOMAIN F, F[k].start = Offset, Whole(F[k]), o.type = F[k].type, Offset' = End(F[k]),
           Offset < Offset', Uses(o)
    PROVE  Done(F)'
<1>1. added' = added /\ Layout(F, added) /\ InOrder(F) /\ resyncing_ \in BOOLEAN
  BY DEF Fetch, Explains, Layout, TypeInv, TypeOK
<1>2. PICK x \in Nat, y \in Nat : x = Offset /\ y = Offset' /\ x < y /\ End(F[k]) = y
  BY FetchOffset
<1>3. ASSUME NEW r \in DOMAIN added, Spared(r)'
      PROVE  /\ added[r].end <= y => Returns(records', added[r].offset)
             /\ added[r].offset < y /\ y < added[r].end =>
                   in_fragmented_record' = TRUE /\ \E i \in DOMAIN F : F[i].rec = r /\ Gathered(F, i)'
             /\ resyncing_' = TRUE => y <= added[r].offset
  <2>1. Spared(r)
    BY <1>3, FetchKeeps
  <2>2. PICK s \in Nat, e \in Nat : s = added[r].offset /\ e = added[r].end /\ s < e
    BY <1>1, <2>1, SparedChain
  <2>3. /\ e <= x => Returns(records, s)
        /\ s < x /\ x < e =>
              in_fragmented_record = TRUE /\ \E i \in DOMAIN F : F[i].rec = r /\ Gathered(F, i)
        /\ resyncing_ = TRUE => x <= s
    BY <1>2, <2>1, <2>2 DEF Done
  <2>4. Place(F[k], added[r], x, y) /\ (s < y /\ x < e => F[k].rec = r)
    BY <1>2, <2>1, <2>2, FetchPlace
  <2>5. Uses(o)
    OBVIOUS
  <2>6. CASE e <= x
    <3>1. Returns(records', s)
      BY <2>3, <2>5, <2>6 DEF Uses
    <3>2. ~(y < e) /\ ~(x <= s)
      BY <1>2, <2>2, <2>6
    <3>3. ~(resyncing_' = TRUE)
      BY <2>3, <2>5, <3>2 DEF Uses
    <3> QED
      BY <2>2, <3>1, <3>2, <3>3
  <2>7. CASE y <= s
    <3>1. ~(e <= y) /\ ~(s < y)
      BY <2>2, <2>7
    <3> QED
      BY <2>2, <2>7, <3>1
  <2>8. CASE /\ s < y /\ y <= e /\ s <= x
             /\ F[k].type \in Starts <=> s = x
             /\ F[k].type \in Ends <=> e = y
    <3>1. F[k].rec = r /\ x < e
      BY <1>2, <2>4, <2>8
    <3>2. o.type \in Starts <=> s = x
      BY <2>8
    <3>3. o.type \in Ends <=> e = y
      BY <2>8
    <3>4. ASSUME o.type \notin Starts
          PROVE  /\ in_fragmented_record = TRUE /\ resyncing_ = FALSE /\ prospective = s
      <4>1. s < x /\ ~(x <= s)
        BY <2>8, <3>2, <3>4
      <4>2. PICK i \in DOMAIN F : F[i].rec = r /\ Gathered(F, i)
        BY <2>3, <3>1, <4>1
      <4>3. prospective = s
        BY <2>2, <4>2 DEF Gathered
      <4> QED
        BY <1>1, <2>3, <3>1, <4>1, <4>3
    <3>5. ASSUME e <= y PROVE Returns(records', s)
      <4>1. o.type \in Ends
        BY <2>8, <3>3, <3>5
      <4>2. CASE o.type = "full"
        <5>1. s = x
          BY <3>2, <4>2 DEF Starts
        <5> QED
          BY <1>2, <2>5, <4>2, <5>1 DEF Uses
      <4>3. CASE o.type = "last"
        <5>1. o.type \notin Starts
          BY <4>3 DEF Starts
        <5> QED
          BY <2>5, <3>4, <4>3, <5>1 DEF Uses
      <4> QED
        BY <4>1, <4>2, <4>3 DEF Ends
    <3>6. ASSUME y < e
          PROVE  in_fragmented_record' = TRUE /\ Gathered(F, k)'
      <4>1. o.type \notin Ends
        BY <3>3, <3>6
      <4>2. in_fragmented_record' = TRUE
        <5>1. CASE o.type = "first"
          BY <2>5, <5>1 DEF Uses
        <5>2. CASE o.type = "middle"
          <6>1. o.type \notin Starts
            BY <5>2 DEF Starts
          <6> QED
            BY <2>5, <3>4, <5>2, <6>1 DEF Uses
        <5> QED
          BY <4>1, <5>1, <5>2 DEF RecordType, Ends
      <4>3. PICK i \in DOMAIN F : Gathered(F, i)'
        BY <4>2 DEF Explains, Reader
      <4>4. Whole(F[i]) /\ End(F[i]) <= End(F[k]) /\ End(F[k]) < End(F[i]) + HeaderSize
        BY <4>3 DEF Gathered
      <4>5. i = k
        BY <1>1, <4>4, GatheredHere
      <4> QED
        BY <4>2, <4>3, <4>5
    <3>7. ~(resyncing_' = TRUE)
      <4>1. SUFFICES ASSUME resyncing_' = TRUE PROVE FALSE
        OBVIOUS
      <4>2. resyncing_ = TRUE /\ o.type \notin Starts
        BY <2>5, <4>1 DEF Uses, Starts
      <4> QED
        BY <3>4, <4>2
    <3> QED
      BY <2>2, <3>1, <3>5, <3>6, <3>7
  <2> QED
    BY <2>2, <2>4, <2>6, <2>7, <2>8 DEF Place
<1> QED
  BY <1>1, <1>2, <1>3 DEF Done

\* Behind the end of the buffer, or a skipped fragment, no spared record is begun.
LEMMA DoneFrom ==
    ASSUME TypeInv, NEW F \in Seq(Piece), Layout(F, added), Chains(F), NEW nb \in Nat, InBlock(nb), Done(F),
           NEW o \in ReadPhysicalRecord(Buffer, eof_), Fetch(o), resyncing_' = FALSE, records' = records,
           \A r \in DOMAIN added : Spared(r) => added[r].end <= Offset \/ Offset' <= added[r].offset
    PROVE  Done(F)'
<1>1. added' = added
  BY DEF Fetch
<1>2. PICK x \in Nat, y \in Nat : x = Offset /\ y = Offset' /\ x <= y
  BY FetchOffset
<1>3. ASSUME NEW r \in DOMAIN added, Spared(r)'
      PROVE  /\ added[r].end <= y => Returns(records', added[r].offset)
             /\ ~(added[r].offset < y /\ y < added[r].end)
  <2>1. Spared(r)
    BY <1>3, FetchKeeps
  <2>2. PICK s \in Nat, e \in Nat : s = added[r].offset /\ e = added[r].end /\ s < e
    BY <2>1, SparedChain
  <2>3. e <= x => Returns(records, s)
    BY <1>2, <2>1, <2>2 DEF Done
  <2>4. Returns(records, s) => Returns(records', s)
    BY DEF Returns
  <2>5. e <= x \/ y <= s
    BY <1>2, <2>1, <2>2
  <2>6. (e <= y => Returns(records', s)) /\ ~(s < y /\ y < e)
    BY <1>2, <2>2, <2>3, <2>4, <2>5
  <2> QED
    BY <2>2, <2>6
<1> QED
  BY <1>1, <1>2, <1>3 DEF Done

\* ReadRecord's use of a fragment.
LEMMA FragmentUsed ==
    ASSUME TypeInv, NEW o \in ReadPhysicalRecord(Buffer, eof_),
           \/ /\ resyncing_ = TRUE /\ o.type \in {"middle", "last"} /\ records' = records
           \/ /\ o.type = "full" /\ resyncing_' = FALSE /\ Return(Offset, o.data)
           \/ /\ o.type = "first" /\ resyncing_' = FALSE
              /\ in_fragmented_record' = TRUE /\ records' = records
           \/ /\ o.type \in {"middle", "last"} /\ resyncing_ = FALSE /\ resyncing_' = resyncing_
              /\ \/ /\ o.type = "middle" /\ in_fragmented_record' = in_fragmented_record /\ records' = records
                 \/ o.type = "last" /\ Return(prospective, scratch \o o.data)
                 \/ in_fragmented_record = FALSE /\ records' = records
    PROVE  Uses(o)
<1>1. records \in Seq(Returned) /\ resyncing_ \in BOOLEAN
  BY DEF TypeInv, TypeOK, Shape
<1>2. ASSUME records' = records, NEW x \in Nat, Returns(records, x) PROVE Returns(records', x)
  BY <1>2
<1>3. ASSUME NEW x, NEW d, Return(x, d)
      PROVE  Returns(records', x) /\ \A y \in Nat : Returns(records, y) => Returns(records', y)
  <2>1. PICK n \in Nat : n = Len(records)
    BY <1>1
  <2>2. records' = Append(records, [offset |-> x, data |-> d])
    BY <1>3 DEF Return
  <2>3. /\ n + 1 \in DOMAIN records' /\ records'[n + 1] = [offset |-> x, data |-> d]
        /\ \A i \in DOMAIN records : i \in DOMAIN records' /\ records'[i] = records[i]
    BY <1>1, <2>1, <2>2
  <2>4. records'[n + 1].offset = x
    BY <2>3
  <2> QED
    BY <2>3, <2>4 DEF Returns
<1>4. CASE resyncing_ = TRUE /\ o.type \in {"middle", "last"} /\ records' = records
  BY <1>2, <1>4 DEF Uses
<1>5. CASE o.type = "full" /\ resyncing_' = FALSE /\ Return(Offset, o.data)
  BY <1>3, <1>5 DEF Uses
<1>6. CASE /\ o.type = "first" /\ resyncing_' = FALSE
           /\ in_fragmented_record' = TRUE /\ records' = records
  BY <1>2, <1>6 DEF Uses
<1>7. CASE /\ o.type \in {"middle", "last"} /\ resyncing_ = FALSE /\ resyncing_' = resyncing_
           /\ \/ /\ o.type = "middle" /\ in_fragmented_record' = in_fragmented_record /\ records' = records
              \/ o.type = "last" /\ Return(prospective, scratch \o o.data)
              \/ in_fragmented_record = FALSE /\ records' = records
  <2>1. CASE o.type = "middle" /\ in_fragmented_record' = in_fragmented_record /\ records' = records
    BY <1>2, <1>7, <2>1 DEF Uses
  <2>2. CASE o.type = "last" /\ Return(prospective, scratch \o o.data)
    BY <1>3, <1>7, <2>2 DEF Uses
  <2>3. CASE in_fragmented_record = FALSE /\ records' = records
    BY <1>2, <1>7, <2>3 DEF Uses
  <2> QED
    BY <1>7, <2>1, <2>2, <2>3
<1> QED
  BY <1>4, <1>5, <1>6, <1>7

\* Fetching a fragment loses no spared record.
LEMMA ReadProgress ==
    ASSUME TypeInv, NEW F \in Seq(Piece), Explains(F), Aligned(F), Chains(F), Gridded(F), Progress(F),
           Resync \/ Start \/ Continue \/ SkipBad \/ ReadEof
    PROVE  Progress(F)'
<1>1. /\ phase = "read" /\ Layout(F, added) /\ Explains(F)'
      /\ eof_ \in BOOLEAN /\ resyncing_ \in BOOLEAN /\ in_fragmented_record \in BOOLEAN
  BY ReadExplained DEF Explains, Resync, Start, Continue, SkipBad, ReadEof, Fetch, TypeInv, TypeOK
<1>2. PICK nb \in Nat : InBlock(nb)
  BY <1>1 DEF Progress
<1>3. Sync(F) /\ Done(F)
  BY <1>1 DEF Progress
<1>4. ASSUME NEW o \in ReadPhysicalRecord(Buffer, eof_), Fetch(o), phase' = "read", o.type \in RecordType, Uses(o)
      PROVE  Progress(F)'
  <2>1. PICK k \in DOMAIN F :
           /\ F[k].start = Offset /\ Whole(F[k]) /\ o.type = F[k].type
           /\ Offset' = End(F[k]) /\ Offset < Offset'
    BY <1>4, FetchedPiece
  <2>2. InBlock(nb)'
    BY <1>2, <1>4, FetchKeeps
  <2>3. Sync(F)'
    BY <1>2, <1>3, <1>4, <2>1, SyncPast
  <2>4. Done(F)'
    BY <1>1, <1>2, <1>3, <1>4, <2>1, DonePast
  <2> QED
    BY <1>4, <2>2, <2>3, <2>4 DEF Progress, NothingElseLost
<1>5. CASE Resync
  <2>1. PICK o \in ReadPhysicalRecord(Buffer, eof_) :
           /\ Fetch(o) /\ resyncing_ /\ o.type \in {"middle", "last"} /\ phase' = phase /\ records' = records
    BY <1>5 DEF Resync
  <2>2. Uses(o) /\ o.type \in RecordType
    BY <1>1, <2>1, FragmentUsed DEF RecordType
  <2> QED
    BY <1>1, <1>4, <2>1, <2>2
<1>6. CASE Start
  <2>1. PICK o \in ReadPhysicalRecord(Buffer, eof_) :
           /\ Fetch(o) /\ o.type \in {"full", "first"} /\ phase' = phase /\ resyncing_' = FALSE
           /\ \/ o.type = "full" /\ Return(Offset, o.data)
              \/ o.type = "first" /\ in_fragmented_record' = TRUE /\ records' = records
    BY <1>6 DEF Start
  <2>2. Uses(o) /\ o.type \in RecordType
    BY <2>1, FragmentUsed DEF RecordType
  <2> QED
    BY <1>1, <1>4, <2>1, <2>2
<1>7. CASE Continue
  <2>1. PICK o \in ReadPhysicalRecord(Buffer, eof_) :
           /\ Fetch(o) /\ o.type \in {"middle", "last"} /\ ~resyncing_ /\ phase' = phase /\ resyncing_' = resyncing_
           /\ \/ /\ o.type = "middle" /\ in_fragmented_record' = in_fragmented_record /\ records' = records
              \/ o.type = "last" /\ Return(prospective, scratch \o o.data)
              \/ ~in_fragmented_record /\ records' = records
    BY <1>7, Zenon DEF Continue
  <2>2. resyncing_ = FALSE /\ (~in_fragmented_record => in_fragmented_record = FALSE)
    BY <1>1, <2>1
  <2>3. Uses(o) /\ o.type \in RecordType
    BY <2>1, <2>2, FragmentUsed DEF RecordType
  <2> QED
    BY <1>1, <1>4, <2>1, <2>3
<1>8. ASSUME NEW o \in ReadPhysicalRecord(Buffer, eof_), Fetch(o), o.type \in {"bad", "eof"}, NEW r \in DOMAIN added, Spared(r)
      PROVE  added[r].end <= Offset \/ end_of_buffer_offset_ <= added[r].offset
  <2>1. size < HeaderSize => eof_ = TRUE
    BY <1>1, <1>8 DEF Fetch
  <2>2. PICK s \in Nat, e \in Nat, x \in Nat, eb \in Nat :
           s = added[r].offset /\ e = added[r].end /\ x = Offset /\ eb = end_of_buffer_offset_
    BY <1>1, <1>8, SparedChain, BufferCells DEF TypeInv, TypeOK
  <2>3. ~(x < e /\ s < eb)
    <3>1. SUFFICES ASSUME x < e, s < eb PROVE FALSE
      OBVIOUS
    <3>2. o.type \in RecordType \cup {"skipped"}
      BY <1>1, <1>2, <1>3, <1>8, <2>1, <2>2, <3>1, MustFetch
    <3> QED
      BY <1>8, <3>2 DEF RecordType
  <2> QED
    BY <2>2, <2>3
<1>9. ASSUME NEW o \in ReadPhysicalRecord(Buffer, eof_), Fetch(o), o.type \in {"bad", "eof"}
      PROVE  Offset' = end_of_buffer_offset_
  <2>1. Remaining(o) = 0 /\ Offset' + Remaining(o) = end_of_buffer_offset_ /\ Offset' \in Nat
    BY <1>9, PhysicalRecord, FetchOffset
  <2> QED
    BY <2>1
<1>10. CASE SkipBad
  <2>1. PICK o \in ReadPhysicalRecord(Buffer, eof_) :
           /\ Fetch(o) /\ o.type \in {"bad", "skipped"} /\ phase' = phase /\ resyncing_' = FALSE /\ records' = records
    BY <1>10 DEF SkipBad
  <2>2. InBlock(nb)'
    BY <1>2, <2>1, FetchKeeps
  <2>3. CASE o.type = "bad"
    <3>1. Offset' = end_of_buffer_offset_
      BY <1>9, <2>1, <2>3
    <3>2. Sync(F)'
      BY <1>2, <2>1, <3>1, SyncEnd
    <3>3. \A r \in DOMAIN added : Spared(r) => added[r].end <= Offset \/ Offset' <= added[r].offset
      BY <1>8, <2>1, <2>3, <3>1
    <3>4. Done(F)'
      BY <1>1, <1>2, <1>3, <2>1, <3>3, DoneFrom
    <3> QED
      BY <1>1, <2>1, <2>2, <3>2, <3>4 DEF Progress, NothingElseLost
  <2>4. CASE o.type = "skipped"
    <3>1. PICK k \in DOMAIN F :
             F[k].start = Offset /\ Whole(F[k]) /\ Offset' = End(F[k]) /\ Offset < Offset'
      BY <2>1, <2>4, FetchedPiece
    <3>2. Sync(F)'
      BY <1>2, <1>3, <2>1, <3>1, SyncPast
    <3>3. ASSUME NEW r \in DOMAIN added, Spared(r)
          PROVE  added[r].end <= Offset \/ Offset' <= added[r].offset
      <4>1. PICK s \in Nat, e \in Nat, x \in Nat : s = added[r].offset /\ e = added[r].end /\ x = Offset /\ s < e
        BY <1>1, <3>3, SparedChain, BufferCells
      <4>2. x < s
        <5>1. x < initial_offset_ /\ s >= initial_offset_ /\ initial_offset_ \in Nat
          BY <2>1, <2>4, <3>3, <4>1, SkippedBefore DEF Spared, TypeInv, TypeOK
        <5> QED
          BY <5>1
      <4>3. Place(F[k], added[r], Offset, End(F[k]))
        BY <3>1, <3>3, FetchPlace
      <4>4. ~(added[r].offset <= Offset)
        BY <4>1, <4>2
      <4> QED
        BY <3>1, <4>3, <4>4 DEF Place
    <3>4. Done(F)'
      BY <1>1, <1>2, <1>3, <2>1, <3>3, DoneFrom
    <3> QED
      BY <1>1, <2>1, <2>2, <3>2, <3>4 DEF Progress, NothingElseLost
  <2> QED
    BY <2>1, <2>3, <2>4
<1>11. CASE ReadEof
  <2>1. PICK o \in ReadPhysicalRecord(Buffer, eof_) :
           /\ Fetch(o) /\ o.type = "eof" /\ phase' = "end" /\ records' = records
    BY <1>11 DEF ReadEof
  <2>2. eof_ = TRUE
    BY <1>1, <2>1, PhysicalRecord DEF Fetch
  <2>3. added' = added
    BY <2>1 DEF Fetch
  <2>4. ASSUME NEW r \in DOMAIN added, Spared(r)' PROVE \E i \in DOMAIN records : records[i].offset = added[r].offset
    <3>1. Spared(r)
      BY <1>2, <2>1, <2>4, FetchKeeps
    <3>2. PICK s \in Nat, e \in Nat, x \in Nat, eb \in Nat :
             s = added[r].offset /\ e = added[r].end /\ x = Offset /\ eb = end_of_buffer_offset_ /\ s < e
      BY <1>1, <3>1, SparedChain, BufferCells DEF TypeInv, TypeOK
    <3>3. e <= eb
      <4>1. \/ Len(file) <= eb
            \/ torn # 0 /\ torn <= eb + 1
        BY <1>2, <2>2, <3>2 DEF InBlock
      <4>2. e <= Len(file) /\ (torn # 0 => e < torn) /\ Len(file) \in Nat /\ torn \in Nat
        BY <3>1, <3>2 DEF Spared, TypeInv, TypeOK, Shape
      <4> QED
        BY <4>1, <4>2
    <3>4. e <= x \/ eb <= s
      BY <1>8, <2>1, <3>1, <3>2
    <3>5. e <= x
      BY <3>2, <3>3, <3>4
    <3>6. Returns(records, s)
      BY <1>3, <3>1, <3>2, <3>5 DEF Done
    <3> QED
      BY <3>2, <3>6 DEF Returns
  <2>5. NothingElseLost'
    BY <2>1, <2>3, <2>4 DEF NothingElseLost
  <2> QED
    BY <2>1, <2>5 DEF Progress
<1> QED
  BY <1>5, <1>6, <1>7, <1>10, <1>11

\* What a read leaves of the buffer: the reader moves to the end of the old
\* buffer, the block that ends at nb, and the new one ends with the next block,
\* with the file, or before an I/O error.
Refilled(nb) ==
    /\ Offset' = nb /\ end_of_buffer_offset_ = nb
    /\ end_of_buffer_offset_' \in Nat /\ end_of_buffer_offset_' <= nb + BlockSize
    /\ Sooner(torn, torn') /\ (eof_' = FALSE => HeaderSize <= size')
    /\ \/ InBlock(nb)'
       \/ InBlock(nb + BlockSize)'

\* A read, failed or not, refills the buffer.
LEMMA BlockRefilled ==
    ASSUME TypeInv, NEW nb \in Nat, InBlock(nb), NEW ok \in BOOLEAN, ReadBlock(ok)
    PROVE  Refilled(nb)
<1>1. /\ BlockSize \in Nat /\ 0 < BlockSize /\ end_of_buffer_offset_ \in Nat /\ file \in Seq(Cell)
      /\ torn \in Nat /\ eof_ \in BOOLEAN
  BY SizeAssumption DEF TypeInv, TypeOK, Shape
<1>2. ~eof_ /\ file' = file
  BY DEF ReadBlock, writerVars
<1>3. end_of_buffer_offset_ = nb /\ Multiple(nb)
  BY <1>1, <1>2 DEF InBlock
<1>4. PICK l \in Nat : l = Len(file)
  BY <1>1
<1>5. CASE ok
  <2>1. PICK rest \in Nat : (l <= nb => rest = 0) /\ (nb < l => nb + rest = l)
                            /\ rest = IF l > nb THEN l - nb ELSE 0
    <3>1. PICK x \in Int : x = IF l > nb THEN l - nb ELSE 0
      <4>1. l - nb \in Int /\ 0 \in Int
        OBVIOUS
      <4> QED
        BY <4>1
    <3>2. x \in Nat /\ (l <= nb => x = 0) /\ (nb < l => nb + x = l)
      BY <3>1
    <3> QED
      BY <3>1, <3>2
  <2>2. PICK n \in Nat : n = IF rest < BlockSize THEN rest ELSE BlockSize
    BY <1>1
  <2>3. size' = n /\ end_of_buffer_offset_' = nb + n /\ eof_' = (n < BlockSize) /\ torn' = torn
    BY <1>3, <1>4, <1>5, <2>1, <2>2, Zenon DEF ReadBlock
  <2>4. n <= BlockSize /\ (n < BlockSize => l <= nb + n)
    BY <1>1, <2>1, <2>2
  <2>5. Offset' = nb
    <3>1. Offset' = end_of_buffer_offset_' - size'
      BY DEF Offset
    <3>2. Offset' = (nb + n) - n
      BY <2>3, <3>1
    <3> QED
      BY <3>2
  <2>6. PICK e \in Nat, c \in Nat : e = nb + n /\ c = nb + BlockSize /\ Multiple(c) /\ e <= c /\ (e < c => l <= e)
    <3>1. nb + BlockSize \in Nat /\ nb + n \in Nat
      BY <1>1
    <3>2. Multiple(nb + BlockSize)
      BY <1>3, Blocks
    <3>3. nb + n <= nb + BlockSize /\ (nb + n < nb + BlockSize => l <= nb + n)
      BY <1>1, <2>4
    <3> QED
      BY <3>1, <3>2, <3>3
  <2>7. (eof_' = TRUE => e < c) /\ (eof_' = FALSE => e = c)
    <3>1. (eof_' = TRUE => n < BlockSize) /\ (eof_' = FALSE => ~(n < BlockSize))
      BY <2>3, Zenon
    <3>2. (n < BlockSize => nb + n < nb + BlockSize) /\ (~(n < BlockSize) => nb + n = nb + BlockSize)
      BY <1>1, <2>4
    <3> QED
      BY <2>6, <3>1, <3>2
  <2>8. e = c \/ l <= e
    BY <2>6
  <2>9. InBlock(c)'
    <3>1. end_of_buffer_offset_' = e /\ Len(file') = l /\ c <= Offset' + BlockSize
      BY <1>1, <1>2, <1>4, <2>3, <2>5, <2>6
    <3> QED
      BY <2>6, <2>7, <2>8, <3>1 DEF InBlock
  <2>10. eof_' = FALSE => HeaderSize <= size'
    <3>1. eof_' = FALSE => ~(n < BlockSize)
      BY <2>3, Zenon
    <3>2. ~(n < BlockSize) => HeaderSize <= n
      BY <1>1, SizeAssumption
    <3> QED
      BY <2>3, <3>1, <3>2
  <2> QED
    BY <1>3, <2>3, <2>5, <2>6, <2>9, <2>10 DEF Refilled, Sooner
<1>6. CASE ~ok
  <2>1. /\ size' = 0 /\ eof_' = TRUE /\ end_of_buffer_offset_' = nb
        /\ torn' = IF torn = 0 \/ nb + 1 < torn THEN nb + 1 ELSE torn
    BY <1>3, <1>6 DEF ReadBlock
  <2>2. Offset' = nb
    BY <2>1 DEF Offset
  <2>3. Sooner(torn, torn') /\ torn' # 0 /\ torn' <= nb + 1
    BY <1>1, <2>1 DEF Sooner
  <2>4. nb <= nb /\ nb <= nb + BlockSize
    BY <1>1
  <2>5. InBlock(nb)'
    BY <1>3, <2>1, <2>2, <2>3, <2>4 DEF InBlock
  <2> QED
    BY <1>3, <2>1, <2>2, <2>3, <2>4, <2>5 DEF Refilled
<1> QED
  BY <1>5, <1>6

\* A buffer that cannot hold a header holds no piece that can be read.
LEMMA NothingInTrailer ==
    ASSUME TypeInv, NEW F \in Seq(Piece), Aligned(F), Gridded(F), NEW nb \in Nat, Multiple(nb),
           end_of_buffer_offset_ = nb, size < HeaderSize,
           NEW k \in DOMAIN F, Readable(F, k), Offset <= F[k].start
    PROVE  nb <= F[k].start
<1>1. PICK s \in Nat, e \in Nat : s = F[k].start /\ e = End(F[k]) /\ s + HeaderSize <= e
  BY ReadablePiece
<1>2. PICK x \in Nat, n \in Nat : x = Offset /\ n = size /\ x + n = nb
  <2>1. Offset \in Nat /\ size \in Nat /\ Offset + size = nb
    BY BufferCells, SizeAssumption DEF TypeInv, TypeOK
  <2> QED
    BY <2>1
<1>3. ASSUME s < nb PROVE FALSE
  <2>1. e <= nb
    BY <1>1, <1>3, NoCrossing
  <2> QED
    BY <1>1, <1>2, <2>1, SizeAssumption
<1> QED
  BY <1>1, <1>3

\* Where a block starts, so does a piece.
LEMMA SyncRefilled ==
    ASSUME TypeInv, NEW F \in Seq(Piece), Aligned(F), Gridded(F), NEW nb \in Nat, InBlock(nb), Sync(F),
           NEW ok \in BOOLEAN, ReadBlock(ok)
    PROVE  Sync(F)' /\ \A r \in DOMAIN added : Spared(r)' => Spared(r)
<1>1. Refilled(nb)
  BY BlockRefilled
<1>2. /\ Offset' = nb /\ end_of_buffer_offset_ = nb
      /\ Sooner(torn, torn') /\ torn \in Nat /\ Multiple(nb) /\ BlockSize \in Nat
  BY <1>1, SizeAssumption DEF Refilled, TypeInv, TypeOK, InBlock
<1>3. PICK eb \in Nat : eb = end_of_buffer_offset_' /\ eb <= nb + BlockSize
  BY <1>1 DEF Refilled
<1>4. /\ file' = file /\ added' = added /\ harmed' = harmed /\ initial_offset_' = initial_offset_
      /\ size < HeaderSize
  BY DEF ReadBlock, writerVars
<1>5. ASSUME NEW m \in DOMAIN F, Readable(F, m)' PROVE Readable(F, m)
  <2>1. F[m] \in Piece /\ F[m].start \in Nat
    BY PieceFields
  <2>2. Early(F[m], torn)
    BY <1>2, <1>5, <2>1 DEF Readable, Early, Sooner
  <2> QED
    BY <1>4, <1>5, <2>2 DEF Readable
<1>6. ASSUME NEW m \in DOMAIN F, Readable(F, m)
      PROVE  End(F[m]) <= nb \/ nb <= F[m].start
  <2>1. CASE Offset <= F[m].start
    BY <1>2, <1>4, <1>6, <2>1, NothingInTrailer
  <2>2. CASE End(F[m]) <= Offset
    <3>1. Offset \in Nat /\ size \in Nat /\ Offset + size = nb
      BY <1>2, BufferCells, SizeAssumption DEF TypeInv, TypeOK
    <3>2. End(F[m]) \in Nat
      BY <1>6, ReadablePiece
    <3> QED
      BY <2>2, <3>1, <3>2
  <2> QED
    BY <1>6, <2>1, <2>2 DEF Sync
<1>7. ASSUME NEW m \in DOMAIN F, Readable(F, m), nb <= F[m].start, F[m].start < eb
      PROVE  \E l \in DOMAIN F : l <= m /\ F[l].start = nb
  <2>1. PICK s \in Nat, b \in Nat, e \in Nat :
           s = F[m].start /\ b = F[m].base /\ e = End(F[m]) /\ s < e /\ b <= s /\ e <= b + BlockSize /\ Multiple(b)
    BY <1>7, ReadablePiece
  <2>2. nb <= s /\ s < nb + BlockSize /\ s < b + BlockSize /\ b <= s
    BY <1>2, <1>3, <1>7, <2>1
  <2>3. ~(b < nb)
    <3>1. b < nb => b + BlockSize <= nb
      BY <1>2, <2>1, Blocks
    <3> QED
      BY <1>2, <2>2, <3>1
  <2>4. ~(nb < b)
    <3>1. nb < b => nb + BlockSize <= b
      BY <1>2, <2>1, Blocks
    <3> QED
      BY <1>2, <2>2, <3>1
  <2>5. F[m].base = nb
    BY <2>1, <2>3, <2>4
  <2>6. Rooted(F, m)
    BY <1>7, ReadablePiece
  <2> QED
    BY <2>5, <2>6 DEF Rooted
<1>8. Sync(F)'
  BY <1>2, <1>3, <1>5, <1>6, <1>7 DEF Sync
<1>9. ASSUME NEW r \in DOMAIN added, Spared(r)' PROVE Spared(r)
  <2>1. torn' # 0 => added[r].end < torn'
    BY <1>4, <1>9 DEF Spared
  <2>2. torn # 0 => added[r].end < torn
    <3>1. SUFFICES ASSUME torn # 0, torn' # torn PROVE added[r].end < torn
      BY <2>1
    <3>2. torn' \in Nat /\ torn' < torn /\ torn' # 0
      BY <1>2, <3>1 DEF Sooner
    <3>3. added[r] \in Added
      BY DEF TypeInv, Shape
    <3>4. added[r].end \in Nat
      BY <3>3 DEF Added
    <3> QED
      BY <1>2, <2>1, <3>2, <3>4
  <2> QED
    BY <1>4, <1>9, <2>2 DEF Spared
<1> QED
  BY <1>8, <1>9

\* Reading a block loses no spared record.
LEMMA BlockProgress ==
    ASSUME TypeInv, NEW F \in Seq(Piece), Explains(F), Aligned(F), Chains(F), Gridded(F), Progress(F),
           NEW ok \in BOOLEAN, ReadBlock(ok)
    PROVE  Progress(F)'
<1>1. /\ phase = "read" /\ phase' = "read" /\ added' = added /\ records' = records /\ size < HeaderSize
      /\ in_fragmented_record' = in_fragmented_record /\ resyncing_' = resyncing_ /\ Layout(F, added)
      /\ eof_ = FALSE /\ scratch' = scratch /\ prospective' = prospective /\ InOrder(F)
  BY DEF ReadBlock, fragmentVars, Explains, Layout, TypeInv, TypeOK
<1>2. PICK nb \in Nat : InBlock(nb)
  BY <1>1 DEF Progress
<1>3. Sync(F) /\ Done(F)
  BY <1>1 DEF Progress
<1>4. Refilled(nb)
  BY <1>2, BlockRefilled
<1>5. Sync(F)' /\ \A r \in DOMAIN added : Spared(r)' => Spared(r)
  BY <1>2, <1>3, SyncRefilled
<1>6. Offset' = nb /\ end_of_buffer_offset_ = nb /\ Multiple(nb)
  BY <1>2, <1>4 DEF Refilled, InBlock
<1>7. \E c \in Nat : InBlock(c)'
  <2>1. nb + BlockSize \in Nat
    BY SizeAssumption
  <2> QED
    BY <1>4, <2>1 DEF Refilled
<1>8. PICK x \in Nat : x = Offset /\ x <= nb
  <2>1. Offset \in Nat /\ size \in Nat /\ Offset + size = nb
    BY <1>6, BufferCells, SizeAssumption DEF TypeInv, TypeOK
  <2> QED
    BY <2>1
<1>9. ASSUME NEW r \in DOMAIN added, Spared(r)'
      PROVE  /\ added[r].end <= nb => Returns(records, added[r].offset)
             /\ added[r].offset < nb /\ nb < added[r].end =>
                   in_fragmented_record = TRUE /\ \E i \in DOMAIN F : F[i].rec = r /\ Gathered(F, i)'
             /\ resyncing_ = TRUE => nb <= added[r].offset
  <2>1. Spared(r)
    BY <1>5, <1>9
  <2>2. PICK s \in Nat, e \in Nat : s = added[r].offset /\ e = added[r].end /\ s < e
    BY <1>1, <2>1, SparedChain
  <2>3. /\ e <= x => Returns(records, s)
        /\ s < x /\ x < e =>
              in_fragmented_record = TRUE /\ \E i \in DOMAIN F : F[i].rec = r /\ Gathered(F, i)
        /\ resyncing_ = TRUE => x <= s
    BY <1>3, <1>8, <2>1, <2>2 DEF Done
  <2>4. PICK j \in DOMAIN F, k \in DOMAIN F :
           Complete(F, r, added[r], j, k) /\ \A m \in DOMAIN F : m \in j .. k => Readable(F, m)
    BY <1>1, <2>1, SparedChain
  <2>5. Readable(F, j) /\ Readable(F, k) /\ F[j].start = s /\ End(F[k]) = e
    <3>1. j \in j .. k /\ k \in j .. k
      BY <2>4 DEF Complete, Span
    <3> QED
      BY <2>2, <2>4, <3>1 DEF Complete
  <2>6. x <= s => nb <= s
    <3>1. SUFFICES ASSUME Offset <= F[j].start PROVE nb <= F[j].start
      BY <1>8, <2>5
    <3> QED
      BY <1>1, <1>6, <2>5, <3>1, NothingInTrailer
  <2>7. e <= x \/ nb < e
    <3>1. PICK t \in Nat : t = F[k].start /\ t < e
      BY <2>5, ReadablePiece
    <3>2. e <= x \/ x <= t
      BY <1>3, <1>8, <2>5, <3>1 DEF Sync
    <3>3. ASSUME x <= t PROVE nb <= t
      <4>1. Offset <= F[k].start
        BY <1>8, <3>1, <3>3
      <4>2. nb <= F[k].start
        BY <1>1, <1>6, <2>5, <4>1, NothingInTrailer
      <4> QED
        BY <3>1, <4>2
    <3> QED
      BY <3>1, <3>2, <3>3
  <2>8. ASSUME s < nb, nb < e
        PROVE  in_fragmented_record = TRUE /\ \E i \in DOMAIN F : F[i].rec = r /\ Gathered(F, i)'
    <3>1. s < x /\ x < e
      BY <1>8, <2>6, <2>8
    <3>2. PICK i \in DOMAIN F : F[i].rec = r /\ Gathered(F, i)
      BY <2>3, <3>1
    <3>3. PICK p \in Nat : p = End(F[i]) /\ x = p
      <4>1. Offset = End(F[i])
        BY <1>1, <3>2 DEF Gathered
      <4> QED
        BY <1>8, <4>1
    <3>4. p <= nb /\ nb < p + HeaderSize
      <4>1. Offset \in Nat /\ size \in Nat /\ Offset + size = nb
        BY <1>6, BufferCells, SizeAssumption DEF TypeInv, TypeOK
      <4> QED
        BY <1>1, <1>8, <3>3, <4>1, SizeAssumption
    <3>5. eof_' = FALSE => ~(size' < HeaderSize)
      <4>1. eof_' = FALSE => HeaderSize <= size'
        BY <1>4 DEF Refilled
      <4>2. size' \in Nat
        BY TypeStep, SizeAssumption DEF Next, Read, TypeInv, TypeOK
      <4> QED
        BY <4>1, <4>2, SizeAssumption
    <3>6. Gathered(F, i)'
      BY <1>1, <1>6, <3>2, <3>3, <3>4, <3>5 DEF Gathered
    <3> QED
      BY <2>3, <3>1, <3>2, <3>6
  <2>9. /\ e <= nb => Returns(records, s)
        /\ resyncing_ = TRUE => nb <= s
    BY <2>2, <2>3, <2>6, <2>7
  <2> QED
    BY <2>2, <2>8, <2>9
<1>10. Done(F)'
  BY <1>1, <1>6, <1>9 DEF Done
<1> QED
  BY <1>1, <1>5, <1>7, <1>10 DEF Progress, NothingElseLost

\* The reader starts with a block, before every record it is to return.
LEMMA OpenProgress ==
    ASSUME TypeInv, NEW F \in Seq(Piece), Explains(F), Aligned(F), Chains(F), Gridded(F),
           NEW o \in 0 .. Len(file), Open(o)
    PROVE  Progress(F)'
<1>1. /\ phase = "idle" /\ phase' = "read" /\ file' = file /\ size' = size /\ eof_' = eof_ /\ torn' = torn
      /\ added' = added /\ harmed' = harmed /\ initial_offset_' = o
      /\ end_of_buffer_offset_' = IF o > 0 THEN SkipToInitialBlock(o) ELSE 0
  BY DEF Open, writerVars, histVars
<1>2. size = 0 /\ eof_ = FALSE /\ initial_offset_ = 0 /\ Layout(F, added) /\ o \in Nat /\ file \in Seq(Cell)
  BY <1>1 DEF TypeInv, Fresh, Shape, Explains
<1>3. PICK b \in Nat : b = end_of_buffer_offset_' /\ Multiple(b)
                       /\ \A c \in Nat, s \in Nat :
                             Multiple(c) /\ c <= s /\ s + HeaderSize <= c + BlockSize /\ o <= s => b <= s
  <2>1. CASE o > 0
    BY <1>1, <1>2, <2>1, SkipTo, SkipToInitialBlockType
  <2>2. CASE ~(o > 0)
    <3>1. PICK z \in Nat : z = 0 /\ z = end_of_buffer_offset_'
      BY <1>1, <2>2
    <3>2. Multiple(z) /\ \A s \in Nat : z <= s
      BY <3>1, Blocks
    <3> QED
      BY <3>1, <3>2
  <2> QED
    BY <2>1, <2>2
<1>4. Offset' = b
  <2>1. Offset' = end_of_buffer_offset_' - size'
    BY DEF Offset
  <2> QED
    BY <1>1, <1>2, <1>3, <2>1
<1>5. InBlock(b)'
  <2>1. b <= b /\ b <= b + BlockSize
    BY SizeAssumption
  <2> QED
    BY <1>1, <1>2, <1>3, <1>4, <2>1 DEF InBlock
<1>6. Sync(F)'
  <2>1. ASSUME NEW m \in DOMAIN F PROVE Readable(F, m)' <=> Readable(F, m)
    BY <1>1 DEF Readable
  <2>2. ASSUME NEW m \in DOMAIN F, Readable(F, m)
        PROVE  /\ End(F[m]) <= b \/ b <= F[m].start
               /\ ~(b <= F[m].start /\ F[m].start < b)
    <3>1. F[m].start \in Nat
      BY <2>2, ReadablePiece
    <3>2. F[m].start < b => End(F[m]) <= b
      BY <1>3, <2>2, NoCrossing
    <3> QED
      BY <3>1, <3>2
  <2> QED
    BY <1>3, <1>4, <2>1, <2>2 DEF Sync
<1>7. ASSUME NEW r \in DOMAIN added, Spared(r)'
      PROVE  /\ ~(added[r].end <= b) /\ ~(added[r].offset < b) /\ b <= added[r].offset
  <2>1. added[r].offset >= o
    BY <1>1, <1>7 DEF Spared
  <2>2. Spared(r)
    <3>1. added[r] \in Added
      BY DEF TypeInv, Shape
    <3>2. added[r].offset \in Nat
      BY <3>1 DEF Added
    <3>3. added[r].offset >= initial_offset_
      BY <1>2, <3>2
    <3> QED
      BY <1>1, <1>7, <3>3 DEF Spared
  <2>3. PICK s \in Nat, e \in Nat : s = added[r].offset /\ e = added[r].end /\ s < e
    BY <1>2, <2>2, SparedChain
  <2>4. PICK j \in DOMAIN F, k \in DOMAIN F :
           Complete(F, r, added[r], j, k) /\ \A m \in DOMAIN F : m \in j .. k => Readable(F, m)
    BY <1>2, <2>2, SparedChain
  <2>5. Readable(F, j) /\ F[j].start = s
    <3>1. j \in j .. k
      BY <2>4 DEF Complete, Span
    <3> QED
      BY <2>3, <2>4, <3>1 DEF Complete
  <2>6. PICK c \in Nat, t \in Nat :
           c = F[j].base /\ t = End(F[j]) /\ Multiple(c) /\ c <= s /\ s + HeaderSize <= t /\ t <= c + BlockSize
    BY <2>5, ReadablePiece
  <2>7. s + HeaderSize <= c + BlockSize
    BY <2>6, SizeAssumption
  <2>8. b <= s
    BY <1>2, <1>3, <2>1, <2>3, <2>6, <2>7
  <2> QED
    BY <2>3, <2>8
<1>8. Done(F)'
  BY <1>1, <1>4, <1>7 DEF Done
<1> QED
  BY <1>1, <1>5, <1>6, <1>8 DEF Progress, NothingElseLost

\* No step of a writer, a crash or a reader loses a spared record.
LEMMA StaysProgress ==
    ASSUME TypeInv, NEW F \in Seq(Piece), Explains(F), Aligned(F), Chains(F), Gridded(F), Progress(F),
           Next \/ UNCHANGED vars, \A ok \in BOOLEAN : ~Emit(ok)
    PROVE  Progress(F)'
<1>1. ASSUME phase' \in {"write", "idle"} PROVE Progress(F)'
  BY <1>1 DEF Progress, NothingElseLost
<1>2. ASSUME NEW n \in 0 .. MaxLength, AddRecord(n) PROVE Progress(F)'
  BY <1>1, <1>2 DEF AddRecord
<1>3. CASE Disturb
  BY <1>1, <1>3 DEF Disturb, Crash, Damage
<1>4. ASSUME NEW o \in 0 .. Len(file), Open(o) PROVE Progress(F)'
  BY <1>4, OpenProgress
<1>5. ASSUME NEW ok \in BOOLEAN, ReadBlock(ok) PROVE Progress(F)'
  BY <1>5, BlockProgress
<1>6. CASE UNCHANGED vars
  <2>1. /\ UNCHANGED <<file, phase, end_of_buffer_offset_, size, eof_, initial_offset_, resyncing_>>
        /\ UNCHANGED <<in_fragmented_record, scratch, prospective, records, added, harmed, torn>>
    BY <1>6 DEF vars, writerVars, readerVars, bufferVars, fragmentVars, histVars
  <2>2. Offset' = Offset
    BY <2>1 DEF Offset
  <2>3. \A r : Spared(r)' <=> Spared(r)
    BY <2>1 DEF Spared
  <2>4. \A nb \in Nat : InBlock(nb) => InBlock(nb)'
    BY <2>1, <2>2 DEF InBlock
  <2>5. Sync(F) => Sync(F)'
    BY <2>1, <2>2 DEF Sync, Readable
  <2>6. \A i \in DOMAIN F : Gathered(F, i) => Gathered(F, i)'
    BY <2>1, <2>2 DEF Gathered
  <2>7. Done(F) => Done(F)'
    BY <2>1, <2>2, <2>3, <2>6 DEF Done
  <2>8. NothingElseLost'
    BY <2>1, <2>3 DEF Progress, NothingElseLost
  <2> QED
    BY <2>1, <2>4, <2>5, <2>7, <2>8 DEF Progress
<1> QED
  BY <1>2, <1>3, <1>4, <1>5, <1>6, ReadProgress DEF Next, Write, Read

-----------------------------------------------------------------------------
(* The theorems. *)

\* The file consists of pieces that explain what the reader does.
LogInv ==
    \E F \in Seq(Piece) :
       Explains(F) /\ Aligned(F) /\ Quiet(F) /\ Chains(F) /\ Gridded(F) /\ Progress(F)

\* An empty file needs no piece.
LEMMA LogInit ==
    ASSUME Init PROVE LogInv
<1>1. PICK F \in Seq(Piece) : F = <<>>
  <2>1. <<>> \in Seq(Piece)
    OBVIOUS
  <2> QED
    BY <2>1
<1>2. Layout(F, added) /\ MadeOf(file, F)
  BY <1>1 DEF Init, Layout, InOrder, MadeOf
<1>3. Writer(F) /\ Reader(F) /\ Genuine
  BY <1>1 DEF Init, Writer, Reader, Genuine
<1>4. Aligned(F) /\ Quiet(F)
  BY <1>1 DEF Init, Aligned, Rest, Quiet
<1>5. Chains(F) /\ Gridded(F) /\ Progress(F)
  BY <1>1 DEF Init, Chains, Adding, Gridded, Progress, NothingElseLost
<1> QED
  BY <1>1, <1>2, <1>3, <1>4, <1>5 DEF LogInv, Explains

\* Every step keeps the pieces, or adds one.
LEMMA LogStep ==
    ASSUME TypeInv, LogInv, [Next]_vars
    PROVE  LogInv'
<1>1. PICK F \in Seq(Piece) :
         Explains(F) /\ Aligned(F) /\ Quiet(F) /\ Chains(F) /\ Gridded(F) /\ Progress(F)
  BY DEF LogInv
<1>2. ASSUME NEW ok \in BOOLEAN, Emit(ok) PROVE LogInv'
  <2>1. PICK g \in Piece, z \in Nat : Cut(g, z) /\ Grown(file', g) /\ Counted(g, z, ok)
    BY <1>2, EmitCuts
  <2>2. Explains(Append(F, g))'
    BY <1>1, <1>2, <2>1, EmitExplained
  <2>3. Aligned(Append(F, g))'
    BY <1>1, <1>2, <2>1, EmitAligned
  <2>4. phase = "write" /\ phase' = phase /\ reported' = reported
    BY <1>2 DEF Emit
  <2>5. Quiet(Append(F, g))'
    BY <2>4 DEF Quiet, TypeInv, Fresh
  <2>6. Chains(Append(F, g))'
    BY <1>1, <1>2, <2>1, EmitChains
  <2>7. Gridded(Append(F, g))'
    BY <1>1, <1>2, <2>1, EmitGridded
  <2>8. Progress(Append(F, g))'
    BY <2>4 DEF Progress, NothingElseLost
  <2>9. Append(F, g) \in Seq(Piece)
    OBVIOUS
  <2> QED
    BY <2>2, <2>3, <2>5, <2>6, <2>7, <2>8, <2>9 DEF LogInv
<1>3. CASE \A ok \in BOOLEAN : ~Emit(ok)
  <2>1. Explains(F)'
    BY <1>1, <1>3, StaysExplained
  <2>2. Aligned(F)'
    BY <1>1, <1>3, StaysAligned
  <2>3. Quiet(F)'
    BY <1>1, <1>3, StaysQuiet
  <2>4. Chains(F)' /\ Gridded(F)'
    BY <1>1, <1>3, StaysChained
  <2>5. Progress(F)'
    BY <1>1, <1>3, StaysProgress
  <2> QED
    BY <2>1, <2>2, <2>3, <2>4, <2>5 DEF LogInv
<1> QED
  BY <1>2, <1>3

\* Whatever crashes, torn appends, damage and failed reads do to the file, each
\* record ReadRecord returns is one AddRecord was given, whole, and they come
\* back in order, none of them twice (log_reader.cc, ReadRecord).
THEOREM ReaderGenuine == Spec => []Genuine
<1>1. Init => TypeInv /\ LogInv
  BY TypeInit, LogInit
<1>2. TypeInv /\ LogInv /\ [Next]_vars => TypeInv' /\ LogInv'
  BY TypeStep, LogStep
<1>3. LogInv => Genuine
  BY DEF LogInv, Explains
<1> QED
  BY <1>1, <1>2, <1>3, PTL DEF Spec

\* What a writer that died leaves behind, wherever the file was cut, is no
\* corruption to a reader that starts at offset 0: it reports one only after
\* damage, a torn append or a failed read (log_reader.cc, ReadPhysicalRecord and
\* ReadRecord).
THEOREM ReaderCalm == Spec => []NoFalseAlarm
<1>1. Init => TypeInv /\ LogInv
  BY TypeInit, LogInit
<1>2. TypeInv /\ LogInv /\ [Next]_vars => TypeInv' /\ LogInv'
  BY TypeStep, LogStep
<1>3. TypeInv /\ LogInv => NoFalseAlarm
  BY DEF LogInv, Quiet, Calm, NoFalseAlarm
<1> QED
  BY <1>1, <1>2, <1>3, PTL DEF Spec

\* Damage, torn appends and failed reads cost only the records they touch: by the
\* time ReadRecord reports the end of the file, every record written in full, in
\* blocks that nothing harmed and before where I/O failed, and at or behind the
\* initial offset, was returned (log_reader.cc, ReadPhysicalRecord and
\* SkipToInitialBlock).
THEOREM LossBounded == Spec => []NothingElseLost
<1>1. Init => TypeInv /\ LogInv
  BY TypeInit, LogInit
<1>2. TypeInv /\ LogInv /\ [Next]_vars => TypeInv' /\ LogInv'
  BY TypeStep, LogStep
<1>3. LogInv => NothingElseLost
  BY DEF LogInv, Progress
<1> QED
  BY <1>1, <1>2, <1>3, PTL DEF Spec
=============================================================================
