---------------------------- MODULE LevelsProofs ----------------------------
(***************************************************************************)
(* Proofs about Levels: the variables keep their types, no value a reader  *)
(* may ask for is dropped, and, as long as nobody takes a snapshot or      *)
(* calls DB::CompactRange, the files of a level stay disjoint, what is     *)
(* searched earlier stays newer, and every read finds the version it       *)
(* should.                                                                 *)
(***************************************************************************)
EXTENDS Levels, WellFoundedInduction, FiniteSetTheorems, TLAPS

-----------------------------------------------------------------------------
\* The invariant.

\* The user keys from the first to the last of E.
Span(E) == {k \in Keys : (\E e \in E : e.key <= k) /\ (\E e \in E : k <= e.key)}

Apart(f, g) == Span(f.entries) \cap Span(g.entries) = {}

\* The files of F leave no gap.
Solid(F) == \A k \in Span(Entries(F)) : \E f \in F : k \in Span(f.entries)

InputFiles(c) == c.inputs0 \cup c.inputs1

\* The inputs of a compaction have no gap, no other file of the output level
\* meets one of them, and what stays behind on their level is newer.
GoodInputs(c) ==
    /\ c.level \in 0 .. NumLevels - 2
    /\ c.inputs0 \subseteq files[c.level] /\ c.inputs1 \subseteq files[c.level + 1]
    /\ Solid(InputFiles(c))
    /\ \A g \in files[c.level + 1] \ c.inputs1, h \in InputFiles(c) : Apart(g, h)
    /\ Newer(Entries(files[c.level] \ c.inputs0), Entries(c.inputs0))

\* What DoCompactionWork fixed at its start still says enough at its end.
GoodWork(c) ==
    /\ c.smallest_snapshot \in Nat
    /\ \A s \in snapshots \cup {last_sequence} : c.smallest_snapshot <= s
    /\ \A j \in Level : j > c.inputs.level + 1 =>
          \A e \in Entries(files[j]), h \in Entries(InputFiles(c.inputs)) :
             e.key = h.key => e.key \in c.deeper
    /\ MaxSnapshots = 0 =>
          \A e \in Entries(InputFiles(c.inputs)) : e.seq <= c.smallest_snapshot

Typed ==
    /\ TypeOK
    /\ files \in [Level -> SUBSET File]
    /\ \E b \in Nat : \A f \in files[0] : f.number <= b
    /\ \A c \in compaction : c.inputs.level \in 0 .. NumLevels - 2

Recorded ==
    /\ \A e, g \in written : e.seq = g.seq => e = g
    /\ \A e \in written : e.seq <= last_sequence
    /\ mem \subseteq written /\ imm \subseteq written
    /\ \A l \in Level : \A f \in files[l] : f.entries \subseteq written
    /\ MaxSnapshots = 0 => snapshots = {}

LevelZero ==
    /\ IsFiniteSet(files[0])
    /\ \A f, g \in files[0] : f.number = g.number => f = g

LevelsApart == \A l \in Level \ {0} : \A f, g \in files[l] : f # g => Apart(f, g)

\* NewerAbove, place by place.
Stacked ==
    /\ Newer(mem, imm)
    /\ \A l \in Level : Newer(mem, Entries(files[l])) /\ Newer(imm, Entries(files[l]))
    /\ \A l, m \in Level : l < m => Newer(Entries(files[l]), Entries(files[m]))
    /\ \A f, g \in files[0] : g.number < f.number => Newer(f.entries, g.entries)

\* The newest version a reader may see is there, or it is a deletion and no
\* older version is there either.
Remembered ==
    \A k \in Keys, s \in snapshots \cup {last_sequence} :
        \A e \in Versions(written, k, s) :
            (\A g \in Versions(written, k, s) : g.seq <= e.seq) =>
                \/ e \in Present
                \/ e.type = "deletion" /\ Versions(Present, k, s) = {}

FilesInv ==
    /\ Typed /\ Recorded /\ LevelZero /\ LevelsApart /\ Stacked
    /\ \A c \in compaction : GoodInputs(c.inputs) /\ GoodWork(c)

LevelsInv == FilesInv /\ Remembered

-----------------------------------------------------------------------------
\* Least and greatest elements.

\* Less-than on the natural numbers, as a relation.
LessThan == {p \in Nat \X Nat : p[1] < p[2]}

\* It is well founded.
LEMMA LessThanWellFounded == IsWellFoundedOn(LessThan, Nat)
<1>1. IsWellFoundedOn(OpToRel(<, Nat), Nat)
  BY NatLessThanWellFounded, Zenon
<1>2. OpToRel(<, Nat) = LessThan
  BY Zenon DEF OpToRel, LessThan
<1> QED
  BY <1>1, <1>2, Zenon

\* A set of natural numbers has a least element.
LEMMA LeastNat ==
    ASSUME NEW T, T \subseteq Nat, T # {}
    PROVE  \E x \in T : \A y \in T : x <= y
<1>1. PICK x \in T : \A y \in T : ~(<<y, x>> \in LessThan)
  BY LessThanWellFounded, WFMin, Zenon
<1>2. \A y \in T : <<y, x>> \in LessThan <=> y < x
  BY DEF LessThan
<1>3. \A y \in T : ~(y < x)
  BY <1>1, <1>2
<1> QED
  BY <1>3

\* A bounded one has a greatest.
LEMMA GreatestNat ==
    ASSUME NEW T, T \subseteq Nat, T # {}, NEW b \in Nat, \A x \in T : x <= b
    PROVE  \E x \in T : \A y \in T : y <= x
<1> DEFINE D == {b - x : x \in T}
<1>1. D \subseteq Nat /\ D # {}
  OBVIOUS
<1>2. PICK d \in D : \A y \in D : d <= y
  BY <1>1, LeastNat
<1>3. PICK x \in T : d = b - x
  OBVIOUS
<1>4. ASSUME NEW y \in T PROVE y <= x
  <2>1. b - y \in D
    OBVIOUS
  <2> QED
    BY <2>1, <1>2, <1>3
<1> QED
  BY <1>4

-----------------------------------------------------------------------------
\* Ranges of keys.

\* Entries that a table file may hold.
Proper(E) ==
    /\ E \subseteq Entry /\ E # {}
    /\ \A e, g \in E : e.seq = g.seq => e = g

\* The fields of an entry.
LEMMA EntryFields ==
    ASSUME NEW e \in Entry
    PROVE  /\ e.key \in Keys /\ e.key \in Nat /\ 1 <= e.key /\ e.key <= MaxKey
           /\ e.seq \in Nat /\ 1 <= e.seq /\ e.seq <= MaxSequence
           /\ e.type \in {"value", "deletion"}
BY LevelsAssumption DEF Entry, Keys

\* The first entry of a table.
LEMMA SmallestFacts ==
    ASSUME NEW f, Proper(f.entries)
    PROVE  /\ smallest(f) \in f.entries
           /\ \A g \in f.entries : g = smallest(f) \/ Before(smallest(f), g)
<1> DEFINE E == f.entries
<1> DEFINE K == {e.key : e \in E}
<1>1. K \subseteq Nat /\ K # {}
  BY EntryFields DEF Proper
<1>2. PICK k \in K : \A y \in K : k <= y
  BY <1>1, LeastNat
<1> DEFINE S == {e.seq : e \in {g \in E : g.key = k}}
<1>3. S \subseteq Nat /\ S # {} /\ \A x \in S : x <= MaxSequence
  BY <1>2, EntryFields DEF Proper
<1>4. MaxSequence \in Nat
  BY LevelsAssumption
<1>5. PICK s \in S : \A y \in S : y <= s
  BY <1>3, <1>4, GreatestNat
<1>6. PICK e \in E : e.key = k /\ e.seq = s
  BY <1>5
<1>7. ASSUME NEW g \in E, g # e PROVE Before(e, g)
  <2>1. g.key \in Nat /\ e.key \in Nat /\ g.seq \in Nat /\ e.seq \in Nat
    BY EntryFields DEF Proper
  <2>2. e.key <= g.key
    BY <1>2, <1>6
  <2>3. g.key = e.key => g.seq <= e.seq
    BY <1>5, <1>6
  <2>4. g.seq # e.seq
    BY <1>7 DEF Proper
  <2> QED
    BY <2>1, <2>2, <2>3, <2>4 DEF Before
<1>8. \E x \in f.entries : \A g \in f.entries : g = x \/ Before(x, g)
  BY <1>7
<1> QED
  BY <1>8, Zenon DEF smallest

\* The last entry of a table.
LEMMA LargestFacts ==
    ASSUME NEW f, Proper(f.entries)
    PROVE  /\ largest(f) \in f.entries
           /\ \A g \in f.entries : g = largest(f) \/ Before(g, largest(f))
<1> DEFINE E == f.entries
<1> DEFINE K == {e.key : e \in E}
<1>1. K \subseteq Nat /\ K # {} /\ \A x \in K : x <= MaxKey
  BY EntryFields DEF Proper
<1>2. MaxKey \in Nat
  BY LevelsAssumption
<1>3. PICK k \in K : \A y \in K : y <= k
  BY <1>1, <1>2, GreatestNat
<1> DEFINE S == {e.seq : e \in {g \in E : g.key = k}}
<1>4. S \subseteq Nat /\ S # {}
  BY <1>3, EntryFields DEF Proper
<1>5. PICK s \in S : \A y \in S : s <= y
  BY <1>4, LeastNat
<1>6. PICK e \in E : e.key = k /\ e.seq = s
  BY <1>5
<1>7. ASSUME NEW g \in E, g # e PROVE Before(g, e)
  <2>1. g.key \in Nat /\ e.key \in Nat /\ g.seq \in Nat /\ e.seq \in Nat
    BY EntryFields DEF Proper
  <2>2. g.key <= e.key
    BY <1>3, <1>6
  <2>3. g.key = e.key => e.seq <= g.seq
    BY <1>5, <1>6
  <2>4. g.seq # e.seq
    BY <1>7 DEF Proper
  <2> QED
    BY <2>1, <2>2, <2>3, <2>4 DEF Before
<1>8. \E x \in f.entries : \A g \in f.entries : g = x \/ Before(g, x)
  BY <1>7
<1> QED
  BY <1>8, Zenon DEF largest

\* The span of a table goes from its first to its last key.
LEMMA FileSpan ==
    ASSUME NEW f, Proper(f.entries)
    PROVE  /\ smallest(f).key \in Keys /\ largest(f).key \in Keys
           /\ \A e \in f.entries : smallest(f).key <= e.key /\ e.key <= largest(f).key
           /\ Span(f.entries) = smallest(f).key .. largest(f).key
<1>1. /\ smallest(f) \in f.entries
      /\ \A g \in f.entries : g = smallest(f) \/ Before(smallest(f), g)
  BY SmallestFacts
<1>2. /\ largest(f) \in f.entries
      /\ \A g \in f.entries : g = largest(f) \/ Before(g, largest(f))
  BY LargestFacts
<1>3. \A e \in f.entries : e.key \in Keys /\ e.key \in Nat
  BY EntryFields DEF Proper
<1>4. \A e \in f.entries : smallest(f).key <= e.key /\ e.key <= largest(f).key
  BY <1>1, <1>2, <1>3 DEF Before
<1>5. smallest(f).key \in Keys /\ largest(f).key \in Keys
  BY <1>1, <1>2, <1>3
<1>6. ASSUME NEW k \in Span(f.entries) PROVE k \in smallest(f).key .. largest(f).key
  <2>1. PICK e \in f.entries, g \in f.entries : k \in Keys /\ e.key <= k /\ k <= g.key
    BY DEF Span
  <2>2. k \in Nat
    BY <2>1, LevelsAssumption DEF Keys
  <2> QED
    BY <2>1, <2>2, <1>1, <1>2, <1>3, <1>4
<1>7. ASSUME NEW k \in smallest(f).key .. largest(f).key PROVE k \in Span(f.entries)
  <2>1. k \in Keys
    BY <1>5, LevelsAssumption DEF Keys
  <2> QED
    BY <2>1, <1>1, <1>2 DEF Span
<1> QED
  BY <1>4, <1>5, <1>6, <1>7

\* Files that hold proper tables.
ProperFiles(F) == \A f \in F : Proper(f.entries)

\* Keys are naturals.
LEMMA KeysNat == \A k \in Keys : k \in Nat /\ 1 <= k /\ k <= MaxKey
BY LevelsAssumption DEF Keys

\* A span has no hole.
LEMMA SpanConvex ==
    ASSUME NEW E, E \subseteq Entry, NEW a \in Span(E), NEW b \in Span(E), NEW k \in Keys,
           a <= k, k <= b
    PROVE  k \in Span(E)
<1>1. PICK e \in E : e.key <= a
  BY DEF Span
<1>2. PICK g \in E : b <= g.key
  BY DEF Span
<1>3. a \in Nat /\ b \in Nat /\ k \in Nat /\ e.key \in Nat /\ g.key \in Nat
  BY KeysNat, EntryFields DEF Span
<1>4. e.key <= k /\ k <= g.key
  BY <1>1, <1>2, <1>3
<1> QED
  BY <1>4 DEF Span

\* The keys of entries are in their span.
LEMMA KeysInSpan ==
    ASSUME NEW E, E \subseteq Entry
    PROVE  \A e \in E : e.key \in Span(E)
<1>1. \A e \in E : e.key \in Keys /\ e.key \in Nat
  BY EntryFields
<1>2. \A e \in E : e.key <= e.key
  BY <1>1
<1> QED
  BY <1>1, <1>2 DEF Span

\* More entries span more.
LEMMA SpanMonotone ==
    ASSUME NEW E, NEW G, E \subseteq G
    PROVE  Span(E) \subseteq Span(G)
BY DEF Span

\* The files that overlap a range are those whose spans meet it.
LEMMA OverlapSpan ==
    ASSUME NEW F, ProperFiles(F), NEW lo \in Keys, NEW hi \in Keys, lo <= hi
    PROVE  \A f \in F : f \in Overlapping(F, lo, hi) <=> Span(f.entries) \cap (lo .. hi) # {}
<1> SUFFICES ASSUME NEW f \in F
             PROVE  f \in Overlapping(F, lo, hi) <=> Span(f.entries) \cap (lo .. hi) # {}
  OBVIOUS
<1> DEFINE a == smallest(f).key
           b == largest(f).key
<1>1. /\ a \in Keys /\ b \in Keys
      /\ \A e \in f.entries : a <= e.key /\ e.key <= b
      /\ Span(f.entries) = a .. b
  BY FileSpan DEF ProperFiles
<1>2. a \in Nat /\ b \in Nat /\ lo \in Nat /\ hi \in Nat
  BY <1>1, KeysNat
<1>3. a <= b
  <2>1. PICK e \in f.entries : e \in Entry
    BY DEF ProperFiles, Proper
  <2> QED
    BY <2>1, <1>1, <1>2, EntryFields
<1>4. (a .. b) \cap (lo .. hi) # {} <=> b >= lo /\ a <= hi
  <2> HIDE DEF a, b
  <2>1. ASSUME b >= lo, a <= hi PROVE \E k \in a .. b : k \in lo .. hi
    <3>1. CASE a <= lo
      BY <3>1, <2>1, <1>2
    <3>2. CASE lo <= a
      BY <3>2, <2>1, <1>2, <1>3
    <3> QED
      BY <3>1, <3>2, <1>2
  <2>2. ASSUME NEW k \in a .. b, k \in lo .. hi PROVE b >= lo /\ a <= hi
    BY <2>2, <1>2
  <2> QED
    BY <2>1, <2>2
<1>5. f \in Overlapping(F, lo, hi) <=> b >= lo /\ a <= hi
  BY DEF Overlapping
<1> QED
  BY <1>1, <1>4, <1>5

\* GetRange yields the span of the files.
LEMMA RangeSpan ==
    ASSUME NEW F, ProperFiles(F), F # {}
    PROVE  /\ Low(F) \in Keys /\ High(F) \in Keys /\ Low(F) <= High(F)
           /\ Span(Entries(F)) = Low(F) .. High(F)
<1>1. \A f \in F : /\ smallest(f).key \in Keys /\ largest(f).key \in Keys
                   /\ \A e \in f.entries : smallest(f).key <= e.key /\ e.key <= largest(f).key
                   /\ smallest(f) \in f.entries /\ largest(f) \in f.entries
                   /\ f.entries \subseteq Entry
  BY FileSpan, SmallestFacts, LargestFacts DEF ProperFiles, Proper
<1> DEFINE A == {smallest(f).key : f \in F}
           B == {largest(f).key : f \in F}
<1>2. A \subseteq Nat /\ A # {} /\ B \subseteq Nat /\ B # {} /\ \A x \in B : x <= MaxKey
  BY <1>1, KeysNat
<1>3. PICK a \in A : \A y \in A : a <= y
  BY <1>2, LeastNat
<1>4. MaxKey \in Nat
  BY LevelsAssumption
<1>5. PICK b \in B : \A y \in B : y <= b
  BY <1>2, <1>4, GreatestNat
<1>6. \E k \in Keys : (\E f \in F : smallest(f).key = k) /\ \A f \in F : k <= smallest(f).key
  BY <1>1, <1>3
<1>7. \E k \in Keys : (\E f \in F : largest(f).key = k) /\ \A f \in F : largest(f).key <= k
  BY <1>1, <1>5
<1>8. /\ Low(F) \in Keys
      /\ \E f \in F : smallest(f).key = Low(F)
      /\ \A f \in F : Low(F) <= smallest(f).key
  BY <1>6, Zenon DEF Low
<1>9. /\ High(F) \in Keys
      /\ \E f \in F : largest(f).key = High(F)
      /\ \A f \in F : largest(f).key <= High(F)
  BY <1>7, Zenon DEF High
<1>10. \A e \in Entries(F) : /\ Low(F) <= e.key /\ e.key <= High(F)
                             /\ e.key \in Nat
  <2> SUFFICES ASSUME NEW f \in F, NEW e \in f.entries
               PROVE  Low(F) <= e.key /\ e.key <= High(F) /\ e.key \in Nat
    BY DEF Entries
  <2>1. e.key \in Nat /\ smallest(f).key \in Nat /\ largest(f).key \in Nat
        /\ Low(F) \in Nat /\ High(F) \in Nat
    BY <1>1, <1>8, <1>9, KeysNat, EntryFields
  <2>2. /\ Low(F) <= smallest(f).key /\ smallest(f).key <= e.key
        /\ e.key <= largest(f).key /\ largest(f).key <= High(F)
    BY <1>1, <1>8, <1>9
  <2> QED
    BY <2>1, <2>2
<1>11. PICK e \in Entries(F) : e.key = Low(F)
  BY <1>1, <1>8 DEF Entries
<1>12. PICK g \in Entries(F) : g.key = High(F)
  BY <1>1, <1>9 DEF Entries
<1>13. Low(F) \in Nat /\ High(F) \in Nat
  BY <1>8, <1>9, KeysNat
<1>14. Low(F) <= High(F)
  BY <1>10, <1>11, <1>13
<1>15. ASSUME NEW k \in Span(Entries(F)) PROVE k \in Low(F) .. High(F)
  <2>1. k \in Nat
    BY KeysNat DEF Span
  <2>2. PICK x \in Entries(F), y \in Entries(F) : x.key <= k /\ k <= y.key
    BY DEF Span
  <2> QED
    BY <2>1, <2>2, <1>10, <1>13
<1>16. ASSUME NEW k \in Low(F) .. High(F) PROVE k \in Span(Entries(F))
  <2>1. k \in Keys
    BY <1>8, <1>9, LevelsAssumption DEF Keys
  <2> QED
    BY <2>1, <1>11, <1>12, <1>13 DEF Span
<1> QED
  BY <1>8, <1>9, <1>14, <1>15, <1>16

\* Files that meet the span of files without a gap add none.
LEMMA SolidUnion ==
    ASSUME NEW F, NEW G, ProperFiles(F), ProperFiles(G), Solid(F),
           \A g \in G : Span(g.entries) \cap Span(Entries(F)) # {}
    PROVE  Solid(F \cup G)
<1> SUFFICES ASSUME NEW k \in Span(Entries(F \cup G))
             PROVE  \E f \in F \cup G : k \in Span(f.entries)
  BY DEF Solid
<1>1. k \in Keys /\ k \in Nat
  BY KeysNat DEF Span
<1>2. \A f \in F \cup G : f.entries \subseteq Entry
  BY DEF ProperFiles, Proper
<1>3. CASE k \in Span(Entries(F))
  BY <1>3 DEF Solid
<1>4. CASE ~(\E e \in Entries(F) : e.key <= k)
  <2>1. PICK e \in Entries(F \cup G) : e.key <= k
    BY DEF Span
  <2>2. PICK g \in G : e \in g.entries
    BY <2>1, <1>4 DEF Entries
  <2>3. PICK m \in Span(g.entries) : m \in Span(Entries(F))
    BY <2>2
  <2>4. PICK h \in Entries(F) : h.key <= m
    BY <2>3 DEF Span
  <2>5. PICK x \in g.entries : m <= x.key
    BY <2>3 DEF Span
  <2>6. h.key \in Nat /\ x.key \in Nat /\ m \in Nat
    BY <1>2, <2>3, KeysNat, EntryFields DEF Entries, Span
  <2>7. ~(h.key <= k)
    BY <1>4
  <2>8. k <= x.key
    BY <2>4, <2>5, <2>6, <2>7, <1>1
  <2> QED
    BY <2>1, <2>2, <2>8, <1>1 DEF Span
<1>5. CASE ~(\E e \in Entries(F) : k <= e.key)
  <2>1. PICK e \in Entries(F \cup G) : k <= e.key
    BY DEF Span
  <2>2. PICK g \in G : e \in g.entries
    BY <2>1, <1>5 DEF Entries
  <2>3. PICK m \in Span(g.entries) : m \in Span(Entries(F))
    BY <2>2
  <2>4. PICK h \in Entries(F) : m <= h.key
    BY <2>3 DEF Span
  <2>5. PICK x \in g.entries : x.key <= m
    BY <2>3 DEF Span
  <2>6. h.key \in Nat /\ x.key \in Nat /\ m \in Nat
    BY <1>2, <2>3, KeysNat, EntryFields DEF Entries, Span
  <2>7. ~(k <= h.key)
    BY <1>5
  <2>8. x.key <= k
    BY <2>4, <2>5, <2>6, <2>7, <1>1
  <2> QED
    BY <2>1, <2>2, <2>8, <1>1 DEF Span
<1> QED
  BY <1>1, <1>3, <1>4, <1>5 DEF Span

-----------------------------------------------------------------------------
\* The inputs of a compaction.

\* The key ranges around lo .. hi that no level-0 file sticks out of.
ClosedRanges(lo, hi) ==
    {r \in Keys \X Keys :
        /\ r[1] <= lo /\ hi <= r[2]
        /\ \A f \in Overlapping(files[0], r[1], r[2]) :
              r[1] <= smallest(f).key /\ largest(f).key <= r[2]}

\* The same by spans.
LEMMA ClosedBySpans ==
    ASSUME ProperFiles(files[0]), NEW lo \in Keys, NEW hi \in Keys, lo <= hi,
           NEW a \in Keys, NEW b \in Keys, a <= lo, hi <= b
    PROVE  <<a, b>> \in ClosedRanges(lo, hi) <=>
           \A f \in files[0] : Span(f.entries) \cap (a .. b) # {} => Span(f.entries) \subseteq a .. b
<1>1. a \in Nat /\ b \in Nat /\ a <= b
  BY KeysNat
<1>2. ASSUME NEW f \in files[0]
      PROVE  /\ f \in Overlapping(files[0], a, b) <=> Span(f.entries) \cap (a .. b) # {}
             /\ (a <= smallest(f).key /\ largest(f).key <= b) <=> Span(f.entries) \subseteq a .. b
  <2>1. f \in Overlapping(files[0], a, b) <=> Span(f.entries) \cap (a .. b) # {}
    BY <1>1, OverlapSpan
  <2> DEFINE x == smallest(f).key
             y == largest(f).key
  <2>2. /\ x \in Keys /\ y \in Keys
        /\ \A e \in f.entries : x <= e.key /\ e.key <= y
        /\ Span(f.entries) = x .. y
    BY FileSpan DEF ProperFiles
  <2>3. PICK e \in f.entries : e \in Entry
    BY DEF ProperFiles, Proper
  <2>4. x \in Nat /\ y \in Nat /\ x <= y
    BY <2>2, <2>3, KeysNat, EntryFields
  <2>5. (a <= x /\ y <= b) <=> (x .. y) \subseteq a .. b
    <3> HIDE DEF x, y
    <3>1. x \in x .. y /\ y \in x .. y
      BY <2>4
    <3> QED
      BY <3>1, <2>4, <1>1
  <2> QED
    BY <2>1, <2>2, <2>5
<1>3. Overlapping(files[0], a, b) \subseteq files[0]
  BY DEF Overlapping
<1> QED
  BY <1>2, <1>3 DEF ClosedRanges

\* There is a least such range.
LEMMA LeastClosed ==
    ASSUME ProperFiles(files[0]), NEW lo \in Keys, NEW hi \in Keys, lo <= hi
    PROVE  \E r \in ClosedRanges(lo, hi) :
              \A q \in ClosedRanges(lo, hi) : q[1] <= r[1] /\ r[2] <= q[2]
<1> DEFINE C == ClosedRanges(lo, hi)
           A == {r[1] : r \in C}
           B == {r[2] : r \in C}
<1>1. \A r \in C : /\ r[1] \in Keys /\ r[2] \in Keys /\ r[1] <= lo /\ hi <= r[2]
                   /\ r[1] \in Nat /\ r[2] \in Nat /\ r = <<r[1], r[2]>>
  BY KeysNat DEF ClosedRanges
<1>2. lo \in Nat /\ hi \in Nat /\ MaxKey \in Nat
  BY KeysNat, LevelsAssumption
<1>3. C # {}
  <2>1. 1 \in Keys /\ MaxKey \in Keys /\ 1 <= lo /\ hi <= MaxKey
    BY KeysNat, LevelsAssumption DEF Keys
  <2>2. \A f \in files[0] : Span(f.entries) \subseteq 1 .. MaxKey
    BY DEF Span, Keys
  <2>3. <<1, MaxKey>> \in C
    BY <2>1, <2>2, ClosedBySpans
  <2> QED
    BY <2>3
<1>4. A \subseteq Nat /\ A # {} /\ (\A x \in A : x <= lo) /\ B \subseteq Nat /\ B # {}
  BY <1>1, <1>3
<1>5. PICK a \in A : \A y \in A : y <= a
  BY <1>4, <1>2, GreatestNat
<1>6. PICK b \in B : \A y \in B : b <= y
  BY <1>4, LeastNat
<1>7. PICK p \in C : a = p[1]
  BY <1>5
<1>8. PICK q \in C : b = q[2]
  BY <1>6
<1>9. a \in Keys /\ b \in Keys /\ a <= lo /\ hi <= b /\ a \in Nat /\ b \in Nat
  BY <1>1, <1>7, <1>8
<1>10. p[2] \in Nat /\ q[1] \in Nat /\ b <= p[2] /\ q[1] <= a
  BY <1>1, <1>5, <1>6, <1>7, <1>8
<1>11. ASSUME NEW f \in files[0], Span(f.entries) \cap (a .. b) # {}
       PROVE  Span(f.entries) \subseteq a .. b
  <2>1. PICK k \in Span(f.entries) : k \in a .. b
    BY <1>11
  <2>2. k \in p[1] .. p[2] /\ k \in q[1] .. q[2]
    BY <2>1, <1>7, <1>8, <1>9, <1>10
  <2>3. Span(f.entries) \subseteq p[1] .. p[2]
    <3>1. <<p[1], p[2]>> \in ClosedRanges(lo, hi) /\ p[1] \in Keys /\ p[2] \in Keys
          /\ p[1] <= lo /\ hi <= p[2]
      BY <1>1
    <3>2. Span(f.entries) \cap (p[1] .. p[2]) # {}
      BY <2>1, <2>2
    <3> QED
      BY <3>1, <3>2, ClosedBySpans
  <2>4. Span(f.entries) \subseteq q[1] .. q[2]
    <3>1. <<q[1], q[2]>> \in ClosedRanges(lo, hi) /\ q[1] \in Keys /\ q[2] \in Keys
          /\ q[1] <= lo /\ hi <= q[2]
      BY <1>1
    <3>2. Span(f.entries) \cap (q[1] .. q[2]) # {}
      BY <2>1, <2>2
    <3> QED
      BY <3>1, <3>2, ClosedBySpans
  <2> QED
    BY <2>3, <2>4, <1>7, <1>8, <1>9, <1>10
<1>12. <<a, b>> \in C
  BY <1>9, <1>11, ClosedBySpans
<1>13. \A r \in C : r[1] <= a /\ b <= r[2]
  BY <1>5, <1>6
<1> QED
  BY <1>12, <1>13

\* GetOverlappingInputs on level 0: a range around lo .. hi, the files that
\* meet it lie in it, and it has no gap but perhaps in lo .. hi.
LEMMA LevelZeroInputs ==
    ASSUME ProperFiles(files[0]), NEW lo \in Keys, NEW hi \in Keys, lo <= hi
    PROVE  \E a, b \in Keys :
              /\ a <= lo /\ hi <= b
              /\ GetOverlappingInputs(0, lo, hi) \subseteq files[0]
              /\ \A f \in files[0] : f \in GetOverlappingInputs(0, lo, hi) <=>
                                     Span(f.entries) \cap (a .. b) # {}
              /\ \A f \in GetOverlappingInputs(0, lo, hi) : Span(f.entries) \subseteq a .. b
              /\ \A k \in a .. b : \/ k \in lo .. hi
                                   \/ \E f \in GetOverlappingInputs(0, lo, hi) :
                                         k \in Span(f.entries)
<1> DEFINE C == ClosedRanges(lo, hi)
           G == GetOverlappingInputs(0, lo, hi)
           r == CHOOSE x \in C : \A q \in C : q[1] <= x[1] /\ x[2] <= q[2]
           a == r[1]
           b == r[2]
<1>1. r \in C /\ \A q \in C : q[1] <= r[1] /\ r[2] <= q[2]
  BY LeastClosed, Zenon
<1>2. G = Overlapping(files[0], r[1], r[2])
  BY DEF GetOverlappingInputs, ClosedRanges
<1> HIDE DEF r, G
<1>3. a \in Keys /\ b \in Keys /\ a <= lo /\ hi <= b /\ r = <<a, b>>
  BY <1>1 DEF ClosedRanges
<1>4. a \in Nat /\ b \in Nat /\ lo \in Nat /\ hi \in Nat /\ a <= b
  BY <1>3, KeysNat
<1>5. G \subseteq files[0]
  BY <1>2 DEF Overlapping
<1>6. \A f \in files[0] : f \in G <=> Span(f.entries) \cap (a .. b) # {}
  BY <1>2, <1>3, <1>4, OverlapSpan
<1>7. \A f \in files[0] : Span(f.entries) \cap (a .. b) # {} => Span(f.entries) \subseteq a .. b
  BY <1>1, <1>3, ClosedBySpans
<1>8. ASSUME NEW k \in a .. b, k \notin lo .. hi, \A f \in G : k \notin Span(f.entries)
      PROVE  FALSE
  <2>1. k \in Keys /\ k \in Nat
    BY <1>3, LevelsAssumption DEF Keys
  <2>2. CASE k < lo
    <3>1. k + 1 \in Keys /\ k + 1 <= lo
      BY <2>1, <2>2, <1>4, LevelsAssumption DEF Keys
    <3>2. ASSUME NEW f \in files[0], Span(f.entries) \cap (k + 1 .. b) # {}
          PROVE  Span(f.entries) \subseteq k + 1 .. b
      <4>1. PICK m \in Span(f.entries) : m \in k + 1 .. b
        BY <3>2
      <4>2. m \in a .. b
        BY <4>1, <2>1, <1>4
      <4>3. f \in G /\ Span(f.entries) \subseteq a .. b
        BY <4>1, <4>2, <1>6, <1>7
      <4>4. ASSUME NEW x \in Span(f.entries), x <= k PROVE FALSE
        <5>1. k <= m
          BY <4>1, <2>1, <1>4
        <5>2. f.entries \subseteq Entry
          BY DEF ProperFiles, Proper
        <5>3. k \in Span(f.entries)
          BY <5>1, <5>2, <4>1, <4>4, <2>1, SpanConvex
        <5> QED
          BY <5>3, <4>3, <1>8
      <4> QED
        BY <4>3, <4>4, <2>1, <1>4
    <3>3. <<k + 1, b>> \in C
      BY <3>1, <3>2, <1>3, ClosedBySpans
    <3>4. <<k + 1, b>>[1] <= r[1]
      BY <3>3, <1>1
    <3> QED
      BY <3>4, <2>1, <1>4
  <2>3. CASE hi < k
    <3>1. k - 1 \in Keys /\ hi <= k - 1
      BY <2>1, <2>3, <1>4, KeysNat, LevelsAssumption DEF Keys
    <3>2. ASSUME NEW f \in files[0], Span(f.entries) \cap (a .. k - 1) # {}
          PROVE  Span(f.entries) \subseteq a .. k - 1
      <4>1. PICK m \in Span(f.entries) : m \in a .. k - 1
        BY <3>2
      <4>2. m \in a .. b
        BY <4>1, <2>1, <1>4
      <4>3. f \in G /\ Span(f.entries) \subseteq a .. b
        BY <4>1, <4>2, <1>6, <1>7
      <4>4. ASSUME NEW x \in Span(f.entries), k <= x PROVE FALSE
        <5>1. m <= k
          BY <4>1, <2>1, <1>4
        <5>2. f.entries \subseteq Entry
          BY DEF ProperFiles, Proper
        <5>3. k \in Span(f.entries)
          BY <5>1, <5>2, <4>1, <4>4, <2>1, SpanConvex
        <5> QED
          BY <5>3, <4>3, <1>8
      <4> QED
        BY <4>3, <4>4, <2>1, <1>4
    <3>3. <<a, k - 1>> \in C
      BY <3>1, <3>2, <1>3, ClosedBySpans
    <3>4. r[2] <= <<a, k - 1>>[2]
      BY <3>3, <1>1
    <3> QED
      BY <3>4, <2>1, <1>4
  <2> QED
    BY <2>1, <2>2, <2>3, <1>8, <1>4
<1>9. /\ \A f \in G : Span(f.entries) \subseteq a .. b
      /\ \A k \in a .. b : k \in lo .. hi \/ \E f \in G : k \in Span(f.entries)
  BY <1>5, <1>6, <1>7, <1>8
<1> HIDE DEF a, b
<1> QED
  BY <1>3, <1>5, <1>6, <1>9 DEF G

\* Every file on every level holds a proper table.
AllProper == \A l \in Level : ProperFiles(files[l])

\* A level a compaction may start from, and the next.
LEMMA LevelPair ==
    ASSUME NEW l \in 0 .. NumLevels - 2
    PROVE  l \in Level /\ l + 1 \in Level /\ l \in Nat /\ l + 1 \in Level \ {0} /\ l + 1 > 0
           /\ l # l + 1
BY LevelsAssumption DEF Level

\* Files that do not meet hold no key in common.
LEMMA ApartNoKey ==
    ASSUME NEW f, NEW g, f.entries \subseteq Entry, g.entries \subseteq Entry, Apart(f, g)
    PROVE  \A e \in f.entries, h \in g.entries : e.key # h.key
<1>1. \A e \in f.entries : e.key \in Span(f.entries)
  BY KeysInSpan
<1>2. \A e \in g.entries : e.key \in Span(g.entries)
  BY KeysInSpan
<1> QED
  BY <1>1, <1>2 DEF Apart

\* Sets of files without a common key, in either order.
LEMMA NoKeyNewer ==
    ASSUME NEW F, NEW G,
           \A f \in F, g \in G : \A e \in f.entries, h \in g.entries : e.key # h.key
    PROVE  Newer(Entries(F), Entries(G))
BY DEF Newer, Entries

\* Below level 0 the files left behind have no key of the inputs.
LEMMA LeftBehind ==
    ASSUME AllProper, LevelsApart, NEW l \in Level \ {0}, NEW F, F \subseteq files[l]
    PROVE  Newer(Entries(files[l] \ F), Entries(F))
<1> SUFFICES ASSUME NEW f \in files[l] \ F, NEW g \in F, NEW e \in f.entries, NEW h \in g.entries
             PROVE  e.key # h.key
  BY DEF Newer, Entries
<1>1. Apart(f, g)
  BY DEF LevelsApart
<1>2. f.entries \subseteq Entry /\ g.entries \subseteq Entry
  BY DEF AllProper, ProperFiles, Proper
<1> QED
  BY <1>1, <1>2, ApartNoKey

\* Inputs without a gap, with every file of the next level that meets them.
LEMMA InputsGood ==
    ASSUME AllProper, LevelsApart, NEW l \in 0 .. NumLevels - 2,
           NEW F0, F0 \subseteq files[l], F0 # {},
           Newer(Entries(files[l] \ F0), Entries(F0)),
           NEW F1, F1 = Overlapping(files[l + 1], Low(F0), High(F0)),
           Solid(F0 \cup F1)
    PROVE  GoodInputs(Inputs(l, F0, F1))
<1> DEFINE c == Inputs(l, F0, F1)
<1>1. l \in Level /\ l + 1 \in Level \ {0}
  BY LevelPair
<1>2. c.level = l /\ c.inputs0 = F0 /\ c.inputs1 = F1 /\ InputFiles(c) = F0 \cup F1
  BY DEF Inputs, InputFiles
<1>3. F1 \subseteq files[l + 1]
  BY DEF Overlapping
<1>4. ProperFiles(F0) /\ ProperFiles(files[l + 1])
  BY <1>1 DEF AllProper, ProperFiles
<1>5. /\ Low(F0) \in Keys /\ High(F0) \in Keys /\ Low(F0) <= High(F0)
      /\ Span(Entries(F0)) = Low(F0) .. High(F0)
  BY <1>4, RangeSpan
<1>6. ASSUME NEW g \in files[l + 1] \ F1, NEW h \in F0 \cup F1 PROVE Apart(g, h)
  <2>1. CASE h \in F1
    BY <2>1, <1>1, <1>3 DEF LevelsApart
  <2>2. CASE h \in F0
    <3>1. Span(g.entries) \cap (Low(F0) .. High(F0)) = {}
      BY <1>4, <1>5, OverlapSpan
    <3>2. h.entries \subseteq Entries(F0)
      BY <2>2 DEF Entries
    <3>3. Span(h.entries) \subseteq Span(Entries(F0))
      BY <3>2, SpanMonotone
    <3> QED
      BY <3>1, <3>3, <1>5 DEF Apart
  <2> QED
    BY <2>1, <2>2
<1> HIDE DEF c
<1>7. GoodInputs(c)
  BY <1>2, <1>3, <1>6 DEF GoodInputs
<1> QED
  BY <1>7 DEF c

\* Further files of the same level that the range of the inputs meets.
LEMMA ExpandInputs ==
    ASSUME AllProper, LevelsApart, NEW l \in 0 .. NumLevels - 2,
           NEW F0, F0 \subseteq files[l], F0 # {}, NEW F1, F1 \subseteq files[l + 1],
           Solid(F0 \cup F1),
           NEW E0, E0 = GetOverlappingInputs(l, Low(F0 \cup F1), High(F0 \cup F1))
    PROVE  /\ F0 \subseteq E0 /\ E0 \subseteq files[l]
           /\ Newer(Entries(files[l] \ E0), Entries(E0))
           /\ Solid(E0 \cup F1)
<1> DEFINE A == F0 \cup F1
           lo == Low(A)
           hi == High(A)
<1>1. l \in Level /\ l + 1 \in Level /\ l \in Nat
  BY LevelPair
<1>2. ProperFiles(A) /\ ProperFiles(files[l])
  BY <1>1 DEF AllProper, ProperFiles
<1>3. lo \in Keys /\ hi \in Keys /\ lo <= hi /\ Span(Entries(A)) = lo .. hi
  BY <1>2, RangeSpan
<1>4. \A f \in A : Span(f.entries) \subseteq lo .. hi /\ Span(f.entries) # {}
  <2> SUFFICES ASSUME NEW f \in A PROVE Span(f.entries) \subseteq lo .. hi /\ Span(f.entries) # {}
    OBVIOUS
  <2>1. f.entries \subseteq Entries(A)
    BY DEF Entries
  <2>2. Span(f.entries) \subseteq Span(Entries(A))
    BY <2>1, SpanMonotone
  <2>3. f.entries \subseteq Entry /\ f.entries # {}
    BY <1>2 DEF ProperFiles, Proper
  <2> QED
    BY <2>2, <2>3, <1>3, KeysInSpan
<1> HIDE DEF lo, hi
<1>5. CASE l > 0
  <2>1. E0 = Overlapping(files[l], lo, hi)
    BY <1>5 DEF GetOverlappingInputs, lo, hi
  <2>2. E0 \subseteq files[l] /\ \A f \in files[l] : f \in E0 <=> Span(f.entries) \cap (lo .. hi) # {}
    BY <2>1, <1>2, <1>3, OverlapSpan DEF Overlapping
  <2>3. F0 \subseteq E0
    BY <2>2, <1>4
  <2>4. Newer(Entries(files[l] \ E0), Entries(E0))
    <3>1. l \in Level \ {0}
      BY <1>1, <1>5
    <3> QED
      BY <2>2, <3>1, LeftBehind
  <2>5. ProperFiles(E0)
    BY <2>2, <1>2 DEF ProperFiles
  <2>6. Solid(A \cup E0)
    BY <2>2, <2>5, <1>2, <1>3, SolidUnion
  <2>7. A \cup E0 = E0 \cup F1
    BY <2>3
  <2> QED
    BY <2>2, <2>3, <2>4, <2>6, <2>7
<1>6. CASE l = 0
  <2>1. E0 = GetOverlappingInputs(0, lo, hi)
    BY <1>6 DEF lo, hi
  <2>2. PICK a \in Keys, b \in Keys :
              /\ a <= lo /\ hi <= b
              /\ E0 \subseteq files[0]
              /\ \A f \in files[0] : f \in E0 <=> Span(f.entries) \cap (a .. b) # {}
              /\ \A f \in E0 : Span(f.entries) \subseteq a .. b
              /\ \A k \in a .. b : k \in lo .. hi \/ \E f \in E0 : k \in Span(f.entries)
    BY <2>1, <1>2, <1>3, <1>6, LevelZeroInputs
  <2>3. lo .. hi \subseteq a .. b
    BY <2>2, <1>3, KeysNat
  <2>4. F0 \subseteq E0
    BY <2>2, <2>3, <1>4, <1>6, ZenonT(30)
  <2>5. Newer(Entries(files[0] \ E0), Entries(E0))
    <3> SUFFICES ASSUME NEW f \in files[0] \ E0, NEW g \in E0
                 PROVE  \A e \in f.entries, h \in g.entries : e.key # h.key
      BY NoKeyNewer
    <3>1. Apart(f, g)
      BY <2>2 DEF Apart
    <3>2. f.entries \subseteq Entry /\ g.entries \subseteq Entry
      BY <2>2, <1>2, <1>6 DEF ProperFiles, Proper
    <3> QED
      BY <3>1, <3>2, ApartNoKey
  <2>6. Solid(E0 \cup F1)
    <3> SUFFICES ASSUME NEW k \in Span(Entries(E0 \cup F1))
                 PROVE  \E f \in E0 \cup F1 : k \in Span(f.entries)
      BY DEF Solid
    <3>1. \A e \in Entries(E0 \cup F1) : a <= e.key /\ e.key <= b /\ e.key \in Nat
      <4> SUFFICES ASSUME NEW f \in E0 \cup F1, NEW e \in f.entries
                   PROVE  a <= e.key /\ e.key <= b /\ e.key \in Nat
        BY DEF Entries
      <4>1. f.entries \subseteq Entry
        BY <2>2, <1>2, <1>6 DEF ProperFiles, Proper
      <4>2. e.key \in Span(f.entries)
        BY <4>1, KeysInSpan
      <4>3. Span(f.entries) \subseteq a .. b
        BY <2>2, <2>3, <1>4
      <4> QED
        BY <4>1, <4>2, <4>3, KeysNat, EntryFields
    <3>2. PICK x \in Entries(E0 \cup F1), y \in Entries(E0 \cup F1) : x.key <= k /\ k <= y.key
      BY DEF Span
    <3>3. k \in Nat /\ a \in Nat /\ b \in Nat
      BY KeysNat DEF Span
    <3>4. k \in a .. b
      <4>1. a <= x.key /\ x.key \in Nat /\ y.key <= b /\ y.key \in Nat
        BY <3>1, <3>2
      <4> QED
        BY <4>1, <3>2, <3>3
    <3>5. CASE k \in lo .. hi
      <4>1. PICK f \in A : k \in Span(f.entries)
        BY <3>5, <1>3 DEF Solid
      <4> QED
        BY <4>1, <2>4
    <3> QED
      BY <3>4, <3>5, <2>2
  <2> QED
    BY <2>2, <2>4, <2>5, <2>6, <1>6
<1>7. l > 0 \/ l = 0
  BY <1>1
<1> QED
  BY <1>5, <1>6, <1>7, Zenon

\* SetupOtherInputs chooses good inputs.
LEMMA SetupGood ==
    ASSUME AllProper, LevelsApart, NEW l \in 0 .. NumLevels - 2,
           NEW F0, F0 \subseteq files[l], F0 # {}, Solid(F0),
           Newer(Entries(files[l] \ F0), Entries(F0)),
           NEW c \in SetupOtherInputs(l, F0)
    PROVE  GoodInputs(c)
<1> DEFINE F1 == GetOverlappingInputs(l + 1, Low(F0), High(F0))
           A == F0 \cup F1
           E0 == GetOverlappingInputs(l, Low(A), High(A))
           E1 == GetOverlappingInputs(l + 1, Low(E0), High(E0))
<1>1. l \in Level /\ l + 1 \in Level \ {0} /\ l + 1 > 0
  BY LevelPair
<1>2. F1 = Overlapping(files[l + 1], Low(F0), High(F0))
      /\ E1 = Overlapping(files[l + 1], Low(E0), High(E0))
  BY <1>1 DEF GetOverlappingInputs
<1>3. c = Inputs(l, F0, F1) \/ c = Inputs(l, E0, E1)
  BY DEF SetupOtherInputs
<1> HIDE DEF F1, E0, E1
<1>4. F1 \subseteq files[l + 1] /\ E1 \subseteq files[l + 1]
  BY <1>2 DEF Overlapping
<1>5. ProperFiles(F0) /\ ProperFiles(F1) /\ ProperFiles(E1) /\ ProperFiles(files[l + 1])
  BY <1>1, <1>4 DEF AllProper, ProperFiles
<1>6. /\ Low(F0) \in Keys /\ High(F0) \in Keys /\ Low(F0) <= High(F0)
      /\ Span(Entries(F0)) = Low(F0) .. High(F0)
  BY <1>5, RangeSpan
<1>7. \A g \in files[l + 1] : g \in F1 <=> Span(g.entries) \cap Span(Entries(F0)) # {}
  BY <1>2, <1>5, <1>6, OverlapSpan
<1>8. Solid(F0 \cup F1)
  BY <1>4, <1>5, <1>7, SolidUnion
<1>9. CASE c = Inputs(l, F0, F1)
  BY <1>9, <1>2, <1>8, InputsGood
<1>10. CASE c = Inputs(l, E0, E1)
  <2>1. /\ F0 \subseteq E0 /\ E0 \subseteq files[l]
        /\ Newer(Entries(files[l] \ E0), Entries(E0))
        /\ Solid(E0 \cup F1)
    BY <1>4, <1>8, ExpandInputs DEF E0
  <2>2. ProperFiles(E0) /\ E0 # {}
    BY <2>1, <1>1 DEF AllProper, ProperFiles
  <2>3. /\ Low(E0) \in Keys /\ High(E0) \in Keys /\ Low(E0) <= High(E0)
        /\ Span(Entries(E0)) = Low(E0) .. High(E0)
    BY <2>2, RangeSpan
  <2>4. \A g \in files[l + 1] : g \in E1 <=> Span(g.entries) \cap Span(Entries(E0)) # {}
    BY <1>2, <1>5, <2>3, OverlapSpan
  <2>5. Span(Entries(F0)) \subseteq Span(Entries(E0))
    <3>1. Entries(F0) \subseteq Entries(E0)
      BY <2>1 DEF Entries
    <3> QED
      BY <3>1, SpanMonotone
  <2>6. F1 \subseteq E1
    BY <1>4, <1>7, <2>4, <2>5
  <2>7. Span(Entries(E0)) \subseteq Span(Entries(E0 \cup F1))
    <3>1. Entries(E0) \subseteq Entries(E0 \cup F1)
      BY DEF Entries
    <3> QED
      BY <3>1, SpanMonotone
  <2>8. ProperFiles(E0 \cup F1)
    BY <2>2, <1>5 DEF ProperFiles
  <2>9. \A g \in E1 : Span(g.entries) \cap Span(Entries(E0 \cup F1)) # {}
    BY <1>4, <2>4, <2>7
  <2>10. Solid((E0 \cup F1) \cup E1)
    BY <2>1, <2>8, <2>9, <1>5, SolidUnion
  <2>11. (E0 \cup F1) \cup E1 = E0 \cup E1
    BY <2>6
  <2> QED
    BY <1>10, <1>2, <2>1, <2>2, <2>10, <2>11, InputsGood
<1> QED
  BY <1>3, <1>9, <1>10

\* A single file has no gap.
LEMMA SolidOne ==
    ASSUME NEW f
    PROVE  Solid({f})
<1>1. Entries({f}) = f.entries
  BY DEF Entries
<1> QED
  BY <1>1 DEF Solid

\* PickCompaction chooses good inputs.
LEMMA PickGood ==
    ASSUME AllProper, LevelsApart, NEW c \in PickCompaction
    PROVE  GoodInputs(c)
<1> DEFINE First(l, f) == IF l = 0
                          THEN GetOverlappingInputs(0, smallest(f).key, largest(f).key)
                          ELSE {f}
           From(l) == UNION {SetupOtherInputs(l, First(l, f)) : f \in files[l]}
<1>0. PickCompaction = UNION {From(l) : l \in 0 .. NumLevels - 2}
  BY DEF PickCompaction
<1> HIDE DEF From
<1>a. PICK l \in 0 .. NumLevels - 2 : c \in From(l)
  BY <1>0
<1> USE DEF From
<1>1. PICK f \in files[l] : c \in SetupOtherInputs(l, First(l, f))
  BY <1>a
<1>2. l \in Level
  BY LevelPair
<1>3. Proper(f.entries)
  BY <1>2 DEF AllProper, ProperFiles
<1>4. CASE l # 0
  <2>1. Newer(Entries(files[l] \ {f}), Entries({f}))
    BY <1>2, <1>4, LeftBehind
  <2> QED
    BY <1>1, <1>4, <2>1, SolidOne, SetupGood
<1>5. CASE l = 0
  <2> DEFINE lo == smallest(f).key
             hi == largest(f).key
             F0 == GetOverlappingInputs(0, lo, hi)
  <2>1. lo \in Keys /\ hi \in Keys /\ Span(f.entries) = lo .. hi
        /\ \A e \in f.entries : lo <= e.key /\ e.key <= hi
    BY <1>3, FileSpan
  <2>2. PICK e \in f.entries : e \in Entry
    BY <1>3 DEF Proper
  <2>3. lo <= hi /\ lo \in Nat /\ hi \in Nat
    BY <2>1, <2>2, KeysNat, EntryFields
  <2> HIDE DEF lo, hi
  <2>4. ProperFiles(files[0])
    BY <1>2, <1>5 DEF AllProper
  <2>5. PICK a \in Keys, b \in Keys :
              /\ a <= lo /\ hi <= b
              /\ F0 \subseteq files[0]
              /\ \A g \in files[0] : g \in F0 <=> Span(g.entries) \cap (a .. b) # {}
              /\ \A g \in F0 : Span(g.entries) \subseteq a .. b
              /\ \A k \in a .. b : k \in lo .. hi \/ \E g \in F0 : k \in Span(g.entries)
    BY <2>1, <2>3, <2>4, LevelZeroInputs
  <2> HIDE DEF F0
  <2>6. lo \in lo .. hi /\ lo \in a .. b
    BY <2>3, <2>5, KeysNat
  <2>7. f \in F0
    BY <1>1, <1>5, <2>1, <2>5, <2>6
  <2>8. Newer(Entries(files[0] \ F0), Entries(F0))
    <3> SUFFICES ASSUME NEW g \in files[0] \ F0, NEW h \in F0
                 PROVE  \A x \in g.entries, y \in h.entries : x.key # y.key
      BY NoKeyNewer
    <3>1. Apart(g, h)
      BY <2>5 DEF Apart
    <3>2. g.entries \subseteq Entry /\ h.entries \subseteq Entry
      BY <2>4, <2>5 DEF ProperFiles, Proper
    <3> QED
      BY <3>1, <3>2, ApartNoKey
  <2>9. Solid(F0)
    <3> SUFFICES ASSUME NEW k \in Span(Entries(F0))
                 PROVE  \E g \in F0 : k \in Span(g.entries)
      BY DEF Solid
    <3>1. \A x \in Entries(F0) : a <= x.key /\ x.key <= b /\ x.key \in Nat
      <4> SUFFICES ASSUME NEW g \in F0, NEW x \in g.entries
                   PROVE  a <= x.key /\ x.key <= b /\ x.key \in Nat
        BY DEF Entries
      <4>1. g.entries \subseteq Entry
        BY <2>4, <2>5 DEF ProperFiles, Proper
      <4>2. x.key \in Span(g.entries)
        BY <4>1, KeysInSpan
      <4>3. Span(g.entries) \subseteq a .. b
        BY <2>5
      <4> QED
        BY <4>1, <4>2, <4>3, KeysNat, EntryFields
    <3>2. PICK x \in Entries(F0), y \in Entries(F0) : x.key <= k /\ k <= y.key
      BY DEF Span
    <3>3. k \in Nat /\ a \in Nat /\ b \in Nat
      BY KeysNat DEF Span
    <3>4. k \in a .. b
      <4>1. a <= x.key /\ x.key \in Nat /\ y.key <= b /\ y.key \in Nat
        BY <3>1, <3>2
      <4> QED
        BY <4>1, <3>2, <3>3
    <3>5. CASE k \in lo .. hi
      BY <3>5, <2>1, <2>7
    <3> QED
      BY <3>4, <3>5, <2>5
  <2>10. c \in SetupOtherInputs(0, F0)
    BY <1>1, <1>5 DEF F0, lo, hi
  <2>11. 0 \in 0 .. NumLevels - 2
    BY LevelsAssumption
  <2> QED
    BY <2>5, <2>7, <2>8, <2>9, <2>10, <2>11, SetupGood
<1> QED
  BY <1>4, <1>5

-----------------------------------------------------------------------------
\* Types.

\* A new file, numbered after all others of level 0.
LEMMA NewFileFacts ==
    ASSUME Typed, NEW l \in Level, NEW E, E \subseteq Entry, E # {}
    PROVE  /\ NewFile(l, E) \in File /\ NewFile(l, E).entries = E
           /\ l = 0 => \A g \in files[0] : g.number < NewFile(l, E).number
<1>1. files[0] \subseteq File /\ 0 \in Level
  BY LevelsAssumption DEF Typed, Level
<1>2. \A g \in files[0] : g.number \in Nat
  BY <1>1 DEF File
<1>3. l \in Nat
  BY LevelsAssumption DEF Level
<1>4. CASE l > 0 \/ files[0] = {}
  <2>1. NewFile(l, E) = [number |-> 0, entries |-> E]
    BY <1>4 DEF NewFile
  <2> QED
    BY <2>1, <1>3, <1>4 DEF File
<1>5. CASE ~(l > 0) /\ files[0] # {}
  <2> DEFINE N == {g.number : g \in files[0]}
             m == CHOOSE f \in files[0] : \A g \in files[0] : g.number <= f.number
  <2>1. PICK b \in Nat : \A f \in files[0] : f.number <= b
    BY DEF Typed
  <2>2. N \subseteq Nat /\ N # {} /\ \A x \in N : x <= b
    BY <1>2, <1>5, <2>1
  <2>3. PICK x \in N : \A y \in N : y <= x
    BY <2>2, GreatestNat
  <2>4. \E f \in files[0] : \A g \in files[0] : g.number <= f.number
    BY <2>3
  <2>5. m \in files[0] /\ \A g \in files[0] : g.number <= m.number
    BY <2>4, Zenon
  <2>6. NewFile(l, E) = [number |-> 1 + m.number, entries |-> E]
    BY <1>5 DEF NewFile
  <2> HIDE DEF m
  <2>7. m.number \in Nat
    BY <2>5, <1>2
  <2> QED
    BY <2>5, <2>6, <2>7, <1>2 DEF File
<1> QED
  BY <1>4, <1>5

\* Where a flushed table may go.
LEMMA FlushLevels ==
    ASSUME NEW lo, NEW hi, NEW l \in PickLevelForMemTableOutput(lo, hi)
    PROVE  l \in Level
BY LevelsAssumption DEF PickLevelForMemTableOutput, Level

\* GetOverlappingInputs takes files of the level it is asked for.
LEMMA OverlapTyped ==
    ASSUME NEW l \in Nat, NEW lo, NEW hi
    PROVE  GetOverlappingInputs(l, lo, hi) \subseteq files[l]
BY DEF GetOverlappingInputs, Overlapping

\* SetupOtherInputs takes files from the levels it should.
LEMMA SetupTyped ==
    ASSUME NEW l \in 0 .. NumLevels - 2, NEW F, F \subseteq files[l],
           NEW c \in SetupOtherInputs(l, F)
    PROVE  /\ c.level = l
           /\ c.inputs0 \subseteq files[l] /\ c.inputs1 \subseteq files[l + 1]
<1>1. \A lo, hi : GetOverlappingInputs(l, lo, hi) \subseteq files[l]
  BY DEF GetOverlappingInputs, Overlapping
<1>2. \A lo, hi : GetOverlappingInputs(l + 1, lo, hi) \subseteq files[l + 1]
  BY DEF GetOverlappingInputs, Overlapping
<1> DEFINE F1 == GetOverlappingInputs(l + 1, Low(F), High(F))
           A == F \cup F1
           E0 == GetOverlappingInputs(l, Low(A), High(A))
           E1 == GetOverlappingInputs(l + 1, Low(E0), High(E0))
<1>3. c = Inputs(l, F, F1) \/ c = Inputs(l, E0, E1)
  BY DEF SetupOtherInputs
<1>4. F1 \subseteq files[l + 1] /\ E0 \subseteq files[l] /\ E1 \subseteq files[l + 1]
  BY <1>1, <1>2
<1> HIDE DEF F1, E0, E1
<1> QED
  BY <1>3, <1>4 DEF Inputs

\* So do automatic compactions, and every level is one with a next.
LEMMA PickTyped ==
    ASSUME NEW c \in PickCompaction
    PROVE  /\ c.level \in 0 .. NumLevels - 2
           /\ c.inputs0 \subseteq files[c.level] /\ c.inputs1 \subseteq files[c.level + 1]
<1> DEFINE First(l, f) == IF l = 0
                          THEN GetOverlappingInputs(0, smallest(f).key, largest(f).key)
                          ELSE {f}
           From(l) == UNION {SetupOtherInputs(l, First(l, f)) : f \in files[l]}
<1>1. PickCompaction = UNION {From(l) : l \in 0 .. NumLevels - 2}
  BY DEF PickCompaction
<1> HIDE DEF From
<1>2. PICK l \in 0 .. NumLevels - 2 : c \in From(l)
  BY <1>1
<1> USE DEF From
<1>3. PICK f \in files[l] : c \in SetupOtherInputs(l, First(l, f))
  BY <1>2
<1>4. First(l, f) \subseteq files[l]
  BY DEF GetOverlappingInputs, Overlapping
<1> QED
  BY <1>3, <1>4, SetupTyped

\* And manual ones.
LEMMA RangeTyped ==
    ASSUME NEW c \in CompactRange
    PROVE  /\ c.level \in 0 .. NumLevels - 2
           /\ c.inputs0 \subseteq files[c.level] /\ c.inputs1 \subseteq files[c.level + 1]
<1> DEFINE Part(l, r) == UNION {SetupOtherInputs(l, F) : F \in RangeInputs(l, r[1], r[2])}
           From(r) == UNION {Part(l, r) : l \in RangeLevels(r[1], r[2])}
<1>1. CompactRange = UNION {From(r) : r \in {q \in Keys \X Keys : q[1] <= q[2]}}
  BY DEF CompactRange
<1> HIDE DEF Part, From
<1>2. PICK r \in Keys \X Keys : c \in From(r)
  BY <1>1
<1>3. PICK l \in RangeLevels(r[1], r[2]) : c \in Part(l, r)
  BY <1>2 DEF From
<1>4. PICK F \in RangeInputs(l, r[1], r[2]) : c \in SetupOtherInputs(l, F)
  BY <1>3 DEF Part
<1>5. l \in 0 .. NumLevels - 2
  BY DEF RangeLevels
<1>6. F \subseteq files[l]
  <2> DEFINE all == GetOverlappingInputs(l, r[1], r[2])
             upTo(g) == {f \in all : f = g \/ Before(smallest(f), smallest(g))}
  <2>1. all \subseteq files[l]
    BY <1>5, OverlapTyped
  <2>2. RangeInputs(l, r[1], r[2]) = IF l = 0 THEN {all} \ {{}} ELSE {upTo(g) : g \in all}
    BY DEF RangeInputs
  <2>3. F \in IF l = 0 THEN {all} \ {{}} ELSE {upTo(g) : g \in all}
    BY <2>2
  <2> HIDE DEF all
  <2>4. F \subseteq all
    BY <2>3
  <2> QED
    BY <2>1, <2>4
<1> QED
  BY <1>4, <1>5, <1>6, SetupTyped

\* Initially.
LEMMA TypedInit == Init => Typed
<1> SUFFICES ASSUME Init PROVE Typed
  OBVIOUS
<1>1. TypeOK
  BY LevelsAssumption DEF Init, TypeOK, Level
<1>2. files \in [Level -> SUBSET File] /\ files[0] = {} /\ 0 \in Nat /\ compaction = {}
  BY LevelsAssumption DEF Init, Level
<1> QED
  BY <1>1, <1>2 DEF Typed

\* Writing, and what leaves the files alone.
LEMMA TypedWrite ==
    ASSUME Typed,
           \/ \E k \in Keys, t \in {"value", "deletion"} : Write(k, t)
           \/ SwitchMemTable \/ GetSnapshot
           \/ \E s \in snapshots : ReleaseSnapshot(s)
           \/ UNCHANGED vars
    PROVE  Typed'
<1>1. UNCHANGED <<files, compaction>>
  BY DEF Write, SwitchMemTable, GetSnapshot, ReleaseSnapshot, vars
<1>2. last_sequence \in Nat /\ MaxSequence \in Nat /\ last_sequence <= MaxSequence
      /\ snapshots \subseteq 0 .. last_sequence
      /\ mem \subseteq Entry /\ imm \subseteq Entry /\ written \subseteq Entry
  BY LevelsAssumption DEF Typed, TypeOK
<1> DEFINE Goal ==
             /\ mem' \subseteq Entry /\ imm' \subseteq Entry /\ written' \subseteq Entry
             /\ last_sequence' \in 0 .. MaxSequence /\ snapshots' \subseteq 0 .. last_sequence'
<1>3. Goal
  <2>1. ASSUME NEW k \in Keys, NEW t \in {"value", "deletion"}, Write(k, t) PROVE Goal
    <3> DEFINE e == [key |-> k, seq |-> last_sequence + 1, type |-> t]
    <3>1. last_sequence < MaxSequence /\ last_sequence' = last_sequence + 1
          /\ mem' = mem \cup {e} /\ written' = written \cup {e}
          /\ UNCHANGED <<imm, snapshots>>
      BY <2>1 DEF Write
    <3>2. e \in Entry
      BY <3>1, <1>2 DEF Entry
    <3> HIDE DEF e
    <3> QED
      BY <3>1, <3>2, <1>2
  <2>2. CASE SwitchMemTable
    BY <2>2, <1>2 DEF SwitchMemTable
  <2>3. CASE GetSnapshot
    BY <2>3, <1>2 DEF GetSnapshot
  <2>4. CASE \E s \in snapshots : ReleaseSnapshot(s)
    BY <2>4, <1>2 DEF ReleaseSnapshot
  <2>5. CASE UNCHANGED vars
    BY <2>5, <1>2 DEF vars
  <2> QED
    BY <2>1, <2>2, <2>3, <2>4, <2>5
<1> QED
  BY <1>1, <1>3 DEF Typed, TypeOK

\* A memtable becomes a table.
LEMMA TypedFlush ==
    ASSUME Typed, CompactMemTable
    PROVE  Typed'
<1> DEFINE f0 == [entries |-> imm]
<1>1. PICK l \in PickLevelForMemTableOutput(smallest(f0).key, largest(f0).key) :
            files' = [files EXCEPT ![l] = @ \cup {NewFile(l, imm)}]
  BY DEF CompactMemTable
<1>2. /\ imm # {} /\ imm' = {}
      /\ UNCHANGED <<mem, last_sequence, snapshots, compaction, written>>
  BY DEF CompactMemTable
<1>3. l \in Level
  BY <1>1, FlushLevels
<1> DEFINE f == NewFile(l, imm)
<1>4. f \in File
  BY <1>2, <1>3, NewFileFacts DEF Typed, TypeOK
<1> HIDE DEF f
<1>5. files \in [Level -> SUBSET File]
  BY DEF Typed
<1>6. files' = [files EXCEPT ![l] = @ \cup {f}]
  BY <1>1 DEF f
<1>7. files' \in [Level -> SUBSET File] /\ \A j \in Level : files[j] \subseteq files'[j]
  BY <1>3, <1>4, <1>5, <1>6
<1>8. PICK b \in Nat : \A g \in files[0] : g.number <= b
  BY DEF Typed
<1>9. files'[0] \subseteq files[0] \cup {f}
  BY <1>3, <1>5, <1>6, LevelsAssumption DEF Level
<1>10. f.number \in Nat /\ \A g \in files[0] : g.number \in Nat
  BY <1>4, <1>5, LevelsAssumption DEF File, Level
<1>11. \E d \in Nat : \A g \in files'[0] : g.number <= d
  <2>1. b + f.number \in Nat /\ \A g \in files'[0] : g.number <= b + f.number
    BY <1>8, <1>9, <1>10
  <2> QED
    BY <2>1
<1>12. \A c \in compaction :
          /\ c.inputs.level \in 0 .. NumLevels - 2
          /\ c.inputs.inputs0 \subseteq files'[c.inputs.level]
          /\ c.inputs.inputs1 \subseteq files'[c.inputs.level + 1]
  <2> SUFFICES ASSUME NEW c \in compaction
               PROVE  /\ c.inputs.level \in 0 .. NumLevels - 2
                      /\ c.inputs.inputs0 \subseteq files'[c.inputs.level]
                      /\ c.inputs.inputs1 \subseteq files'[c.inputs.level + 1]
    OBVIOUS
  <2>1. /\ c.inputs.level \in 0 .. NumLevels - 2
        /\ c.inputs.inputs0 \subseteq files[c.inputs.level]
        /\ c.inputs.inputs1 \subseteq files[c.inputs.level + 1]
    BY DEF Typed, TypeOK
  <2>2. c.inputs.level \in Level /\ c.inputs.level + 1 \in Level
    BY <2>1, LevelPair
  <2> QED
    BY <2>1, <2>2, <1>7
<1> QED
  BY <1>2, <1>7, <1>11, <1>12 DEF Typed, TypeOK

\* Files on one level are replaced by files on the next.
Shifted(c, O) ==
    files' = [files EXCEPT ![c.level] = @ \ c.inputs0,
                           ![c.level + 1] = (@ \ c.inputs1) \cup O]

\* What is on each level then.
LEMMA ShiftedFiles ==
    ASSUME Typed, NEW c, c.level \in 0 .. NumLevels - 2, NEW O, Shifted(c, O)
    PROVE  /\ DOMAIN files' = Level
           /\ files' = [j \in Level |-> files'[j]]
           /\ files'[c.level] = files[c.level] \ c.inputs0
           /\ files'[c.level + 1] = (files[c.level + 1] \ c.inputs1) \cup O
           /\ \A j \in Level : j # c.level /\ j # c.level + 1 => files'[j] = files[j]
<1>1. c.level \in Level /\ c.level + 1 \in Level /\ c.level # c.level + 1
  BY LevelPair
<1>2. files \in [Level -> SUBSET File]
  BY DEF Typed
<1> QED
  BY <1>1, <1>2 DEF Shifted

\* Types are kept.
LEMMA TypedShift ==
    ASSUME Typed, NEW c, c.level \in 0 .. NumLevels - 2, NEW O, O \subseteq File, Shifted(c, O),
           compaction' = {}, UNCHANGED <<mem, imm, last_sequence, snapshots, written>>
    PROVE  Typed'
<1>1. c.level \in Level /\ c.level + 1 \in Level /\ c.level + 1 # 0 /\ 0 \in Level
  BY LevelPair, LevelsAssumption DEF Level
<1>2. /\ files' = [j \in Level |-> files'[j]]
      /\ files'[c.level] = files[c.level] \ c.inputs0
      /\ files'[c.level + 1] = (files[c.level + 1] \ c.inputs1) \cup O
      /\ \A j \in Level : j # c.level /\ j # c.level + 1 => files'[j] = files[j]
  BY ShiftedFiles
<1>3. \A j \in Level : files[j] \subseteq File
  BY DEF Typed, TypeOK
<1>4. \A j \in Level : files'[j] \subseteq File
  BY <1>1, <1>2, <1>3
<1>5. files' \in [Level -> SUBSET File]
  BY <1>2, <1>4
<1>6. files'[0] \subseteq files[0]
  BY <1>1, <1>2
<1>7. \E b \in Nat : \A f \in files'[0] : f.number <= b
  BY <1>6 DEF Typed
<1> QED
  BY <1>4, <1>5, <1>7 DEF Typed, TypeOK

\* A trivial move is a shift of one file.
LEMMA MoveIsShift ==
    ASSUME NEW c, c.level \in 0 .. NumLevels - 2, MoveFile(c), Typed
    PROVE  /\ Cardinality(c.inputs0) = 1 /\ c.inputs1 = {} /\ compaction' = compaction
           /\ Shifted(c, {NewFile(c.level + 1, f.entries) : f \in c.inputs0})
<1> DEFINE O == {NewFile(c.level + 1, f.entries) : f \in c.inputs0}
<1>1. /\ Cardinality(c.inputs0) = 1 /\ c.inputs1 = {} /\ compaction' = compaction
      /\ files' = [files EXCEPT ![c.level] = @ \ c.inputs0, ![c.level + 1] = @ \cup O]
  BY DEF MoveFile
<1> HIDE DEF O
<1>2. Shifted(c, O)
  BY <1>1 DEF Shifted
<1> QED
  BY <1>1, <1>2 DEF O

\* The background thread picks a compaction.
LEMMA TypedBackground ==
    ASSUME Typed, BackgroundCompaction
    PROVE  Typed'
<1>1. compaction = {} /\ UNCHANGED <<mem, imm, last_sequence, snapshots, written>>
  BY DEF BackgroundCompaction
<1>2. PICK c : /\ c \in PickCompaction \/ c \in CompactRange
               /\ MoveFile(c) \/ StartWork(c)
  BY DEF BackgroundCompaction
<1>3. /\ c.level \in 0 .. NumLevels - 2
      /\ c.inputs0 \subseteq files[c.level] /\ c.inputs1 \subseteq files[c.level + 1]
  BY <1>2, PickTyped, RangeTyped
<1>4. CASE MoveFile(c)
  <2> DEFINE O == {NewFile(c.level + 1, f.entries) : f \in c.inputs0}
  <2>1. c.level \in Level /\ c.level + 1 \in Level
    BY <1>3, LevelPair
  <2>2. \A f \in c.inputs0 : f.entries \subseteq Entry /\ f.entries # {}
    BY <1>3, <2>1 DEF Typed, TypeOK, File
  <2>3. O \subseteq File
    BY <2>1, <2>2, NewFileFacts
  <2>4. Shifted(c, O) /\ compaction' = {}
    BY <1>1, <1>3, <1>4, MoveIsShift
  <2> HIDE DEF O
  <2> QED
    BY <1>1, <1>3, <2>3, <2>4, TypedShift
<1>5. CASE StartWork(c)
  <2>1. files' = files
    BY <1>5 DEF StartWork
  <2>2. \A d \in compaction' : d.inputs = c
    BY <1>5 DEF StartWork
  <2> QED
    BY <1>1, <1>3, <2>1, <2>2 DEF Typed, TypeOK
<1> QED
  BY <1>2, <1>4, <1>5

\* The tables a compaction writes.
LEMMA OutputsTyped ==
    ASSUME Typed, NEW l \in Level, NEW E, E \subseteq Entry, NEW C \in CutsOf(E)
    PROVE  Outputs(l, E, C) \subseteq File
<1> DEFINE Run(c) == {e \in E : /\ e = c \/ Before(c, e)
                                /\ \A d \in C : Before(c, d) => Before(e, d)}
<1>1. Outputs(l, E, C) = {NewFile(l, Run(c)) : c \in C}
  BY DEF Outputs
<1>2. C \subseteq E
  BY DEF CutsOf
<1>3. \A c \in C : Run(c) \subseteq Entry /\ c \in Run(c)
  BY <1>2
<1> HIDE DEF Run
<1>4. \A c \in C : NewFile(l, Run(c)) \in File
  BY <1>3, NewFileFacts
<1> QED
  BY <1>1, <1>4

\* What a compaction keeps comes from its inputs.
LEMMA KeptTyped ==
    ASSUME Typed, NEW c \in compaction
    PROVE  Kept(c) \subseteq Entry /\ Kept(c) \subseteq Entries(InputFiles(c.inputs))
<1>1. /\ c.inputs.level \in 0 .. NumLevels - 2
      /\ c.inputs.inputs0 \subseteq files[c.inputs.level]
      /\ c.inputs.inputs1 \subseteq files[c.inputs.level + 1]
  BY DEF Typed, TypeOK
<1>2. c.inputs.level \in Level /\ c.inputs.level + 1 \in Level
  BY <1>1, LevelPair
<1>3. \A f \in InputFiles(c.inputs) : f.entries \subseteq Entry
  BY <1>1, <1>2 DEF Typed, TypeOK, File, InputFiles
<1>4. Entries(InputFiles(c.inputs)) \subseteq Entry
  BY <1>3 DEF Entries
<1> QED
  BY <1>4 DEF Kept, InputFiles

\* The end of a compaction is a shift.
LEMMA InstallIsShift ==
    ASSUME InstallCompactionResults
    PROVE  \E c \in compaction : \E C \in CutsOf(Kept(c)) :
              /\ Shifted(c.inputs, Outputs(c.inputs.level + 1, Kept(c), C))
              /\ compaction' = {}
              /\ UNCHANGED <<mem, imm, last_sequence, snapshots, written>>
BY DEF InstallCompactionResults, Shifted

\* The outputs of a compaction are installed.
LEMMA TypedInstall ==
    ASSUME Typed, InstallCompactionResults
    PROVE  Typed'
<1>1. PICK c \in compaction : \E C \in CutsOf(Kept(c)) :
              /\ Shifted(c.inputs, Outputs(c.inputs.level + 1, Kept(c), C))
              /\ compaction' = {}
              /\ UNCHANGED <<mem, imm, last_sequence, snapshots, written>>
  BY InstallIsShift
<1>2. PICK C \in CutsOf(Kept(c)) :
              /\ Shifted(c.inputs, Outputs(c.inputs.level + 1, Kept(c), C))
              /\ compaction' = {}
              /\ UNCHANGED <<mem, imm, last_sequence, snapshots, written>>
  BY <1>1
<1>3. c.inputs.level \in 0 .. NumLevels - 2
  BY DEF Typed
<1>4. c.inputs.level + 1 \in Level
  BY <1>3, LevelPair
<1>5. Kept(c) \subseteq Entry
  BY KeptTyped
<1>6. Outputs(c.inputs.level + 1, Kept(c), C) \subseteq File
  BY <1>4, <1>5, OutputsTyped
<1> QED
  BY <1>2, <1>3, <1>6, TypedShift

\* Every step.
LEMMA TypedStep == Typed /\ [Next]_vars => Typed'
<1> SUFFICES ASSUME Typed, [Next]_vars PROVE Typed'
  OBVIOUS
<1>1. CASE CompactMemTable
  BY <1>1, TypedFlush
<1>2. CASE BackgroundCompaction
  BY <1>2, TypedBackground
<1>3. CASE InstallCompactionResults
  BY <1>3, TypedInstall
<1>4. CASE \/ \E k \in Keys, t \in {"value", "deletion"} : Write(k, t)
           \/ SwitchMemTable \/ GetSnapshot
           \/ \E s \in snapshots : ReleaseSnapshot(s)
           \/ UNCHANGED vars
  BY <1>4, TypedWrite
<1> QED
  BY <1>1, <1>2, <1>3, <1>4 DEF Next

\* db_impl.cc, version_set.cc: the memtables, the levels, the snapshots and the
\* inputs of a compaction at work keep their types, for any number of keys,
\* levels, writes and snapshots, with automatic and manual compactions.
THEOREM LevelsTypes == Spec => []TypeOK
<1>1. Typed => TypeOK
  BY DEF Typed
<1> QED
  BY <1>1, TypedInit, TypedStep, PTL DEF Spec

-----------------------------------------------------------------------------
\* Where the versions are.

\* What is in a memtable or a file was written before.
LEMMA FilesRecorded ==
    ASSUME Typed, Recorded
    PROVE  /\ AllProper
           /\ imm # {} => Proper(imm)
           /\ \A l \in Level : Entries(files[l]) \subseteq written
           /\ written \subseteq Entry
           /\ \A e \in written : e.seq \in Nat /\ e.key \in Keys /\ e.seq <= last_sequence
           /\ last_sequence \in Nat
<1>1. written \subseteq Entry /\ last_sequence \in Nat
  BY DEF Typed, TypeOK
<1>2. \A e, g \in written : e.seq = g.seq => e = g
  BY DEF Recorded
<1>3. ASSUME NEW l \in Level, NEW f \in files[l] PROVE Proper(f.entries)
  <2>1. f.entries # {} /\ f.entries \subseteq written
    BY DEF Typed, TypeOK, File, Recorded
  <2> QED
    BY <2>1, <1>1, <1>2 DEF Proper
<1>4. AllProper
  BY <1>3 DEF AllProper, ProperFiles
<1>5. imm # {} => Proper(imm)
  BY <1>1, <1>2 DEF Proper, Recorded
<1>6. \A l \in Level : Entries(files[l]) \subseteq written
  BY DEF Recorded, Entries
<1>7. \A e \in written : e.seq \in Nat /\ e.key \in Keys /\ e.seq <= last_sequence
  BY <1>1, EntryFields DEF Recorded
<1> QED
  BY <1>1, <1>4, <1>5, <1>6, <1>7

\* Initially.
LEMMA FilesInit == Init => FilesInv
<1> SUFFICES ASSUME Init PROVE FilesInv
  OBVIOUS
<1>1. /\ mem = {} /\ imm = {} /\ written = {} /\ compaction = {} /\ snapshots = {}
      /\ \A l \in Level : files[l] = {}
      /\ 0 \in Level
  BY LevelsAssumption DEF Init, Level
<1>2. Typed
  BY TypedInit
<1>3. Recorded
  BY <1>1 DEF Recorded
<1>4. LevelZero
  BY <1>1, FS_EmptySet DEF LevelZero
<1>5. LevelsApart
  BY <1>1 DEF LevelsApart
<1>6. Stacked
  BY <1>1 DEF Stacked, Newer, Entries
<1> QED
  BY <1>1, <1>2, <1>3, <1>4, <1>5, <1>6 DEF FilesInv

\* What a compaction at work counts on, when neither it nor the files change.
LEMMA WorkKept ==
    ASSUME FilesInv, UNCHANGED <<files, compaction>>,
           last_sequence \in Nat, last_sequence' \in Nat, last_sequence <= last_sequence',
           snapshots' \subseteq snapshots \cup {last_sequence}
    PROVE  /\ \A c \in compaction' : GoodInputs(c.inputs)' /\ GoodWork(c)'
           /\ LevelZero' /\ LevelsApart'
<1>1. ASSUME NEW c \in compaction PROVE GoodInputs(c.inputs)' /\ GoodWork(c)'
  <2>1. GoodInputs(c.inputs) /\ GoodWork(c)
    BY DEF FilesInv
  <2>2. GoodInputs(c.inputs)'
    BY <2>1 DEF GoodInputs
  <2>3. c.smallest_snapshot \in Nat
        /\ \A s \in snapshots \cup {last_sequence} : c.smallest_snapshot <= s
    BY <2>1 DEF GoodWork
  <2>4. \A s \in snapshots' \cup {last_sequence'} : c.smallest_snapshot <= s
    BY <2>3
  <2> QED
    BY <2>1, <2>2, <2>4 DEF GoodWork
<1>2. LevelZero' /\ LevelsApart'
  BY DEF FilesInv, LevelZero, LevelsApart
<1> QED
  BY <1>1, <1>2

\* A write goes to mem, above all others.
LEMMA FilesWrite ==
    ASSUME FilesInv, NEW k \in Keys, NEW t \in {"value", "deletion"}, Write(k, t)
    PROVE  FilesInv'
<1> DEFINE e == [key |-> k, seq |-> last_sequence + 1, type |-> t]
<1>1. /\ last_sequence' = last_sequence + 1
      /\ mem' = mem \cup {e} /\ written' = written \cup {e}
      /\ UNCHANGED <<imm, files, snapshots, compaction>>
  BY DEF Write
<1>2. e.key = k /\ e.seq = last_sequence + 1
  OBVIOUS
<1> HIDE DEF e
<1>3. Typed /\ Recorded /\ Stacked
  BY DEF FilesInv
<1>4. /\ \A l \in Level : Entries(files[l]) \subseteq written
      /\ \A g \in written : g.seq \in Nat /\ g.seq <= last_sequence
      /\ last_sequence \in Nat
  BY <1>3, FilesRecorded
<1>5. Typed'
  BY <1>3, TypedWrite
<1>6. Recorded'
  BY <1>1, <1>2, <1>3, <1>4 DEF Recorded
<1>7. \A G : G \subseteq written => \A g \in G : e.key = g.key => e.seq > g.seq
  BY <1>2, <1>4
<1>8. imm \subseteq written
  BY <1>3 DEF Recorded
<1>9. Stacked'
  <2>1. Newer(mem', imm')
    BY <1>1, <1>3, <1>7, <1>8 DEF Stacked, Newer
  <2>2. \A l \in Level : Newer(mem', Entries(files[l]))
    BY <1>1, <1>3, <1>4, <1>7 DEF Stacked, Newer
  <2> QED
    BY <1>1, <1>3, <2>1, <2>2 DEF Stacked
<1>10. /\ \A c \in compaction' : GoodInputs(c.inputs)' /\ GoodWork(c)'
       /\ LevelZero' /\ LevelsApart'
  BY <1>1, <1>4, WorkKept
<1> QED
  BY <1>5, <1>6, <1>9, <1>10 DEF FilesInv

\* mem becomes imm.
LEMMA FilesSwitch ==
    ASSUME FilesInv, SwitchMemTable
    PROVE  FilesInv'
<1>1. /\ imm = {} /\ imm' = mem /\ mem' = {}
      /\ UNCHANGED <<files, last_sequence, snapshots, compaction, written>>
  BY DEF SwitchMemTable
<1>2. Typed /\ Recorded /\ Stacked
  BY DEF FilesInv
<1>3. Typed'
  BY <1>2, TypedWrite
<1>4. last_sequence \in Nat
  BY <1>2, FilesRecorded
<1>5. Recorded'
  BY <1>1, <1>2 DEF Recorded
<1>6. Stacked'
  BY <1>1, <1>2 DEF Stacked, Newer
<1>7. /\ \A c \in compaction' : GoodInputs(c.inputs)' /\ GoodWork(c)'
      /\ LevelZero' /\ LevelsApart'
  BY <1>1, <1>4, WorkKept
<1> QED
  BY <1>3, <1>5, <1>6, <1>7 DEF FilesInv

\* Snapshots are taken and released.
LEMMA FilesSnapshot ==
    ASSUME FilesInv,
           \/ GetSnapshot
           \/ \E s \in snapshots : ReleaseSnapshot(s)
           \/ UNCHANGED vars
    PROVE  FilesInv'
<1>1. UNCHANGED <<mem, imm, files, last_sequence, compaction, written>>
  BY DEF GetSnapshot, ReleaseSnapshot, vars
<1>2. Typed /\ Recorded /\ Stacked
  BY DEF FilesInv
<1>3. Typed'
  BY <1>2, TypedWrite
<1>4. last_sequence \in Nat
  BY <1>2, FilesRecorded
<1>5. snapshots' \subseteq snapshots \cup {last_sequence}
  BY DEF GetSnapshot, ReleaseSnapshot, vars
<1>6. MaxSnapshots = 0 => snapshots' = {}
  <2> SUFFICES ASSUME MaxSnapshots = 0 PROVE snapshots' = {}
    OBVIOUS
  <2>1. snapshots = {}
    BY <1>2 DEF Recorded
  <2>2. ~GetSnapshot
    BY <2>1, FS_EmptySet DEF GetSnapshot
  <2> QED
    BY <2>1, <2>2 DEF ReleaseSnapshot, vars
<1>7. Recorded'
  BY <1>1, <1>2, <1>6 DEF Recorded
<1>8. Stacked'
  BY <1>1, <1>2 DEF Stacked
<1>9. /\ \A c \in compaction' : GoodInputs(c.inputs)' /\ GoodWork(c)'
      /\ LevelZero' /\ LevelsApart'
  BY <1>1, <1>4, <1>5, WorkKept
<1> QED
  BY <1>3, <1>7, <1>8, <1>9 DEF FilesInv

\* PickLevelForMemTableOutput goes below level 0 only past files that the new
\* table does not meet.
LEMMA FlushIsClear ==
    ASSUME AllProper, Proper(imm), NEW f0, f0.entries = imm,
           NEW l \in PickLevelForMemTableOutput(smallest(f0).key, largest(f0).key), l > 0,
           NEW j \in Level, j <= l, NEW g \in files[j]
    PROVE  Span(imm) \cap Span(g.entries) = {}
<1> DEFINE lo == smallest(f0).key
           hi == largest(f0).key
<1>1. lo \in Keys /\ hi \in Keys /\ Span(imm) = lo .. hi
      /\ \A e \in imm : lo <= e.key /\ e.key <= hi
  BY FileSpan
<1>2. PICK e \in imm : e \in Entry
  BY DEF Proper
<1>3. lo <= hi
  BY <1>1, <1>2, KeysNat, EntryFields
<1>4. j \in 0 .. l
  BY FlushLevels, LevelsAssumption DEF Level
<1>5. Overlapping(files[j], lo, hi) = {}
  BY <1>4 DEF PickLevelForMemTableOutput
<1> HIDE DEF lo, hi
<1>6. ProperFiles(files[j])
  BY DEF AllProper
<1> QED
  BY <1>1, <1>3, <1>5, <1>6, OverlapSpan

\* A memtable becomes a table, perhaps in the middle of a compaction.
LEMMA FilesFlush ==
    ASSUME FilesInv, CompactMemTable
    PROVE  FilesInv'
<1> DEFINE f0 == [entries |-> imm]
<1>1. PICK l \in PickLevelForMemTableOutput(smallest(f0).key, largest(f0).key) :
            files' = [files EXCEPT ![l] = @ \cup {NewFile(l, imm)}]
  BY DEF CompactMemTable
<1>2. /\ imm # {} /\ imm' = {}
      /\ UNCHANGED <<mem, last_sequence, snapshots, compaction, written>>
  BY DEF CompactMemTable
<1>3. Typed /\ Recorded /\ Stacked /\ LevelZero /\ LevelsApart
  BY DEF FilesInv
<1>4. /\ AllProper /\ Proper(imm) /\ imm \subseteq written /\ imm \subseteq Entry
      /\ \A j \in Level : files[j] \subseteq File
  BY <1>2, <1>3, FilesRecorded DEF Recorded, Typed, TypeOK
<1>5. l \in Level
  BY <1>1, FlushLevels
<1>6. ASSUME l > 0, NEW j \in Level, j <= l, NEW g \in files[j]
      PROVE  Span(imm) \cap Span(g.entries) = {}
  <2>1. f0.entries = imm
    OBVIOUS
  <2> HIDE DEF f0
  <2> QED
    BY <2>1, <1>1, <1>4, <1>6, FlushIsClear
<1> DEFINE f == NewFile(l, imm)
<1>7. f \in File /\ f.entries = imm /\ (l = 0 => \A g \in files[0] : g.number < f.number)
  BY <1>2, <1>3, <1>4, <1>5, NewFileFacts
<1>8. files' = [files EXCEPT ![l] = @ \cup {f}]
  BY <1>1
<1> HIDE DEF f, f0
<1>9. files \in [Level -> SUBSET File] /\ 0 \in Level /\ Level \subseteq Nat
  BY <1>3, LevelsAssumption DEF Typed, Level
<1>10. files'[l] = files[l] \cup {f} /\ \A j \in Level : j # l => files'[j] = files[j]
  BY <1>5, <1>8, <1>9
<1>11. \A j \in Level : files[j] \subseteq files'[j] /\ files'[j] \subseteq files[j] \cup {f}
  BY <1>10
<1>12. ASSUME l > 0, NEW j \in Level, j <= l, NEW g \in files[j], NEW e \in imm, NEW h \in g.entries
       PROVE  e.key # h.key
  <2>1. g.entries \subseteq Entry
    BY <1>4 DEF File
  <2>2. e.key \in Span(imm) /\ h.key \in Span(g.entries)
    BY <2>1, <1>4, KeysInSpan
  <2>3. Span(imm) \cap Span(g.entries) = {}
    BY <1>6, <1>12
  <2> QED
    BY <2>2, <2>3
<1>13. Typed'
  BY <1>3, TypedFlush
<1>14. Recorded'
  <2>1. \A j \in Level : \A g \in files'[j] : g.entries \subseteq written
    BY <1>3, <1>4, <1>7, <1>11 DEF Recorded
  <2> QED
    BY <1>2, <1>3, <2>1 DEF Recorded
<1>15. LevelZero'
  <2>1. IsFiniteSet(files'[0])
    <3>1. IsFiniteSet(files[0])
      BY <1>3 DEF LevelZero
    <3>2. IsFiniteSet(files[0] \cup {f})
      BY <3>1, FS_AddElement
    <3> QED
      BY <3>1, <3>2, <1>9, <1>10
  <2>2. \A g, h \in files'[0] : g.number = h.number => g = h
    <3>1. \A g \in files[0] : g.number \in Nat
      BY <1>4, <1>9 DEF File
    <3>2. f.number \in Nat
      BY <1>7 DEF File
    <3>3. CASE l = 0
      BY <3>1, <3>2, <3>3, <1>3, <1>7, <1>10 DEF LevelZero
    <3>4. CASE l # 0
      BY <3>4, <1>3, <1>9, <1>10 DEF LevelZero
    <3> QED
      BY <3>3, <3>4
  <2> QED
    BY <2>1, <2>2 DEF LevelZero
<1>16. LevelsApart'
  <2> SUFFICES ASSUME NEW j \in Level \ {0}, NEW g \in files'[j], NEW h \in files'[j], g # h
               PROVE  Apart(g, h)
    BY DEF LevelsApart
  <2>0. j \in Nat /\ j > 0 /\ j <= j
    BY <1>9
  <2>1. CASE g \in files[j] /\ h \in files[j]
    BY <2>1, <1>3 DEF LevelsApart
  <2>2. CASE g = f /\ h \in files[j] /\ j = l
    <3>1. l > 0
      BY <2>0, <2>2
    <3>2. j <= l
      BY <2>0, <2>2
    <3> QED
      BY <2>2, <3>1, <3>2, <1>6, <1>7 DEF Apart
  <2>3. CASE h = f /\ g \in files[j] /\ j = l
    <3>1. l > 0
      BY <2>0, <2>3
    <3>2. j <= l
      BY <2>0, <2>3
    <3> QED
      BY <2>3, <3>1, <3>2, <1>6, <1>7 DEF Apart
  <2> QED
    BY <2>1, <2>2, <2>3, <1>10, <1>11
<1>17. Stacked'
  <2>1. Entries(files'[l]) = Entries(files[l]) \cup imm
    BY <1>7, <1>10 DEF Entries
  <2>2. \A j \in Level : j # l => Entries(files'[j]) = Entries(files[j])
    BY <1>10
  <2>3. \A j \in Level : Newer(mem, Entries(files'[j]))
    BY <2>1, <2>2, <1>3 DEF Stacked, Newer
  <2>4. ASSUME NEW i \in Level, NEW m \in Level, i < m
        PROVE  Newer(Entries(files'[i]), Entries(files'[m]))
    <3>1. Newer(Entries(files[i]), Entries(files[m])) /\ Newer(imm, Entries(files[m]))
      BY <2>4, <1>3 DEF Stacked
    <3>2. CASE m = l
      <4>1. l > 0 /\ i <= l /\ i # l
        BY <2>4, <3>2, <1>9
      <4>2. \A e \in imm, h \in Entries(files[i]) : e.key # h.key
        BY <4>1, <1>12 DEF Entries
      <4> QED
        BY <2>1, <2>2, <3>1, <3>2, <4>1, <4>2 DEF Newer
    <3>3. CASE m # l
      BY <2>1, <2>2, <3>1, <3>3 DEF Newer
    <3> QED
      BY <3>2, <3>3
  <2>5. ASSUME NEW g \in files'[0], NEW h \in files'[0], h.number < g.number
        PROVE  Newer(g.entries, h.entries)
    <3>1. CASE g \in files[0] /\ h \in files[0]
      BY <3>1, <2>5, <1>3 DEF Stacked
    <3>2. CASE g = f /\ h \in files[0] /\ l = 0
      <4>1. Newer(imm, Entries(files[0]))
        BY <1>3, <1>9 DEF Stacked
      <4> QED
        BY <3>2, <4>1, <1>7 DEF Newer, Entries
    <3>3. CASE h = f /\ g \in files[0] /\ l = 0
      <4>1. g.number < f.number /\ g.number \in Nat /\ f.number \in Nat
        BY <3>3, <1>4, <1>7, <1>9 DEF File
      <4> QED
        BY <3>3, <4>1, <2>5
    <3>4. CASE g = h
      <4>1. h.number \in Nat
        BY <1>4, <1>7, <1>9, <1>11 DEF File
      <4> QED
        BY <3>4, <4>1, <2>5
    <3> QED
      BY <3>1, <3>2, <3>3, <3>4, <1>9, <1>10, <1>11
  <2>6. Newer(mem', imm') /\ \A j \in Level : Newer(imm', Entries(files'[j]))
    BY <1>2 DEF Newer
  <2> QED
    BY <1>2, <2>3, <2>4, <2>5, <2>6 DEF Stacked
<1>18. ASSUME NEW c \in compaction PROVE GoodInputs(c.inputs)' /\ GoodWork(c)'
  <2> DEFINE d == c.inputs
             p == d.level
  <2>1. GoodInputs(d) /\ GoodWork(c)
    BY DEF FilesInv
  <2>2. p \in 0 .. NumLevels - 2 /\ d.inputs0 \subseteq files[p] /\ d.inputs1 \subseteq files[p + 1]
    BY <2>1 DEF GoodInputs
  <2>3. p \in Level /\ p + 1 \in Level /\ p \in Nat
    BY <2>2, LevelPair
  <2> HIDE DEF d, p
  <2>4. d.inputs0 \subseteq files'[p] /\ d.inputs1 \subseteq files'[p + 1]
    BY <2>2, <2>3, <1>11
  <2>5. ASSUME NEW h \in InputFiles(d)
        PROVE  \E j \in Level : h \in files[j] /\ j <= p + 1
    BY <2>2, <2>3 DEF InputFiles
  <2>6. ASSUME NEW g \in files'[p + 1] \ d.inputs1, NEW h \in InputFiles(d) PROVE Apart(g, h)
    <3>1. CASE g \in files[p + 1]
      BY <3>1, <2>1 DEF GoodInputs, p
    <3>2. CASE g = f /\ l = p + 1
      <4>1. PICK j \in Level : h \in files[j] /\ j <= p + 1
        BY <2>5
      <4>2. l > 0
        BY <3>2, <2>3
      <4> QED
        BY <3>2, <4>1, <4>2, <1>6, <1>7 DEF Apart
    <3> QED
      BY <3>1, <3>2, <2>3, <1>10, <1>11
  <2>7. Newer(Entries(files'[p] \ d.inputs0), Entries(d.inputs0))
    <3>1. Newer(Entries(files[p] \ d.inputs0), Entries(d.inputs0))
      BY <2>1 DEF GoodInputs, p
    <3>2. Newer(imm, Entries(files[p]))
      BY <2>3, <1>3 DEF Stacked
    <3>3. Entries(files'[p] \ d.inputs0) \subseteq Entries(files[p] \ d.inputs0) \cup imm
      BY <2>3, <1>7, <1>11 DEF Entries
    <3>4. Entries(d.inputs0) \subseteq Entries(files[p])
      BY <2>2 DEF Entries
    <3> QED
      BY <3>1, <3>2, <3>3, <3>4 DEF Newer
  <2>8. Solid(InputFiles(d))
    BY <2>1 DEF GoodInputs
  <2>9. GoodInputs(d)'
    BY <2>2, <2>4, <2>6, <2>7, <2>8 DEF GoodInputs, p
  <2>10. ASSUME NEW j \in Level, j > p + 1,
                NEW e \in Entries(files'[j]), NEW h \in Entries(InputFiles(d)), e.key = h.key
         PROVE  e.key \in c.deeper
    <3>1. CASE e \in Entries(files[j])
      BY <3>1, <2>1, <2>10 DEF GoodWork, d, p
    <3>2. CASE e \in imm /\ l = j
      <4>1. PICK x \in InputFiles(d) : h \in x.entries
        BY DEF Entries
      <4>2. PICK i \in Level : x \in files[i] /\ i <= p + 1
        BY <2>5
      <4>3. l > 0 /\ i <= l
        BY <3>2, <4>2, <2>3, <2>10, <1>9
      <4> QED
        BY <3>2, <4>1, <4>2, <4>3, <2>10, <1>12
    <3> QED
      BY <3>1, <3>2, <1>7, <1>10 DEF Entries
  <2>11. GoodWork(c)'
    BY <2>1, <2>10, <1>2 DEF GoodWork, d, p
  <2> QED
    BY <2>9, <2>11 DEF d
<1> QED
  BY <1>2, <1>13, <1>14, <1>15, <1>16, <1>17, <1>18 DEF FilesInv

\* Good inputs are replaced by tables of the next level that hold some of
\* their entries.
LEMMA FilesShift ==
    ASSUME FilesInv, NEW c, GoodInputs(c), NEW O, O \subseteq File, Shifted(c, O),
           compaction' = {}, UNCHANGED <<mem, imm, last_sequence, snapshots, written>>,
           Entries(O) \subseteq Entries(InputFiles(c)),
           \A f, g \in O : f # g => Apart(f, g)
    PROVE  FilesInv'
<1> DEFINE l == c.level
           I0 == c.inputs0
           I1 == c.inputs1
<1>1. Typed /\ Recorded /\ Stacked /\ LevelZero /\ LevelsApart
  BY DEF FilesInv
<1>2. /\ l \in 0 .. NumLevels - 2 /\ I0 \subseteq files[l] /\ I1 \subseteq files[l + 1]
      /\ \A g \in files[l + 1] \ I1, h \in InputFiles(c) : Apart(g, h)
      /\ Newer(Entries(files[l] \ I0), Entries(I0))
      /\ Solid(InputFiles(c)) /\ InputFiles(c) = I0 \cup I1
  BY DEF GoodInputs, InputFiles
<1>3. /\ files'[l] = files[l] \ I0
      /\ files'[l + 1] = (files[l + 1] \ I1) \cup O
      /\ \A j \in Level : j # l /\ j # l + 1 => files'[j] = files[j]
  BY <1>1, <1>2, ShiftedFiles
<1> HIDE DEF l, I0, I1
<1>4. l \in Level /\ l + 1 \in Level /\ l \in Nat /\ l + 1 # 0 /\ 0 \in Level /\ Level \subseteq Nat
  BY <1>2, LevelPair, LevelsAssumption DEF Level
<1>5. \A j \in Level : j # l + 1 => files'[j] \subseteq files[j]
  BY <1>3
<1>6. Entries(InputFiles(c)) = Entries(I0) \cup Entries(I1)
  BY <1>2 DEF Entries
<1>7. Entries(I0) \subseteq Entries(files[l]) /\ Entries(I1) \subseteq Entries(files[l + 1])
  BY <1>2 DEF Entries
<1>8. \A j \in Level : Entries(files[j]) \subseteq written
  BY <1>1, FilesRecorded
<1>9. Typed'
  BY <1>1, <1>2, TypedShift DEF l
<1>10. Recorded'
  <2>1. Entries(O) \subseteq written
    BY <1>4, <1>6, <1>7, <1>8
  <2>2. \A f \in O : f.entries \subseteq written
    BY <2>1 DEF Entries
  <2>3. \A j \in Level : \A f \in files'[j] : f.entries \subseteq written
    BY <2>2, <1>1, <1>3, <1>4 DEF Recorded
  <2> QED
    BY <2>3, <1>1 DEF Recorded
<1>11. LevelZero'
  <2>1. files'[0] \subseteq files[0]
    BY <1>4, <1>5
  <2>2. IsFiniteSet(files'[0])
    BY <2>1, <1>1, FS_Subset DEF LevelZero
  <2> QED
    BY <2>1, <2>2, <1>1 DEF LevelZero
<1>12. LevelsApart'
  <2> SUFFICES ASSUME NEW j \in Level \ {0}, NEW g \in files'[j], NEW h \in files'[j], g # h
               PROVE  Apart(g, h)
    BY DEF LevelsApart
  <2>1. CASE g \in files[j] /\ h \in files[j]
    BY <2>1, <1>1 DEF LevelsApart
  <2>2. CASE j = l + 1 /\ g \in O /\ h \in O
    BY <2>2
  <2>3. ASSUME NEW x \in files[l + 1] \ I1, NEW y \in O
        PROVE  Span(x.entries) \cap Span(y.entries) = {}
    <3>1. y.entries \subseteq Entries(InputFiles(c))
      BY DEF Entries
    <3>2. Span(y.entries) \subseteq Span(Entries(InputFiles(c)))
      BY <3>1, SpanMonotone
    <3> SUFFICES ASSUME NEW k \in Span(x.entries), k \in Span(y.entries) PROVE FALSE
      OBVIOUS
    <3>3. PICK z \in InputFiles(c) : k \in Span(z.entries)
      BY <3>2, <1>2 DEF Solid
    <3>4. Apart(x, z)
      BY <1>2
    <3> QED
      BY <3>3, <3>4 DEF Apart
  <2>4. CASE j = l + 1 /\ g \in files[l + 1] \ I1 /\ h \in O
    BY <2>3, <2>4 DEF Apart
  <2>5. CASE j = l + 1 /\ h \in files[l + 1] \ I1 /\ g \in O
    BY <2>3, <2>5 DEF Apart
  <2> QED
    BY <2>1, <2>2, <2>4, <2>5, <1>3, <1>5
<1>13. Stacked'
  <2>1. \A j \in Level : j # l + 1 => Entries(files'[j]) \subseteq Entries(files[j])
    BY <1>5 DEF Entries
  <2>2. Entries(files'[l + 1]) \subseteq Entries(files[l + 1]) \cup Entries(I0)
    <3>1. Entries(files'[l + 1]) \subseteq Entries(files[l + 1]) \cup Entries(O)
      BY <1>3 DEF Entries
    <3> QED
      BY <3>1, <1>6, <1>7
  <2>3. Entries(files'[l]) = Entries(files[l] \ I0)
    BY <1>3
  <2>4. ASSUME NEW E, \A j \in Level : Newer(E, Entries(files[j]))
        PROVE  \A j \in Level : Newer(E, Entries(files'[j]))
    <3> SUFFICES ASSUME NEW j \in Level PROVE Newer(E, Entries(files'[j]))
      OBVIOUS
    <3>1. CASE j # l + 1
      BY <2>1, <2>4, <3>1 DEF Newer
    <3>2. CASE j = l + 1
      <4>1. Newer(E, Entries(files[l + 1])) /\ Newer(E, Entries(files[l]))
        BY <2>4, <1>4
      <4> QED
        BY <4>1, <2>2, <3>2, <1>7 DEF Newer
    <3> QED
      BY <3>1, <3>2
  <2>5. \A j \in Level : Newer(mem', Entries(files'[j])) /\ Newer(imm', Entries(files'[j]))
    BY <2>4, <1>1 DEF Stacked
  <2>6. ASSUME NEW i \in Level, NEW m \in Level, i < m
        PROVE  Newer(Entries(files'[i]), Entries(files'[m]))
    <3>1. Newer(Entries(files[i]), Entries(files[m]))
      BY <2>6, <1>1 DEF Stacked
    <3>2. CASE i # l + 1 /\ m # l + 1
      BY <3>1, <3>2, <2>1 DEF Newer
    <3>3. CASE m = l + 1 /\ i = l
      BY <3>1, <3>3, <2>1, <2>2, <2>3, <1>2 DEF Newer
    <3>4. CASE m = l + 1 /\ i # l
      <4>1. i < l /\ i # l + 1
        BY <3>4, <2>6, <1>4
      <4>2. Newer(Entries(files[i]), Entries(files[l]))
        BY <4>1, <1>1, <1>4 DEF Stacked
      <4> QED
        BY <3>1, <3>4, <4>1, <4>2, <2>1, <2>2, <1>7 DEF Newer
    <3>5. CASE i = l + 1
      <4>1. l < m /\ m # l + 1
        BY <3>5, <2>6, <1>4
      <4>2. Newer(Entries(files[l]), Entries(files[m]))
        BY <4>1, <1>1, <1>4 DEF Stacked
      <4> QED
        BY <3>1, <3>5, <4>1, <4>2, <2>1, <2>2, <1>7 DEF Newer
    <3> QED
      BY <3>2, <3>3, <3>4, <3>5
  <2>7. files'[0] \subseteq files[0]
    BY <1>4, <1>5
  <2>8. Newer(mem', imm')
    BY <1>1 DEF Stacked
  <2> QED
    BY <2>5, <2>6, <2>7, <2>8, <1>1 DEF Stacked
<1> QED
  BY <1>9, <1>10, <1>11, <1>12, <1>13 DEF FilesInv

\* What DoCompactionWork fixes at its start.
LEMMA FilesStart ==
    ASSUME FilesInv, NEW c, GoodInputs(c), StartWork(c),
           UNCHANGED <<mem, imm, last_sequence, snapshots, written>>
    PROVE  FilesInv'
<1>1. PICK d : /\ compaction' = {d} /\ files' = files
               /\ d.inputs = c /\ d.smallest_snapshot = SmallestSnapshot(snapshots)
               /\ d.deeper = DeeperKeys(c.level)
  <2> DEFINE w == [inputs |-> c, smallest_snapshot |-> SmallestSnapshot(snapshots),
                   deeper |-> DeeperKeys(c.level)]
  <2>1. compaction' = {w} /\ files' = files
    BY DEF StartWork
  <2>2. /\ w.inputs = c /\ w.smallest_snapshot = SmallestSnapshot(snapshots)
        /\ w.deeper = DeeperKeys(c.level)
    OBVIOUS
  <2> HIDE DEF w
  <2> QED
    BY <2>1, <2>2
<1>0. PICK m : m = SmallestSnapshot(snapshots)
  OBVIOUS
<1>2. Typed /\ Recorded /\ Stacked /\ LevelZero /\ LevelsApart
  BY DEF FilesInv
<1>3. /\ AllProper /\ last_sequence \in Nat
      /\ \A l \in Level : Entries(files[l]) \subseteq written
      /\ \A e \in written : e.seq <= last_sequence
  BY <1>2, FilesRecorded
<1>4. m \in snapshots \cup {last_sequence} /\ \A t \in snapshots \cup {last_sequence} : m <= t
  <2>1. snapshots \cup {last_sequence} \subseteq Nat
    BY <1>2, <1>3 DEF Typed, TypeOK
  <2>2. \E s \in snapshots \cup {last_sequence} : \A t \in snapshots \cup {last_sequence} : s <= t
    BY <2>1, LeastNat
  <2>3. SmallestSnapshot(snapshots) \in snapshots \cup {last_sequence}
        /\ \A t \in snapshots \cup {last_sequence} : SmallestSnapshot(snapshots) <= t
    BY <2>2, Zenon DEF SmallestSnapshot
  <2> QED
    BY <2>3, <1>0
<1>5. m \in Nat
  BY <1>4, <1>2, <1>3 DEF Typed, TypeOK
<1>6. d.inputs = c /\ d.smallest_snapshot = m /\ d.deeper = DeeperKeys(c.level)
  BY <1>0, <1>1
<1>7. c.level \in 0 .. NumLevels - 2 /\ c.inputs0 \subseteq files[c.level]
      /\ c.inputs1 \subseteq files[c.level + 1]
  BY DEF GoodInputs
<1>8. Typed'
  BY <1>1, <1>2, <1>6, <1>7 DEF Typed, TypeOK
<1>9. Recorded' /\ Stacked' /\ LevelZero' /\ LevelsApart'
  BY <1>1, <1>2 DEF Recorded, Stacked, LevelZero, LevelsApart
<1>10. GoodInputs(c)'
  BY <1>1 DEF GoodInputs
<1>11. ASSUME NEW j \in Level, j > c.level + 1, NEW e \in Entries(files[j])
       PROVE  e.key \in d.deeper
  <2>1. j \in c.level + 2 .. NumLevels - 1
    BY <1>7, <1>11, LevelsAssumption DEF Level
  <2>2. PICK f \in files[j] : e \in f.entries
    BY DEF Entries
  <2>3. Proper(f.entries)
    BY <1>3 DEF AllProper, ProperFiles
  <2>4. smallest(f).key <= e.key /\ e.key <= largest(f).key
    BY <2>2, <2>3, FileSpan
  <2>5. e.key \in Keys
    BY <2>2, <2>3, EntryFields DEF Proper
  <2> QED
    BY <1>6, <2>1, <2>2, <2>4, <2>5 DEF DeeperKeys
<1>12. MaxSnapshots = 0 => \A e \in Entries(InputFiles(c)) : e.seq <= m
  <2>1. Entries(InputFiles(c)) \subseteq written
    <3>1. c.level \in Level /\ c.level + 1 \in Level
      BY <1>7, LevelPair
    <3> QED
      BY <3>1, <1>3, <1>7 DEF InputFiles, Entries
  <2>2. MaxSnapshots = 0 => m = last_sequence
    BY <1>2, <1>4 DEF Recorded
  <2> QED
    BY <2>1, <2>2, <1>3
<1>13. GoodWork(d)'
  BY <1>1, <1>4, <1>5, <1>6, <1>11, <1>12 DEF GoodWork
<1> QED
  BY <1>1, <1>6, <1>8, <1>9, <1>10, <1>13 DEF FilesInv

\* The order of internal keys.
LEMMA BeforeOrder ==
    ASSUME NEW e \in Entry, NEW g \in Entry
    PROVE  /\ e.seq # g.seq => Before(e, g) \/ Before(g, e)
           /\ ~(Before(e, g) /\ Before(g, e))
           /\ Before(e, g) => e.key <= g.key
<1>1. e.key \in Nat /\ g.key \in Nat /\ e.seq \in Nat /\ g.seq \in Nat
  BY EntryFields
<1> QED
  BY <1>1 DEF Before

\* The outputs of a compaction hold what it keeps, wherever they end.
LEMMA OutputsHold ==
    ASSUME Typed, NEW l \in Level, NEW E, E \subseteq Entry,
           \A e, g \in E : e.seq = g.seq => e = g, NEW C \in CutsOf(E)
    PROVE  Entries(Outputs(l, E, C)) = E
<1> DEFINE Run(c) == {e \in E : /\ e = c \/ Before(c, e)
                                /\ \A d \in C : Before(c, d) => Before(e, d)}
<1>1. Outputs(l, E, C) = {NewFile(l, Run(c)) : c \in C}
  BY DEF Outputs
<1>2. C \subseteq E
  BY DEF CutsOf
<1>3. \A c \in C : Run(c) \subseteq Entry /\ Run(c) \subseteq E /\ c \in Run(c)
  BY <1>2
<1>4. \A c \in C : NewFile(l, Run(c)).entries = Run(c)
  <2> HIDE DEF Run
  <2> QED
    BY <1>3, NewFileFacts
<1>5. ASSUME NEW e \in E PROVE \E c \in C : e \in Run(c)
  <2> DEFINE z == smallest([entries |-> E])
             D == {c \in C : c = e \/ Before(c, e)}
             m == largest([entries |-> D])
  <2>1. z \in E /\ \A g \in E : g = z \/ Before(z, g)
    <3>1. [entries |-> E].entries = E
      OBVIOUS
    <3>2. Proper([entries |-> E].entries)
      BY <3>1 DEF Proper
    <3>3. /\ z \in [entries |-> E].entries
          /\ \A g \in [entries |-> E].entries : g = z \/ Before(z, g)
      BY <3>2, SmallestFacts
    <3> QED
      BY <3>1, <3>3
  <2> HIDE DEF z
  <2>2. z \in C
    BY <2>1 DEF CutsOf
  <2>3. z \in D
    BY <2>1, <2>2
  <2>4. m \in D /\ \A d \in D : d = m \/ Before(d, m)
    <3>1. [entries |-> D].entries = D
      OBVIOUS
    <3>2. Proper([entries |-> D].entries)
      BY <3>1, <2>3, <1>2 DEF Proper
    <3>3. /\ m \in [entries |-> D].entries
          /\ \A g \in [entries |-> D].entries : g = m \/ Before(g, m)
      BY <3>2, LargestFacts
    <3> QED
      BY <3>1, <3>3
  <2> HIDE DEF m
  <2>5. ASSUME NEW d \in C, Before(m, d) PROVE Before(e, d)
    <3>1. m \in Entry /\ d \in Entry /\ e \in Entry
      BY <2>4, <1>2
    <3>2. d \notin D
      <4>1. ~Before(d, m)
        BY <3>1, <2>5, BeforeOrder
      <4>2. d # m
        BY <3>1, <2>5, BeforeOrder
      <4> QED
        BY <4>1, <4>2, <2>4
    <3>3. d # e /\ ~Before(d, e)
      BY <3>2
    <3>4. d.seq # e.seq
      BY <3>3, <1>2
    <3> QED
      BY <3>1, <3>3, <3>4, BeforeOrder
  <2>6. m \in C /\ (e = m \/ Before(m, e))
    BY <2>4
  <2> QED
    BY <2>5, <2>6
<1> HIDE DEF Run
<1> QED
  BY <1>1, <1>3, <1>4, <1>5 DEF Entries

\* No two of them meet if none ends between two versions of a key.
LEMMA OutputsFacts ==
    ASSUME Typed, NEW l \in Level, NEW E, E \subseteq Entry,
           \A e, g \in E : e.seq = g.seq => e = g,
           NEW C \in CutsOf(E), \A c \in C, g \in E : g.key = c.key => g.seq <= c.seq
    PROVE  /\ Entries(Outputs(l, E, C)) = E
           /\ \A f, g \in Outputs(l, E, C) : f # g => Apart(f, g)
<1> DEFINE Run(c) == {e \in E : /\ e = c \/ Before(c, e)
                                /\ \A d \in C : Before(c, d) => Before(e, d)}
<1>1. Outputs(l, E, C) = {NewFile(l, Run(c)) : c \in C}
  BY DEF Outputs
<1>2. C \subseteq E
  BY DEF CutsOf
<1>3. \A c \in C : Run(c) \subseteq Entry /\ Run(c) \subseteq E /\ c \in Run(c)
  BY <1>2
<1>4. \A c \in C : NewFile(l, Run(c)).entries = Run(c)
  <2> HIDE DEF Run
  <2> QED
    BY <1>3, NewFileFacts
<1>6. ASSUME NEW c \in C, NEW d \in C, Before(c, d)
      PROVE  Span(Run(c)) \cap Span(Run(d)) = {}
  <2>1. c \in Entry /\ d \in Entry
    BY <1>2
  <2>2. \A x \in Run(c) : x.key < d.key /\ x.key \in Nat
    <3> SUFFICES ASSUME NEW x \in Run(c) PROVE x.key < d.key /\ x.key \in Nat
      OBVIOUS
    <3>1. Before(x, d) /\ x \in E
      BY <1>6
    <3>2. x.key \in Nat /\ d.key \in Nat /\ x.seq \in Nat /\ d.seq \in Nat
      BY <3>1, <2>1, EntryFields
    <3>3. x.key = d.key => x.seq <= d.seq
      BY <3>1
    <3> QED
      BY <3>1, <3>2, <3>3 DEF Before
  <2>3. \A y \in Run(d) : d.key <= y.key /\ y.key \in Nat
    <3> SUFFICES ASSUME NEW y \in Run(d) PROVE d.key <= y.key /\ y.key \in Nat
      OBVIOUS
    <3>1. y \in E /\ y \in Entry /\ (y = d \/ Before(d, y))
      OBVIOUS
    <3>2. y.key \in Nat /\ d.key \in Nat
      BY <3>1, <2>1, EntryFields
    <3> QED
      BY <3>1, <3>2, <2>1, BeforeOrder
  <2> HIDE DEF Run
  <2> SUFFICES ASSUME NEW k \in Span(Run(c)), k \in Span(Run(d)) PROVE FALSE
    OBVIOUS
  <2>4. PICK x \in Run(c) : k <= x.key
    BY DEF Span
  <2>5. PICK y \in Run(d) : y.key <= k
    BY DEF Span
  <2>6. k \in Nat /\ d.key \in Nat
    BY <2>1, KeysNat, EntryFields DEF Span
  <2> QED
    BY <2>2, <2>3, <2>4, <2>5, <2>6
<1> HIDE DEF Run
<1>7. Entries(Outputs(l, E, C)) = E
  BY OutputsHold
<1>8. ASSUME NEW f \in Outputs(l, E, C), NEW g \in Outputs(l, E, C), f # g
      PROVE  Apart(f, g)
  <2>1. PICK c \in C : f = NewFile(l, Run(c))
    BY <1>1
  <2>2. PICK d \in C : g = NewFile(l, Run(d))
    BY <1>1
  <2>3. c # d
    BY <1>8, <2>1, <2>2
  <2>4. Before(c, d) \/ Before(d, c)
    <3>1. c \in Entry /\ d \in Entry /\ c.seq # d.seq
      BY <2>3, <1>2
    <3> QED
      BY <3>1, BeforeOrder
  <2>5. f.entries = Run(c) /\ g.entries = Run(d)
    BY <1>4, <2>1, <2>2
  <2>6. Span(Run(c)) \cap Span(Run(d)) = {}
    BY <1>6, <2>4
  <2> QED
    BY <2>5, <2>6 DEF Apart
<1> QED
  BY <1>7, <1>8

\* The entries of good inputs were written.
LEMMA InputsRecorded ==
    ASSUME Typed, Recorded, NEW c, GoodInputs(c)
    PROVE  Entries(InputFiles(c)) \subseteq written
<1>1. c.level \in Level /\ c.level + 1 \in Level
  BY LevelPair DEF GoodInputs
<1>2. \A l \in Level : Entries(files[l]) \subseteq written
  BY FilesRecorded
<1> QED
  BY <1>1, <1>2 DEF GoodInputs, InputFiles, Entries

\* What the end of a compaction installs.
LEMMA InstallFacts ==
    ASSUME FilesInv, MaxSnapshots = 0, InstallCompactionResults
    PROVE  \E c \in compaction, O \in SUBSET File :
              /\ Shifted(c.inputs, O) /\ compaction' = {}
              /\ UNCHANGED <<mem, imm, last_sequence, snapshots, written>>
              /\ Entries(O) = Kept(c)
              /\ \A f, g \in O : f # g => Apart(f, g)
<1>1. PICK c \in compaction : \E C \in CutsOf(Kept(c)) :
              /\ Shifted(c.inputs, Outputs(c.inputs.level + 1, Kept(c), C))
              /\ compaction' = {}
              /\ UNCHANGED <<mem, imm, last_sequence, snapshots, written>>
  BY InstallIsShift
<1>2. PICK C \in CutsOf(Kept(c)) :
              /\ Shifted(c.inputs, Outputs(c.inputs.level + 1, Kept(c), C))
              /\ compaction' = {}
              /\ UNCHANGED <<mem, imm, last_sequence, snapshots, written>>
  BY <1>1
<1>3. Typed /\ Recorded /\ GoodInputs(c.inputs) /\ GoodWork(c)
  BY DEF FilesInv
<1>4. c.inputs.level + 1 \in Level
  BY <1>3, LevelPair DEF GoodInputs
<1>5. Kept(c) \subseteq Entry /\ Kept(c) \subseteq Entries(InputFiles(c.inputs))
  BY <1>3, KeptTyped
<1>6. Kept(c) \subseteq written
  BY <1>3, <1>5, InputsRecorded
<1>7. \A e, g \in Kept(c) : e.seq = g.seq => e = g
  BY <1>3, <1>6 DEF Recorded
<1>8. \A e \in C, g \in Kept(c) : g.key = e.key => g.seq <= e.seq
  <2> SUFFICES ASSUME NEW e \in C, NEW g \in Kept(c), g.key = e.key, ~(g.seq <= e.seq)
               PROVE  FALSE
    OBVIOUS
  <2>1. e \in Kept(c)
    BY DEF CutsOf
  <2>2. e.seq \in Nat /\ g.seq \in Nat
    BY <2>1, <1>5, EntryFields
  <2>3. g.seq <= c.smallest_snapshot
    BY <1>3, <1>5 DEF GoodWork
  <2>4. g.seq > e.seq
    BY <2>2
  <2>5. HiddenEntry(c, e)
    BY <2>3, <2>4, <1>5 DEF HiddenEntry, InputFiles
  <2> QED
    BY <2>1, <2>5 DEF Kept
<1> DEFINE O == Outputs(c.inputs.level + 1, Kept(c), C)
<1>9. O \subseteq File
  BY <1>3, <1>4, <1>5, OutputsTyped
<1>10. Entries(O) = Kept(c) /\ \A f, g \in O : f # g => Apart(f, g)
  BY <1>3, <1>4, <1>5, <1>7, <1>8, OutputsFacts
<1> HIDE DEF O
<1>11. Shifted(c.inputs, O)
  BY <1>2 DEF O
<1> QED
  BY <1>2, <1>9, <1>10, <1>11

\* The outputs of a compaction are installed.
LEMMA FilesInstall ==
    ASSUME FilesInv, MaxSnapshots = 0, InstallCompactionResults
    PROVE  FilesInv'
<1>1. PICK c \in compaction, O \in SUBSET File :
              /\ Shifted(c.inputs, O) /\ compaction' = {}
              /\ UNCHANGED <<mem, imm, last_sequence, snapshots, written>>
              /\ Entries(O) = Kept(c)
              /\ \A f, g \in O : f # g => Apart(f, g)
  BY InstallFacts
<1>2. GoodInputs(c.inputs) /\ Typed
  BY DEF FilesInv
<1>3. Entries(O) \subseteq Entries(InputFiles(c.inputs))
  BY <1>1, <1>2, KeptTyped
<1> QED
  BY <1>1, <1>2, <1>3, FilesShift

\* What a trivial move does: the entries stay, one level down.
LEMMA MoveFacts ==
    ASSUME FilesInv, NEW c, GoodInputs(c), MoveFile(c)
    PROVE  \E O \in SUBSET File :
              /\ Shifted(c, O) /\ compaction' = compaction /\ c.inputs1 = {}
              /\ Entries(O) = Entries(c.inputs0)
              /\ \A f, g \in O : f # g => Apart(f, g)
<1> DEFINE O == {NewFile(c.level + 1, f.entries) : f \in c.inputs0}
<1>1. Typed /\ Recorded /\ LevelZero /\ LevelsApart
  BY DEF FilesInv
<1>2. c.level \in 0 .. NumLevels - 2 /\ c.inputs0 \subseteq files[c.level]
  BY DEF GoodInputs
<1>3. c.level \in Level /\ c.level + 1 \in Level
  BY <1>2, LevelPair
<1>4. /\ Cardinality(c.inputs0) = 1 /\ c.inputs1 = {} /\ compaction' = compaction
      /\ Shifted(c, O)
  BY <1>1, <1>2, MoveIsShift
<1>5. \A f \in c.inputs0 : f.entries \subseteq Entry /\ f.entries # {}
  BY <1>1, <1>2, <1>3 DEF Typed, TypeOK, File
<1>6. \A f \in c.inputs0 : /\ NewFile(c.level + 1, f.entries) \in File
                           /\ NewFile(c.level + 1, f.entries).entries = f.entries
  BY <1>1, <1>3, <1>5, NewFileFacts
<1>7. O \in SUBSET File /\ Entries(O) = Entries(c.inputs0)
  BY <1>6 DEF Entries
<1>8. ASSUME NEW f \in c.inputs0, NEW g \in c.inputs0, f # g PROVE Apart(f, g)
  <2>1. CASE c.level = 0
    <3>1. IsFiniteSet(c.inputs0)
      BY <2>1, <1>1, <1>2, FS_Subset DEF LevelZero
    <3>2. \E x : c.inputs0 = {x}
      BY <3>1, <1>4, FS_Singleton
    <3> QED
      BY <3>2, <1>8
  <2>2. CASE c.level # 0
    BY <2>2, <1>1, <1>2, <1>3, <1>8 DEF LevelsApart
  <2> QED
    BY <2>1, <2>2
<1>9. \A f, g \in O : f # g => Apart(f, g)
  <2> SUFFICES ASSUME NEW x \in c.inputs0, NEW y \in c.inputs0,
                      NewFile(c.level + 1, x.entries) # NewFile(c.level + 1, y.entries)
               PROVE  Apart(NewFile(c.level + 1, x.entries), NewFile(c.level + 1, y.entries))
    OBVIOUS
  <2>1. Apart(x, y)
    BY <1>8
  <2> QED
    BY <2>1, <1>6 DEF Apart
<1> HIDE DEF O
<1> QED
  BY <1>4, <1>7, <1>9

\* The background thread picks a compaction.
LEMMA FilesBackground ==
    ASSUME FilesInv, Manual = FALSE, BackgroundCompaction
    PROVE  FilesInv'
<1>1. compaction = {} /\ UNCHANGED <<mem, imm, last_sequence, snapshots, written>>
  BY DEF BackgroundCompaction
<1>2. PICK c \in PickCompaction : MoveFile(c) \/ StartWork(c)
  BY DEF BackgroundCompaction
<1>3. GoodInputs(c)
  BY PickGood, FilesRecorded DEF FilesInv
<1>4. CASE MoveFile(c)
  <2>1. PICK O \in SUBSET File :
              /\ Shifted(c, O) /\ compaction' = compaction /\ c.inputs1 = {}
              /\ Entries(O) = Entries(c.inputs0)
              /\ \A f, g \in O : f # g => Apart(f, g)
    BY <1>3, <1>4, MoveFacts
  <2>2. Entries(O) \subseteq Entries(InputFiles(c))
    BY <2>1 DEF InputFiles, Entries
  <2> QED
    BY <1>1, <1>3, <2>1, <2>2, FilesShift
<1>5. CASE StartWork(c)
  BY <1>1, <1>3, <1>5, FilesStart
<1> QED
  BY <1>2, <1>4, <1>5

\* Every step.
LEMMA FilesStep ==
    ASSUME Manual = FALSE, MaxSnapshots = 0
    PROVE  FilesInv /\ [Next]_vars => FilesInv'
<1> SUFFICES ASSUME FilesInv, [Next]_vars PROVE FilesInv'
  OBVIOUS
<1>1. ASSUME NEW k \in Keys, NEW t \in {"value", "deletion"}, Write(k, t) PROVE FilesInv'
  BY <1>1, FilesWrite
<1>2. CASE SwitchMemTable
  BY <1>2, FilesSwitch
<1>3. CASE CompactMemTable
  BY <1>3, FilesFlush
<1>4. CASE BackgroundCompaction
  BY <1>4, FilesBackground
<1>5. CASE InstallCompactionResults
  BY <1>5, FilesInstall
<1>6. CASE \/ GetSnapshot
           \/ \E s \in snapshots : ReleaseSnapshot(s)
           \/ UNCHANGED vars
  BY <1>6, FilesSnapshot
<1> QED
  BY <1>1, <1>2, <1>3, <1>4, <1>5, <1>6 DEF Next

-----------------------------------------------------------------------------
\* NewerAbove and LevelsDisjoint.

\* The places a reader searches.
LEMMA PlaceFacts ==
    /\ Places(0) = mem /\ Places(1) = imm
    /\ \A i \in Sources : i # 0 /\ i # 1 => Places(i) = Entries(files[i - 2]) /\ i - 2 \in Level
    /\ \A i \in Sources : i \in Nat
<1>1. Places(0) = mem /\ Places(1) = imm
  BY DEF Places
<1>2. \A i \in Sources : i # 0 /\ i # 1 => Places(i) = Entries(files[i - 2])
  BY DEF Places
<1>3. \A i \in Sources : i \in Nat /\ (i # 0 /\ i # 1 => i - 2 \in Level)
  BY LevelsAssumption DEF Sources, Level
<1> QED
  BY <1>1, <1>2, <1>3

\* Stacked says so.
LEMMA StackedNewer == Stacked => NewerAbove
<1> SUFFICES ASSUME Stacked PROVE NewerAbove
  OBVIOUS
<1>1. ASSUME NEW i \in Sources, NEW j \in Sources, i < j PROVE Newer(Places(i), Places(j))
  <2>1. i \in Nat /\ j \in Nat /\ j # 0
    BY <1>1, PlaceFacts
  <2>2. CASE i = 0 /\ j = 1
    BY <2>2, PlaceFacts DEF Stacked
  <2>3. CASE i = 0 /\ j # 1
    <3>1. Places(j) = Entries(files[j - 2]) /\ j - 2 \in Level
      BY <2>1, <2>3, PlaceFacts
    <3> QED
      BY <3>1, <2>3, PlaceFacts DEF Stacked
  <2>4. CASE i = 1
    <3>1. j # 1
      BY <2>1, <2>4, <1>1
    <3>2. Places(j) = Entries(files[j - 2]) /\ j - 2 \in Level
      BY <2>1, <3>1, PlaceFacts
    <3> QED
      BY <3>2, <2>4, PlaceFacts DEF Stacked
  <2>5. CASE i # 0 /\ i # 1
    <3>1. j # 1
      BY <2>1, <2>5, <1>1
    <3>2. Places(i) = Entries(files[i - 2]) /\ i - 2 \in Level
      BY <2>5, PlaceFacts
    <3>3. Places(j) = Entries(files[j - 2]) /\ j - 2 \in Level
      BY <2>1, <3>1, PlaceFacts
    <3>4. i - 2 < j - 2
      BY <2>1, <1>1
    <3>5. Newer(Entries(files[i - 2]), Entries(files[j - 2]))
      BY <3>2, <3>3, <3>4 DEF Stacked
    <3> QED
      BY <3>2, <3>3, <3>5
  <2> QED
    BY <2>2, <2>3, <2>4, <2>5
<1>2. \A f, g \in files[0] : g.number < f.number => Newer(f.entries, g.entries)
  BY DEF Stacked
<1> QED
  BY <1>1, <1>2 DEF NewerAbove

\* Files that do not meet are one before the other.
LEMMA ApartDisjoint == FilesInv => LevelsDisjoint
<1> SUFFICES ASSUME FilesInv, NEW l \in Level \ {0}, NEW f \in files[l], NEW g \in files[l], f # g
             PROVE  Before(largest(f), smallest(g)) \/ Before(largest(g), smallest(f))
  BY DEF LevelsDisjoint
<1>1. Apart(f, g)
  BY DEF FilesInv, LevelsApart
<1>2. Proper(f.entries) /\ Proper(g.entries)
  BY FilesRecorded DEF FilesInv, AllProper, ProperFiles
<1> DEFINE a == smallest(f).key
           b == largest(f).key
           c == smallest(g).key
           d == largest(g).key
<1>3. a \in Keys /\ b \in Keys /\ Span(f.entries) = a .. b
  BY <1>2, FileSpan
<1>4. c \in Keys /\ d \in Keys /\ Span(g.entries) = c .. d
  BY <1>2, FileSpan
<1>5. a <= b /\ c <= d
  <2>1. PICK e \in f.entries : e \in Entry
    BY <1>2 DEF Proper
  <2>2. PICK h \in g.entries : h \in Entry
    BY <1>2 DEF Proper
  <2>3. a <= e.key /\ e.key <= b /\ c <= h.key /\ h.key <= d
    BY <2>1, <2>2, <1>2, FileSpan
  <2> QED
    BY <2>1, <2>2, <2>3, <1>3, <1>4, KeysNat, EntryFields
<1>6. a \in Nat /\ b \in Nat /\ c \in Nat /\ d \in Nat
  BY <1>3, <1>4, KeysNat
<1>7. (a .. b) \cap (c .. d) = {}
  BY <1>1, <1>3, <1>4 DEF Apart
<1>8. b < c \/ d < a
  <2> HIDE DEF a, b, c, d
  <2>1. a \in a .. b /\ c \in c .. d
    BY <1>5, <1>6
  <2>2. a \notin c .. d /\ c \notin a .. b
    BY <2>1, <1>7
  <2> QED
    BY <2>2, <1>5, <1>6
<1> QED
  BY <1>8 DEF Before

\* VersionSet::Builder::MaybeAddFile, "Must not overlap": with automatic
\* compactions, flushed tables included that arrive in the middle of one, the
\* files of each level below 0 stay disjoint, for any number of keys, levels
\* and writes.
THEOREM LevelsStayDisjoint == Manual = FALSE /\ MaxSnapshots = 0 => (Spec => []LevelsDisjoint)
<1> SUFFICES ASSUME Manual = FALSE, MaxSnapshots = 0 PROVE Spec => []LevelsDisjoint
  OBVIOUS
<1>1. FilesInv /\ [Next]_vars => FilesInv'
  BY FilesStep
<1> QED
  BY <1>1, FilesInit, ApartDisjoint, PTL DEF Spec

\* Version::Get, "if we find data in an smaller level, later levels are
\* irrelevant": what is searched earlier stays newer, key by key, whatever is
\* flushed, moved or merged.
THEOREM NewerStaysAbove == Manual = FALSE /\ MaxSnapshots = 0 => (Spec => []NewerAbove)
<1> SUFFICES ASSUME Manual = FALSE, MaxSnapshots = 0 PROVE Spec => []NewerAbove
  OBVIOUS
<1>1. FilesInv /\ [Next]_vars => FilesInv'
  BY FilesStep
<1>2. FilesInv => NewerAbove
  BY StackedNewer DEF FilesInv
<1> QED
  BY <1>1, <1>2, FilesInit, PTL DEF Spec

-----------------------------------------------------------------------------
\* What a reader finds.

\* Nothing a reader could find changes.
LEMMA SameReads ==
    ASSUME Remembered, Present' = Present, written' = written,
           snapshots' \cup {last_sequence'} \subseteq snapshots \cup {last_sequence}
    PROVE  Remembered'
BY DEF Remembered, Versions

\* A write is the newest version of its key.
LEMMA RememberWrite ==
    ASSUME FilesInv, Remembered, NEW k \in Keys, NEW t \in {"value", "deletion"}, Write(k, t)
    PROVE  Remembered'
<1> DEFINE e == [key |-> k, seq |-> last_sequence + 1, type |-> t]
<1>1. /\ last_sequence' = last_sequence + 1
      /\ mem' = mem \cup {e} /\ written' = written \cup {e}
      /\ UNCHANGED <<imm, files, snapshots, compaction>>
  BY DEF Write
<1>2. e.key = k /\ e.seq = last_sequence + 1
  OBVIOUS
<1> HIDE DEF e
<1>3. Typed /\ Recorded
  BY DEF FilesInv
<1>4. /\ \A l \in Level : Entries(files[l]) \subseteq written
      /\ \A g \in written : g.seq \in Nat /\ g.seq <= last_sequence
      /\ last_sequence \in Nat
  BY <1>3, FilesRecorded
<1>5. Present' = Present \cup {e}
  BY <1>1 DEF Present
<1>6. Present \subseteq written
  BY <1>3, <1>4 DEF Present, Recorded
<1>7. snapshots \subseteq 0 .. last_sequence
  BY <1>3 DEF Typed, TypeOK
<1> SUFFICES ASSUME NEW x \in Keys, NEW s \in snapshots \cup {last_sequence + 1},
                    NEW y \in Versions(written', x, s),
                    \A g \in Versions(written', x, s) : g.seq <= y.seq
             PROVE  \/ y \in Present'
                    \/ y.type = "deletion" /\ Versions(Present', x, s) = {}
  BY <1>1 DEF Remembered
<1>8. CASE y = e
  BY <1>5, <1>8
<1>9. CASE y # e
  <2>1. y \in written /\ y.key = x /\ y.seq <= s
    BY <1>1, <1>9 DEF Versions
  <2> DEFINE r == IF s = last_sequence + 1 THEN last_sequence ELSE s
  <2>2. r \in snapshots \cup {last_sequence} /\ s \in Nat /\ r \in Nat
    BY <1>4, <1>7
  <2>3. e \notin Versions(written', x, s)
    <3> SUFFICES ASSUME e \in Versions(written', x, s) PROVE FALSE
      OBVIOUS
    <3>1. e.seq <= y.seq
      OBVIOUS
    <3>2. y.seq \in Nat /\ y.seq <= last_sequence
      BY <1>4, <2>1
    <3> QED
      BY <3>1, <3>2, <1>2, <1>4
  <2>4. \A G : G \subseteq written =>
           \A g \in G : g.key = x => (g.seq <= s <=> g.seq <= r)
    BY <1>4, <1>7, <2>2
  <2>5. e \in written'
    BY <1>1
  <2>6. ~(e.key = x /\ e.seq <= s)
    BY <2>3, <2>5 DEF Versions
  <2>7. Versions(written', x, s) = Versions(written, x, r)
    BY <1>1, <2>4, <2>6 DEF Versions
  <2>8. Versions(Present', x, s) = Versions(Present, x, r)
    BY <1>5, <1>6, <2>4, <2>6 DEF Versions
  <2>9. y \in Versions(written, x, r) /\ \A g \in Versions(written, x, r) : g.seq <= y.seq
    BY <2>7
  <2> HIDE DEF r
  <2>10. \/ y \in Present
         \/ y.type = "deletion" /\ Versions(Present, x, r) = {}
    BY <2>2, <2>9 DEF Remembered
  <2> QED
    BY <1>5, <2>8, <2>10
<1> QED
  BY <1>8, <1>9

\* A flush moves entries.
LEMMA FlushPresent ==
    ASSUME Typed, CompactMemTable
    PROVE  Present' = Present
<1> DEFINE f0 == [entries |-> imm]
<1>1. PICK l \in PickLevelForMemTableOutput(smallest(f0).key, largest(f0).key) :
            files' = [files EXCEPT ![l] = @ \cup {NewFile(l, imm)}]
  BY DEF CompactMemTable
<1>2. /\ imm # {} /\ imm' = {}
      /\ UNCHANGED <<mem, last_sequence, snapshots, compaction, written>>
  BY DEF CompactMemTable
<1>3. l \in Level
  BY <1>1, FlushLevels
<1> DEFINE f == NewFile(l, imm)
<1>4. f.entries = imm
  BY <1>2, <1>3, NewFileFacts DEF Typed, TypeOK
<1>5. files' = [files EXCEPT ![l] = @ \cup {f}]
  BY <1>1
<1> HIDE DEF f, f0
<1>6. files \in [Level -> SUBSET File]
  BY DEF Typed
<1>7. files'[l] = files[l] \cup {f} /\ \A j \in Level : j # l => files'[j] = files[j]
  BY <1>3, <1>5, <1>6
<1>8. Entries(files'[l]) = Entries(files[l]) \cup imm
  BY <1>4, <1>7 DEF Entries
<1>9. \A j \in Level : j # l => Entries(files'[j]) = Entries(files[j])
  BY <1>7
<1> QED
  BY <1>2, <1>3, <1>8, <1>9 DEF Present

LEMMA RememberFlush ==
    ASSUME FilesInv, Remembered, CompactMemTable
    PROVE  Remembered'
<1>1. Present' = Present
  BY FlushPresent DEF FilesInv
<1> QED
  BY <1>1, SameReads DEF CompactMemTable

\* What is present after a shift.
LEMMA ShiftPresent ==
    ASSUME Typed, NEW c, c.level \in 0 .. NumLevels - 2, c.inputs0 \subseteq files[c.level],
           c.inputs1 \subseteq files[c.level + 1], NEW O, Shifted(c, O), UNCHANGED <<mem, imm>>
    PROVE  /\ Present' \subseteq Present \cup Entries(O)
           /\ Present \subseteq Present' \cup Entries(InputFiles(c))
           /\ Entries(O) \subseteq Present'
<1> DEFINE l == c.level
<1>1. /\ l \in 0 .. NumLevels - 2 /\ c.inputs0 \subseteq files[l]
      /\ c.inputs1 \subseteq files[l + 1]
      /\ InputFiles(c) = c.inputs0 \cup c.inputs1
  BY DEF InputFiles
<1>2. /\ files'[l] = files[l] \ c.inputs0
      /\ files'[l + 1] = (files[l + 1] \ c.inputs1) \cup O
      /\ \A j \in Level : j # l /\ j # l + 1 => files'[j] = files[j]
  BY <1>1, ShiftedFiles
<1> HIDE DEF l
<1>3. l \in Level /\ l + 1 \in Level
  BY <1>1, LevelPair
<1>4. \A j \in Level : Entries(files'[j]) \subseteq Entries(files[j]) \cup Entries(O)
  BY <1>2 DEF Entries
<1>5. \A j \in Level : Entries(files[j]) \subseteq Entries(files'[j]) \cup Entries(InputFiles(c))
  BY <1>1, <1>2 DEF Entries
<1>6. Entries(O) \subseteq Entries(files'[l + 1])
  BY <1>2 DEF Entries
<1> QED
  BY <1>3, <1>4, <1>5, <1>6 DEF Present

\* The background thread picks a compaction, or moves a file.
LEMMA RememberBackground ==
    ASSUME FilesInv, Remembered, Manual = FALSE, BackgroundCompaction
    PROVE  Remembered'
<1>1. compaction = {} /\ UNCHANGED <<mem, imm, last_sequence, snapshots, written>>
  BY DEF BackgroundCompaction
<1>2. PICK c \in PickCompaction : MoveFile(c) \/ StartWork(c)
  BY DEF BackgroundCompaction
<1>3. GoodInputs(c)
  BY PickGood, FilesRecorded DEF FilesInv
<1>4. CASE MoveFile(c)
  <2>1. PICK O \in SUBSET File :
              /\ Shifted(c, O) /\ compaction' = compaction /\ c.inputs1 = {}
              /\ Entries(O) = Entries(c.inputs0)
              /\ \A f, g \in O : f # g => Apart(f, g)
    BY <1>3, <1>4, MoveFacts
  <2>2. Entries(O) = Entries(InputFiles(c))
    BY <2>1 DEF InputFiles
  <2>3. Entries(c.inputs0) \subseteq Present
    <3>1. c.level \in Level /\ c.inputs0 \subseteq files[c.level]
      BY <1>3, LevelPair DEF GoodInputs
    <3>2. Entries(c.inputs0) \subseteq Entries(files[c.level])
      BY <3>1 DEF Entries
    <3> QED
      BY <3>1, <3>2 DEF Present
  <2>4. Present' = Present
    BY <1>1, <1>3, <2>1, <2>2, <2>3, ShiftPresent DEF GoodInputs, FilesInv
  <2> QED
    BY <1>1, <2>4, SameReads
<1>5. CASE StartWork(c)
  <2>1. Present' = Present
    BY <1>1, <1>5 DEF StartWork, Present
  <2> QED
    BY <1>1, <2>1, SameReads
<1> QED
  BY <1>2, <1>4, <1>5

\* A deletion marker that a compaction drops has nothing left to hide.
LEMMA DroppedMarker ==
    ASSUME FilesInv, NEW c \in compaction, NEW O, Shifted(c.inputs, O), Entries(O) = Kept(c),
           UNCHANGED <<mem, imm>>,
           NEW e \in Entries(InputFiles(c.inputs)), ObsoleteDeletion(c, e),
           NEW g \in Present', g.key = e.key, g.seq < e.seq
    PROVE  FALSE
<1> DEFINE d == c.inputs
           l == d.level
           I0 == d.inputs0
           I1 == d.inputs1
<1>1. GoodInputs(d) /\ GoodWork(c) /\ Typed /\ Recorded /\ Stacked
  BY DEF FilesInv
<1>2. /\ l \in 0 .. NumLevels - 2 /\ I0 \subseteq files[l] /\ I1 \subseteq files[l + 1]
      /\ \A x \in files[l + 1] \ I1, h \in InputFiles(d) : Apart(x, h)
      /\ Newer(Entries(files[l] \ I0), Entries(I0))
      /\ InputFiles(d) = I0 \cup I1
  BY <1>1 DEF GoodInputs, InputFiles
<1>3. /\ files'[l] = files[l] \ I0
      /\ files'[l + 1] = (files[l + 1] \ I1) \cup O
      /\ \A j \in Level : j # l /\ j # l + 1 => files'[j] = files[j]
  BY <1>1, <1>2, ShiftedFiles
<1>4. \A j \in Level : j > l + 1 =>
          \A x \in Entries(files[j]) : x.key = e.key => x.key \in c.deeper
  BY <1>1 DEF GoodWork
<1> HIDE DEF d, l, I0, I1
<1>5. l \in Level /\ l + 1 \in Level /\ l \in Nat /\ Level \subseteq Nat
  BY <1>2, LevelPair, LevelsAssumption DEF Level
<1>6. e \in Entries(I0) \/ e \in Entries(I1)
  BY <1>2 DEF Entries, d
<1>7. Entries(I0) \subseteq Entries(files[l]) /\ Entries(I1) \subseteq Entries(files[l + 1])
  BY <1>2 DEF Entries
<1>8. e.seq \in Nat
  <2>1. e \in written
    BY <1>1, InputsRecorded DEF d
  <2> QED
    BY <2>1, <1>1, FilesRecorded
<1>9. ASSUME NEW E, Newer(E, Entries(files[l])), Newer(E, Entries(files[l + 1])), g \in E
      PROVE  FALSE
  <2>1. g.seq > e.seq
    BY <1>6, <1>7, <1>9 DEF Newer
  <2>2. g.seq \in Nat
    <3>1. g \in written \/ g \in Entries(O)
      <4>1. Present' \subseteq Present \cup Entries(O)
        BY <1>1, ShiftPresent DEF d, GoodInputs
      <4>2. Present \subseteq written
        BY <1>1, FilesRecorded DEF Present, Recorded
      <4> QED
        BY <4>1, <4>2
    <3>2. Kept(c) \subseteq Entry
      BY <1>1, KeptTyped
    <3> QED
      BY <3>1, <3>2, <1>1, FilesRecorded, EntryFields
  <2> QED
    BY <2>1, <2>2, <1>8
<1>10. g \notin mem /\ g \notin imm
  BY <1>1, <1>5, <1>9 DEF Stacked
<1>11. PICK j \in Level : g \in Entries(files'[j])
  BY <1>10 DEF Present
<1>12. CASE j < l
  <2>1. Newer(Entries(files[j]), Entries(files[l]))
        /\ Newer(Entries(files[j]), Entries(files[l + 1]))
    <3>1. j < l + 1
      BY <1>12, <1>5
    <3> QED
      BY <3>1, <1>1, <1>5, <1>12 DEF Stacked
  <2>2. j # l /\ j # l + 1
    BY <1>12, <1>5
  <2>3. g \in Entries(files[j])
    BY <2>2, <1>3, <1>11
  <2> QED
    BY <2>1, <2>3, <1>9
<1>13. CASE j = l
  <2>1. Newer(Entries(files[l]), Entries(files[l + 1]))
    <3>1. l < l + 1
      BY <1>5
    <3> QED
      BY <3>1, <1>1, <1>5 DEF Stacked
  <2>2. g \in Entries(files[l] \ I0) /\ g \in Entries(files[l])
    BY <1>3, <1>11, <1>13 DEF Entries
  <2>3. g.seq > e.seq
    BY <2>1, <2>2, <1>2, <1>6, <1>7 DEF Newer
  <2>4. g \in written
    BY <2>2, <1>1, <1>5, FilesRecorded
  <2>5. g.seq \in Nat
    BY <2>4, <1>1, FilesRecorded
  <2> QED
    BY <2>3, <2>5, <1>8
<1>14. CASE j = l + 1
  <2>1. CASE g \in Entries(O)
    <3>1. e.seq <= c.smallest_snapshot
      BY DEF ObsoleteDeletion
    <3>2. g \in Kept(c)
      BY <2>1
    <3>3. Kept(c) \subseteq Entry
      BY <1>1, KeptTyped
    <3>4. e.seq > g.seq
      BY <3>2, <3>3, <1>8, EntryFields
    <3>5. HiddenEntry(c, g)
      BY <3>1, <3>4 DEF HiddenEntry, InputFiles
    <3> QED
      BY <3>2, <3>5 DEF Kept
  <2>2. CASE g \in Entries(files[l + 1] \ I1)
    <3>1. PICK x \in files[l + 1] \ I1 : g \in x.entries
      BY <2>2 DEF Entries
    <3>2. PICK h \in InputFiles(d) : e \in h.entries
      BY DEF Entries, d
    <3>3. Apart(x, h)
      BY <1>2
    <3>4. x.entries \subseteq Entry /\ h.entries \subseteq Entry
      <4>1. \A i \in Level : \A f \in files[i] : f.entries \subseteq Entry
        BY <1>1 DEF Typed, TypeOK, File
      <4> QED
        BY <4>1, <1>2, <1>5
    <3> QED
      BY <3>1, <3>2, <3>3, <3>4, ApartNoKey
  <2> QED
    BY <2>1, <2>2, <1>3, <1>11, <1>14 DEF Entries
<1>15. CASE j > l + 1
  <2>1. j # l /\ j # l + 1
    BY <1>15, <1>5
  <2>2. g \in Entries(files[j])
    BY <2>1, <1>3, <1>11
  <2>3. e.key \in c.deeper
    BY <2>2, <1>4, <1>15
  <2> QED
    BY <2>3 DEF ObsoleteDeletion
<1> QED
  BY <1>5, <1>12, <1>13, <1>14, <1>15

\* The end of a compaction: what it drops no reader can see.
LEMMA RememberInstall ==
    ASSUME FilesInv, Remembered, MaxSnapshots = 0, InstallCompactionResults
    PROVE  Remembered'
<1>1. PICK c \in compaction, O \in SUBSET File :
              /\ Shifted(c.inputs, O) /\ compaction' = {}
              /\ UNCHANGED <<mem, imm, last_sequence, snapshots, written>>
              /\ Entries(O) = Kept(c)
              /\ \A f, g \in O : f # g => Apart(f, g)
  BY InstallFacts
<1>2. GoodInputs(c.inputs) /\ GoodWork(c) /\ Typed /\ Recorded
  BY DEF FilesInv
<1> DEFINE I == Entries(InputFiles(c.inputs))
<1>3. I \subseteq written
  BY <1>2, InputsRecorded
<1>4. /\ Present' \subseteq Present \cup Kept(c)
      /\ Present \subseteq Present' \cup I
      /\ Kept(c) \subseteq Present'
  BY <1>1, <1>2, ShiftPresent DEF GoodInputs
<1>5. I \subseteq Present
  <2>1. c.inputs.level \in Level /\ c.inputs.level + 1 \in Level
    BY <1>2, LevelPair DEF GoodInputs
  <2>2. I \subseteq Entries(files[c.inputs.level]) \cup Entries(files[c.inputs.level + 1])
    BY <1>2 DEF GoodInputs, InputFiles, Entries
  <2> QED
    BY <2>1, <2>2 DEF Present
<1>6. Present' \subseteq Present
  BY <1>2, <1>4, <1>5, KeptTyped
<1>7. Present \subseteq written
  BY <1>2, FilesRecorded DEF Present, Recorded
<1> SUFFICES ASSUME NEW k \in Keys, NEW s \in snapshots \cup {last_sequence},
                    NEW e \in Versions(written, k, s),
                    \A g \in Versions(written, k, s) : g.seq <= e.seq, e \notin Present'
             PROVE  e.type = "deletion" /\ Versions(Present', k, s) = {}
  BY <1>1 DEF Remembered
<1>8. e \in Present \/ (e.type = "deletion" /\ Versions(Present, k, s) = {})
  BY DEF Remembered
<1>9. CASE e.type = "deletion" /\ Versions(Present, k, s) = {}
  BY <1>6, <1>9 DEF Versions
<1>10. CASE e \in Present
  <2>1. e \in I /\ e \notin Kept(c)
    BY <1>4, <1>10
  <2>2. e \in written /\ e.key = k /\ e.seq <= s
    BY DEF Versions
  <2>3. /\ \A g \in written : g.seq \in Nat
        /\ s \in Nat /\ c.smallest_snapshot \in Nat /\ c.smallest_snapshot <= s
    BY <1>2, FilesRecorded DEF GoodWork, Typed, TypeOK
  <2>4. ~HiddenEntry(c, e)
    <3> SUFFICES ASSUME NEW g \in I, g.key = e.key, g.seq > e.seq, g.seq <= c.smallest_snapshot
                 PROVE  FALSE
      BY DEF HiddenEntry, InputFiles
    <3>1. g \in written /\ g.seq \in Nat /\ e.seq \in Nat
      BY <1>3, <2>2, <2>3
    <3>2. g.seq <= s
      BY <3>1, <2>3
    <3>3. g \in Versions(written, k, s)
      BY <3>1, <3>2, <2>2 DEF Versions
    <3>4. g.seq <= e.seq
      BY <3>3
    <3> QED
      BY <3>1, <3>4
  <2>5. ObsoleteDeletion(c, e)
    BY <2>1, <2>4 DEF Kept, InputFiles
  <2>6. ASSUME NEW g \in Versions(Present', k, s) PROVE FALSE
    <3>1. g \in Present' /\ g.key = e.key /\ g \in Versions(written, k, s)
      BY <1>6, <1>7, <2>2 DEF Versions
    <3>2. g \in written
      BY <3>1 DEF Versions
    <3>3. g.seq <= e.seq /\ g # e
      BY <3>1
    <3>4. g.seq # e.seq
      BY <3>2, <3>3, <2>2, <1>2 DEF Recorded
    <3>5. g.seq < e.seq
      BY <3>2, <3>3, <3>4, <2>2, <2>3
    <3> QED
      BY <3>1, <3>5, <2>1, <2>5, <1>1, DroppedMarker
  <2> QED
    BY <2>5, <2>6 DEF ObsoleteDeletion
<1> QED
  BY <1>8, <1>9, <1>10

\* Every step.
LEMMA RememberStep ==
    ASSUME Manual = FALSE, MaxSnapshots = 0
    PROVE  LevelsInv /\ [Next]_vars => LevelsInv'
<1> SUFFICES ASSUME FilesInv, Remembered, [Next]_vars PROVE FilesInv' /\ Remembered'
  BY DEF LevelsInv
<1>1. FilesInv'
  BY FilesStep
<1> SUFFICES Remembered'
  BY <1>1
<1>2. last_sequence \in Nat
  BY FilesRecorded DEF FilesInv
<1>3. ASSUME NEW k \in Keys, NEW t \in {"value", "deletion"}, Write(k, t) PROVE Remembered'
  BY <1>3, RememberWrite
<1>4. CASE SwitchMemTable
  <2>1. Present' = Present
    BY <1>4 DEF SwitchMemTable, Present
  <2> QED
    BY <1>4, <2>1, SameReads DEF SwitchMemTable
<1>5. CASE CompactMemTable
  BY <1>5, RememberFlush
<1>6. CASE BackgroundCompaction
  BY <1>6, RememberBackground
<1>7. CASE InstallCompactionResults
  BY <1>7, RememberInstall
<1>8. CASE \/ GetSnapshot
           \/ \E s \in snapshots : ReleaseSnapshot(s)
           \/ UNCHANGED vars
  <2>1. UNCHANGED <<mem, imm, files, written, last_sequence>>
        /\ snapshots' \subseteq snapshots \cup {last_sequence}
    BY <1>8 DEF GetSnapshot, ReleaseSnapshot, vars
  <2>2. Present' = Present
    BY <2>1 DEF Present
  <2> QED
    BY <2>1, <2>2, SameReads
<1> QED
  BY <1>3, <1>4, <1>5, <1>6, <1>7, <1>8 DEF Next

\* What a search must find of the versions V in one place: something if there
\* is something, and nothing newer is missing.
FindsNewest(found, V) ==
    /\ found \subseteq V
    /\ \A e \in V : \E g \in found : g = e \/ g.seq > e.seq

\* The search of level 0.
LEMMA SearchLevel0Finds ==
    ASSUME FilesInv, NEW k \in Keys, NEW s \in Nat
    PROVE  FindsNewest(SearchLevel0(files[0], k, s), Versions(Entries(files[0]), k, s))
<1> DEFINE F == files[0]
           hits == {f \in F : /\ smallest(f).key <= k /\ k <= largest(f).key
                              /\ Versions(f.entries, k, s) # {}}
           top == CHOOSE f \in hits : \A g \in hits : g.number <= f.number
<1>1. Typed /\ Recorded /\ Stacked /\ LevelZero /\ 0 \in Level
  BY LevelsAssumption DEF FilesInv, Level
<1>2. SearchLevel0(F, k, s) = IF hits = {} THEN {} ELSE Versions(top.entries, k, s)
  BY DEF SearchLevel0
<1>3. \A f \in F : Proper(f.entries) /\ f.number \in Nat
  BY <1>1, FilesRecorded DEF AllProper, ProperFiles, Typed, TypeOK, File
<1>4. \A f \in F : Versions(f.entries, k, s) # {} => f \in hits
  <2> SUFFICES ASSUME NEW f \in F, NEW e \in Versions(f.entries, k, s)
               PROVE  smallest(f).key <= k /\ k <= largest(f).key
    OBVIOUS
  <2>1. e \in f.entries /\ e.key = k
    BY DEF Versions
  <2> QED
    BY <2>1, <1>3, FileSpan
<1>5. CASE hits = {}
  <2>1. Versions(Entries(F), k, s) = {}
    BY <1>4, <1>5 DEF Versions, Entries
  <2> QED
    BY <1>2, <1>5, <2>1 DEF FindsNewest
<1>6. CASE hits # {}
  <2> DEFINE N == {f.number : f \in hits}
  <2>1. PICK b \in Nat : \A f \in F : f.number <= b
    BY <1>1 DEF Typed
  <2>2. N \subseteq Nat /\ N # {} /\ \A x \in N : x <= b
    BY <1>3, <1>6, <2>1
  <2>3. PICK x \in N : \A y \in N : y <= x
    BY <2>2, GreatestNat
  <2>4. \E f \in hits : \A g \in hits : g.number <= f.number
    BY <2>3
  <2>5. top \in hits /\ \A g \in hits : g.number <= top.number
    BY <2>4, Zenon
  <2> HIDE DEF top
  <2>6. SearchLevel0(F, k, s) = Versions(top.entries, k, s)
    BY <1>2, <1>6
  <2>7. Versions(top.entries, k, s) \subseteq Versions(Entries(F), k, s)
    BY <2>5 DEF Versions, Entries
  <2>8. ASSUME NEW e \in Versions(Entries(F), k, s)
        PROVE  \E g \in Versions(top.entries, k, s) : g = e \/ g.seq > e.seq
    <3>1. PICK f \in F : e \in f.entries
      BY DEF Versions, Entries
    <3>2. e \in Versions(f.entries, k, s) /\ e.key = k
      BY <3>1 DEF Versions
    <3>3. f \in hits
      BY <3>2, <1>4
    <3>4. CASE f = top
      BY <3>2, <3>4
    <3>5. CASE f # top
      <4>1. f.number < top.number
        BY <3>3, <3>5, <2>5, <1>1, <1>3 DEF LevelZero
      <4>2. Newer(top.entries, f.entries)
        BY <4>1, <2>5, <1>1 DEF Stacked
      <4>3. PICK g : g \in Versions(top.entries, k, s)
        BY <2>5
      <4> QED
        BY <4>2, <4>3, <3>1, <3>2 DEF Newer, Versions
    <3> QED
      BY <3>4, <3>5
  <2> QED
    BY <2>6, <2>7, <2>8 DEF FindsNewest
<1> QED
  BY <1>5, <1>6

\* The search of another level.
LEMMA SearchLevelFinds ==
    ASSUME FilesInv, NEW l \in Level \ {0}, NEW k \in Keys, NEW s \in Nat
    PROVE  FindsNewest(SearchLevel(files[l], k, s), Versions(Entries(files[l]), k, s))
<1> DEFINE F == files[l]
           seek == [key |-> k, seq |-> s]
           after == {f \in F : ~Before(largest(f), seek)}
           found == {f \in after : \A g \in after : f = g \/ Before(smallest(f), smallest(g))}
<1>1. FindFile(F, k, s) = found
  BY DEF FindFile
<1>2. SearchLevel(F, k, s) =
         UNION {Versions(f.entries, k, s) : f \in {h \in found : smallest(h).key <= k}}
  BY <1>1 DEF SearchLevel
<1>3. Typed /\ Recorded /\ LevelsApart
  BY DEF FilesInv
<1>4. \A f \in F : Proper(f.entries)
  BY <1>3, FilesRecorded DEF AllProper, ProperFiles
<1>5. seek.key = k /\ seek.seq = s /\ k \in Nat
  BY KeysNat
<1> HIDE DEF seek
<1>6. ASSUME NEW f \in F, NEW e \in Versions(f.entries, k, s)
      PROVE  f \in found /\ smallest(f).key <= k
  <2>1. e \in f.entries /\ e.key = k /\ e.seq <= s /\ e \in Entry /\ e.seq \in Nat
    BY <1>4, EntryFields DEF Versions, Proper
  <2>2. /\ smallest(f).key \in Keys /\ largest(f).key \in Keys
        /\ smallest(f).key <= k /\ k <= largest(f).key
        /\ Span(f.entries) = smallest(f).key .. largest(f).key
    BY <2>1, <1>4, FileSpan
  <2>3. largest(f) \in f.entries /\ (e = largest(f) \/ Before(e, largest(f)))
    BY <2>1, <1>4, LargestFacts
  <2>4. largest(f).seq \in Nat /\ largest(f).key \in Nat /\ smallest(f).key \in Nat
    BY <2>2, <2>3, <1>4, KeysNat, EntryFields DEF Proper
  <2>5. ~Before(largest(f), seek)
    BY <1>5, <2>1, <2>2, <2>3, <2>4 DEF Before
  <2>6. ASSUME NEW g \in after, f # g PROVE Before(smallest(f), smallest(g))
    <3>1. Apart(f, g)
      BY <2>6, <1>3 DEF LevelsApart
    <3>2. /\ smallest(g).key \in Keys /\ largest(g).key \in Keys
          /\ Span(g.entries) = smallest(g).key .. largest(g).key
      BY <1>4, FileSpan
    <3>3. smallest(g).key \in Nat /\ largest(g).key \in Nat
      BY <3>2, KeysNat
    <3>4. k \in Span(f.entries)
      BY <2>2, <2>4, <1>5
    <3>5. k \notin smallest(g).key .. largest(g).key
      BY <3>1, <3>2, <3>4 DEF Apart
    <3>6. ~(largest(g).key < k)
      BY <1>5, <2>6 DEF Before
    <3>7. k < smallest(g).key
      BY <3>3, <3>5, <3>6, <1>5
    <3>8. smallest(f).key < smallest(g).key
      BY <3>3, <3>7, <2>2, <2>4, <1>5
    <3> QED
      BY <3>8 DEF Before
  <2> QED
    BY <2>2, <2>5, <2>6
<1> HIDE DEF found
<1>7. SearchLevel(F, k, s) \subseteq Versions(Entries(F), k, s)
  <2>1. found \subseteq F
    BY DEF found
  <2> QED
    BY <1>2, <2>1 DEF Versions, Entries
<1>8. ASSUME NEW e \in Versions(Entries(F), k, s) PROVE e \in SearchLevel(F, k, s)
  <2>1. PICK f \in F : e \in Versions(f.entries, k, s)
    BY DEF Versions, Entries
  <2> QED
    BY <2>1, <1>2, <1>6
<1> QED
  BY <1>7, <1>8 DEF FindsNewest

\* Every place.
LEMMA ProbeFinds ==
    ASSUME FilesInv, NEW i \in Sources, NEW k \in Keys, NEW s \in Nat
    PROVE  FindsNewest(Probe(i, k, s), Versions(Places(i), k, s))
<1>1. CASE i = 0
  BY <1>1, PlaceFacts DEF Probe, FindsNewest
<1>2. CASE i = 1
  BY <1>2, PlaceFacts DEF Probe, FindsNewest
<1>3. CASE i = 2
  <2>1. Probe(2, k, s) = SearchLevel0(files[0], k, s)
    BY DEF Probe
  <2>2. Places(2) = Entries(files[0])
    BY DEF Places
  <2> QED
    BY <1>3, <2>1, <2>2, SearchLevel0Finds
<1>4. CASE i # 0 /\ i # 1 /\ i # 2
  <2>1. i \in Nat /\ Places(i) = Entries(files[i - 2]) /\ i - 2 \in Level
    BY <1>4, PlaceFacts
  <2>2. i - 2 \in Level \ {0}
    BY <2>1, <1>4
  <2>3. Probe(i, k, s) = SearchLevel(files[i - 2], k, s)
    BY <1>4 DEF Probe
  <2>4. FindsNewest(SearchLevel(files[i - 2], k, s), Versions(Entries(files[i - 2]), k, s))
    BY <2>2, SearchLevelFinds
  <2> QED
    BY <2>1, <2>3, <2>4
<1> QED
  BY <1>1, <1>2, <1>3, <1>4

\* All places together hold what is present.
LEMMA PlacesPresent ==
    /\ \A i \in Sources : Places(i) \subseteq Present
    /\ \A e \in Present : \E i \in Sources : e \in Places(i)
<1>1. 0 \in Sources /\ 1 \in Sources /\ \A l \in Level : l + 2 \in Sources
  BY LevelsAssumption DEF Sources, Level
<1>2. ASSUME NEW l \in Level PROVE Places(l + 2) = Entries(files[l])
  <2>1. PICK i \in Sources : i = l + 2
    BY <1>1
  <2>2. i # 0 /\ i # 1 /\ i - 2 = l
    BY <2>1, LevelsAssumption DEF Level
  <2>3. Places(i) = Entries(files[i - 2])
    BY <2>2, PlaceFacts
  <2> QED
    BY <2>1, <2>2, <2>3
<1>3. \A i \in Sources : Places(i) \subseteq Present
  BY PlaceFacts DEF Present
<1>4. \A e \in Present : \E i \in Sources : e \in Places(i)
  BY <1>1, <1>2, PlaceFacts DEF Present
<1> QED
  BY <1>3, <1>4

\* Sequence numbers tell versions apart, so the newest of a set of them is the
\* one entry no other has a higher number than.
LEMMA NewestIs ==
    ASSUME Recorded, NEW E \in SUBSET written, NEW e \in E, \A g \in E : g.seq <= e.seq,
           \A g \in E : g.seq \in Nat
    PROVE  Newest(E) = e
<1>1. Newest(E) \in E /\ \A g \in E : g.seq <= Newest(E).seq
  BY Zenon DEF Newest
<1>2. Newest(E).seq = e.seq
  BY <1>1
<1> QED
  BY <1>1, <1>2 DEF Recorded

\* A set of versions that is not empty has a newest one.
LEMMA NewestExists ==
    ASSUME NEW E \in SUBSET Entry, E # {}
    PROVE  \E e \in E : \A g \in E : g.seq <= e.seq
<1> DEFINE S == {e.seq : e \in E}
<1>1. \A e \in E : e.seq \in Nat /\ e.seq <= MaxSequence
  BY LevelsAssumption DEF Entry
<1>2. S \subseteq Nat /\ S # {} /\ (\A x \in S : x <= MaxSequence) /\ MaxSequence \in Nat
  BY <1>1, LevelsAssumption
<1>3. \A e \in E : e.seq \in S
  OBVIOUS
<1>4. \A x \in S : \E e \in E : x = e.seq
  OBVIOUS
<1> HIDE DEF S
<1>5. PICK x \in S : \A y \in S : y <= x
  BY <1>2, GreatestNat
<1> QED
  BY <1>3, <1>4, <1>5

\* The first place that has an answer has the newest version present.
LEMMA FirstHit ==
    ASSUME FilesInv, NEW k \in Keys, NEW s \in Nat, NEW e \in Versions(Present, k, s),
           \A g \in Versions(Present, k, s) : g.seq <= e.seq
    PROVE  Get(k, s) = Value({e})
<1> DEFINE hits == {i \in Sources : Probe(i, k, s) # {}}
           first == CHOOSE i \in hits : \A j \in hits : i <= j
<1>1. Stacked /\ Typed /\ Recorded
  BY DEF FilesInv
<1>2. Present \subseteq written
  BY <1>1 DEF Present, Recorded, Entries
<1>3. \A g \in written : g.seq \in Nat
  BY <1>1, FilesRecorded
<1>4. e \in Present /\ e.key = k /\ e.seq <= s
  BY DEF Versions
<1>5. PICK j \in Sources : e \in Places(j)
  BY <1>4, PlacesPresent
<1>6. e \in Versions(Places(j), k, s)
  BY <1>4, <1>5 DEF Versions
<1>7. e \in Probe(j, k, s)
  <2>1. PICK g \in Probe(j, k, s) : g = e \/ g.seq > e.seq
    BY <1>6, ProbeFinds DEF FindsNewest
  <2>2. g \in Versions(Places(j), k, s)
    BY <2>1, ProbeFinds DEF FindsNewest
  <2>3. g \in Versions(Present, k, s)
    BY <2>2, PlacesPresent DEF Versions
  <2>4. g.seq <= e.seq /\ g.seq \in Nat /\ e.seq \in Nat
    BY <2>3, <1>2, <1>3, <1>4 DEF Versions
  <2> QED
    BY <2>1, <2>4
<1>8. j \in hits /\ hits \subseteq Nat
  BY <1>7, PlaceFacts
<1>9. \E i \in hits : \A m \in hits : i <= m
  BY <1>8, LeastNat
<1>10. first \in hits /\ \A m \in hits : first <= m
  BY <1>9, Zenon
<1>11. Get(k, s) = Value(Probe(first, k, s))
  BY <1>8 DEF Get
<1>12. first \in Sources /\ Probe(first, k, s) # {} /\ first <= j /\ first \in Nat /\ j \in Nat
  BY <1>8, <1>10
<1> HIDE DEF first, hits
<1>13. ~(first < j)
  <2> SUFFICES ASSUME first < j PROVE FALSE
    OBVIOUS
  <2>1. PICK g \in Probe(first, k, s) : g \in Versions(Places(first), k, s)
    BY <1>12, ProbeFinds DEF FindsNewest
  <2>2. g \in Places(first) /\ g.key = k /\ g \in Versions(Present, k, s)
    BY <2>1, <1>12, PlacesPresent DEF Versions
  <2>3. Newer(Places(first), Places(j))
    BY <1>1, <1>12, StackedNewer DEF NewerAbove
  <2>4. g.seq > e.seq
    BY <2>2, <2>3, <1>4, <1>5 DEF Newer
  <2>5. g.seq <= e.seq /\ g.seq \in Nat /\ e.seq \in Nat
    BY <2>2, <1>2, <1>3, <1>4 DEF Versions
  <2> QED
    BY <2>4, <2>5
<1>14. first = j
  BY <1>12, <1>13
<1>15. Probe(j, k, s) \subseteq Versions(Present, k, s)
  <2>1. Probe(j, k, s) \subseteq Versions(Places(j), k, s)
    BY ProbeFinds DEF FindsNewest
  <2> QED
    BY <2>1, PlacesPresent DEF Versions
<1>16. Probe(j, k, s) \subseteq written
  BY <1>15, <1>2 DEF Versions
<1>17. Newest(Probe(j, k, s)) = e
  BY <1>1, <1>3, <1>7, <1>15, <1>16, NewestIs
<1>18. Newest({e}) = e
  BY DEF Newest
<1> QED
  BY <1>7, <1>11, <1>14, <1>17, <1>18 DEF Value

\* Nothing present, nothing found.
LEMMA NoHit ==
    ASSUME FilesInv, NEW k \in Keys, NEW s \in Nat, Versions(Present, k, s) = {}
    PROVE  Get(k, s) = 0
<1>1. ASSUME NEW i \in Sources PROVE Probe(i, k, s) = {}
  <2>1. Probe(i, k, s) \subseteq Versions(Places(i), k, s)
    BY ProbeFinds DEF FindsNewest
  <2> QED
    BY <2>1, PlacesPresent DEF Versions
<1> QED
  BY <1>1 DEF Get

\* What is remembered is read.
LEMMA InvReads == LevelsInv => ReadsCorrect
<1> SUFFICES ASSUME LevelsInv, NEW k \in Keys, NEW s \in snapshots \cup {last_sequence}
             PROVE  Get(k, s) = Value(Versions(written, k, s))
  BY DEF ReadsCorrect
<1> DEFINE V == Versions(written, k, s)
<1>1. FilesInv /\ Remembered /\ Typed /\ Recorded
  BY DEF LevelsInv, FilesInv
<1>2. s \in Nat
  BY <1>1, LevelsAssumption DEF Typed, TypeOK
<1>3. V \subseteq written /\ written \subseteq Entry /\ \A g \in written : g.seq \in Nat
  BY <1>1, FilesRecorded DEF Versions
<1>4. Present \subseteq written
  BY <1>1 DEF Present, Recorded, Entries
<1>5. Versions(Present, k, s) \subseteq V
  BY <1>4 DEF Versions
<1>6. CASE V = {}
  <2>1. Get(k, s) = 0
    BY <1>1, <1>2, <1>5, <1>6, NoHit
  <2> QED
    BY <2>1, <1>6 DEF Value
<1>7. CASE V # {}
  <2>1. PICK e \in V : \A g \in V : g.seq <= e.seq
    BY <1>3, <1>7, NewestExists
  <2>2. Newest(V) = e
    BY <2>1, <1>1, <1>3, NewestIs
  <2>3. Newest({e}) = e
    BY DEF Newest
  <2>4. Value(V) = Value({e})
    BY <2>2, <2>3, <1>7 DEF Value
  <2>5. e \in Present \/ (e.type = "deletion" /\ Versions(Present, k, s) = {})
    BY <2>1, <1>1 DEF Remembered
  <2>6. CASE e \in Present
    <3>1. e \in Versions(Present, k, s)
      BY <2>1, <2>6 DEF Versions
    <3>2. \A g \in Versions(Present, k, s) : g.seq <= e.seq
      BY <2>1, <1>5
    <3> QED
      BY <3>1, <3>2, <2>4, <1>1, <1>2, FirstHit
  <2>7. CASE e.type = "deletion" /\ Versions(Present, k, s) = {}
    <3>1. Get(k, s) = 0
      BY <2>7, <1>1, <1>2, NoHit
    <3>2. Value({e}) = 0
      BY <2>3, <2>7 DEF Value
    <3> QED
      BY <3>1, <3>2, <2>4
  <2> QED
    BY <2>5, <2>6, <2>7
<1> QED
  BY <1>6, <1>7

\* DBImpl::Get: as long as nobody calls DB::CompactRange or takes a
\* snapshot, a reader finds the newest version written, for any number of keys,
\* levels and writes.
THEOREM ReadsStayCorrect == Manual = FALSE /\ MaxSnapshots = 0 => (Spec => []ReadsCorrect)
<1> SUFFICES ASSUME Manual = FALSE, MaxSnapshots = 0 PROVE Spec => []ReadsCorrect
  OBVIOUS
<1>1. Init => LevelsInv
  BY FilesInit DEF LevelsInv, Init, Remembered, Versions
<1>2. LevelsInv /\ [Next]_vars => LevelsInv'
  BY RememberStep
<1> QED
  BY <1>1, <1>2, InvReads, PTL DEF Spec

-----------------------------------------------------------------------------
\* What is never dropped, with snapshots, manual compactions and outputs that
\* end anywhere.

\* Nothing present was not written, a compaction at work knows of every
\* snapshot that is not released, and the values they show are present.
Held ==
    \A k \in Keys, s \in snapshots \cup {last_sequence} :
        \A e \in Versions(written, k, s) :
            e.type = "value" /\ (\A g \in Versions(written, k, s) : g.seq <= e.seq)
                => e \in Present

KeptInv ==
    /\ Typed /\ Held /\ Present \subseteq written
    /\ \A e, g \in written : e.seq = g.seq => e = g
    /\ \A e \in written : e.seq <= last_sequence
    /\ \A c \in compaction :
          /\ c.smallest_snapshot \in Nat
          /\ \A s \in snapshots \cup {last_sequence} : c.smallest_snapshot <= s

\* The numbers of KeptInv.
LEMMA KeptNumbers ==
    ASSUME KeptInv
    PROVE  /\ last_sequence \in Nat /\ snapshots \subseteq 0 .. last_sequence
           /\ written \subseteq Entry
           /\ \A g \in written : g.seq \in Nat /\ g.seq <= last_sequence
<1>1. written \subseteq Entry /\ last_sequence \in Nat /\ snapshots \subseteq 0 .. last_sequence
  BY DEF KeptInv, Typed, TypeOK
<1> QED
  BY <1>1, EntryFields DEF KeptInv

\* A write is present at once.
LEMMA KeptWrite ==
    ASSUME KeptInv, NEW k \in Keys, NEW t \in {"value", "deletion"}, Write(k, t)
    PROVE  KeptInv'
<1> DEFINE e == [key |-> k, seq |-> last_sequence + 1, type |-> t]
<1>1. /\ last_sequence' = last_sequence + 1
      /\ mem' = mem \cup {e} /\ written' = written \cup {e}
      /\ UNCHANGED <<imm, files, snapshots, compaction>>
  BY DEF Write
<1>2. e.key = k /\ e.seq = last_sequence + 1
  OBVIOUS
<1> HIDE DEF e
<1>3. /\ last_sequence \in Nat /\ snapshots \subseteq 0 .. last_sequence
      /\ \A g \in written : g.seq \in Nat /\ g.seq <= last_sequence
  BY KeptNumbers
<1>4. Present' = Present \cup {e}
  BY <1>1 DEF Present
<1>5. Typed'
  BY TypedWrite DEF KeptInv
<1>6. Held'
  <2> SUFFICES ASSUME NEW x \in Keys, NEW s \in snapshots \cup {last_sequence + 1},
                      NEW y \in Versions(written', x, s), y.type = "value",
                      \A g \in Versions(written', x, s) : g.seq <= y.seq
               PROVE  y \in Present'
    BY <1>1 DEF Held
  <2>1. CASE y = e
    BY <1>4, <2>1
  <2>2. CASE y # e
    <3>1. y \in written /\ y.key = x /\ y.seq <= s
      BY <1>1, <2>2 DEF Versions
    <3> DEFINE r == IF s = last_sequence + 1 THEN last_sequence ELSE s
    <3>2. r \in snapshots \cup {last_sequence} /\ s \in Nat /\ r \in Nat /\ r <= s
      BY <1>3
    <3>3. y.seq \in Nat /\ y.seq <= last_sequence
      BY <3>1, <1>3
    <3>4. y.seq <= r
      BY <3>1, <3>2, <3>3
    <3> HIDE DEF r
    <3>5. \A g \in written : g.seq <= r => g.seq <= s
      BY <3>2, <1>3
    <3>6. Versions(written, x, r) \subseteq Versions(written', x, s)
      BY <1>1, <3>5 DEF Versions
    <3>7. y \in Versions(written, x, r)
      BY <3>1, <3>4 DEF Versions
    <3>8. y \in Present
      BY <3>2, <3>6, <3>7 DEF KeptInv, Held
    <3> QED
      BY <1>4, <3>8
  <2> QED
    BY <2>1, <2>2
<1>7. Present' \subseteq written'
  BY <1>1, <1>4 DEF KeptInv
<1>8. /\ \A x, y \in written' : x.seq = y.seq => x = y
      /\ \A x \in written' : x.seq <= last_sequence'
  BY <1>1, <1>2, <1>3 DEF KeptInv
<1>9. ASSUME NEW c \in compaction'
      PROVE  /\ c.smallest_snapshot \in Nat
             /\ \A s \in snapshots' \cup {last_sequence'} : c.smallest_snapshot <= s
  <2>1. /\ c.smallest_snapshot \in Nat
        /\ \A s \in snapshots \cup {last_sequence} : c.smallest_snapshot <= s
    BY <1>1 DEF KeptInv
  <2>2. c.smallest_snapshot <= last_sequence + 1
    BY <2>1, <1>3
  <2> QED
    BY <2>1, <2>2, <1>1
<1> QED
  BY <1>5, <1>6, <1>7, <1>8, <1>9 DEF KeptInv

\* A step that moves entries, and takes or releases a snapshot at most.
LEMMA KeptSame ==
    ASSUME KeptInv, Typed', Present' = Present, UNCHANGED <<written, last_sequence>>,
           snapshots' \subseteq snapshots \cup {last_sequence},
           \A c \in compaction' :
              /\ c.smallest_snapshot \in Nat
              /\ \A s \in snapshots' \cup {last_sequence'} : c.smallest_snapshot <= s
    PROVE  KeptInv'
<1>1. Held'
  BY DEF KeptInv, Held, Versions
<1> QED
  BY <1>1 DEF KeptInv

\* A trivial move, of an automatic or a manual choice.
LEMMA MovePresent ==
    ASSUME Typed, NEW c, c.level \in 0 .. NumLevels - 2, c.inputs0 \subseteq files[c.level],
           c.inputs1 \subseteq files[c.level + 1], MoveFile(c), UNCHANGED <<mem, imm>>
    PROVE  Present' = Present /\ compaction' = compaction
<1> DEFINE O == {NewFile(c.level + 1, f.entries) : f \in c.inputs0}
<1>1. c.level \in Level /\ c.level + 1 \in Level
  BY LevelPair
<1>2. \A f \in c.inputs0 : f.entries \subseteq Entry /\ f.entries # {}
  BY <1>1 DEF Typed, TypeOK, File
<1>3. \A f \in c.inputs0 : NewFile(c.level + 1, f.entries).entries = f.entries
  BY <1>1, <1>2, NewFileFacts
<1>4. Entries(O) = Entries(c.inputs0)
  BY <1>3 DEF Entries
<1>5. c.inputs1 = {} /\ compaction' = compaction /\ Shifted(c, O)
  BY MoveIsShift
<1> HIDE DEF O
<1>6. /\ Present' \subseteq Present \cup Entries(O)
      /\ Present \subseteq Present' \cup Entries(InputFiles(c))
      /\ Entries(O) \subseteq Present'
  BY <1>5, ShiftPresent
<1>7. InputFiles(c) = c.inputs0
  BY <1>5 DEF InputFiles
<1>8. Entries(c.inputs0) \subseteq Present
  <2>1. Entries(c.inputs0) \subseteq Entries(files[c.level])
    BY DEF Entries
  <2> QED
    BY <2>1, <1>1 DEF Present
<1> QED
  BY <1>4, <1>5, <1>6, <1>7, <1>8

\* The background thread picks a compaction.
LEMMA KeptBackground ==
    ASSUME KeptInv, BackgroundCompaction
    PROVE  KeptInv'
<1>1. compaction = {} /\ UNCHANGED <<mem, imm, last_sequence, snapshots, written>>
  BY DEF BackgroundCompaction
<1>2. PICK c : /\ c \in PickCompaction \/ c \in CompactRange
               /\ MoveFile(c) \/ StartWork(c)
  BY DEF BackgroundCompaction
<1>3. /\ c.level \in 0 .. NumLevels - 2
      /\ c.inputs0 \subseteq files[c.level] /\ c.inputs1 \subseteq files[c.level + 1]
  BY <1>2, PickTyped, RangeTyped
<1>4. Typed /\ Typed'
  BY TypedBackground DEF KeptInv
<1>5. CASE MoveFile(c)
  <2>1. Present' = Present /\ compaction' = {}
    BY <1>1, <1>3, <1>4, <1>5, MovePresent
  <2> QED
    BY <1>1, <1>4, <2>1, KeptSame
<1>6. CASE StartWork(c)
  <2>1. Present' = Present
    BY <1>1, <1>6 DEF StartWork, Present
  <2>2. \A d \in compaction' : d.smallest_snapshot = SmallestSnapshot(snapshots)
    BY <1>6 DEF StartWork
  <2>3. snapshots \cup {last_sequence} \subseteq Nat
    BY KeptNumbers
  <2>4. \E s \in snapshots \cup {last_sequence} : \A t \in snapshots \cup {last_sequence} : s <= t
    BY <2>3, LeastNat
  <2>5. SmallestSnapshot(snapshots) \in snapshots \cup {last_sequence}
        /\ \A t \in snapshots \cup {last_sequence} : SmallestSnapshot(snapshots) <= t
    BY <2>4, Zenon DEF SmallestSnapshot
  <2>6. SmallestSnapshot(snapshots) \in Nat
    BY <2>3, <2>5
  <2> QED
    BY <1>1, <1>4, <2>1, <2>2, <2>5, <2>6, KeptSame
<1> QED
  BY <1>2, <1>5, <1>6

\* The end of a compaction: what it drops no reader should find.
LEMMA KeptInstall ==
    ASSUME KeptInv, InstallCompactionResults
    PROVE  KeptInv'
<1>1. PICK c \in compaction : \E C \in CutsOf(Kept(c)) :
              /\ Shifted(c.inputs, Outputs(c.inputs.level + 1, Kept(c), C))
              /\ compaction' = {}
              /\ UNCHANGED <<mem, imm, last_sequence, snapshots, written>>
  BY InstallIsShift
<1>2. PICK C \in CutsOf(Kept(c)) :
              /\ Shifted(c.inputs, Outputs(c.inputs.level + 1, Kept(c), C))
              /\ compaction' = {}
              /\ UNCHANGED <<mem, imm, last_sequence, snapshots, written>>
  BY <1>1
<1> DEFINE I == Entries(InputFiles(c.inputs))
           O == Outputs(c.inputs.level + 1, Kept(c), C)
<1>3. Typed /\ Typed'
  BY TypedInstall DEF KeptInv
<1>4. /\ c.inputs.level \in 0 .. NumLevels - 2
      /\ c.inputs.inputs0 \subseteq files[c.inputs.level]
      /\ c.inputs.inputs1 \subseteq files[c.inputs.level + 1]
  BY <1>3 DEF Typed, TypeOK
<1>5. c.inputs.level \in Level /\ c.inputs.level + 1 \in Level
  BY <1>4, LevelPair
<1>6. Kept(c) \subseteq Entry /\ Kept(c) \subseteq I
  BY <1>3, KeptTyped
<1>7. I \subseteq Present
  <2>1. I \subseteq Entries(files[c.inputs.level]) \cup Entries(files[c.inputs.level + 1])
    BY <1>4 DEF InputFiles, Entries
  <2> QED
    BY <2>1, <1>5 DEF Present
<1>8. I \subseteq written
  BY <1>7 DEF KeptInv
<1>9. \A e, g \in Kept(c) : e.seq = g.seq => e = g
  BY <1>6, <1>8 DEF KeptInv
<1>10. Entries(O) = Kept(c)
  BY <1>3, <1>5, <1>6, <1>9, OutputsHold
<1> HIDE DEF O
<1>11. Shifted(c.inputs, O)
  BY <1>2 DEF O
<1>12. /\ Present' \subseteq Present \cup Kept(c)
       /\ Present \subseteq Present' \cup I
       /\ Kept(c) \subseteq Present'
  BY <1>2, <1>3, <1>4, <1>10, <1>11, ShiftPresent
<1>13. Present' \subseteq written'
  BY <1>2, <1>6, <1>8, <1>12 DEF KeptInv
<1>14. Held'
  <2> SUFFICES ASSUME NEW k \in Keys, NEW s \in snapshots \cup {last_sequence},
                      NEW e \in Versions(written, k, s), e.type = "value",
                      \A g \in Versions(written, k, s) : g.seq <= e.seq
               PROVE  e \in Present'
    BY <1>2 DEF Held
  <2>1. e \in Present
    BY DEF KeptInv, Held
  <2>2. e \in written /\ e.key = k /\ e.seq <= s
    BY DEF Versions
  <2>3. /\ \A g \in written : g.seq \in Nat
        /\ s \in Nat /\ c.smallest_snapshot \in Nat /\ c.smallest_snapshot <= s
    <3>1. s \in Nat /\ \A g \in written : g.seq \in Nat
      BY KeptNumbers
    <3> QED
      BY <3>1 DEF KeptInv
  <2>4. ~HiddenEntry(c, e)
    <3> SUFFICES ASSUME NEW g \in I, g.key = e.key, g.seq > e.seq, g.seq <= c.smallest_snapshot
                 PROVE  FALSE
      BY DEF HiddenEntry, InputFiles
    <3>1. g \in written /\ g.seq \in Nat /\ e.seq \in Nat
      BY <1>8, <2>2, <2>3
    <3>2. g.seq <= s
      BY <3>1, <2>3
    <3>3. g \in Versions(written, k, s)
      BY <3>1, <3>2, <2>2 DEF Versions
    <3>4. g.seq <= e.seq
      BY <3>3
    <3> QED
      BY <3>1, <3>4
  <2>5. ~ObsoleteDeletion(c, e)
    BY DEF ObsoleteDeletion
  <2>6. e \in I => e \in Kept(c)
    BY <2>4, <2>5 DEF Kept, InputFiles
  <2> QED
    BY <2>1, <2>6, <1>12
<1> QED
  BY <1>2, <1>3, <1>13, <1>14 DEF KeptInv

\* Every step.
LEMMA KeptStep == KeptInv /\ [Next]_vars => KeptInv'
<1> SUFFICES ASSUME KeptInv, [Next]_vars PROVE KeptInv'
  OBVIOUS
<1>1. Typed /\ Typed' /\ last_sequence \in Nat
  BY TypedStep, KeptNumbers DEF KeptInv
<1>2. \A c \in compaction :
          /\ c.smallest_snapshot \in Nat
          /\ \A s \in snapshots \cup {last_sequence} : c.smallest_snapshot <= s
  BY DEF KeptInv
<1>3. ASSUME NEW k \in Keys, NEW t \in {"value", "deletion"}, Write(k, t) PROVE KeptInv'
  BY <1>3, KeptWrite
<1>4. CASE SwitchMemTable
  <2>1. Present' = Present
    BY <1>4 DEF SwitchMemTable, Present
  <2> QED
    BY <1>1, <1>2, <1>4, <2>1, KeptSame DEF SwitchMemTable
<1>5. CASE CompactMemTable
  <2>1. Present' = Present
    BY <1>1, <1>5, FlushPresent
  <2> QED
    BY <1>1, <1>2, <1>5, <2>1, KeptSame DEF CompactMemTable
<1>6. CASE BackgroundCompaction
  BY <1>6, KeptBackground
<1>7. CASE InstallCompactionResults
  BY <1>7, KeptInstall
<1>8. CASE \/ GetSnapshot
           \/ \E s \in snapshots : ReleaseSnapshot(s)
           \/ UNCHANGED vars
  <2>1. UNCHANGED <<mem, imm, files, written, last_sequence, compaction>>
        /\ snapshots' \subseteq snapshots \cup {last_sequence}
    BY <1>8 DEF GetSnapshot, ReleaseSnapshot, vars
  <2>2. Present' = Present
    BY <2>1 DEF Present
  <2>3. \A c \in compaction' :
          /\ c.smallest_snapshot \in Nat
          /\ \A s \in snapshots' \cup {last_sequence'} : c.smallest_snapshot <= s
    BY <1>2, <2>1
  <2> QED
    BY <1>1, <2>1, <2>2, <2>3, KeptSame
<1> QED
  BY <1>3, <1>4, <1>5, <1>6, <1>7, <1>8 DEF Next

\* DoCompactionWork never drops the value a reader should find, without a
\* snapshot or with one that is not released: for any number of keys, levels,
\* writes and snapshots, with manual compactions, and wherever an output ends.
THEOREM ValuesStayKept == Spec => []ValuesKept
<1>1. Init => KeptInv
  <2> SUFFICES ASSUME Init PROVE KeptInv
    OBVIOUS
  <2>1. /\ mem = {} /\ imm = {} /\ written = {} /\ compaction = {}
        /\ \A l \in Level : files[l] = {}
    BY DEF Init
  <2>2. Present = {}
    BY <2>1 DEF Present, Entries
  <2>3. Held
    BY <2>1 DEF Held, Versions
  <2> QED
    BY <2>1, <2>2, <2>3, TypedInit DEF KeptInv
<1>2. KeptInv => ValuesKept
  <2> SUFFICES ASSUME KeptInv, NEW k \in Keys, NEW s \in snapshots \cup {last_sequence},
                      Versions(written, k, s) # {},
                      Newest(Versions(written, k, s)).type = "value"
               PROVE  Newest(Versions(written, k, s)) \in Present
    BY DEF ValuesKept
  <2> DEFINE V == Versions(written, k, s)
  <2>1. V \subseteq Entry
    BY KeptNumbers DEF Versions
  <2>2. \E e \in V : \A g \in V : g.seq <= e.seq
    BY <2>1, NewestExists
  <2>3. Newest(V) \in V /\ \A g \in V : g.seq <= Newest(V).seq
    BY <2>2, Zenon DEF Newest
  <2> QED
    BY <2>3 DEF KeptInv, Held
<1> QED
  BY <1>1, <1>2, KeptStep, PTL DEF Spec

=============================================================================
