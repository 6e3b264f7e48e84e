------------------------- MODULE DetailPagerProofs --------------------------
(* The page index stays in range for lists of any length. *)
EXTENDS DetailPager, TLAPS

\* The pagers that compare the index with the length of their own list.
Consistent == Pager = "star" \/ (Pager = "detail" /\ ~MayShrink)

\* The types and the range are inductive together: a neighbour UIKit kept
\* becomes the page shown, so its range must be known in advance.
PagerInv == TypeOK /\ PagesInRange

\* No dream is open at first.
LEMMA PagerInit == Init => PagerInv
BY LengthAssumption DEF Init, PagerInv, TypeOK, PagesInRange, NoIndexTrap, Neighbour

\* A step of UIKit, of the user or of an observer keeps the range.
LEMMA PagerNext ==
    ASSUME Consistent, PagerInv, [Next]_vars
    PROVE  PagerInv'
<1> USE LengthAssumption, NeighbourAssumption
    DEF Consistent, PagerInv, TypeOK, PagesInRange, NoIndexTrap, Neighbour, ListCount
<1>1. ASSUME NEW count \in 1 .. total, NEW row \in 0 .. MaxLen, Open(row, count)
      PROVE  PagerInv'
  BY <1>1 DEF Open
<1>2. CASE viewControllerBefore
  <2>1. CASE currentIndex = 0
    BY <1>2, <2>1 DEF viewControllerBefore
  <2>2. CASE currentIndex # 0
    <3>1. currentIndex - 1 \in 0 .. ListCount - 1
      BY <1>2, <2>2 DEF viewControllerBefore
    <3> QED
      BY <1>2, <2>2, <3>1 DEF viewControllerBefore, Make
  <2> QED
    BY <2>1, <2>2
<1>3. CASE viewControllerAfter
  <2>1. EndCount = ListCount
    BY DEF EndCount
  <2>2. CASE currentIndex = EndCount - 1
    BY <1>3, <2>2 DEF viewControllerAfter
  <2>3. CASE currentIndex # EndCount - 1
    <3>1. currentIndex + 1 \in 0 .. ListCount - 1
      BY <1>3, <2>1, <2>3 DEF viewControllerAfter
    <3> QED
      BY <1>3, <2>3, <3>1 DEF viewControllerAfter, Make
  <2> QED
    BY <2>2, <2>3
<1>4. CASE SwipeBack
  BY <1>4 DEF SwipeBack
<1>5. CASE SwipeForward
  BY <1>5 DEF SwipeForward
<1>6. CASE Close
  BY <1>6 DEF Close
<1>7. ASSUME NEW n \in 0 .. MaxLen, ContainerChanges(n) PROVE PagerInv'
  BY <1>7 DEF ContainerChanges
<1>8. CASE UNCHANGED vars
  BY <1>8 DEF vars
<1> QED
  BY <1>1, <1>2, <1>3, <1>4, <1>5, <1>6, <1>7, <1>8 DEF Next

\* The star pager, and the pager of the main list as long as no dream is
\* removed below it, never leave their lists: for lists of any length, any
\* order of UIKit's requests and any number of changes of the container.
THEOREM PagerCorrect == Consistent => (Spec => []PagesInRange)
<1> SUFFICES ASSUME Consistent PROVE Spec => []PagesInRange
  OBVIOUS
<1>1. PagerInv /\ [Next]_vars => PagerInv'
  BY PagerNext
<1>2. PagerInv => PagesInRange
  BY DEF PagerInv
<1> QED
  BY <1>1, <1>2, PagerInit, PTL DEF Spec

-----------------------------------------------------------------------------
\* An open pager, of whatever kind, has room for one step of its index.
BoundInv == TypeOK /\ (state = "pages" => currentIndex + 1 \in 1 .. MaxLen)

\* The index, the pages and UIKit's answers keep their bounds in all three
\* pagers, the one that runs past its list included: it traps at the first
\* index out of range.
THEOREM PagerTypes == Spec => []TypeOK
<1> USE LengthAssumption, NeighbourAssumption
<1>1. Init => BoundInv
  BY DEF Init, BoundInv, TypeOK, Neighbour
<1>2. ASSUME BoundInv, [Next]_vars PROVE BoundInv'
  <2> USE <1>2 DEF BoundInv, TypeOK, Neighbour
  <2>1. ASSUME NEW count \in 1 .. total, NEW row \in 0 .. MaxLen, Open(row, count)
        PROVE  BoundInv'
    BY <2>1 DEF Open
  <2>2. ListCount \in 0 .. MaxLen
    BY DEF ListCount
  <2>3. CASE viewControllerBefore
    BY <2>2, <2>3 DEF viewControllerBefore, Make
  <2>4. CASE viewControllerAfter
    BY <2>2, <2>4 DEF viewControllerAfter, Make
  <2>5. CASE SwipeBack
    BY <2>5 DEF SwipeBack
  <2>6. CASE SwipeForward
    BY <2>6 DEF SwipeForward
  <2>7. CASE Close
    BY <2>7 DEF Close
  <2>8. ASSUME NEW n \in 0 .. MaxLen, ContainerChanges(n) PROVE BoundInv'
    BY <2>8 DEF ContainerChanges
  <2>9. CASE UNCHANGED vars
    BY <2>9 DEF vars
  <2> QED
    BY <2>1, <2>3, <2>4, <2>5, <2>6, <2>7, <2>8, <2>9 DEF Next
<1>3. BoundInv /\ [Next]_vars => BoundInv'
  BY <1>2
<1>4. BoundInv => TypeOK
  BY DEF BoundInv
<1> QED
  BY <1>1, <1>3, <1>4, PTL DEF Spec
=============================================================================
