---------------------------- MODULE DetailPager -----------------------------
(***************************************************************************)
(* DetailPVC, SearchDetailPVC and StarStorageDetailPVC: the index each     *)
(* moves when UIPageViewController asks it for a neighbour of a page.      *)
(*                                                                         *)
(* The three differ in the list their pages come from and in the count     *)
(* they compare the index with.  Lists are abstracted to their lengths and *)
(* pages to the index they were made for (counted from 0).                 *)
(***************************************************************************)
EXTENDS Integers

CONSTANTS
    Pager,       \* "detail", "search" or "star"
    MaxLen,      \* bound: dreams in the container
    MaxChanges,  \* bound: observers' callbacks while the model runs
    Unasked,     \* UIKit has not asked for a neighbour
    NoPage,      \* nil: there is none
    MayShrink    \* whether a callback may leave fewer dreams than before

ASSUME PagerAssumption == Pager \in {"detail", "search", "star"}
ASSUME LengthAssumption == MaxLen \in Nat /\ MaxChanges \in Nat
ASSUME NeighbourAssumption == Unasked \notin Int /\ NoPage \notin Int /\ Unasked # NoPage
ASSUME ShrinkAssumption == MayShrink \in BOOLEAN

VARIABLES
    total,         \* dreamContainers.count
    own,           \* count of filterdDream or starStorageDreams of the pager
    state,         \* "list", "pages" or "crashed"
    currentIndex,  \* of the pager
    shown,         \* index of the page in front
    before,        \* UIKit's answer for the page before it, if it asked
    after,         \* and for the page after it
    changes

vars == <<total, own, state, currentIndex, shown, before, after, changes>>

Neighbour == 0 .. MaxLen \cup {Unasked, NoPage}

\* The length of the list the pages are made from, and the count the pager
\* takes for the end of it.
ListCount == IF Pager = "detail" THEN total ELSE own

\* Mutant: one past the end.
EndCountPast == (IF Pager = "star" THEN own ELSE total) + 1

EndCount == IF Pager = "star" THEN own ELSE total

Init ==
    /\ total \in 0 .. MaxLen
    /\ own = 0
    /\ state = "list"
    /\ currentIndex = 0
    /\ shown = 0
    /\ before = Unasked
    /\ after = Unasked
    /\ changes = 0

\* A row of the list is tapped (prepare(for:sender:)); a search or star list
\* holds some of the container's dreams.  viewDidLoad makes the first page.
Open(row, count) ==
    /\ state = "list"
    /\ own' = IF Pager = "detail" THEN 0 ELSE count
    /\ row < IF Pager = "detail" THEN total ELSE count
    /\ state' = "pages"
    /\ currentIndex' = row
    /\ shown' = row
    /\ before' = Unasked
    /\ after' = Unasked
    /\ UNCHANGED <<total, changes>>

\* viewControllerAtIndex subscripts the list with the new index.
Make(i) ==
    /\ currentIndex' = i
    /\ state' = IF i \in 0 .. ListCount - 1 THEN "pages" ELSE "crashed"

\* Mutant: the first page has one before it.
viewControllerBeforeFirst ==
    /\ state = "pages"
    /\ before = Unasked
    /\ before' = currentIndex
    /\ Make(currentIndex - 1)
    /\ UNCHANGED <<total, own, shown, after, changes>>

\* UIKit asks for the page before the one in front, once.
viewControllerBefore ==
    /\ state = "pages"
    /\ before = Unasked
    /\ IF currentIndex = 0
       THEN /\ before' = NoPage
            /\ UNCHANGED <<currentIndex, state>>
       ELSE /\ before' = currentIndex - 1
            /\ Make(currentIndex - 1)
    /\ UNCHANGED <<total, own, shown, after, changes>>

viewControllerAfter ==
    /\ state = "pages"
    /\ after = Unasked
    /\ IF currentIndex = EndCount - 1
       THEN /\ after' = NoPage
            /\ UNCHANGED <<currentIndex, state>>
       ELSE /\ after' = currentIndex + 1
            /\ Make(currentIndex + 1)
    /\ UNCHANGED <<total, own, shown, before, changes>>

\* The user swipes to a neighbour UIKit has; the page left is kept as the
\* other neighbour.
SwipeBack ==
    /\ state = "pages"
    /\ before \notin {Unasked, NoPage}
    /\ shown' = before
    /\ after' = shown
    /\ before' = Unasked
    /\ UNCHANGED <<total, own, state, currentIndex, changes>>

SwipeForward ==
    /\ state = "pages"
    /\ after \notin {Unasked, NoPage}
    /\ shown' = after
    /\ before' = shown
    /\ after' = Unasked
    /\ UNCHANGED <<total, own, state, currentIndex, changes>>

\* Close, or a confirmed deletion of the page's dream: the pager is dismissed.
Close ==
    /\ state = "pages"
    /\ state' = "list"
    /\ UNCHANGED <<total, own, currentIndex, shown, before, after, changes>>

\* An observer's callback replaces the container, under an open pager too.
ContainerChanges(n) ==
    /\ state # "crashed"
    /\ changes < MaxChanges
    /\ n < total => MayShrink \/ state = "list"
    /\ total' = n
    /\ changes' = changes + 1
    /\ UNCHANGED <<own, state, currentIndex, shown, before, after>>

Next ==
    \/ \E count \in 1 .. total, row \in 0 .. MaxLen : Open(row, count)
    \/ viewControllerBefore
    \/ viewControllerAfter
    \/ SwipeBack
    \/ SwipeForward
    \/ Close
    \/ \E n \in 0 .. MaxLen : ContainerChanges(n)

Spec == Init /\ [][Next]_vars

-----------------------------------------------------------------------------
(* Properties. *)

TypeOK ==
    /\ total \in 0 .. MaxLen
    /\ own \in 0 .. MaxLen
    /\ state \in {"list", "pages", "crashed"}
    /\ currentIndex \in 0 .. MaxLen
    /\ shown \in 0 .. MaxLen
    /\ before \in Neighbour
    /\ after \in Neighbour
    /\ changes \in 0 .. MaxChanges

\* viewControllerAtIndex never subscripts its list out of range, however
\* often and in whichever order UIKit asks for neighbours and the user swipes
\* back and forth between pages it kept.
NoIndexTrap == state # "crashed"

\* More than that: the index and every page UIKit holds are of entries the
\* list has, while the container changes below the pager.
PagesInRange ==
    /\ NoIndexTrap
    /\ state = "pages" =>
         {currentIndex, shown, before, after} \subseteq
            0 .. ListCount - 1 \cup {Unasked, NoPage}
=============================================================================
