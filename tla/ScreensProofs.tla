--------------------------- MODULE ScreensProofs ----------------------------
(***************************************************************************)
(* Proofs about Screens: whenever nothing is under way the lists on the    *)
(* screens are those of the diary, and deleteRows fits, for any number of  *)
(* dates, dreams, searches and changes made by other devices.              *)
(***************************************************************************)
EXTENDS Screens, DreamsProofs

-----------------------------------------------------------------------------
(* The inductive invariant. *)

\* The observer of MainVC, and the one of the last SearchVC's viewDidLoad.
Main == Observer("main", 0)
Mine == Observer("search", searches)

Observers == {Main} \cup [who : {"search", "refresh"}, id : Nat]

Blocks ==
    [do : {"fetch"}, for : Observers]
    \cup [do : {"event"}, for : Observers, node : Node]
    \cup [do : {"remove"}, dream : Dream, row : Nat]
    \cup {RemoveAllBlock}

Calls ==
    [op : {"observe"}, for : Observers]
    \cup [op : {"set"}, key : Keys, dream : Dream]
    \cup {RemoveCall}

Alerts ==
    [asks : {"replace"}, dream : Dream]
    \cup [asks : {"delete"}, dream : Dream, row : Nat]
    \cup {NoAlert, [asks |-> "deleteAll"]}

ListTypes ==
    /\ container \in Seq(Dream) /\ Len(container) <= MaxKey + 1
    /\ rows \in 0 .. MaxKey + 1
    /\ filterd \in Seq(Dream)

FrontTypes ==
    /\ page \in Dream \cup {NoDream} /\ alert \in Alerts
    /\ screen \in {"main", "search", "star"}

QueueTypes == mainQ \in Seq(Blocks) /\ sharedQ \in Seq(Calls)

SdkTypes == registered \in Seq(Observers) /\ shown \in Node \cup {Unknown}

HistTypes == searches \in Nat /\ ended \in {"no", "cast", "rows"}

\* Only MainVC's fetch is under way until the diary is loaded.
Loaded == shown # Unknown

Started ==
    ~Loaded =>
        /\ container = <<>> /\ rows = 0 /\ alert = NoAlert /\ screen = "main"
        /\ \A i \in DOMAIN mainQ : mainQ[i] = FetchBlock(Main)
        /\ \A i \in DOMAIN sharedQ : sharedQ[i] = ObserveCall(Main)
        /\ \A i \in DOMAIN registered : registered[i] = Main

Types == ListTypes /\ FrontTypes /\ QueueTypes /\ SdkTypes /\ HistTypes /\ Started

\* MainVC observes the diary once it is loaded.
MainObserves == Loaded => Main \in Range(registered)

\* The events in q for observers in W, and whether the last one is for n.
EventsFor(q, W) == {i \in DOMAIN q : q[i].do = "event" /\ q[i].for \in W}

LastIs(q, W, n) ==
    \E i \in EventsFor(q, W) : q[i].node = n /\ \A j \in EventsFor(q, W) : j <= i

\* The snapshot after a call, and whether some call in q will change it: the
\* first that does is an event for everybody.
Applied(n, c) ==
    [k \in Keys |-> IF c.op = "remove" THEN None
                    ELSE IF c.key = k THEN c.dream
                    ELSE n[k]]

Correcting(q, n) == \E i \in DOMAIN q : q[i].op # "observe" /\ Applied(n, q[i]) # n

\* A new observer in W is on its way: it gets an event of its own.
Fetching(q, calls, W) ==
    \/ \E i \in DOMAIN q : q[i].do = "fetch" /\ q[i].for \in W
    \/ \E i \in DOMAIN calls : calls[i].op = "observe" /\ calls[i].for \in W

\* MainVC's table, the container and the list of the SearchVC in front show
\* what the SDK does, or an event that will make them is on its way.
RowsFollow ==
    \/ LastIs(mainQ, {Main}, shown)
    \/ Correcting(sharedQ, shown)
    \/ /\ EventsFor(mainQ, {Main}) = {}
       /\ CastSucceeds(shown) /\ rows = Len(AsArray(shown))

ContainerFollows ==
    \/ LastIs(mainQ, Observers, shown)
    \/ Correcting(sharedQ, shown)
    \/ Fetching(mainQ, sharedQ, Observers)
    \/ /\ EventsFor(mainQ, Observers) = {}
       /\ CastSucceeds(shown) /\ container \in Containers(shown)

ListFollows ==
    \/ Fetching(mainQ, sharedQ, {Mine})
    \/ /\ Mine \in Range(registered)
       /\ \/ LastIs(mainQ, {Mine}, shown)
          \/ /\ EventsFor(mainQ, {Mine}) = {}
             /\ Range(filterd) \subseteq Range(AsArray(shown))

Follow ==
    ended = "no" /\ Loaded =>
        RowsFollow /\ ContainerFollows /\ (screen = "search" => ListFollows)

\* One user on one device, no date saved twice: an alert or a removal is all
\* that is under way, the row it names is the dream it names, and the
\* dreams stored and those about to be have different dates.
RowsNamed ==
    /\ alert # NoAlert => Idle
    /\ alert.asks = "delete" /\ alert.row # NoRow =>
          alert.row \in DOMAIN container /\ container[alert.row] = alert.dream
    /\ \A i \in DOMAIN mainQ : mainQ[i].do \in {"remove", "removeAll"} =>
          Len(mainQ) = 1 /\ sharedQ = <<>>
    /\ \A i \in DOMAIN mainQ : mainQ[i].do = "remove" /\ mainQ[i].row # NoRow =>
          mainQ[i].row \in DOMAIN container /\ container[mainQ[i].row] = mainQ[i].dream

DatesApart(n, q) ==
    /\ ~DateTwice(n)
    /\ \A i \in DOMAIN q : q[i].op = "remove" => i = 1
    /\ \A i, j \in DOMAIN q :
          i # j /\ q[i].op = "set" /\ q[j].op = "set" =>
             q[i].dream.writedDate # q[j].dream.writedDate
    /\ (\A i \in DOMAIN q : q[i].op # "remove") =>
          \A i \in DOMAIN q, k \in Present(n) :
             q[i].op = "set" => q[i].dream.writedDate # n[k].writedDate

DatesDiffer == DatesApart(shown, sharedQ)

Calm ==
    ended = "no" /\ Loaded /\ ~others /\ ~replaced => RowsNamed /\ DatesDiffer

ScreensInv == Types /\ MainObserves /\ Follow /\ Calm /\ NoRowTrap

-----------------------------------------------------------------------------
(* Types. *)

\* Blocks, calls and alerts by what they do.
LEMMA BlockFacts ==
    ASSUME NEW b \in Blocks
    PROVE  /\ b.do = "fetch" => b.for \in Observers
           /\ b.do = "event" => b.for \in Observers /\ b.node \in Node
           /\ b.do = "remove" => b.dream \in Dream /\ b.row \in Nat
BY DEF Blocks, RemoveAllBlock

\* The same for the calls of the SDK.
LEMMA CallFacts ==
    ASSUME NEW c \in Calls
    PROVE  /\ c.op = "observe" => c.for \in Observers
           /\ c.op = "set" => c.key \in Keys /\ c.dream \in Dream
           /\ c.op \in {"observe", "set", "remove"}
BY DEF Calls, RemoveCall

\* And for the alert in front.
LEMMA AlertFacts ==
    ASSUME alert \in Alerts
    PROVE  /\ alert.asks = "replace" => alert.dream \in Dream
           /\ alert.asks = "delete" => alert.dream \in Dream /\ alert.row \in Nat
           /\ alert = NoAlert <=> alert.asks = "nothing"
BY DEF Alerts, NoAlert

\* What the handlers build has the types of the queues.
LEMMA Built ==
    /\ \A o \in Observers : FetchBlock(o) \in Blocks /\ ObserveCall(o) \in Calls
    /\ \A o \in Observers, n \in Node : EventBlock(o, n) \in Blocks
    /\ \A x \in Dream, row \in Nat : RemoveBlock(x, row) \in Blocks
    /\ RemoveAllBlock \in Blocks /\ RemoveCall \in Calls
    /\ \A k \in Keys, x \in Dream : SetCall(k, x) \in Calls
    /\ Main \in Observers
    /\ \A id \in Nat : Observer("search", id) \in Observers /\ Observer("refresh", id) \in Observers
BY DEF FetchBlock, EventBlock, RemoveBlock, RemoveAllBlock, ObserveCall, RemoveCall, SetCall,
       Blocks, Calls, Observers, Observer, Main

\* The events of a new snapshot.
Raised(R, n) == [i \in DOMAIN R |-> EventBlock(R[i], n)]

\* One event per observer, in the order of registration.
LEMMA RaisedType ==
    ASSUME NEW R \in Seq(Observers), NEW n \in Node
    PROVE  /\ Raised(R, n) \in Seq(Blocks) /\ Len(Raised(R, n)) = Len(R)
           /\ \A i \in 1 .. Len(R) : Raised(R, n)[i] = EventBlock(R[i], n)
<1>1. DOMAIN R = 1 .. Len(R) /\ Len(R) \in Nat /\ \A i \in 1 .. Len(R) : R[i] \in Observers
  OBVIOUS
<1>2. \A i \in 1 .. Len(R) : EventBlock(R[i], n) \in Blocks
  BY <1>1, Built
<1>3. Raised(R, n) = [i \in 1 .. Len(R) |-> EventBlock(R[i], n)]
  BY <1>1 DEF Raised
<1> QED
  BY <1>1, <1>2, <1>3

\* A call makes a node of a node.
LEMMA AppliedType ==
    ASSUME NEW n \in Node, NEW c \in Calls, c.op # "observe"
    PROVE  Applied(n, c) \in Node
<1>1. c.op = "set" => c.dream \in Dream
  BY CallFacts
<1>2. c.op = "set" \/ c.op = "remove"
  BY CallFacts
<1> QED
  BY <1>1, <1>2 DEF Applied, Node

\* updateAction: a removal and a set for each dream.
LEMMA UpdateActionIs ==
    ASSUME NEW s \in Seq(Dream), Len(s) <= MaxKey + 1
    PROVE  /\ updateAction(s) \in Seq(Calls) /\ Len(updateAction(s)) = Len(s) + 1
           /\ updateAction(s)[1] = RemoveCall
           /\ \A i \in 2 .. Len(s) + 1 : updateAction(s)[i] = SetCall(i - 2, s[i - 1])
<1> DEFINE sets == [i \in 1 .. Len(s) |-> SetCall(i - 1, s[i])]
<1>1. Len(s) \in Nat /\ \A i \in 1 .. Len(s) : s[i] \in Dream
  OBVIOUS
<1>2. \A i \in 1 .. Len(s) : SetCall(i - 1, s[i]) \in Calls
  BY <1>1, Built, MaxKeyAssumption DEF Keys
<1>3. sets \in Seq(Calls) /\ Len(sets) = Len(s) /\ \A i \in 1 .. Len(s) : sets[i] = SetCall(i - 1, s[i])
  BY <1>1, <1>2
<1>4. <<RemoveCall>> \in Seq(Calls) /\ Len(<<RemoveCall>>) = 1 /\ <<RemoveCall>>[1] = RemoveCall
  BY Built
<1>5. updateAction(s) = <<RemoveCall>> \o sets
  BY DEF updateAction
<1> HIDE DEF sets
<1>6. updateAction(s) \in Seq(Calls) /\ Len(updateAction(s)) = Len(s) + 1
      /\ updateAction(s)[1] = RemoveCall
      /\ \A i \in 2 .. Len(s) + 1 : updateAction(s)[i] = sets[i - 1]
  BY <1>1, <1>3, <1>4, <1>5
<1>7. ASSUME NEW i \in 2 .. Len(s) + 1 PROVE updateAction(s)[i] = SetCall(i - 2, s[i - 1])
  <2>1. i - 1 \in 1 .. Len(s) /\ (i - 1) - 1 = i - 2
    BY <1>1
  <2> QED
    BY <2>1, <1>3, <1>6
<1> QED
  BY <1>6, <1>7

\* MainVC.viewDidLoad has queued its fetch.
LEMMA TypesInit == Init => Types
<1> SUFFICES ASSUME Init PROVE Types
  OBVIOUS
<1>1. FetchBlock(Main) \in Blocks
  BY Built
<1>2. mainQ = <<FetchBlock(Main)>> /\ mainQ \in Seq(Blocks)
  BY <1>1 DEF Init, Main
<1> QED
  BY <1>2, MaxKeyAssumption DEF Init, Types, ListTypes, FrontTypes, QueueTypes, SdkTypes, HistTypes,
     Started, Loaded, Alerts

\* A tap comes after the diary was loaded, when nothing is under way.
LEMMA ReadyFacts ==
    ASSUME Types, Ready
    PROVE  Loaded /\ shown \in Node /\ mainQ = <<>> /\ sharedQ = <<>> /\ ended = "no"
BY DEF Types, SdkTypes, Ready, Idle, Loaded

\* The types after a tap, from those of what it changes.
LEMMA TypesTap ==
    ASSUME Types, Ready, ListTypes', FrontTypes', QueueTypes',
           UNCHANGED <<sdkVars, ended>>, searches' \in Nat
    PROVE  Types'
BY ReadyFacts DEF Types, SdkTypes, HistTypes, Started, Loaded, sdkVars

\* Saving.
LEMMA TypesSave ==
    ASSUME Types, \/ \E x \in Dream : DateCheckAndSave(x)
                  \/ ConfirmReplace
    PROVE  Types'
<1>1. Ready /\ Len(container) <= MaxKey
  BY DEF DateCheckAndSave, ConfirmReplace, Tap, Answer
<1>2. ListTypes /\ FrontTypes /\ QueueTypes /\ HistTypes
  BY DEF Types
<1>3. \A x \in Dream : saveAction(x) \in Calls
  <2>1. Len(container) \in Keys
    BY <1>1, <1>2 DEF ListTypes, Keys
  <2> QED
    BY <2>1, Built DEF saveAction
<1>4. CASE \E x \in Dream : DateCheckAndSave(x)
  <2>1. PICK x \in Dream : DateCheckAndSave(x)
    BY <1>4
  <2>2. UNCHANGED <<listVars, screen, page, mainQ, sdkVars, ended, histVars>>
    BY <2>1 DEF DateCheckAndSave
  <2>3. alert' = alert \/ alert' = [asks |-> "replace", dream |-> x]
    BY <2>1 DEF DateCheckAndSave
  <2>4. sharedQ' = sharedQ \/ sharedQ' = Append(sharedQ, saveAction(x))
    BY <2>1 DEF DateCheckAndSave
  <2>5. alert' \in Alerts
    BY <2>3, <1>2 DEF Alerts, FrontTypes
  <2>6. sharedQ' \in Seq(Calls)
    BY <2>4, <1>2, <1>3 DEF QueueTypes
  <2> QED
    BY <1>1, <1>2, <2>2, <2>5, <2>6, TypesTap
       DEF ListTypes, FrontTypes, QueueTypes, HistTypes, listVars, histVars
<1>5. CASE ConfirmReplace
  <2>1. alert.dream \in Dream
    BY <1>2, <1>5, AlertFacts DEF FrontTypes, ConfirmReplace, Answer
  <2>2. /\ UNCHANGED <<listVars, screen, page, mainQ, sdkVars, ended, searches>>
        /\ alert' = NoAlert /\ sharedQ' = Append(sharedQ, saveAction(alert.dream))
    BY <1>5 DEF ConfirmReplace, Answer
  <2>3. alert' \in Alerts
    BY <2>2 DEF Alerts
  <2>4. sharedQ' \in Seq(Calls)
    BY <2>1, <2>2, <1>2, <1>3 DEF QueueTypes
  <2> QED
    BY <1>1, <1>2, <2>2, <2>3, <2>4, TypesTap
       DEF ListTypes, FrontTypes, QueueTypes, HistTypes, listVars
<1> QED
  BY <1>4, <1>5

\* Alerts, pages and the way to and from the star storage.
LEMMA TypesFront ==
    ASSUME Types, \/ \E row \in 1 .. MaxKey + 1 : SwipeRow(row) \/ OpenPage(row)
                  \/ allDeleteBtn \/ ClosePage \/ selectedDeleteBtnAction
                  \/ ConfirmDelete \/ ConfirmDeleteAll \/ CancelAlert
    PROVE  Types'
<1>1. Ready
  BY DEF SwipeRow, OpenPage, allDeleteBtn, ClosePage, selectedDeleteBtnAction,
         ConfirmDelete, ConfirmDeleteAll, CancelAlert, Tap, Answer
<1>2. ListTypes /\ FrontTypes /\ QueueTypes /\ HistTypes
  BY DEF Types
<1>3. UNCHANGED <<listVars, sdkVars, ended, histVars, sharedQ, screen>>
  BY DEF SwipeRow, OpenPage, allDeleteBtn, ClosePage, selectedDeleteBtnAction,
         ConfirmDelete, ConfirmDeleteAll, CancelAlert
<1>4. alert' \in Alerts
  <2>1. CASE \E row \in 1 .. MaxKey + 1 : SwipeRow(row)
    <3>1. PICK row \in 1 .. MaxKey + 1 : SwipeRow(row)
      BY <2>1
    <3>2. container[row] \in Dream /\ row \in Nat
      BY <3>1, <1>2, MaxKeyAssumption DEF SwipeRow, ListTypes
    <3>3. alert' = [asks |-> "delete", dream |-> container[row], row |-> row]
      BY <3>1 DEF SwipeRow
    <3> QED
      BY <3>2, <3>3 DEF Alerts
  <2>2. CASE selectedDeleteBtnAction
    BY <2>2, <1>2 DEF selectedDeleteBtnAction, FrontTypes, Alerts, NoRow
  <2>3. CASE \/ allDeleteBtn \/ ConfirmDelete \/ ConfirmDeleteAll \/ CancelAlert
             \/ ClosePage \/ \E row \in 1 .. MaxKey + 1 : OpenPage(row)
    BY <2>3, <1>2 DEF allDeleteBtn, ConfirmDelete, ConfirmDeleteAll, CancelAlert, ClosePage, OpenPage,
       Answer, Alerts, FrontTypes
  <2> QED
    BY <2>1, <2>2, <2>3
<1>5. page' \in Dream \cup {NoDream}
  <2>1. CASE \E row \in 1 .. MaxKey + 1 : OpenPage(row)
    <3>1. PICK row \in 1 .. MaxKey + 1 : OpenPage(row)
      BY <2>1
    <3>2. List \in Seq(Dream)
      BY <1>2 DEF List, ListTypes
    <3> QED
      BY <3>1, <3>2 DEF OpenPage
  <2>2. CASE ~\E row \in 1 .. MaxKey + 1 : OpenPage(row)
    BY <2>2, <1>2 DEF SwipeRow, allDeleteBtn, ClosePage, selectedDeleteBtnAction,
         ConfirmDelete, ConfirmDeleteAll, CancelAlert, FrontTypes
  <2> QED
    BY <2>1, <2>2
<1>6. mainQ' \in Seq(Blocks)
  <2>1. CASE ConfirmDelete
    <3>1. alert.dream \in Dream /\ alert.row \in Nat
      BY <2>1, <1>2, AlertFacts DEF ConfirmDelete, Answer, FrontTypes
    <3>2. RemoveBlock(alert.dream, alert.row) \in Blocks
      BY <3>1, Built
    <3> QED
      BY <3>2, <2>1, <1>2 DEF ConfirmDelete, QueueTypes
  <2>2. CASE ConfirmDeleteAll
    BY <2>2, <1>2, Built DEF ConfirmDeleteAll, QueueTypes
  <2>3. CASE mainQ' = mainQ
    BY <2>3, <1>2 DEF QueueTypes
  <2> QED
    BY <2>1, <2>2, <2>3 DEF SwipeRow, OpenPage, allDeleteBtn, ClosePage, selectedDeleteBtnAction,
       CancelAlert
<1> QED
  BY <1>1, <1>2, <1>3, <1>4, <1>5, <1>6, TypesTap
     DEF ListTypes, FrontTypes, QueueTypes, HistTypes, listVars, histVars

\* The search screen and the star storage.
LEMMA TypesLists ==
    ASSUME Types, \/ OpenSearch \/ Refresh \/ OpenStars \/ moveToMainBtnAction
                  \/ \E M \in Matches : textDidChange(M)
    PROVE  Types'
<1>1. Ready
  BY DEF OpenSearch, Refresh, OpenStars, moveToMainBtnAction, textDidChange, Tap
<1>2. ListTypes /\ FrontTypes /\ QueueTypes /\ HistTypes
  BY DEF Types
<1>3. UNCHANGED <<rows, page, alert, sdkVars, ended, sharedQ>>
  BY DEF OpenSearch, Refresh, OpenStars, moveToMainBtnAction, textDidChange, frontVars
<1>4. screen' \in {"main", "search", "star"}
  BY <1>2 DEF OpenSearch, Refresh, OpenStars, moveToMainBtnAction, textDidChange, frontVars, FrontTypes
<1>5. searches' \in Nat
  BY <1>2 DEF OpenSearch, Refresh, OpenStars, moveToMainBtnAction, textDidChange, histVars, HistTypes
<1>6. mainQ' \in Seq(Blocks)
  <2>1. FetchBlock(Observer("search", searches + 1)) \in Blocks
        /\ FetchBlock(Observer("refresh", searches)) \in Blocks
    <3>1. searches \in Nat /\ searches + 1 \in Nat
      BY <1>2 DEF HistTypes
    <3> QED
      BY <3>1, Built
  <2> QED
    BY <2>1, <1>2 DEF OpenSearch, Refresh, OpenStars, moveToMainBtnAction, textDidChange, QueueTypes
<1>7. container' \in Seq(Dream) /\ Len(container') <= MaxKey + 1
  <2>1. <<>> \in Seq(Dream) /\ Len(<<>>) <= MaxKey + 1
    BY MaxKeyAssumption
  <2> QED
    BY <2>1, <1>2 DEF OpenSearch, Refresh, OpenStars, moveToMainBtnAction, textDidChange, ListTypes
<1>8. filterd' \in Seq(Dream)
  <2>1. CASE OpenSearch \/ Refresh \/ moveToMainBtnAction
    <3>1. filterd' = container \/ filterd' = filterd \/ filterd' = <<>>
      BY <2>1 DEF OpenSearch, Refresh, moveToMainBtnAction
    <3>2. <<>> \in Seq(Dream) /\ container \in Seq(Dream) /\ filterd \in Seq(Dream)
      BY <1>2 DEF ListTypes
    <3> QED
      BY <3>1, <3>2, Zenon
  <2>2. CASE OpenStars
    <3> DEFINE I == {i \in DOMAIN container : container[i].body \in Starred}
    <3>1. filterd' \in Subarrays(container, I) /\ I \in SUBSET DOMAIN container
      BY <2>2 DEF OpenStars
    <3> HIDE DEF I
    <3> QED
      BY <3>1, <1>2, SubarrayIs DEF ListTypes
  <2>3. CASE \E M \in Matches : textDidChange(M)
    <3>1. PICK M \in Matches : textDidChange(M)
      BY <2>3
    <3>2. PICK s \in searchDream(M) : filterd' \in {s} \cup ascendingOrder(s) \cup descendingOrder(s)
      BY <3>1 DEF textDidChange
    <3> DEFINE I == {i \in DOMAIN container : container[i] \in M}
    <3>3. s \in Subarrays(container, I) /\ I \in SUBSET DOMAIN container
      BY <3>2 DEF searchDream
    <3> HIDE DEF I
    <3>4. s \in Seq(Dream)
      BY <3>3, <1>2, SubarrayIs DEF ListTypes
    <3>5. filterd' = s \/ filterd' \in Reorderings(s)
      BY <3>2 DEF ascendingOrder, descendingOrder
    <3> QED
      BY <3>4, <3>5, ReorderingType
  <2> QED
    BY <2>1, <2>2, <2>3
<1> QED
  BY <1>1, <1>2, <1>3, <1>4, <1>5, <1>6, <1>7, <1>8, TypesTap
     DEF ListTypes, FrontTypes, QueueTypes

\* The next block of the main queue.
LEMMA BlockIs ==
    ASSUME Types, NEW kind, Block(kind)
    PROVE  /\ mainQ # <<>> /\ Head(mainQ) = mainQ[1] /\ mainQ[1] \in Blocks /\ mainQ[1].do = kind
           /\ mainQ' = Tail(mainQ) /\ mainQ' \in Seq(Blocks)
           /\ Len(mainQ') = Len(mainQ) - 1 /\ Len(mainQ) \in Nat /\ Len(mainQ) > 0
           /\ \A i \in 1 .. Len(mainQ) - 1 : mainQ'[i] = mainQ[i + 1]
           /\ ended = "no"
<1>1. mainQ \in Seq(Blocks) /\ mainQ # <<>> /\ mainQ' = Tail(mainQ) /\ Head(mainQ).do = kind /\ ended = "no"
  BY DEF Block, Types, QueueTypes
<1>2. Head(mainQ) = mainQ[1] /\ Len(mainQ) \in Nat /\ Len(mainQ) > 0
  BY <1>1
<1>3. mainQ[1] \in Blocks
  BY <1>1, <1>2
<1> QED
  BY <1>1, <1>2, <1>3

\* Anything but a fetch comes after the diary was loaded.
LEMMA BlockLoaded ==
    ASSUME Types, NEW kind, Block(kind), kind # "fetch"
    PROVE  Loaded /\ shown \in Node
<1>1. mainQ[1].do = kind /\ 1 \in DOMAIN mainQ
  BY BlockIs DEF Types, QueueTypes
<1>2. FetchBlock(Main).do = "fetch"
  BY DEF FetchBlock
<1> QED
  BY <1>1, <1>2 DEF Types, Started, SdkTypes, Loaded

\* The blocks of the main queue keep the types.
LEMMA TypesMain ==
    ASSUME Types, MainStep
    PROVE  Types'
<1>1. ListTypes /\ FrontTypes /\ QueueTypes /\ HistTypes /\ SdkTypes /\ Started
  BY DEF Types
<1>2. CASE RunFetch
  <2>1. Block("fetch") /\ UNCHANGED <<listVars, frontVars, sdkVars, ended, histVars, used>>
        /\ sharedQ' = Append(sharedQ, ObserveCall(Head(mainQ).for))
    BY <1>2 DEF RunFetch
  <2>2. mainQ[1].for \in Observers /\ Head(mainQ) = mainQ[1] /\ 1 \in DOMAIN mainQ
    BY <2>1, BlockIs, BlockFacts DEF Types, QueueTypes
  <2>3. ObserveCall(mainQ[1].for) \in Calls
    BY <2>2, Built
  <2>4. QueueTypes'
    BY <2>1, <2>2, <2>3, <1>1, BlockIs DEF QueueTypes
  <2>5. Started'
    <3> SUFFICES ASSUME ~Loaded PROVE Started'
      BY <2>1 DEF Started, Loaded, sdkVars
    <3>1. mainQ[1] = FetchBlock(Main)
      BY <1>1, <2>2 DEF Started
    <3>2. mainQ[1].for = Main
      BY <3>1 DEF FetchBlock
    <3>3. \A i \in DOMAIN mainQ' : mainQ'[i] = FetchBlock(Main)
      <4>1. mainQ \in Seq(Blocks) /\ mainQ' \in Seq(Blocks) /\ Len(mainQ') = Len(mainQ) - 1
            /\ \A i \in 1 .. Len(mainQ) - 1 : mainQ'[i] = mainQ[i + 1]
        BY <2>1, <1>1, BlockIs DEF QueueTypes
      <4>2. \A i \in 1 .. Len(mainQ) : mainQ[i] = FetchBlock(Main)
        BY <4>1, <1>1 DEF Started
      <4> QED
        BY <4>1, <4>2
    <3>4. \A i \in DOMAIN sharedQ' : sharedQ'[i] = ObserveCall(Main)
      BY <1>1, <2>1, <2>2, <3>2 DEF Started, QueueTypes
    <3> QED
      BY <1>1, <2>1, <3>3, <3>4 DEF Started, Loaded, sdkVars, listVars, frontVars
  <2> QED
    BY <1>1, <2>1, <2>4, <2>5
       DEF Types, ListTypes, FrontTypes, SdkTypes, HistTypes, listVars, frontVars, sdkVars, histVars
<1>3. CASE RunEvent
  <2>1. Block("event") /\ CastSucceeds(Head(mainQ).node) /\ container' \in Containers(Head(mainQ).node)
        /\ loadingIsFinished(Head(mainQ).for, container')
        /\ UNCHANGED <<frontVars, sharedQ, sdkVars, ended, histVars, used>>
    BY <1>3 DEF RunEvent
  <2>2. mainQ[1].node \in Node /\ Head(mainQ) = mainQ[1] /\ mainQ' \in Seq(Blocks)
    BY <2>1, BlockIs, BlockFacts
  <2>3. container' \in Seq(Dream) /\ Len(container') <= MaxKey + 1
    BY <2>1, <2>2, ContainersType
  <2>4. rows' \in 0 .. MaxKey + 1 /\ filterd' \in Seq(Dream)
    <3>1. Len(container') \in Nat
      BY <2>3
    <3> QED
      BY <3>1, <2>1, <2>3, <1>1, MaxKeyAssumption DEF loadingIsFinished, ListTypes
  <2>5. Loaded
    BY <2>1, BlockLoaded
  <2> QED
    BY <1>1, <2>1, <2>2, <2>3, <2>4, <2>5
       DEF Types, Started, Loaded, ListTypes, FrontTypes, QueueTypes, SdkTypes, HistTypes,
           frontVars, sdkVars, histVars
<1>4. CASE RunTrap
  <2>1. Block("event") /\ ended' = "cast"
        /\ UNCHANGED <<listVars, frontVars, sharedQ, sdkVars, histVars, used>>
    BY <1>4 DEF RunTrap
  <2>2. mainQ' \in Seq(Blocks) /\ Loaded
    BY <2>1, BlockIs, BlockLoaded
  <2> QED
    BY <1>1, <2>1, <2>2
       DEF Types, Started, Loaded, ListTypes, FrontTypes, QueueTypes, SdkTypes, HistTypes,
           listVars, frontVars, sdkVars, histVars
<1>5. CASE RunRemove
  <2>1. Block("remove") /\ UNCHANGED <<filterd, frontVars, sdkVars, histVars, used>>
    BY <1>5 DEF RunRemove
  <2>2. PICK s \in removeAction(Head(mainQ).dream) :
           /\ container' = s
           /\ sharedQ' = sharedQ \o updateAction(s)
           /\ ended' = IF RowsFit(Head(mainQ).row, Len(s)) THEN "no" ELSE "rows"
           /\ rows' = IF Head(mainQ).row = NoRow THEN rows ELSE Len(s)
    BY <1>5 DEF RunRemove
  <2>3. mainQ' \in Seq(Blocks) /\ Loaded
    BY <2>1, BlockIs, BlockLoaded
  <2>4. s \in Seq(Dream) /\ Len(s) <= Len(container)
    BY <2>2, <1>1, WithoutDateType DEF removeAction, ListTypes
  <2>5. Len(s) \in Nat /\ Len(s) <= MaxKey + 1 /\ Len(container) \in Nat
    BY <2>4, <1>1, MaxKeyAssumption DEF ListTypes
  <2>6. updateAction(s) \in Seq(Calls)
    BY <2>4, <2>5, UpdateActionIs
  <2>7. sharedQ' \in Seq(Calls)
    BY <2>2, <2>6, <1>1 DEF QueueTypes
  <2>8. ListTypes'
    BY <2>1, <2>2, <2>4, <2>5, <1>1, MaxKeyAssumption DEF ListTypes
  <2> QED
    BY <1>1, <2>1, <2>2, <2>3, <2>7, <2>8
       DEF Types, Started, Loaded, FrontTypes, QueueTypes, SdkTypes, HistTypes,
           frontVars, sdkVars, histVars
<1>6. CASE RunRemoveAll
  <2>1. Block("removeAll") /\ container' = <<>> /\ sharedQ' = sharedQ \o updateAction(<<>>)
        /\ UNCHANGED <<rows, filterd, frontVars, sdkVars, ended, histVars, used>>
    BY <1>6 DEF RunRemoveAll
  <2>2. mainQ' \in Seq(Blocks) /\ Loaded
    BY <2>1, BlockIs, BlockLoaded
  <2>3. <<>> \in Seq(Dream) /\ Len(<<>>) <= MaxKey + 1
    BY MaxKeyAssumption
  <2>4. updateAction(<<>>) \in Seq(Calls)
    BY <2>3, UpdateActionIs
  <2>5. sharedQ' \in Seq(Calls)
    BY <2>1, <2>4, <1>1 DEF QueueTypes
  <2> QED
    BY <1>1, <2>1, <2>2, <2>3, <2>5
       DEF Types, Started, Loaded, ListTypes, FrontTypes, QueueTypes, SdkTypes, HistTypes,
           frontVars, sdkVars, histVars
<1> QED
  BY <1>2, <1>3, <1>4, <1>5, <1>6 DEF MainStep

\* The next call of the SDK's queue.
LEMMA CallIs ==
    ASSUME Types, sharedQ # <<>>
    PROVE  /\ Head(sharedQ) = sharedQ[1] /\ sharedQ[1] \in Calls /\ 1 \in DOMAIN sharedQ
           /\ Tail(sharedQ) \in Seq(Calls) /\ Len(Tail(sharedQ)) = Len(sharedQ) - 1
           /\ Len(sharedQ) \in Nat /\ Len(sharedQ) > 0
           /\ \A i \in 1 .. Len(sharedQ) - 1 : Tail(sharedQ)[i] = sharedQ[i + 1]
<1>1. sharedQ \in Seq(Calls)
  BY DEF Types, QueueTypes
<1>2. Head(sharedQ) = sharedQ[1] /\ Len(sharedQ) \in Nat /\ Len(sharedQ) > 0
  BY <1>1
<1> QED
  BY <1>1, <1>2

\* A new snapshot.
LEMMA ShowIs ==
    ASSUME Types, NEW n \in Node, Show(n)
    PROVE  /\ shown' = n /\ mainQ' \in Seq(Blocks)
           /\ n # shown => mainQ' = mainQ \o Raised(registered, n)
           /\ n = shown => mainQ' = mainQ
<1>1. shown' = n
      /\ mainQ' = IF n = shown THEN mainQ ELSE mainQ \o Raised(registered, n)
  BY DEF Show, Raised
<1>2. mainQ \in Seq(Blocks) /\ Raised(registered, n) \in Seq(Blocks)
  BY RaisedType DEF Types, QueueTypes, SdkTypes
<1> QED
  BY <1>1, <1>2

\* A call other than an observe comes after the diary was loaded.
LEMMA OverwriteIs ==
    ASSUME Types, ApplyUserOverwrite
    PROVE  /\ Loaded /\ shown \in Node /\ sharedQ # <<>> /\ sharedQ[1].op # "observe"
           /\ sharedQ' = Tail(sharedQ) /\ ended = "no"
           /\ Applied(shown, sharedQ[1]) \in Node /\ Show(Applied(shown, sharedQ[1]))
<1>1. sharedQ # <<>> /\ Head(sharedQ).op # "observe" /\ sharedQ' = Tail(sharedQ) /\ ended = "no"
      /\ Show(Applied(shown, Head(sharedQ)))
  BY DEF ApplyUserOverwrite, Applied
<1>2. Head(sharedQ) = sharedQ[1] /\ sharedQ[1] \in Calls /\ 1 \in DOMAIN sharedQ
  BY <1>1, CallIs
<1>3. ObserveCall(Main).op = "observe"
  BY DEF ObserveCall
<1>4. Loaded /\ shown \in Node
  BY <1>1, <1>2, <1>3 DEF Types, Started, SdkTypes, Loaded
<1> QED
  BY <1>1, <1>2, <1>4, AppliedType

\* So do the SDK's calls and the values of the server.
LEMMA TypesSdk ==
    ASSUME Types, \/ addEventRegistration \/ ApplyUserOverwrite
                  \/ \E n \in Node : Load(n) \/ Push(n)
    PROVE  Types'
<1>1. ListTypes /\ FrontTypes /\ QueueTypes /\ HistTypes /\ SdkTypes /\ Started
  BY DEF Types
<1>2. CASE addEventRegistration
  <2>1. sharedQ # <<>> /\ Head(sharedQ).op = "observe" /\ sharedQ' = Tail(sharedQ)
        /\ registered' = Append(registered, Head(sharedQ).for)
        /\ mainQ' = (IF shown = Unknown THEN mainQ
                     ELSE Append(mainQ, EventBlock(Head(sharedQ).for, shown)))
        /\ UNCHANGED <<listVars, frontVars, shown, ended, histVars, used>>
    BY <1>2 DEF addEventRegistration
  <2>2. Head(sharedQ) = sharedQ[1] /\ sharedQ[1] \in Calls /\ 1 \in DOMAIN sharedQ /\ Tail(sharedQ) \in Seq(Calls)
        /\ sharedQ[1].for \in Observers
    BY <2>1, CallIs, CallFacts
  <2>3. mainQ' \in Seq(Blocks)
    <3>1. CASE ~Loaded
      BY <3>1, <2>1, <1>1 DEF Loaded, QueueTypes
    <3>2. CASE Loaded
      <4>1. shown \in Node
        BY <3>2, <1>1 DEF Loaded, SdkTypes
      <4>2. EventBlock(sharedQ[1].for, shown) \in Blocks
        BY <4>1, <2>2, Built
      <4> QED
        BY <4>2, <3>2, <2>1, <2>2, <1>1 DEF Loaded, QueueTypes
    <3> QED
      BY <3>1, <3>2
  <2>4. registered' \in Seq(Observers)
    BY <2>1, <2>2, <1>1 DEF SdkTypes
  <2>5. Started'
    <3> SUFFICES ASSUME ~Loaded PROVE Started'
      BY <2>1 DEF Started, Loaded
    <3>1. sharedQ[1] = ObserveCall(Main)
      BY <1>1, <2>2 DEF Started
    <3>2. sharedQ[1].for = Main
      BY <3>1 DEF ObserveCall
    <3>3. \A i \in DOMAIN sharedQ' : sharedQ'[i] = ObserveCall(Main)
      <4>1. sharedQ \in Seq(Calls) /\ sharedQ' \in Seq(Calls) /\ Len(sharedQ') = Len(sharedQ) - 1
            /\ \A i \in 1 .. Len(sharedQ) - 1 : sharedQ'[i] = sharedQ[i + 1]
        BY <2>1, <1>1, CallIs DEF QueueTypes
      <4>2. \A i \in 1 .. Len(sharedQ) : sharedQ[i] = ObserveCall(Main)
        BY <4>1, <1>1 DEF Started
      <4> QED
        BY <4>1, <4>2
    <3>4. \A i \in DOMAIN registered' : registered'[i] = Main
      BY <1>1, <2>1, <2>2, <3>2 DEF Started, SdkTypes
    <3>5. mainQ' = mainQ
      BY <2>1 DEF Loaded
    <3> QED
      BY <1>1, <2>1, <3>3, <3>4, <3>5 DEF Started, Loaded, listVars, frontVars
  <2> QED
    BY <1>1, <2>1, <2>2, <2>3, <2>4, <2>5
       DEF Types, ListTypes, FrontTypes, QueueTypes, SdkTypes, HistTypes, listVars, frontVars, histVars
<1>3. CASE ApplyUserOverwrite
  <2>1. UNCHANGED <<listVars, frontVars, registered, ended, histVars, used>>
    BY <1>3 DEF ApplyUserOverwrite
  <2>2. PICK n \in Node : Show(n)
    BY <1>3, OverwriteIs
  <2>3. sharedQ' \in Seq(Calls)
    BY <1>3, OverwriteIs, CallIs
  <2>4. shown' \in Node /\ mainQ' \in Seq(Blocks) /\ shown' # Unknown
    BY <2>2, ShowIs, UnknownAssumption
  <2> QED
    BY <1>1, <2>1, <2>3, <2>4
       DEF Types, Started, Loaded, ListTypes, FrontTypes, QueueTypes, SdkTypes, HistTypes,
           listVars, frontVars, histVars
<1>4. CASE \E n \in Node : Load(n) \/ Push(n)
  <2>1. PICK n \in Node : Load(n) \/ Push(n)
    BY <1>4
  <2>2. Show(n) /\ UNCHANGED <<listVars, frontVars, sharedQ, registered, ended, searches>>
    BY <2>1 DEF Load, Push
  <2>3. shown' \in Node /\ mainQ' \in Seq(Blocks) /\ shown' # Unknown
    BY <2>2, ShowIs, UnknownAssumption
  <2> QED
    BY <1>1, <2>2, <2>3
       DEF Types, Started, Loaded, ListTypes, FrontTypes, QueueTypes, SdkTypes, HistTypes,
           listVars, frontVars
<1> QED
  BY <1>2, <1>3, <1>4

\* Every step keeps the types.
LEMMA TypesStep == Types /\ [Next]_vars => Types'
<1> SUFFICES ASSUME Types, [Next]_vars PROVE Types'
  OBVIOUS
<1>1. CASE UserStep
  BY <1>1, TypesSave, TypesFront, TypesLists DEF UserStep
<1>2. CASE MainStep
  BY <1>2, TypesMain
<1>3. CASE \/ addEventRegistration \/ ApplyUserOverwrite
           \/ \E n \in Node : Load(n) \/ Push(n)
  BY <1>3, TypesSdk
<1>4. CASE UNCHANGED vars
  BY <1>4 DEF vars, listVars, frontVars, sdkVars, histVars, Types, Started, Loaded,
     ListTypes, FrontTypes, QueueTypes, SdkTypes, HistTypes
<1> QED
  BY <1>1, <1>2, <1>3, <1>4 DEF Next

\* For any dates, bodies and bounds the lists hold dreams, no list outgrows
\* the diary, and saveAction and updateAction store under valid keys only.
THEOREM ScreensTypes == Spec => []TypeOK
<1>1. Types => TypeOK
  <2> SUFFICES ASSUME Types PROVE TypeOK
    OBVIOUS
  <2>1. ListTypes /\ FrontTypes /\ QueueTypes /\ SdkTypes
    BY DEF Types
  <2>2. ASSUME NEW i \in DOMAIN sharedQ, sharedQ[i].op = "set" PROVE sharedQ[i].key \in Keys
    <3>1. sharedQ[i] \in Calls
      BY <2>1 DEF QueueTypes
    <3> QED
      BY <3>1, <2>2, CallFacts
  <2> QED
    BY <2>1, <2>2 DEF TypeOK, ListTypes, FrontTypes, SdkTypes
<1> QED
  BY <1>1, TypesInit, TypesStep, PTL DEF Spec

-----------------------------------------------------------------------------
(* Queues. *)

\* Events at the end of the queue.
LEMMA AppendOther ==
    ASSUME NEW q \in Seq(Blocks), NEW b \in Blocks, NEW W, ~(b.do = "event" /\ b.for \in W)
    PROVE  /\ EventsFor(Append(q, b), W) = EventsFor(q, W)
           /\ \A n : LastIs(q, W, n) => LastIs(Append(q, b), W, n)
<1> DEFINE p == Append(q, b)
<1>1. Len(p) = Len(q) + 1 /\ DOMAIN p = 1 .. Len(q) + 1 /\ DOMAIN q = 1 .. Len(q) /\ Len(q) \in Nat
      /\ p[Len(q) + 1] = b /\ \A i \in 1 .. Len(q) : p[i] = q[i]
  OBVIOUS
<1> HIDE DEF p
<1>2. EventsFor(p, W) = EventsFor(q, W)
  <2>1. ASSUME NEW i \in EventsFor(p, W) PROVE i \in EventsFor(q, W)
    <3>1. i \in 1 .. Len(q) + 1 /\ p[i].do = "event" /\ p[i].for \in W
      BY <1>1 DEF EventsFor
    <3>2. i # Len(q) + 1
      BY <3>1, <1>1
    <3>3. i \in 1 .. Len(q)
      BY <3>1, <3>2, <1>1
    <3> QED
      BY <3>1, <3>3, <1>1 DEF EventsFor
  <2>2. ASSUME NEW i \in EventsFor(q, W) PROVE i \in EventsFor(p, W)
    BY <1>1 DEF EventsFor
  <2> QED
    BY <2>1, <2>2
<1>3. ASSUME NEW n, LastIs(q, W, n) PROVE LastIs(p, W, n)
  <2>1. PICK i \in EventsFor(q, W) : q[i].node = n /\ \A j \in EventsFor(q, W) : j <= i
    BY <1>3 DEF LastIs
  <2>2. p[i] = q[i]
    BY <2>1, <1>1 DEF EventsFor
  <2> QED
    BY <2>1, <2>2, <1>2 DEF LastIs
<1> QED
  BY <1>2, <1>3 DEF p

\* A queue that ends with an event for W.
LEMMA AppendEvent ==
    ASSUME NEW q \in Seq(Blocks), NEW o, NEW n, NEW W, o \in W
    PROVE  LastIs(Append(q, EventBlock(o, n)), W, n)
<1> DEFINE p == Append(q, EventBlock(o, n))
<1>1. Len(p) = Len(q) + 1 /\ DOMAIN p = 1 .. Len(q) + 1 /\ Len(q) \in Nat
      /\ p[Len(q) + 1] = EventBlock(o, n)
  OBVIOUS
<1> HIDE DEF p
<1>2. p[Len(q) + 1].do = "event" /\ p[Len(q) + 1].for = o /\ p[Len(q) + 1].node = n
  BY <1>1 DEF EventBlock
<1>3. Len(q) + 1 \in EventsFor(p, W)
  BY <1>1, <1>2 DEF EventsFor
<1>4. \A j \in EventsFor(p, W) : j <= Len(q) + 1
  BY <1>1 DEF EventsFor
<1> QED
  BY <1>2, <1>3, <1>4 DEF LastIs, p

\* A new snapshot is the last event of every registered observer.
LEMMA RaisedLast ==
    ASSUME NEW q \in Seq(Blocks), NEW R \in Seq(Observers), NEW n \in Node, NEW W,
           NEW o \in W, o \in Range(R)
    PROVE  LastIs(q \o Raised(R, n), W, n)
<1> DEFINE r == Raised(R, n)
           p == q \o r
<1>1. r \in Seq(Blocks) /\ Len(r) = Len(R) /\ \A i \in 1 .. Len(R) : r[i] = EventBlock(R[i], n)
  BY RaisedType
<1> HIDE DEF r
<1>2. Len(q) \in Nat /\ Len(R) \in Nat /\ DOMAIN R = 1 .. Len(R)
  OBVIOUS
<1>3. DOMAIN p = 1 .. Len(q) + Len(R) /\ \A i \in 1 .. Len(R) : p[Len(q) + i] = r[i]
  BY <1>1, <1>2
<1> HIDE DEF p
<1> DEFINE I == {i \in 1 .. Len(R) : R[i] \in W}
<1>4. PICK k \in 1 .. Len(R) : R[k] = o
  BY <1>2 DEF Range
<1>5. I \in SUBSET (1 .. Len(R)) /\ I # {}
  BY <1>4
<1>6. PICK i \in I : \A j \in I : j <= i
  BY <1>2, <1>5, LastPosition
<1>7. i \in 1 .. Len(R) /\ R[i] \in W /\ p[Len(q) + i] = EventBlock(R[i], n)
  BY <1>1, <1>3, <1>6
<1>8. p[Len(q) + i].do = "event" /\ p[Len(q) + i].for \in W /\ p[Len(q) + i].node = n
  BY <1>7 DEF EventBlock
<1>9. Len(q) + i \in EventsFor(p, W)
  BY <1>2, <1>3, <1>7, <1>8 DEF EventsFor
<1>10. ASSUME NEW j \in EventsFor(p, W) PROVE j <= Len(q) + i
  <2>1. j \in 1 .. Len(q) + Len(R) /\ p[j].for \in W
    BY <1>3 DEF EventsFor
  <2>2. CASE j <= Len(q)
    BY <2>1, <2>2, <1>2, <1>7
  <2>3. CASE j > Len(q)
    <3>1. PICK m \in 1 .. Len(R) : j = Len(q) + m
      <4>1. j - Len(q) \in 1 .. Len(R) /\ j = Len(q) + (j - Len(q))
        BY <2>1, <2>3, <1>2
      <4> QED
        BY <4>1
    <3>2. p[j] = EventBlock(R[m], n)
      BY <3>1, <1>1, <1>3
    <3>3. R[m] \in W
      BY <3>2, <2>1 DEF EventBlock
    <3>4. m <= i
      BY <3>1, <3>3, <1>6
    <3> QED
      BY <3>1, <3>4, <1>2, <1>7
  <2> QED
    BY <2>1, <2>2, <2>3, <1>2
<1> QED
  BY <1>8, <1>9, <1>10 DEF LastIs, p, r

\* The head of the queue is taken.
LEMMA TailEvents ==
    ASSUME NEW q \in Seq(Blocks), q # <<>>, NEW W
    PROVE  /\ EventsFor(q, W) = {} => EventsFor(Tail(q), W) = {}
           /\ \A n : LastIs(q, W, n) =>
                 \/ LastIs(Tail(q), W, n)
                 \/ /\ EventsFor(Tail(q), W) = {}
                    /\ q[1].do = "event" /\ q[1].for \in W /\ q[1].node = n
<1> DEFINE p == Tail(q)
<1>1. Len(q) \in Nat /\ Len(q) > 0 /\ DOMAIN q = 1 .. Len(q) /\ DOMAIN p = 1 .. Len(q) - 1
      /\ \A i \in 1 .. Len(q) - 1 : p[i] = q[i + 1]
  OBVIOUS
<1> HIDE DEF p
<1>2. ASSUME NEW i \in EventsFor(p, W) PROVE i \in 1 .. Len(q) - 1 /\ i + 1 \in EventsFor(q, W)
  <2>1. i \in 1 .. Len(q) - 1 /\ p[i].do = "event" /\ p[i].for \in W /\ p[i] = q[i + 1]
    BY <1>1 DEF EventsFor
  <2> QED
    BY <2>1, <1>1 DEF EventsFor
<1>3. ASSUME NEW i \in EventsFor(q, W), i # 1 PROVE i - 1 \in EventsFor(p, W) /\ p[i - 1] = q[i] /\ i \in Nat
  <2>1. i \in 1 .. Len(q) /\ q[i].do = "event" /\ q[i].for \in W
    BY <1>1 DEF EventsFor
  <2>2. i - 1 \in 1 .. Len(q) - 1 /\ (i - 1) + 1 = i
    BY <2>1, <1>1, <1>3
  <2>3. p[i - 1] = q[i]
    BY <2>2, <1>1
  <2> QED
    BY <2>1, <2>2, <2>3, <1>1 DEF EventsFor
<1>4. EventsFor(q, W) = {} => EventsFor(p, W) = {}
  BY <1>2
<1>5. ASSUME NEW n, LastIs(q, W, n), ~LastIs(p, W, n)
      PROVE  EventsFor(p, W) = {} /\ q[1].do = "event" /\ q[1].for \in W /\ q[1].node = n
  <2>1. PICK i \in EventsFor(q, W) : q[i].node = n /\ \A j \in EventsFor(q, W) : j <= i
    BY <1>5 DEF LastIs
  <2>2. i = 1
    <3> SUFFICES ASSUME i # 1 PROVE FALSE
      OBVIOUS
    <3>1. i - 1 \in EventsFor(p, W) /\ p[i - 1].node = n /\ i \in Nat
      BY <1>3, <2>1
    <3>2. \A j \in EventsFor(p, W) : j <= i - 1
      <4> TAKE j \in EventsFor(p, W)
      <4>1. j \in 1 .. Len(q) - 1 /\ j + 1 <= i
        BY <1>2, <2>1
      <4> QED
        BY <4>1, <3>1
    <3> QED
      BY <3>1, <3>2, <1>5 DEF LastIs
  <2>3. EventsFor(p, W) = {}
    <3> SUFFICES ASSUME NEW j \in EventsFor(p, W) PROVE FALSE
      OBVIOUS
    <3>1. j \in 1 .. Len(q) - 1 /\ j + 1 <= 1
      BY <1>2, <2>1, <2>2
    <3> QED
      BY <3>1
  <2> QED
    BY <2>1, <2>2, <2>3 DEF EventsFor
<1> QED
  BY <1>4, <1>5 DEF p

\* Calls that will change the snapshot, as the queue grows and shrinks.
LEMMA CorrectingConcat ==
    ASSUME NEW q \in Seq(Calls), NEW r \in Seq(Calls), NEW n
    PROVE  Correcting(q, n) \/ Correcting(r, n) => Correcting(q \o r, n)
<1> DEFINE p == q \o r
<1>1. Len(q) \in Nat /\ Len(r) \in Nat /\ DOMAIN q = 1 .. Len(q) /\ DOMAIN r = 1 .. Len(r)
      /\ DOMAIN p = 1 .. Len(q) + Len(r)
      /\ (\A i \in 1 .. Len(q) : p[i] = q[i]) /\ (\A i \in 1 .. Len(r) : p[Len(q) + i] = r[i])
  OBVIOUS
<1> HIDE DEF p
<1>2. ASSUME Correcting(q, n) PROVE Correcting(p, n)
  <2>1. PICK i \in 1 .. Len(q) : q[i].op # "observe" /\ Applied(n, q[i]) # n
    BY <1>1, <1>2 DEF Correcting
  <2>2. i \in DOMAIN p /\ p[i] = q[i]
    BY <1>1
  <2> QED
    BY <2>1, <2>2 DEF Correcting
<1>3. ASSUME Correcting(r, n) PROVE Correcting(p, n)
  <2>1. PICK i \in 1 .. Len(r) : r[i].op # "observe" /\ Applied(n, r[i]) # n
    BY <1>1, <1>3 DEF Correcting
  <2>2. Len(q) + i \in DOMAIN p /\ p[Len(q) + i] = r[i]
    BY <1>1
  <2> QED
    BY <2>1, <2>2 DEF Correcting
<1> QED
  BY <1>2, <1>3 DEF p

\* A correcting call stays one when a call is queued behind it.
LEMMA CorrectingAppend ==
    ASSUME NEW q \in Seq(Calls), NEW c \in Calls, NEW n, Correcting(q, n)
    PROVE  Correcting(Append(q, c), n)
<1>1. PICK i \in DOMAIN q : q[i].op # "observe" /\ Applied(n, q[i]) # n
  BY DEF Correcting
<1>2. i \in DOMAIN Append(q, c) /\ Append(q, c)[i] = q[i]
  OBVIOUS
<1> QED
  BY <1>1, <1>2 DEF Correcting

\* A call that changes nothing is not the correcting one.
LEMMA CorrectingTail ==
    ASSUME NEW q \in Seq(Calls), q # <<>>, NEW n, Correcting(q, n),
           q[1].op = "observe" \/ Applied(n, q[1]) = n
    PROVE  Correcting(Tail(q), n)
<1>1. PICK i \in DOMAIN q : q[i].op # "observe" /\ Applied(n, q[i]) # n
  BY DEF Correcting
<1>2. i # 1 /\ i \in 1 .. Len(q) /\ Len(q) \in Nat
  BY <1>1
<1>3. i - 1 \in DOMAIN Tail(q) /\ Tail(q)[i - 1] = q[i]
  BY <1>2
<1> QED
  BY <1>1, <1>3 DEF Correcting

\* Observers on their way, as the queues change.
LEMMA FetchingKept ==
    ASSUME NEW q, NEW c, NEW p, NEW d, NEW W, Fetching(q, c, W),
           \A i \in DOMAIN q : q[i].do = "fetch" /\ q[i].for \in W =>
               \/ \E j \in DOMAIN p : p[j] = q[i]
               \/ \E j \in DOMAIN d : d[j] = ObserveCall(q[i].for),
           \A i \in DOMAIN c : c[i].op = "observe" /\ c[i].for \in W =>
               \E j \in DOMAIN d : d[j] = c[i]
    PROVE  Fetching(p, d, W)
<1>1. CASE \E i \in DOMAIN q : q[i].do = "fetch" /\ q[i].for \in W
  <2>1. PICK i \in DOMAIN q : q[i].do = "fetch" /\ q[i].for \in W
    BY <1>1
  <2>2. CASE \E j \in DOMAIN p : p[j] = q[i]
    BY <2>1, <2>2 DEF Fetching
  <2>3. CASE \E j \in DOMAIN d : d[j] = ObserveCall(q[i].for)
    <3>1. PICK j \in DOMAIN d : d[j] = ObserveCall(q[i].for)
      BY <2>3
    <3>2. d[j].op = "observe" /\ d[j].for \in W
      BY <2>1, <3>1 DEF ObserveCall
    <3> QED
      BY <3>2 DEF Fetching
  <2> QED
    BY <2>1, <2>2, <2>3
<1>2. CASE \E i \in DOMAIN c : c[i].op = "observe" /\ c[i].for \in W
  BY <1>2 DEF Fetching
<1> QED
  BY <1>1, <1>2 DEF Fetching

\* A sequence keeps its elements when others are put behind it, and all but
\* the first when that is taken.
LEMMA ConcatKeeps ==
    ASSUME NEW S, NEW q \in Seq(S), NEW r \in Seq(S), NEW i \in DOMAIN q
    PROVE  \E j \in DOMAIN (q \o r) : (q \o r)[j] = q[i]
<1>1. i \in DOMAIN (q \o r) /\ (q \o r)[i] = q[i]
  OBVIOUS
<1> QED
  BY <1>1

\* What is queued stays queued behind it.
LEMMA AppendKeeps ==
    ASSUME NEW S, NEW q \in Seq(S), NEW x \in S
    PROVE  /\ \A i \in DOMAIN q : \E j \in DOMAIN Append(q, x) : Append(q, x)[j] = q[i]
           /\ \E j \in DOMAIN Append(q, x) : Append(q, x)[j] = x
<1>1. \A i \in DOMAIN q : i \in DOMAIN Append(q, x) /\ Append(q, x)[i] = q[i]
  OBVIOUS
<1>2. Len(q) + 1 \in DOMAIN Append(q, x) /\ Append(q, x)[Len(q) + 1] = x
  OBVIOUS
<1> QED
  BY <1>1, <1>2

\* All but the first entry stay.
LEMMA TailKeeps ==
    ASSUME NEW S, NEW q \in Seq(S), q # <<>>, NEW i \in DOMAIN q, i # 1
    PROVE  \E j \in DOMAIN Tail(q) : Tail(q)[j] = q[i]
<1>1. Len(q) \in Nat /\ i \in 1 .. Len(q) /\ Len(q) > 0
  OBVIOUS
<1>2. i - 1 \in 1 .. Len(q) - 1 /\ (i - 1) + 1 = i
  BY <1>1
<1>3. i - 1 \in DOMAIN Tail(q) /\ Tail(q)[i - 1] = q[i]
  BY <1>1, <1>2
<1> QED
  BY <1>3

-----------------------------------------------------------------------------
(* Snapshots and containers. *)

\* An empty diary.
LEMMA EmptyIs ==
    /\ Empty \in Node /\ CastSucceeds(Empty) /\ AsArray(Empty) = <<>>
    /\ <<>> \in Containers(Empty)
<1>1. Present(Empty) = {} /\ Empty \in Node
  BY DEF Present, Empty, Node
<1>2. Cardinality(Present(Empty)) = 0
  BY <1>1, FS_EmptySet
<1>3. AsArray(Empty) = <<>>
  BY <1>2 DEF AsArray
<1>4. CastSucceeds(Empty)
  BY <1>1 DEF CastSucceeds, ExportsArray, HasHole
<1>5. <<>> \in Reorderings(<<>>)
  <2>1. <<>> \in [DOMAIN <<>> -> DOMAIN <<>>] /\ DOMAIN <<>> = {}
    OBVIOUS
  <2>2. <<>> \in Bijection(DOMAIN <<>>, DOMAIN <<>>)
    BY <2>1 DEF Bijection, Injection, Surjection, IsInjective
  <2> DEFINE z == <<>>
  <2>3. z = [i \in DOMAIN z |-> z[z[i]]]
    OBVIOUS
  <2> QED
    BY <2>2, <2>3 DEF Reorderings
<1>6. <<>> \in Containers(Empty)
  BY <1>3, <1>5 DEF Containers, ascendingOrder, IsAscending
<1> QED
  BY <1>1, <1>3, <1>4, <1>6

\* The calls of updateAction change the snapshot, unless diary and snapshot
\* are both empty.
LEMMA RemovalCorrects ==
    ASSUME NEW s \in Seq(Dream), Len(s) <= MaxKey + 1, NEW n \in Node
    PROVE  Correcting(updateAction(s), n) \/ (n = Empty /\ s = <<>>)
<1> DEFINE q == updateAction(s)
<1>1. q \in Seq(Calls) /\ Len(q) = Len(s) + 1 /\ q[1] = RemoveCall
      /\ \A i \in 2 .. Len(s) + 1 : q[i] = SetCall(i - 2, s[i - 1])
  BY UpdateActionIs
<1> HIDE DEF q
<1>2. Len(s) \in Nat /\ DOMAIN q = 1 .. Len(s) + 1
  BY <1>1
<1>3. CASE n # Empty
  <2>1. q[1].op = "remove" /\ 1 \in DOMAIN q
    BY <1>1, <1>2 DEF RemoveCall
  <2>2. Applied(n, q[1]) = Empty
    BY <2>1 DEF Applied, Empty
  <2> QED
    BY <1>3, <2>1, <2>2 DEF Correcting, q
<1>4. CASE n = Empty /\ s # <<>>
  <2>1. 2 \in 2 .. Len(s) + 1 /\ 1 \in 1 .. Len(s) /\ 2 - 2 = 0 /\ 2 - 1 = 1
    BY <1>2, <1>4
  <2>2. q[2] = SetCall(0, s[1]) /\ 2 \in DOMAIN q /\ s[1] \in Dream
    BY <1>1, <1>2, <2>1
  <2>3. q[2].op = "set" /\ q[2].key = 0 /\ q[2].dream = s[1]
    BY <2>2 DEF SetCall
  <2>4. 0 \in Keys
    BY MaxKeyAssumption DEF Keys
  <2>5. Applied(n, q[2])[0] = s[1]
    BY <2>3, <2>4 DEF Applied
  <2>6. n[0] = None
    BY <1>4, <2>4 DEF Empty
  <2>7. Applied(n, q[2]) # n
    BY <2>2, <2>5, <2>6, NoneAssumption
  <2> QED
    BY <2>2, <2>3, <2>7 DEF Correcting, q
<1> QED
  BY <1>3, <1>4

-----------------------------------------------------------------------------
(* The lists follow the snapshot. *)

\* With no event, fetch or call under way they show it.
LEMMA AtRest ==
    ASSUME Types, Follow, Loaded, ended = "no", sharedQ = <<>>,
           \A i \in DOMAIN mainQ : mainQ[i].do \notin {"fetch", "event"}
    PROVE  /\ CastSucceeds(shown) /\ shown \in Node
           /\ rows = Len(AsArray(shown)) /\ container \in Containers(shown)
           /\ screen = "search" =>
                 Mine \in Range(registered) /\ Range(filterd) \subseteq Range(AsArray(shown))
<1>1. RowsFollow /\ ContainerFollows /\ (screen = "search" => ListFollows)
  BY DEF Follow
<1>2. \A W : EventsFor(mainQ, W) = {}
  BY DEF EventsFor
<1>3. \A W, n : ~LastIs(mainQ, W, n)
  BY <1>2 DEF LastIs
<1>4. DOMAIN sharedQ = {}
  OBVIOUS
<1>5. ~Correcting(sharedQ, shown)
  BY <1>4 DEF Correcting
<1>6. \A W : ~Fetching(mainQ, sharedQ, W)
  BY <1>4 DEF Fetching
<1>7. CastSucceeds(shown) /\ rows = Len(AsArray(shown))
  BY <1>1, <1>3, <1>5 DEF RowsFollow
<1>8. container \in Containers(shown)
  BY <1>1, <1>3, <1>5, <1>6 DEF ContainerFollows
<1>9. screen = "search" =>
         Mine \in Range(registered) /\ Range(filterd) \subseteq Range(AsArray(shown))
  BY <1>1, <1>3, <1>6 DEF ListFollows
<1> QED
  BY <1>7, <1>8, <1>9 DEF Types, SdkTypes, Loaded

\* Taps find the lists showing what the SDK does.
LEMMA ReadyFollows ==
    ASSUME Types, Follow, Ready
    PROVE  /\ CastSucceeds(shown) /\ shown \in Node
           /\ rows = Len(AsArray(shown)) /\ container \in Containers(shown)
           /\ screen = "search" =>
                 Mine \in Range(registered) /\ Range(filterd) \subseteq Range(AsArray(shown))
<1>1. Loaded /\ ended = "no" /\ sharedQ = <<>> /\ mainQ = <<>>
  BY ReadyFacts
<1>2. \A i \in DOMAIN mainQ : mainQ[i].do \notin {"fetch", "event"}
  BY <1>1
<1> QED
  BY <1>1, <1>2, AtRest

\* A tap, from what it queues and what it does to the lists.
LEMMA FollowTap ==
    ASSUME Types, Follow, Ready, UNCHANGED <<rows, shown, registered>>,
           NEW b \in Blocks, b.do # "event", mainQ' = <<>> \/ mainQ' = <<b>>,
           container' = container \/ (mainQ' = <<b>> /\ b.do = "fetch"),
           screen' = "search" =>
              \/ mainQ' = <<b>> /\ b = FetchBlock(Mine')
              \/ screen = "search" /\ Mine' = Mine
                 /\ Range(filterd') \subseteq Range(AsArray(shown))
    PROVE  Follow'
<1>1. /\ CastSucceeds(shown) /\ shown \in Node
      /\ rows = Len(AsArray(shown)) /\ container \in Containers(shown)
      /\ screen = "search" => Mine \in Range(registered)
  BY ReadyFollows
<1>2. \A i \in DOMAIN mainQ' : mainQ'[i] = b
  OBVIOUS
<1>3. \A W : EventsFor(mainQ', W) = {}
  BY <1>2 DEF EventsFor
<1>4. RowsFollow'
  BY <1>1, <1>3 DEF RowsFollow
<1>5. ASSUME mainQ' = <<b>>, b.do = "fetch", NEW W, b.for \in W
      PROVE  Fetching(mainQ', sharedQ', W)
  <2>1. 1 \in DOMAIN mainQ' /\ mainQ'[1] = b
    BY <1>5
  <2> QED
    BY <2>1, <1>5 DEF Fetching
<1>6. ContainerFollows'
  <2>1. CASE container' = container
    BY <2>1, <1>1, <1>3 DEF ContainerFollows
  <2>2. CASE mainQ' = <<b>> /\ b.do = "fetch"
    <3>1. b.for \in Observers
      BY <2>2, BlockFacts
    <3> QED
      BY <3>1, <2>2, <1>5 DEF ContainerFollows
  <2> QED
    BY <2>1, <2>2
<1>7. screen' = "search" => ListFollows'
  <2> SUFFICES ASSUME screen' = "search" PROVE ListFollows'
    OBVIOUS
  <2>1. CASE mainQ' = <<b>> /\ b = FetchBlock(Mine')
    <3>1. b.do = "fetch" /\ b.for = Mine'
      BY <2>1 DEF FetchBlock
    <3> QED
      BY <3>1, <2>1, <1>5 DEF ListFollows
  <2>2. CASE screen = "search" /\ Mine' = Mine
             /\ Range(filterd') \subseteq Range(AsArray(shown))
    BY <2>2, <1>1, <1>3 DEF ListFollows
  <2> QED
    BY <2>1, <2>2
<1> QED
  BY <1>4, <1>6, <1>7 DEF Follow

\* What the user does keeps the lists following.
LEMMA FollowUser ==
    ASSUME Types, Follow, UserStep
    PROVE  Follow'
<1>2. Ready
  BY DEF UserStep, DateCheckAndSave, ConfirmReplace, SwipeRow, OpenPage, allDeleteBtn, ClosePage,
         selectedDeleteBtnAction, ConfirmDelete, ConfirmDeleteAll, CancelAlert,
         OpenSearch, Refresh, OpenStars, moveToMainBtnAction, textDidChange, Tap, Answer
<1>3. mainQ = <<>>
  BY <1>2, ReadyFacts
<1>4. screen = "search" => Range(filterd) \subseteq Range(AsArray(shown))
  BY <1>2, ReadyFollows
<1>5. HistTypes /\ FrontTypes /\ ListTypes
  BY DEF Types
<1>6. RemoveAllBlock \in Blocks /\ RemoveAllBlock.do = "removeAll"
  BY Built DEF RemoveAllBlock
<1>7. CASE \/ \E x \in Dream : DateCheckAndSave(x)
           \/ \E row \in 1 .. MaxKey + 1 : SwipeRow(row) \/ OpenPage(row)
           \/ ConfirmReplace \/ allDeleteBtn \/ ClosePage \/ selectedDeleteBtnAction \/ CancelAlert
  <2>1. UNCHANGED <<container, rows, filterd, screen, mainQ, shown, registered, searches>>
    BY <1>7 DEF DateCheckAndSave, ConfirmReplace, SwipeRow, OpenPage, allDeleteBtn, ClosePage,
         selectedDeleteBtnAction, CancelAlert, listVars, sdkVars, histVars
  <2>2. Mine' = Mine
    BY <2>1 DEF Mine
  <2> QED
    BY <2>1, <2>2, <1>2, <1>3, <1>4, <1>6, FollowTap
<1>8. CASE ConfirmDelete
  <2>1. UNCHANGED <<container, rows, filterd, screen, shown, registered, searches>>
        /\ mainQ' = Append(mainQ, RemoveBlock(alert.dream, alert.row))
    BY <1>8 DEF ConfirmDelete, listVars, sdkVars, histVars
  <2>2. Mine' = Mine
    BY <2>1 DEF Mine
  <2>3. RemoveBlock(alert.dream, alert.row) \in Blocks /\ RemoveBlock(alert.dream, alert.row).do = "remove"
    <3>1. alert.dream \in Dream /\ alert.row \in Nat
      BY <1>8, <1>5, AlertFacts DEF ConfirmDelete, Answer, FrontTypes
    <3> QED
      BY <3>1, Built DEF RemoveBlock
  <2>4. mainQ' = <<RemoveBlock(alert.dream, alert.row)>>
    BY <2>1, <1>3
  <2> QED
    BY <2>1, <2>2, <2>3, <2>4, <1>2, <1>4, FollowTap
<1>9. CASE ConfirmDeleteAll
  <2>1. UNCHANGED <<container, rows, filterd, screen, shown, registered, searches>>
        /\ mainQ' = Append(mainQ, RemoveAllBlock)
    BY <1>9 DEF ConfirmDeleteAll, listVars, sdkVars, histVars
  <2>2. Mine' = Mine
    BY <2>1 DEF Mine
  <2>3. mainQ' = <<RemoveAllBlock>>
    BY <2>1, <1>3
  <2> QED
    BY <2>1, <2>2, <2>3, <1>2, <1>4, <1>6, FollowTap
<1>10. CASE OpenSearch
  <2> DEFINE b == FetchBlock(Observer("search", searches + 1))
  <2>1. UNCHANGED <<container, rows, shown, registered>> /\ searches' = searches + 1
        /\ mainQ' = Append(mainQ, b)
    BY <1>10 DEF OpenSearch, sdkVars
  <2>2. b \in Blocks /\ b.do = "fetch" /\ b = FetchBlock(Mine')
    <3>1. searches + 1 \in Nat
      BY <1>5 DEF HistTypes
    <3> QED
      BY <3>1, <2>1, Built DEF FetchBlock, Mine
  <2>3. mainQ' = <<b>>
    BY <2>1, <1>3
  <2> HIDE DEF b
  <2> QED
    BY <2>1, <2>2, <2>3, <1>2, FollowTap
<1>11. CASE Refresh
  <2> DEFINE b == FetchBlock(Observer("refresh", searches))
  <2>1. UNCHANGED <<rows, filterd, screen, shown, registered, searches>>
        /\ mainQ' = Append(mainQ, b)
    BY <1>11 DEF Refresh, sdkVars, frontVars, histVars
  <2>2. b \in Blocks /\ b.do = "fetch"
    BY <1>5, Built DEF FetchBlock, HistTypes
  <2>3. mainQ' = <<b>> /\ Mine' = Mine
    BY <2>1, <1>3 DEF Mine
  <2> HIDE DEF b
  <2> QED
    BY <2>1, <2>2, <2>3, <1>2, <1>4, FollowTap
<1>12. CASE OpenStars \/ moveToMainBtnAction
  <2>1. UNCHANGED <<container, rows, mainQ, shown, registered>> /\ screen' # "search"
    BY <1>12 DEF OpenStars, moveToMainBtnAction, sdkVars
  <2> QED
    BY <2>1, <1>2, <1>3, <1>6, FollowTap
<1>13. CASE \E M \in Matches : textDidChange(M)
  <2>1. PICK M \in Matches : textDidChange(M)
    BY <1>13
  <2>2. UNCHANGED <<container, rows, screen, mainQ, shown, registered, searches>>
        /\ screen = "search"
    BY <2>1 DEF textDidChange, Tap, frontVars, sdkVars, histVars
  <2>3. PICK s \in searchDream(M) : filterd' \in {s} \cup ascendingOrder(s) \cup descendingOrder(s)
    BY <2>1 DEF textDidChange
  <2> DEFINE I == {i \in DOMAIN container : container[i] \in M}
  <2>4. s \in Subarrays(container, I) /\ I \in SUBSET DOMAIN container
    BY <2>3 DEF searchDream
  <2> HIDE DEF I
  <2>5. s \in Seq(Dream)
    BY <2>4, <1>5, SubarrayIs DEF ListTypes
  <2>6. Range(s) \subseteq Range(container)
    <3>1. PICK f \in [1 .. Len(s) -> I] : \A i \in 1 .. Len(s) : s[i] = container[f[i]]
      BY <2>4, <1>5, SubarrayIs DEF ListTypes
    <3>2. \A i \in DOMAIN s : f[i] \in DOMAIN container /\ s[i] = container[f[i]]
      BY <3>1, <2>4, <2>5
    <3> QED
      BY <3>2 DEF Range
  <2>7. filterd' = s \/ filterd' \in Reorderings(s)
    BY <2>3 DEF ascendingOrder, descendingOrder
  <2>8. Range(filterd') = Range(s)
    BY <2>5, <2>7, ReorderingRange
  <2>9. Range(container) = Range(AsArray(shown))
    BY <1>2, ReadyFollows, ContainersAre
  <2>10. Range(filterd') \subseteq Range(AsArray(shown)) /\ Mine' = Mine
    BY <2>2, <2>6, <2>8, <2>9 DEF Mine
  <2> QED
    BY <2>2, <2>10, <1>2, <1>3, <1>6, FollowTap
<1> QED
  BY <1>7, <1>8, <1>9, <1>10, <1>11, <1>12, <1>13 DEF UserStep

\* A block that is no event for W leaves the last event for W in the queue.
LEMMA TailOther ==
    ASSUME NEW q \in Seq(Blocks), q # <<>>, NEW W, NEW n, LastIs(q, W, n),
           ~(q[1].do = "event" /\ q[1].for \in W)
    PROVE  LastIs(Tail(q), W, n)
BY TailEvents

\* A fetch block becomes an observe call.
LEMMA FollowFetch ==
    ASSUME Types, Follow, RunFetch
    PROVE  Follow'
<1> SUFFICES ASSUME Loaded PROVE Follow'
  BY DEF RunFetch, Follow, Loaded, sdkVars
<1>1. Block("fetch") /\ sharedQ' = Append(sharedQ, ObserveCall(Head(mainQ).for))
      /\ UNCHANGED <<container, rows, filterd, screen, shown, registered, ended, searches>>
  BY DEF RunFetch, listVars, frontVars, sdkVars, histVars
<1>2. mainQ # <<>> /\ mainQ \in Seq(Blocks) /\ mainQ[1].do = "fetch" /\ mainQ' = Tail(mainQ)
      /\ Head(mainQ) = mainQ[1] /\ ended = "no" /\ mainQ[1].for \in Observers /\ sharedQ \in Seq(Calls)
  BY <1>1, BlockIs, BlockFacts DEF Types, QueueTypes
<1>3. ObserveCall(mainQ[1].for) \in Calls
  BY <1>2, Built
<1>4. RowsFollow /\ ContainerFollows /\ (screen = "search" => ListFollows)
  BY <1>2 DEF Follow
<1>5. \A W : EventsFor(mainQ, W) = {} => EventsFor(mainQ', W) = {}
  BY <1>2, TailEvents
<1>6. \A W, n : LastIs(mainQ, W, n) => LastIs(mainQ', W, n)
  BY <1>2, TailOther
<1>7. Correcting(sharedQ, shown) => Correcting(sharedQ', shown')
  BY <1>1, <1>2, <1>3, CorrectingAppend
<1>8. ASSUME NEW W, Fetching(mainQ, sharedQ, W) PROVE Fetching(mainQ', sharedQ', W)
  <2>1. ASSUME NEW i \in DOMAIN mainQ
        PROVE  \/ \E j \in DOMAIN mainQ' : mainQ'[j] = mainQ[i]
               \/ \E j \in DOMAIN sharedQ' : sharedQ'[j] = ObserveCall(mainQ[i].for)
    <3>1. CASE i = 1
      BY <3>1, <1>1, <1>2, <1>3, AppendKeeps
    <3>2. CASE i # 1
      BY <3>2, <1>2, TailKeeps
    <3> QED
      BY <3>1, <3>2
  <2>2. \A i \in DOMAIN sharedQ : \E j \in DOMAIN sharedQ' : sharedQ'[j] = sharedQ[i]
    <3>1. PICK c \in Calls : sharedQ' = Append(sharedQ, c)
      BY <1>1, <1>2, <1>3
    <3>2. \A i \in DOMAIN sharedQ : i \in DOMAIN sharedQ' /\ sharedQ'[i] = sharedQ[i]
      BY <3>1, <1>2
    <3> QED
      BY <3>2
  <2> QED
    BY <2>1, <2>2, <1>8, FetchingKept
<1>9. RowsFollow'
  BY <1>1, <1>4, <1>5, <1>6, <1>7 DEF RowsFollow
<1>10. ContainerFollows'
  BY <1>1, <1>4, <1>5, <1>6, <1>7, <1>8 DEF ContainerFollows
<1>11. screen' = "search" => ListFollows'
  <2>1. Mine' = Mine
    BY <1>1 DEF Mine
  <2> QED
    BY <2>1, <1>1, <1>4, <1>5, <1>6, <1>8 DEF ListFollows
<1> QED
  BY <1>9, <1>10, <1>11 DEF Follow

\* An event brings its observer's lists up to date.
LEMMA FollowEvent ==
    ASSUME Types, Follow, RunEvent
    PROVE  Follow'
<1>1. Block("event") /\ CastSucceeds(Head(mainQ).node) /\ container' \in Containers(Head(mainQ).node)
      /\ loadingIsFinished(Head(mainQ).for, container')
      /\ UNCHANGED <<screen, sharedQ, shown, registered, ended, searches>>
  BY DEF RunEvent, frontVars, sdkVars, histVars
<1>2. mainQ # <<>> /\ mainQ \in Seq(Blocks) /\ mainQ[1].do = "event" /\ mainQ' = Tail(mainQ)
      /\ Head(mainQ) = mainQ[1] /\ ended = "no" /\ mainQ[1].for \in Observers /\ mainQ[1].node \in Node
      /\ 1 \in DOMAIN mainQ
  BY <1>1, BlockIs, BlockFacts DEF Types, QueueTypes
<1> DEFINE o == mainQ[1].for
           n == mainQ[1].node
<1>3. Loaded
  BY <1>1, BlockLoaded
<1>4. RowsFollow /\ ContainerFollows /\ (screen = "search" => ListFollows)
  BY <1>2, <1>3 DEF Follow
<1>5. \A W : EventsFor(mainQ, W) = {} => EventsFor(mainQ', W) = {}
  BY <1>2, TailEvents
<1>6. \A W, m : LastIs(mainQ, W, m) =>
         LastIs(mainQ', W, m) \/ (EventsFor(mainQ', W) = {} /\ o \in W /\ n = m)
  BY <1>2, TailEvents
<1>7. \A W : EventsFor(mainQ, W) = {} => o \notin W
  BY <1>2 DEF EventsFor
<1>8. CastSucceeds(n) /\ container' \in Containers(n) /\ Len(container') = Len(AsArray(n))
      /\ Range(container') = Range(AsArray(n))
  BY <1>1, <1>2, ContainersAre
<1>9. o # Main => o.who # "main"
  BY <1>2 DEF Observers
<1>10. /\ rows' = IF o.who = "main" THEN Len(container') ELSE rows
       /\ filterd' = IF o = Mine /\ screen = "search" THEN container' ELSE filterd
  BY <1>1, <1>2 DEF loadingIsFinished, Mine
<1>11. Main.who = "main"
  BY DEF Main, Observer
<1>12. ASSUME NEW W, Fetching(mainQ, sharedQ, W) PROVE Fetching(mainQ', sharedQ', W)
  <2>1. \A i \in DOMAIN mainQ : mainQ[i].do = "fetch" => \E j \in DOMAIN mainQ' : mainQ'[j] = mainQ[i]
    BY <1>2, TailKeeps
  <2> QED
    BY <2>1, <1>1, <1>12, FetchingKept
<1> HIDE DEF o, n
<1>13. RowsFollow'
  <2>1. CASE LastIs(mainQ, {Main}, shown)
    <3>1. CASE LastIs(mainQ', {Main}, shown)
      BY <3>1, <1>1 DEF RowsFollow
    <3>2. CASE EventsFor(mainQ', {Main}) = {} /\ o \in {Main} /\ n = shown
      <4>1. rows' = Len(AsArray(shown)) /\ CastSucceeds(shown)
        BY <3>2, <1>8, <1>10, <1>11
      <4> QED
        BY <4>1, <3>2, <1>1 DEF RowsFollow
    <3> QED
      BY <2>1, <3>1, <3>2, <1>6
  <2>2. CASE Correcting(sharedQ, shown)
    BY <2>2, <1>1 DEF RowsFollow
  <2>3. CASE EventsFor(mainQ, {Main}) = {} /\ CastSucceeds(shown) /\ rows = Len(AsArray(shown))
    <3>1. rows' = rows
      BY <2>3, <1>7, <1>9, <1>10
    <3> QED
      BY <3>1, <2>3, <1>1, <1>5 DEF RowsFollow
  <2> QED
    BY <2>1, <2>2, <2>3, <1>4 DEF RowsFollow
<1>14. ContainerFollows'
  <2>1. CASE LastIs(mainQ, Observers, shown)
    <3>1. CASE LastIs(mainQ', Observers, shown)
      BY <3>1, <1>1 DEF ContainerFollows
    <3>2. CASE EventsFor(mainQ', Observers) = {} /\ n = shown
      BY <3>2, <1>1, <1>8 DEF ContainerFollows
    <3> QED
      BY <2>1, <3>1, <3>2, <1>6
  <2>2. CASE Correcting(sharedQ, shown)
    BY <2>2, <1>1 DEF ContainerFollows
  <2>3. CASE Fetching(mainQ, sharedQ, Observers)
    BY <2>3, <1>12 DEF ContainerFollows
  <2>4. EventsFor(mainQ, Observers) # {}
    BY <1>2, <1>7 DEF o
  <2> QED
    BY <2>1, <2>2, <2>3, <2>4, <1>4 DEF ContainerFollows
<1>15. screen' = "search" => ListFollows'
  <2> SUFFICES ASSUME screen = "search" PROVE ListFollows'
    BY <1>1
  <2>1. Mine' = Mine
    BY <1>1 DEF Mine
  <2>2. CASE Fetching(mainQ, sharedQ, {Mine})
    BY <2>1, <2>2, <1>12 DEF ListFollows
  <2>3. CASE Mine \in Range(registered) /\ LastIs(mainQ, {Mine}, shown)
    <3>1. CASE LastIs(mainQ', {Mine}, shown)
      BY <3>1, <2>1, <2>3, <1>1 DEF ListFollows
    <3>2. CASE EventsFor(mainQ', {Mine}) = {} /\ o \in {Mine} /\ n = shown
      <4>1. Range(filterd') \subseteq Range(AsArray(shown))
        BY <3>2, <1>8, <1>10
      <4> QED
        BY <4>1, <3>2, <2>1, <2>3, <1>1 DEF ListFollows
    <3> QED
      BY <2>3, <3>1, <3>2, <1>6
  <2>4. CASE /\ Mine \in Range(registered) /\ EventsFor(mainQ, {Mine}) = {}
             /\ Range(filterd) \subseteq Range(AsArray(shown))
    <3>1. filterd' = filterd
      BY <2>4, <1>7, <1>10
    <3> QED
      BY <3>1, <2>1, <2>4, <1>1, <1>5 DEF ListFollows
  <2> QED
    BY <2>2, <2>3, <2>4, <1>4 DEF ListFollows
<1> QED
  BY <1>13, <1>14, <1>15 DEF Follow

\* The removal of dreams s are left of.
LEMMA FollowRemoval ==
    ASSUME Types, Follow, NEW kind \in {"remove", "removeAll"}, Block(kind),
           NEW s \in Seq(Dream), Len(s) <= MaxKey + 1,
           container' = s, sharedQ' = sharedQ \o updateAction(s), rows' = rows \/ rows' = Len(s),
           UNCHANGED <<filterd, screen, shown, registered, searches>>
    PROVE  Follow'
<1>1. mainQ # <<>> /\ mainQ \in Seq(Blocks) /\ mainQ[1].do = kind /\ mainQ' = Tail(mainQ)
      /\ ended = "no" /\ sharedQ \in Seq(Calls)
  BY BlockIs DEF Types, QueueTypes
<1>2. Loaded /\ shown \in Node
  BY BlockLoaded
<1>3. RowsFollow /\ ContainerFollows /\ (screen = "search" => ListFollows)
  BY <1>1, <1>2 DEF Follow
<1>4. \A W : EventsFor(mainQ, W) = {} => EventsFor(mainQ', W) = {}
  BY <1>1, TailEvents
<1>5. \A W, m : LastIs(mainQ, W, m) => LastIs(mainQ', W, m)
  BY <1>1, TailOther
<1>6. updateAction(s) \in Seq(Calls)
  BY UpdateActionIs
<1>7. ASSUME NEW W, Fetching(mainQ, sharedQ, W) PROVE Fetching(mainQ', sharedQ', W)
  <2>1. \A i \in DOMAIN mainQ : mainQ[i].do = "fetch" => \E j \in DOMAIN mainQ' : mainQ'[j] = mainQ[i]
    BY <1>1, TailKeeps
  <2>2. \A i \in DOMAIN sharedQ : \E j \in DOMAIN sharedQ' : sharedQ'[j] = sharedQ[i]
    BY <1>1, <1>6, ConcatKeeps
  <2> QED
    BY <2>1, <2>2, <1>7, FetchingKept
<1>8. Correcting(sharedQ', shown) \/ (shown = Empty /\ s = <<>> /\ ~Correcting(sharedQ, shown))
  BY <1>1, <1>2, <1>6, RemovalCorrects, CorrectingConcat
<1>9. RowsFollow' /\ ContainerFollows'
  <2>1. CASE Correcting(sharedQ', shown)
    BY <2>1 DEF RowsFollow, ContainerFollows
  <2>2. CASE shown = Empty /\ s = <<>> /\ ~Correcting(sharedQ, shown)
    <3>1. Len(AsArray(shown)) = 0 /\ CastSucceeds(shown) /\ <<>> \in Containers(shown) /\ Len(s) = 0
      BY <2>2, EmptyIs
    <3>2. RowsFollow'
      BY <3>1, <2>2, <1>3, <1>4, <1>5 DEF RowsFollow
    <3>3. ContainerFollows'
      BY <3>1, <2>2, <1>3, <1>4, <1>5, <1>7 DEF ContainerFollows
    <3> QED
      BY <3>2, <3>3
  <2> QED
    BY <2>1, <2>2, <1>8
<1>10. screen' = "search" => ListFollows'
  <2>1. Mine' = Mine
    BY DEF Mine
  <2> QED
    BY <2>1, <1>3, <1>4, <1>5, <1>7 DEF ListFollows
<1> QED
  BY <1>9, <1>10 DEF Follow

\* Every block keeps the lists following.
LEMMA FollowMain ==
    ASSUME Types, Follow, MainStep
    PROVE  Follow'
<1>1. CASE RunRemove
  <2>1. Block("remove") /\ UNCHANGED <<filterd, screen, shown, registered, searches>>
    BY <1>1 DEF RunRemove, frontVars, sdkVars, histVars
  <2>2. PICK s \in removeAction(Head(mainQ).dream) :
           /\ container' = s /\ sharedQ' = sharedQ \o updateAction(s)
           /\ rows' = IF Head(mainQ).row = NoRow THEN rows ELSE Len(s)
    BY <1>1 DEF RunRemove
  <2>3. s \in Seq(Dream) /\ Len(s) <= Len(container)
        /\ Len(container) <= MaxKey + 1 /\ Len(container) \in Nat
    BY <2>2, WithoutDateType DEF removeAction, Types, ListTypes
  <2>4. Len(s) <= MaxKey + 1 /\ (rows' = rows \/ rows' = Len(s))
    BY <2>2, <2>3, MaxKeyAssumption
  <2> QED
    BY <2>1, <2>2, <2>3, <2>4, FollowRemoval
<1>2. CASE RunRemoveAll
  <2>1. Block("removeAll") /\ container' = <<>> /\ sharedQ' = sharedQ \o updateAction(<<>>)
        /\ UNCHANGED <<rows, filterd, screen, shown, registered, searches>>
    BY <1>2 DEF RunRemoveAll, frontVars, sdkVars, histVars
  <2>2. <<>> \in Seq(Dream) /\ Len(<<>>) <= MaxKey + 1
    BY MaxKeyAssumption
  <2> QED
    BY <2>1, <2>2, FollowRemoval
<1>3. CASE RunTrap
  BY <1>3 DEF RunTrap, Follow
<1> QED
  BY <1>1, <1>2, <1>3, FollowFetch, FollowEvent DEF MainStep

\* A new snapshot, sent to every observer.
LEMMA FollowShow ==
    ASSUME Types, NEW n \in Node, n # shown, Show(n), Main \in Range(registered),
           UNCHANGED <<registered, screen, searches>>,
           screen = "search" =>
              Mine \in Range(registered) \/ Fetching(mainQ, sharedQ', {Mine})
    PROVE  Follow'
<1>1. shown' = n /\ mainQ' = mainQ \o Raised(registered, n)
  BY ShowIs
<1>2. mainQ \in Seq(Blocks) /\ registered \in Seq(Observers) /\ Raised(registered, n) \in Seq(Blocks)
  BY RaisedType DEF Types, QueueTypes, SdkTypes
<1>3. Main \in {Main} /\ Main \in Observers /\ Mine \in {Mine} /\ Mine' = Mine
  BY Built DEF Mine
<1>4. RowsFollow'
  BY <1>1, <1>2, <1>3, RaisedLast DEF RowsFollow
<1>5. ContainerFollows'
  BY <1>1, <1>2, <1>3, RaisedLast DEF ContainerFollows
<1>6. screen' = "search" => ListFollows'
  <2> SUFFICES ASSUME screen = "search" PROVE ListFollows'
    OBVIOUS
  <2>1. CASE Mine \in Range(registered)
    BY <2>1, <1>1, <1>2, <1>3, RaisedLast DEF ListFollows
  <2>2. CASE Fetching(mainQ, sharedQ', {Mine})
    <3>1. \A i \in DOMAIN mainQ : \E j \in DOMAIN mainQ' : mainQ'[j] = mainQ[i]
      BY <1>1, <1>2, ConcatKeeps
    <3>2. Fetching(mainQ', sharedQ', {Mine})
      BY <3>1, <2>2, FetchingKept
    <3> QED
      BY <3>2, <1>3 DEF ListFollows
  <2> QED
    BY <2>1, <2>2
<1> QED
  BY <1>4, <1>5, <1>6 DEF Follow

\* A new observer gets an event of its own.
LEMMA FollowRegister ==
    ASSUME Types, Follow, addEventRegistration
    PROVE  Follow'
<1>1. sharedQ # <<>> /\ Head(sharedQ).op = "observe" /\ sharedQ' = Tail(sharedQ) /\ ended = "no"
      /\ registered' = Append(registered, Head(sharedQ).for)
      /\ UNCHANGED <<container, rows, filterd, screen, shown, ended, searches>>
  BY DEF addEventRegistration, listVars, frontVars, histVars
<1> SUFFICES ASSUME Loaded PROVE Follow'
  BY <1>1 DEF Follow, Loaded
<1>2. Head(sharedQ) = sharedQ[1] /\ sharedQ[1] \in Calls /\ sharedQ \in Seq(Calls)
      /\ sharedQ[1].for \in Observers /\ mainQ \in Seq(Blocks) /\ shown \in Node
      /\ registered \in Seq(Observers)
  BY <1>1, CallIs, CallFacts DEF Types, QueueTypes, SdkTypes, Loaded
<1> DEFINE o == sharedQ[1].for
           b == EventBlock(o, shown)
<1>3. mainQ' = Append(mainQ, b)
  BY <1>2 DEF addEventRegistration, Loaded
<1>4. b \in Blocks /\ b.do = "event" /\ b.for = o
  BY <1>2, Built DEF EventBlock
<1>5. RowsFollow /\ ContainerFollows /\ (screen = "search" => ListFollows)
  BY <1>1 DEF Follow
<1>6. \A W : o \in W => LastIs(mainQ', W, shown)
  BY <1>2, <1>3, AppendEvent
<1> HIDE DEF b
<1>7. \A W : o \notin W => EventsFor(mainQ', W) = EventsFor(mainQ, W)
                           /\ \A n : LastIs(mainQ, W, n) => LastIs(mainQ', W, n)
  BY <1>2, <1>3, <1>4, AppendOther
<1>8. Correcting(sharedQ, shown) => Correcting(sharedQ', shown)
  BY <1>1, <1>2, CorrectingTail
<1>9. o \in Range(registered') /\ Range(registered) \subseteq Range(registered')
  <2>1. DOMAIN registered' = 1 .. Len(registered) + 1 /\ registered'[Len(registered) + 1] = o
        /\ Len(registered) \in Nat /\ DOMAIN registered = 1 .. Len(registered)
        /\ \A i \in 1 .. Len(registered) : registered'[i] = registered[i]
    BY <1>1, <1>2
  <2> HIDE DEF o
  <2> QED
    BY <2>1 DEF Range
<1>10. ASSUME NEW W, Fetching(mainQ, sharedQ, W), o \notin W PROVE Fetching(mainQ', sharedQ', W)
  <2>1. \A i \in DOMAIN mainQ : \E j \in DOMAIN mainQ' : mainQ'[j] = mainQ[i]
    <3>1. \A i \in DOMAIN mainQ : i \in DOMAIN mainQ' /\ mainQ'[i] = mainQ[i]
      BY <1>2, <1>3, <1>4
    <3> QED
      BY <3>1
  <2>2. \A i \in DOMAIN sharedQ : sharedQ[i].for \in W => \E j \in DOMAIN sharedQ' : sharedQ'[j] = sharedQ[i]
    BY <1>1, <1>2, <1>10, TailKeeps
  <2> QED
    BY <2>1, <2>2, <1>10, FetchingKept
<1> HIDE DEF o
<1>11. RowsFollow'
  <2>1. CASE o = Main
    <3>1. LastIs(mainQ', {Main}, shown')
      BY <2>1, <1>1, <1>6
    <3> QED
      BY <3>1 DEF RowsFollow
  <2>2. CASE o # Main
    <3>1. o \notin {Main}
      BY <2>2
    <3>2. EventsFor(mainQ', {Main}) = EventsFor(mainQ, {Main})
          /\ (LastIs(mainQ, {Main}, shown) => LastIs(mainQ', {Main}, shown))
      BY <3>1, <1>7
    <3> QED
      BY <3>2, <1>1, <1>5, <1>8 DEF RowsFollow
  <2> QED
    BY <2>1, <2>2
<1>12. ContainerFollows'
  <2>1. LastIs(mainQ', Observers, shown')
    BY <1>1, <1>2, <1>6 DEF o
  <2> QED
    BY <2>1 DEF ContainerFollows
<1>13. screen' = "search" => ListFollows'
  <2> SUFFICES ASSUME screen = "search" PROVE ListFollows'
    BY <1>1
  <2>1. Mine' = Mine
    BY <1>1 DEF Mine
  <2>2. CASE o = Mine
    <3>1. LastIs(mainQ', {Mine}, shown')
      BY <2>2, <1>1, <1>6
    <3> QED
      BY <3>1, <2>1, <2>2, <1>9 DEF ListFollows
  <2>3. CASE o # Mine
    <3>1. o \notin {Mine}
      BY <2>3
    <3>2. EventsFor(mainQ', {Mine}) = EventsFor(mainQ, {Mine})
          /\ (LastIs(mainQ, {Mine}, shown) => LastIs(mainQ', {Mine}, shown))
          /\ (Fetching(mainQ, sharedQ, {Mine}) => Fetching(mainQ', sharedQ', {Mine}))
      BY <3>1, <1>7, <1>10
    <3> QED
      BY <3>2, <2>1, <1>1, <1>5, <1>9 DEF ListFollows
  <2> QED
    BY <2>2, <2>3
<1> QED
  BY <1>11, <1>12, <1>13 DEF Follow

\* A write changes nothing, or is an event for everybody.
LEMMA FollowOverwrite ==
    ASSUME Types, Follow, MainObserves, ApplyUserOverwrite
    PROVE  Follow'
<1> DEFINE n == Applied(shown, sharedQ[1])
<1>1. Loaded /\ shown \in Node /\ sharedQ # <<>> /\ sharedQ[1].op # "observe"
      /\ sharedQ' = Tail(sharedQ) /\ ended = "no" /\ n \in Node /\ Show(n)
  BY OverwriteIs
<1>2. UNCHANGED <<container, rows, filterd, screen, registered, ended, searches>>
  BY DEF ApplyUserOverwrite, listVars, frontVars, histVars
<1>3. sharedQ \in Seq(Calls) /\ mainQ \in Seq(Blocks)
  BY DEF Types, QueueTypes
<1>4. RowsFollow /\ ContainerFollows /\ (screen = "search" => ListFollows)
  BY <1>1 DEF Follow
<1>5. ASSUME NEW W, Fetching(mainQ, sharedQ, W) PROVE Fetching(mainQ, sharedQ', W)
  <2>1. \A i \in DOMAIN sharedQ : sharedQ[i].op = "observe" => \E j \in DOMAIN sharedQ' : sharedQ'[j] = sharedQ[i]
    BY <1>1, <1>3, TailKeeps
  <2> QED
    BY <2>1, <1>5, FetchingKept
<1>6. Mine' = Mine
  BY <1>2 DEF Mine
<1>7. CASE n = shown
  <2>1. shown' = shown /\ mainQ' = mainQ
    BY <1>1, <1>7, ShowIs
  <2>2. Correcting(sharedQ, shown) => Correcting(sharedQ', shown)
    BY <1>1, <1>3, <1>7, CorrectingTail
  <2>3. RowsFollow'
    BY <2>1, <2>2, <1>2, <1>4 DEF RowsFollow
  <2>4. ContainerFollows'
    BY <2>1, <2>2, <1>2, <1>4, <1>5 DEF ContainerFollows
  <2>5. screen' = "search" => ListFollows'
    BY <2>1, <1>2, <1>4, <1>5, <1>6 DEF ListFollows
  <2> QED
    BY <2>3, <2>4, <2>5 DEF Follow
<1>8. CASE n # shown
  <2>1. Main \in Range(registered)
    BY <1>1 DEF MainObserves
  <2>2. screen = "search" => Mine \in Range(registered) \/ Fetching(mainQ, sharedQ', {Mine})
    BY <1>4, <1>5 DEF ListFollows
  <2> HIDE DEF n
  <2> QED
    BY <2>1, <2>2, <1>1, <1>2, <1>8, FollowShow
<1> QED
  BY <1>7, <1>8

\* So is a value from the server.
LEMMA FollowNews ==
    ASSUME Types, Follow, MainObserves, NEW n \in Node, Load(n) \/ Push(n)
    PROVE  Follow'
<1>1. Show(n) /\ UNCHANGED <<registered, screen, searches, sharedQ>> /\ n # shown /\ ended = "no"
  BY UnknownAssumption DEF Load, Push, frontVars
<1>2. Main \in Range(registered)
  <2>1. CASE Loaded
    BY <2>1 DEF MainObserves
  <2>2. CASE ~Loaded
    <3>1. registered # <<>> /\ registered \in Seq(Observers)
      BY <2>2 DEF Load, Push, Loaded, Types, SdkTypes
    <3>2. 1 \in DOMAIN registered
      BY <3>1
    <3>3. registered[1] = Main
      BY <3>2, <2>2 DEF Types, Started
    <3> QED
      BY <3>2, <3>3 DEF Range
  <2> QED
    BY <2>1, <2>2
<1>3. screen = "search" => Mine \in Range(registered) \/ Fetching(mainQ, sharedQ', {Mine})
  <2> SUFFICES ASSUME screen = "search" PROVE Mine \in Range(registered) \/ Fetching(mainQ, sharedQ, {Mine})
    BY <1>1
  <2>1. Loaded
    BY DEF Types, Started
  <2> QED
    BY <2>1, <1>1 DEF Follow, ListFollows
<1> QED
  BY <1>1, <1>2, <1>3, FollowShow

\* MainVC stays registered.
LEMMA ObservesStep ==
    ASSUME Types, MainObserves, [Next]_vars
    PROVE  MainObserves'
<1>1. registered \in Seq(Observers)
  BY DEF Types, SdkTypes
<1>2. CASE UserStep \/ MainStep \/ UNCHANGED vars
  <2>1. UNCHANGED <<registered, shown>>
    BY <1>2 DEF UserStep, DateCheckAndSave, ConfirmReplace, SwipeRow, OpenPage, allDeleteBtn, ClosePage,
         selectedDeleteBtnAction, ConfirmDelete, ConfirmDeleteAll, CancelAlert,
         OpenSearch, Refresh, OpenStars, moveToMainBtnAction, textDidChange,
         MainStep, RunFetch, RunEvent, RunTrap, RunRemove, RunRemoveAll, sdkVars, vars
  <2> QED
    BY <2>1 DEF MainObserves, Loaded
<1>3. CASE addEventRegistration
  <2>1. shown' = shown /\ registered' = Append(registered, Head(sharedQ).for)
    BY <1>3 DEF addEventRegistration
  <2>2. Range(registered) \subseteq Range(registered')
    <3>1. \A i \in DOMAIN registered : i \in DOMAIN registered' /\ registered'[i] = registered[i]
      BY <2>1, <1>1
    <3> QED
      BY <3>1 DEF Range
  <2> QED
    BY <2>1, <2>2 DEF MainObserves, Loaded
<1>4. CASE ApplyUserOverwrite
  <2>1. Loaded /\ registered' = registered
    BY <1>4, OverwriteIs DEF ApplyUserOverwrite
  <2> QED
    BY <2>1 DEF MainObserves
<1>5. CASE \E n \in Node : Load(n) \/ Push(n)
  <2>1. registered' = registered
    BY <1>5 DEF Load, Push
  <2>2. CASE Loaded
    BY <2>1, <2>2 DEF MainObserves
  <2>3. CASE ~Loaded
    <3>1. registered # <<>>
      BY <1>5, <2>3 DEF Load, Push, Loaded
    <3>2. 1 \in DOMAIN registered
      BY <3>1, <1>1
    <3>3. registered[1] = Main
      BY <3>2, <2>3 DEF Types, Started
    <3> QED
      BY <2>1, <3>2, <3>3 DEF Range, MainObserves
  <2> QED
    BY <2>2, <2>3
<1> QED
  BY <1>2, <1>3, <1>4, <1>5 DEF Next

FollowInv == Types /\ MainObserves /\ Follow

\* Nothing is loaded at the start.
LEMMA FollowInit == Init => FollowInv
<1> SUFFICES ASSUME Init PROVE FollowInv
  OBVIOUS
<1>1. Types /\ ~Loaded
  BY TypesInit DEF Init, Loaded
<1> QED
  BY <1>1 DEF FollowInv, MainObserves, Follow

\* Every step keeps the lists following.
LEMMA FollowStep == FollowInv /\ [Next]_vars => FollowInv'
<1> SUFFICES ASSUME Types, MainObserves, Follow, [Next]_vars PROVE Types' /\ MainObserves' /\ Follow'
  BY DEF FollowInv
<1>1. Types' /\ MainObserves'
  BY TypesStep, ObservesStep
<1> SUFFICES Follow'
  BY <1>1
<1>2. CASE UNCHANGED vars
  BY <1>2 DEF vars, listVars, frontVars, sdkVars, histVars, Follow, Loaded, RowsFollow,
     ContainerFollows, ListFollows, Mine
<1> QED
  BY <1>2, FollowUser, FollowMain, FollowRegister, FollowOverwrite, FollowNews DEF Next

\* Whatever was saved, removed, searched, refreshed or changed by another
\* device: whenever nothing is under way MainVC's table has as many rows as
\* the container has dreams.
THEOREM TableStaysFit == Spec => []TableFits
<1>1. FollowInv => TableFits
  <2> SUFFICES ASSUME Types, Follow, ended = "no", mainQ = <<>>, sharedQ = <<>>
               PROVE  rows = Len(container)
    BY DEF FollowInv, TableFits, Idle
  <2>1. CASE Loaded
    <3>1. \A i \in DOMAIN mainQ : mainQ[i].do \notin {"fetch", "event"}
      OBVIOUS
    <3> QED
      BY <2>1, <3>1, AtRest, ContainersAre
  <2>2. CASE ~Loaded
    <3>1. container = <<>> /\ rows = 0
      BY <2>2 DEF Types, Started
    <3> QED
      BY <3>1
  <2> QED
    BY <2>1, <2>2
<1> QED
  BY <1>1, FollowInit, FollowStep, PTL DEF Spec

\* And the search list in front shows only dreams of the container, though
\* neither a refresh nor a removal from a page updates it.
THEOREM NoRowGoesStale == Spec => []NoStaleRow
<1>1. FollowInv => NoStaleRow
  <2> SUFFICES ASSUME Types, Follow, ended = "no", mainQ = <<>>, sharedQ = <<>>, screen = "search"
               PROVE  Range(filterd) \subseteq Range(container)
    BY DEF FollowInv, NoStaleRow, Idle
  <2>1. Loaded
    BY DEF Types, Started
  <2>2. \A i \in DOMAIN mainQ : mainQ[i].do \notin {"fetch", "event"}
    OBVIOUS
  <2> QED
    BY <2>1, <2>2, AtRest, ContainersAre
<1> QED
  BY <1>1, FollowInit, FollowStep, PTL DEF Spec

-----------------------------------------------------------------------------
(* One user on one device, no date saved twice. *)

Distinct(s) ==
    \A i, j \in DOMAIN s : i # j => s[i].writedDate # s[j].writedDate

\* A node without a date twice makes a container without one.
LEMMA ContainerDistinct ==
    ASSUME NEW n \in Node, CastSucceeds(n), ~DateTwice(n), NEW s \in Containers(n)
    PROVE  Distinct(s)
<1>1. PICK m \in 0 .. MaxKey + 1 : Present(n) = 0 .. m - 1 /\ Cardinality(Present(n)) = m
  BY ReadableKeys
<1>2. AsArray(n) = [i \in 1 .. m |-> n[i - 1]] /\ m \in Nat
  BY <1>1, MaxKeyAssumption DEF AsArray
<1> DEFINE a == AsArray(n)
<1>3. DOMAIN a = 1 .. m /\ \A i \in 1 .. m : a[i] = n[i - 1]
  BY <1>2
<1>4. PICK p \in Bijection(DOMAIN a, DOMAIN a) : s = [i \in DOMAIN a |-> a[p[i]]]
  BY DEF Containers, ascendingOrder, Reorderings
<1>5. p \in [DOMAIN a -> DOMAIN a] /\ \A i, j \in DOMAIN a : p[i] = p[j] => i = j
  BY DEF Bijection, Injection, IsInjective
<1> HIDE DEF a
<1>6. ASSUME NEW i \in DOMAIN s, NEW j \in DOMAIN s, i # j PROVE s[i].writedDate # s[j].writedDate
  <2>1. i \in 1 .. m /\ j \in 1 .. m /\ p[i] \in 1 .. m /\ p[j] \in 1 .. m /\ p[i] # p[j]
    BY <1>3, <1>4, <1>5, <1>6
  <2>2. s[i] = n[p[i] - 1] /\ s[j] = n[p[j] - 1]
    BY <2>1, <1>3, <1>4
  <2>3. p[i] - 1 \in Present(n) /\ p[j] - 1 \in Present(n) /\ p[i] - 1 # p[j] - 1
    BY <2>1, <1>1, <1>2
  <2> QED
    BY <2>2, <2>3 DEF DateTwice
<1> QED
  BY <1>6 DEF Distinct

\* removeAll(where:) keeps dates apart, and takes one dream away if the date
\* is that of a dream.
LEMMA RemovalDistinct ==
    ASSUME NEW s \in Seq(Dream), Distinct(s), NEW date, NEW t \in WithoutDate(s, date)
    PROVE  Distinct(t)
<1> DEFINE I == {i \in DOMAIN s : s[i].writedDate # date}
<1>1. t \in Subarrays(s, I) /\ I \in SUBSET DOMAIN s
  BY DEF WithoutDate
<1> HIDE DEF I
<1>2. t \in Seq(Dream)
  BY <1>1, SubarrayIs
<1>3. PICK f \in [1 .. Len(t) -> I] : /\ \A i \in 1 .. Len(t) : t[i] = s[f[i]]
                                      /\ \A i, j \in 1 .. Len(t) : i < j => f[i] < f[j]
  BY <1>1, SubarrayIs
<1>4. ASSUME NEW i \in DOMAIN t, NEW j \in DOMAIN t, i # j PROVE t[i].writedDate # t[j].writedDate
  <2>1. i \in 1 .. Len(t) /\ j \in 1 .. Len(t) /\ Len(t) \in Nat
    BY <1>2
  <2>2. f[i] \in DOMAIN s /\ f[j] \in DOMAIN s /\ f[i] \in Nat /\ f[j] \in Nat
    BY <2>1, <1>1, <1>3
  <2>3. f[i] # f[j]
    BY <2>1, <2>2, <1>3, <1>4
  <2> QED
    BY <2>1, <2>2, <2>3, <1>3 DEF Distinct
<1> QED
  BY <1>4 DEF Distinct

\* With different dates removeAction takes one dream.
LEMMA RemovalTakesOne ==
    ASSUME NEW s \in Seq(Dream), Distinct(s), NEW row \in DOMAIN s,
           NEW t \in WithoutDate(s, s[row].writedDate)
    PROVE  Len(t) = Len(s) - 1
<1> DEFINE I == {i \in DOMAIN s : s[i].writedDate # s[row].writedDate}
<1>1. t \in Subarrays(s, I) /\ I \in SUBSET DOMAIN s
  BY DEF WithoutDate
<1>2. I = (1 .. Len(s)) \ {row} /\ row \in 1 .. Len(s) /\ Len(s) \in Nat
  BY DEF Distinct
<1> HIDE DEF I
<1>3. Len(t) = Cardinality(I)
  BY <1>1, SubarrayIs
<1>4. \A m \in Nat : IsFiniteSet(1 .. m) /\ Cardinality(1 .. m) = m
  BY FS_Interval
<1>5. IsFiniteSet(1 .. Len(s)) /\ Cardinality(1 .. Len(s)) = Len(s)
  BY <1>2, <1>4
<1>6. Cardinality((1 .. Len(s)) \ {row}) = Cardinality(1 .. Len(s)) - 1
  BY <1>2, <1>5, FS_RemoveElement
<1> QED
  BY <1>2, <1>3, <1>5, <1>6

\* The calls of updateAction have one removal, the first, and dates apart.
LEMMA UpdateActionDistinct ==
    ASSUME NEW s \in Seq(Dream), Len(s) <= MaxKey + 1, Distinct(s)
    PROVE  LET q == updateAction(s)
           IN  /\ 1 \in DOMAIN q /\ q[1].op = "remove"
               /\ \A i \in DOMAIN q : q[i].op = "remove" => i = 1
               /\ \A i, j \in DOMAIN q : i # j /\ q[i].op = "set" /\ q[j].op = "set" =>
                     q[i].dream.writedDate # q[j].dream.writedDate
<1> DEFINE q == updateAction(s)
<1>1. q \in Seq(Calls) /\ Len(q) = Len(s) + 1 /\ q[1] = RemoveCall
      /\ \A i \in 2 .. Len(s) + 1 : q[i] = SetCall(i - 2, s[i - 1])
  BY UpdateActionIs
<1> HIDE DEF q
<1>2. DOMAIN q = 1 .. Len(s) + 1 /\ Len(s) \in Nat /\ q[1].op = "remove"
  BY <1>1 DEF RemoveCall
<1>3. ASSUME NEW i \in DOMAIN q, i # 1
      PROVE  q[i].op = "set" /\ q[i].dream = s[i - 1] /\ i - 1 \in DOMAIN s /\ i \in Nat
  <2>1. i \in 2 .. Len(s) + 1 /\ i - 1 \in DOMAIN s
    BY <1>2, <1>3
  <2>2. q[i] = SetCall(i - 2, s[i - 1])
    BY <2>1, <1>1
  <2> QED
    BY <2>1, <2>2, <1>2 DEF SetCall
<1>4. ASSUME NEW i \in DOMAIN q, NEW j \in DOMAIN q, i # j, q[i].op = "set", q[j].op = "set"
      PROVE  q[i].dream.writedDate # q[j].dream.writedDate
  <2>1. i # 1 /\ j # 1
    BY <1>2, <1>4
  <2>2. i - 1 \in DOMAIN s /\ j - 1 \in DOMAIN s /\ i - 1 # j - 1
    BY <2>1, <1>3, <1>4
  <2> QED
    BY <2>1, <2>2, <1>3 DEF Distinct
<1> QED
  BY <1>2, <1>3, <1>4 DEF q

\* Nothing about dates changes with the snapshot and the calls.
LEMMA DatesFrame ==
    ASSUME DatesDiffer, UNCHANGED <<shown, sharedQ>>
    PROVE  DatesDiffer'
BY DEF DatesDiffer, DatesApart, DateTwice

\* With nothing in the queues only the snapshot's dates matter.
LEMMA DatesNoCalls ==
    ASSUME ~DateTwice(shown)', \A i \in DOMAIN sharedQ' : sharedQ'[i].op = "observe"
    PROVE  DatesDiffer'
BY DEF DatesDiffer, DatesApart

\* A new date is saved.
LEMMA DatesSave ==
    ASSUME Types, Follow, DatesDiffer, Ready, NEW x \in Dream, DateCheckAndSave(x)
    PROVE  DatesDiffer'
<1>1. sharedQ = <<>> /\ shown \in Node
  BY ReadyFacts
<1>2. shown' = shown
  BY DEF DateCheckAndSave, sdkVars
<1>3. CASE \E i \in DOMAIN container : container[i].writedDate = x.writedDate
  <2>1. sharedQ' = sharedQ
    BY <1>3 DEF DateCheckAndSave
  <2> QED
    BY <2>1, <1>2, DatesFrame
<1>4. CASE ~\E i \in DOMAIN container : container[i].writedDate = x.writedDate
  <2> DEFINE c == saveAction(x)
  <2>1. sharedQ' = Append(sharedQ, c)
    BY <1>4 DEF DateCheckAndSave
  <2>2. c.op = "set" /\ c.dream = x
    BY DEF saveAction, SetCall
  <2> HIDE DEF c
  <2>3. sharedQ' = <<c>>
    BY <2>1, <1>1
  <2>4. DOMAIN sharedQ' = {1} /\ sharedQ'[1] = c
    BY <2>3
  <2>5. ASSUME NEW k \in Present(shown) PROVE x.writedDate # shown[k].writedDate
    <3>1. CastSucceeds(shown) /\ container \in Containers(shown)
      BY ReadyFollows
    <3>2. shown[k] \in Range(container)
      BY <3>1, <1>1, PresentInArray, ContainersAre
    <3>3. PICK i \in DOMAIN container : container[i] = shown[k]
      BY <3>2 DEF Range
    <3> QED
      BY <3>3, <1>4
  <2>6. ~DateTwice(shown)'
    BY <1>2 DEF DatesDiffer, DatesApart, DateTwice
  <2> QED
    BY <2>2, <2>4, <2>5, <2>6, <1>2 DEF DatesDiffer, DatesApart
<1> QED
  BY <1>3, <1>4

\* What the user does: alerts name rows, and a save a new date.
LEMMA CalmUser ==
    ASSUME Types, Follow, Calm, UserStep
    PROVE  Calm'
<1>1. Ready
  BY DEF UserStep, DateCheckAndSave, ConfirmReplace, SwipeRow, OpenPage, allDeleteBtn, ClosePage,
         selectedDeleteBtnAction, ConfirmDelete, ConfirmDeleteAll, CancelAlert,
         OpenSearch, Refresh, OpenStars, moveToMainBtnAction, textDidChange, Tap, Answer
<1>2. Loaded /\ mainQ = <<>> /\ sharedQ = <<>> /\ ended = "no" /\ shown \in Node
  BY <1>1, ReadyFacts
<1>3. UNCHANGED <<ended, shown, registered, others>> /\ (replaced' = replaced \/ (ConfirmReplace /\ replaced' = TRUE))
  BY DEF UserStep, DateCheckAndSave, ConfirmReplace, SwipeRow, OpenPage, allDeleteBtn, ClosePage,
         selectedDeleteBtnAction, ConfirmDelete, ConfirmDeleteAll, CancelAlert,
         OpenSearch, Refresh, OpenStars, moveToMainBtnAction, textDidChange, sdkVars, histVars
<1> SUFFICES ASSUME ~others, ~replaced, replaced' = replaced, ~replaced' PROVE RowsNamed' /\ DatesDiffer'
  BY <1>3 DEF Calm
<1>4. RowsNamed /\ DatesDiffer
  BY <1>2 DEF Calm
<1>5. ~ConfirmReplace
  BY DEF ConfirmReplace
<1>6. alert \in Alerts
  BY DEF Types, FrontTypes
<1>7. ASSUME UNCHANGED sharedQ PROVE DatesDiffer'
  BY <1>3, <1>4, <1>7, DatesFrame
<1>8. ASSUME mainQ' = <<>>, alert' = NoAlert PROVE RowsNamed'
  BY <1>8 DEF RowsNamed, NoAlert
<1>9. CASE \E x \in Dream : DateCheckAndSave(x)
  <2>1. PICK x \in Dream : DateCheckAndSave(x)
    BY <1>9
  <2>2. DatesDiffer'
    BY <2>1, <1>1, <1>4, DatesSave
  <2>3. mainQ' = <<>> /\ alert = NoAlert
    BY <2>1, <1>2 DEF DateCheckAndSave, Tap
  <2>4. \/ alert' = NoAlert
        \/ sharedQ' = <<>> /\ alert' = [asks |-> "replace", dream |-> x]
    BY <2>1, <2>3, <1>2 DEF DateCheckAndSave
  <2>5. RowsNamed'
    <3>1. CASE alert' = NoAlert
      BY <3>1, <2>3, <1>8
    <3>2. CASE sharedQ' = <<>> /\ alert' = [asks |-> "replace", dream |-> x]
      BY <3>2, <2>3 DEF RowsNamed, Idle
    <3> QED
      BY <3>1, <3>2, <2>4
  <2> QED
    BY <2>2, <2>5
<1>10. CASE \E row \in 1 .. MaxKey + 1 : SwipeRow(row)
  <2>1. PICK row \in 1 .. MaxKey + 1 : SwipeRow(row)
    BY <1>10
  <2>2. UNCHANGED <<container, mainQ, sharedQ>> /\ row \in DOMAIN container
        /\ alert' = [asks |-> "delete", dream |-> container[row], row |-> row]
    BY <2>1 DEF SwipeRow, listVars
  <2> QED
    BY <2>2, <1>2, <1>7 DEF RowsNamed, Idle
<1>11. CASE selectedDeleteBtnAction \/ allDeleteBtn
  <2>1. UNCHANGED <<mainQ, sharedQ>>
        /\ \/ alert' = [asks |-> "delete", dream |-> page, row |-> NoRow]
           \/ alert' = [asks |-> "deleteAll"]
    BY <1>11 DEF selectedDeleteBtnAction, allDeleteBtn
  <2> QED
    BY <2>1, <1>2, <1>7 DEF RowsNamed, Idle
<1>12. CASE \/ \E row \in 1 .. MaxKey + 1 : OpenPage(row)
            \/ ClosePage \/ CancelAlert \/ OpenStars \/ moveToMainBtnAction
            \/ \E M \in Matches : textDidChange(M)
  <2>1. UNCHANGED <<mainQ, sharedQ>> /\ alert' = NoAlert
    BY <1>12 DEF OpenPage, ClosePage, CancelAlert, Tap, Answer, OpenStars, moveToMainBtnAction,
       textDidChange, frontVars
  <2> QED
    BY <2>1, <1>2, <1>7, <1>8
<1>13. CASE OpenSearch \/ Refresh
  <2>1. sharedQ' = sharedQ /\ alert' = NoAlert
    BY <1>13 DEF OpenSearch, Refresh, Tap, frontVars
  <2>2. PICK o : mainQ' = Append(mainQ, FetchBlock(o))
    BY <1>13 DEF OpenSearch, Refresh
  <2>3. FetchBlock(o).do = "fetch"
    BY DEF FetchBlock
  <2>4. mainQ' = <<FetchBlock(o)>>
    BY <2>2, <1>2
  <2>5. \A i \in DOMAIN mainQ' : mainQ'[i].do = "fetch"
    BY <2>3, <2>4
  <2>6. RowsNamed'
    BY <2>1, <2>5 DEF RowsNamed, NoAlert
  <2> QED
    BY <2>1, <2>6, <1>7
<1>14. CASE ConfirmDelete \/ ConfirmDeleteAll
  <2>1. UNCHANGED <<container, sharedQ>> /\ alert' = NoAlert
    BY <1>14 DEF ConfirmDelete, ConfirmDeleteAll, Answer, listVars
  <2>2. PICK b : mainQ' = Append(mainQ, b) /\
                 \/ b = RemoveAllBlock
                 \/ alert.asks = "delete" /\ b = RemoveBlock(alert.dream, alert.row)
    BY <1>14 DEF ConfirmDelete, ConfirmDeleteAll, Answer
  <2>3. mainQ' = <<b>>
    BY <2>2, <1>2
  <2>4. Len(mainQ') = 1 /\ \A i \in DOMAIN mainQ' : mainQ'[i] = b
    BY <2>3
  <2>5. b.do = "remove" /\ b.row # NoRow => b.row \in DOMAIN container /\ container[b.row] = b.dream
    BY <2>2, <1>4 DEF RowsNamed, RemoveAllBlock, RemoveBlock
  <2>6. RowsNamed'
    BY <2>1, <2>4, <2>5, <1>2 DEF RowsNamed, NoAlert
  <2> QED
    BY <2>1, <2>6, <1>7
<1> QED
  BY <1>5, <1>9, <1>10, <1>11, <1>12, <1>13, <1>14 DEF UserStep

\* Queues without removals, and no alert: no row is named.
LEMMA NoneNamed ==
    ASSUME alert' = NoAlert, \A i \in DOMAIN mainQ' : mainQ'[i].do \in {"fetch", "event"}
    PROVE  RowsNamed'
BY DEF RowsNamed, NoAlert

\* While a fetch, an event or a call is at work there is no alert and no
\* removal in the queue.
LEMMA BusyIs ==
    ASSUME Types, RowsNamed,
           \/ mainQ # <<>> /\ mainQ[1].do \in {"fetch", "event"}
           \/ sharedQ # <<>>
    PROVE  alert = NoAlert /\ \A i \in DOMAIN mainQ : mainQ[i].do \in {"fetch", "event"}
<1>1. mainQ \in Seq(Blocks)
  BY DEF Types, QueueTypes
<1>2. alert = NoAlert
  BY DEF RowsNamed, Idle
<1>3. ASSUME NEW i \in DOMAIN mainQ PROVE mainQ[i].do \in {"fetch", "event"}
  <2>1. mainQ[i] \in Blocks /\ i \in 1 .. Len(mainQ)
    BY <1>1
  <2>2. mainQ[i].do \in {"fetch", "event", "remove", "removeAll"}
    BY <2>1 DEF Blocks, RemoveAllBlock
  <2>3. ASSUME mainQ[i].do \in {"remove", "removeAll"} PROVE FALSE
    <3>1. Len(mainQ) = 1 /\ sharedQ = <<>>
      BY <2>3 DEF RowsNamed
    <3>2. i = 1
      BY <3>1, <2>1
    <3> QED
      BY <3>1, <3>2, <2>3
  <2> QED
    BY <2>2, <2>3
<1> QED
  BY <1>2, <1>3

\* The end of a queue of such blocks, and more of them.
LEMMA BusyTail ==
    ASSUME NEW q \in Seq(Blocks), q # <<>>, \A i \in DOMAIN q : q[i].do \in {"fetch", "event"}
    PROVE  \A i \in DOMAIN Tail(q) : Tail(q)[i].do \in {"fetch", "event"}
<1>1. Len(q) \in Nat /\ Len(q) > 0 /\ DOMAIN Tail(q) = 1 .. Len(q) - 1
      /\ (\A i \in 1 .. Len(q) - 1 : Tail(q)[i] = q[i + 1]) /\ DOMAIN q = 1 .. Len(q)
  OBVIOUS
<1> QED
  BY <1>1

\* Events queued behind them.
LEMMA BusyRaised ==
    ASSUME NEW q \in Seq(Blocks), \A i \in DOMAIN q : q[i].do \in {"fetch", "event"},
           NEW R \in Seq(Observers), NEW n \in Node
    PROVE  \A i \in DOMAIN (q \o Raised(R, n)) : (q \o Raised(R, n))[i].do \in {"fetch", "event"}
<1> DEFINE r == Raised(R, n)
           p == q \o r
<1>1. r \in Seq(Blocks) /\ Len(r) = Len(R) /\ \A i \in 1 .. Len(R) : r[i] = EventBlock(R[i], n)
  BY RaisedType
<1> HIDE DEF r
<1>2. Len(q) \in Nat /\ Len(R) \in Nat /\ DOMAIN q = 1 .. Len(q)
  OBVIOUS
<1>3. DOMAIN p = 1 .. Len(q) + Len(R) /\ (\A i \in 1 .. Len(q) : p[i] = q[i])
      /\ \A i \in 1 .. Len(R) : p[Len(q) + i] = r[i]
  BY <1>1, <1>2, SMTT(30)
<1> HIDE DEF p
<1>4. ASSUME NEW i \in DOMAIN p PROVE p[i].do \in {"fetch", "event"}
  <2>1. CASE i <= Len(q)
    <3>1. i \in 1 .. Len(q)
      BY <2>1, <1>2, <1>3
    <3> QED
      BY <3>1, <1>2, <1>3
  <2>2. CASE i > Len(q)
    <3>1. i - Len(q) \in 1 .. Len(R) /\ i = Len(q) + (i - Len(q))
      BY <2>2, <1>2, <1>3
    <3>2. p[i] = EventBlock(R[i - Len(q)], n)
      BY <3>1, <1>1, <1>3
    <3> QED
      BY <3>2 DEF EventBlock
  <2> QED
    BY <2>1, <2>2, <1>2, <1>3
<1> QED
  BY <1>4 DEF p, r

\* Fetches and events name no row.
LEMMA CalmFetch ==
    ASSUME Types, Calm, RunFetch \/ RunEvent
    PROVE  Calm'
<1>1. ended = "no" /\ UNCHANGED <<ended, shown, others, replaced, alert>>
      /\ mainQ # <<>> /\ mainQ' = Tail(mainQ) /\ mainQ \in Seq(Blocks)
      /\ mainQ[1].do \in {"fetch", "event"}
  <2>1. PICK kind \in {"fetch", "event"} : Block(kind)
    BY DEF RunFetch, RunEvent
  <2>2. UNCHANGED <<ended, shown, others, replaced, alert>>
    BY DEF RunFetch, RunEvent, sdkVars, histVars, frontVars
  <2> QED
    BY <2>1, <2>2, BlockIs DEF Types, QueueTypes
<1> SUFFICES ASSUME Loaded, ~others, ~replaced PROVE RowsNamed' /\ DatesDiffer'
  BY <1>1 DEF Calm, Loaded
<1>2. RowsNamed /\ DatesDiffer
  BY <1>1 DEF Calm
<1>3. alert = NoAlert /\ \A i \in DOMAIN mainQ : mainQ[i].do \in {"fetch", "event"}
  BY <1>1, <1>2, BusyIs
<1>4. RowsNamed'
  <2>1. \A i \in DOMAIN mainQ' : mainQ'[i].do \in {"fetch", "event"}
    BY <1>1, <1>3, BusyTail
  <2> QED
    BY <2>1, <1>1, <1>3, NoneNamed
<1>5. DatesDiffer'
  <2>1. CASE RunEvent
    BY <2>1, <1>1, <1>2, DatesFrame DEF RunEvent
  <2>2. CASE RunFetch
    <3> DEFINE c == ObserveCall(Head(mainQ).for)
    <3>1. sharedQ' = Append(sharedQ, c) /\ c.op = "observe" /\ sharedQ \in Seq(Calls)
      BY <2>2 DEF RunFetch, ObserveCall, Types, QueueTypes
    <3> HIDE DEF c
    <3>2. DOMAIN sharedQ' = 1 .. Len(sharedQ) + 1 /\ DOMAIN sharedQ = 1 .. Len(sharedQ)
          /\ Len(sharedQ) \in Nat /\ sharedQ'[Len(sharedQ) + 1] = c
          /\ \A i \in 1 .. Len(sharedQ) : sharedQ'[i] = sharedQ[i]
      BY <3>1
    <3>3. ASSUME NEW i \in DOMAIN sharedQ', sharedQ'[i].op # "observe"
          PROVE  i \in DOMAIN sharedQ /\ sharedQ'[i] = sharedQ[i]
      BY <3>1, <3>2, <3>3
    <3>4. (\A i \in DOMAIN sharedQ' : sharedQ'[i].op # "remove") =>
             \A i \in DOMAIN sharedQ : sharedQ[i].op # "remove"
      BY <3>2
    <3>5. ~DateTwice(shown)'
      BY <1>1, <1>2 DEF DatesDiffer, DatesApart, DateTwice
    <3> QED
      BY <3>3, <3>4, <3>5, <1>1, <1>2 DEF DatesDiffer, DatesApart
  <2> QED
    BY <2>1, <2>2
<1> QED
  BY <1>4, <1>5

\* A removal, when it is all that is under way: deleteRows fits.
LEMMA CalmRemoval ==
    ASSUME Types, Follow, Calm, ~others, ~replaced,
           NEW kind \in {"remove", "removeAll"}, Block(kind)
    PROVE  /\ RowsNamed /\ DatesDiffer /\ alert = NoAlert
           /\ mainQ' = <<>> /\ sharedQ = <<>> /\ Distinct(container) /\ rows = Len(container)
<1>1. mainQ # <<>> /\ mainQ[1].do = kind /\ ended = "no" /\ Len(mainQ') = Len(mainQ) - 1
      /\ mainQ' \in Seq(Blocks) /\ Len(mainQ) \in Nat /\ Len(mainQ) > 0 /\ DOMAIN mainQ = 1 .. Len(mainQ)
  BY BlockIs DEF Types, QueueTypes
<1>2. Loaded /\ shown \in Node
  BY BlockLoaded
<1>3. RowsNamed /\ DatesDiffer
  BY <1>1, <1>2 DEF Calm
<1>4. Len(mainQ) = 1 /\ sharedQ = <<>>
  <2>1. 1 \in DOMAIN mainQ
    BY <1>1
  <2> QED
    BY <2>1, <1>1, <1>3 DEF RowsNamed
<1>5. mainQ' = <<>>
  BY <1>1, <1>4
<1>6. \A i \in DOMAIN mainQ : mainQ[i].do \notin {"fetch", "event"}
  <2>1. \A i \in DOMAIN mainQ : i = 1
    BY <1>1, <1>4
  <2> QED
    BY <2>1, <1>1
<1>7. CastSucceeds(shown) /\ rows = Len(AsArray(shown)) /\ container \in Containers(shown)
  BY <1>1, <1>2, <1>4, <1>6, AtRest
<1>8. Distinct(container)
  BY <1>2, <1>3, <1>7, ContainerDistinct DEF DatesDiffer, DatesApart
<1>9. rows = Len(container)
  BY <1>2, <1>7, ContainersAre
<1>10. alert = NoAlert
  BY <1>1, <1>3 DEF RowsNamed, Idle
<1> QED
  BY <1>3, <1>4, <1>5, <1>8, <1>9, <1>10

\* Afterwards.
LEMMA CalmRemoved ==
    ASSUME mainQ' = <<>>, sharedQ = <<>>, alert' = NoAlert, shown' = shown, DatesDiffer,
           NEW s \in Seq(Dream), Len(s) <= MaxKey + 1, Distinct(s), sharedQ' = sharedQ \o updateAction(s)
    PROVE  RowsNamed' /\ DatesDiffer'
<1>1. updateAction(s) \in Seq(Calls)
  BY UpdateActionIs
<1>2. sharedQ' = updateAction(s)
  BY <1>1
<1>3. /\ 1 \in DOMAIN sharedQ' /\ sharedQ'[1].op = "remove"
      /\ \A i \in DOMAIN sharedQ' : sharedQ'[i].op = "remove" => i = 1
      /\ \A i, j \in DOMAIN sharedQ' : i # j /\ sharedQ'[i].op = "set" /\ sharedQ'[j].op = "set" =>
            sharedQ'[i].dream.writedDate # sharedQ'[j].dream.writedDate
  BY <1>2, UpdateActionDistinct
<1>4. ~DateTwice(shown)'
  BY DEF DatesDiffer, DatesApart, DateTwice
<1>5. DatesDiffer'
  BY <1>3, <1>4 DEF DatesDiffer, DatesApart
<1>6. RowsNamed'
  BY NoneNamed
<1> QED
  BY <1>5, <1>6

\* A removal: its row is the dream's, so deleteRows fits.
LEMMA CalmRemove ==
    ASSUME Types, Follow, Calm, NoRowTrap, RunRemove
    PROVE  Calm' /\ NoRowTrap'
<1>1. Block("remove") /\ UNCHANGED <<alert, shown, others, replaced>> /\ ended = "no"
  BY DEF RunRemove, Block, frontVars, sdkVars, histVars
<1> SUFFICES ASSUME ~others, ~replaced
             PROVE  ended' # "rows" /\ RowsNamed' /\ DatesDiffer'
  BY <1>1 DEF Calm, NoRowTrap
<1>2. PICK s \in removeAction(Head(mainQ).dream) :
         /\ container' = s /\ sharedQ' = sharedQ \o updateAction(s)
         /\ ended' = IF RowsFit(Head(mainQ).row, Len(s)) THEN "no" ELSE "rows"
  BY DEF RunRemove
<1>3. /\ RowsNamed /\ DatesDiffer /\ alert = NoAlert
      /\ mainQ' = <<>> /\ sharedQ = <<>> /\ Distinct(container) /\ rows = Len(container)
  BY <1>1, CalmRemoval
<1>4. container \in Seq(Dream) /\ Len(container) <= MaxKey + 1 /\ Len(container) \in Nat
  BY DEF Types, ListTypes
<1>5. s \in Seq(Dream) /\ Len(s) <= Len(container) /\ Len(s) \in Nat
  BY <1>2, <1>4, WithoutDateType DEF removeAction
<1>6. Distinct(s) /\ Len(s) <= MaxKey + 1
  BY <1>2, <1>3, <1>4, <1>5, RemovalDistinct, MaxKeyAssumption DEF removeAction
<1>7. RowsNamed' /\ DatesDiffer'
  BY <1>1, <1>2, <1>3, <1>5, <1>6, CalmRemoved
<1>8. RowsFit(Head(mainQ).row, Len(s))
  <2> DEFINE b == mainQ[1]
  <2>1. Head(mainQ) = b /\ b.do = "remove" /\ 1 \in DOMAIN mainQ
    BY <1>1, BlockIs DEF Types, QueueTypes
  <2> SUFFICES ASSUME b.row # NoRow PROVE b.row <= rows /\ Len(s) = rows - 1
    BY <2>1 DEF RowsFit
  <2>2. b.row \in DOMAIN container /\ container[b.row] = b.dream
    BY <2>1, <1>3 DEF RowsNamed
  <2>3. s \in WithoutDate(container, container[b.row].writedDate)
    BY <2>1, <2>2, <1>2 DEF removeAction
  <2>4. Len(s) = Len(container) - 1
    BY <2>2, <2>3, <1>3, <1>4, RemovalTakesOne
  <2>5. b.row <= Len(container)
    BY <2>2, <1>4
  <2> QED
    BY <2>4, <2>5, <1>3
<1> QED
  BY <1>2, <1>7, <1>8

\* removeAllAction.
LEMMA CalmRemoveAll ==
    ASSUME Types, Follow, Calm, RunRemoveAll
    PROVE  Calm'
<1>1. Block("removeAll") /\ UNCHANGED <<alert, shown, others, replaced, ended>>
      /\ sharedQ' = sharedQ \o updateAction(<<>>)
  BY DEF RunRemoveAll, frontVars, sdkVars, histVars
<1> SUFFICES ASSUME ~others, ~replaced PROVE RowsNamed' /\ DatesDiffer'
  BY <1>1 DEF Calm
<1>2. DatesDiffer /\ alert = NoAlert /\ mainQ' = <<>> /\ sharedQ = <<>>
  BY <1>1, CalmRemoval
<1>3. <<>> \in Seq(Dream) /\ Len(<<>>) <= MaxKey + 1 /\ Distinct(<<>>)
  BY MaxKeyAssumption DEF Distinct
<1> QED
  BY <1>1, <1>2, <1>3, CalmRemoved

\* What is left of the calls: no removal once the first one is done.
LEMMA CallsTail ==
    ASSUME NEW q \in Seq(Calls), q # <<>>, NEW p, p = Tail(q),
           \A i \in DOMAIN q : q[i].op = "remove" => i = 1
    PROVE  /\ \A i \in DOMAIN p : i \in Nat /\ i + 1 \in DOMAIN q /\ i + 1 # 1 /\ p[i] = q[i + 1]
           /\ \A i \in DOMAIN p : p[i].op # "remove"
<1>1. Len(q) \in Nat /\ Len(q) > 0 /\ DOMAIN p = 1 .. Len(q) - 1
      /\ (\A i \in 1 .. Len(q) - 1 : p[i] = q[i + 1]) /\ DOMAIN q = 1 .. Len(q)
  OBVIOUS
<1>2. \A i \in DOMAIN p : i \in Nat /\ i + 1 \in DOMAIN q /\ i + 1 # 1 /\ p[i] = q[i + 1]
  BY <1>1
<1> QED
  BY <1>2

\* An observe call leaves the calls after it and the snapshot alone.
LEMMA CalmRegister ==
    ASSUME Types, Calm, addEventRegistration
    PROVE  Calm'
<1>1. /\ ended = "no" /\ sharedQ # <<>> /\ Head(sharedQ).op = "observe" /\ sharedQ' = Tail(sharedQ)
      /\ mainQ' = (IF shown = Unknown THEN mainQ
                   ELSE Append(mainQ, EventBlock(Head(sharedQ).for, shown)))
      /\ UNCHANGED <<alert, shown, ended, others, replaced>>
  BY DEF addEventRegistration, frontVars, histVars
<1> SUFFICES ASSUME Loaded, ~others, ~replaced PROVE RowsNamed' /\ DatesDiffer'
  BY <1>1 DEF Calm, Loaded
<1>2. RowsNamed /\ DatesDiffer
  BY <1>1 DEF Calm
<1>3. alert = NoAlert /\ \A i \in DOMAIN mainQ : mainQ[i].do \in {"fetch", "event"}
  BY <1>1, <1>2, BusyIs
<1>4. mainQ \in Seq(Blocks) /\ sharedQ \in Seq(Calls)
  BY DEF Types, QueueTypes
<1>5. RowsNamed'
  <2>1. PICK b : mainQ' = Append(mainQ, b) /\ b.do = "event"
    <3>1. EventBlock(Head(sharedQ).for, shown).do = "event"
      BY DEF EventBlock
    <3> QED
      BY <3>1, <1>1 DEF Loaded
  <2>2. DOMAIN mainQ' = 1 .. Len(mainQ) + 1 /\ DOMAIN mainQ = 1 .. Len(mainQ)
        /\ Len(mainQ) \in Nat /\ mainQ'[Len(mainQ) + 1] = b
        /\ \A i \in 1 .. Len(mainQ) : mainQ'[i] = mainQ[i]
    BY <2>1, <1>4
  <2>3. \A i \in DOMAIN mainQ' : mainQ'[i].do \in {"fetch", "event"}
    BY <2>1, <2>2, <1>3
  <2> QED
    BY <2>3, <1>1, <1>3, NoneNamed
<1>6. DatesDiffer'
  <2>1. sharedQ[1].op = "observe" /\ 1 \in DOMAIN sharedQ
    BY <1>1, CallIs
  <2>2. \A i \in DOMAIN sharedQ : sharedQ[i].op # "remove"
    BY <2>1, <1>2 DEF DatesDiffer, DatesApart
  <2>3. /\ \A i \in DOMAIN sharedQ' : i \in Nat /\ i + 1 \in DOMAIN sharedQ /\ sharedQ'[i] = sharedQ[i + 1]
        /\ \A i \in DOMAIN sharedQ' : sharedQ'[i].op # "remove"
    BY <2>2, <1>1, <1>4, CallsTail
  <2>4. ~DateTwice(shown')
    BY <1>1, <1>2 DEF DatesDiffer, DatesApart
  <2>5. ASSUME NEW i \in DOMAIN sharedQ', NEW j \in DOMAIN sharedQ', i # j,
               sharedQ'[i].op = "set", sharedQ'[j].op = "set"
        PROVE  sharedQ'[i].dream.writedDate # sharedQ'[j].dream.writedDate
    <3>1. i + 1 # j + 1
      BY <2>3, <2>5
    <3> QED
      BY <3>1, <2>3, <2>5, <1>2 DEF DatesDiffer, DatesApart
  <2>6. ASSUME NEW i \in DOMAIN sharedQ', NEW k \in Present(shown'), sharedQ'[i].op = "set"
        PROVE  sharedQ'[i].dream.writedDate # shown'[k].writedDate
    BY <2>2, <2>3, <2>6, <1>1, <1>2 DEF DatesDiffer, DatesApart
  <2> QED
    BY <2>3, <2>4, <2>5, <2>6 DEF DatesDiffer, DatesApart
<1> QED
  BY <1>5, <1>6

\* A removal of the whole diary, or a dream of a new date, under way.
LEMMA DatesApplied ==
    ASSUME NEW n \in Node, NEW q \in Seq(Calls), q # <<>>, q[1].op # "observe", DatesApart(n, q)
    PROVE  DatesApart(Applied(n, q[1]), Tail(q))
<1> DEFINE m == Applied(n, q[1])
           p == Tail(q)
<1>0. m = Applied(n, q[1]) /\ p = Tail(q)
  OBVIOUS
<1> HIDE DEF m, p
<1> SUFFICES /\ ~DateTwice(m)
             /\ \A i \in DOMAIN p : p[i].op # "remove"
             /\ \A i, j \in DOMAIN p : i # j /\ p[i].op = "set" /\ p[j].op = "set" =>
                   p[i].dream.writedDate # p[j].dream.writedDate
             /\ \A i \in DOMAIN p, k \in Present(m) :
                   p[i].op = "set" => p[i].dream.writedDate # m[k].writedDate
  BY <1>0 DEF DatesApart
<1>1. /\ \A i \in DOMAIN p : i \in Nat /\ i + 1 \in DOMAIN q /\ i + 1 # 1 /\ p[i] = q[i + 1]
      /\ \A i \in DOMAIN p : p[i].op # "remove"
  BY <1>0, CallsTail DEF DatesApart
<1>2. 1 \in DOMAIN q /\ q[1] \in Calls
  BY DEF Calls
<1>3. q[1].op \in {"remove", "set"}
  BY <1>2 DEF Calls, RemoveCall
<1>4. ASSUME NEW i \in DOMAIN p, NEW j \in DOMAIN p, i # j, p[i].op = "set", p[j].op = "set"
      PROVE  p[i].dream.writedDate # p[j].dream.writedDate
  <2>1. i + 1 # j + 1
    BY <1>1, <1>4
  <2> QED
    BY <2>1, <1>1, <1>4 DEF DatesApart
<1>5. CASE q[1].op = "remove"
  <2>1. Present(m) = {}
    BY <1>0, <1>5 DEF Applied, Present
  <2> QED
    BY <2>1, <1>1, <1>4 DEF DateTwice
<1>6. CASE q[1].op = "set"
  <2> DEFINE x == q[1].dream
  <2>1. \A i \in DOMAIN q : q[i].op # "remove"
    BY <1>6 DEF DatesApart
  <2>2. \A k \in Keys : m[k] = IF q[1].key = k THEN x ELSE n[k]
    BY <1>0, <1>6 DEF Applied
  <2> HIDE DEF x
  <2>3. ASSUME NEW k \in Present(m)
        PROVE  \/ q[1].key = k /\ m[k] = x
               \/ q[1].key # k /\ m[k] = n[k] /\ k \in Present(n)
    <3>1. k \in Keys /\ m[k] # None
      BY <2>3 DEF Present
    <3>2. CASE q[1].key = k
      BY <3>1, <3>2, <2>2
    <3>3. CASE q[1].key # k
      <4>1. m[k] = n[k]
        BY <3>1, <3>3, <2>2
      <4> QED
        BY <4>1, <3>1, <3>3 DEF Present
    <3> QED
      BY <3>2, <3>3
  <2>4. \A k \in Present(n) : x.writedDate # n[k].writedDate
    BY <2>1, <1>2, <1>6 DEF x, DatesApart
  <2>5. ~DateTwice(m)
    <3> SUFFICES ASSUME NEW j \in Present(m), NEW k \in Present(m), j # k
                 PROVE  m[j].writedDate # m[k].writedDate
      BY DEF DateTwice
    <3>1. CASE q[1].key = j
      BY <3>1, <2>3, <2>4
    <3>2. CASE q[1].key = k
      BY <3>2, <2>3, <2>4
    <3>3. CASE q[1].key # j /\ q[1].key # k
      <4>1. m[j] = n[j] /\ m[k] = n[k] /\ j \in Present(n) /\ k \in Present(n)
        BY <3>3, <2>3
      <4> QED
        BY <4>1 DEF DatesApart, DateTwice
    <3> QED
      BY <3>1, <3>2, <3>3
  <2>6. ASSUME NEW i \in DOMAIN p, NEW k \in Present(m), p[i].op = "set"
        PROVE  p[i].dream.writedDate # m[k].writedDate
    <3>1. i + 1 \in DOMAIN q /\ i + 1 # 1 /\ p[i] = q[i + 1]
      BY <1>1
    <3>2. CASE q[1].key = k
      <4>1. m[k] = x
        BY <3>2, <2>3
      <4> QED
        BY <4>1, <3>1, <2>6, <1>2, <1>6 DEF x, DatesApart
    <3>3. CASE q[1].key # k
      <4>1. m[k] = n[k] /\ k \in Present(n)
        BY <3>3, <2>3
      <4> QED
        BY <4>1, <3>1, <2>1, <2>6 DEF DatesApart
    <3> QED
      BY <3>2, <3>3
  <2> QED
    BY <2>5, <2>6, <1>1, <1>4
<1> QED
  BY <1>3, <1>5, <1>6

\* A write shows at once; its dream has a date of its own.
LEMMA CalmOverwrite ==
    ASSUME Types, Calm, ApplyUserOverwrite
    PROVE  Calm'
<1>1. PICK n \in Node : n = Applied(shown, sharedQ[1]) /\ Show(n)
  BY OverwriteIs
<1>2. Loaded /\ shown \in Node /\ sharedQ # <<>> /\ sharedQ[1].op # "observe"
      /\ sharedQ' = Tail(sharedQ) /\ ended = "no"
  BY OverwriteIs
<1>3. UNCHANGED <<alert, registered, ended, others, replaced>>
  BY DEF ApplyUserOverwrite, frontVars, histVars
<1> SUFFICES ASSUME ~others, ~replaced PROVE RowsNamed' /\ DatesDiffer'
  BY <1>3 DEF Calm
<1>4. RowsNamed /\ DatesDiffer
  BY <1>2 DEF Calm
<1>5. alert = NoAlert /\ \A i \in DOMAIN mainQ : mainQ[i].do \in {"fetch", "event"}
  BY <1>2, <1>4, BusyIs
<1>6. mainQ \in Seq(Blocks) /\ sharedQ \in Seq(Calls) /\ registered \in Seq(Observers)
  BY DEF Types, QueueTypes, SdkTypes
<1>7. shown' = n /\ (mainQ' = mainQ \/ mainQ' = mainQ \o Raised(registered, n))
  BY <1>1, ShowIs
<1>8. RowsNamed'
  <2>1. \A i \in DOMAIN mainQ' : mainQ'[i].do \in {"fetch", "event"}
    <3>1. CASE mainQ' = mainQ
      BY <3>1, <1>5
    <3>2. CASE mainQ' = mainQ \o Raised(registered, n)
      BY <3>2, <1>5, <1>6, BusyRaised
    <3> QED
      BY <3>1, <3>2, <1>7
  <2> QED
    BY <2>1, <1>3, <1>5, NoneNamed
<1>9. DatesDiffer'
  <2>1. DatesApart(n, sharedQ')
    BY <1>1, <1>2, <1>4, <1>6, DatesApplied DEF DatesDiffer
  <2> QED
    BY <2>1, <1>7 DEF DatesDiffer
<1> QED
  BY <1>8, <1>9

\* The first value counts as a date saved twice when it holds one.
LEMMA CalmLoad ==
    ASSUME Types, NEW n \in Node, Load(n)
    PROVE  Calm'
<1>1. ~Loaded /\ Show(n) /\ replaced' = DateTwice(n) /\ UNCHANGED <<alert, sharedQ, registered>>
  BY DEF Load, Loaded, frontVars
<1> SUFFICES ASSUME ~replaced' PROVE RowsNamed' /\ DatesDiffer'
  BY DEF Calm
<1>2. /\ alert = NoAlert
      /\ \A i \in DOMAIN mainQ : mainQ[i] = FetchBlock(Main)
      /\ \A i \in DOMAIN sharedQ : sharedQ[i] = ObserveCall(Main)
  BY <1>1 DEF Types, Started
<1>3. mainQ \in Seq(Blocks) /\ registered \in Seq(Observers)
  BY DEF Types, QueueTypes, SdkTypes
<1>4. shown' = n /\ (mainQ' = mainQ \/ mainQ' = mainQ \o Raised(registered, n))
  BY <1>1, ShowIs
<1>5. RowsNamed'
  <2>1. \A i \in DOMAIN mainQ : mainQ[i].do \in {"fetch", "event"}
    BY <1>2 DEF FetchBlock
  <2>2. \A i \in DOMAIN mainQ' : mainQ'[i].do \in {"fetch", "event"}
    <3>1. CASE mainQ' = mainQ
      BY <3>1, <2>1
    <3>2. CASE mainQ' = mainQ \o Raised(registered, n)
      BY <3>2, <2>1, <1>3, BusyRaised
    <3> QED
      BY <3>1, <3>2, <1>4
  <2> QED
    BY <2>2, <1>1, <1>2, NoneNamed
<1>6. DatesDiffer'
  <2>1. ~DateTwice(n)
    BY <1>1
  <2>2. \A i \in DOMAIN sharedQ' : sharedQ'[i].op = "observe"
    BY <1>1, <1>2 DEF ObserveCall
  <2> QED
    BY <2>1, <2>2, <1>4, DatesNoCalls
<1> QED
  BY <1>5, <1>6

\* The process is ended by deleteRows in no other step.
LEMMA TrapStep ==
    ASSUME Types, Follow, Calm, NoRowTrap, [Next]_vars
    PROVE  NoRowTrap'
<1>1. CASE RunRemove
  BY <1>1, CalmRemove
<1>2. CASE RunTrap
  BY <1>2 DEF RunTrap, NoRowTrap
<1>3. CASE \E n \in Node : Load(n) \/ Push(n)
  BY <1>3 DEF Load, Push, NoRowTrap
<1>4. CASE \/ RunFetch \/ RunEvent \/ RunRemoveAll
           \/ addEventRegistration \/ ApplyUserOverwrite \/ UNCHANGED vars
  BY <1>4 DEF RunFetch, RunEvent, RunRemoveAll, addEventRegistration, ApplyUserOverwrite,
     NoRowTrap, histVars, vars
<1>5. CASE UserStep
  <2>1. ended' = ended /\ others' = others /\ (replaced' = replaced \/ replaced')
    BY <1>5 DEF UserStep, DateCheckAndSave, ConfirmReplace, SwipeRow, OpenPage, allDeleteBtn, ClosePage,
       selectedDeleteBtnAction, ConfirmDelete, ConfirmDeleteAll, CancelAlert,
       OpenSearch, Refresh, OpenStars, moveToMainBtnAction, textDidChange, histVars
  <2> QED
    BY <2>1 DEF NoRowTrap
<1> QED
  BY <1>1, <1>2, <1>3, <1>4, <1>5 DEF Next, MainStep

\* Every step of one user on one device.
LEMMA CalmStep ==
    ASSUME Types, Follow, Calm, NoRowTrap, [Next]_vars
    PROVE  Calm'
<1>1. CASE RunTrap
  BY <1>1 DEF RunTrap, Calm
<1>2. CASE \E n \in Node : Push(n)
  BY <1>2 DEF Push, Calm
<1>3. CASE UNCHANGED vars
  BY <1>3 DEF vars, listVars, frontVars, sdkVars, histVars, Calm, Loaded, RowsNamed, Idle,
     DatesDiffer, DatesApart, DateTwice
<1> QED
  BY <1>1, <1>2, <1>3, CalmUser, CalmFetch, CalmRemove, CalmRemoveAll, CalmRegister,
     CalmOverwrite, CalmLoad DEF Next, MainStep

\* The whole invariant is inductive.
LEMMA ScreensStep == ScreensInv /\ [Next]_vars => ScreensInv'
BY FollowStep, CalmStep, TrapStep DEF ScreensInv, FollowInv

\* deleteRows never ends the process of one user on one device who has not
\* saved a date twice: the row an alert captured is still the dream's row,
\* and removeAction takes exactly that dream, when its block runs.
THEOREM RowsNeverTrap == Spec => []NoRowTrap
<1>1. Init => ScreensInv
  <2> SUFFICES ASSUME Init PROVE ScreensInv
    OBVIOUS
  <2>1. ~Loaded /\ ended = "no"
    BY DEF Init, Loaded
  <2> QED
    BY <2>1, FollowInit DEF ScreensInv, FollowInv, Calm, NoRowTrap
<1>2. ScreensInv => NoRowTrap
  BY DEF ScreensInv
<1> QED
  BY <1>1, <1>2, ScreensStep, PTL DEF Spec
=============================================================================
