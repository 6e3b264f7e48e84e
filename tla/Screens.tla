------------------------------ MODULE Screens -------------------------------
(***************************************************************************)
(* The lists on the screens of one device: MainVC's table, SearchVC's      *)
(* filtered list, StarStorageVC's copy and the pages opened from them,     *)
(* over the container they share.                                          *)
(*                                                                         *)
(* Module DreamSync follows the writes to the server and treats observers  *)
(* alike; here the SDK is only the snapshot it shows, and each observer    *)
(* does what the screen that registered it does.  UIKit's table view is    *)
(* external: it knows the number of rows it asked for last, and ends the   *)
(* process when rows deleted do not account for the new number.            *)
(***************************************************************************)
EXTENDS Dreams

CONSTANTS
    Starred,     \* the bodies with starStorageIsChecked
    MaxEdits,    \* bound: saves and deletions asked for
    MaxFetches,  \* bound: searches opened and lists pulled to refresh
    MaxPushes,   \* bound: changes made by other devices
    NoDream      \* no page is open

ASSUME ScreensAssumption ==
    /\ Starred \subseteq Bodies
    /\ {MaxEdits, MaxFetches, MaxPushes} \subseteq Nat
    /\ NoDream \notin Dream

VARIABLES
    container,   \* DreamContainer.sharedInstance.dreamContainers
    rows,        \* rows of mainTableView
    screen,      \* "main", "search" or "star"
    filterd,     \* filterdDream of the search screen, or starStorageDreams
    page,        \* the dream of the detail page in front
    alert,       \* the alert in front, with what its handlers captured
    mainQ,       \* blocks of the main dispatch queue
    sharedQ,     \* calls the SDK has yet to run
    registered,  \* observers, in the order of their registration
    shown,       \* the snapshot the SDK shows them
    ended,       \* "no", or what ended the process: "cast" or "rows"
    searches,    \* searches opened so far: each is a SearchVC of its own
    others,      \* whether another device has changed the diary
    replaced,    \* whether a date was ever saved twice
    used

listVars == <<container, rows, filterd>>
frontVars == <<screen, page, alert>>
sdkVars == <<registered, shown>>
histVars == <<searches, others, replaced>>
vars == <<listVars, frontVars, mainQ, sharedQ, sdkVars, ended, histVars, used>>

\* Who registered an observer: MainVC, or a SearchVC on loading or refreshing.
Observer(who, id) == [who |-> who, id |-> id]

FetchBlock(o) == [do |-> "fetch", for |-> o]
EventBlock(o, n) == [do |-> "event", for |-> o, node |-> n]
RemoveBlock(x, row) == [do |-> "remove", dream |-> x, row |-> row]
RemoveAllBlock == [do |-> "removeAll"]

NoAlert == [asks |-> "nothing"]
NoRow == 0

ObserveCall(o) == [op |-> "observe", for |-> o]
RemoveCall == [op |-> "remove"]
SetCall(k, x) == [op |-> "set", key |-> k, dream |-> x]

\* Model.updateAction.
updateAction(s) == <<RemoveCall>> \o [i \in 1 .. Len(s) |-> SetCall(i - 1, s[i])]

Idle == mainQ = <<>> /\ sharedQ = <<>>

-----------------------------------------------------------------------------
\* Taps.  The user waits until the diary is loaded and nothing is under way.
Ready == ended = "no" /\ Idle /\ shown # Unknown

Tap(where) == Ready /\ alert = NoAlert /\ page = NoDream /\ screen = where

Charge(bound, max) ==
    /\ used[bound] < max
    /\ used' = [used EXCEPT ![bound] = @ + 1]

Answer(question) == Ready /\ alert.asks = question /\ alert' = NoAlert

\* Mutant: keys counted from one.
SaveAtNext(x) == SetCall(Len(container) + 1, x)

\* Model.saveAction at index count.
saveAction(x) == SetCall(Len(container), x)

\* WriteVC.DateCheckAndSave.
DateCheckAndSave(x) ==
    /\ Tap("main") /\ Charge("edits", MaxEdits)
    /\ Len(container) <= MaxKey
    /\ IF \E i \in DOMAIN container : container[i].writedDate = x.writedDate
       THEN /\ alert' = [asks |-> "replace", dream |-> x]
            /\ UNCHANGED sharedQ
       ELSE /\ sharedQ' = Append(sharedQ, saveAction(x))
            /\ UNCHANGED alert
    /\ UNCHANGED <<listVars, screen, page, mainQ, sdkVars, ended, histVars>>

ConfirmReplace ==
    /\ Answer("replace") /\ Len(container) <= MaxKey
    /\ sharedQ' = Append(sharedQ, saveAction(alert.dream))
    /\ replaced' = TRUE
    /\ UNCHANGED <<listVars, screen, page, mainQ, sdkVars, ended, searches, others, used>>

\* MainVC: a row is swiped; the alert captures its dream and its index path.
SwipeRow(row) ==
    /\ Tap("main") /\ Charge("edits", MaxEdits)
    /\ row \in 1 .. rows /\ row \in DOMAIN container
    /\ alert' = [asks |-> "delete", dream |-> container[row], row |-> row]
    /\ UNCHANGED <<listVars, screen, page, mainQ, sharedQ, sdkVars, ended, histVars>>

\* MainVC.allDeleteBtn.
allDeleteBtn ==
    /\ Tap("main") /\ Charge("edits", MaxEdits)
    /\ container # <<>>
    /\ alert' = [asks |-> "deleteAll"]
    /\ UNCHANGED <<listVars, screen, page, mainQ, sharedQ, sdkVars, ended, histVars>>

\* A row of the list in front is tapped: its page keeps the dream.
List == IF screen = "main" THEN container ELSE filterd

OpenPage(i) ==
    /\ \E where \in {"main", "search", "star"} : Tap(where)
    /\ i \in DOMAIN List
    /\ page' = List[i]
    /\ UNCHANGED <<listVars, screen, alert, mainQ, sharedQ, sdkVars, ended, histVars, used>>

ClosePage ==
    /\ Ready /\ alert = NoAlert /\ page # NoDream
    /\ page' = NoDream
    /\ UNCHANGED <<listVars, screen, alert, mainQ, sharedQ, sdkVars, ended, histVars, used>>

\* DetailVC, SearchDetailVC, StarStorageDetailVC: delete.
selectedDeleteBtnAction ==
    /\ Ready /\ alert = NoAlert /\ page # NoDream /\ Charge("edits", MaxEdits)
    /\ alert' = [asks |-> "delete", dream |-> page, row |-> NoRow]
    /\ UNCHANGED <<listVars, screen, page, mainQ, sharedQ, sdkVars, ended, histVars>>

\* The handlers queue the removal; a page is dismissed.
ConfirmDelete ==
    /\ Answer("delete")
    /\ mainQ' = Append(mainQ, RemoveBlock(alert.dream, alert.row))
    /\ page' = NoDream
    /\ UNCHANGED <<listVars, screen, sharedQ, sdkVars, ended, histVars, used>>

ConfirmDeleteAll ==
    /\ Answer("deleteAll")
    /\ mainQ' = Append(mainQ, RemoveAllBlock)
    /\ UNCHANGED <<listVars, screen, page, sharedQ, sdkVars, ended, histVars, used>>

CancelAlert ==
    /\ \E q \in {"replace", "delete", "deleteAll"} : Answer(q)
    /\ UNCHANGED <<listVars, screen, page, mainQ, sharedQ, sdkVars, ended, histVars, used>>

\* SearchVC.viewDidLoad.
OpenSearch ==
    /\ Tap("main") /\ Charge("fetches", MaxFetches)
    /\ screen' = "search"
    /\ searches' = searches + 1
    /\ filterd' = container
    /\ mainQ' = Append(mainQ, FetchBlock(Observer("search", searches + 1)))
    /\ UNCHANGED <<container, rows, page, alert, sharedQ, sdkVars, ended, others, replaced>>

\* SearchVC.refresh.
Refresh ==
    /\ Tap("search") /\ Charge("fetches", MaxFetches)
    /\ container' = <<>>
    /\ mainQ' = Append(mainQ, FetchBlock(Observer("refresh", searches)))
    /\ UNCHANGED <<rows, filterd, frontVars, sharedQ, sdkVars, ended, histVars>>

\* searchDream keeps the dreams that match; the text matches some bodies, the
\* date one date, and an empty text all.
Matches == {[writedDate : Dates, body : B] : B \in SUBSET Bodies}
           \cup {[writedDate : {date}, body : Bodies] : date \in Dates}

searchDream(M) == Subarrays(container, {i \in DOMAIN container : container[i] \in M})

descendingOrder(s) ==
    {t \in Reorderings(s) : \A i, j \in DOMAIN t : i < j => t[i].writedDate >= t[j].writedDate}

\* SearchVC.searchBar(textDidChange), with any of the three orders.
textDidChange(M) ==
    /\ Tap("search")
    /\ \E s \in searchDream(M) :
          filterd' \in {s} \cup ascendingOrder(s) \cup descendingOrder(s)
    /\ UNCHANGED <<container, rows, frontVars, mainQ, sharedQ, sdkVars, ended, histVars, used>>

\* StarStorageVC.viewDidLoad.
OpenStars ==
    /\ Tap("main")
    /\ screen' = "star"
    /\ filterd' \in Subarrays(container, {i \in DOMAIN container : container[i].body \in Starred})
    /\ UNCHANGED <<container, rows, page, alert, mainQ, sharedQ, sdkVars, ended, histVars, used>>

moveToMainBtnAction ==
    /\ \E where \in {"search", "star"} : Tap(where)
    /\ screen' = "main"
    /\ filterd' = <<>>
    /\ UNCHANGED <<container, rows, page, alert, mainQ, sharedQ, sdkVars, ended, histVars, used>>

UserStep ==
    \/ \E x \in Dream : DateCheckAndSave(x)
    \/ \E row \in 1 .. MaxKey + 1 : SwipeRow(row) \/ OpenPage(row)
    \/ ConfirmReplace \/ allDeleteBtn \/ ClosePage \/ selectedDeleteBtnAction
    \/ ConfirmDelete \/ ConfirmDeleteAll \/ CancelAlert
    \/ OpenSearch \/ Refresh \/ OpenStars \/ moveToMainBtnAction
    \/ \E M \in Matches : textDidChange(M)

-----------------------------------------------------------------------------
\* The main thread runs a block.
Block(kind) ==
    /\ ended = "no" /\ mainQ # <<>> /\ Head(mainQ).do = kind
    /\ mainQ' = Tail(mainQ)

RunFetch ==
    /\ Block("fetch")
    /\ sharedQ' = Append(sharedQ, ObserveCall(Head(mainQ).for))
    /\ UNCHANGED <<listVars, frontVars, sdkVars, ended, histVars, used>>

\* Mutants: MainVC's callback does not reload; SearchVC's only reloads.
loadingIsFinishedQuiet(o, s) ==
    /\ UNCHANGED rows
    /\ filterd' = IF o = Observer("search", searches) /\ screen = "search" THEN s ELSE filterd

loadingIsFinishedReloads(o, s) ==
    /\ rows' = IF o.who = "main" THEN Len(s) ELSE rows
    /\ UNCHANGED filterd

\* The callback's last call: MainVC reloads its table; the SearchVC in front
\* takes the container for its list if the observer is from its viewDidLoad.
loadingIsFinished(o, s) ==
    /\ rows' = IF o.who = "main" THEN Len(s) ELSE rows
    /\ filterd' = IF o = Observer("search", searches) /\ screen = "search" THEN s ELSE filterd

\* The observer of fetchContainers.
RunEvent ==
    /\ Block("event")
    /\ CastSucceeds(Head(mainQ).node)
    /\ container' \in Containers(Head(mainQ).node)
    /\ loadingIsFinished(Head(mainQ).for, container')
    /\ UNCHANGED <<frontVars, sharedQ, sdkVars, ended, histVars, used>>

RunTrap ==
    /\ Block("event")
    /\ ~CastSucceeds(Head(mainQ).node)
    /\ ended' = "cast"
    /\ UNCHANGED <<listVars, frontVars, sharedQ, sdkVars, histVars, used>>

\* Mutant: dreams from the date on are removed.
removeActionFrom(x) ==
    Subarrays(container, {i \in DOMAIN container : container[i].writedDate < x.writedDate})

\* Model.removeAction on the container.
removeAction(x) == WithoutDate(container, x.writedDate)

\* deleteRows(at: [row]) once the data source has n rows.
RowsFit(row, n) == row = NoRow \/ (row <= rows /\ n = rows - 1)

\* The removal, and for a row of MainVC deleteRows.
RunRemove ==
    /\ Block("remove")
    /\ \E s \in removeAction(Head(mainQ).dream) :
          /\ container' = s
          /\ sharedQ' = sharedQ \o updateAction(s)
          /\ ended' = IF RowsFit(Head(mainQ).row, Len(s)) THEN "no" ELSE "rows"
          /\ rows' = IF Head(mainQ).row = NoRow THEN rows ELSE Len(s)
    /\ UNCHANGED <<filterd, frontVars, sdkVars, histVars, used>>

\* Model.removeAllAction: the table is not told.
RunRemoveAll ==
    /\ Block("removeAll")
    /\ container' = <<>>
    /\ sharedQ' = sharedQ \o updateAction(<<>>)
    /\ UNCHANGED <<rows, filterd, frontVars, sdkVars, ended, histVars, used>>

MainStep == RunFetch \/ RunEvent \/ RunTrap \/ RunRemove \/ RunRemoveAll

-----------------------------------------------------------------------------
\* The SDK.  A new snapshot is an event for every observer, in order.
Show(n) ==
    /\ shown' = n
    /\ mainQ' = IF n = shown THEN mainQ
                ELSE mainQ \o [i \in DOMAIN registered |-> EventBlock(registered[i], n)]

\* FRepo addEventRegistration: the new observer alone gets what is shown.
addEventRegistration ==
    /\ ended = "no" /\ sharedQ # <<>> /\ Head(sharedQ).op = "observe"
    /\ sharedQ' = Tail(sharedQ)
    /\ registered' = Append(registered, Head(sharedQ).for)
    /\ mainQ' = IF shown = Unknown THEN mainQ
                ELSE Append(mainQ, EventBlock(Head(sharedQ).for, shown))
    /\ UNCHANGED <<listVars, frontVars, shown, ended, histVars, used>>

\* FRepo set: the write shows at once.
ApplyUserOverwrite ==
    /\ ended = "no" /\ sharedQ # <<>> /\ Head(sharedQ).op # "observe"
    /\ sharedQ' = Tail(sharedQ)
    /\ Show([k \in Keys |-> IF Head(sharedQ).op = "remove" THEN None
                            ELSE IF Head(sharedQ).key = k THEN Head(sharedQ).dream
                            ELSE shown[k]])
    /\ UNCHANGED <<listVars, frontVars, registered, ended, histVars, used>>

\* Two keys of n hold dreams of one date.
DateTwice(n) ==
    \E j, k \in Present(n) : j # k /\ n[j].writedDate = n[k].writedDate

\* The first value of the server.
Load(n) ==
    /\ ended = "no" /\ shown = Unknown /\ registered # <<>>
    /\ CastSucceeds(n)
    /\ Show(n)
    /\ replaced' = DateTwice(n)
    /\ UNCHANGED <<listVars, frontVars, sharedQ, registered, ended, searches, others, used>>

\* A later one, after a change made by another device, at any time.
Push(n) ==
    /\ ended = "no" /\ shown # Unknown /\ n # shown
    /\ CastSucceeds(n)
    /\ Charge("pushes", MaxPushes)
    /\ Show(n)
    /\ others' = TRUE
    /\ UNCHANGED <<listVars, frontVars, sharedQ, registered, ended, searches, replaced>>

\* MainVC.viewDidLoad has queued its fetch.
Init ==
    /\ container = <<>> /\ rows = 0 /\ filterd = <<>>
    /\ screen = "main" /\ page = NoDream /\ alert = NoAlert
    /\ mainQ = <<FetchBlock(Observer("main", 0))>> /\ sharedQ = <<>>
    /\ registered = <<>> /\ shown = Unknown
    /\ ended = "no"
    /\ searches = 0 /\ others = FALSE /\ replaced = FALSE
    /\ used = [edits |-> 0, fetches |-> 0, pushes |-> 0]

Next ==
    \/ UserStep \/ MainStep
    \/ addEventRegistration \/ ApplyUserOverwrite
    \/ \E n \in Node : Load(n) \/ Push(n)

Spec == Init /\ [][Next]_vars

-----------------------------------------------------------------------------
(* Properties. *)

\* Types; in particular no key leaves Keys and no list outgrows the container.
TypeOK ==
    /\ container \in Seq(Dream) /\ Len(container) <= MaxKey + 1
    /\ rows \in 0 .. MaxKey + 1
    /\ filterd \in Seq(Dream) /\ page \in Dream \cup {NoDream}
    /\ screen \in {"main", "search", "star"}
    /\ shown \in Node \cup {Unknown}
    /\ \A i \in DOMAIN sharedQ : sharedQ[i].op = "set" => sharedQ[i].key \in Keys

\* Whenever nothing is under way the main table has as many rows as the
\* container has dreams, so no cell is asked for that is not there: although
\* removals from pages, removeAllAction and SearchVC.refresh change the
\* container without telling the table.
TableFits == ended = "no" /\ Idle => rows = Len(container)

\* Whenever nothing is under way the search list shows only dreams of the
\* diary, although neither refresh nor a removal from a page updates it.
NoStaleRow ==
    ended = "no" /\ Idle /\ screen = "search" => Range(filterd) \subseteq Range(container)

\* deleteRows ends the process only if another device changed the diary
\* since, or a date has been saved twice: never for one user on one device who
\* answers the alerts as they come.
NoRowTrap == ended = "rows" => others \/ replaced
=============================================================================
