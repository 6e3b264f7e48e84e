----------------------------- MODULE DreamSync ------------------------------
(***************************************************************************)
(* One account's diary on several devices: Model.swift and the screens     *)
(* that call it, the Firebase Realtime Database client they run on, and    *)
(* the database server.                                                    *)
(*                                                                         *)
(* On a device two threads matter.  The main thread runs the user's taps   *)
(* and, one at a time, the blocks of the main dispatch queue (mainQ): the  *)
(* app's own DispatchQueue.main.async blocks and the observers' callbacks. *)
(* The SDK's serial queue (sharedQ) runs the calls made on a reference and *)
(* the messages of the server (down).                                      *)
(***************************************************************************)
EXTENDS Dreams

CONSTANTS
    Devices,
    StoredAtStart,  \* bound: dreams the account may hold initially
    MaxEdits,       \* bound: saves and deletions asked for, all devices
    MaxFetches,     \* bound: searches opened and lists pulled to refresh
    MaxDrops,       \* bound: connections lost
    MaxKills,       \* bound: processes ended by the user or the system
    WaitEcho,       \* the user acts only when no queued work is left
    WaitLoad        \* the user acts only when the diary has been loaded

ASSUME StoredAssumption == StoredAtStart \in Nat
ASSUME BoundsAssumption ==
    {MaxEdits, MaxFetches, MaxDrops, MaxKills} \subseteq Nat
ASSUME WaitAssumption == {WaitEcho, WaitLoad} \subseteq BOOLEAN

VARIABLES
    server,     \* users/<uid>/dream as the database holds it
    app,        \* "on" while the process runs (signed in, MainVC loaded)
    container,  \* DreamContainer.sharedInstance.dreamContainers
    alert,      \* the alert that waits for an answer, with what it captured
    mainQ,      \* blocks of the main dispatch queue
    sharedQ,    \* calls on a database reference the SDK has yet to run
    observers,  \* registrations of observe(.value), never removed
    cache,      \* what the server last sent of the node, or Unknown
    pending,    \* writes the server has not acknowledged
    link,       \* "lost", "open", or "listening" once the server has the listen
    applied,    \* how many of pending the server has applied on this link
    down,       \* messages of the server on their way to the device
    trapped,    \* whether the forced cast has ever failed on the device
    kept,       \* dreams the database has ever held
    asked,      \* dates whose dreams the user agreed to delete or replace
    used        \* how much of each bound has been used

Bounds == {"edits", "fetches", "drops", "kills"}

uiVars == <<app, container, alert>>
sdkVars == <<observers, cache, pending>>
netVars == <<link, applied, down>>
histVars == <<trapped, kept, asked>>
vars == <<server, uiVars, mainQ, sharedQ, sdkVars, netVars, histVars, used>>

-----------------------------------------------------------------------------
\* Writes and calls.
SetCall(i, x) == [op |-> "set", key |-> i, dream |-> x]
RemoveCall == [op |-> "remove"]
ObserveCall == [op |-> "observe"]

Write == [op : {"set"}, key : Keys, dream : Dream] \cup {RemoveCall}
Call == Write \cup {ObserveCall}

\* Blocks of the main queue.
FetchBlock == [do |-> "fetch"]
EventBlock(n) == [do |-> "event", node |-> n]
RemoveBlock(x) == [do |-> "remove", dream |-> x]
RemoveAllBlock == [do |-> "removeAll"]

Block == [do : {"event"}, node : Node] \cup [do : {"remove"}, dream : Dream]
         \cup {FetchBlock, RemoveAllBlock}

Alert == [asks : {"delete", "replace"}, dream : Dream]
         \cup {[asks |-> "deleteAll"], [asks |-> "nothing"]}
NoAlert == [asks |-> "nothing"]

Message == [type : {"data"}, node : Node] \cup {[type |-> "ack"]}

\* Whether write w determines what key k holds, and what it puts there.
Covers(w, k) == w.op = "remove" \/ (w.op = "set" /\ w.key = k)
Put(w) == IF w.op = "remove" THEN None ELSE w.dream

\* A write as the server applies it.
Apply(n, w) == [k \in Keys |-> IF Covers(w, k) THEN Put(w) ELSE n[k]]

\* Mutant: the first covering write wins.
FirstCover(p, k, i) ==
    /\ Covers(p[i], k)
    /\ \A j \in DOMAIN p : j < i => ~Covers(p[j], k)

\* FWriteTree calculateCompleteEventCache: the last pending write that covers
\* a key decides it, the server cache decides the rest.  Without a server
\* cache the snapshot is complete only under a write of the whole node.
LastCover(p, k, i) ==
    /\ Covers(p[i], k)
    /\ \A j \in DOMAIN p : j > i => ~Covers(p[j], k)

Visible(c, p) ==
    IF c = Unknown /\ \A i \in DOMAIN p : p[i].op # "remove"
    THEN Unknown
    ELSE [k \in Keys |->
            IF \E i \in DOMAIN p : Covers(p[i], k)
            THEN Put(p[CHOOSE i \in DOMAIN p : LastCover(p, k, i)])
            ELSE c[k]]

\* Value events: one block per registration when the complete snapshot changed
\* (FViewProcessor maybeAddValueFromOldViewCache, FEventRaiser raiseEvents).
raiseEvents(old, new, n) ==
    IF new # Unknown /\ new # old
    THEN [i \in 1 .. n |-> EventBlock(new)]
    ELSE <<>>

-----------------------------------------------------------------------------
\* Mutants: keys from 1; the last dream forgotten; stored from last to first.
updateActionFromOne(s) ==
    <<RemoveCall>> \o [i \in 1 .. Len(s) |-> SetCall(i, s[i])]

updateActionShort(s) ==
    <<RemoveCall>> \o [i \in 1 .. Len(s) - 1 |-> SetCall(i - 1, s[i])]

updateActionBackwards(s) ==
    <<RemoveCall>> \o [i \in 1 .. Len(s) |-> SetCall(Len(s) - i, s[Len(s) - i + 1])]

\* Model.updateAction: clear the node, then store the container again.
updateAction(s) ==
    <<RemoveCall>> \o [i \in 1 .. Len(s) |-> SetCall(i - 1, s[i])]

Idle(d) == mainQ[d] = <<>> /\ sharedQ[d] = <<>>

\* The snapshot the observers of device d are shown.
Shown(d) == Visible(cache[d], pending[d])

\* When the user taps: the run loop has run the block of MainVC.viewDidLoad
\* before it delivers a tap; a patient user waits until the app caught up.
Ready(d) ==
    /\ app[d] = "on"
    /\ observers[d] > 0 \/ ObserveCall \in Range(sharedQ[d])
    /\ WaitEcho => Idle(d)
    /\ WaitLoad => cache[d] # Unknown

\* A step of the user on device d while no alert is up, charged to one bound.
Tap(d, bound, max) ==
    /\ Ready(d)
    /\ alert[d] = NoAlert
    /\ used[bound] < max
    /\ used' = [used EXCEPT ![bound] = @ + 1]

\* The user answers the alert, which goes away.
Answer(d, question) ==
    /\ Ready(d)
    /\ alert[d].asks = question
    /\ alert' = [alert EXCEPT ![d] = NoAlert]

-----------------------------------------------------------------------------
\* The account holds up to StoredAtStart dreams; no device runs the app.
Init ==
    /\ server \in {n \in Node : CastSucceeds(n) /\ Cardinality(Present(n)) <= StoredAtStart}
    /\ app = [d \in Devices |-> "off"]
    /\ container = [d \in Devices |-> <<>>]
    /\ alert = [d \in Devices |-> NoAlert]
    /\ mainQ = [d \in Devices |-> <<>>]
    /\ sharedQ = [d \in Devices |-> <<>>]
    /\ observers = [d \in Devices |-> 0]
    /\ cache = [d \in Devices |-> Unknown]
    /\ pending = [d \in Devices |-> <<>>]
    /\ link = [d \in Devices |-> "lost"]
    /\ applied = [d \in Devices |-> 0]
    /\ down = [d \in Devices |-> <<>>]
    /\ trapped = [d \in Devices |-> FALSE]
    /\ kept = {server[k] : k \in Present(server)}
    /\ asked = {}
    /\ used = [b \in Bounds |-> 0]

\* The app starts signed in; MainVC.viewDidLoad queues fetchContainers.
Launch(d) ==
    /\ app[d] = "off"
    /\ app' = [app EXCEPT ![d] = "on"]
    /\ mainQ' = [mainQ EXCEPT ![d] = <<FetchBlock>>]
    /\ UNCHANGED <<server, container, alert, sharedQ, sdkVars, netVars, histVars, used>>

\* The process ends.  Persistence is off, so all it had is gone, the writes
\* that were not acknowledged too.
End(d) ==
    /\ app' = [app EXCEPT ![d] = "off"]
    /\ container' = [container EXCEPT ![d] = <<>>]
    /\ alert' = [alert EXCEPT ![d] = NoAlert]
    /\ mainQ' = [mainQ EXCEPT ![d] = <<>>]
    /\ sharedQ' = [sharedQ EXCEPT ![d] = <<>>]
    /\ observers' = [observers EXCEPT ![d] = 0]
    /\ cache' = [cache EXCEPT ![d] = Unknown]
    /\ pending' = [pending EXCEPT ![d] = <<>>]
    /\ link' = [link EXCEPT ![d] = "lost"]
    /\ applied' = [applied EXCEPT ![d] = 0]
    /\ down' = [down EXCEPT ![d] = <<>>]

Kill(d) ==
    /\ app[d] = "on"
    /\ used["kills"] < MaxKills
    /\ used' = [used EXCEPT !["kills"] = @ + 1]
    /\ End(d)
    /\ UNCHANGED <<server, histVars>>

-----------------------------------------------------------------------------
\* Taps.

\* WriteVC: the user confirms "save?".  A date the container already has
\* brings up a second alert; otherwise the dream goes under key count.
DateCheckAndSave(d, x) ==
    /\ Tap(d, "edits", MaxEdits)
    /\ Len(container[d]) <= MaxKey
    /\ IF \E i \in DOMAIN container[d] : container[d][i].writedDate = x.writedDate
       THEN /\ alert' = [alert EXCEPT ![d] = [asks |-> "replace", dream |-> x]]
            /\ UNCHANGED sharedQ
       ELSE /\ sharedQ' = [sharedQ EXCEPT ![d] = Append(@, SetCall(Len(container[d]), x))]
            /\ UNCHANGED alert
    /\ UNCHANGED <<server, app, container, mainQ, sdkVars, netVars, histVars>>

\* The user agrees to replace: the new dream goes under key count, as above.
ConfirmReplace(d) ==
    /\ Answer(d, "replace")
    /\ Len(container[d]) <= MaxKey
    /\ sharedQ' = [sharedQ EXCEPT ![d] =
                      Append(@, SetCall(Len(container[d]), alert[d].dream))]
    /\ asked' = asked \cup {alert[d].dream.writedDate}
    /\ UNCHANGED <<server, app, container, mainQ, sdkVars, netVars, trapped, kept, used>>

\* A row is swiped in MainVC, or delete is tapped on a detail page: the alert
\* captures the dream shown.
AskDelete(d, i) ==
    /\ Tap(d, "edits", MaxEdits)
    /\ i \in DOMAIN container[d]
    /\ alert' = [alert EXCEPT ![d] = [asks |-> "delete", dream |-> container[d][i]]]
    /\ UNCHANGED <<server, app, container, mainQ, sharedQ, sdkVars, netVars, histVars>>

ConfirmDelete(d) ==
    /\ Answer(d, "delete")
    /\ mainQ' = [mainQ EXCEPT ![d] = Append(@, RemoveBlock(alert[d].dream))]
    /\ asked' = asked \cup {alert[d].dream.writedDate}
    /\ UNCHANGED <<server, app, container, sharedQ, sdkVars, netVars, trapped, kept, used>>

\* MainVC.allDeleteBtn with a container that is not empty.
AskDeleteAll(d) ==
    /\ Tap(d, "edits", MaxEdits)
    /\ container[d] # <<>>
    /\ alert' = [alert EXCEPT ![d] = [asks |-> "deleteAll"]]
    /\ UNCHANGED <<server, app, container, mainQ, sharedQ, sdkVars, netVars, histVars>>

ConfirmDeleteAll(d) ==
    /\ Answer(d, "deleteAll")
    /\ mainQ' = [mainQ EXCEPT ![d] = Append(@, RemoveAllBlock)]
    /\ asked' = Dates
    /\ UNCHANGED <<server, app, container, sharedQ, sdkVars, netVars, trapped, kept, used>>

CancelAlert(d) ==
    /\ \E q \in {"replace", "delete", "deleteAll"} : Answer(d, q)
    /\ UNCHANGED <<server, app, container, mainQ, sharedQ, sdkVars, netVars, histVars, used>>

\* SearchVC.viewDidLoad queues a fetchContainers of its own.
OpenSearch(d) ==
    /\ Tap(d, "fetches", MaxFetches)
    /\ mainQ' = [mainQ EXCEPT ![d] = Append(@, FetchBlock)]
    /\ UNCHANGED <<server, uiVars, sharedQ, sdkVars, netVars, histVars>>

\* SearchVC.refresh empties the shared container before it fetches.
Refresh(d) ==
    /\ Tap(d, "fetches", MaxFetches)
    /\ container' = [container EXCEPT ![d] = <<>>]
    /\ mainQ' = [mainQ EXCEPT ![d] = Append(@, FetchBlock)]
    /\ UNCHANGED <<server, app, alert, sharedQ, sdkVars, netVars, histVars>>

UserStep(d) ==
    \/ \E x \in Dream : DateCheckAndSave(d, x)
    \/ ConfirmReplace(d)
    \/ \E i \in 1 .. MaxKey + 1 : AskDelete(d, i)
    \/ ConfirmDelete(d)
    \/ AskDeleteAll(d)
    \/ ConfirmDeleteAll(d)
    \/ CancelAlert(d)
    \/ OpenSearch(d)
    \/ Refresh(d)

-----------------------------------------------------------------------------
\* The main thread runs the first block of its queue.
MainBlock(d, kind) ==
    /\ app[d] = "on"
    /\ mainQ[d] # <<>>
    /\ Head(mainQ[d]).do = kind
    /\ mainQ' = [mainQ EXCEPT ![d] = Tail(@)]

\* fetchContainers: one more observe(.value).
RunFetch(d) ==
    /\ MainBlock(d, "fetch")
    /\ sharedQ' = [sharedQ EXCEPT ![d] = Append(@, ObserveCall)]
    /\ UNCHANGED <<server, uiVars, sdkVars, netVars, histVars, used>>

\* The observer's callback replaces the container by the sorted snapshot.
RunEvent(d) ==
    /\ MainBlock(d, "event")
    /\ CastSucceeds(Head(mainQ[d]).node)
    /\ \E s \in Containers(Head(mainQ[d]).node) :
          container' = [container EXCEPT ![d] = s]
    /\ UNCHANGED <<server, app, alert, sharedQ, sdkVars, netVars, histVars, used>>

\* The same callback when the forced cast fails: the process is gone.
RunTrap(d) ==
    /\ app[d] = "on"
    /\ mainQ[d] # <<>>
    /\ Head(mainQ[d]).do = "event"
    /\ ~CastSucceeds(Head(mainQ[d]).node)
    /\ trapped' = [trapped EXCEPT ![d] = TRUE]
    /\ End(d)
    /\ UNCHANGED <<server, kept, asked, used>>

\* Model.removeAction.
RunRemove(d) ==
    /\ MainBlock(d, "remove")
    /\ \E s \in WithoutDate(container[d], Head(mainQ[d]).dream.writedDate) :
          /\ container' = [container EXCEPT ![d] = s]
          /\ sharedQ' = [sharedQ EXCEPT ![d] = @ \o updateAction(s)]
    /\ UNCHANGED <<server, app, alert, sdkVars, netVars, histVars, used>>

\* Model.removeAllAction.
RunRemoveAll(d) ==
    /\ MainBlock(d, "removeAll")
    /\ container' = [container EXCEPT ![d] = <<>>]
    /\ sharedQ' = [sharedQ EXCEPT ![d] = @ \o updateAction(<<>>)]
    /\ UNCHANGED <<server, app, alert, sdkVars, netVars, histVars, used>>

MainStep(d) ==
    \/ RunFetch(d)
    \/ RunEvent(d)
    \/ RunTrap(d)
    \/ RunRemove(d)
    \/ RunRemoveAll(d)

-----------------------------------------------------------------------------
\* The SDK's queue runs its first call.

\* Mutant: a further observer gets no first event.
addEventRegistrationQuiet(d) ==
    /\ sharedQ[d] # <<>>
    /\ Head(sharedQ[d]) = ObserveCall
    /\ sharedQ' = [sharedQ EXCEPT ![d] = Tail(@)]
    /\ observers' = [observers EXCEPT ![d] = @ + 1]
    /\ UNCHANGED <<server, uiVars, mainQ, cache, pending, netVars, histVars, used>>

\* FRepo addEventRegistration: the new registration alone gets the snapshot
\* the view already has.
addEventRegistration(d) ==
    /\ sharedQ[d] # <<>>
    /\ Head(sharedQ[d]) = ObserveCall
    /\ sharedQ' = [sharedQ EXCEPT ![d] = Tail(@)]
    /\ observers' = [observers EXCEPT ![d] = @ + 1]
    /\ mainQ' = [mainQ EXCEPT ![d] =
                    @ \o raiseEvents(Unknown, Shown(d), 1)]
    /\ UNCHANGED <<server, uiVars, cache, pending, netVars, histVars, used>>

\* What the observers are told when cache and pending become c and p.
Notify(d, c, p) ==
    /\ cache' = [cache EXCEPT ![d] = c]
    /\ pending' = [pending EXCEPT ![d] = p]
    /\ mainQ' = [mainQ EXCEPT ![d] =
                    @ \o raiseEvents(Shown(d), Visible(c, p), observers[d])]
    /\ UNCHANGED observers

\* FRepo set: the write shows at once and waits for the server.
ApplyUserOverwrite(d) ==
    /\ sharedQ[d] # <<>>
    /\ Head(sharedQ[d]) # ObserveCall
    /\ sharedQ' = [sharedQ EXCEPT ![d] = Tail(@)]
    /\ Notify(d, cache[d], Append(pending[d], Head(sharedQ[d])))
    /\ UNCHANGED <<server, uiVars, netVars, histVars, used>>

SharedStep(d) == addEventRegistration(d) \/ ApplyUserOverwrite(d)

\* Mutant: a value from the server raises no events.
OnDataUpdateQuiet(d) ==
    /\ down[d] # <<>>
    /\ Head(down[d]).type = "data"
    /\ down' = [down EXCEPT ![d] = Tail(@)]
    /\ cache' = [cache EXCEPT ![d] = Head(down[d]).node]
    /\ UNCHANGED <<server, uiVars, mainQ, sharedQ, observers, pending, link, applied, histVars, used>>

\* FRepo onDataUpdate: the server's value replaces the cache.
OnDataUpdate(d) ==
    /\ down[d] # <<>>
    /\ Head(down[d]).type = "data"
    /\ down' = [down EXCEPT ![d] = Tail(@)]
    /\ Notify(d, Head(down[d]).node, pending[d])
    /\ UNCHANGED <<server, uiVars, sharedQ, link, applied, histVars, used>>

\* FRepo ackWrite: the oldest pending write is the server's now.
AckWrite(d) ==
    /\ down[d] # <<>>
    /\ Head(down[d]).type = "ack"
    /\ down' = [down EXCEPT ![d] = Tail(@)]
    /\ applied' = [applied EXCEPT ![d] = @ - 1]
    /\ Notify(d, cache[d], Tail(pending[d]))
    /\ UNCHANGED <<server, uiVars, sharedQ, link, histVars, used>>

Receive(d) == OnDataUpdate(d) \/ AckWrite(d)

-----------------------------------------------------------------------------
\* The connection and the server.

\* Mutant: no reconnect while writes are outstanding.
ConnectWhenIdle(d) ==
    /\ app[d] = "on"
    /\ link[d] = "lost"
    /\ pending[d] = <<>>
    /\ link' = [link EXCEPT ![d] = "open"]
    /\ UNCHANGED <<server, uiVars, mainQ, sharedQ, sdkVars, applied, down, histVars, used>>

Connect(d) ==
    /\ app[d] = "on"
    /\ link[d] = "lost"
    /\ link' = [link EXCEPT ![d] = "open"]
    /\ UNCHANGED <<server, uiVars, mainQ, sharedQ, sdkVars, applied, down, histVars, used>>

\* Mutant: a listen is not answered with the value.
ListenWithoutValue(d) ==
    /\ link[d] = "open"
    /\ observers[d] > 0
    /\ link' = [link EXCEPT ![d] = "listening"]
    /\ UNCHANGED <<server, uiVars, mainQ, sharedQ, sdkVars, applied, down, histVars, used>>

\* FPersistentConnection restoreState sends the listen before the puts; the
\* server answers with its value.
Listen(d) ==
    /\ link[d] = "open"
    /\ observers[d] > 0
    /\ link' = [link EXCEPT ![d] = "listening"]
    /\ down' = [down EXCEPT ![d] = Append(@, [type |-> "data", node |-> server])]
    /\ UNCHANGED <<server, uiVars, mainQ, sharedQ, sdkVars, applied, histVars, used>>

\* The server applies the next put of d, tells every listener, and then
\* acknowledges it.  A device observes before it writes (Ready), so its puts
\* follow its listen on every connection.
ServerApply(d) ==
    /\ link[d] = "listening"
    /\ applied[d] < Len(pending[d])
    /\ LET w == pending[d][applied[d] + 1]
           data == [type |-> "data", node |-> Apply(server, w)]
       IN  /\ server' = Apply(server, w)
           /\ kept' = kept \cup ({Put(w)} \ {None})
           /\ down' = [e \in Devices |->
                         IF link[e] # "listening" THEN down[e]
                         ELSE IF e = d THEN down[e] \o <<data, [type |-> "ack"]>>
                         ELSE Append(down[e], data)]
    /\ applied' = [applied EXCEPT ![d] = @ + 1]
    /\ UNCHANGED <<uiVars, mainQ, sharedQ, sdkVars, link, trapped, asked, used>>

\* Mutant: the puts sent before the connection was lost are not sent again.
DropKeepsSent(d) ==
    /\ link[d] # "lost"
    /\ used["drops"] < MaxDrops
    /\ used' = [used EXCEPT !["drops"] = @ + 1]
    /\ link' = [link EXCEPT ![d] = "lost"]
    /\ down' = [down EXCEPT ![d] = <<>>]
    /\ UNCHANGED <<server, uiVars, mainQ, sharedQ, sdkVars, applied, histVars>>

\* FPersistentConnection onDisconnect: what was in flight is lost, every
\* outstanding put will be sent again.
Drop(d) ==
    /\ link[d] # "lost"
    /\ used["drops"] < MaxDrops
    /\ used' = [used EXCEPT !["drops"] = @ + 1]
    /\ link' = [link EXCEPT ![d] = "lost"]
    /\ applied' = [applied EXCEPT ![d] = 0]
    /\ down' = [down EXCEPT ![d] = <<>>]
    /\ UNCHANGED <<server, uiVars, mainQ, sharedQ, sdkVars, histVars>>

NetStep(d) == Connect(d) \/ Listen(d) \/ ServerApply(d)

-----------------------------------------------------------------------------
Next == \E d \in Devices :
    \/ Launch(d)
    \/ Kill(d)
    \/ UserStep(d)
    \/ MainStep(d)
    \/ SharedStep(d)
    \/ Receive(d)
    \/ NetStep(d)
    \/ Drop(d)

\* The dispatch queues serve every block, the SDK keeps reconnecting, and the
\* server answers.  The user, the system and the network's failures are free.
Fairness == \A d \in Devices :
    /\ WF_vars(MainStep(d))
    /\ WF_vars(SharedStep(d))
    /\ WF_vars(Receive(d))
    /\ WF_vars(Connect(d))
    /\ WF_vars(Listen(d))
    /\ WF_vars(ServerApply(d))

Spec == Init /\ [][Next]_vars

FairSpec == Spec /\ Fairness

-----------------------------------------------------------------------------
(* Properties. *)

\* Every variable has its type: in particular no array index or stored key
\* ever leaves Keys, and no more writes count as applied than are pending.
TypeOK ==
    /\ server \in Node
    /\ app \in [Devices -> {"on", "off"}]
    /\ container \in [Devices -> Seq(Dream)]
    /\ \A d \in Devices : Len(container[d]) <= MaxKey + 1
    /\ alert \in [Devices -> Alert]
    /\ mainQ \in [Devices -> Seq(Block)]
    /\ sharedQ \in [Devices -> Seq(Call)]
    /\ observers \in [Devices -> Nat]
    /\ cache \in [Devices -> Node \cup {Unknown}]
    /\ pending \in [Devices -> Seq(Write)]
    /\ link \in [Devices -> {"lost", "open", "listening"}]
    /\ applied \in [Devices -> Nat]
    /\ down \in [Devices -> Seq(Message)]
    /\ trapped \in [Devices -> BOOLEAN]
    /\ kept \subseteq Dream
    /\ asked \subseteq Dates
    /\ used \in [Bounds -> Nat]

\* The acknowledgements among messages s.
Acks(s) == {i \in DOMAIN s : s[i].type = "ack"}

\* Every put the server applied on the present connection has exactly one
\* acknowledgement on its way, and is still pending: across lost connections
\* and repeated puts, an acknowledgement never retires a write it is not for.
AcksMatch ==
    \A d \in Devices :
        /\ applied[d] = Cardinality(Acks(down[d]))
        /\ applied[d] <= Len(pending[d])

\* Nothing is under way on device d and it hears the server.
Settled(d) ==
    /\ app[d] = "on"
    /\ Idle(d)
    /\ observers[d] > 0
    /\ link[d] = "listening"
    /\ pending[d] = <<>>
    /\ down[d] = <<>>

\* Once a device has settled, the diary it shows is the one the database
\* holds, in ascending order of date: no observer's callback was missed or
\* applied out of order, and no local removal or refresh of the container
\* (Model.removeAction, SearchVC.refresh) outlived the next snapshot.
Convergence ==
    \A d \in Devices : Settled(d) =>
        CastSucceeds(server) /\ container[d] \in Containers(server)

\* The last event in queue q is for node n; q holds no event.
LastEventIs(q, n) ==
    \E i \in DOMAIN q :
        /\ q[i] = EventBlock(n)
        /\ \A j \in DOMAIN q : j > i => q[j].do # "event"

NoEvent(q) == \A i \in DOMAIN q : q[i].do # "event"

Queued(q, x) == \E i \in DOMAIN q : q[i] = x

\* Why a device converges: as soon as its observers have a snapshot to show,
\* either the last event in the queue is for that snapshot, or no event is
\* queued and the container already shows it, or the container was changed
\* locally and something is queued that is bound to raise an event (a
\* removeValue of a node that is not empty, or a further observe).
Pipeline(d) ==
    Shown(d) # Unknown /\ observers[d] > 0 =>
        \/ LastEventIs(mainQ[d], Shown(d))
        \/ /\ NoEvent(mainQ[d])
           /\ \/ CastSucceeds(Shown(d)) /\ container[d] \in Containers(Shown(d))
              \/ Shown(d) # Empty /\ Queued(sharedQ[d], RemoveCall)
              \/ Queued(mainQ[d], FetchBlock) \/ Queued(sharedQ[d], ObserveCall)

EventPipeline == \A d \in Devices : Pipeline(d)

\* A device that listens has the server's value, or the last value on its way
\* to it is the server's: no push is missed between the answer to the listen
\* and the first change, nor by a device that did not make the change.
Heard(d) ==
    link[d] = "listening" =>
        \/ /\ cache[d] = server
           /\ \A i \in DOMAIN down[d] : down[d][i].type # "data"
        \/ \E i \in DOMAIN down[d] :
              /\ down[d][i] = [type |-> "data", node |-> server]
              /\ \A j \in DOMAIN down[d] : j > i => down[d][j].type # "data"

ServerHeard == \A d \in Devices : Heard(d)

\* As long as no connection is lost the keys in the database are 0 .. n - 1,
\* also between the removeValue and the setValues of updateAction and after the
\* app was killed there: the next launch can read the diary.
ServerStaysReadable == used["drops"] = 0 => CastSucceeds(server)

\* The forced cast of fetchContainers (Model.swift:25) never fails.
NeverTraps == \A d \in Devices : ~trapped[d]

\* A dream that was stored is still stored when a device has settled, unless
\* the user agreed to delete or replace the dreams of its date.
NothingLostUnasked ==
    \A d \in Devices : Settled(d) =>
        \A x \in kept :
            x.writedDate \in asked \/ \E k \in Keys : server[k] = x

\* With one writer, what the server sends never changes what the device shows
\* once it has loaded: neither the echo of a write, nor its acknowledgement,
\* nor the value sent after a reconnect in the middle of an updateAction.
EchoIsSilent ==
    [][\A d \in Devices :
         Receive(d) /\ cache[d] # Unknown
            => Shown(d)' = Shown(d)]_vars

\* A date has one dream once a device has settled.
OneDreamPerDate ==
    \A d \in Devices : Settled(d) =>
        \A i, j \in DOMAIN container[d] :
            container[d][i].writedDate = container[d][j].writedDate => i = j

\* Every running device settles again and again, or its process ends: no
\* queue is stuck behind another and every write is acknowledged in the end.
CatchesUp ==
    \A d \in Devices : app[d] = "on" ~> (Settled(d) \/ app[d] = "off")
=============================================================================
