------------------------------ MODULE Session -------------------------------
(***************************************************************************)
(* Accounts on one device: LoginVC, JoinVC, MenuTVC and MainVC's listener, *)
(* with Firebase Auth answering their requests late and in any order, the  *)
(* shared container that outlives a session, and the one connection to the *)
(* database that all sessions use in turn.                                 *)
(*                                                                         *)
(* A dream is abstracted to its author: diary[u] holds the authors of the  *)
(* dreams stored for account u, container those of the dreams on screen.   *)
(***************************************************************************)
EXTENDS Integers, Sequences, FiniteSets

CONSTANTS
    Accounts,      \* uids
    Nobody,        \* no current user
    RulesPerUser,  \* the database lets only its owner read and write a diary
    MaxScreens,    \* bound: view controllers ever presented
    MaxRequests,   \* bound: requests to Firebase Auth
    MaxEdits,      \* bound: saves and deletions
    MaxDrops,      \* bound: lost connections to the database
    WaitAuth,      \* the user acts only when no answer of Auth is due
    WaitListener,  \* the user acts only after MainVC's listener was called
    WaitLoad,      \* the user edits only when the diary has been loaded
    WaitShown      \* the user leaves an account only when, besides, all that
                   \* was to be shown of its diary has been shown

ASSUME NobodyAssumption == Nobody \notin Accounts
ASSUME SwitchAssumption == {RulesPerUser, WaitAuth, WaitListener, WaitLoad, WaitShown} \subseteq BOOLEAN
ASSUME BoundAssumption == {MaxScreens, MaxRequests, MaxEdits, MaxDrops} \subseteq Nat

VARIABLES
    user,       \* Auth.auth().currentUser
    signIns,    \* how many FIRUser objects have been the current user
    status,     \* accounts at Firebase Auth: "free", "member" or "gone"
    stack,      \* the presented view controllers, the one in front last
    made,       \* view controllers presented so far
    requests,   \* requests to Auth without an answer
    sent,       \* requests so far
    fetches,    \* fetchContainers blocks in the main queue
    container,  \* DreamContainer.sharedInstance
    loaded,     \* whether the MainVC in front has had a callback
    edits,
    crashed,
    \* The database client of the device.
    link,       \* "down", "token" (a token has been asked for) or "up"
    token,      \* whose token was asked for, to open a connection with
    puts,       \* outstandingPuts: writes without an answer
    putCounter, \* the number of the next one
    listening,  \* accounts whose diary has an observer
    cached,     \* of these, the ones whose diary the server has sent
    cache,      \* what it sent
    due,        \* callbacks of observers not yet run, as the dreams they bring
    drops,      \* connections lost
    \* The connection and the server.
    outbox,     \* messages on their way to the server
    inbox,      \* messages on their way back
    auth,       \* whom the connection is authenticated as
    heard,      \* accounts whose diary the connection listens to
    diary,      \* users/<uid>/dream
    info        \* whether users/<uid>/userInfo is there

authVars == <<user, signIns, status>>
screenVars == <<stack, made, fetches, loaded>>
askVars == <<requests, sent>>
clientVars == <<puts, putCounter, listening, cached, cache, due>>
linkVars == <<link, token, drops>>
serverVars == <<auth, heard, diary, info>>
dataVars == <<clientVars, linkVars, serverVars, outbox, inbox>>
appVars == <<authVars, screenVars, askVars, container, edits, crashed>>
vars == <<appVars, dataVars>>

Kinds == {"Main", "Menu", "Star", "Login", "Join", "Failed", "Welcome"}
Screen == [kind : Kinds, id : Nat]
Request == [kind : {"signIn", "create", "delete"}, uid : Accounts,
            by : Nat, n : Nat, signIn : Nat]

\* setValue and removeValue: of one dream, of all dreams of an account, of its
\* userInfo, and of all that is stored for it.
PutKinds == {"save", "update", "userInfo", "remove"}
Put == [kind : PutKinds, uid : Accounts, dreams : SUBSET Accounts, n : Nat]
Message ==
    [kind : {"auth"}, uid : Accounts \cup {Nobody}] \cup [kind : {"listen"}, uid : Accounts] \cup Put
Reply ==
    [kind : {"value"}, uid : Accounts, dreams : SUBSET Accounts] \cup
    [kind : {"revoked"}, uid : Accounts] \cup
    [kind : {"ok", "denied"}, uid : Accounts, dreams : SUBSET Accounts, n : Nat]

Top == stack[Len(stack)]

-----------------------------------------------------------------------------
\* present(_:) by view controller `by`: UIKit ignores it unless `by` is in
\* front.  A new MainVC queues a fetch in viewDidLoad.
Presented(s, by, kind) ==
    IF s[Len(s)].id # by
    THEN /\ stack' = s
         /\ UNCHANGED <<made, fetches, loaded>>
    ELSE /\ made < MaxScreens
         /\ stack' = Append(s, [kind |-> kind, id |-> made])
         /\ made' = made + 1
         /\ fetches' = IF kind = "Main" THEN fetches + 1 ELSE fetches
         /\ loaded' = (loaded /\ kind # "Main")

present(by, kind) == Presented(stack, by, kind)

\* dismiss(animated:) of the one in front.
dismiss ==
    /\ stack' = SubSeq(stack, 1, Len(stack) - 1)
    /\ UNCHANGED <<made, fetches, loaded>>

-----------------------------------------------------------------------------
\* The database client.

\* A put that replaces all dreams of its account.
Whole(p) == p.kind \in {"update", "remove"}

\* The dreams and the userInfo of an account after put p.
DreamsAfter(a, p) == (IF Whole(p) THEN {} ELSE a) \cup p.dreams
InfoAfter(i, p) == p.kind # "remove" /\ (i \/ p.kind = "userInfo")

\* Some put of ps replaces the diary of u.
Replaced(u, ps) == \E p \in ps : p.uid = u /\ Whole(p)

\* The puts of ps to account u that no later one replaces.
Lasting(u, ps) ==
    {p \in ps : p.uid = u /\ \A q \in ps : q.uid = u /\ q.n > p.n => ~Whole(q)}

\* What the device takes for the diary: what the server sent, under its own puts.
View(u, sentBy, ps) ==
    (IF Replaced(u, ps) THEN {} ELSE sentBy[u]) \cup UNION {p.dreams : p \in Lasting(u, ps)}

\* All of the diary is known: the server has sent it, or a put replaces it.
Complete(u, known, ps) == u \in known \/ Replaced(u, ps)

\* The callback of an observer of u, when there is one and the diary is known.
Callback(u, known, sentBy, ps) ==
    IF u \in listening /\ Complete(u, known, ps) THEN <<View(u, sentBy, ps)>> ELSE <<>>

\* Messages leave at once, or wait for the connection.
Sending(msgs) == IF link = "up" THEN outbox \o msgs ELSE outbox

\* setValue or removeValue: remembered until it is answered, shown at once.
NewPut(kind, u, a) == [kind |-> kind, uid |-> u, dreams |-> a, n |-> putCounter]

putInternal(p) ==
    /\ puts' = puts \cup {p}
    /\ putCounter' = putCounter + 1
    /\ due' = IF p.kind = "userInfo" THEN due
              ELSE due \o Callback(p.uid, cached, cache, puts \cup {p})
    /\ UNCHANGED <<listening, cached, cache>>

\* Mutant: the connection is not told.
BecomeUserSilently(u, ps) ==
    /\ user' = u
    /\ token' = IF link = "token" /\ token = Nobody THEN u ELSE token
    /\ outbox' = Sending(ps)
    /\ UNCHANGED <<link, drops>>

\* The current user becomes u, and the connection is told, before the puts ps.
\* The observers of the old one stay, and so do their callbacks.  A connection
\* being opened hears of it too if it is not waiting for an older user's token.
BecomeUser(u, ps) ==
    /\ user' = u
    /\ token' = IF link = "token" /\ token = Nobody THEN u ELSE token
    /\ outbox' = Sending(<<[kind |-> "auth", uid |-> u]>> \o ps)
    /\ UNCHANGED <<link, drops>>

\* `currentUser!` or `uid!` met nil.
Trap ==
    /\ crashed' = TRUE
    /\ UNCHANGED <<authVars, screenVars, askVars, container, edits, dataVars>>

\* When the user taps on a screen of the given kind.
Tap(kind) ==
    /\ ~crashed
    /\ Top.kind = kind
    /\ WaitAuth => requests = {}
    /\ WaitListener => ~(kind = "Main" /\ user = Nobody)

Send(kind, u) ==
    /\ sent < MaxRequests
    /\ sent' = sent + 1
    /\ requests' = requests \cup
          {[kind |-> kind, uid |-> u, by |-> Top.id, n |-> sent, signIn |-> signIns]}

\* Auth answers request r, one of the given kinds.
Answered(r, kinds) ==
    /\ ~crashed
    /\ r.kind \in kinds
    /\ requests' = requests \ {r}
    /\ UNCHANGED sent

-----------------------------------------------------------------------------
\* The app was launched: MainVC is in front and has queued its fetch.  A user
\* who signed in earlier is still signed in.
Init ==
    /\ status \in [Accounts -> {"free", "member"}]
    /\ user \in {u \in Accounts : status[u] = "member"} \cup {Nobody}
    /\ signIns = 0
    /\ stack = <<[kind |-> "Main", id |-> 0]>>
    /\ made = 1
    /\ fetches = 1
    /\ loaded = FALSE
    /\ requests = {}
    /\ sent = 0
    /\ container = {}
    /\ edits = 0
    /\ crashed = FALSE
    /\ link = "down"
    /\ token = Nobody
    /\ drops = 0
    /\ puts = {}
    /\ putCounter = 0
    /\ listening = {}
    /\ cached = {}
    /\ cache = [u \in Accounts |-> {}]
    /\ due = <<>>
    /\ outbox = <<>>
    /\ inbox = <<>>
    /\ auth = Nobody
    /\ heard = {}
    /\ diary \in [Accounts -> SUBSET Accounts]
    /\ \A u \in Accounts : diary[u] \subseteq (IF status[u] = "member" THEN {u} ELSE {})
    /\ info = [u \in Accounts |-> status[u] = "member"]

-----------------------------------------------------------------------------
\* MainVC.

\* The listener of viewWillAppear finds nobody signed in.
AuthStateDidChange ==
    /\ ~crashed
    /\ Top.kind = "Main"
    /\ user = Nobody
    /\ present(Top.id, "Login")
    /\ UNCHANGED <<authVars, askVars, container, edits, crashed, dataVars>>

\* fetchContainers observes the diary of whoever is signed in by now: a first
\* observer listens, a later one is shown what is known.
RunFetch ==
    /\ ~crashed
    /\ fetches > 0
    /\ fetches' = fetches - 1
    /\ \/ /\ user = Nobody
          /\ UNCHANGED <<listening, due, outbox>>
       \/ /\ user \in listening
          /\ due' = due \o Callback(user, cached, cache, puts)
          /\ UNCHANGED <<listening, outbox>>
       \/ /\ user \in Accounts \ listening
          /\ listening' = listening \cup {user}
          /\ due' = IF Complete(user, {}, puts) THEN Append(due, View(user, cache, puts)) ELSE due
          /\ outbox' = Sending(<<[kind |-> "listen", uid |-> user]>>)
    /\ UNCHANGED <<authVars, stack, made, loaded, askVars, container, edits, crashed>>
    /\ UNCHANGED <<puts, putCounter, cached, cache, linkVars, serverVars, inbox>>

\* Mutant: the callback does not empty the container first.
RunEventAppends ==
    /\ ~crashed
    /\ due # <<>>
    /\ due' = Tail(due)
    /\ container' = container \cup Head(due)
    /\ loaded' = TRUE
    /\ UNCHANGED <<authVars, stack, made, fetches, askVars, edits, crashed>>
    /\ UNCHANGED <<puts, putCounter, listening, cached, cache, linkVars, serverVars, outbox, inbox>>

\* An observer's callback, whoever is signed in by now.
RunEvent ==
    /\ ~crashed
    /\ due # <<>>
    /\ due' = Tail(due)
    /\ container' = Head(due)
    /\ loaded' = TRUE
    /\ UNCHANGED <<authVars, stack, made, fetches, askVars, edits, crashed>>
    /\ UNCHANGED <<puts, putCounter, listening, cached, cache, linkVars, serverVars, outbox, inbox>>

Edit ==
    /\ Tap("Main")
    /\ WaitLoad => loaded
    /\ edits < MaxEdits

\* Mutant: the put waits for the next connection.
PutOwnLater(kind, a) ==
    /\ putInternal(NewPut(kind, user, a))
    /\ UNCHANGED <<outbox, linkVars, serverVars, inbox>>

\* A put of the signed-in user's.
PutOwn(kind, a) ==
    /\ putInternal(NewPut(kind, user, a))
    /\ outbox' = Sending(<<NewPut(kind, user, a)>>)
    /\ UNCHANGED <<linkVars, serverVars, inbox>>

\* Model.saveAction: a dream of the user's.
saveAction ==
    /\ Edit
    /\ user # Nobody
    /\ edits' = edits + 1
    /\ PutOwn("save", {user})
    /\ UNCHANGED <<authVars, screenVars, askVars, container, crashed>>

\* Model.removeAction and removeAllAction: what is left of the container
\* becomes the diary of whoever is signed in.
removeAction(rest) ==
    /\ Edit
    /\ user # Nobody
    /\ container # {}
    /\ edits' = edits + 1
    /\ container' = rest
    /\ PutOwn("update", rest)
    /\ UNCHANGED <<authVars, screenVars, askVars, crashed>>

EditTraps ==
    /\ Edit
    /\ user = Nobody
    /\ Trap

-----------------------------------------------------------------------------
\* MenuTVC and StarStorageVC.

\* viewDidLoad reads currentUser!.
OpenMenu ==
    /\ Tap("Main")
    /\ user # Nobody
    /\ present(Top.id, "Menu")
    /\ UNCHANGED <<authVars, askVars, container, edits, crashed, dataVars>>

OpenMenuTraps ==
    /\ Tap("Main")
    /\ user = Nobody
    /\ Trap

OpenStar ==
    /\ Tap("Menu")
    /\ present(Top.id, "Star")
    /\ UNCHANGED <<authVars, askVars, container, edits, crashed, dataVars>>

\* Mutant: MainVC can be dismissed too.
LeaveAny(kind) ==
    /\ Tap(kind)
    /\ dismiss
    /\ UNCHANGED <<authVars, askVars, container, edits, crashed, dataVars>>

\* The side menu is swiped away; StarStorageVC, JoinVC and the alert of a
\* failed login are left.
Leave(kind) ==
    /\ kind \in {"Menu", "Star", "Join", "Failed"}
    /\ Tap(kind)
    /\ dismiss
    /\ UNCHANGED <<authVars, askVars, container, edits, crashed, dataVars>>

LeaveAccount ==
    /\ Tap("Menu")
    /\ WaitShown => loaded /\ due = <<>>

logout ==
    /\ LeaveAccount
    /\ BecomeUser(Nobody, <<>>)
    /\ present(Top.id, "Login")
    /\ UNCHANGED <<signIns, status, askVars, container, edits, crashed>>
    /\ UNCHANGED <<clientVars, serverVars, inbox>>

\* Mutant: only the dreams are removed.
withdrawalKeepsInfo ==
    /\ LeaveAccount
    /\ user # Nobody
    /\ PutOwn("update", {})
    /\ Send("delete", user)
    /\ UNCHANGED <<authVars, screenVars, container, edits, crashed>>

\* A put removes all of users/<uid>; without waiting for its answer Auth is
\* asked, over another connection, to delete the account.
withdrawal ==
    /\ LeaveAccount
    /\ user # Nobody
    /\ PutOwn("remove", {})
    /\ Send("delete", user)
    /\ UNCHANGED <<authVars, screenVars, container, edits, crashed>>

WithdrawalTraps ==
    /\ LeaveAccount
    /\ user = Nobody
    /\ Trap

\* Mutant: the callback of a deletion does not present LoginVC.
DeleteDoneStays(r) ==
    /\ Answered(r, {"delete"})
    /\ status[r.uid] = "member"
    /\ status' = [status EXCEPT ![r.uid] = "gone"]
    /\ IF user = r.uid /\ signIns = r.signIn
       THEN BecomeUser(Nobody, <<>>)
       ELSE UNCHANGED <<user, linkVars, outbox>>
    /\ UNCHANGED <<signIns, screenVars, container, edits, crashed>>
    /\ UNCHANGED <<clientVars, serverVars, inbox>>

\* The account is gone, and with it the session that asked, if it is still
\* the current one (FIRAuth signOutByForceWithUserID).
DeleteDone(r) ==
    /\ Answered(r, {"delete"})
    /\ status[r.uid] = "member"
    /\ status' = [status EXCEPT ![r.uid] = "gone"]
    /\ IF user = r.uid /\ signIns = r.signIn
       THEN BecomeUser(Nobody, <<>>)
       ELSE UNCHANGED <<user, linkVars, outbox>>
    /\ present(r.by, "Login")
    /\ UNCHANGED <<signIns, container, edits, crashed>>
    /\ UNCHANGED <<clientVars, serverVars, inbox>>

\* Deletion refused, or sign-up refused: the app only prints the error, or
\* builds an alert that it never presents.
Refused(r) ==
    /\ Answered(r, {"delete", "create"})
    /\ UNCHANGED <<authVars, screenVars, container, edits, crashed, dataVars>>

-----------------------------------------------------------------------------
\* LoginVC and JoinVC.

loginDoneBtn(u) ==
    /\ Tap("Login")
    /\ Send("signIn", u)
    /\ UNCHANGED <<authVars, screenVars, container, edits, crashed, dataVars>>

\* Mutant: MainVC is presented from whatever is in front.
loginEventDoneOnTop(r) ==
    /\ Answered(r, {"signIn"})
    /\ status[r.uid] = "member"
    /\ signIns' = signIns + 1
    /\ BecomeUser(r.uid, <<>>)
    /\ present(Top.id, "Main")
    /\ UNCHANGED <<status, container, edits, crashed>>
    /\ UNCHANGED <<clientVars, serverVars, inbox>>

loginEventDone(r) ==
    /\ Answered(r, {"signIn"})
    /\ status[r.uid] = "member"
    /\ signIns' = signIns + 1
    /\ BecomeUser(r.uid, <<>>)
    /\ present(r.by, "Main")
    /\ UNCHANGED <<status, container, edits, crashed>>
    /\ UNCHANGED <<clientVars, serverVars, inbox>>

\* Two alerts are presented, one after the other; UIKit ignores the second.
loginEventFailed(r) ==
    /\ Answered(r, {"signIn"})
    /\ present(r.by, "Failed")
    /\ UNCHANGED <<authVars, container, edits, crashed, dataVars>>

joinBtn ==
    /\ Tap("Login")
    /\ present(Top.id, "Join")
    /\ UNCHANGED <<authVars, askVars, container, edits, crashed, dataVars>>

\* The two passwords agree.
joinDoneBtn(u) ==
    /\ Tap("Join")
    /\ Send("create", u)
    /\ UNCHANGED <<authVars, screenVars, container, edits, crashed, dataVars>>

\* Auth signs the new account in before the app stores its userInfo.
joinEventDone(r) ==
    /\ Answered(r, {"create"})
    /\ status[r.uid] = "free"
    /\ status' = [status EXCEPT ![r.uid] = "member"]
    /\ signIns' = signIns + 1
    /\ putInternal(NewPut("userInfo", r.uid, {}))
    /\ BecomeUser(r.uid, <<NewPut("userInfo", r.uid, {})>>)
    /\ present(r.by, "Welcome")
    /\ UNCHANGED <<container, edits, crashed, serverVars, inbox>>

\* The welcome alert goes away and its handler presents MainVC from JoinVC.
WelcomeOK ==
    /\ Tap("Welcome")
    /\ LET s == SubSeq(stack, 1, Len(stack) - 1)
       IN  Presented(s, s[Len(s)].id, "Main")
    /\ UNCHANGED <<authVars, askVars, container, edits, crashed, dataVars>>

-----------------------------------------------------------------------------
\* The connection.

\* The connection is lost, with what was under way; puts and listens stay.
onDisconnect ==
    /\ ~crashed
    /\ link = "up"
    /\ drops < MaxDrops
    /\ link' = "down"
    /\ drops' = drops + 1
    /\ outbox' = <<>>
    /\ inbox' = <<>>
    /\ auth' = Nobody
    /\ heard' = {}
    /\ UNCHANGED <<appVars, clientVars, token, diary, info>>

\* The sequences that hold each member of S once.
Orders(S) ==
    {s \in [1 .. Cardinality(S) -> S] : \A i, j \in DOMAIN s : i # j => s[i] # s[j]}

\* The retry timer: the token of the current user is asked for...
tryScheduleReconnect ==
    /\ ~crashed
    /\ link = "down"
    /\ link' = "token"
    /\ token' = user
    /\ UNCHANGED <<appVars, clientVars, drops, serverVars, outbox, inbox>>

\* ...and used when it comes, whoever is the current user by then.  Listens go
\* first, in the order of a dictionary, then the puts by their numbers.
restoreState ==
    /\ ~crashed
    /\ link = "token"
    /\ link' = "up"
    /\ token' = Nobody
    /\ \E ls \in Orders(listening), ps \in Orders(puts) :
          /\ \A i, j \in DOMAIN ps : i < j => ps[i].n < ps[j].n
          /\ outbox' = (IF token = Nobody THEN <<>> ELSE <<[kind |-> "auth", uid |-> token]>>)
                          \o [i \in DOMAIN ls |-> [kind |-> "listen", uid |-> ls[i]]] \o ps
    /\ UNCHANGED <<appVars, clientVars, drops, serverVars, inbox>>

-----------------------------------------------------------------------------
\* The server.

Allowed(u) == RulesPerUser => auth = u

\* The server takes message m, the next one, of one of the given kinds.
Served(m, kinds) ==
    /\ m.kind \in kinds
    /\ outbox' = Tail(outbox)
    /\ UNCHANGED <<appVars, clientVars, linkVars>>

ServeAuth(m) ==
    /\ Served(m, {"auth"})
    /\ auth' = m.uid
    /\ UNCHANGED <<heard, diary, info, inbox>>

\* The diary is sent, or the listen is refused.
ServeListen(m) ==
    /\ Served(m, {"listen"})
    /\ \/ /\ Allowed(m.uid)
          /\ heard' = heard \cup {m.uid}
          /\ inbox' = Append(inbox, [kind |-> "value", uid |-> m.uid, dreams |-> diary[m.uid]])
       \/ /\ ~Allowed(m.uid)
          /\ inbox' = Append(inbox, [kind |-> "revoked", uid |-> m.uid])
          /\ UNCHANGED heard
    /\ UNCHANGED <<auth, diary, info>>

\* The put is done, and a listener told what is stored now, or refused.
PutReply(kind, m, a) == [kind |-> kind, uid |-> m.uid, dreams |-> a, n |-> m.n]

ServePut(m) ==
    /\ Served(m, PutKinds)
    /\ \/ /\ Allowed(m.uid)
          /\ diary' = [diary EXCEPT ![m.uid] = DreamsAfter(@, m)]
          /\ info' = [info EXCEPT ![m.uid] = InfoAfter(@, m)]
          /\ inbox' = Append(inbox, PutReply("ok", m, DreamsAfter(diary[m.uid], m)))
       \/ /\ ~Allowed(m.uid)
          /\ inbox' = Append(inbox, PutReply("denied", m, {}))
          /\ UNCHANGED <<diary, info>>
    /\ UNCHANGED <<auth, heard>>

\* Some time after the connection's user changed the server ends a listen that
\* the new one may not have.
Revoke(u) ==
    /\ u \in heard
    /\ ~Allowed(u)
    /\ heard' = heard \ {u}
    /\ inbox' = Append(inbox, [kind |-> "revoked", uid |-> u])
    /\ UNCHANGED <<appVars, clientVars, linkVars, outbox, auth, diary, info>>

-----------------------------------------------------------------------------
\* The client receives.

\* The client takes message m, the next one, of one of the given kinds.
Received(m, kinds) ==
    /\ ~crashed
    /\ m.kind \in kinds
    /\ inbox' = Tail(inbox)
    /\ UNCHANGED <<appVars, linkVars, serverVars, outbox>>

\* The diary as the server has it: observers are called if they had none or it
\* is not what they have.
onDataUpdate(m) ==
    /\ Received(m, {"value"})
    /\ LET u == m.uid
           new == [cache EXCEPT ![u] = m.dreams]
       IN  IF u \in listening
           THEN /\ cached' = cached \cup {u}
                /\ cache' = new
                /\ due' = IF Complete(u, cached, puts) /\ View(u, new, puts) = View(u, cache, puts)
                           THEN due ELSE Append(due, View(u, new, puts))
           ELSE UNCHANGED <<cached, cache, due>>
    /\ UNCHANGED <<puts, putCounter, listening>>

\* All observers of a listen that was refused or revoked are removed.
onListenRevoked(m) ==
    /\ Received(m, {"revoked"})
    /\ listening' = listening \ {m.uid}
    /\ cached' = cached \ {m.uid}
    /\ UNCHANGED <<puts, putCounter, cache, due>>

\* A put is done, and the observers' diary is what the server told of it.
onPutDone(m) ==
    /\ Received(m, {"ok"})
    /\ puts' = {p \in puts : p.n # m.n}
    /\ cache' = [cache EXCEPT ![m.uid] = IF m.uid \in cached THEN m.dreams ELSE @]
    /\ UNCHANGED <<putCounter, listening, cached, due>>

\* A put is refused and taken back.
onPutDenied(m) ==
    /\ Received(m, {"denied"})
    /\ puts' = {p \in puts : p.n # m.n}
    /\ due' = due \o Callback(m.uid, cached, cache, puts')
    /\ UNCHANGED <<putCounter, listening, cached, cache>>

-----------------------------------------------------------------------------
UserStep ==
    \/ saveAction
    \/ \E rest \in SUBSET container : removeAction(rest)
    \/ EditTraps
    \/ OpenMenu
    \/ OpenMenuTraps
    \/ OpenStar
    \/ \E kind \in Kinds : Leave(kind)
    \/ logout
    \/ withdrawal
    \/ WithdrawalTraps
    \/ \E u \in Accounts : loginDoneBtn(u)
    \/ joinBtn
    \/ \E u \in Accounts : joinDoneBtn(u)
    \/ WelcomeOK

Answer ==
    \E r \in requests :
        \/ DeleteDone(r)
        \/ Refused(r)
        \/ loginEventDone(r)
        \/ loginEventFailed(r)
        \/ joinEventDone(r)

MainStep == RunFetch \/ RunEvent

Reconnect == tryScheduleReconnect \/ restoreState

Serve ==
    /\ outbox # <<>>
    /\ \/ ServeAuth(Head(outbox))
       \/ ServeListen(Head(outbox))
       \/ ServePut(Head(outbox))

Receive ==
    /\ inbox # <<>>
    /\ \/ onDataUpdate(Head(inbox))
       \/ onListenRevoked(Head(inbox))
       \/ onPutDone(Head(inbox))
       \/ onPutDenied(Head(inbox))

LinkStep ==
    \/ onDisconnect
    \/ Reconnect
    \/ Serve
    \/ \E u \in Accounts : Revoke(u)
    \/ Receive

Next == UserStep \/ Answer \/ AuthStateDidChange \/ MainStep \/ LinkStep

Spec == Init /\ [][Next]_vars

\* Auth answers every request, its listener is called, the queues are served,
\* the retry timer fires, and messages arrive on a connection that lasts.
Fairness ==
    /\ WF_vars(Answer)
    /\ WF_vars(AuthStateDidChange)
    /\ WF_vars(MainStep)
    /\ WF_vars(Reconnect)
    /\ WF_vars(Serve)
    /\ WF_vars(Receive)

FairSpec == Spec /\ Fairness

-----------------------------------------------------------------------------
(* Properties. *)

AppOK ==
    /\ user \in Accounts \cup {Nobody}
    /\ signIns \in Nat
    /\ status \in [Accounts -> {"free", "member", "gone"}]
    /\ stack \in Seq(Screen) /\ stack # <<>>
    /\ made \in Nat
    /\ requests \subseteq Request
    /\ sent \in Nat
    /\ fetches \in Nat
    /\ container \subseteq Accounts
    /\ loaded \in BOOLEAN
    /\ edits \in Nat
    /\ crashed \in BOOLEAN

DataOK ==
    /\ link \in {"down", "token", "up"}
    /\ token \in Accounts \cup {Nobody}
    /\ drops \in Nat
    /\ puts \subseteq Put /\ IsFiniteSet(puts)
    /\ putCounter \in Nat
    /\ listening \subseteq Accounts /\ IsFiniteSet(listening)
    /\ cached \subseteq listening
    /\ cache \in [Accounts -> SUBSET Accounts]
    /\ due \in Seq(SUBSET Accounts)
    /\ outbox \in Seq(Message)
    /\ inbox \in Seq(Reply)
    /\ auth \in Accounts \cup {Nobody}
    /\ heard \subseteq Accounts
    /\ diary \in [Accounts -> SUBSET Accounts]
    /\ info \in [Accounts -> BOOLEAN]

TypeOK == AppOK /\ DataOK

\* The diary stored for an account holds dreams of its own user only: what a
\* predecessor on the device left in the container never reaches it
\* (Model.updateAction stores the container under whoever is signed in).
OwnDreamsOnly == \A u \in Accounts : diary[u] \subseteq {u}

\* `currentUser!` (MenuTVC.swift:20) and `uid!` (MenuTVC.swift:55,
\* Model.swift:45 and :55) never meet nil.
NeverNil == ~crashed

\* Nothing is stored for the account.
Erased(u) == diary[u] = {} /\ ~info[u]

\* Auth deletes the account without regard to the put that removes its data,
\* on its way on another connection: as long as that connection lasts, either
\* the data are gone or that put is still to be answered.
NoOrphanData ==
    \A u \in Accounts :
        status[u] = "gone" /\ drops = 0 =>
            Erased(u) \/ \E p \in puts : p.uid = u /\ p.kind = "remove"

\* And they go in the end.
WithdrawnDataGoes ==
    \A u \in Accounts : status[u] = "gone" ~> Erased(u) \/ drops > 0

\* Whoever is signed in gets to see the diary on the main screen, through all
\* changes of account, as long as the connection lasts.
DiaryShown ==
    \A u \in Accounts :
        user = u /\ Top.kind = "Main" ~> loaded \/ user # u \/ Top.kind # "Main" \/ drops > 0

\* Who may present whom.
Presenters(kind) ==
    CASE kind = "Main" -> {"Login", "Join"}
      [] kind = "Login" -> {"Main", "Menu"}
      [] kind = "Menu" -> {"Main"}
      [] kind = "Star" -> {"Menu"}
      [] kind \in {"Join", "Failed"} -> {"Login"}
      [] kind = "Welcome" -> {"Join"}

\* However late Auth answers, and whatever the user opened or left meanwhile,
\* a callback never puts its screen on top of one that has no business with
\* it: every screen lies on one whose code presents it.
WellStacked ==
    \A i \in 2 .. Len(stack) : stack[i - 1].kind \in Presenters(stack[i].kind)

\* Once nobody is signed in the app comes to a screen that offers to sign in.
SignedOutSeesLogin ==
    user = Nobody ~> user # Nobody \/ Top.kind \in {"Login", "Join", "Failed"}

\* Who asked to join hears of the outcome, or left the screen.
JoinAnswered ==
    \A i \in 0 .. MaxScreens :
        (\E r \in requests : r.kind = "create" /\ r.by = i)
            ~> (Top.kind = "Welcome" \/ Top.id # i)
=============================================================================
