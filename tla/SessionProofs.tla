--------------------------- MODULE SessionProofs ----------------------------
(* Screens stay well stacked whatever the user does; a user who waits for  *)
(* answers never meets a missing user, and the data of an account that is  *)
(* deleted go with it.                                                     *)
EXTENDS Session, FiniteSetTheorems, SequenceTheorems, TLAPS

\* The kind of screen that makes a request.
Asker(kind) ==
    CASE kind = "signIn" -> "Login" [] kind = "create" -> "Join" [] OTHER -> "Menu"

\* A stack that starts with MainVC and on which every screen lies on one that
\* may present it.
Stacked(s) ==
    /\ s \in Seq(Screen) /\ Len(s) > 0
    /\ s[1].kind = "Main"
    /\ \A i \in 2 .. Len(s) : s[i - 1].kind \in Presenters(s[i].kind)

\* Identities are below made and never used again, so a late answer that finds
\* the screen that asked in front finds a screen of the right kind.
AskersKnown(s, asked, n) ==
    /\ \A i \in 1 .. Len(s) : s[i].id < n
    /\ \A i, j \in 1 .. Len(s) : s[i].id = s[j].id => i = j
    /\ \A r \in asked :
          /\ r.by < n
          /\ \A i \in 1 .. Len(s) : s[i].id = r.by => s[i].kind = Asker(r.kind)

StackInv == AppOK /\ Stacked(stack) /\ AskersKnown(stack, requests, made)

\* When the user waits for Auth: one request at a time, made by the screen in
\* front, and a deletion only of the session that is still the current one.
OneRequest ==
    /\ \A r, q \in requests : r = q
    /\ \A r \in requests : r.by = Top.id
    /\ \A r \in requests : r.kind = "delete" => r.uid = user /\ r.signIn = signIns

\* Whoever is signed in has an account, the menu is up only with a user, and the
\* screens that ask to sign in only without.
UserIsMember ==
    /\ user # Nobody => status[user] = "member"
    /\ Top.kind \in {"Menu", "Star"} => user # Nobody
    /\ Top.kind \in {"Login", "Join", "Failed"} => user = Nobody

PatientInv == StackInv /\ DataOK /\ OneRequest /\ UserIsMember

-----------------------------------------------------------------------------
\* Presenting a screen from one that may present it.
LEMMA PushStacked ==
    ASSUME NEW s, Stacked(s), NEW kind \in Kinds, NEW id \in Nat,
           s[Len(s)].kind \in Presenters(kind)
    PROVE  Stacked(Append(s, [kind |-> kind, id |-> id]))
<1> DEFINE x == [kind |-> kind, id |-> id]
<1> DEFINE t == Append(s, x)
<1>1. s \in Seq(Screen) /\ Len(s) > 0 /\ Len(s) \in Nat /\ x \in Screen
  BY DEF Stacked, Screen
<1>2. t \in Seq(Screen) /\ Len(t) = Len(s) + 1 /\ t[Len(s) + 1] = x
      /\ \A i \in 1 .. Len(s) : t[i] = s[i]
  BY <1>1
<1>3. t[1].kind = "Main"
  BY <1>1, <1>2 DEF Stacked
<1>4. ASSUME NEW i \in 2 .. Len(t) PROVE t[i - 1].kind \in Presenters(t[i].kind)
  <2>1. CASE i = Len(s) + 1
    BY <2>1, <1>1, <1>2
  <2>2. CASE i \in 2 .. Len(s)
    <3>1. i \in 1 .. Len(s) /\ i - 1 \in 1 .. Len(s)
      BY <2>2, <1>1
    <3> QED
      BY <3>1, <2>2, <1>2 DEF Stacked
  <2> QED
    BY <2>1, <2>2, <1>1, <1>2
<1> QED
  BY <1>1, <1>2, <1>3, <1>4 DEF Stacked

\* Leaving a screen other than MainVC shows one that may present it.
LEMMA PopStacked ==
    ASSUME NEW s, Stacked(s), s[Len(s)].kind # "Main"
    PROVE  LET t == SubSeq(s, 1, Len(s) - 1)
           IN  /\ Stacked(t) /\ Len(t) = Len(s) - 1
               /\ t[Len(t)] = s[Len(s) - 1]
               /\ t[Len(t)].kind \in Presenters(s[Len(s)].kind)
               /\ \A i \in 1 .. Len(t) : i \in 1 .. Len(s) /\ t[i] = s[i]
<1> DEFINE t == SubSeq(s, 1, Len(s) - 1)
<1>1. s \in Seq(Screen) /\ Len(s) \in Nat /\ Len(s) > 1
  BY DEF Stacked
<1>2. t \in Seq(Screen) /\ Len(t) = Len(s) - 1 /\ \A i \in 1 .. Len(t) : t[i] = s[i]
  BY <1>1
<1>3. \A i \in 1 .. Len(t) : i \in 1 .. Len(s)
  BY <1>1, <1>2
<1>4. Stacked(t)
  <2>1. t[1].kind = "Main"
    BY <1>1, <1>2 DEF Stacked
  <2>2. ASSUME NEW i \in 2 .. Len(t) PROVE t[i - 1].kind \in Presenters(t[i].kind)
    <3>1. i \in 1 .. Len(t) /\ i - 1 \in 1 .. Len(t) /\ i \in 2 .. Len(s)
      BY <1>1, <1>2
    <3> QED
      BY <3>1, <1>2 DEF Stacked
  <2> QED
    BY <1>1, <1>2, <2>1, <2>2 DEF Stacked
<1>5. t[Len(t)] = s[Len(s) - 1]
  BY <1>1, <1>2
<1>6. s[Len(s) - 1].kind \in Presenters(s[Len(s)].kind)
  BY <1>1 DEF Stacked
<1> QED
  BY <1>2, <1>3, <1>4, <1>5, <1>6

\* present(_:) keeps the stack in order when the presenter, if it is in front,
\* may present the kind.
LEMMA PresentedStacked ==
    ASSUME NEW s, Stacked(s), NEW asked, asked \subseteq Request, AskersKnown(s, asked, made),
           NEW by, NEW kind \in Kinds, made \in Nat, fetches \in Nat, loaded \in BOOLEAN,
           s[Len(s)].id = by => s[Len(s)].kind \in Presenters(kind),
           Presented(s, by, kind)
    PROVE  /\ Stacked(stack')
           /\ AskersKnown(stack', asked, made')
           /\ made' \in Nat /\ fetches' \in Nat /\ loaded' \in BOOLEAN
<1>1. CASE s[Len(s)].id # by
  BY <1>1 DEF Presented
<1>2. CASE s[Len(s)].id = by
  <2> DEFINE x == [kind |-> kind, id |-> made]
  <2>1. stack' = Append(s, x) /\ made' = made + 1 /\ x.id = made
        /\ fetches' \in Nat /\ loaded' \in BOOLEAN
    BY <1>2 DEF Presented
  <2>2. Stacked(stack')
    BY <1>2, <2>1, PushStacked
  <2>3. s \in Seq(Screen) /\ Len(s) \in Nat /\ x \in Screen
    BY DEF Stacked, Screen
  <2>4. Len(stack') = Len(s) + 1 /\ stack'[Len(s) + 1] = x
        /\ \A i \in 1 .. Len(s) : stack'[i] = s[i]
    BY <2>1, <2>3
  <2>5. ASSUME NEW i \in 1 .. Len(s) PROVE s[i].id \in Nat
    <3>1. s[i] \in Screen
      BY <2>3
    <3> QED
      BY <3>1 DEF Screen
  <2>6. \A i \in 1 .. Len(stack') : stack'[i].id < made'
    BY <2>1, <2>3, <2>4, <2>5 DEF AskersKnown
  <2>7. \A i, j \in 1 .. Len(stack') : stack'[i].id = stack'[j].id => i = j
    BY <2>1, <2>3, <2>4, <2>5 DEF AskersKnown
  <2>8. ASSUME NEW r \in asked
        PROVE  /\ r.by < made'
               /\ \A i \in 1 .. Len(stack') : stack'[i].id = r.by => stack'[i].kind = Asker(r.kind)
    <3>1. r.by \in Nat /\ r.by < made
      BY DEF Request, AskersKnown
    <3> QED
      BY <2>1, <2>3, <2>4, <3>1 DEF AskersKnown
  <2> QED
    BY <2>1, <2>2, <2>6, <2>7, <2>8 DEF AskersKnown
<1> QED
  BY <1>1, <1>2

\* What is known of the screen in front.
LEMMA FrontScreen ==
    ASSUME StackInv
    PROVE  /\ Len(stack) \in Nat /\ Len(stack) \in 1 .. Len(stack)
           /\ Top = stack[Len(stack)] /\ Top \in Screen
           /\ Top.id \in Nat /\ Top.kind \in Kinds
           /\ \A r \in requests : Top.id = r.by => Top.kind = Asker(r.kind)
<1>1. stack \in Seq(Screen) /\ Len(stack) \in Nat /\ Len(stack) > 0
  BY DEF StackInv, Stacked
<1>2. Len(stack) \in 1 .. Len(stack) /\ stack[Len(stack)] \in Screen
  BY <1>1
<1> QED
  BY <1>1, <1>2 DEF Top, Screen, StackInv, AskersKnown

\* An answer leaves fewer requests, of the same screens.
LEMMA AnsweredKnown ==
    ASSUME StackInv, NEW r \in requests, NEW kinds, Answered(r, kinds)
    PROVE  /\ requests' \subseteq Request /\ sent' \in Nat
           /\ AskersKnown(stack, requests', made)
           /\ r.kind \in kinds /\ r.by \in Nat /\ r.uid \in Accounts
           /\ Top.id = r.by => Top.kind = Asker(r.kind)
BY FrontScreen DEF StackInv, AppOK, Answered, AskersKnown, Request

\* A request of the screen in front, when its kind is the one that asks.
LEMMA SendKnown ==
    ASSUME StackInv, NEW kind \in {"signIn", "create", "delete"}, NEW u \in Accounts,
           Top.kind = Asker(kind), Send(kind, u)
    PROVE  /\ requests' \subseteq Request /\ sent' \in Nat
           /\ AskersKnown(stack, requests', made)
<1> DEFINE q == [kind |-> kind, uid |-> u, by |-> Top.id, n |-> sent, signIn |-> signIns]
<1>1. requests' = requests \cup {q} /\ sent' = sent + 1
  BY DEF Send
<1>2. requests' \subseteq Request /\ sent' \in Nat
  <2>1. q \in Request
    BY FrontScreen DEF Request, StackInv, AppOK
  <2> QED
    BY <1>1, <2>1 DEF StackInv, AppOK
<1>3. q.by < made /\ \A i \in 1 .. Len(stack) : stack[i].id = q.by => stack[i].kind = Asker(kind)
  BY FrontScreen DEF StackInv, AskersKnown
<1>4. AskersKnown(stack, requests', made)
  BY <1>1, <1>3 DEF StackInv, AskersKnown
<1> QED
  BY <1>2, <1>4

\* Leaving a screen, too, keeps what is known of those that asked.
LEMMA PopKnown ==
    ASSUME StackInv, Top.kind # "Main"
    PROVE  LET t == SubSeq(stack, 1, Len(stack) - 1)
           IN  /\ Stacked(t)
               /\ t[Len(t)].kind \in Presenters(Top.kind)
               /\ AskersKnown(t, requests, made)
<1> DEFINE t == SubSeq(stack, 1, Len(stack) - 1)
<1>1. Stacked(stack) /\ stack[Len(stack)].kind # "Main" /\ AskersKnown(stack, requests, made)
  BY DEF StackInv, Top
<1>2. /\ Stacked(t) /\ t[Len(t)].kind \in Presenters(Top.kind)
      /\ \A i \in 1 .. Len(t) : i \in 1 .. Len(stack) /\ t[i] = stack[i]
  BY <1>1, PopStacked DEF Top
<1>3. AskersKnown(t, requests, made)
  BY <1>1, <1>2 DEF AskersKnown
<1> QED
  BY <1>2, <1>3

\* present(_:) from the screen in front or, late, from the one that asked.
LEMMA PresentKnown ==
    ASSUME StackInv, NEW asked, asked \subseteq Request, AskersKnown(stack, asked, made),
           NEW by, NEW kind \in Kinds,
           Top.id = by => Top.kind \in Presenters(kind),
           present(by, kind)
    PROVE  /\ Stacked(stack')
           /\ AskersKnown(stack', asked, made')
           /\ made' \in Nat /\ fetches' \in Nat /\ loaded' \in BOOLEAN
BY PresentedStacked DEF StackInv, AppOK, Top, present

\* A stack in order is a sequence of screens that is not empty.
LEMMA StackedTyped == ASSUME NEW s, Stacked(s) PROVE s \in Seq(Screen) /\ s # <<>>
BY DEF Stacked

-----------------------------------------------------------------------------
\* The device starts with MainVC alone.
LEMMA StackInit == ASSUME Init PROVE StackInv
<1>1. stack \in Seq(Screen) /\ Len(stack) = 1 /\ stack[1] = [kind |-> "Main", id |-> 0]
  BY DEF Init, Screen, Kinds
<1>2. Stacked(stack) /\ stack # <<>>
  <2>1. 2 .. Len(stack) = {} /\ stack[1].kind = "Main"
    BY <1>1
  <2>2. \A i \in 2 .. Len(stack) : stack[i - 1].kind \in Presenters(stack[i].kind)
    BY <2>1
  <2>3. Stacked(stack)
    BY <1>1, <2>1, <2>2 DEF Stacked
  <2> QED
    BY <2>3, StackedTyped
<1>3. AskersKnown(stack, requests, made)
  BY <1>1 DEF Init, AskersKnown
<1>4. AppOK
  BY <1>1, <1>2 DEF Init, AppOK
<1> QED
  BY <1>2, <1>3, <1>4 DEF StackInv

\* A step of the user.
LEMMA StackUser == ASSUME StackInv, UserStep PROVE StackInv'
<1> USE DEF StackInv
<1>1. AppOK /\ Stacked(stack) /\ AskersKnown(stack, requests, made)
  OBVIOUS
<1>2. CASE saveAction
  BY <1>1, <1>2 DEF saveAction, AppOK, authVars, screenVars, askVars
<1>3. ASSUME NEW rest \in SUBSET container, removeAction(rest) PROVE StackInv'
  BY <1>1, <1>3 DEF removeAction, AppOK, authVars, screenVars, askVars
<1>4. ASSUME Trap PROVE StackInv'
  BY <1>1, <1>4 DEF Trap, AppOK, authVars, screenVars, askVars
<1>5. CASE EditTraps \/ OpenMenuTraps \/ WithdrawalTraps
  BY <1>4, <1>5 DEF EditTraps, OpenMenuTraps, WithdrawalTraps
<1>6. CASE OpenMenu
  <2>1. present(Top.id, "Menu") /\ Top.kind \in Presenters("Menu") /\ "Menu" \in Kinds
    BY <1>6 DEF OpenMenu, Tap, Presenters, Kinds
  <2> QED
    BY <1>1, <1>6, <2>1, PresentKnown, StackedTyped
    DEF OpenMenu, AppOK, authVars, askVars
<1>7. CASE OpenStar
  <2>1. present(Top.id, "Star") /\ Top.kind \in Presenters("Star") /\ "Star" \in Kinds
    BY <1>7 DEF OpenStar, Tap, Presenters, Kinds
  <2> QED
    BY <1>1, <1>7, <2>1, PresentKnown, StackedTyped
    DEF OpenStar, AppOK, authVars, askVars
<1>8. ASSUME NEW kind \in Kinds, Leave(kind) PROVE StackInv'
  <2>1. Top.kind # "Main" /\ dismiss
    BY <1>8 DEF Leave, Tap
  <2> QED
    BY <1>1, <1>8, <2>1, PopKnown, StackedTyped
    DEF Leave, dismiss, AppOK, authVars, askVars
<1>9. CASE logout
  <2>1. present(Top.id, "Login") /\ Top.kind \in Presenters("Login") /\ "Login" \in Kinds
    BY <1>9 DEF logout, LeaveAccount, Tap, Presenters, Kinds
  <2>2. user' = Nobody
    BY <1>9 DEF logout, BecomeUser
  <2> QED
    BY <1>1, <1>9, <2>1, <2>2, PresentKnown, StackedTyped
    DEF logout, AppOK, askVars
<1>10. CASE withdrawal
  <2>1. user \in Accounts /\ Send("delete", user) /\ Top.kind = Asker("delete")
    BY <1>1, <1>10 DEF withdrawal, LeaveAccount, Tap, Asker, AppOK
  <2>3. AskersKnown(stack, requests', made) /\ requests' \subseteq Request /\ sent' \in Nat
    BY <2>1, SendKnown
  <2> QED
    BY <1>1, <1>10, <2>3 DEF withdrawal, AppOK, authVars, screenVars
<1>11. ASSUME NEW u \in Accounts, loginDoneBtn(u) PROVE StackInv'
  <2>1. Send("signIn", u) /\ Top.kind = Asker("signIn")
    BY <1>11 DEF loginDoneBtn, Tap, Asker
  <2>2. AskersKnown(stack, requests', made) /\ requests' \subseteq Request /\ sent' \in Nat
    BY <2>1, SendKnown
  <2> QED
    BY <1>1, <1>11, <2>2 DEF loginDoneBtn, AppOK, authVars, screenVars
<1>12. CASE joinBtn
  <2>1. present(Top.id, "Join") /\ Top.kind \in Presenters("Join") /\ "Join" \in Kinds
    BY <1>12 DEF joinBtn, Tap, Presenters, Kinds
  <2> QED
    BY <1>1, <1>12, <2>1, PresentKnown, StackedTyped
    DEF joinBtn, AppOK, authVars, askVars
<1>13. ASSUME NEW u \in Accounts, joinDoneBtn(u) PROVE StackInv'
  <2>1. Send("create", u) /\ Top.kind = Asker("create")
    BY <1>13 DEF joinDoneBtn, Tap, Asker
  <2>2. AskersKnown(stack, requests', made) /\ requests' \subseteq Request /\ sent' \in Nat
    BY <2>1, SendKnown
  <2> QED
    BY <1>1, <1>13, <2>2 DEF joinDoneBtn, AppOK, authVars, screenVars
<1>14. CASE WelcomeOK
  <2> DEFINE t == SubSeq(stack, 1, Len(stack) - 1)
  <2>1. Top.kind = "Welcome" /\ Presented(t, t[Len(t)].id, "Main") /\ "Main" \in Kinds
    BY <1>14 DEF WelcomeOK, Tap, Kinds
  <2>2. Stacked(t) /\ AskersKnown(t, requests, made) /\ t[Len(t)].kind \in Presenters("Welcome")
    BY <2>1, PopKnown
  <2>3. t[Len(t)].kind \in Presenters("Main")
    BY <2>2 DEF Presenters
  <2>4. Stacked(stack') /\ AskersKnown(stack', requests, made')
        /\ made' \in Nat /\ fetches' \in Nat /\ loaded' \in BOOLEAN
    <3> HIDE DEF t
    <3> QED
      BY <1>1, <2>1, <2>2, <2>3, PresentedStacked DEF AppOK
  <2> QED
    BY <1>1, <1>14, <2>4, StackedTyped
    DEF WelcomeOK, AppOK, authVars, askVars
<1> QED
  BY <1>2, <1>3, <1>5, <1>6, <1>7, <1>8, <1>9, <1>10, <1>11, <1>12, <1>13, <1>14 DEF UserStep

\* An answer of Auth, however late.
LEMMA StackAnswer == ASSUME StackInv, Answer PROVE StackInv'
<1> USE DEF StackInv
<1>1. AppOK /\ Stacked(stack) /\ AskersKnown(stack, requests, made)
  OBVIOUS
<1>2. PICK r \in requests : \/ DeleteDone(r) \/ Refused(r) \/ loginEventDone(r)
                            \/ loginEventFailed(r) \/ joinEventDone(r)
  BY DEF Answer
<1>3. ASSUME NEW u, NEW ps, BecomeUser(u, ps) PROVE user' = u
  BY <1>3 DEF BecomeUser
<1>4. CASE DeleteDone(r)
  <2>1. Answered(r, {"delete"}) /\ present(r.by, "Login")
    BY <1>4 DEF DeleteDone
  <2>2. /\ requests' \subseteq Request /\ sent' \in Nat /\ AskersKnown(stack, requests', made)
        /\ Top.id = r.by => Top.kind \in Presenters("Login")
    BY <2>1, AnsweredKnown DEF Asker, Presenters
  <2>3. user' \in Accounts \cup {Nobody}
    BY <1>1, <1>3, <1>4 DEF DeleteDone, AppOK
  <2>4. status' \in [Accounts -> {"free", "member", "gone"}]
    BY <1>1, <1>4 DEF DeleteDone, AppOK
  <2>5. Stacked(stack') /\ AskersKnown(stack', requests', made')
        /\ made' \in Nat /\ fetches' \in Nat /\ loaded' \in BOOLEAN
    BY <2>1, <2>2, PresentKnown DEF Kinds
  <2> QED
    BY <1>1, <1>4, <2>2, <2>3, <2>4, <2>5, StackedTyped DEF DeleteDone, AppOK
<1>5. CASE Refused(r)
  <2>1. requests' \subseteq Request /\ sent' \in Nat /\ AskersKnown(stack, requests', made)
    BY <1>5, AnsweredKnown DEF Refused
  <2> QED
    BY <1>1, <1>5, <2>1 DEF Refused, AppOK, authVars, screenVars
<1>6. CASE loginEventDone(r)
  <2>1. Answered(r, {"signIn"}) /\ present(r.by, "Main") /\ BecomeUser(r.uid, <<>>)
    BY <1>6 DEF loginEventDone
  <2>2. /\ requests' \subseteq Request /\ sent' \in Nat /\ AskersKnown(stack, requests', made)
        /\ Top.id = r.by => Top.kind \in Presenters("Main")
        /\ r.uid \in Accounts
    BY <2>1, AnsweredKnown DEF Asker, Presenters
  <2>3. Stacked(stack') /\ AskersKnown(stack', requests', made')
        /\ made' \in Nat /\ fetches' \in Nat /\ loaded' \in BOOLEAN
    BY <2>1, <2>2, PresentKnown DEF Kinds
  <2> QED
    BY <1>1, <1>3, <1>6, <2>1, <2>2, <2>3, StackedTyped DEF loginEventDone, AppOK
<1>7. CASE loginEventFailed(r)
  <2>1. Answered(r, {"signIn"}) /\ present(r.by, "Failed")
    BY <1>7 DEF loginEventFailed
  <2>2. /\ requests' \subseteq Request /\ sent' \in Nat /\ AskersKnown(stack, requests', made)
        /\ Top.id = r.by => Top.kind \in Presenters("Failed")
    BY <2>1, AnsweredKnown DEF Asker, Presenters
  <2>3. Stacked(stack') /\ AskersKnown(stack', requests', made')
        /\ made' \in Nat /\ fetches' \in Nat /\ loaded' \in BOOLEAN
    BY <2>1, <2>2, PresentKnown DEF Kinds
  <2> QED
    BY <1>1, <1>7, <2>2, <2>3, StackedTyped DEF loginEventFailed, AppOK, authVars
<1>8. CASE joinEventDone(r)
  <2>1. Answered(r, {"create"}) /\ present(r.by, "Welcome")
        /\ user' = r.uid
    BY <1>3, <1>8 DEF joinEventDone
  <2>2. /\ requests' \subseteq Request /\ sent' \in Nat /\ AskersKnown(stack, requests', made)
        /\ Top.id = r.by => Top.kind \in Presenters("Welcome")
        /\ r.uid \in Accounts
    BY <2>1, AnsweredKnown DEF Asker, Presenters
  <2>3. Stacked(stack') /\ AskersKnown(stack', requests', made')
        /\ made' \in Nat /\ fetches' \in Nat /\ loaded' \in BOOLEAN
    BY <2>1, <2>2, PresentKnown DEF Kinds
  <2>4. status' \in [Accounts -> {"free", "member", "gone"}]
    BY <1>1, <1>8, <2>2 DEF joinEventDone, AppOK
  <2> QED
    BY <1>1, <1>3, <1>8, <2>1, <2>2, <2>3, <2>4, StackedTyped DEF joinEventDone, AppOK
<1> QED
  BY <1>2, <1>4, <1>5, <1>6, <1>7, <1>8

\* The connection, the server and what the client receives leave the app alone.
LEMMA LinkKeepsApp == ASSUME LinkStep PROVE UNCHANGED appVars
BY DEF LinkStep, onDisconnect, Reconnect, tryScheduleReconnect, restoreState, Serve, ServeAuth,
       ServeListen, ServePut, Served, Revoke, Receive, onDataUpdate, onListenRevoked, onPutDone,
       onPutDenied, Received

\* Every step keeps the stack in order.
LEMMA StackNext == ASSUME StackInv, DataOK, [Next]_vars PROVE StackInv'
<1>1. AppOK /\ Stacked(stack) /\ AskersKnown(stack, requests, made)
  BY DEF StackInv
<1>2. CASE AuthStateDidChange
  <2>1. present(Top.id, "Login") /\ Top.kind \in Presenters("Login") /\ "Login" \in Kinds
    BY <1>2 DEF AuthStateDidChange, Presenters, Kinds
  <2> QED
    BY <1>1, <1>2, <2>1, PresentKnown, StackedTyped
    DEF AuthStateDidChange, StackInv, AppOK, authVars, askVars
<1>3. CASE RunFetch
  BY <1>1, <1>3 DEF RunFetch, StackInv, AppOK, authVars, askVars
<1>4. CASE RunEvent
  <2>1. container' \subseteq Accounts
    BY <1>1, <1>4 DEF RunEvent, DataOK
  <2> QED
    BY <1>1, <1>4, <2>1 DEF RunEvent, StackInv, AppOK, authVars, askVars
<1>5. CASE UNCHANGED appVars
  BY <1>1, <1>5 DEF appVars, StackInv, AppOK, authVars, screenVars, askVars
<1> QED
  BY <1>2, <1>3, <1>4, <1>5, StackUser, StackAnswer, LinkKeepsApp DEF Next, MainStep, vars

-----------------------------------------------------------------------------
\* What the device takes for a diary is a set of authors.
LEMMA ViewTyped ==
    ASSUME NEW u \in Accounts, NEW ps, ps \subseteq Put, NEW c \in [Accounts -> SUBSET Accounts]
    PROVE  View(u, c, ps) \in SUBSET Accounts
BY DEF View, Lasting, Put

\* So are the callbacks of observers.
LEMMA CallbackTyped ==
    ASSUME NEW u \in Accounts, NEW ps, ps \subseteq Put, NEW c \in [Accounts -> SUBSET Accounts],
           NEW known, due \in Seq(SUBSET Accounts)
    PROVE  due \o Callback(u, known, c, ps) \in Seq(SUBSET Accounts)
<1>1. View(u, c, ps) \in SUBSET Accounts
  BY ViewTyped
<1> DEFINE v == View(u, c, ps)
<1>2. <<v>> \in Seq(SUBSET Accounts)
  <2> HIDE DEF v
  <2> QED
    BY <1>1 DEF v
<1>3. Callback(u, known, c, ps) = <<v>> \/ Callback(u, known, c, ps) = <<>>
  BY DEF Callback
<1> HIDE DEF v
<1>4. Callback(u, known, c, ps) \in Seq(SUBSET Accounts)
  <2>1. <<>> \in Seq(SUBSET Accounts)
    OBVIOUS
  <2> QED
    BY <1>2, <1>3, <2>1, Zenon
<1> QED
  BY <1>4

\* Messages that leave, or do not.
LEMMA SendingTyped ==
    ASSUME DataOK, NEW ms \in Seq(Message)
    PROVE  Sending(ms) \in Seq(Message)
BY DEF DataOK, Sending

\* A put is remembered and shown.
LEMMA PutTyped ==
    ASSUME DataOK, NEW p \in Put, putInternal(p)
    PROVE  /\ puts' \subseteq Put /\ IsFiniteSet(puts') /\ putCounter' \in Nat
           /\ due' \in Seq(SUBSET Accounts)
           /\ UNCHANGED <<listening, cached, cache>>
<1>1. puts' = puts \cup {p} /\ putCounter' = putCounter + 1 /\ UNCHANGED <<listening, cached, cache>>
  BY DEF putInternal
<1>2. IsFiniteSet(puts')
  BY <1>1, FS_AddElement DEF DataOK
<1>3. due' \in Seq(SUBSET Accounts)
  <2>1. p.uid \in Accounts /\ puts \cup {p} \subseteq Put
    BY DEF DataOK, Put
  <2>2. due \o Callback(p.uid, cached, cache, puts \cup {p}) \in Seq(SUBSET Accounts)
    BY <2>1, CallbackTyped DEF DataOK
  <2> QED
    BY <2>2 DEF putInternal, DataOK
<1> QED
  BY <1>1, <1>2, <1>3 DEF DataOK

\* The puts of the app, and the messages that tell of a user.
LEMMA NewPutTyped ==
    ASSUME DataOK, NEW kind \in PutKinds, NEW u \in Accounts, NEW a \in SUBSET Accounts
    PROVE  NewPut(kind, u, a) \in Put /\ <<NewPut(kind, u, a)>> \in Seq(Message)
BY DEF DataOK, NewPut, Put, Message

LEMMA BecomeTyped ==
    ASSUME DataOK, NEW u \in Accounts \cup {Nobody}, NEW ps \in Seq(Message), BecomeUser(u, ps)
    PROVE  /\ link' \in {"down", "token", "up"} /\ token' \in Accounts \cup {Nobody} /\ drops' \in Nat
           /\ outbox' \in Seq(Message)
<1>1. <<[kind |-> "auth", uid |-> u]>> \o ps \in Seq(Message)
  BY DEF Message
<1>2. outbox' \in Seq(Message)
  BY <1>1, SendingTyped DEF BecomeUser
<1> QED
  BY <1>2 DEF BecomeUser, DataOK

\* A step of the user keeps the types of the database client.
LEMMA DataUser == ASSUME AppOK, DataOK, UserStep PROVE DataOK'
<1>1. ASSUME UNCHANGED dataVars PROVE DataOK'
  BY <1>1 DEF DataOK, dataVars, clientVars, linkVars, serverVars
<1>2. ASSUME NEW kind \in PutKinds, NEW a \in SUBSET Accounts, user # Nobody, PutOwn(kind, a)
      PROVE  DataOK'
  <2>1. user \in Accounts
    BY <1>2 DEF AppOK
  <2>2. NewPut(kind, user, a) \in Put /\ <<NewPut(kind, user, a)>> \in Seq(Message)
    BY <2>1, NewPutTyped
  <2>3. /\ puts' \subseteq Put /\ IsFiniteSet(puts') /\ putCounter' \in Nat
        /\ due' \in Seq(SUBSET Accounts) /\ UNCHANGED <<listening, cached, cache>>
    BY <1>2, <2>2, PutTyped DEF PutOwn
  <2>4. outbox' \in Seq(Message)
    BY <1>2, <2>2, SendingTyped DEF PutOwn
  <2> QED
    BY <1>2, <2>3, <2>4 DEF PutOwn, DataOK, linkVars, serverVars
<1>3. CASE saveAction
  <2>1. PutOwn("save", {user}) /\ user # Nobody /\ {user} \in SUBSET Accounts
    BY <1>3 DEF saveAction, AppOK
  <2> QED
    BY <1>2, <2>1 DEF PutKinds
<1>4. ASSUME NEW rest \in SUBSET container, removeAction(rest) PROVE DataOK'
  <2>1. PutOwn("update", rest) /\ user # Nobody /\ rest \in SUBSET Accounts
    BY <1>4 DEF removeAction, AppOK
  <2> QED
    BY <1>2, <2>1 DEF PutKinds
<1>5. CASE withdrawal
  <2>1. PutOwn("remove", {}) /\ user # Nobody
    BY <1>5 DEF withdrawal
  <2> QED
    BY <1>2, <2>1 DEF PutKinds
<1>6. CASE logout
  <2>1. BecomeUser(Nobody, <<>>) /\ <<>> \in Seq(Message)
    BY <1>6 DEF logout
  <2>2. /\ link' \in {"down", "token", "up"} /\ token' \in Accounts \cup {Nobody} /\ drops' \in Nat
        /\ outbox' \in Seq(Message)
    BY <2>1, BecomeTyped
  <2> QED
    BY <1>6, <2>2 DEF logout, DataOK, clientVars, serverVars
<1>7. CASE \/ EditTraps \/ OpenMenu \/ OpenMenuTraps \/ OpenStar \/ WithdrawalTraps \/ joinBtn \/ WelcomeOK
           \/ (\E kind \in Kinds : Leave(kind)) \/ (\E u \in Accounts : loginDoneBtn(u))
           \/ (\E u \in Accounts : joinDoneBtn(u))
  <2>1. UNCHANGED dataVars
    BY <1>7 DEF EditTraps, Trap, OpenMenu, OpenMenuTraps, OpenStar, WithdrawalTraps, joinBtn,
                WelcomeOK, Leave, loginDoneBtn, joinDoneBtn
  <2> QED
    BY <1>1, <2>1
<1> QED
  BY <1>3, <1>4, <1>5, <1>6, <1>7 DEF UserStep

\* So does an answer of Auth.
LEMMA DataAnswer == ASSUME AppOK, DataOK, Answer PROVE DataOK'
<1>1. PICK r \in requests : \/ DeleteDone(r) \/ Refused(r) \/ loginEventDone(r)
                            \/ loginEventFailed(r) \/ joinEventDone(r)
  BY DEF Answer
<1>2. r.uid \in Accounts
  BY DEF AppOK, Request
<1>3. <<>> \in Seq(Message)
  OBVIOUS
<1>4. ASSUME NEW u \in Accounts \cup {Nobody}, NEW ps \in Seq(Message), BecomeUser(u, ps),
             UNCHANGED <<clientVars, serverVars, inbox>>
      PROVE  DataOK'
  <2>1. /\ link' \in {"down", "token", "up"} /\ token' \in Accounts \cup {Nobody} /\ drops' \in Nat
        /\ outbox' \in Seq(Message)
    BY <1>4, BecomeTyped
  <2> QED
    BY <1>4, <2>1 DEF DataOK, clientVars, serverVars
<1>5. CASE DeleteDone(r)
  <2>1. CASE BecomeUser(Nobody, <<>>)
    BY <1>3, <1>4, <1>5, <2>1 DEF DeleteDone
  <2>2. CASE UNCHANGED <<user, linkVars, outbox>>
    BY <1>5, <2>2 DEF DeleteDone, DataOK, clientVars, linkVars, serverVars
  <2> QED
    BY <1>5, <2>1, <2>2 DEF DeleteDone
<1>6. CASE loginEventDone(r)
  BY <1>2, <1>3, <1>4, <1>6 DEF loginEventDone
<1>7. CASE joinEventDone(r)
  <2> DEFINE p == NewPut("userInfo", r.uid, {})
  <2>1. p \in Put /\ <<p>> \in Seq(Message)
    BY <1>2, NewPutTyped DEF PutKinds
  <2>2. putInternal(p) /\ BecomeUser(r.uid, <<p>>) /\ UNCHANGED <<serverVars, inbox>>
    BY <1>7 DEF joinEventDone
  <2>3. /\ link' \in {"down", "token", "up"} /\ token' \in Accounts \cup {Nobody} /\ drops' \in Nat
        /\ outbox' \in Seq(Message)
    BY <1>2, <2>1, <2>2, BecomeTyped
  <2>4. /\ puts' \subseteq Put /\ IsFiniteSet(puts') /\ putCounter' \in Nat
        /\ due' \in Seq(SUBSET Accounts) /\ UNCHANGED <<listening, cached, cache>>
    BY <2>1, <2>2, PutTyped
  <2> QED
    BY <2>2, <2>3, <2>4 DEF DataOK, serverVars
<1>8. CASE Refused(r) \/ loginEventFailed(r)
  BY <1>8 DEF Refused, loginEventFailed, DataOK, dataVars, clientVars, linkVars, serverVars
<1> QED
  BY <1>1, <1>5, <1>6, <1>7, <1>8

\* The orders of a finite set are sequences.
LEMMA OrdersTyped == ASSUME NEW S, IsFiniteSet(S), NEW s \in Orders(S) PROVE s \in Seq(S)
<1>1. Cardinality(S) \in Nat
  BY FS_CardinalityType
<1> QED
  BY <1>1 DEF Orders

\* What a new connection sends first.
LEMMA RestoreTyped ==
    ASSUME DataOK, NEW ls \in Seq(listening), NEW ps \in Seq(puts)
    PROVE  /\ [i \in DOMAIN ls |-> [kind |-> "listen", uid |-> ls[i]]] \in Seq(Message)
           /\ (IF token = Nobody THEN <<>> ELSE <<[kind |-> "auth", uid |-> token]>>) \in Seq(Message)
           /\ ps \in Seq(Message)
<1>1. \A u \in listening : [kind |-> "listen", uid |-> u] \in Message
  BY DEF DataOK, Message
<1>2. [i \in DOMAIN ls |-> [kind |-> "listen", uid |-> ls[i]]] \in Seq(Message)
  BY <1>1
<1>3. [kind |-> "auth", uid |-> token] \in Message
  BY DEF DataOK, Message
<1>4. ps \in Seq(Message)
  BY DEF DataOK, Message
<1> QED
  BY <1>2, <1>3, <1>4

\* The next message, and what is left.
LEMMA HeadTyped ==
    ASSUME NEW S, NEW s \in Seq(S), s # <<>>
    PROVE  Head(s) \in S /\ Tail(s) \in Seq(S)
OBVIOUS

\* A new connection.
LEMMA DataReconnect == ASSUME AppOK, DataOK, Reconnect PROVE DataOK'
<1>1. CASE tryScheduleReconnect
  BY <1>1 DEF tryScheduleReconnect, AppOK, DataOK, clientVars, serverVars
<1>2. CASE restoreState
  <2>1. PICK ls \in Orders(listening), ps \in Orders(puts) :
           outbox' = (IF token = Nobody THEN <<>> ELSE <<[kind |-> "auth", uid |-> token]>>)
                        \o [i \in DOMAIN ls |-> [kind |-> "listen", uid |-> ls[i]]] \o ps
    BY <1>2 DEF restoreState
  <2>2. ls \in Seq(listening) /\ ps \in Seq(puts)
    BY <2>1, OrdersTyped DEF DataOK
  <2>3. outbox' \in Seq(Message)
    BY <2>1, <2>2, RestoreTyped
  <2> QED
    BY <1>2, <2>3 DEF restoreState, DataOK, clientVars, serverVars
<1> QED
  BY <1>1, <1>2 DEF Reconnect

\* A step of the server.
LEMMA DataServe ==
    ASSUME DataOK, Serve \/ \E u \in Accounts : Revoke(u)
    PROVE  DataOK'
<1>1. ASSUME NEW x \in Reply PROVE Append(inbox, x) \in Seq(Reply)
  BY DEF DataOK
<1>2. ASSUME NEW u \in Accounts PROVE [kind |-> "revoked", uid |-> u] \in Reply
  BY DEF Reply
<1>3. ASSUME NEW u \in Accounts, Revoke(u) PROVE DataOK'
  BY <1>1, <1>2, <1>3 DEF Revoke, DataOK, clientVars, linkVars
<1>4. CASE Serve
  <2> DEFINE m == Head(outbox)
  <2>1. m \in Message /\ Tail(outbox) \in Seq(Message)
    BY <1>4, HeadTyped DEF Serve, DataOK
  <2>2. CASE ServeAuth(m)
    <3>1. auth' \in Accounts \cup {Nobody}
      BY <2>1, <2>2 DEF ServeAuth, Served, Message, Put, PutKinds
    <3> QED
      BY <2>1, <2>2, <3>1 DEF ServeAuth, Served, DataOK, clientVars, linkVars
  <2>3. CASE ServeListen(m)
    <3>0. m.uid \in Accounts
      BY <2>1, <2>3 DEF ServeListen, Served, Message, Put, PutKinds
    <3>1. [kind |-> "value", uid |-> m.uid, dreams |-> diary[m.uid]] \in Reply
      BY <3>0 DEF Reply, DataOK
    <3>2. inbox' \in Seq(Reply) /\ heard' \subseteq Accounts
      BY <1>1, <1>2, <2>3, <3>0, <3>1 DEF ServeListen, DataOK
    <3> QED
      BY <2>1, <2>3, <3>2 DEF ServeListen, Served, DataOK, clientVars, linkVars
  <2>4. CASE ServePut(m)
    <3>1. m \in Put
      BY <2>1, <2>4 DEF ServePut, Served, Message, PutKinds
    <3>2. m.uid \in Accounts /\ m.n \in Nat /\ m.dreams \in SUBSET Accounts
      BY <3>1 DEF Put
    <3>3. DreamsAfter(diary[m.uid], m) \in SUBSET Accounts /\ InfoAfter(info[m.uid], m) \in BOOLEAN
      BY <3>2 DEF DreamsAfter, InfoAfter, DataOK
    <3>4. PutReply("ok", m, DreamsAfter(diary[m.uid], m)) \in Reply /\ PutReply("denied", m, {}) \in Reply
      BY <3>2, <3>3 DEF PutReply, Reply
    <3>5. inbox' \in Seq(Reply)
      BY <1>1, <2>4, <3>4 DEF ServePut
    <3>6. diary' \in [Accounts -> SUBSET Accounts] /\ info' \in [Accounts -> BOOLEAN]
      <4>1. diary \in [Accounts -> SUBSET Accounts] /\ info \in [Accounts -> BOOLEAN]
        BY DEF DataOK
      <4>2. CASE UNCHANGED <<diary, info>>
        BY <4>1, <4>2
      <4>3. CASE /\ diary' = [diary EXCEPT ![m.uid] = DreamsAfter(@, m)]
                 /\ info' = [info EXCEPT ![m.uid] = InfoAfter(@, m)]
        <5>1. diary' \in [Accounts -> SUBSET Accounts]
          BY <3>2, <3>3, <4>1, <4>3
        <5>2. info' \in [Accounts -> BOOLEAN]
          BY <3>2, <3>3, <4>1, <4>3
        <5> QED
          BY <5>1, <5>2
      <4> QED
        BY <2>4, <4>2, <4>3 DEF ServePut
    <3> QED
      BY <2>1, <2>4, <3>5, <3>6 DEF ServePut, Served, DataOK, clientVars, linkVars
  <2> QED
    BY <1>4, <2>1, <2>2, <2>3, <2>4 DEF Serve
<1> QED
  BY <1>3, <1>4

\* What the client receives.
LEMMA DataReceive == ASSUME DataOK, Receive PROVE DataOK'
<1> DEFINE m == Head(inbox)
<1>1. m \in Reply /\ Tail(inbox) \in Seq(Reply)
  BY HeadTyped DEF Receive, DataOK
<1>2. m.uid \in Accounts
  BY <1>1 DEF Reply
<1>3. CASE onDataUpdate(m)
  <2>1. m.dreams \in SUBSET Accounts
    BY <1>1, <1>3 DEF onDataUpdate, Received, Reply
  <2> DEFINE new == [cache EXCEPT ![m.uid] = m.dreams]
  <2>2. new \in [Accounts -> SUBSET Accounts]
    BY <1>2, <2>1 DEF DataOK
  <2>3. Append(due, View(m.uid, new, puts)) \in Seq(SUBSET Accounts)
    <3> HIDE DEF m, new
    <3>1. View(m.uid, new, puts) \in SUBSET Accounts
      BY <1>2, <2>2, ViewTyped DEF DataOK
    <3> QED
      BY <3>1 DEF DataOK
  <2>4. /\ cached' \subseteq listening /\ cache' \in [Accounts -> SUBSET Accounts]
        /\ due' \in Seq(SUBSET Accounts)
    BY <1>3, <2>2, <2>3 DEF onDataUpdate, DataOK
  <2> QED
    BY <1>1, <1>3, <2>4 DEF onDataUpdate, Received, DataOK, linkVars, serverVars
<1>4. CASE onListenRevoked(m)
  <2>1. IsFiniteSet(listening \ {m.uid})
    BY FS_Subset DEF DataOK
  <2> QED
    BY <1>1, <1>4, <2>1 DEF onListenRevoked, Received, DataOK, linkVars, serverVars
<1>5. IsFiniteSet({p \in puts : p.n # m.n}) /\ {p \in puts : p.n # m.n} \subseteq Put
  BY FS_Subset DEF DataOK
<1>6. CASE onPutDone(m)
  <2>1. m.dreams \in SUBSET Accounts
    BY <1>1, <1>6 DEF onPutDone, Received, Reply
  <2> QED
    BY <1>1, <1>2, <1>5, <1>6, <2>1 DEF onPutDone, Received, DataOK, linkVars, serverVars
<1>7. CASE onPutDenied(m)
  <2>1. puts' = {p \in puts : p.n # m.n} /\ due' = due \o Callback(m.uid, cached, cache, puts')
    BY <1>7 DEF onPutDenied
  <2>2. due' \in Seq(SUBSET Accounts)
    BY <1>2, <1>5, <2>1, CallbackTyped DEF DataOK
  <2> QED
    BY <1>1, <1>5, <1>7, <2>1, <2>2 DEF onPutDenied, Received, DataOK, linkVars, serverVars
<1> QED
  BY <1>3, <1>4, <1>6, <1>7 DEF Receive

\* The main queue.
LEMMA DataMain == ASSUME AppOK, DataOK, MainStep PROVE DataOK'
<1>1. CASE RunEvent
  BY <1>1 DEF RunEvent, DataOK, linkVars, serverVars
<1>2. CASE RunFetch
  <2>1. CASE user = Nobody /\ UNCHANGED <<listening, due, outbox>>
    BY <1>2, <2>1 DEF RunFetch, DataOK, linkVars, serverVars
  <2>2. CASE user \in listening /\ due' = due \o Callback(user, cached, cache, puts)
             /\ UNCHANGED <<listening, outbox>>
    <3>1. due' \in Seq(SUBSET Accounts)
      BY <2>2, CallbackTyped DEF DataOK
    <3> QED
      BY <1>2, <2>2, <3>1 DEF RunFetch, DataOK, linkVars, serverVars
  <2>3. CASE /\ user \in Accounts \ listening /\ listening' = listening \cup {user}
             /\ due' = IF Complete(user, {}, puts) THEN Append(due, View(user, cache, puts)) ELSE due
             /\ outbox' = Sending(<<[kind |-> "listen", uid |-> user]>>)
    <3>1. due' \in Seq(SUBSET Accounts)
      BY <2>3, ViewTyped DEF DataOK
    <3>2. <<[kind |-> "listen", uid |-> user]>> \in Seq(Message)
      BY <2>3 DEF Message
    <3>3. outbox' \in Seq(Message)
      BY <2>3, <3>2, SendingTyped
    <3>4. IsFiniteSet(listening')
      BY <2>3, FS_AddElement DEF DataOK
    <3> QED
      BY <1>2, <2>3, <3>1, <3>3, <3>4 DEF RunFetch, DataOK, linkVars, serverVars
  <2> QED
    BY <1>2, <2>1, <2>2, <2>3 DEF RunFetch
<1> QED
  BY <1>1, <1>2 DEF MainStep

\* Every step keeps the types of the database client, its link and the server.
LEMMA DataNext == ASSUME AppOK, DataOK, [Next]_vars PROVE DataOK'
<1>1. CASE onDisconnect
  <2>1. <<>> \in Seq(Message) /\ <<>> \in Seq(Reply) /\ drops + 1 \in Nat
    BY DEF DataOK
  <2> QED
    BY <1>1, <2>1 DEF onDisconnect, DataOK, clientVars
<1>2. CASE LinkStep
  BY <1>1, <1>2, DataReconnect, DataServe, DataReceive DEF LinkStep
<1>3. CASE AuthStateDidChange \/ UNCHANGED vars
  BY <1>3 DEF AuthStateDidChange, vars, DataOK, dataVars, clientVars, linkVars, serverVars
<1> QED
  BY <1>2, <1>3, DataUser, DataAnswer, DataMain DEF Next

LEMMA DataInit == ASSUME Init PROVE DataOK
<1>1. IsFiniteSet({})
  BY FS_EmptySet
<1> QED
  BY <1>1 DEF Init, DataOK

-----------------------------------------------------------------------------
\* Every variable keeps its type, whatever Auth answers and when.
THEOREM SessionTypes == Spec => []TypeOK
<1> DEFINE Inv == StackInv /\ DataOK
<1>1. Init => Inv
  BY StackInit, DataInit
<1>2. Inv /\ [Next]_vars => Inv'
  BY StackNext, DataNext DEF StackInv
<1>3. Inv => TypeOK
  BY DEF StackInv, TypeOK
<1> QED
  BY <1>1, <1>2, <1>3, PTL DEF Spec

\* However late Auth answers, every screen lies on one whose code presents it.
THEOREM ScreensWellStacked == Spec => []WellStacked
<1> DEFINE Inv == StackInv /\ DataOK
<1>1. Init => Inv
  BY StackInit, DataInit
<1>2. Inv /\ [Next]_vars => Inv'
  BY StackNext, DataNext DEF StackInv
<1>3. Inv => WellStacked
  BY DEF StackInv, Stacked, WellStacked
<1> QED
  BY <1>1, <1>2, <1>3, PTL DEF Spec

-----------------------------------------------------------------------------
\* present(_:) from the screen in front puts the new screen in front.
LEMMA PresentFront ==
    ASSUME StackInv, NEW kind \in Kinds, present(Top.id, kind)
    PROVE  Top'.kind = kind /\ loaded' = (loaded /\ kind # "Main")
<1>1. stack \in Seq(Screen) /\ Len(stack) \in Nat
  BY DEF StackInv, Stacked
<1>2. stack' = Append(stack, [kind |-> kind, id |-> made]) /\ loaded' = (loaded /\ kind # "Main")
  BY DEF present, Presented, Top
<1>3. stack'[Len(stack')] = [kind |-> kind, id |-> made]
  BY <1>1, <1>2
<1> QED
  BY <1>2, <1>3 DEF Top

\* Leaving a screen shows one that may present it.
LEMMA LeaveFront ==
    ASSUME StackInv, NEW kind, Leave(kind)
    PROVE  Top.kind = kind /\ Top'.kind \in Presenters(kind)
           /\ kind \in {"Menu", "Star", "Join", "Failed"}
BY PopKnown DEF Leave, Tap, dismiss, Top

\* After the welcome alert MainVC is in front, not yet loaded.
LEMMA WelcomeFront ==
    ASSUME StackInv, WelcomeOK
    PROVE  Top'.kind = "Main" /\ ~loaded'
<1> DEFINE t == SubSeq(stack, 1, Len(stack) - 1)
<1>1. Top.kind = "Welcome" /\ Presented(t, t[Len(t)].id, "Main")
  BY DEF WelcomeOK, Tap
<1>2. Stacked(t)
  BY <1>1, PopKnown
<1> HIDE DEF t
<1>3. stack' = Append(t, [kind |-> "Main", id |-> made]) /\ ~loaded'
  BY <1>1 DEF Presented
<1>4. stack'[Len(stack')] = [kind |-> "Main", id |-> made]
  BY <1>2, <1>3 DEF Stacked
<1> QED
  BY <1>3, <1>4 DEF Top

\* A request sent when none is due is the only one, of the screen in front.
LEMMA SendAlone ==
    ASSUME NEW kind, NEW u, requests = {}, Send(kind, u), stack' = stack
    PROVE  requests' = {[kind |-> kind, uid |-> u, by |-> Top'.id, n |-> sent, signIn |-> signIns]}
BY DEF Send, Top

\* Such a user taps only when no answer is due.
LEMMA NoneDue == ASSUME WaitAuth, UserStep PROVE requests = {}
BY DEF UserStep, saveAction, removeAction, EditTraps, OpenMenu, OpenMenuTraps, OpenStar, Leave,
       logout, withdrawal, WithdrawalTraps, loginDoneBtn, joinBtn, joinDoneBtn, WelcomeOK, Edit,
       LeaveAccount, Tap

\* A step of a user who waits for Auth.
LEMMA PatientUser ==
    ASSUME WaitAuth, PatientInv, UserStep
    PROVE  OneRequest' /\ UserIsMember'
<1> USE NobodyAssumption
<1>1. StackInv /\ AppOK /\ requests = {} /\ UserIsMember
  BY NoneDue DEF PatientInv, StackInv
<1>2. ASSUME requests' = {} PROVE OneRequest'
  BY <1>2 DEF OneRequest
<1>3. ASSUME UNCHANGED <<stack, user, status>> PROVE UserIsMember'
  BY <1>1, <1>3 DEF UserIsMember, Top
<1>4. CASE saveAction \/ EditTraps \/ OpenMenuTraps \/ WithdrawalTraps
           \/ \E rest \in SUBSET container : removeAction(rest)
  <2>1. UNCHANGED <<stack, user, status, requests>>
    BY <1>4 DEF saveAction, EditTraps, OpenMenuTraps, WithdrawalTraps, removeAction, Trap,
                authVars, screenVars, askVars
  <2> QED
    BY <1>1, <1>2, <1>3, <2>1
<1>5. CASE OpenMenu
  BY <1>1, <1>2, <1>5, PresentFront DEF OpenMenu, UserIsMember, Kinds, authVars, askVars
<1>6. CASE OpenStar
  BY <1>1, <1>2, <1>6, PresentFront DEF OpenStar, Tap, UserIsMember, Kinds, authVars, askVars
<1>7. ASSUME NEW kind \in Kinds, Leave(kind) PROVE OneRequest' /\ UserIsMember'
  <2>1. Top.kind = kind /\ Top'.kind \in Presenters(kind) /\ kind \in {"Menu", "Star", "Join", "Failed"}
    BY <1>1, <1>7, LeaveFront
  <2>2. /\ Top'.kind \in {"Menu", "Star"} => Top.kind = "Star"
        /\ Top'.kind \in {"Login", "Join", "Failed"} => Top.kind \in {"Join", "Failed"}
    BY <2>1 DEF Presenters
  <2> QED
    BY <1>1, <1>2, <1>7, <2>2 DEF Leave, UserIsMember, authVars, askVars
<1>8. CASE logout
  <2>1. user' = Nobody /\ status' = status /\ requests' = requests
    BY <1>8 DEF logout, BecomeUser, askVars
  <2>2. Top'.kind = "Login"
    BY <1>1, <1>8, PresentFront DEF logout, Kinds
  <2> QED
    BY <1>1, <1>2, <2>1, <2>2 DEF UserIsMember
<1>9. CASE withdrawal
  <2>1. Send("delete", user) /\ UNCHANGED <<stack, user, status, signIns>>
    BY <1>9 DEF withdrawal, authVars, screenVars
  <2>2. requests' = {[kind |-> "delete", uid |-> user, by |-> Top'.id, n |-> sent, signIn |-> signIns]}
    BY <1>1, <2>1, SendAlone
  <2>3. OneRequest'
    BY <2>1, <2>2 DEF OneRequest
  <2> QED
    BY <1>3, <2>1, <2>3
<1>10. ASSUME NEW u \in Accounts, loginDoneBtn(u) \/ joinDoneBtn(u) PROVE OneRequest' /\ UserIsMember'
  <2>1. (Send("signIn", u) \/ Send("create", u)) /\ UNCHANGED <<stack, user, status>>
    BY <1>10 DEF loginDoneBtn, joinDoneBtn, authVars, screenVars
  <2>2. OneRequest'
    BY <1>1, <2>1, SendAlone DEF OneRequest
  <2> QED
    BY <1>3, <2>1, <2>2
<1>11. CASE joinBtn
  <2>1. Top.kind = "Login" /\ Top'.kind = "Join" /\ UNCHANGED <<user, status, requests>>
    BY <1>1, <1>11, PresentFront DEF joinBtn, Tap, Kinds, authVars, askVars
  <2> QED
    BY <1>1, <1>2, <2>1 DEF UserIsMember
<1>12. CASE WelcomeOK
  BY <1>1, <1>2, <1>12, WelcomeFront DEF WelcomeOK, UserIsMember, authVars, askVars
<1> QED
  BY <1>4, <1>5, <1>6, <1>7, <1>8, <1>9, <1>10, <1>11, <1>12 DEF UserStep

\* An answer finds the screen that asked in front, and no other request.
LEMMA AnswerAlone ==
    ASSUME PatientInv, NEW r \in requests, NEW kinds, Answered(r, kinds)
    PROVE  /\ requests' = {} /\ r.by = Top.id /\ Top.kind = Asker(r.kind)
           /\ r.kind \in kinds /\ r.uid \in Accounts /\ StackInv
           /\ r.kind = "delete" => r.uid = user /\ r.signIn = signIns
<1>1. StackInv /\ OneRequest
  BY DEF PatientInv
<1> QED
  BY <1>1, AnsweredKnown DEF OneRequest, Answered

\* An answer of Auth to a user who waited for it.
LEMMA PatientAnswer ==
    ASSUME PatientInv, Answer
    PROVE  OneRequest' /\ UserIsMember'
<1> USE NobodyAssumption
<1>1. StackInv /\ AppOK /\ OneRequest /\ UserIsMember
  BY DEF PatientInv, StackInv
<1>2. PICK r \in requests : \/ DeleteDone(r) \/ Refused(r) \/ loginEventDone(r)
                            \/ loginEventFailed(r) \/ joinEventDone(r)
  BY DEF Answer
<1>3. ASSUME NEW kinds, Answered(r, kinds)
      PROVE  /\ OneRequest' /\ r.by = Top.id /\ r.uid \in Accounts /\ r.kind \in kinds
             /\ Top.kind = Asker(r.kind)
             /\ r.kind = "delete" => r.uid = user /\ r.signIn = signIns
  BY <1>3, AnswerAlone DEF OneRequest
<1>4. CASE DeleteDone(r)
  <2>1. OneRequest' /\ r.by = Top.id /\ user \in Accounts /\ r.uid = user /\ r.signIn = signIns
    BY <1>3, <1>4 DEF DeleteDone
  <2>2. user' = Nobody
    BY <1>4, <2>1 DEF DeleteDone, BecomeUser
  <2>3. Top'.kind = "Login"
    BY <1>1, <1>4, <2>1, PresentFront DEF DeleteDone, Kinds
  <2> QED
    BY <2>1, <2>2, <2>3 DEF UserIsMember
<1>5. CASE Refused(r)
  <2>1. OneRequest' /\ UNCHANGED <<stack, user, status>>
    BY <1>3, <1>5 DEF Refused, authVars, screenVars
  <2> QED
    BY <1>1, <2>1 DEF UserIsMember, Top
<1>6. CASE loginEventDone(r)
  <2>1. OneRequest' /\ r.by = Top.id /\ r.uid \in Accounts
    BY <1>3, <1>6 DEF loginEventDone
  <2>2. user' = r.uid /\ status[r.uid] = "member" /\ status' = status
    BY <1>6 DEF loginEventDone, BecomeUser
  <2>3. Top'.kind = "Main"
    BY <1>1, <1>6, <2>1, PresentFront DEF loginEventDone, Kinds
  <2> QED
    BY <1>1, <2>1, <2>2, <2>3 DEF UserIsMember
<1>7. CASE loginEventFailed(r)
  <2>1. OneRequest' /\ r.by = Top.id /\ Top.kind = "Login" /\ UNCHANGED <<user, status>>
    BY <1>3, <1>7 DEF loginEventFailed, authVars, Asker
  <2>2. Top'.kind = "Failed"
    BY <1>1, <1>7, <2>1, PresentFront DEF loginEventFailed, Kinds
  <2> QED
    BY <1>1, <2>1, <2>2 DEF UserIsMember
<1>8. CASE joinEventDone(r)
  <2>1. OneRequest' /\ r.by = Top.id /\ r.uid \in Accounts
    BY <1>3, <1>8 DEF joinEventDone
  <2>2. user' = r.uid /\ status' = [status EXCEPT ![r.uid] = "member"]
    BY <1>8 DEF joinEventDone, BecomeUser
  <2>3. Top'.kind = "Welcome"
    BY <1>1, <1>8, <2>1, PresentFront DEF joinEventDone, Kinds
  <2>4. UserIsMember'
    BY <1>1, <2>1, <2>2, <2>3 DEF UserIsMember, AppOK
  <2> QED
    BY <2>1, <2>4
<1> QED
  BY <1>2, <1>4, <1>5, <1>6, <1>7, <1>8

\* Every step of a device whose user waits for Auth.
LEMMA PatientNext ==
    ASSUME WaitAuth, PatientInv, [Next]_vars
    PROVE  PatientInv'
<1>1. StackInv /\ DataOK /\ OneRequest /\ UserIsMember
  BY DEF PatientInv
<1>2. StackInv' /\ DataOK'
  BY <1>1, StackNext, DataNext DEF StackInv
<1>3. CASE AuthStateDidChange
  <2>1. requests = {}
    <3>1. ASSUME NEW r \in requests PROVE FALSE
      BY <1>1, <1>3, FrontScreen DEF OneRequest, AuthStateDidChange, Asker
    <3> QED
      BY <3>1
  <2>2. Top'.kind = "Login" /\ user = Nobody
    BY <1>1, <1>3, PresentFront DEF AuthStateDidChange, Kinds
  <2> QED
    BY <1>1, <1>2, <1>3, <2>1, <2>2
    DEF AuthStateDidChange, PatientInv, OneRequest, UserIsMember, authVars, askVars
<1>4. ASSUME UNCHANGED <<stack, user, signIns, status, requests>> PROVE PatientInv'
  BY <1>1, <1>2, <1>4 DEF PatientInv, OneRequest, UserIsMember, Top
<1>5. CASE MainStep \/ LinkStep \/ UNCHANGED vars
  BY <1>4, <1>5, LinkKeepsApp
  DEF MainStep, RunFetch, RunEvent, vars, appVars, authVars, screenVars, askVars
<1> QED
  BY <1>2, <1>3, <1>5, PatientUser, PatientAnswer DEF Next, PatientInv

\* At the start nobody has asked for anything.
LEMMA PatientInit == ASSUME Init PROVE PatientInv
<1>1. StackInv /\ DataOK
  BY StackInit, DataInit
<1>2. Top.kind = "Main"
  BY DEF Init, Top
<1>3. requests = {} /\ (user # Nobody => status[user] = "member")
  BY DEF Init
<1> QED
  BY <1>1, <1>2, <1>3 DEF PatientInv, OneRequest, UserIsMember

\* With a user who waits for Auth and for MainVC's listener, `currentUser!` and
\* `uid!` never meet nil.
THEOREM UserNeverNil == WaitAuth /\ WaitListener => (Spec => []NeverNil)
<1> SUFFICES ASSUME WaitAuth, WaitListener PROVE Spec => []NeverNil
  OBVIOUS
<1> DEFINE Inv == PatientInv /\ NeverNil
<1>1. Init => Inv
  BY PatientInit DEF Init, NeverNil
<1>2. ASSUME Inv, [Next]_vars PROVE Inv'
  <2>1. PatientInv' /\ UserIsMember /\ ~crashed
    BY <1>2, PatientNext DEF PatientInv, NeverNil
  <2>2. CASE UserStep
    <3>1. ~EditTraps /\ ~OpenMenuTraps /\ ~WithdrawalTraps
      BY <2>1 DEF EditTraps, OpenMenuTraps, WithdrawalTraps, Edit, LeaveAccount, Tap, UserIsMember
    <3> QED
      BY <2>1, <2>2, <3>1
      DEF UserStep, NeverNil, saveAction, removeAction, OpenMenu, OpenStar, Leave, logout,
          withdrawal, loginDoneBtn, joinBtn, joinDoneBtn, WelcomeOK
  <2>3. CASE Answer
    BY <2>1, <2>3
    DEF Answer, NeverNil, DeleteDone, Refused, loginEventDone, loginEventFailed, joinEventDone
  <2>4. CASE AuthStateDidChange \/ MainStep \/ LinkStep \/ UNCHANGED vars
    BY <2>1, <2>4, LinkKeepsApp DEF AuthStateDidChange, MainStep, RunFetch, RunEvent, vars, appVars, NeverNil
  <2> QED
    BY <1>2, <2>2, <2>3, <2>4 DEF Next
<1>3. Inv => NeverNil
  OBVIOUS
<1>4. Inv /\ [Next]_vars => Inv'
  BY <1>2
<1> QED
  BY <1>1, <1>3, <1>4, PTL DEF Spec

-----------------------------------------------------------------------------
(* The removal of a withdrawn account's data, as long as the connection    *)
(* lasts.  The connection is told of each change of user before the puts   *)
(* that follow it, so the removal is served as its own user's; no put to   *)
(* the account follows it, and nobody takes it for answered before it is.  *)

\* Of the messages ms before the i-th, the last that tells of a user, or w if
\* there is none, makes it v.
InForce(v, i, ms, w) ==
    \/ w = v /\ \A j \in 1 .. i - 1 : ms[j].kind # "auth"
    \/ \E j \in 1 .. i - 1 :
          ms[j].kind = "auth" /\ ms[j].uid = v /\ \A k \in j + 1 .. i - 1 : ms[k].kind # "auth"

\* A removal is served as its own user's, and the next message would be as v's.
Route(ms, w, v) ==
    /\ InForce(v, Len(ms) + 1, ms, w)
    /\ \A i \in 1 .. Len(ms) : ms[i].kind = "remove" => InForce(ms[i].uid, i, ms, w)

\* Message m is a put, and one to account u.
IsPut(m) == m.kind \in PutKinds
PutTo(m, u) == IsPut(m) /\ m.uid = u

\* Message m answers a put.
IsAck(m) == m.kind \in {"ok", "denied"}

\* Puts ms on their way wait for answers, and none of the answers rs is theirs.
Numbered(ms, rs, ps, n) ==
    /\ \A p \in ps : p.n < n
    /\ \A k \in 1 .. Len(rs) : IsAck(rs[k]) => rs[k].n < n
    /\ \A i \in 1 .. Len(ms) : IsPut(ms[i]) => ms[i] \in ps
    /\ \A i, j \in 1 .. Len(ms) : IsPut(ms[i]) /\ IsPut(ms[j]) /\ ms[i].n = ms[j].n => i = j
    /\ \A k \in 1 .. Len(rs), i \in 1 .. Len(ms) : IsAck(rs[k]) /\ IsPut(ms[i]) => rs[k].n # ms[i].n

\* Message m removes all that is stored for account u.
Removes(m, u) == PutTo(m, u) /\ m.kind = "remove" /\ m.dreams = {}

\* Account u is erased and no put to it is under way, or a removal is the last.
Going(u, ms, erased) ==
    \/ erased /\ \A i \in 1 .. Len(ms) : ~PutTo(ms[i], u)
    \/ \E i \in 1 .. Len(ms) :
          /\ Removes(ms[i], u)
          /\ \A j \in i + 1 .. Len(ms) : ~PutTo(ms[j], u)

Leaving(u) == status[u] = "gone" \/ \E r \in requests : r.kind = "delete" /\ r.uid = u

\* Before the first connection nothing has been shown, so nobody has edited or
\* left, and the token asked for is the current user's.
Early ==
    /\ outbox = <<>> /\ inbox = <<>> /\ auth = Nobody /\ heard = {}
    /\ ~loaded /\ due = <<>> /\ cached = {}
    /\ \A p \in puts : p.kind = "userInfo"
    /\ link = "token" => token = user

LinkInv ==
    drops = 0 =>
        /\ Numbered(outbox, inbox, puts, putCounter)
        /\ link # "up" => Early
        /\ link = "up" => Route(outbox, auth, user)
        /\ \A u \in Accounts : Leaving(u) => link = "up" /\ Going(u, outbox, Erased(u))

\* A sequence one longer.
LEMMA Longer ==
    ASSUME NEW S, NEW s \in Seq(S), NEW x \in S
    PROVE  LET t == Append(s, x)
           IN  /\ t \in Seq(S) /\ Len(s) \in Nat /\ Len(t) = Len(s) + 1
               /\ t[Len(s) + 1] = x /\ \A i \in 1 .. Len(s) : t[i] = s[i]
OBVIOUS

\* And one shorter.
LEMMA Shorter ==
    ASSUME NEW S, NEW s \in Seq(S), s # <<>>
    PROVE  LET t == Tail(s)
           IN  /\ t \in Seq(S) /\ Len(s) \in Nat \ {0} /\ Len(t) \in Nat /\ Len(t) = Len(s) - 1
               /\ Head(s) = s[1] /\ Head(s) \in S /\ \A i \in 1 .. Len(t) : t[i] = s[i + 1]
OBVIOUS

\* Numbers stay in order: a message that is not a put.
LEMMA NumberedTold ==
    ASSUME NEW ms \in Seq(Message), NEW rs \in Seq(Reply), NEW ps, NEW n \in Nat,
           Numbered(ms, rs, ps, n), NEW m \in Message, ~IsPut(m)
    PROVE  Numbered(Append(ms, m), rs, ps, n)
<1> DEFINE t == Append(ms, m)
<1>1. /\ Len(ms) \in Nat /\ Len(t) = Len(ms) + 1 /\ t[Len(ms) + 1] = m
      /\ \A i \in 1 .. Len(ms) : t[i] = ms[i]
  BY Longer
<1> HIDE DEF t
<1>2. \A i \in 1 .. Len(t) : IsPut(t[i]) => i \in 1 .. Len(ms) /\ t[i] = ms[i]
  BY <1>1
<1>3. Numbered(t, rs, ps, n)
  BY <1>2 DEF Numbered
<1> QED
  BY <1>3 DEF t

\* A new put.
LEMMA NumberedPut ==
    ASSUME NEW ms \in Seq(Message), NEW rs \in Seq(Reply), NEW ps, ps \subseteq Put, NEW n \in Nat,
           Numbered(ms, rs, ps, n), NEW p \in Put, p.n = n
    PROVE  Numbered(Append(ms, p), rs, ps \cup {p}, n + 1)
<1> DEFINE t == Append(ms, p)
<1>1. p \in Message
  BY DEF Message
<1>2. /\ Len(ms) \in Nat /\ Len(t) = Len(ms) + 1 /\ t[Len(ms) + 1] = p
      /\ \A i \in 1 .. Len(ms) : t[i] = ms[i]
  BY <1>1, Longer
<1> HIDE DEF t
<1>3. \A i \in 1 .. Len(t) : (i \in 1 .. Len(ms) /\ t[i] = ms[i]) \/ (i = Len(ms) + 1 /\ t[i] = p)
  BY <1>2
<1>4. \A q \in ps : q.n \in Nat
  BY DEF Put
<1>5. \A i \in 1 .. Len(ms) : IsPut(ms[i]) => ms[i].n \in Nat /\ ms[i].n < n
  BY <1>4 DEF Numbered
<1>6. \A k \in 1 .. Len(rs) : IsAck(rs[k]) => rs[k].n \in Nat
  BY DEF Reply, IsAck
<1>7. \A q \in ps \cup {p} : q.n < n + 1
  BY <1>4 DEF Numbered
<1>8. \A k \in 1 .. Len(rs) : IsAck(rs[k]) => rs[k].n < n + 1
  BY <1>6 DEF Numbered
<1>9. \A i \in 1 .. Len(t) : IsPut(t[i]) => t[i] \in ps \cup {p}
  BY <1>3 DEF Numbered
<1>10. \A i, j \in 1 .. Len(t) : IsPut(t[i]) /\ IsPut(t[j]) /\ t[i].n = t[j].n => i = j
  BY <1>3, <1>5 DEF Numbered
<1>11. \A k \in 1 .. Len(rs), i \in 1 .. Len(t) : IsAck(rs[k]) /\ IsPut(t[i]) => rs[k].n # t[i].n
  BY <1>3, <1>6 DEF Numbered
<1>12. Numbered(t, rs, ps \cup {p}, n + 1)
  BY <1>7, <1>8, <1>9, <1>10, <1>11 DEF Numbered
<1> QED
  BY <1>12 DEF t

\* The server takes a message.
LEMMA NumberedTaken ==
    ASSUME NEW ms \in Seq(Message), NEW rs, NEW ps, NEW n, Numbered(ms, rs, ps, n), ms # <<>>
    PROVE  /\ Numbered(Tail(ms), rs, ps, n)
           /\ IsPut(Head(ms)) => Head(ms) \in ps
           /\ IsPut(Head(ms)) =>
                 \A i \in 1 .. Len(Tail(ms)) : IsPut(Tail(ms)[i]) => Tail(ms)[i].n # Head(ms).n
<1> DEFINE t == Tail(ms)
<1>1. /\ Len(ms) \in Nat \ {0} /\ Len(t) \in Nat /\ Len(t) = Len(ms) - 1
      /\ Head(ms) = ms[1] /\ \A i \in 1 .. Len(t) : t[i] = ms[i + 1]
  BY Shorter
<1> HIDE DEF t
<1>2. 1 \in 1 .. Len(ms) /\ \A i \in 1 .. Len(t) : i + 1 \in 1 .. Len(ms) /\ i + 1 # 1
  BY <1>1
<1>3. Numbered(t, rs, ps, n)
  <2>1. \A i, j \in 1 .. Len(t) : IsPut(t[i]) /\ IsPut(t[j]) /\ t[i].n = t[j].n => i = j
    <3> SUFFICES ASSUME NEW i \in 1 .. Len(t), NEW j \in 1 .. Len(t),
                        IsPut(t[i]), IsPut(t[j]), t[i].n = t[j].n
                 PROVE  i = j
      OBVIOUS
    <3>0. /\ i + 1 \in 1 .. Len(ms) /\ j + 1 \in 1 .. Len(ms) /\ IsPut(ms[i + 1]) /\ IsPut(ms[j + 1])
          /\ ms[i + 1].n = ms[j + 1].n
      BY <1>1, <1>2
    <3>1. i + 1 = j + 1
      BY <3>0 DEF Numbered
    <3> QED
      BY <3>1, <1>1
  <2>2. \A i \in 1 .. Len(t) : IsPut(t[i]) => t[i] \in ps
    BY <1>1, <1>2 DEF Numbered
  <2>3. \A k \in 1 .. Len(rs), i \in 1 .. Len(t) : IsAck(rs[k]) /\ IsPut(t[i]) => rs[k].n # t[i].n
    BY <1>1, <1>2 DEF Numbered
  <2> QED
    BY <2>1, <2>2, <2>3 DEF Numbered
<1>4. IsPut(ms[1]) => ms[1] \in ps
  BY <1>2 DEF Numbered
<1>5. IsPut(ms[1]) => \A i \in 1 .. Len(t) : IsPut(t[i]) => t[i].n # ms[1].n
  BY <1>1, <1>2 DEF Numbered
<1> QED
  BY <1>1, <1>3, <1>4, <1>5 DEF t

\* A reply to no put under way.
LEMMA NumberedReply ==
    ASSUME NEW ms, NEW rs \in Seq(Reply), NEW ps, NEW n, Numbered(ms, rs, ps, n), NEW x \in Reply,
           IsAck(x) => x.n < n /\ \A i \in 1 .. Len(ms) : IsPut(ms[i]) => ms[i].n # x.n
    PROVE  Numbered(ms, Append(rs, x), ps, n)
<1> DEFINE t == Append(rs, x)
<1>1. /\ Len(rs) \in Nat /\ Len(t) = Len(rs) + 1 /\ t[Len(rs) + 1] = x
      /\ \A i \in 1 .. Len(rs) : t[i] = rs[i]
  BY Longer
<1> HIDE DEF t
<1>2. \A i \in 1 .. Len(t) : (i \in 1 .. Len(rs) /\ t[i] = rs[i]) \/ t[i] = x
  BY <1>1
<1>3. Numbered(ms, t, ps, n)
  BY <1>2 DEF Numbered
<1> QED
  BY <1>3 DEF t

\* The client takes a reply.
LEMMA NumberedDone ==
    ASSUME NEW ms, NEW rs \in Seq(Reply), NEW ps, NEW n, Numbered(ms, rs, ps, n), rs # <<>>
    PROVE  /\ Numbered(ms, Tail(rs), ps, n)
           /\ IsAck(Head(rs)) => Numbered(ms, Tail(rs), {p \in ps : p.n # Head(rs).n}, n)
<1> DEFINE t == Tail(rs)
<1> DEFINE qs == {p \in ps : p.n # Head(rs).n}
<1>1. /\ Len(rs) \in Nat \ {0} /\ Len(t) \in Nat /\ Len(t) = Len(rs) - 1
      /\ Head(rs) = rs[1] /\ \A i \in 1 .. Len(t) : t[i] = rs[i + 1]
  BY Shorter
<1> HIDE DEF t
<1>2. 1 \in 1 .. Len(rs) /\ \A i \in 1 .. Len(t) : i + 1 \in 1 .. Len(rs)
  BY <1>1
<1>3. \A k \in 1 .. Len(t) : IsAck(t[k]) => t[k].n < n
  BY <1>1, <1>2 DEF Numbered
<1>4. \A k \in 1 .. Len(t), i \in 1 .. Len(ms) : IsAck(t[k]) /\ IsPut(ms[i]) => t[k].n # ms[i].n
  BY <1>1, <1>2 DEF Numbered
<1>5. Numbered(ms, t, ps, n)
  BY <1>3, <1>4 DEF Numbered
<1>6. ASSUME IsAck(Head(rs)) PROVE Numbered(ms, t, qs, n)
  <2>1. \A i \in 1 .. Len(ms) : IsPut(ms[i]) => ms[i] \in qs
    BY <1>1, <1>2, <1>6 DEF Numbered
  <2>2. \A p \in qs : p.n < n
    BY DEF Numbered
  <2> HIDE DEF qs
  <2> QED
    BY <2>1, <2>2, <1>3, <1>4 DEF Numbered
<1> QED
  BY <1>5, <1>6 DEF t

\* What is in force does not depend on the messages that follow.
LEMMA ForcePrefix ==
    ASSUME NEW ms, NEW t, NEW i \in Nat, NEW v, NEW w, InForce(v, i, ms, w),
           \A j \in 1 .. i - 1 : t[j] = ms[j]
    PROVE  InForce(v, i, t, w)
<1>1. CASE w = v /\ \A j \in 1 .. i - 1 : ms[j].kind # "auth"
  BY <1>1 DEF InForce
<1>2. CASE \E j \in 1 .. i - 1 :
             ms[j].kind = "auth" /\ ms[j].uid = v /\ \A k \in j + 1 .. i - 1 : ms[k].kind # "auth"
  <2>1. PICK j \in 1 .. i - 1 :
             ms[j].kind = "auth" /\ ms[j].uid = v /\ \A k \in j + 1 .. i - 1 : ms[k].kind # "auth"
    BY <1>2
  <2>2. \A k \in j + 1 .. i - 1 : k \in 1 .. i - 1
    OBVIOUS
  <2>3. t[j].kind = "auth" /\ t[j].uid = v /\ \A k \in j + 1 .. i - 1 : t[k].kind # "auth"
    BY <2>1, <2>2
  <2> QED
    BY <2>3 DEF InForce
<1> QED
  BY <1>1, <1>2 DEF InForce

\* The connection is told of user v.
LEMMA RouteTold ==
    ASSUME NEW ms \in Seq(Message), NEW w, NEW x, Route(ms, w, x),
           NEW m \in Message, m.kind = "auth"
    PROVE  Route(Append(ms, m), w, m.uid)
<1> DEFINE t == Append(ms, m)
<1>1. /\ Len(ms) \in Nat /\ Len(t) = Len(ms) + 1 /\ t[Len(ms) + 1] = m
      /\ \A i \in 1 .. Len(ms) : t[i] = ms[i]
  BY Longer
<1> HIDE DEF t
<1>2. InForce(m.uid, Len(t) + 1, t, w)
  <2>1. PICK a \in Nat : a = Len(ms)
    BY <1>1
  <2>2. Len(t) + 1 = a + 2 /\ a + 1 \in 1 .. (a + 2) - 1 /\ (a + 1) + 1 .. (a + 2) - 1 = {}
    BY <1>1, <2>1
  <2>3. t[a + 1].kind = "auth" /\ t[a + 1].uid = m.uid
    BY <1>1, <2>1
  <2>4. InForce(m.uid, a + 2, t, w)
    BY <2>2, <2>3 DEF InForce
  <2> QED
    BY <2>2, <2>4
<1>3. ASSUME NEW i \in 1 .. Len(t), t[i].kind = "remove" PROVE InForce(t[i].uid, i, t, w)
  <2>1. i # Len(ms) + 1
    BY <1>1, <1>3
  <2>2. i \in 1 .. Len(ms) /\ i \in Nat /\ t[i] = ms[i] /\ \A j \in 1 .. i - 1 : t[j] = ms[j]
    BY <1>1, <2>1
  <2>3. InForce(ms[i].uid, i, ms, w)
    BY <1>3, <2>2 DEF Route
  <2> QED
    BY <2>2, <2>3, ForcePrefix
<1>4. Route(t, w, m.uid)
  BY <1>2, <1>3 DEF Route
<1> QED
  BY <1>4 DEF t

\* Another message, and if it is a removal then of v's data.
LEMMA RouteOther ==
    ASSUME NEW ms \in Seq(Message), NEW w, NEW v, Route(ms, w, v),
           NEW m \in Message, m.kind # "auth", m.kind = "remove" => m.uid = v
    PROVE  Route(Append(ms, m), w, v)
<1> DEFINE t == Append(ms, m)
<1>1. /\ Len(ms) \in Nat /\ Len(t) = Len(ms) + 1 /\ t[Len(ms) + 1] = m
      /\ \A i \in 1 .. Len(ms) : t[i] = ms[i]
  BY Longer
<1> HIDE DEF t
<1>2. PICK a \in Nat : a = Len(ms)
  BY <1>1
<1>3. InForce(v, a + 1, t, w)
  <2>1. InForce(v, a + 1, ms, w) /\ a + 1 \in Nat
    BY <1>2 DEF Route
  <2>2. \A j \in 1 .. (a + 1) - 1 : t[j] = ms[j]
    BY <1>1, <1>2
  <2> QED
    BY <2>1, <2>2, ForcePrefix
<1>4. InForce(v, a + 2, t, w)
  <2>1. t[a + 1].kind # "auth"
    BY <1>1, <1>2
  <2>2. CASE w = v /\ \A j \in 1 .. (a + 1) - 1 : t[j].kind # "auth"
    <3>1. \A j \in 1 .. (a + 2) - 1 : t[j].kind # "auth"
      BY <2>1, <2>2
    <3> QED
      BY <2>2, <3>1 DEF InForce
  <2>3. CASE \E j \in 1 .. (a + 1) - 1 :
               t[j].kind = "auth" /\ t[j].uid = v /\ \A k \in j + 1 .. (a + 1) - 1 : t[k].kind # "auth"
    <3>1. PICK j \in 1 .. (a + 1) - 1 :
               t[j].kind = "auth" /\ t[j].uid = v /\ \A k \in j + 1 .. (a + 1) - 1 : t[k].kind # "auth"
      BY <2>3
    <3>2. j \in 1 .. (a + 2) - 1 /\ \A k \in j + 1 .. (a + 2) - 1 : t[k].kind # "auth"
      BY <2>1, <3>1
    <3> QED
      BY <3>1, <3>2 DEF InForce
  <2> QED
    BY <1>3, <2>2, <2>3 DEF InForce
<1>5. ASSUME NEW i \in 1 .. Len(t), t[i].kind = "remove" PROVE InForce(t[i].uid, i, t, w)
  <2>1. CASE i = a + 1
    <3>1. t[i] = m /\ m.uid = v
      BY <1>1, <1>2, <1>5, <2>1
    <3> QED
      BY <1>3, <2>1, <3>1
  <2>2. CASE i # a + 1
    <3>1. i \in 1 .. Len(ms) /\ i \in Nat /\ t[i] = ms[i] /\ \A j \in 1 .. i - 1 : t[j] = ms[j]
      BY <1>1, <1>2, <2>2
    <3>2. InForce(ms[i].uid, i, ms, w)
      BY <1>5, <3>1 DEF Route
    <3> QED
      BY <3>1, <3>2, ForcePrefix
  <2> QED
    BY <2>1, <2>2
<1>6. Route(t, w, v)
  <2>1. Len(t) + 1 = a + 2
    BY <1>1, <1>2
  <2> QED
    BY <1>4, <1>5, <2>1 DEF Route
<1> QED
  BY <1>6 DEF t

\* The first message is taken: what is in force at the others stays.
LEMMA ForceTaken ==
    ASSUME NEW ms, NEW t, NEW i \in Nat, NEW v, NEW w, NEW x, InForce(v, i + 1, ms, w), i > 0,
           \A j \in 1 .. i - 1 : t[j] = ms[j + 1],
           IF ms[1].kind = "auth" THEN x = ms[1].uid ELSE x = w
    PROVE  InForce(v, i, t, x)
<1>1. CASE w = v /\ \A j \in 1 .. (i + 1) - 1 : ms[j].kind # "auth"
  <2>1. \A j \in 1 .. i - 1 : j + 1 \in 1 .. (i + 1) - 1
    OBVIOUS
  <2>2. 1 \in 1 .. (i + 1) - 1
    OBVIOUS
  <2>3. x = v /\ \A j \in 1 .. i - 1 : t[j].kind # "auth"
    BY <1>1, <2>1, <2>2
  <2> QED
    BY <2>3 DEF InForce
<1>2. CASE \E j \in 1 .. (i + 1) - 1 :
             ms[j].kind = "auth" /\ ms[j].uid = v /\ \A k \in j + 1 .. (i + 1) - 1 : ms[k].kind # "auth"
  <2>1. PICK j \in 1 .. (i + 1) - 1 :
             ms[j].kind = "auth" /\ ms[j].uid = v /\ \A k \in j + 1 .. (i + 1) - 1 : ms[k].kind # "auth"
    BY <1>2
  <2>2. CASE j = 1
    <3>1. \A k \in 1 .. i - 1 : k + 1 \in j + 1 .. (i + 1) - 1
      BY <2>2
    <3>2. x = v /\ \A k \in 1 .. i - 1 : t[k].kind # "auth"
      BY <2>1, <2>2, <3>1
    <3> QED
      BY <3>2 DEF InForce
  <2>3. CASE j # 1
    <3>1. PICK h \in 1 .. i - 1 : j = h + 1
      <4>1. j - 1 \in 1 .. i - 1 /\ j = (j - 1) + 1
        BY <2>3
      <4> QED
        BY <4>1
    <3>2. \A k \in h + 1 .. i - 1 : k \in 1 .. i - 1 /\ k + 1 \in j + 1 .. (i + 1) - 1
      BY <3>1
    <3>3. t[h].kind = "auth" /\ t[h].uid = v /\ \A k \in h + 1 .. i - 1 : t[k].kind # "auth"
      BY <2>1, <3>1, <3>2
    <3> QED
      BY <3>3 DEF InForce
  <2> QED
    BY <2>2, <2>3
<1> QED
  BY <1>1, <1>2 DEF InForce

LEMMA RouteTaken ==
    ASSUME NEW ms \in Seq(Message), ms # <<>>, NEW w, NEW v, NEW x, Route(ms, w, v),
           IF Head(ms).kind = "auth" THEN x = Head(ms).uid ELSE x = w
    PROVE  /\ Route(Tail(ms), x, v)
           /\ Head(ms).kind = "remove" => w = Head(ms).uid
<1> DEFINE t == Tail(ms)
<1>1. /\ Len(ms) \in Nat \ {0} /\ Len(t) \in Nat /\ Len(t) = Len(ms) - 1
      /\ Head(ms) = ms[1] /\ \A i \in 1 .. Len(t) : t[i] = ms[i + 1]
  BY Shorter
<1> HIDE DEF t
<1>2. PICK a \in Nat : a = Len(t)
  BY <1>1
<1>3. Len(ms) = a + 1 /\ \A i \in 1 .. a : t[i] = ms[i + 1]
  BY <1>1, <1>2
<1>4. InForce(v, Len(t) + 1, t, x)
  <2>1. InForce(v, (a + 1) + 1, ms, w)
    BY <1>3 DEF Route
  <2>2. a + 1 \in Nat /\ a + 1 > 0 /\ \A j \in 1 .. (a + 1) - 1 : t[j] = ms[j + 1]
    BY <1>3
  <2> QED
    BY <1>1, <1>2, <2>1, <2>2, ForceTaken
<1>5. ASSUME NEW i \in 1 .. Len(t), t[i].kind = "remove" PROVE InForce(t[i].uid, i, t, x)
  <2>1. i \in Nat /\ i > 0 /\ i + 1 \in 1 .. Len(ms) /\ t[i] = ms[i + 1]
        /\ \A j \in 1 .. i - 1 : t[j] = ms[j + 1]
    BY <1>2, <1>3
  <2>2. InForce(t[i].uid, i + 1, ms, w)
    BY <1>5, <2>1 DEF Route
  <2> QED
    BY <1>1, <2>1, <2>2, ForceTaken
<1>6. ms[1].kind = "remove" => w = ms[1].uid
  <2>1. 1 \in 1 .. Len(ms) /\ 1 .. 1 - 1 = {}
    BY <1>1
  <2> QED
    BY <2>1 DEF Route, InForce
<1> QED
  BY <1>1, <1>4, <1>5, <1>6 DEF t, Route

-----------------------------------------------------------------------------
\* An account on its way out: a message that is no put to it.
LEMMA GoingTold ==
    ASSUME NEW ms \in Seq(Message), NEW u, NEW e, Going(u, ms, e), NEW m \in Message, ~PutTo(m, u)
    PROVE  Going(u, Append(ms, m), e)
<1> DEFINE t == Append(ms, m)
<1>1. /\ Len(ms) \in Nat /\ Len(t) = Len(ms) + 1 /\ t[Len(ms) + 1] = m
      /\ \A i \in 1 .. Len(ms) : t[i] = ms[i]
  BY Longer
<1> HIDE DEF t
<1>2. CASE e /\ \A i \in 1 .. Len(ms) : ~PutTo(ms[i], u)
  <2>1. \A i \in 1 .. Len(t) : ~PutTo(t[i], u)
    BY <1>1, <1>2
  <2> QED
    BY <1>2, <2>1 DEF Going, t
<1>3. CASE \E i \in 1 .. Len(ms) : /\ Removes(ms[i], u)
                                   /\ \A j \in i + 1 .. Len(ms) : ~PutTo(ms[j], u)
  <2>1. PICK i \in 1 .. Len(ms) : /\ Removes(ms[i], u)
                                  /\ \A j \in i + 1 .. Len(ms) : ~PutTo(ms[j], u)
    BY <1>3
  <2>2. i \in 1 .. Len(t) /\ Removes(t[i], u)
        /\ \A j \in i + 1 .. Len(t) : ~PutTo(t[j], u)
    BY <1>1, <2>1
  <2> QED
    BY <2>2 DEF Going, t
<1> QED
  BY <1>2, <1>3 DEF Going

\* A removal is asked for.
LEMMA GoingRemoved ==
    ASSUME NEW ms \in Seq(Message), NEW u, NEW e, NEW m \in Message, Removes(m, u)
    PROVE  Going(u, Append(ms, m), e)
<1> DEFINE t == Append(ms, m)
<1>1. Len(ms) \in Nat /\ Len(t) = Len(ms) + 1 /\ t[Len(ms) + 1] = m
  BY Longer
<1> HIDE DEF t
<1>2. Len(t) \in 1 .. Len(t) /\ t[Len(t)] = m /\ Len(t) + 1 .. Len(t) = {}
  BY <1>1
<1> QED
  BY <1>2 DEF Going, t

\* The server takes a message; if it is the removal, nothing is stored then.
LEMMA GoingTaken ==
    ASSUME NEW ms \in Seq(Message), ms # <<>>, NEW u, NEW e, NEW f, Going(u, ms, e),
           IF PutTo(Head(ms), u) THEN Removes(Head(ms), u) => f ELSE f = e
    PROVE  Going(u, Tail(ms), f)
<1> DEFINE t == Tail(ms)
<1>1. /\ Len(ms) \in Nat \ {0} /\ Len(t) \in Nat /\ Len(t) = Len(ms) - 1
      /\ Head(ms) = ms[1] /\ \A i \in 1 .. Len(t) : t[i] = ms[i + 1]
  BY Shorter
<1> HIDE DEF t
<1>2. CASE e /\ \A i \in 1 .. Len(ms) : ~PutTo(ms[i], u)
  <2>1. 1 \in 1 .. Len(ms) /\ \A i \in 1 .. Len(t) : i + 1 \in 1 .. Len(ms)
    BY <1>1
  <2>2. ~PutTo(Head(ms), u) /\ \A i \in 1 .. Len(t) : ~PutTo(t[i], u)
    BY <1>1, <1>2, <2>1
  <2> QED
    BY <1>2, <2>2 DEF Going, t
<1>3. CASE \E i \in 1 .. Len(ms) : /\ Removes(ms[i], u)
                                   /\ \A j \in i + 1 .. Len(ms) : ~PutTo(ms[j], u)
  <2>1. PICK i \in 1 .. Len(ms) : /\ Removes(ms[i], u)
                                  /\ \A j \in i + 1 .. Len(ms) : ~PutTo(ms[j], u)
    BY <1>3
  <2>2. CASE i = 1
    <3>1. \A j \in 1 .. Len(t) : j + 1 \in i + 1 .. Len(ms)
      BY <1>1, <2>2
    <3>2. f /\ \A j \in 1 .. Len(t) : ~PutTo(t[j], u)
      BY <1>1, <2>1, <2>2, <3>1 DEF Removes
    <3> QED
      BY <3>2 DEF Going, t
  <2>3. CASE i # 1
    <3>1. PICK h \in 1 .. Len(t) : i = h + 1
      <4>1. i - 1 \in 1 .. Len(t) /\ i = (i - 1) + 1
        BY <1>1, <2>3
      <4> QED
        BY <4>1
    <3>2. \A j \in h + 1 .. Len(t) : j \in 1 .. Len(t) /\ j + 1 \in i + 1 .. Len(ms)
      BY <1>1, <3>1
    <3>3. Removes(t[h], u) /\ \A j \in h + 1 .. Len(t) : ~PutTo(t[j], u)
      BY <1>1, <2>1, <3>1, <3>2
    <3> QED
      BY <3>3 DEF Going, t
  <2> QED
    BY <2>2, <2>3
<1> QED
  BY <1>2, <1>3 DEF Going

-----------------------------------------------------------------------------
\* A step that leaves the database client alone.
LEMMA StillLinked ==
    ASSUME LinkInv, UNCHANGED <<dataVars, user>>, loaded' => loaded,
           \A u \in Accounts : Leaving(u)' => Leaving(u)
    PROVE  LinkInv'
<1>1. UNCHANGED <<link, token, drops, puts, putCounter, cached, due, outbox, inbox, auth, heard, diary, info>>
  BY DEF dataVars, clientVars, linkVars, serverVars
<1>2. \A u \in Accounts : Erased(u)' = Erased(u)
  BY <1>1 DEF Erased
<1> QED
  BY <1>1, <1>2 DEF LinkInv, Early

\* The tuples of messages as messages one by one.
LEMMA SendOne ==
    ASSUME DataOK, link = "up", NEW m \in Message
    PROVE  Sending(<<m>>) = Append(outbox, m)
BY AppendIsConcat DEF DataOK, Sending

LEMMA SendTwo ==
    ASSUME DataOK, link = "up", NEW m \in Message, NEW p \in Message
    PROVE  Sending(<<m>> \o <<p>>) = Append(Append(outbox, m), p)
<1>1. outbox \in Seq(Message) /\ <<m>> \in Seq(Message) /\ <<p>> \in Seq(Message)
  BY DEF DataOK
<1>2. outbox \o (<<m>> \o <<p>>) = (outbox \o <<m>>) \o <<p>>
  BY <1>1, ConcatAssociative
<1>3. Append(outbox, m) \in Seq(Message) /\ Append(outbox, m) = outbox \o <<m>>
  BY <1>1, AppendIsConcat
<1>4. Append(Append(outbox, m), p) = Append(outbox, m) \o <<p>>
  BY <1>3, AppendIsConcat
<1> QED
  BY <1>2, <1>3, <1>4 DEF Sending

\* The current user becomes v, who was not kept waiting for a token of another.
LEMMA BecomeLinked ==
    ASSUME DataOK, LinkInv, NEW v \in Accounts \cup {Nobody}, BecomeUser(v, <<>>),
           UNCHANGED <<clientVars, serverVars, inbox>>, loaded' => loaded,
           \A u \in Accounts : Leaving(u)' => Leaving(u),
           drops = 0 => link = "up" \/ user = Nobody
    PROVE  LinkInv'
<1> DEFINE m == [kind |-> "auth", uid |-> v]
<1>1. m \in Message /\ m.kind = "auth" /\ m.uid = v /\ ~IsPut(m) /\ \A u \in Accounts : ~PutTo(m, u)
  BY DEF Message, IsPut, PutTo, PutKinds
<1>2. /\ UNCHANGED <<link, drops, puts, putCounter, cached, due, inbox, auth, heard>> /\ user' = v
      /\ \A u \in Accounts : Erased(u)' = Erased(u)
  BY DEF BecomeUser, clientVars, serverVars, Erased
<1> SUFFICES ASSUME drops = 0 PROVE LinkInv'
  BY <1>2 DEF LinkInv
<1>3. <<m>> \o <<>> = <<m>>
  BY <1>1
<1>4. CASE link = "up"
  <2>1. outbox' = Append(outbox, m)
    BY <1>1, <1>3, <1>4, SendOne DEF BecomeUser
  <2> HIDE DEF m
  <2>2. Numbered(outbox', inbox, puts, putCounter)
    BY <1>1, <2>1, NumberedTold DEF LinkInv, DataOK
  <2>3. Route(outbox', auth, v)
    BY <1>1, <1>4, <2>1, RouteTold DEF LinkInv, DataOK
  <2>4. ASSUME NEW u \in Accounts, Leaving(u)' PROVE Going(u, outbox', Erased(u))
    BY <1>1, <2>1, <2>4, GoingTold DEF LinkInv, DataOK
  <2> QED
    BY <1>2, <1>4, <2>2, <2>3, <2>4 DEF LinkInv
<1>5. CASE link # "up"
  <2>1. outbox' = outbox /\ Early /\ user = Nobody /\ (link = "token" => token' = v)
    BY <1>5 DEF BecomeUser, Sending, LinkInv, Early
  <2> QED
    BY <1>2, <1>5, <2>1 DEF LinkInv, Early
<1> QED
  BY <1>4, <1>5

\* A put of the current user, who has no account on its way out.
LEMMA OwnPutLinked ==
    ASSUME DataOK, LinkInv, drops = 0, link = "up", user \in Accounts,
           NEW kind \in PutKinds, NEW a \in SUBSET Accounts, PutOwn(kind, a), user' = user
    PROVE  /\ UNCHANGED <<link, drops>>
           /\ Numbered(outbox', inbox', puts', putCounter')
           /\ Route(outbox', auth', user')
           /\ \A u \in Accounts :
                 u # user /\ Going(u, outbox, Erased(u)) => Going(u, outbox', Erased(u)')
           /\ kind = "remove" /\ a = {} => Going(user, outbox', Erased(user)')
<1> DEFINE p == NewPut(kind, user, a)
<1>1. p \in Put /\ p \in Message
  BY NewPutTyped DEF Message
<1>2. p.n = putCounter /\ p.kind = kind /\ p.uid = user /\ p.dreams = a /\ p.kind # "auth" /\ PutTo(p, user)
      /\ \A u \in Accounts : u # user => ~PutTo(p, u)
  BY DEF NewPut, PutTo, IsPut, PutKinds
<1>3. outbox' = Append(outbox, p)
  BY <1>1, SendOne DEF PutOwn
<1>4. puts' = puts \cup {p} /\ putCounter' = putCounter + 1
  BY DEF PutOwn, putInternal
<1>5. UNCHANGED <<link, drops, auth, inbox>> /\ \A u \in Accounts : Erased(u)' = Erased(u)
  BY DEF PutOwn, linkVars, serverVars, Erased
<1> HIDE DEF p
<1>6. Numbered(outbox', inbox, puts', putCounter')
  BY <1>1, <1>2, <1>3, <1>4, NumberedPut DEF LinkInv, DataOK
<1>7. Route(outbox', auth, user)
  BY <1>1, <1>2, <1>3, RouteOther DEF LinkInv, DataOK
<1>8. \A u \in Accounts : u # user /\ Going(u, outbox, Erased(u)) => Going(u, outbox', Erased(u)')
  BY <1>1, <1>2, <1>3, <1>5, GoingTold DEF DataOK
<1>9. kind = "remove" /\ a = {} => Going(user, outbox', Erased(user)')
  BY <1>1, <1>2, <1>3, GoingRemoved DEF DataOK, Removes
<1> QED
  BY <1>5, <1>6, <1>7, <1>8, <1>9

\* present(_:) never makes a diary loaded.
LEMMA PresentLoads ==
    ASSUME NEW by, NEW kind, present(by, kind)
    PROVE  loaded' => loaded
BY DEF present, Presented

\* A step of a user who waits.
LEMMA LinkUser ==
    ASSUME WaitAuth, WaitLoad, WaitShown, PatientInv, LinkInv, UserStep
    PROVE  LinkInv'
<1>1. AppOK /\ DataOK /\ requests = {} /\ UserIsMember
  BY NoneDue DEF PatientInv, StackInv
<1>2. \A u \in Accounts : Leaving(u) => status[u] = "gone" /\ u # user
  BY <1>1, NobodyAssumption DEF Leaving, UserIsMember
<1>3. drops = 0 /\ loaded => link = "up"
  BY DEF LinkInv, Early
<1>4. ASSUME NEW kind \in {"save", "update"}, NEW a \in SUBSET Accounts, PutOwn(kind, a), loaded,
             user # Nobody, UNCHANGED <<user, status, requests>>
      PROVE  LinkInv'
  <2>1. \A u \in Accounts : Leaving(u)' => Leaving(u)
    BY <1>4 DEF Leaving
  <2>2. drops' = drops
    BY <1>4 DEF PutOwn, linkVars
  <2> SUFFICES ASSUME drops = 0 PROVE LinkInv'
    BY <2>2 DEF LinkInv
  <2>3. user \in Accounts /\ link = "up" /\ kind \in PutKinds
    BY <1>1, <1>3, <1>4 DEF AppOK, PutKinds
  <2>4. /\ UNCHANGED <<link, drops>>
        /\ Numbered(outbox', inbox', puts', putCounter')
        /\ Route(outbox', auth', user')
        /\ \A u \in Accounts :
              u # user /\ Going(u, outbox, Erased(u)) => Going(u, outbox', Erased(u)')
    BY <1>1, <1>4, <2>3, OwnPutLinked
  <2>5. \A u \in Accounts : Leaving(u)' => Going(u, outbox', Erased(u)')
    BY <1>2, <2>1, <2>4 DEF LinkInv
  <2> QED
    BY <2>3, <2>4, <2>5 DEF LinkInv
<1>5. CASE saveAction
  <2>1. PutOwn("save", {user}) /\ loaded /\ user # Nobody /\ UNCHANGED <<user, status, requests>>
    BY <1>5 DEF saveAction, Edit, authVars, askVars
  <2>2. {user} \in SUBSET Accounts
    BY <1>1, <2>1 DEF AppOK
  <2> QED
    BY <1>4, <2>1, <2>2
<1>6. ASSUME NEW rest \in SUBSET container, removeAction(rest) PROVE LinkInv'
  <2>1. PutOwn("update", rest) /\ loaded /\ user # Nobody /\ UNCHANGED <<user, status, requests>>
    BY <1>6 DEF removeAction, Edit, authVars, askVars
  <2>2. rest \in SUBSET Accounts
    BY <1>1 DEF AppOK
  <2> QED
    BY <1>4, <2>1, <2>2
<1>7. CASE withdrawal
  <2>1. PutOwn("remove", {}) /\ loaded /\ user # Nobody /\ UNCHANGED <<user, status>> /\ Send("delete", user)
    BY <1>7 DEF withdrawal, LeaveAccount, authVars
  <2>2. \A u \in Accounts : Leaving(u)' => Leaving(u) \/ u = user
    BY <2>1 DEF Leaving, Send
  <2>3. drops' = drops
    BY <2>1 DEF PutOwn, linkVars
  <2> SUFFICES ASSUME drops = 0 PROVE LinkInv'
    BY <2>3 DEF LinkInv
  <2>4. user \in Accounts /\ link = "up" /\ "remove" \in PutKinds /\ {} \in SUBSET Accounts
    BY <1>1, <1>3, <2>1 DEF AppOK, PutKinds
  <2>5. /\ UNCHANGED <<link, drops>>
        /\ Numbered(outbox', inbox', puts', putCounter')
        /\ Route(outbox', auth', user')
        /\ \A u \in Accounts :
              u # user /\ Going(u, outbox, Erased(u)) => Going(u, outbox', Erased(u)')
        /\ Going(user, outbox', Erased(user)')
    BY <1>1, <2>1, <2>4, OwnPutLinked
  <2>6. ASSUME NEW u \in Accounts, Leaving(u)' PROVE Going(u, outbox', Erased(u)')
    <3>1. CASE u = user
      BY <2>1, <2>5, <3>1 DEF Erased
    <3>2. CASE u # user
      BY <1>2, <2>2, <2>5, <2>6, <3>2 DEF LinkInv
    <3> QED
      BY <3>1, <3>2
  <2> QED
    BY <2>4, <2>5, <2>6 DEF LinkInv
<1>8. CASE logout
  <2>1. loaded /\ BecomeUser(Nobody, <<>>) /\ UNCHANGED <<clientVars, serverVars, inbox, status, requests>>
    BY <1>8 DEF logout, LeaveAccount, askVars
  <2>2. \A u \in Accounts : Leaving(u)' => Leaving(u)
    BY <2>1 DEF Leaving
  <2> QED
    BY <1>1, <1>3, <2>1, <2>2, BecomeLinked
<1>9. CASE \/ EditTraps \/ OpenMenu \/ OpenMenuTraps \/ OpenStar \/ WithdrawalTraps \/ joinBtn \/ WelcomeOK
           \/ (\E kind \in Kinds : Leave(kind))
  <2>1. UNCHANGED <<dataVars, user, status, requests>>
    BY <1>9 DEF EditTraps, Trap, OpenMenu, OpenMenuTraps, OpenStar, WithdrawalTraps, joinBtn,
                WelcomeOK, Leave, authVars, askVars
  <2>2. loaded' => loaded
    BY <1>9, PresentLoads DEF EditTraps, Trap, OpenMenu, OpenMenuTraps, OpenStar, WithdrawalTraps, joinBtn,
                WelcomeOK, Presented, Leave, dismiss, screenVars
  <2>3. \A u \in Accounts : Leaving(u)' => Leaving(u)
    BY <2>1 DEF Leaving
  <2> QED
    BY <2>1, <2>2, <2>3, StillLinked
<1>10. ASSUME NEW u \in Accounts, loginDoneBtn(u) \/ joinDoneBtn(u) PROVE LinkInv'
  <2>1. UNCHANGED <<dataVars, user, status, loaded>> /\ (Send("signIn", u) \/ Send("create", u))
    BY <1>10 DEF loginDoneBtn, joinDoneBtn, authVars, screenVars
  <2>2. \A w \in Accounts : Leaving(w)' => Leaving(w)
    BY <2>1 DEF Leaving, Send
  <2> QED
    BY <2>1, <2>2, StillLinked
<1> QED
  BY <1>5, <1>6, <1>7, <1>8, <1>9, <1>10 DEF UserStep

\* An answer of Auth to a user who waited for it.
LEMMA LinkAnswer ==
    ASSUME PatientInv, LinkInv, Answer
    PROVE  LinkInv'
<1> USE NobodyAssumption
<1>1. AppOK /\ DataOK /\ UserIsMember
  BY DEF PatientInv, StackInv
<1>2. PICK r \in requests : \/ DeleteDone(r) \/ Refused(r) \/ loginEventDone(r)
                            \/ loginEventFailed(r) \/ joinEventDone(r)
  BY DEF Answer
<1>3. ASSUME NEW kinds, Answered(r, kinds)
      PROVE  /\ requests' = {} /\ r.by = Top.id /\ r.uid \in Accounts /\ r.kind \in kinds
             /\ Top.kind = Asker(r.kind)
             /\ r.kind = "delete" => r.uid = user /\ r.signIn = signIns
  BY <1>3, AnswerAlone
<1>4. CASE DeleteDone(r)
  <2>1. requests' = {} /\ r.kind = "delete" /\ r.uid = user /\ user \in Accounts /\ r.signIn = signIns
    BY <1>3, <1>4 DEF DeleteDone
  <2>2. /\ BecomeUser(Nobody, <<>>) /\ UNCHANGED <<clientVars, serverVars, inbox>>
        /\ present(r.by, "Login") /\ status' = [status EXCEPT ![user] = "gone"]
    BY <1>4, <2>1 DEF DeleteDone
  <2>3. Leaving(user) /\ \A u \in Accounts : Leaving(u)' => Leaving(u)
    BY <1>1, <2>1, <2>2 DEF Leaving, AppOK
  <2>4. drops = 0 => link = "up"
    BY <2>1, <2>3 DEF LinkInv
  <2> QED
    BY <1>1, <2>2, <2>3, <2>4, BecomeLinked, PresentLoads
<1>5. CASE Refused(r) \/ loginEventFailed(r)
  <2>1. UNCHANGED <<dataVars, user, status>> /\ requests' \subseteq requests
    BY <1>5 DEF Refused, loginEventFailed, Answered, authVars
  <2>2. loaded' => loaded
    BY <1>5, PresentLoads DEF Refused, loginEventFailed, screenVars
  <2>3. \A u \in Accounts : Leaving(u)' => Leaving(u)
    BY <2>1 DEF Leaving
  <2> QED
    BY <2>1, <2>2, <2>3, StillLinked
<1>6. CASE loginEventDone(r)
  <2>1. requests' = {} /\ Top.kind = "Login" /\ r.uid \in Accounts
    BY <1>3, <1>6 DEF loginEventDone, Asker
  <2>2. BecomeUser(r.uid, <<>>) /\ UNCHANGED <<clientVars, serverVars, inbox, status>> /\ present(r.by, "Main")
    BY <1>6 DEF loginEventDone
  <2>3. user = Nobody /\ \A u \in Accounts : Leaving(u)' => Leaving(u)
    BY <1>1, <2>1, <2>2 DEF Leaving, UserIsMember
  <2> QED
    BY <1>1, <2>1, <2>2, <2>3, BecomeLinked, PresentLoads
<1>7. CASE joinEventDone(r)
  <2> DEFINE p == NewPut("userInfo", r.uid, {})
  <2> DEFINE m == [kind |-> "auth", uid |-> r.uid]
  <2>1. /\ requests' = {} /\ Top.kind = "Join" /\ r.uid \in Accounts /\ status[r.uid] = "free"
        /\ status' = [status EXCEPT ![r.uid] = "member"] /\ \A q \in requests : q.kind # "delete"
    <3>1. r.kind = "create" /\ \A q \in requests : q = r
      BY <1>3, <1>7 DEF joinEventDone, PatientInv, OneRequest
    <3> QED
      BY <1>3, <1>7, <3>1 DEF joinEventDone, Asker
  <2>2. putInternal(p) /\ BecomeUser(r.uid, <<p>>) /\ UNCHANGED <<serverVars, inbox>> /\ (loaded' => loaded)
    BY <1>7, PresentLoads DEF joinEventDone
  <2>3. user = Nobody /\ \A u \in Accounts : Leaving(u)' => Leaving(u) /\ u # r.uid
    BY <1>1, <2>1 DEF Leaving, UserIsMember, AppOK
  <2>4. p \in Put /\ p \in Message /\ m \in Message /\ m.kind = "auth" /\ m.uid = r.uid /\ ~IsPut(m)
    BY <1>1, <2>1, NewPutTyped DEF PutKinds, Message, IsPut
  <2>5. p.n = putCounter /\ p.kind = "userInfo" /\ p.uid = r.uid
        /\ \A u \in Accounts : ~PutTo(m, u) /\ (u # r.uid => ~PutTo(p, u))
    BY DEF NewPut, PutTo, IsPut, PutKinds
  <2>6. /\ puts' = puts \cup {p} /\ putCounter' = putCounter + 1 /\ due' = due
        /\ UNCHANGED <<link, drops, cached, inbox, auth, heard>> /\ user' = r.uid
        /\ \A u \in Accounts : Erased(u)' = Erased(u)
    BY <2>2, <2>5 DEF putInternal, BecomeUser, serverVars, Erased
  <2> SUFFICES ASSUME drops = 0 PROVE LinkInv'
    BY <2>6 DEF LinkInv
  <2>7. CASE link = "up"
    <3>1. outbox' = Append(Append(outbox, m), p)
      BY <1>1, <2>2, <2>4, <2>7, SendTwo DEF BecomeUser
    <3> HIDE DEF m, p
    <3>2. outbox \in Seq(Message) /\ Append(outbox, m) \in Seq(Message)
      BY <1>1, <2>4 DEF DataOK
    <3>3. Numbered(Append(outbox, m), inbox, puts, putCounter)
      BY <1>1, <2>4, NumberedTold DEF LinkInv, DataOK
    <3>4. Numbered(outbox', inbox, puts', putCounter')
      BY <1>1, <2>4, <2>5, <2>6, <3>1, <3>2, <3>3, NumberedPut DEF DataOK
    <3>5. Route(Append(outbox, m), auth, r.uid)
      BY <2>4, <2>7, <3>2, RouteTold DEF LinkInv
    <3>6. Route(outbox', auth, r.uid)
      BY <2>4, <2>5, <3>1, <3>2, <3>5, RouteOther
    <3>7. ASSUME NEW u \in Accounts, Leaving(u)' PROVE Going(u, outbox', Erased(u))
      <4>1. Going(u, outbox, Erased(u)) /\ ~PutTo(m, u) /\ ~PutTo(p, u)
        BY <2>3, <2>5, <3>7 DEF LinkInv
      <4>2. Going(u, Append(outbox, m), Erased(u))
        BY <2>4, <3>2, <4>1, GoingTold
      <4> QED
        BY <2>4, <3>1, <3>2, <4>1, <4>2, GoingTold
    <3> QED
      BY <2>6, <2>7, <3>4, <3>6, <3>7 DEF LinkInv
  <2>8. CASE link # "up"
    <3>1. outbox' = outbox /\ Early /\ (link = "token" => token' = r.uid)
      BY <2>2, <2>3, <2>8 DEF BecomeUser, Sending, LinkInv, Early
    <3>2. Early'
      <4> HIDE DEF p
      <4> QED
        BY <2>2, <2>5, <2>6, <3>1 DEF Early
    <3>3. \A u \in Accounts : ~Leaving(u)'
      BY <2>3, <2>8 DEF LinkInv
    <3>4. Numbered(outbox', inbox', puts', putCounter')
      <4>1. outbox' = <<>> /\ inbox' = <<>> /\ \A q \in puts : q.n < putCounter
        BY <2>6, <3>1 DEF Early, LinkInv, Numbered
      <4>2. \A q \in puts : q.n \in Nat
        BY <1>1 DEF DataOK, Put
      <4>3. putCounter \in Nat
        BY <1>1 DEF DataOK
      <4> HIDE DEF p
      <4>4. \A q \in puts' : q.n < putCounter'
        BY <2>5, <2>6, <4>1, <4>2, <4>3
      <4> QED
        BY <4>1, <4>4 DEF Numbered
    <3> QED
      BY <2>6, <2>8, <3>2, <3>3, <3>4 DEF LinkInv
  <2> QED
    BY <2>7, <2>8
<1> QED
  BY <1>2, <1>4, <1>5, <1>6, <1>7

\* The main queue: a fetch listens, and shows nothing before the first connection.
LEMMA LinkMain ==
    ASSUME PatientInv, LinkInv, MainStep
    PROVE  LinkInv'
<1>1. AppOK /\ DataOK
  BY DEF PatientInv, StackInv
<1>2. /\ UNCHANGED <<user, link, token, drops, puts, putCounter, cached, inbox, auth, heard>>
      /\ \A u \in Accounts : Erased(u)' = Erased(u) /\ (Leaving(u)' => Leaving(u))
  BY DEF MainStep, RunFetch, RunEvent, authVars, askVars, linkVars, serverVars, Erased, Leaving
<1> SUFFICES ASSUME drops = 0 PROVE LinkInv'
  BY <1>2 DEF LinkInv
<1>3. CASE RunEvent
  <2>1. link = "up" /\ outbox' = outbox
    BY <1>3 DEF RunEvent, LinkInv, Early
  <2> QED
    BY <1>2, <2>1 DEF LinkInv
<1>4. CASE RunFetch
  <2>1. loaded' = loaded
    BY <1>4 DEF RunFetch
  <2>2. CASE link # "up"
    <3>1. Early /\ outbox' = outbox
      BY <1>4, <2>2 DEF RunFetch, Sending, LinkInv
    <3>2. \A u \in Accounts : ~Complete(u, {}, puts) /\ ~Complete(u, cached, puts)
      BY <3>1 DEF Early, Complete, Replaced, Whole
    <3>3. due' = due
      <4>1. CASE user = Nobody /\ UNCHANGED <<listening, due, outbox>>
        BY <4>1
      <4>2. CASE user \in listening /\ due' = due \o Callback(user, cached, cache, puts)
        <5>1. Callback(user, cached, cache, puts) = <<>> /\ due = <<>>
          BY <1>1, <3>1, <3>2, <4>2 DEF Callback, DataOK, Early
        <5> QED
          BY <4>2, <5>1
      <4>3. CASE /\ user \in Accounts \ listening
                 /\ due' = IF Complete(user, {}, puts) THEN Append(due, View(user, cache, puts)) ELSE due
        BY <3>2, <4>3
      <4> QED
        BY <1>4, <4>1, <4>2, <4>3 DEF RunFetch
    <3> QED
      BY <1>2, <2>1, <2>2, <3>1, <3>3 DEF LinkInv, Early
  <2>3. CASE link = "up" /\ outbox' = outbox
    BY <1>2, <2>3 DEF LinkInv
  <2>4. CASE link = "up" /\ user \in Accounts /\ outbox' = Sending(<<[kind |-> "listen", uid |-> user]>>)
    <3> DEFINE m == [kind |-> "listen", uid |-> user]
    <3>1. m \in Message /\ m.kind = "listen" /\ ~IsPut(m) /\ \A u \in Accounts : ~PutTo(m, u)
      BY <2>4 DEF Message, IsPut, PutTo, PutKinds
    <3>2. outbox' = Append(outbox, m) /\ outbox \in Seq(Message)
      BY <1>1, <2>4, <3>1, SendOne DEF DataOK
    <3> HIDE DEF m
    <3>3. Numbered(outbox', inbox, puts, putCounter)
      BY <1>1, <3>1, <3>2, NumberedTold DEF LinkInv, DataOK
    <3>4. Route(outbox', auth, user)
      BY <2>4, <3>1, <3>2, RouteOther DEF LinkInv
    <3>5. ASSUME NEW u \in Accounts, Leaving(u)' PROVE Going(u, outbox', Erased(u))
      BY <1>2, <3>1, <3>2, <3>5, GoingTold DEF LinkInv
    <3> QED
      BY <1>2, <2>4, <3>3, <3>4, <3>5 DEF LinkInv
  <2> QED
    BY <1>4, <2>2, <2>3, <2>4 DEF RunFetch
<1> QED
  BY <1>3, <1>4 DEF MainStep

\* The first connection: the current user is told of, if there is one, then the
\* listens and the puts of userInfo go out.
LEMMA LinkRestore ==
    ASSUME AppOK, DataOK, LinkInv, drops = 0, restoreState
    PROVE  LinkInv'
<1>1. Early /\ link = "token" /\ token = user /\ link' = "up"
      /\ UNCHANGED <<user, drops, puts, putCounter, inbox, auth, diary, info, status, requests>>
  BY DEF restoreState, LinkInv, Early, appVars, authVars, askVars, clientVars, serverVars
<1>2. PICK ls \in Orders(listening), ps \in Orders(puts) :
         /\ \A i, j \in DOMAIN ps : i < j => ps[i].n < ps[j].n
         /\ outbox' = (IF token = Nobody THEN <<>> ELSE <<[kind |-> "auth", uid |-> token]>>)
                         \o [i \in DOMAIN ls |-> [kind |-> "listen", uid |-> ls[i]]] \o ps
  BY DEF restoreState
<1>3. ls \in Seq(listening) /\ ps \in Seq(puts)
  BY <1>2, OrdersTyped DEF DataOK
<1> DEFINE a == IF token = Nobody THEN <<>> ELSE <<[kind |-> "auth", uid |-> token]>>
<1> DEFINE b == [i \in DOMAIN ls |-> [kind |-> "listen", uid |-> ls[i]]]
<1>4. a \in Seq(Message) /\ b \in Seq(Message) /\ ps \in Seq(Message)
  BY <1>3, RestoreTyped
<1>5. \A i \in 1 .. Len(b) : b[i].kind = "listen"
  BY <1>3
<1>6. \A i \in 1 .. Len(ps) : ps[i] \in puts /\ ps[i].kind = "userInfo" /\ ps[i].n \in Nat
  BY <1>1, <1>3 DEF Early, DataOK, Put
<1>7. /\ token = Nobody => Len(a) = 0
      /\ token # Nobody => Len(a) = 1 /\ a[1].kind = "auth" /\ a[1].uid = token
  OBVIOUS
<1>8. DOMAIN ps = 1 .. Len(ps)
  BY <1>3
<1> DEFINE t == a \o b \o ps
<1>9. t \in Seq(Message) /\ outbox' = t
  BY <1>2, <1>4
<1> DEFINE h == Len(a) + Len(b)
<1>10. /\ Len(a) \in Nat /\ Len(b) \in Nat /\ Len(ps) \in Nat /\ Len(t) = h + Len(ps)
       /\ \A i \in 1 .. Len(a) : t[i] = a[i]
       /\ \A i \in Len(a) + 1 .. h : t[i] = b[i - Len(a)]
       /\ \A i \in h + 1 .. Len(t) : t[i] = ps[i - h]
  <2>1. /\ a \o b \in Seq(Message) /\ Len(a \o b) = h /\ Len(a) \in Nat /\ Len(b) \in Nat /\ Len(ps) \in Nat
        /\ \A i \in 1 .. h : (a \o b)[i] = IF i <= Len(a) THEN a[i] ELSE b[i - Len(a)]
    <3> HIDE DEF a, b
    <3> QED
      BY <1>4, ConcatProperties
  <2>2. Len(t) = h + Len(ps) /\ \A i \in 1 .. h + Len(ps) : t[i] = IF i <= h THEN (a \o b)[i] ELSE ps[i - h]
    <3> HIDE DEF a, b
    <3> QED
      BY <1>4, <2>1, ConcatProperties
  <2> HIDE DEF t, a, b
  <2>3. PICK x, y, z \in Nat : x = Len(a) /\ y = Len(b) /\ z = Len(ps)
    BY <2>1
  <2> QED
    BY <2>1, <2>2, <2>3
<1> HIDE DEF t, a, b
<1>11. PICK x, y, z \in Nat : x = Len(a) /\ y = Len(b) /\ z = Len(ps)
  BY <1>10
<1>12. \A i \in 1 .. Len(t) : i \in 1 .. x \/ i \in x + 1 .. h \/ i \in h + 1 .. Len(t)
  BY <1>10, <1>11
<1>13. \A i \in x + 1 .. h : t[i].kind = "listen"
  <2>1. \A i \in x + 1 .. h : i - x \in 1 .. Len(b)
    BY <1>11
  <2> QED
    BY <1>5, <1>10, <1>11, <2>1
<1>14. \A i \in h + 1 .. Len(t) : i - h \in 1 .. Len(ps) /\ t[i] = ps[i - h] /\ t[i] \in puts
                                  /\ t[i].kind = "userInfo"
  BY <1>6, <1>10, <1>11
<1>15. x \in {0, 1} /\ \A i \in 1 .. x : i = 1 /\ t[1] = a[1] /\ t[1].kind = "auth" /\ t[1].uid = token
  BY <1>7, <1>10, <1>11
<1>16. \A i \in 1 .. Len(t) : t[i].kind # "remove" /\ (IsPut(t[i]) => i \in h + 1 .. Len(t))
                              /\ (t[i].kind = "auth" => i \in 1 .. x)
  BY <1>12, <1>13, <1>14, <1>15 DEF IsPut, PutKinds
<1>17. Route(t, Nobody, user)
  <2>1. PICK l \in Nat : l = Len(t)
    BY <1>10
  <2>2. InForce(user, l + 1, t, Nobody)
    <3>1. CASE token = Nobody
      <4>1. \A i \in 1 .. (l + 1) - 1 : t[i].kind # "auth"
        BY <1>7, <1>11, <1>16, <2>1, <3>1
      <4> QED
        BY <1>1, <3>1, <4>1 DEF InForce
    <3>2. CASE token # Nobody
      <4>1. x = 1 /\ l > 0
        BY <1>7, <1>10, <1>11, <2>1, <3>2
      <4>2. 1 \in 1 .. (l + 1) - 1 /\ t[1].kind = "auth" /\ t[1].uid = user
        BY <1>1, <1>15, <4>1
      <4>3. \A i \in 1 + 1 .. (l + 1) - 1 : t[i].kind # "auth"
        BY <1>16, <2>1, <4>1
      <4> QED
        BY <4>2, <4>3 DEF InForce
    <3> QED
      BY <3>1, <3>2
  <2> QED
    BY <1>16, <2>1, <2>2 DEF Route
<1>18. Numbered(t, <<>>, puts, putCounter)
  <2>1. \A p \in puts : p.n < putCounter
    BY DEF LinkInv, Numbered
  <2>2. ASSUME NEW i \in 1 .. Len(t), NEW j \in 1 .. Len(t), IsPut(t[i]), IsPut(t[j]), t[i].n = t[j].n
        PROVE  i = j
    <3>1. i \in h + 1 .. Len(t) /\ j \in h + 1 .. Len(t)
      BY <1>16, <2>2
    <3>2. PICK c, d \in 1 .. Len(ps) : c = i - h /\ d = j - h
      BY <1>14, <3>1
    <3>3. ps[c].n = ps[d].n /\ ps[c].n \in Nat /\ ps[d].n \in Nat
      BY <1>6, <1>14, <2>2, <3>1, <3>2
    <3>4. (c < d => ps[c].n < ps[d].n) /\ (d < c => ps[d].n < ps[c].n)
      BY <1>2, <1>8, <3>2
    <3>5. ~(c < d) /\ ~(d < c)
      <4>1. \A e \in Nat : ~(e < e)
        OBVIOUS
      <4> QED
        BY <3>3, <3>4, <4>1
    <3> QED
      BY <1>11, <3>2, <3>5
  <2>3. \A i \in 1 .. Len(t) : IsPut(t[i]) => t[i] \in puts
    BY <1>14, <1>16
  <2> QED
    BY <2>1, <2>2, <2>3 DEF Numbered
<1>19. \A u \in Accounts : ~Leaving(u)'
  BY <1>1 DEF LinkInv, Leaving
<1> QED
  BY <1>1, <1>9, <1>17, <1>18, <1>19 DEF LinkInv, Early

\* The server takes messages in the order they were sent.
LEMMA LinkServe ==
    ASSUME DataOK, LinkInv, drops = 0, Serve
    PROVE  LinkInv'
<1> DEFINE m == Head(outbox)
<1>1. outbox # <<>> /\ outbox \in Seq(Message) /\ inbox \in Seq(Reply)
  BY DEF Serve, DataOK
<1>2. m \in Message /\ outbox' = Tail(outbox)
      /\ UNCHANGED <<user, link, drops, puts, putCounter, status, requests>>
  BY <1>1, HeadTyped
  DEF Serve, Served, ServeAuth, ServeListen, ServePut, appVars, authVars, askVars, clientVars, linkVars
<1>3. link = "up" /\ Numbered(outbox, inbox, puts, putCounter) /\ Route(outbox, auth, user)
      /\ link' = "up" /\ drops' = 0
  BY <1>1, <1>2 DEF LinkInv, Early
<1>4. \A u \in Accounts : (Leaving(u)' => Leaving(u)) /\ (Leaving(u) => Going(u, outbox, Erased(u)))
  BY <1>2 DEF LinkInv, Leaving
<1>5. /\ Numbered(outbox', inbox, puts, putCounter)
      /\ IsPut(m) => m \in puts
      /\ IsPut(m) => \A i \in 1 .. Len(outbox') : IsPut(outbox'[i]) => outbox'[i].n # m.n
  BY <1>1, <1>2, <1>3, NumberedTaken
<1>6. ASSUME NEW x, IF m.kind = "auth" THEN x = m.uid ELSE x = auth
      PROVE  Route(outbox', x, user) /\ (m.kind = "remove" => auth = m.uid)
  <2>1. IF Head(outbox).kind = "auth" THEN x = Head(outbox).uid ELSE x = auth
    BY <1>6
  <2> QED
    BY <1>1, <1>2, <1>3, <2>1, RouteTaken
<1>7. ASSUME NEW u \in Accounts, Leaving(u)',
             IF PutTo(m, u) THEN Removes(m, u) => Erased(u)' ELSE Erased(u)' = Erased(u)
      PROVE  Going(u, outbox', Erased(u)')
  <2>1. Going(u, outbox, Erased(u))
    BY <1>4, <1>7
  <2> QED
    BY <1>1, <1>2, <1>7, <2>1, GoingTaken
<1> HIDE DEF m
<1>8. CASE ServeAuth(m)
  <2>1. m.kind = "auth" /\ auth' = m.uid /\ inbox' = inbox
        /\ \A u \in Accounts : Erased(u)' = Erased(u) /\ ~PutTo(m, u)
    BY <1>8 DEF ServeAuth, Served, Erased, PutTo, IsPut, PutKinds
  <2>2. Route(outbox', auth', user)
    BY <1>6, <2>1
  <2>3. \A u \in Accounts : Leaving(u)' => Going(u, outbox', Erased(u)')
    BY <1>7, <2>1
  <2> QED
    BY <1>2, <1>3, <1>5, <2>1, <2>2, <2>3 DEF LinkInv
<1>9. CASE ServeListen(m)
  <2>1. m.kind = "listen" /\ auth' = auth
        /\ \A u \in Accounts : Erased(u)' = Erased(u) /\ ~PutTo(m, u)
    BY <1>9 DEF ServeListen, Served, Erased, PutTo, IsPut, PutKinds
  <2>2. Route(outbox', auth', user)
    BY <1>6, <2>1
  <2>3. \A u \in Accounts : Leaving(u)' => Going(u, outbox', Erased(u)')
    BY <1>7, <2>1
  <2>4. PICK x : inbox' = Append(inbox, x) /\ x \in Reply /\ ~IsAck(x)
    <3>1. m.uid \in Accounts
      BY <1>2, <2>1 DEF Message, Put, PutKinds
    <3>2. [kind |-> "value", uid |-> m.uid, dreams |-> diary[m.uid]] \in Reply
          /\ ~IsAck([kind |-> "value", uid |-> m.uid, dreams |-> diary[m.uid]])
      BY <3>1 DEF Reply, IsAck, DataOK
    <3>3. [kind |-> "revoked", uid |-> m.uid] \in Reply /\ ~IsAck([kind |-> "revoked", uid |-> m.uid])
      BY <3>1 DEF Reply, IsAck
    <3> QED
      BY <1>9, <3>2, <3>3 DEF ServeListen
  <2>5. Numbered(outbox', inbox', puts, putCounter)
    BY <1>1, <1>5, <2>4, NumberedReply
  <2> QED
    BY <1>2, <1>3, <2>2, <2>3, <2>5 DEF LinkInv
<1>10. CASE ServePut(m)
  <2>1. IsPut(m) /\ m.kind # "auth" /\ auth' = auth /\ m \in Put
    BY <1>2, <1>10 DEF ServePut, Served, IsPut, PutKinds, Message
  <2>2. m.uid \in Accounts /\ m.n \in Nat /\ m.dreams \in SUBSET Accounts
    BY <2>1 DEF Put
  <2>3. Route(outbox', auth', user) /\ (m.kind = "remove" => auth = m.uid)
    BY <1>6, <2>1
  <2>4. ASSUME NEW u \in Accounts, Leaving(u)' PROVE Going(u, outbox', Erased(u)')
    <3>1. CASE PutTo(m, u)
      <4>1. ASSUME Removes(m, u) PROVE Erased(u)'
        <5>1. m.uid = u /\ Allowed(m.uid)
          BY <2>3, <4>1 DEF Removes, PutTo, Allowed
        <5>2. m.dreams = {} /\ m.kind = "remove"
          BY <4>1 DEF Removes
        <5>3. diary'[u] = DreamsAfter(diary[u], m) /\ info'[u] = InfoAfter(info[u], m)
          BY <1>10, <5>1 DEF ServePut, DataOK
        <5> QED
          BY <5>2, <5>3 DEF DreamsAfter, InfoAfter, Whole, Erased
      <4> QED
        BY <1>7, <2>4, <3>1, <4>1
    <3>2. CASE ~PutTo(m, u)
      <4>1. m.uid # u
        BY <2>1, <3>2 DEF PutTo
      <4>2. diary'[u] = diary[u] /\ info'[u] = info[u]
        BY <1>10, <4>1 DEF ServePut, DataOK
      <4> QED
        BY <1>7, <2>4, <3>2, <4>2 DEF Erased
    <3> QED
      BY <3>1, <3>2
  <2>5. PICK x : inbox' = Append(inbox, x) /\ x \in Reply /\ x.n = m.n
    <3>1. DreamsAfter(diary[m.uid], m) \in SUBSET Accounts
      BY <2>2 DEF DreamsAfter, DataOK
    <3>2. PutReply("ok", m, DreamsAfter(diary[m.uid], m)) \in Reply /\ PutReply("denied", m, {}) \in Reply
      BY <2>2, <3>1 DEF PutReply, Reply
    <3>3. PutReply("ok", m, DreamsAfter(diary[m.uid], m)).n = m.n /\ PutReply("denied", m, {}).n = m.n
      BY DEF PutReply
    <3> QED
      BY <1>10, <3>2, <3>3 DEF ServePut
  <2>6. m.n < putCounter
    BY <1>3, <1>5, <2>1 DEF Numbered
  <2>7. Numbered(outbox', inbox', puts, putCounter)
    BY <1>1, <1>5, <2>1, <2>5, <2>6, NumberedReply
  <2> QED
    BY <1>2, <1>3, <2>3, <2>4, <2>7 DEF LinkInv
<1> QED
  BY <1>8, <1>9, <1>10 DEF Serve, m

\* The client receives.
LEMMA LinkReceive ==
    ASSUME DataOK, LinkInv, drops = 0, Receive
    PROVE  LinkInv'
<1> DEFINE m == Head(inbox)
<1>1. inbox # <<>> /\ inbox \in Seq(Reply) /\ inbox' = Tail(inbox)
      /\ UNCHANGED <<user, link, drops, status, requests, outbox, auth, diary, info, putCounter>>
  BY DEF Receive, DataOK, Received, onDataUpdate, onListenRevoked, onPutDone, onPutDenied,
         appVars, authVars, askVars, linkVars, serverVars
<1>2. link = "up" /\ Numbered(outbox, inbox, puts, putCounter) /\ Route(outbox, auth, user)
  BY <1>1 DEF LinkInv, Early
<1>3. /\ Numbered(outbox, inbox', puts, putCounter)
      /\ IsAck(m) => Numbered(outbox, inbox', {p \in puts : p.n # m.n}, putCounter)
  BY <1>1, <1>2, NumberedDone
<1>4. puts' = puts \/ (IsAck(m) /\ puts' = {p \in puts : p.n # m.n})
  BY DEF Receive, Received, onDataUpdate, onListenRevoked, onPutDone, onPutDenied, IsAck
<1>5. Numbered(outbox', inbox', puts', putCounter')
  <2> HIDE DEF m
  <2> QED
    BY <1>1, <1>3, <1>4
<1>6. \A u \in Accounts : Erased(u)' = Erased(u) /\ (Leaving(u)' => Leaving(u))
  BY <1>1 DEF Erased, Leaving
<1> QED
  BY <1>1, <1>2, <1>5, <1>6 DEF LinkInv

\* Every step of the link.
LEMMA LinkLink ==
    ASSUME PatientInv, LinkInv, LinkStep
    PROVE  LinkInv'
<1>1. AppOK /\ DataOK
  BY DEF PatientInv, StackInv
<1>2. CASE onDisconnect
  <2>1. drops' # 0
    BY <1>1, <1>2 DEF onDisconnect, DataOK
  <2> QED
    BY <2>1 DEF LinkInv
<1>3. CASE tryScheduleReconnect
  <2>1. /\ link = "down" /\ link' = "token" /\ token' = user
        /\ UNCHANGED <<user, drops, puts, putCounter, cached, due, outbox, inbox, auth, heard, loaded,
                       status, requests>>
    BY <1>3 DEF tryScheduleReconnect, appVars, authVars, screenVars, askVars, clientVars, serverVars
  <2>2. \A u \in Accounts : Leaving(u)' => Leaving(u)
    BY <2>1 DEF Leaving
  <2> QED
    BY <2>1, <2>2 DEF LinkInv, Early
<1>4. ASSUME drops' = 0, ~onDisconnect PROVE drops = 0
  BY <1>4 DEF LinkStep, Reconnect, tryScheduleReconnect, restoreState, Serve, Served, ServeAuth,
              ServeListen, ServePut, Revoke, Receive, Received, onDataUpdate, onListenRevoked,
              onPutDone, onPutDenied, linkVars
<1> SUFFICES ASSUME drops = 0 PROVE LinkInv'
  BY <1>2, <1>4 DEF LinkInv
<1>5. ASSUME NEW v \in Accounts, Revoke(v) PROVE LinkInv'
  <2>1. /\ inbox' = Append(inbox, [kind |-> "revoked", uid |-> v])
        /\ UNCHANGED <<user, link, token, drops, puts, putCounter, outbox, auth, diary, info, status, requests>>
    BY <1>5 DEF Revoke, appVars, authVars, askVars, clientVars, linkVars
  <2>2. link = "up"
    BY <1>5 DEF Revoke, LinkInv, Early
  <2>3. [kind |-> "revoked", uid |-> v] \in Reply /\ ~IsAck([kind |-> "revoked", uid |-> v])
    BY DEF Reply, IsAck
  <2>4. Numbered(outbox, inbox', puts, putCounter)
    BY <1>1, <2>1, <2>3, NumberedReply DEF LinkInv, DataOK
  <2>5. \A u \in Accounts : Erased(u)' = Erased(u) /\ (Leaving(u)' => Leaving(u))
    BY <2>1 DEF Erased, Leaving
  <2> QED
    BY <2>1, <2>2, <2>4, <2>5 DEF LinkInv
<1> QED
  BY <1>1, <1>2, <1>3, <1>5, LinkRestore, LinkServe, LinkReceive DEF LinkStep, Reconnect

\* With a user who waits for Auth, for the diary and for what is to be shown of
\* it, and as long as the connection lasts: when Auth has deleted an account, the
\* put that removes its data has been obeyed, or is still to be answered.
THEOREM NothingOrphaned == WaitAuth /\ WaitLoad /\ WaitShown => (Spec => []NoOrphanData)
<1> SUFFICES ASSUME WaitAuth, WaitLoad, WaitShown PROVE Spec => []NoOrphanData
  OBVIOUS
<1> DEFINE Inv == PatientInv /\ LinkInv
<1>1. Init => Inv
  <2> SUFFICES ASSUME Init PROVE LinkInv
    BY PatientInit
  <2>1. Early /\ link = "down" /\ Numbered(outbox, inbox, puts, putCounter)
    BY DEF Init, Early, Numbered
  <2>2. \A u \in Accounts : ~Leaving(u)
    BY DEF Init, Leaving
  <2> QED
    BY <2>1, <2>2 DEF LinkInv
<1>2. ASSUME Inv, [Next]_vars PROVE Inv'
  <2>1. PatientInv'
    BY <1>2, PatientNext
  <2>2. ASSUME AuthStateDidChange \/ UNCHANGED vars PROVE LinkInv'
    <3>1. UNCHANGED <<dataVars, user, status, requests>> /\ (loaded' => loaded)
      BY <2>2, PresentLoads DEF AuthStateDidChange, vars, appVars, authVars, askVars, screenVars
    <3>2. \A u \in Accounts : Leaving(u)' => Leaving(u)
      BY <3>1 DEF Leaving
    <3> QED
      BY <1>2, <3>1, <3>2, StillLinked
  <2> QED
    BY <1>2, <2>1, <2>2, LinkUser, LinkAnswer, LinkMain, LinkLink DEF Next
<1>3. Inv /\ [Next]_vars => Inv'
  BY <1>2
<1>4. ASSUME Inv PROVE NoOrphanData
  <2> SUFFICES ASSUME NEW u \in Accounts, status[u] = "gone", drops = 0, ~Erased(u)
               PROVE  \E p \in puts : p.uid = u /\ p.kind = "remove"
    BY DEF NoOrphanData
  <2>1. Going(u, outbox, Erased(u)) /\ Numbered(outbox, inbox, puts, putCounter)
    BY <1>4 DEF LinkInv, Leaving
  <2>2. PICK i \in 1 .. Len(outbox) : Removes(outbox[i], u)
    BY <2>1 DEF Going
  <2>3. outbox[i] \in puts /\ outbox[i].uid = u /\ outbox[i].kind = "remove"
    BY <2>1, <2>2 DEF Numbered, Removes, PutTo
  <2> QED
    BY <2>3
<1>5. Inv => NoOrphanData
  BY <1>4
<1> QED
  BY <1>1, <1>3, <1>5, PTL DEF Spec
=============================================================================
