-------------------------- MODULE DreamSyncProofs ---------------------------
(***************************************************************************)
(* Proofs about DreamSync.  For any devices, dates, bodies and bounds: its *)
(* type invariant, and that a settled device shows what the database holds.*)
(* For one device: what the server sends changes nothing on the screens.   *)
(* For one device and a patient user: the diary stays an array, the forced *)
(* cast never fails, and nothing is lost but what the user agreed to.      *)
(***************************************************************************)
EXTENDS DreamSync, DreamsProofs

-----------------------------------------------------------------------------
(* What the client's operators return. *)

\* A key that some pending write covers has a last such write.
LEMMA LastCoverExists ==
    ASSUME NEW p \in Seq(Write), NEW k, \E i \in DOMAIN p : Covers(p[i], k)
    PROVE  \E i \in DOMAIN p : LastCover(p, k, i)
<1> DEFINE I == {i \in DOMAIN p : Covers(p[i], k)}
<1>1. I \in SUBSET (1 .. Len(p)) /\ I # {} /\ Len(p) \in Nat
  OBVIOUS
<1>2. PICK i \in I : \A j \in I : j <= i
  BY <1>1, LastPosition
<1>3. \A j \in DOMAIN p : j > i => j \notin I
  BY <1>1, <1>2
<1> QED
  BY <1>3 DEF LastCover

\* A write puts a dream or nothing.
LEMMA PutType ==
    ASSUME NEW w \in Write
    PROVE  Put(w) \in Dream \cup {None}
BY DEF Put, Write, RemoveCall

\* A write takes a node to a node.
LEMMA ApplyType ==
    ASSUME NEW n \in Node, NEW w \in Write
    PROVE  Apply(n, w) \in Node
BY PutType DEF Apply, Node

\* What the device shows is a node, or not known yet.
LEMMA VisibleType ==
    ASSUME NEW c \in Node \cup {Unknown}, NEW p \in Seq(Write)
    PROVE  Visible(c, p) \in Node \cup {Unknown}
<1>1. CASE c = Unknown /\ \A i \in DOMAIN p : p[i].op # "remove"
  BY <1>1 DEF Visible
<1>2. CASE ~(c = Unknown /\ \A i \in DOMAIN p : p[i].op # "remove")
  <2> DEFINE V(k) == IF \E i \in DOMAIN p : Covers(p[i], k)
                     THEN Put(p[CHOOSE i \in DOMAIN p : LastCover(p, k, i)])
                     ELSE c[k]
  <2>1. Visible(c, p) = [k \in Keys |-> V(k)]
    BY <1>2 DEF Visible
  <2>2. ASSUME NEW k \in Keys
        PROVE  V(k) \in Dream \cup {None}
    <3>1. CASE \E i \in DOMAIN p : Covers(p[i], k)
      <4>1. (CHOOSE i \in DOMAIN p : LastCover(p, k, i)) \in DOMAIN p
        BY <3>1, LastCoverExists
      <4>2. p[CHOOSE i \in DOMAIN p : LastCover(p, k, i)] \in Write
        BY <4>1
      <4> QED
        BY <3>1, <4>2, PutType
    <3>2. CASE ~\E i \in DOMAIN p : Covers(p[i], k)
      <4>1. c # Unknown
        BY <1>2, <3>2 DEF Covers
      <4> QED
        BY <3>2, <4>1 DEF Node
    <3> QED
      BY <3>1, <3>2
  <2> HIDE DEF V
  <2> QED
    BY <2>1, <2>2 DEF Node
<1> QED
  BY <1>1, <1>2

\* Events are blocks of the main queue.
LEMMA RaiseEventsType ==
    ASSUME NEW old, NEW new \in Node \cup {Unknown}, NEW n \in Nat
    PROVE  raiseEvents(old, new, n) \in Seq(Block)
BY DEF raiseEvents, EventBlock, Block

\* updateAction makes calls for keys that exist.
LEMMA UpdateActionType ==
    ASSUME NEW s \in Seq(Dream), Len(s) <= MaxKey + 1
    PROVE  updateAction(s) \in Seq(Call)
<1> USE MaxKeyAssumption
<1>1. \A i \in 1 .. Len(s) : SetCall(i - 1, s[i]) \in Call
  BY DEF SetCall, Call, Write, Keys
<1>2. <<RemoveCall>> \in Seq(Call)
  BY DEF Call, Write
<1>3. [i \in 1 .. Len(s) |-> SetCall(i - 1, s[i])] \in Seq(Call)
  BY <1>1
<1> QED
  BY <1>2, <1>3 DEF updateAction
-----------------------------------------------------------------------------
(* Counting acknowledgements. *)

\* The positions of the acknowledgements in a sequence of messages are finite
\* in number.
LEMMA AcksFinite ==
    ASSUME NEW s \in Seq(Message)
    PROVE  IsFiniteSet(Acks(s)) /\ Cardinality(Acks(s)) \in Nat
<1>1. IsFiniteSet(1 .. Len(s))
  BY FS_Interval
<1>2. Acks(s) \subseteq 1 .. Len(s)
  BY DEF Acks
<1> QED
  BY <1>1, <1>2, FS_Subset, FS_CardinalityType

\* A value from the server adds no acknowledgement.
LEMMA AcksData ==
    ASSUME NEW s \in Seq(Message), NEW n \in Node
    PROVE  Acks(Append(s, [type |-> "data", node |-> n])) = Acks(s)
<1> DEFINE t == Append(s, [type |-> "data", node |-> n])
<1>1. /\ DOMAIN t = 1 .. Len(s) + 1
      /\ \A i \in 1 .. Len(s) : t[i] = s[i]
      /\ t[Len(s) + 1] = [type |-> "data", node |-> n]
  OBVIOUS
<1>2. t[Len(s) + 1].type # "ack"
  BY <1>1
<1> QED
  BY <1>1, <1>2 DEF Acks

\* The answer to a put adds one.
LEMMA AcksPut ==
    ASSUME NEW s \in Seq(Message), NEW n \in Node
    PROVE  Cardinality(Acks(s \o <<[type |-> "data", node |-> n], [type |-> "ack"]>>))
              = Cardinality(Acks(s)) + 1
<1> DEFINE t == s \o <<[type |-> "data", node |-> n], [type |-> "ack"]>>
<1>1. /\ DOMAIN t = 1 .. Len(s) + 2
      /\ \A i \in 1 .. Len(s) : t[i] = s[i]
      /\ t[Len(s) + 1] = [type |-> "data", node |-> n]
      /\ t[Len(s) + 2] = [type |-> "ack"]
  OBVIOUS
<1>2. t[Len(s) + 1].type = "data" /\ t[Len(s) + 2].type = "ack"
  BY <1>1
<1>3. Acks(t) = Acks(s) \cup {Len(s) + 2}
  BY <1>1, <1>2 DEF Acks
<1>4. Len(s) + 2 \notin Acks(s)
  BY DEF Acks
<1> QED
  BY <1>3, <1>4, AcksFinite, FS_AddElement

\* Taking the first message away removes one acknowledgement if it was one.
LEMMA AcksTail ==
    ASSUME NEW s \in Seq(Message), s # <<>>
    PROVE  Cardinality(Acks(Tail(s)))
              = IF Head(s).type = "ack" THEN Cardinality(Acks(s)) - 1
                                        ELSE Cardinality(Acks(s))
<1> DEFINE A == Acks(s) \ {1}
           B == Acks(Tail(s))
           f == [i \in B |-> i + 1]
<1>1. /\ DOMAIN s = 1 .. Len(s) /\ Len(s) \in Nat \ {0}
      /\ DOMAIN Tail(s) = 1 .. Len(s) - 1
      /\ \A i \in 1 .. Len(s) - 1 : Tail(s)[i] = s[i + 1]
      /\ Head(s) = s[1]
  OBVIOUS
<1>2. f \in [B -> A]
  BY <1>1 DEF Acks
<1>3. \A a \in A : a - 1 \in B /\ f[a - 1] = a
  BY <1>1 DEF Acks
<1>4. f \in Bijection(B, A)
  <2>1. \A a, b \in DOMAIN f : f[a] = f[b] => a = b
    BY <1>1 DEF Acks
  <2>2. \A a \in A : \E b \in B : f[b] = a
    BY <1>3
  <2> HIDE DEF f, A, B
  <2> QED
    BY <1>2, <2>1, <2>2 DEF Bijection, Injection, Surjection, IsInjective
<1>5. IsFiniteSet(B) /\ IsFiniteSet(Acks(s))
  <2>1. Tail(s) \in Seq(Message)
    OBVIOUS
  <2> QED
    BY <2>1, AcksFinite
<1>6. Cardinality(A) = Cardinality(B)
  <2>1. ExistsBijection(B, A)
    BY <1>4 DEF ExistsBijection
  <2> HIDE DEF A, B
  <2> QED
    BY <1>5, <2>1, FS_Bijection
<1>7. 1 \in Acks(s) <=> Head(s).type = "ack"
  BY <1>1 DEF Acks
<1>8. Cardinality(A) = IF 1 \in Acks(s) THEN Cardinality(Acks(s)) - 1 ELSE Cardinality(Acks(s))
  BY <1>5, FS_RemoveElement
<1> QED
  BY <1>6, <1>7, <1>8
-----------------------------------------------------------------------------
(* Type correctness.  TypeOK alone is not inductive: an acknowledgement    *)
(* takes the first pending write away and lowers the count of applied puts,*)
(* which only AcksMatch keeps from being empty and zero.                   *)

\* The initial states have the right types, with nothing in flight.
LEMMA InitType == Init => TypeOK /\ AcksMatch
<1> SUFFICES ASSUME Init PROVE TypeOK /\ AcksMatch
  OBVIOUS
<1> USE MaxKeyAssumption
<1>1. TypeOK
  BY DEF Init, TypeOK, NoAlert, Alert, Bounds, Present, Node
<1>2. AcksMatch
  <2>1. Cardinality(Acks(<<>>)) = 0
    BY FS_EmptySet DEF Acks
  <2>2. \A e \in Devices : applied[e] = 0 /\ down[e] = <<>> /\ pending[e] = <<>>
    BY DEF Init
  <2> QED
    BY <2>1, <2>2 DEF AcksMatch
<1> QED
  BY <1>1, <1>2

TypeInv == TypeOK /\ AcksMatch

\* A tap stays within the types of its bound.
LEMMA TapType ==
    ASSUME TypeOK, NEW d, NEW b \in Bounds, NEW max, Tap(d, b, max)
    PROVE  used' \in [Bounds -> Nat]
<1>1. used \in [Bounds -> Nat] /\ used' = [used EXCEPT ![b] = @ + 1]
  BY DEF TypeOK, Tap
<1>2. used[b] + 1 \in Nat
  BY <1>1
<1> QED
  BY <1>1, <1>2

\* An alert about a dream carries one.
LEMMA AlertDream ==
    ASSUME NEW a \in Alert, a.asks = "delete" \/ a.asks = "replace"
    PROVE  a.dream \in Dream
<1>1. a # [asks |-> "deleteAll"] /\ a # [asks |-> "nothing"]
  OBVIOUS
<1>2. a \in [asks : {"delete", "replace"}, dream : Dream]
  BY <1>1 DEF Alert
<1> QED
  BY <1>2

\* The user's steps keep the types.
LEMMA UserType ==
    ASSUME TypeInv, NEW d \in Devices, UserStep(d)
    PROVE  TypeInv'
<1> USE MaxKeyAssumption DEF TypeInv
<1>1. CASE \E x \in Dream : DateCheckAndSave(d, x)
  <2>1. PICK x \in Dream : DateCheckAndSave(d, x)
    BY <1>1
  <2>2. SetCall(Len(container[d]), x) \in Call /\ [asks |-> "replace", dream |-> x] \in Alert
    BY <2>1 DEF DateCheckAndSave, TypeOK, SetCall, Call, Write, Keys, Alert
  <2>3. TypeOK'
    <3>1. used' \in [Bounds -> Nat]
      BY <2>1, TapType DEF DateCheckAndSave, Bounds
    <3>2. alert' \in [Devices -> Alert] /\ sharedQ' \in [Devices -> Seq(Call)]
      <4>1. \/ alert' = [alert EXCEPT ![d] = [asks |-> "replace", dream |-> x]] /\ sharedQ' = sharedQ
            \/ /\ sharedQ' = [sharedQ EXCEPT ![d] = Append(@, SetCall(Len(container[d]), x))]
               /\ alert' = alert
        BY <2>1 DEF DateCheckAndSave
      <4>2. /\ sharedQ \in [Devices -> Seq(Call)] /\ alert \in [Devices -> Alert]
            /\ sharedQ[d] \in Seq(Call)
        BY DEF TypeOK
      <4>3. Append(sharedQ[d], SetCall(Len(container[d]), x)) \in Seq(Call)
        BY <2>2, <4>2
      <4> QED
        BY <2>2, <4>1, <4>2, <4>3
    <3> QED
      BY <2>1, <3>1, <3>2 DEF DateCheckAndSave, TypeOK, sdkVars, netVars, histVars
  <2>4. AcksMatch'
    BY <2>1 DEF DateCheckAndSave, AcksMatch, sdkVars, netVars
  <2> QED
    BY <2>3, <2>4
<1>2. CASE ConfirmReplace(d)
  <2>1. alert[d].dream \in Dream
    BY <1>2, AlertDream DEF ConfirmReplace, Answer, TypeOK
  <2>2. SetCall(Len(container[d]), alert[d].dream) \in Call /\ NoAlert \in Alert
    BY <1>2, <2>1 DEF ConfirmReplace, TypeOK, SetCall, Call, Write, Keys, Alert, NoAlert
  <2>3. alert[d].dream.writedDate \in Dates
    BY <2>1 DEF Dream
  <2>4. TypeOK'
    BY <1>2, <2>2, <2>3 DEF ConfirmReplace, Answer, TypeOK, sdkVars, netVars
  <2>5. AcksMatch'
    BY <1>2 DEF ConfirmReplace, AcksMatch, sdkVars, netVars
  <2> QED
    BY <2>4, <2>5
<1>3. CASE \E i \in 1 .. MaxKey + 1 : AskDelete(d, i)
  <2>1. PICK i \in 1 .. MaxKey + 1 : AskDelete(d, i)
    BY <1>3
  <2>2. [asks |-> "delete", dream |-> container[d][i]] \in Alert
    BY <2>1 DEF AskDelete, TypeOK, Alert
  <2>3. TypeOK'
    <3>1. used' \in [Bounds -> Nat]
      BY <2>1, TapType DEF AskDelete, Bounds
    <3> QED
      BY <2>1, <2>2, <3>1 DEF AskDelete, Tap, TypeOK, sdkVars, netVars, histVars
  <2>4. AcksMatch'
    BY <2>1 DEF AskDelete, AcksMatch, sdkVars, netVars
  <2> QED
    BY <2>3, <2>4
<1>4. CASE ConfirmDelete(d)
  <2>1. alert[d].dream \in Dream /\ NoAlert \in Alert
    <3>1. alert[d] \in Alert /\ alert[d].asks = "delete"
      BY <1>4 DEF ConfirmDelete, Answer, TypeOK
    <3> QED
      BY <3>1, AlertDream DEF Alert, NoAlert
  <2>2. RemoveBlock(alert[d].dream) \in Block /\ alert[d].dream.writedDate \in Dates
    BY <2>1 DEF RemoveBlock, Block, Dream
  <2>3. TypeOK'
    BY <1>4, <2>1, <2>2 DEF ConfirmDelete, Answer, TypeOK, sdkVars, netVars
  <2>4. AcksMatch'
    BY <1>4 DEF ConfirmDelete, AcksMatch, sdkVars, netVars
  <2> QED
    BY <2>3, <2>4
<1>5. CASE AskDeleteAll(d)
  <2>1. [asks |-> "deleteAll"] \in Alert
    BY DEF Alert
  <2>2. TypeOK'
    <3>1. used' \in [Bounds -> Nat]
      BY <1>5, TapType DEF AskDeleteAll, Bounds
    <3> QED
      BY <1>5, <2>1, <3>1 DEF AskDeleteAll, Tap, TypeOK, sdkVars, netVars, histVars
  <2>3. AcksMatch'
    BY <1>5 DEF AskDeleteAll, AcksMatch, sdkVars, netVars
  <2> QED
    BY <2>2, <2>3
<1>6. CASE ConfirmDeleteAll(d)
  <2>1. RemoveAllBlock \in Block /\ NoAlert \in Alert
    BY DEF Block, Alert, NoAlert
  <2>2. TypeOK'
    BY <1>6, <2>1 DEF ConfirmDeleteAll, Answer, TypeOK, sdkVars, netVars
  <2>3. AcksMatch'
    BY <1>6 DEF ConfirmDeleteAll, AcksMatch, sdkVars, netVars
  <2> QED
    BY <2>2, <2>3
<1>7. CASE CancelAlert(d)
  <2>1. NoAlert \in Alert
    BY DEF Alert, NoAlert
  <2>2. TypeOK'
    BY <1>7, <2>1 DEF CancelAlert, Answer, TypeOK, sdkVars, netVars, histVars
  <2>3. AcksMatch'
    BY <1>7 DEF CancelAlert, AcksMatch, sdkVars, netVars
  <2> QED
    BY <2>2, <2>3
<1>8. CASE OpenSearch(d)
  <2>1. FetchBlock \in Block
    BY DEF Block
  <2>2. TypeOK'
    <3>1. used' \in [Bounds -> Nat]
      BY <1>8, TapType DEF OpenSearch, Bounds
    <3> QED
      BY <1>8, <2>1, <3>1 DEF OpenSearch, Tap, TypeOK, uiVars, sdkVars, netVars, histVars
  <2>3. AcksMatch'
    BY <1>8 DEF OpenSearch, AcksMatch, sdkVars, netVars
  <2> QED
    BY <2>2, <2>3
<1>9. CASE Refresh(d)
  <2>1. FetchBlock \in Block
    BY DEF Block
  <2>2. TypeOK'
    <3>1. used' \in [Bounds -> Nat]
      BY <1>9, TapType DEF Refresh, Bounds
    <3> QED
      BY <1>9, <2>1, <3>1, SMTT(30) DEF Refresh, Tap, TypeOK, sdkVars, netVars, histVars
  <2>3. AcksMatch'
    BY <1>9 DEF Refresh, AcksMatch, sdkVars, netVars
  <2> QED
    BY <2>2, <2>3
<1> QED
  BY <1>1, <1>2, <1>3, <1>4, <1>5, <1>6, <1>7, <1>8, <1>9 DEF UserStep
\* An event block carries a node.
LEMMA EventNode ==
    ASSUME NEW b \in Block, b.do = "event"
    PROVE  b.node \in Node
<1>1. b # FetchBlock /\ b # RemoveAllBlock
  BY DEF FetchBlock, RemoveAllBlock
<1>2. b \notin [do : {"remove"}, dream : Dream]
  OBVIOUS
<1>3. b \in [do : {"event"}, node : Node]
  BY <1>1, <1>2 DEF Block
<1> QED
  BY <1>3

\* The end of a process leaves its device with nothing in flight.
LEMMA EndType ==
    ASSUME TypeInv, NEW d \in Devices, End(d),
           UNCHANGED <<server, kept, asked>>,
           trapped' \in [Devices -> BOOLEAN], used' \in [Bounds -> Nat]
    PROVE  TypeInv'
<1> USE MaxKeyAssumption DEF TypeInv
<1>1. NoAlert \in Alert
  BY DEF Alert, NoAlert
<1>2. TypeOK'
  <2>1. \A S : <<>> \in Seq(S)
    OBVIOUS
  <2>2. /\ container' \in [Devices -> Seq(Dream)]
        /\ mainQ' \in [Devices -> Seq(Block)]
        /\ sharedQ' \in [Devices -> Seq(Call)]
        /\ pending' \in [Devices -> Seq(Write)]
        /\ down' \in [Devices -> Seq(Message)]
    BY <2>1 DEF End, TypeOK
  <2>3. \A e \in Devices : Len(container'[e]) <= MaxKey + 1
    BY DEF End, TypeOK
  <2>4. /\ app' \in [Devices -> {"on", "off"}]
        /\ alert' \in [Devices -> Alert]
        /\ observers' \in [Devices -> Nat]
        /\ cache' \in [Devices -> Node \cup {Unknown}]
        /\ link' \in [Devices -> {"lost", "open", "listening"}]
        /\ applied' \in [Devices -> Nat]
    BY <1>1 DEF End, TypeOK
  <2> QED
    BY <2>2, <2>3, <2>4 DEF TypeOK
<1>3. Cardinality(Acks(<<>>)) = 0
  BY FS_EmptySet DEF Acks
<1>4. AcksMatch'
  BY <1>3 DEF End, AcksMatch, TypeOK
<1> QED
  BY <1>2, <1>4
\* The start and the end of the process keep the types.
LEMMA ProcessType ==
    ASSUME TypeInv, NEW d \in Devices, Launch(d) \/ Kill(d)
    PROVE  TypeInv'
<1> USE MaxKeyAssumption DEF TypeInv
<1>1. CASE Launch(d)
  <2>1. <<FetchBlock>> \in Seq(Block)
    BY DEF Block
  <2>2. TypeOK'
    BY <1>1, <2>1 DEF Launch, TypeOK, sdkVars, netVars, histVars
  <2>3. AcksMatch'
    BY <1>1 DEF Launch, AcksMatch, sdkVars, netVars
  <2> QED
    BY <2>2, <2>3
<1>2. CASE Kill(d)
  <2>1. used' \in [Bounds -> Nat]
    <3>1. used \in [Bounds -> Nat] /\ used' = [used EXCEPT !["kills"] = @ + 1]
      BY <1>2 DEF TypeOK, Kill
    <3>2. "kills" \in Bounds
      BY DEF Bounds
    <3>3. used["kills"] + 1 \in Nat
      BY <3>1, <3>2
    <3> QED
      BY <3>1, <3>3
  <2>2. End(d) /\ UNCHANGED <<server, histVars>>
    BY <1>2 DEF Kill
  <2>3. trapped' \in [Devices -> BOOLEAN] /\ UNCHANGED <<server, kept, asked>>
    BY <2>2 DEF TypeOK, histVars
  <2> QED
    BY <2>1, <2>2, <2>3, EndType
<1> QED
  BY <1>1, <1>2

\* The blocks of the main queue keep the types.
LEMMA MainType ==
    ASSUME TypeInv, NEW d \in Devices, MainStep(d)
    PROVE  TypeInv'
<1> USE MaxKeyAssumption DEF TypeInv
<1>1. mainQ[d] # <<>> => Head(mainQ[d]) \in Block /\ Tail(mainQ[d]) \in Seq(Block)
  BY DEF TypeOK
<1>2. CASE RunFetch(d)
  <2>1. ObserveCall \in Call
    BY DEF Call
  <2>2. TypeOK'
    BY <1>1, <1>2, <2>1 DEF RunFetch, MainBlock, TypeOK, uiVars, sdkVars, netVars, histVars
  <2>3. AcksMatch'
    BY <1>2 DEF RunFetch, AcksMatch, sdkVars, netVars
  <2> QED
    BY <2>2, <2>3
<1>3. CASE RunEvent(d)
  <2>1. Head(mainQ[d]).node \in Node
    BY <1>1, <1>3, EventNode DEF RunEvent, MainBlock
  <2>2. PICK s \in Containers(Head(mainQ[d]).node) : container' = [container EXCEPT ![d] = s]
    BY <1>3 DEF RunEvent
  <2>3. s \in Seq(Dream) /\ Len(s) <= MaxKey + 1
    BY <1>3, <2>1, <2>2, ContainersType DEF RunEvent
  <2>4. TypeOK'
    BY <1>1, <1>3, <2>2, <2>3 DEF RunEvent, MainBlock, TypeOK, sdkVars, netVars, histVars
  <2>5. AcksMatch'
    BY <1>3 DEF RunEvent, AcksMatch, sdkVars, netVars
  <2> QED
    BY <2>4, <2>5
<1>4. CASE RunTrap(d)
  <2>1. trapped' \in [Devices -> BOOLEAN]
    BY <1>4 DEF RunTrap, TypeOK
  <2> QED
    BY <1>4, <2>1, EndType DEF RunTrap, TypeOK
<1>5. CASE RunRemove(d)
  <2>1. PICK s \in WithoutDate(container[d], Head(mainQ[d]).dream.writedDate) :
           /\ container' = [container EXCEPT ![d] = s]
           /\ sharedQ' = [sharedQ EXCEPT ![d] = @ \o updateAction(s)]
    BY <1>5 DEF RunRemove
  <2>2. s \in Seq(Dream) /\ Len(s) <= MaxKey + 1
    <3>1. container[d] \in Seq(Dream) /\ Len(container[d]) <= MaxKey + 1
      BY DEF TypeOK
    <3>2. s \in Seq(Dream) /\ Len(s) <= Len(container[d])
      BY <2>1, <3>1, WithoutDateType
    <3> QED
      BY <3>1, <3>2
  <2>3. updateAction(s) \in Seq(Call)
    BY <2>2, UpdateActionType
  <2>4. sharedQ' \in [Devices -> Seq(Call)]
    BY <2>1, <2>3 DEF TypeOK
  <2>5. TypeOK'
    BY <1>1, <1>5, <2>1, <2>2, <2>4 DEF RunRemove, MainBlock, TypeOK, sdkVars, netVars, histVars
  <2>6. AcksMatch'
    BY <1>5 DEF RunRemove, AcksMatch, sdkVars, netVars
  <2> QED
    BY <2>5, <2>6
<1>6. CASE RunRemoveAll(d)
  <2>1. updateAction(<<>>) \in Seq(Call)
    <3>1. <<>> \in Seq(Dream) /\ Len(<<>>) <= MaxKey + 1
      OBVIOUS
    <3> QED
      BY <3>1, UpdateActionType
  <2>2. sharedQ' \in [Devices -> Seq(Call)]
    BY <1>6, <2>1 DEF RunRemoveAll, TypeOK
  <2>3. TypeOK'
    <3>1. container' \in [Devices -> Seq(Dream)] /\ \A e \in Devices : Len(container'[e]) <= MaxKey + 1
      BY <1>6 DEF RunRemoveAll, TypeOK
    <3> QED
      BY <1>1, <1>6, <2>2, <3>1 DEF RunRemoveAll, MainBlock, TypeOK, sdkVars, netVars, histVars
  <2>4. AcksMatch'
    BY <1>6 DEF RunRemoveAll, AcksMatch, sdkVars, netVars
  <2> QED
    BY <2>3, <2>4
<1> QED
  BY <1>2, <1>3, <1>4, <1>5, <1>6 DEF MainStep
\* Telling the observers keeps the types of what the SDK holds.
LEMMA NotifyType ==
    ASSUME TypeOK, NEW d \in Devices, NEW c \in Node \cup {Unknown}, NEW p \in Seq(Write),
           Notify(d, c, p)
    PROVE  /\ cache' \in [Devices -> Node \cup {Unknown}]
           /\ pending' \in [Devices -> Seq(Write)]
           /\ mainQ' \in [Devices -> Seq(Block)]
           /\ observers' \in [Devices -> Nat]
<1> DEFINE ev == raiseEvents(Shown(d), Visible(c, p), observers[d])
<1>1. ev \in Seq(Block)
  <2>1. Visible(c, p) \in Node \cup {Unknown} /\ observers[d] \in Nat
    BY VisibleType DEF TypeOK
  <2> QED
    BY <2>1, RaiseEventsType
<1>2. mainQ' = [mainQ EXCEPT ![d] = @ \o ev]
  BY DEF Notify
<1>3. mainQ[d] \o ev \in Seq(Block)
  BY <1>1 DEF TypeOK
<1> HIDE DEF ev
<1>4. mainQ' \in [Devices -> Seq(Block)]
  BY <1>2, <1>3 DEF TypeOK
<1>5. /\ cache' = [cache EXCEPT ![d] = c]
      /\ pending' = [pending EXCEPT ![d] = p]
      /\ observers' = observers
  BY DEF Notify
<1> QED
  BY <1>4, <1>5 DEF TypeOK

\* The SDK's calls keep the types.
LEMMA SharedType ==
    ASSUME TypeInv, NEW d \in Devices, SharedStep(d)
    PROVE  TypeInv'
<1> USE DEF TypeInv
<1>1. sharedQ[d] # <<>> => Head(sharedQ[d]) \in Call /\ Tail(sharedQ[d]) \in Seq(Call)
  BY DEF TypeOK
<1>2. CASE addEventRegistration(d)
  <2> DEFINE ev == raiseEvents(Unknown, Shown(d), 1)
  <2>1. ev \in Seq(Block)
    <3>1. Shown(d) \in Node \cup {Unknown}
      BY VisibleType DEF TypeOK, Shown
    <3> QED
      BY <3>1, RaiseEventsType
  <2>2. mainQ' = [mainQ EXCEPT ![d] = @ \o ev]
    BY <1>2 DEF addEventRegistration
  <2>3. mainQ[d] \o ev \in Seq(Block)
    BY <2>1 DEF TypeOK
  <2> HIDE DEF ev
  <2>4. TypeOK'
    <3>1. mainQ' \in [Devices -> Seq(Block)]
      BY <2>2, <2>3 DEF TypeOK
    <3>2. /\ sharedQ' = [sharedQ EXCEPT ![d] = Tail(@)] /\ sharedQ[d] # <<>>
          /\ observers' = [observers EXCEPT ![d] = @ + 1]
          /\ UNCHANGED <<server, uiVars, cache, pending, netVars, histVars, used>>
      BY <1>2 DEF addEventRegistration
    <3> QED
      BY <1>1, <3>1, <3>2 DEF TypeOK, uiVars, netVars, histVars
  <2>5. AcksMatch'
    BY <1>2 DEF addEventRegistration, AcksMatch, netVars
  <2> QED
    BY <2>4, <2>5
<1>3. CASE ApplyUserOverwrite(d)
  <2> DEFINE p == Append(pending[d], Head(sharedQ[d]))
  <2>1. p \in Seq(Write)
    BY <1>1, <1>3 DEF ApplyUserOverwrite, TypeOK, Call
  <2>2. Notify(d, cache[d], p)
    BY <1>3 DEF ApplyUserOverwrite
  <2>3. Len(p) = Len(pending[d]) + 1
    BY DEF TypeOK
  <2>4. pending' = [pending EXCEPT ![d] = p]
    BY <2>2 DEF Notify
  <2> HIDE DEF p
  <2>5. /\ cache' \in [Devices -> Node \cup {Unknown}]
        /\ pending' \in [Devices -> Seq(Write)]
        /\ mainQ' \in [Devices -> Seq(Block)]
        /\ observers' \in [Devices -> Nat]
    BY <2>1, <2>2, NotifyType DEF TypeOK
  <2>6. TypeOK'
    BY <1>1, <1>3, <2>5 DEF ApplyUserOverwrite, TypeOK, uiVars, netVars, histVars
  <2>7. AcksMatch'
    BY <1>3, <2>3, <2>4 DEF ApplyUserOverwrite, AcksMatch, TypeOK, netVars
  <2> QED
    BY <2>6, <2>7
<1> QED
  BY <1>2, <1>3 DEF SharedStep

\* A value message carries a node.
LEMMA DataNode ==
    ASSUME NEW m \in Message, m.type = "data"
    PROVE  m.node \in Node
<1>1. m # [type |-> "ack"]
  OBVIOUS
<1> QED
  BY <1>1 DEF Message

\* The server's messages keep the types; an acknowledgement finds the write it
\* is for at the head of pending.
LEMMA ReceiveType ==
    ASSUME TypeInv, NEW d \in Devices, Receive(d)
    PROVE  TypeInv'
<1> USE DEF TypeInv
<1>1. /\ down[d] \in Seq(Message) /\ down[d] # <<>>
      /\ Head(down[d]) \in Message /\ Tail(down[d]) \in Seq(Message)
      /\ down' = [down EXCEPT ![d] = Tail(@)]
  BY DEF TypeOK, Receive, OnDataUpdate, AckWrite
<1>2. down' \in [Devices -> Seq(Message)]
  BY <1>1 DEF TypeOK
<1>3. CASE OnDataUpdate(d)
  <2>1. Head(down[d]).node \in Node
    BY <1>1, <1>3, DataNode DEF OnDataUpdate
  <2>2. Notify(d, Head(down[d]).node, pending[d]) /\ pending[d] \in Seq(Write)
    BY <1>3 DEF OnDataUpdate, TypeOK
  <2>3. /\ cache' \in [Devices -> Node \cup {Unknown}]
        /\ pending' \in [Devices -> Seq(Write)]
        /\ mainQ' \in [Devices -> Seq(Block)]
        /\ observers' \in [Devices -> Nat]
    BY <2>1, <2>2, NotifyType
  <2>4. TypeOK'
    BY <1>2, <1>3, <2>3 DEF OnDataUpdate, TypeOK, uiVars, histVars
  <2>5. Cardinality(Acks(Tail(down[d]))) = Cardinality(Acks(down[d]))
    <3>1. Head(down[d]).type # "ack"
      BY <1>3 DEF OnDataUpdate
    <3> QED
      BY <1>1, <3>1, AcksTail
  <2>6. pending' = pending /\ applied' = applied
    BY <1>3, <2>2 DEF OnDataUpdate, Notify, TypeOK
  <2>7. AcksMatch'
    BY <1>1, <2>5, <2>6 DEF AcksMatch, TypeOK
  <2> QED
    BY <2>4, <2>7
<1>4. CASE AckWrite(d)
  <2>1. Head(down[d]).type = "ack"
    BY <1>4 DEF AckWrite
  <2>2. Cardinality(Acks(Tail(down[d]))) = Cardinality(Acks(down[d])) - 1
    BY <1>1, <2>1, AcksTail
  <2>3. Cardinality(Acks(Tail(down[d]))) \in Nat
    BY <1>1, AcksFinite
  <2>4. /\ applied[d] = Cardinality(Acks(down[d]))
        /\ applied[d] <= Len(pending[d])
        /\ applied[d] \in Nat
        /\ pending[d] \in Seq(Write)
    BY DEF AcksMatch, TypeOK
  <2>5. applied[d] - 1 \in Nat /\ pending[d] # <<>>
    BY <2>2, <2>3, <2>4
  <2>6. Tail(pending[d]) \in Seq(Write) /\ Len(Tail(pending[d])) = Len(pending[d]) - 1
    BY <2>4, <2>5
  <2>7. Notify(d, cache[d], Tail(pending[d]))
    BY <1>4 DEF AckWrite
  <2>8. /\ cache' \in [Devices -> Node \cup {Unknown}]
        /\ pending' \in [Devices -> Seq(Write)]
        /\ mainQ' \in [Devices -> Seq(Block)]
        /\ observers' \in [Devices -> Nat]
    BY <2>6, <2>7, NotifyType DEF TypeOK
  <2>9. TypeOK'
    BY <1>2, <1>4, <2>5, <2>8 DEF AckWrite, TypeOK, uiVars, histVars
  <2>10. pending' = [pending EXCEPT ![d] = Tail(@)] /\ applied' = [applied EXCEPT ![d] = @ - 1]
    BY <1>4, <2>7 DEF AckWrite, Notify
  <2>11. AcksMatch'
    BY <1>1, <2>2, <2>4, <2>6, <2>10, SMTT(30) DEF AcksMatch, TypeOK
  <2> QED
    BY <2>9, <2>11
<1> QED
  BY <1>3, <1>4 DEF Receive

\* The connection's and the server's steps keep the types.
LEMMA NetType ==
    ASSUME TypeInv, NEW d \in Devices, NetStep(d) \/ Drop(d)
    PROVE  TypeInv'
<1> USE DEF TypeInv
<1>1. CASE Connect(d)
  <2>1. TypeOK'
    BY <1>1 DEF Connect, TypeOK, uiVars, sdkVars, histVars
  <2>2. AcksMatch'
    BY <1>1 DEF Connect, AcksMatch, sdkVars
  <2> QED
    BY <2>1, <2>2
<1>2. CASE Listen(d)
  <2> DEFINE m == [type |-> "data", node |-> server]
  <2>1. m \in Message /\ server \in Node /\ down[d] \in Seq(Message)
    BY DEF Message, TypeOK
  <2>2. down' = [down EXCEPT ![d] = Append(@, m)]
    BY <1>2 DEF Listen
  <2>3. Acks(Append(down[d], m)) = Acks(down[d])
    BY <2>1, AcksData
  <2> HIDE DEF m
  <2>4. down' \in [Devices -> Seq(Message)]
    BY <2>1, <2>2 DEF TypeOK
  <2>5. TypeOK'
    BY <1>2, <2>4 DEF Listen, TypeOK, uiVars, sdkVars, histVars
  <2>6. AcksMatch'
    BY <1>2, <2>2, <2>3 DEF Listen, AcksMatch, TypeOK, sdkVars
  <2> QED
    BY <2>5, <2>6
<1>3. CASE ServerApply(d)
  <2> DEFINE w == pending[d][applied[d] + 1]
             data == [type |-> "data", node |-> Apply(server, w)]
  <2>1. w \in Write
    BY <1>3 DEF ServerApply, TypeOK
  <2>2. Apply(server, w) \in Node
    BY <2>1, ApplyType DEF TypeOK
  <2>3. data \in Message /\ [type |-> "ack"] \in Message
    BY <2>2 DEF Message
  <2>4. /\ server' = Apply(server, w)
        /\ kept' = kept \cup ({Put(w)} \ {None})
        /\ applied' = [applied EXCEPT ![d] = @ + 1]
        /\ UNCHANGED <<uiVars, mainQ, sharedQ, sdkVars, link, trapped, asked, used>>
        /\ down' = [e \in Devices |->
                      IF link[e] # "listening" THEN down[e]
                      ELSE IF e = d THEN down[e] \o <<data, [type |-> "ack"]>>
                      ELSE Append(down[e], data)]
    BY <1>3 DEF ServerApply
  <2>5. \A e \in Devices :
          /\ Acks(Append(down[e], data)) = Acks(down[e])
          /\ Cardinality(Acks(down[e] \o <<data, [type |-> "ack"]>>)) = Cardinality(Acks(down[e])) + 1
    BY <2>2, AcksData, AcksPut DEF TypeOK
  <2>6. Put(w) \in Dream \cup {None}
    BY <2>1, PutType
  <2>7. link[d] = "listening" /\ applied[d] + 1 <= Len(pending[d])
    BY <1>3 DEF ServerApply, TypeOK
  <2> HIDE DEF w, data
  <2>8. down' \in [Devices -> Seq(Message)]
    <3>1. \A e \in Devices :
            /\ down[e] \in Seq(Message)
            /\ Append(down[e], data) \in Seq(Message)
            /\ down[e] \o <<data, [type |-> "ack"]>> \in Seq(Message)
      BY <2>3 DEF TypeOK
    <3> QED
      BY <2>4, <3>1
  <2>9. TypeOK'
    BY <2>2, <2>4, <2>6, <2>8 DEF TypeOK, uiVars, sdkVars
  <2>10. AcksMatch'
    <3> SUFFICES ASSUME NEW e \in Devices
                 PROVE  /\ applied'[e] = Cardinality(Acks(down'[e]))
                        /\ applied'[e] <= Len(pending'[e])
      BY DEF AcksMatch
    <3>1. pending'[e] = pending[e] /\ applied[e] = Cardinality(Acks(down[e])) /\ applied[e] <= Len(pending[e])
      BY <2>4 DEF AcksMatch, sdkVars
    <3>2. CASE e = d
      BY <2>4, <2>5, <2>7, <3>1, <3>2 DEF TypeOK
    <3>3. CASE e # d
      BY <2>4, <2>5, <3>1, <3>3 DEF TypeOK
    <3> QED
      BY <3>2, <3>3
  <2> QED
    BY <2>9, <2>10
<1>4. CASE Drop(d)
  <2>1. used' \in [Bounds -> Nat]
    <3>1. used \in [Bounds -> Nat] /\ used' = [used EXCEPT !["drops"] = @ + 1]
      BY <1>4 DEF TypeOK, Drop
    <3>2. "drops" \in Bounds
      BY DEF Bounds
    <3>3. used["drops"] + 1 \in Nat
      BY <3>1, <3>2
    <3> QED
      BY <3>1, <3>3
  <2>2. TypeOK'
    BY <1>4, <2>1 DEF Drop, TypeOK, uiVars, sdkVars, histVars
  <2>3. Cardinality(Acks(<<>>)) = 0
    BY FS_EmptySet DEF Acks
  <2>4. AcksMatch'
    BY <1>4, <2>3 DEF Drop, AcksMatch, TypeOK, sdkVars
  <2> QED
    BY <2>2, <2>4
<1> QED
  BY <1>1, <1>2, <1>3, <1>4 DEF NetStep

\* Every step keeps the types.
LEMMA NextType == TypeInv /\ [Next]_vars => TypeInv'
<1> SUFFICES ASSUME TypeInv, [Next]_vars PROVE TypeInv'
  OBVIOUS
<1>1. CASE Next
  <2>1. PICK d \in Devices :
          \/ Launch(d) \/ Kill(d)
          \/ UserStep(d)
          \/ MainStep(d)
          \/ SharedStep(d)
          \/ Receive(d)
          \/ NetStep(d) \/ Drop(d)
    BY <1>1 DEF Next
  <2> QED
    BY <2>1, ProcessType, UserType, MainType, SharedType, ReceiveType, NetType
<1>2. CASE UNCHANGED vars
  BY <1>2 DEF vars, uiVars, sdkVars, netVars, histVars, TypeInv, TypeOK, AcksMatch
<1> QED
  BY <1>1, <1>2

\* In every reachable state, for any number of devices, keys and dreams, the
\* variables have their types: no container is longer than the keys allow and
\* updateAction never stores under a key that does not exist.
THEOREM TypeCorrect == Spec => []TypeOK
<1>1. Init => TypeInv
  BY InitType DEF TypeInv
<1>2. TypeInv => TypeOK
  BY DEF TypeInv
<1> QED
  BY <1>1, <1>2, NextType, PTL DEF Spec

\* The server's acknowledgements and the pending writes always match, through
\* lost connections (FPersistentConnection onDisconnect, restoreState).
THEOREM AcksCorrect == Spec => []AcksMatch
<1>1. Init => TypeInv
  BY InitType DEF TypeInv
<1>2. TypeInv => AcksMatch
  BY DEF TypeInv
<1> QED
  BY <1>1, <1>2, NextType, PTL DEF Spec
-----------------------------------------------------------------------------
(* Convergence.  EventPipeline and ServerHeard are inductive given the     *)
(* types; in a settled state the first says that the container shows what  *)
(* the observers were last shown, the second that this is the server's     *)
(* value.                                                                  *)

\* Without pending writes the device shows the server cache.
LEMMA VisibleNothing ==
    ASSUME NEW c \in Node
    PROVE  Visible(c, <<>>) = c
<1>1. Visible(c, <<>>) = [k \in Keys |-> c[k]]
  BY UnknownAssumption DEF Visible
<1> QED
  BY <1>1 DEF Node

\* After a removeValue the device shows an empty diary, whatever came before.
LEMMA VisibleRemove ==
    ASSUME NEW c, NEW p \in Seq(Write)
    PROVE  Visible(c, Append(p, RemoveCall)) = Empty
<1> DEFINE q == Append(p, RemoveCall)
           n == Len(p) + 1
<1>1. DOMAIN q = 1 .. n /\ n \in DOMAIN q /\ q[n] = RemoveCall
  OBVIOUS
<1>2. q[n].op = "remove" /\ Put(q[n]) = None
  BY <1>1 DEF RemoveCall, Put
<1>3. \A k : Covers(q[n], k)
  BY <1>2 DEF Covers
<1>4. \A k : \A i \in DOMAIN q : LastCover(q, k, i) <=> i = n
  <2> SUFFICES ASSUME NEW k, NEW i \in DOMAIN q
               PROVE  LastCover(q, k, i) <=> i = n
    OBVIOUS
  <2>1. ASSUME i = n PROVE LastCover(q, k, i)
    BY <1>1, <1>3, <2>1 DEF LastCover
  <2>2. ASSUME i # n PROVE ~LastCover(q, k, i)
    <3>1. n > i
      BY <1>1, <2>2
    <3> QED
      BY <1>1, <1>3, <3>1 DEF LastCover
  <2> QED
    BY <2>1, <2>2
<1>5. \A k : (CHOOSE i \in DOMAIN q : LastCover(q, k, i)) = n
  BY <1>1, <1>4
<1>6. Visible(c, q) = [k \in Keys |-> Put(q[n])]
  <2>1. ~\A i \in DOMAIN q : q[i].op # "remove"
    BY <1>1, <1>2
  <2>2. \A k : \E i \in DOMAIN q : Covers(q[i], k)
    BY <1>1, <1>3
  <2> HIDE DEF q, n
  <2> DEFINE V(k) == IF \E i \in DOMAIN q : Covers(q[i], k)
                     THEN Put(q[CHOOSE i \in DOMAIN q : LastCover(q, k, i)])
                     ELSE c[k]
  <2>3. Visible(c, q) = [k \in Keys |-> V(k)]
    BY <2>1 DEF Visible
  <2>4. \A k \in Keys : V(k) = Put(q[n])
    BY <1>5, <2>2
  <2> HIDE DEF V
  <2> QED
    BY <2>3, <2>4
<1> QED
  BY <1>2, <1>6 DEF Empty

\* An empty diary is shown as an empty container.
LEMMA EmptyContainer ==
    ASSUME NEW s \in Containers(Empty)
    PROVE  s = <<>>
<1>1. Present(Empty) = {}
  BY DEF Present, Empty
<1>2. Cardinality(Present(Empty)) = 0
  BY <1>1, FS_EmptySet
<1>3. AsArray(Empty) = <<>>
  BY <1>2 DEF AsArray
<1>4. s \in Reorderings(<<>>)
  BY <1>3 DEF Containers, ascendingOrder
<1>5. <<>> \in Seq(Dream)
  OBVIOUS
<1>6. s \in Seq(Dream) /\ Len(s) = 0
  BY <1>4, <1>5, ReorderingType
<1> QED
  BY <1>6

-----------------------------------------------------------------------------
(* The events in a queue. *)

\* Raising events for a node makes them the last in the queue.
LEMMA RaisedLast ==
    ASSUME NEW q \in Seq(Block), NEW v, NEW n \in Nat \ {0}
    PROVE  LastEventIs(q \o [i \in 1 .. n |-> EventBlock(v)], v)
<1> DEFINE e == [i \in 1 .. n |-> EventBlock(v)]
           r == q \o e
<1>1. e \in Seq({EventBlock(v)}) /\ Len(e) = n
  OBVIOUS
<1>2. /\ DOMAIN r = 1 .. Len(q) + n
      /\ \A i \in 1 .. n : r[Len(q) + i] = e[i]
  BY <1>1
<1>3. r[Len(q) + n] = EventBlock(v)
  BY <1>2
<1>4. Len(q) + n \in DOMAIN r /\ \A j \in DOMAIN r : ~(j > Len(q) + n)
  BY <1>2
<1> HIDE DEF r
<1>5. LastEventIs(r, v)
  BY <1>3, <1>4 DEF LastEventIs
<1> QED
  BY <1>5 DEF r

\* Another block at the end does not change what the last event is for.
LEMMA LastAfterAppend ==
    ASSUME NEW q \in Seq(Block), NEW b, b.do # "event", NEW v
    PROVE  /\ LastEventIs(q, v) => LastEventIs(Append(q, b), v)
           /\ NoEvent(q) => NoEvent(Append(q, b))
           /\ \A x : Queued(q, x) => Queued(Append(q, b), x)
           /\ Queued(Append(q, b), b)
<1> DEFINE r == Append(q, b)
<1>1. /\ DOMAIN r = 1 .. Len(q) + 1 /\ DOMAIN q = 1 .. Len(q) /\ Len(q) \in Nat
      /\ \A i \in 1 .. Len(q) : r[i] = q[i]
      /\ r[Len(q) + 1] = b
  OBVIOUS
<1> HIDE DEF r
<1>2. LastEventIs(q, v) => LastEventIs(r, v)
  BY <1>1 DEF LastEventIs
<1>3. NoEvent(q) => NoEvent(r)
  BY <1>1 DEF NoEvent
<1>4. (\A x : Queued(q, x) => Queued(r, x)) /\ Queued(r, b)
  BY <1>1 DEF Queued
<1> QED
  BY <1>2, <1>3, <1>4 DEF r

\* Running the first block: the last event stays, unless it was the first.
LEMMA LastAfterTail ==
    ASSUME NEW q \in Seq(Block), q # <<>>, NEW v
    PROVE  /\ LastEventIs(q, v) =>
                \/ LastEventIs(Tail(q), v)
                \/ Head(q) = EventBlock(v) /\ NoEvent(Tail(q))
           /\ NoEvent(q) => NoEvent(Tail(q)) /\ Head(q).do # "event"
           /\ \A x : Queued(q, x) => Head(q) = x \/ Queued(Tail(q), x)
<1> DEFINE r == Tail(q)
<1>1. /\ DOMAIN r = 1 .. Len(q) - 1 /\ DOMAIN q = 1 .. Len(q) /\ Len(q) \in Nat \ {0}
      /\ \A i \in 1 .. Len(q) - 1 : r[i] = q[i + 1]
      /\ Head(q) = q[1]
  OBVIOUS
<1> HIDE DEF r
<1>2. \A i \in DOMAIN q : i = 1 \/ (i - 1 \in DOMAIN r /\ r[i - 1] = q[i])
  BY <1>1
<1>3. \A j \in DOMAIN r : j + 1 \in DOMAIN q /\ r[j] = q[j + 1]
  BY <1>1
<1>4. ASSUME LastEventIs(q, v)
      PROVE  LastEventIs(r, v) \/ (Head(q) = EventBlock(v) /\ NoEvent(r))
  <2>1. PICK i \in DOMAIN q : q[i] = EventBlock(v) /\ \A j \in DOMAIN q : j > i => q[j].do # "event"
    BY <1>4 DEF LastEventIs
  <2>2. \A j \in DOMAIN r : j > i - 1 => r[j].do # "event"
    BY <1>1, <1>3, <2>1
  <2>3. CASE i = 1
    BY <1>1, <2>1, <2>2, <2>3 DEF NoEvent
  <2>4. CASE i # 1
    BY <1>2, <2>1, <2>2, <2>4 DEF LastEventIs
  <2> QED
    BY <2>3, <2>4
<1>5. NoEvent(q) => NoEvent(r) /\ Head(q).do # "event"
  BY <1>1, <1>3 DEF NoEvent
<1>6. \A x : Queued(q, x) => Head(q) = x \/ Queued(r, x)
  BY <1>1, <1>2 DEF Queued
<1> QED
  BY <1>4, <1>5, <1>6 DEF r

\* What is queued stays queued when more is added.
LEMMA QueuedConcat ==
    ASSUME NEW S, NEW q \in Seq(S), NEW r \in Seq(S), NEW x
    PROVE  /\ Queued(q, x) => Queued(q \o r, x)
           /\ Queued(r, x) => Queued(q \o r, x)
<1> DEFINE t == q \o r
<1>1. /\ DOMAIN t = 1 .. Len(q) + Len(r) /\ DOMAIN q = 1 .. Len(q) /\ DOMAIN r = 1 .. Len(r)
      /\ Len(q) \in Nat /\ Len(r) \in Nat
      /\ \A i \in 1 .. Len(q) : t[i] = q[i]
      /\ \A i \in 1 .. Len(r) : t[Len(q) + i] = r[i]
  OBVIOUS
<1> HIDE DEF t
<1>2. \A i \in DOMAIN r : Len(q) + i \in DOMAIN t
  BY <1>1
<1> QED
  BY <1>1, <1>2 DEF Queued, t

\* The first call leaves the queue, the others stay.
LEMMA QueuedTail ==
    ASSUME NEW S, NEW q \in Seq(S), q # <<>>, NEW x, Queued(q, x), Head(q) # x
    PROVE  Queued(Tail(q), x)
<1> DEFINE r == Tail(q)
<1>1. /\ DOMAIN r = 1 .. Len(q) - 1 /\ DOMAIN q = 1 .. Len(q) /\ Len(q) \in Nat \ {0}
      /\ \A i \in 1 .. Len(q) - 1 : r[i] = q[i + 1]
      /\ Head(q) = q[1]
  OBVIOUS
<1> HIDE DEF r
<1>2. \A i \in DOMAIN q : i = 1 \/ (i - 1 \in DOMAIN r /\ r[i - 1] = q[i])
  BY <1>1
<1>3. Queued(r, x)
  BY <1>1, <1>2 DEF Queued
<1> QED
  BY <1>3 DEF r
-----------------------------------------------------------------------------
(* Steps on one device and its pipeline. *)

\* A device none of whose queues, caches and containers changed.
LEMMA PipelineFrame ==
    ASSUME NEW e, Pipeline(e),
           observers'[e] = observers[e], cache'[e] = cache[e], pending'[e] = pending[e],
           mainQ'[e] = mainQ[e], container'[e] = container[e], sharedQ'[e] = sharedQ[e]
    PROVE  Pipeline(e)'
BY DEF Pipeline, Shown

\* More calls for the SDK do no harm.
LEMMA PipelineCalls ==
    ASSUME TypeOK, NEW d \in Devices, Pipeline(d), NEW r \in Seq(Call),
           observers'[d] = observers[d], cache'[d] = cache[d], pending'[d] = pending[d],
           mainQ'[d] = mainQ[d], container'[d] = container[d],
           sharedQ'[d] = sharedQ[d] \o r
    PROVE  Pipeline(d)'
<1>1. sharedQ[d] \in Seq(Call)
  BY DEF TypeOK
<1>2. \A x : Queued(sharedQ[d], x) => Queued(sharedQ'[d], x)
  BY <1>1, QueuedConcat
<1> QED
  BY <1>2 DEF Pipeline, Shown

\* Neither does another block, except an event; and a fetch even allows the
\* container to be emptied.
LEMMA PipelineBlock ==
    ASSUME TypeOK, NEW d \in Devices, Pipeline(d), NEW b, b.do # "event",
           observers'[d] = observers[d], cache'[d] = cache[d], pending'[d] = pending[d],
           sharedQ'[d] = sharedQ[d], mainQ'[d] = Append(mainQ[d], b),
           container'[d] = container[d] \/ b = FetchBlock
    PROVE  Pipeline(d)'
<1>1. mainQ[d] \in Seq(Block)
  BY DEF TypeOK
<1>2. /\ LastEventIs(mainQ[d], Shown(d)) => LastEventIs(mainQ'[d], Shown(d))
      /\ NoEvent(mainQ[d]) => NoEvent(mainQ'[d])
      /\ \A x : Queued(mainQ[d], x) => Queued(mainQ'[d], x)
      /\ Queued(mainQ'[d], b)
  BY <1>1, LastAfterAppend, ZenonT(30)
<1>3. Shown(d)' = Shown(d)
  BY DEF Shown
<1> QED
  BY <1>2, <1>3 DEF Pipeline

\* The observers are told of every change of what the device shows.
LEMMA PipelineNotify ==
    ASSUME TypeOK, NEW d \in Devices, Pipeline(d),
           NEW c \in Node \cup {Unknown}, NEW p \in Seq(Write), Notify(d, c, p),
           container'[d] = container[d],
           Visible(c, p) = Shown(d) =>
              /\ Shown(d) # Empty /\ Queued(sharedQ[d], RemoveCall)
                    => Queued(sharedQ'[d], RemoveCall)
              /\ Queued(sharedQ[d], ObserveCall) => Queued(sharedQ'[d], ObserveCall)
    PROVE  Pipeline(d)'
<1> DEFINE v == Visible(c, p)
           ev == raiseEvents(Shown(d), v, observers[d])
<1>1. /\ mainQ[d] \in Seq(Block) /\ observers[d] \in Nat
      /\ mainQ'[d] = mainQ[d] \o ev
      /\ observers'[d] = observers[d]
      /\ cache'[d] = c /\ pending'[d] = p
  BY DEF Notify, TypeOK
<1>2. Shown(d)' = v
  BY <1>1 DEF Shown
<1> HIDE DEF v
<1> SUFFICES ASSUME v # Unknown, observers[d] > 0
             PROVE  Pipeline(d)'
  BY <1>1, <1>2 DEF Pipeline
<1>3. CASE v # Shown(d)
  <2>1. ev = [i \in 1 .. observers[d] |-> EventBlock(v)]
    BY <1>3 DEF raiseEvents
  <2>2. observers[d] \in Nat \ {0}
    BY <1>1
  <2>3. LastEventIs(mainQ'[d], v)
    BY <1>1, <2>1, <2>2, RaisedLast
  <2> QED
    BY <1>2, <2>3 DEF Pipeline
<1>4. CASE v = Shown(d)
  <2>1. ev = <<>>
    BY <1>4 DEF raiseEvents
  <2>2. mainQ'[d] = mainQ[d]
    BY <1>1, <2>1
  <2> QED
    BY <1>1, <1>2, <1>4, <2>2 DEF Pipeline, v
<1> QED
  BY <1>3, <1>4

\* The user's steps keep the pipelines.
LEMMA UserPipeline ==
    ASSUME TypeInv, EventPipeline, NEW d \in Devices, UserStep(d)
    PROVE  EventPipeline'
<1> USE DEF TypeInv
<1> SUFFICES ASSUME NEW e \in Devices PROVE Pipeline(e)'
  BY DEF EventPipeline
<1>1. Pipeline(e)
  BY DEF EventPipeline
<1>2. observers'[e] = observers[e] /\ cache'[e] = cache[e] /\ pending'[e] = pending[e]
  BY DEF UserStep, DateCheckAndSave, ConfirmReplace, AskDelete, ConfirmDelete, AskDeleteAll,
         ConfirmDeleteAll, CancelAlert, OpenSearch, Refresh, sdkVars
<1>3. CASE e # d
  <2>1. mainQ'[e] = mainQ[e] /\ container'[e] = container[e] /\ sharedQ'[e] = sharedQ[e]
    BY <1>3 DEF UserStep, DateCheckAndSave, ConfirmReplace, AskDelete, ConfirmDelete,
         AskDeleteAll, ConfirmDeleteAll, CancelAlert, OpenSearch, Refresh, TypeOK, uiVars
  <2> QED
    BY <1>1, <1>2, <2>1, PipelineFrame
<1>4. CASE e = d
  <2>1. CASE \E x \in Dream : DateCheckAndSave(d, x)
    <3>1. PICK x \in Dream : DateCheckAndSave(d, x)
      BY <2>1
    <3>2. mainQ'[d] = mainQ[d] /\ container'[d] = container[d]
      BY <3>1 DEF DateCheckAndSave
    <3>3. CASE sharedQ' = sharedQ
      BY <1>1, <1>2, <1>4, <3>2, <3>3, PipelineFrame
    <3>4. CASE sharedQ' = [sharedQ EXCEPT ![d] = Append(@, SetCall(Len(container[d]), x))]
      <4>1. SetCall(Len(container[d]), x) \in Call
        BY <3>1, MaxKeyAssumption DEF DateCheckAndSave, TypeOK, SetCall, Call, Write, Keys
      <4>2. sharedQ'[d] = sharedQ[d] \o <<SetCall(Len(container[d]), x)>>
        BY <3>4, <4>1 DEF TypeOK
      <4>3. <<SetCall(Len(container[d]), x)>> \in Seq(Call)
        BY <4>1
      <4> QED
        BY <1>1, <1>2, <1>4, <3>2, <4>2, <4>3, PipelineCalls
    <3> QED
      BY <3>1, <3>3, <3>4 DEF DateCheckAndSave
  <2>2. CASE ConfirmReplace(d)
    <3> DEFINE call == SetCall(Len(container[d]), alert[d].dream)
    <3>1. call \in Call
      <4>1. alert[d].dream \in Dream
        BY <2>2, AlertDream DEF ConfirmReplace, Answer, TypeOK
      <4> QED
        BY <2>2, <4>1, MaxKeyAssumption DEF ConfirmReplace, TypeOK, SetCall, Call, Write, Keys
    <3>2. /\ mainQ'[d] = mainQ[d] /\ container'[d] = container[d]
          /\ sharedQ' = [sharedQ EXCEPT ![d] = Append(@, call)]
      BY <2>2 DEF ConfirmReplace
    <3> HIDE DEF call
    <3>3. sharedQ'[d] = sharedQ[d] \o <<call>> /\ <<call>> \in Seq(Call)
      BY <3>1, <3>2, SMTT(30) DEF TypeOK
    <3> QED
      BY <1>1, <1>2, <1>4, <3>2, <3>3, PipelineCalls
  <2>3. CASE (\E i \in 1 .. MaxKey + 1 : AskDelete(d, i)) \/ AskDeleteAll(d) \/ CancelAlert(d)
    <3>1. mainQ'[d] = mainQ[d] /\ container'[d] = container[d] /\ sharedQ'[d] = sharedQ[d]
      BY <2>3 DEF AskDelete, AskDeleteAll, CancelAlert
    <3> QED
      BY <1>1, <1>2, <1>4, <3>1, PipelineFrame
  <2>4. CASE ConfirmDelete(d)
    <3> DEFINE b == RemoveBlock(alert[d].dream)
    <3>1. b.do # "event"
      BY DEF RemoveBlock
    <3>2. /\ mainQ'[d] = Append(mainQ[d], b)
          /\ container'[d] = container[d] /\ sharedQ'[d] = sharedQ[d]
      BY <2>4 DEF ConfirmDelete, TypeOK
    <3> HIDE DEF b
    <3> QED
      BY <1>1, <1>2, <1>4, <3>1, <3>2, PipelineBlock
  <2>5. CASE ConfirmDeleteAll(d)
    <3>1. RemoveAllBlock.do # "event"
      BY DEF RemoveAllBlock
    <3>2. /\ mainQ'[d] = Append(mainQ[d], RemoveAllBlock)
          /\ container'[d] = container[d] /\ sharedQ'[d] = sharedQ[d]
      BY <2>5 DEF ConfirmDeleteAll, TypeOK
    <3> QED
      BY <1>1, <1>2, <1>4, <3>1, <3>2, PipelineBlock
  <2>6. CASE OpenSearch(d) \/ Refresh(d)
    <3>1. FetchBlock.do # "event"
      BY DEF FetchBlock
    <3>2. mainQ'[d] = Append(mainQ[d], FetchBlock) /\ sharedQ'[d] = sharedQ[d]
      BY <2>6 DEF OpenSearch, Refresh, TypeOK
    <3> QED
      BY <1>1, <1>2, <1>4, <3>1, <3>2, PipelineBlock
  <2> QED
    BY <2>1, <2>2, <2>3, <2>4, <2>5, <2>6 DEF UserStep
<1> QED
  BY <1>3, <1>4
\* updateAction(s) begins with the removeValue.
LEMMA UpdateActionRemoves ==
    ASSUME NEW s \in Seq(Dream)
    PROVE  Queued(updateAction(s), RemoveCall)
<1> DEFINE r == [i \in 1 .. Len(s) |-> SetCall(i - 1, s[i])]
           S == {RemoveCall} \cup {SetCall(i - 1, s[i]) : i \in 1 .. Len(s)}
<1>1. r \in Seq(S) /\ <<RemoveCall>> \in Seq(S)
  OBVIOUS
<1>2. Queued(<<RemoveCall>>, RemoveCall)
  BY DEF Queued
<1>3. updateAction(s) = <<RemoveCall>> \o r
  BY DEF updateAction
<1> HIDE DEF r, S
<1> QED
  BY <1>1, <1>2, <1>3, QueuedConcat

\* removeAction and removeAllAction leave the container as it was, or queue a
\* removeValue of a node that is not empty.
LEMMA PipelineRemoval ==
    ASSUME TypeOK, NEW d \in Devices, Pipeline(d), mainQ[d] # <<>>,
           Head(mainQ[d]).do \in {"remove", "removeAll"}, mainQ'[d] = Tail(mainQ[d]),
           observers'[d] = observers[d], cache'[d] = cache[d], pending'[d] = pending[d],
           NEW s \in Seq(Dream), Len(s) <= Len(container[d]), Len(s) <= MaxKey + 1,
           container'[d] = s, sharedQ'[d] = sharedQ[d] \o updateAction(s)
    PROVE  Pipeline(d)'
<1>1. mainQ[d] \in Seq(Block) /\ sharedQ[d] \in Seq(Call) /\ updateAction(s) \in Seq(Call)
  BY UpdateActionType DEF TypeOK
<1>2. /\ LastEventIs(mainQ[d], Shown(d)) =>
            \/ LastEventIs(mainQ'[d], Shown(d))
            \/ Head(mainQ[d]) = EventBlock(Shown(d)) /\ NoEvent(mainQ'[d])
      /\ NoEvent(mainQ[d]) => NoEvent(mainQ'[d])
      /\ \A x : Queued(mainQ[d], x) => Head(mainQ[d]) = x \/ Queued(mainQ'[d], x)
  BY <1>1, LastAfterTail
<1>3. Head(mainQ[d]) # EventBlock(Shown(d)) /\ Head(mainQ[d]) # FetchBlock
  BY DEF EventBlock, FetchBlock
<1>4. /\ \A x : Queued(sharedQ[d], x) => Queued(sharedQ'[d], x)
      /\ Queued(sharedQ'[d], RemoveCall)
  BY <1>1, QueuedConcat, UpdateActionRemoves
<1>5. Shown(d)' = Shown(d)
  BY DEF Shown
<1>6. Shown(d) = Empty /\ container[d] \in Containers(Shown(d)) => container'[d] = container[d]
  <2> SUFFICES ASSUME Shown(d) = Empty, container[d] \in Containers(Shown(d))
               PROVE  s = container[d]
    OBVIOUS
  <2>1. container[d] = <<>>
    BY EmptyContainer
  <2>2. Len(s) = 0
    BY <2>1
  <2> QED
    BY <2>1, <2>2
<1> QED
  BY <1>2, <1>3, <1>4, <1>5, <1>6 DEF Pipeline

\* The blocks of the main queue keep the pipelines.
LEMMA MainPipeline ==
    ASSUME TypeInv, EventPipeline, NEW d \in Devices, MainStep(d)
    PROVE  EventPipeline'
<1> USE DEF TypeInv
<1> SUFFICES ASSUME NEW e \in Devices PROVE Pipeline(e)'
  BY DEF EventPipeline
<1>1. Pipeline(e)
  BY DEF EventPipeline
<1>2. CASE e # d
  <2>1. /\ mainQ'[e] = mainQ[e] /\ container'[e] = container[e] /\ sharedQ'[e] = sharedQ[e]
        /\ observers'[e] = observers[e] /\ cache'[e] = cache[e] /\ pending'[e] = pending[e]
    BY <1>2 DEF MainStep, RunFetch, RunEvent, RunTrap, RunRemove, RunRemoveAll, MainBlock, End,
                TypeOK, uiVars, sdkVars
  <2> QED
    BY <1>1, <2>1, PipelineFrame
<1>3. CASE e = d
  <2> USE <1>3
  <2>1. mainQ[d] \in Seq(Block) /\ sharedQ[d] \in Seq(Call) /\ mainQ[d] # <<>>
    BY DEF TypeOK, MainStep, RunFetch, RunEvent, RunTrap, RunRemove, RunRemoveAll, MainBlock
  <2>2. /\ LastEventIs(mainQ[d], Shown(d)) =>
              \/ LastEventIs(Tail(mainQ[d]), Shown(d))
              \/ Head(mainQ[d]) = EventBlock(Shown(d)) /\ NoEvent(Tail(mainQ[d]))
        /\ NoEvent(mainQ[d]) => NoEvent(Tail(mainQ[d])) /\ Head(mainQ[d]).do # "event"
    BY <2>1, LastAfterTail
  <2>3. EventBlock(Shown(d)).do = "event" /\ EventBlock(Shown(d)).node = Shown(d)
    BY DEF EventBlock
  <2>4. CASE RunFetch(d)
    <3>1. /\ mainQ'[d] = Tail(mainQ[d]) /\ Head(mainQ[d]).do = "fetch"
          /\ sharedQ'[d] = Append(sharedQ[d], ObserveCall)
          /\ observers'[d] = observers[d] /\ Shown(d)' = Shown(d)
      BY <2>4 DEF RunFetch, MainBlock, TypeOK, sdkVars, Shown
    <3>2. sharedQ'[d] = sharedQ[d] \o <<ObserveCall>> /\ <<ObserveCall>> \in Seq(Call)
      BY <2>1, <3>1 DEF Call
    <3>3. Queued(<<ObserveCall>>, ObserveCall)
      BY DEF Queued
    <3>4. Queued(sharedQ'[d], ObserveCall)
      BY <2>1, <3>2, <3>3, QueuedConcat
    <3> QED
      BY <1>1, <2>2, <2>3, <3>1, <3>4 DEF Pipeline
  <2>5. CASE RunEvent(d)
    <3>1. /\ mainQ'[d] = Tail(mainQ[d]) /\ Head(mainQ[d]).do = "event"
          /\ CastSucceeds(Head(mainQ[d]).node)
          /\ container'[d] \in Containers(Head(mainQ[d]).node)
          /\ observers'[d] = observers[d] /\ Shown(d)' = Shown(d)
      BY <2>5 DEF RunEvent, MainBlock, TypeOK, sdkVars, Shown
    <3> QED
      BY <1>1, <2>2, <2>3, <3>1 DEF Pipeline
  <2>6. CASE RunTrap(d)
    <3>1. observers'[d] = 0
      BY <2>6 DEF RunTrap, End, TypeOK
    <3> QED
      BY <3>1 DEF Pipeline
  <2>7. CASE RunRemove(d)
    <3>1. PICK s \in WithoutDate(container[d], Head(mainQ[d]).dream.writedDate) :
             container' = [container EXCEPT ![d] = s] /\ sharedQ' = [sharedQ EXCEPT ![d] = @ \o updateAction(s)]
      BY <2>7 DEF RunRemove
    <3>2. container[d] \in Seq(Dream) /\ Len(container[d]) <= MaxKey + 1
      BY DEF TypeOK
    <3>3. s \in Seq(Dream) /\ Len(s) <= Len(container[d])
      BY <3>1, <3>2, WithoutDateType
    <3>4. Len(s) <= MaxKey + 1
      BY <3>2, <3>3, MaxKeyAssumption
    <3>5. /\ mainQ'[d] = Tail(mainQ[d]) /\ Head(mainQ[d]).do = "remove"
          /\ observers'[d] = observers[d] /\ cache'[d] = cache[d] /\ pending'[d] = pending[d]
          /\ container'[d] = s /\ sharedQ'[d] = sharedQ[d] \o updateAction(s)
      BY <2>7, <3>1 DEF RunRemove, MainBlock, TypeOK, sdkVars
    <3> QED
      BY <1>1, <2>1, <3>3, <3>4, <3>5, PipelineRemoval
  <2>8. CASE RunRemoveAll(d)
    <3>1. <<>> \in Seq(Dream) /\ Len(<<>>) <= Len(container[d]) /\ Len(<<>>) <= MaxKey + 1
      BY MaxKeyAssumption DEF TypeOK
    <3>2. /\ mainQ'[d] = Tail(mainQ[d]) /\ Head(mainQ[d]).do = "removeAll"
          /\ observers'[d] = observers[d] /\ cache'[d] = cache[d] /\ pending'[d] = pending[d]
          /\ container'[d] = <<>> /\ sharedQ'[d] = sharedQ[d] \o updateAction(<<>>)
      BY <2>8 DEF RunRemoveAll, MainBlock, TypeOK, sdkVars
    <3> QED
      BY <1>1, <2>1, <3>1, <3>2, PipelineRemoval
  <2> QED
    BY <2>4, <2>5, <2>6, <2>7, <2>8 DEF MainStep
<1> QED
  BY <1>2, <1>3

\* The SDK's calls keep the pipelines: a removeValue of what is not empty, and
\* a further observe, raise the event that was promised.
LEMMA SharedPipeline ==
    ASSUME TypeInv, EventPipeline, NEW d \in Devices, SharedStep(d)
    PROVE  EventPipeline'
<1> USE DEF TypeInv
<1> SUFFICES ASSUME NEW e \in Devices PROVE Pipeline(e)'
  BY DEF EventPipeline
<1>1. Pipeline(e)
  BY DEF EventPipeline
<1>2. CASE e # d
  <2>1. /\ mainQ'[e] = mainQ[e] /\ container'[e] = container[e] /\ sharedQ'[e] = sharedQ[e]
        /\ observers'[e] = observers[e] /\ cache'[e] = cache[e] /\ pending'[e] = pending[e]
    BY <1>2 DEF SharedStep, addEventRegistration, ApplyUserOverwrite, Notify, TypeOK, uiVars
  <2> QED
    BY <1>1, <2>1, PipelineFrame
<1>3. CASE e = d
  <2> USE <1>3
  <2>1. CASE addEventRegistration(d)
    <3> SUFFICES ASSUME Shown(d) # Unknown
                 PROVE  LastEventIs(mainQ'[d], Shown(d)')
      <4>1. Shown(d)' = Shown(d)
        BY <2>1 DEF addEventRegistration, Shown
      <4> QED
        BY <4>1 DEF Pipeline
    <3>1. Shown(d)' = Shown(d) /\ mainQ[d] \in Seq(Block)
      BY <2>1 DEF addEventRegistration, Shown, TypeOK
    <3>2. PICK n \in Nat \ {0} : n = 1
      OBVIOUS
    <3>3. mainQ'[d] = mainQ[d] \o raiseEvents(Unknown, Shown(d), n)
      BY <2>1, <3>2 DEF addEventRegistration, TypeOK
    <3>4. raiseEvents(Unknown, Shown(d), n) = [i \in 1 .. n |-> EventBlock(Shown(d))]
      BY DEF raiseEvents
    <3> QED
      BY <3>1, <3>3, <3>4, RaisedLast
  <2>2. CASE ApplyUserOverwrite(d)
    <3> DEFINE w == Head(sharedQ[d])
               p == Append(pending[d], w)
    <3>1. /\ sharedQ[d] \in Seq(Call) /\ sharedQ[d] # <<>> /\ w # ObserveCall /\ w \in Call
          /\ sharedQ'[d] = Tail(sharedQ[d]) /\ container'[d] = container[d]
      BY <2>2 DEF ApplyUserOverwrite, TypeOK, uiVars
    <3>2. w \in Write /\ p \in Seq(Write) /\ pending[d] \in Seq(Write)
      BY <3>1 DEF Call, TypeOK
    <3>3. Notify(d, cache[d], p) /\ cache[d] \in Node \cup {Unknown}
      BY <2>2 DEF ApplyUserOverwrite, TypeOK
    <3>4. w = RemoveCall => Visible(cache[d], p) = Empty
      BY <3>2, VisibleRemove
    <3>5. Queued(sharedQ[d], ObserveCall) => Queued(sharedQ'[d], ObserveCall)
      BY <3>1, QueuedTail
    <3>6. w # RemoveCall /\ Queued(sharedQ[d], RemoveCall) => Queued(sharedQ'[d], RemoveCall)
      BY <3>1, QueuedTail
    <3> HIDE DEF w, p
    <3> QED
      BY <1>1, <3>1, <3>2, <3>3, <3>4, <3>5, <3>6, PipelineNotify
  <2> QED
    BY <2>1, <2>2 DEF SharedStep
<1> QED
  BY <1>2, <1>3
\* The server's messages keep the pipelines.
LEMMA ReceivePipeline ==
    ASSUME TypeInv, EventPipeline, NEW d \in Devices, Receive(d)
    PROVE  EventPipeline'
<1> USE DEF TypeInv
<1> SUFFICES ASSUME NEW e \in Devices PROVE Pipeline(e)'
  BY DEF EventPipeline
<1>1. Pipeline(e)
  BY DEF EventPipeline
<1>2. CASE e # d
  <2>1. /\ mainQ'[e] = mainQ[e] /\ container'[e] = container[e] /\ sharedQ'[e] = sharedQ[e]
        /\ observers'[e] = observers[e] /\ cache'[e] = cache[e] /\ pending'[e] = pending[e]
    BY <1>2 DEF Receive, OnDataUpdate, AckWrite, Notify, TypeOK, uiVars
  <2> QED
    BY <1>1, <2>1, PipelineFrame
<1>3. CASE e = d
  <2> USE <1>3
  <2>1. sharedQ'[d] = sharedQ[d] /\ container'[d] = container[d]
    BY DEF Receive, OnDataUpdate, AckWrite, uiVars
  <2>2. down[d] # <<>> /\ Head(down[d]) \in Message /\ pending[d] \in Seq(Write)
    BY DEF Receive, OnDataUpdate, AckWrite, TypeOK
  <2>3. CASE OnDataUpdate(d)
    <3>1. Head(down[d]).node \in Node
      BY <2>2, <2>3, DataNode DEF OnDataUpdate
    <3>2. Notify(d, Head(down[d]).node, pending[d])
      BY <2>3 DEF OnDataUpdate
    <3> QED
      BY <1>1, <2>1, <2>2, <3>1, <3>2, PipelineNotify
  <2>4. CASE AckWrite(d)
    <3>1. Notify(d, cache[d], Tail(pending[d])) /\ cache[d] \in Node \cup {Unknown}
      BY <2>4 DEF AckWrite, TypeOK
    <3>2. Tail(pending[d]) \in Seq(Write)
      <4>1. pending' \in [Devices -> Seq(Write)]
        BY ReceiveType DEF TypeOK
      <4>2. pending'[d] = Tail(pending[d])
        BY <3>1 DEF Notify, TypeOK
      <4> QED
        BY <4>1, <4>2
    <3> QED
      BY <1>1, <2>1, <3>1, <3>2, PipelineNotify
  <2> QED
    BY <2>3, <2>4 DEF Receive
<1> QED
  BY <1>2, <1>3

\* Every step keeps the pipelines.
LEMMA NextPipeline == TypeInv /\ EventPipeline /\ [Next]_vars => EventPipeline'
<1> SUFFICES ASSUME TypeInv, EventPipeline, [Next]_vars PROVE EventPipeline'
  OBVIOUS
<1>1. ASSUME NEW d \in Devices, Launch(d) \/ Kill(d) PROVE EventPipeline'
  <2> SUFFICES ASSUME NEW e \in Devices PROVE Pipeline(e)'
    BY DEF EventPipeline
  <2>1. Pipeline(e)
    BY DEF EventPipeline
  <2>2. CASE e # d
    <3>1. /\ mainQ'[e] = mainQ[e] /\ container'[e] = container[e] /\ sharedQ'[e] = sharedQ[e]
          /\ observers'[e] = observers[e] /\ cache'[e] = cache[e] /\ pending'[e] = pending[e]
      BY <1>1, <2>2 DEF Launch, Kill, End, TypeInv, TypeOK, sdkVars
    <3> QED
      BY <2>1, <3>1, PipelineFrame
  <2>3. CASE e = d /\ Launch(d)
    <3>1. mainQ'[d] = <<FetchBlock>>
      BY <2>3 DEF Launch, TypeInv, TypeOK
    <3>2. NoEvent(<<FetchBlock>>) /\ Queued(<<FetchBlock>>, FetchBlock)
      BY DEF NoEvent, Queued, FetchBlock
    <3> QED
      BY <2>3, <3>1, <3>2 DEF Pipeline
  <2>4. CASE e = d /\ Kill(d)
    <3>1. observers'[d] = 0
      BY <2>4 DEF Kill, End, TypeInv, TypeOK
    <3> QED
      BY <2>4, <3>1 DEF Pipeline
  <2> QED
    BY <1>1, <2>2, <2>3, <2>4
<1>2. ASSUME UNCHANGED <<container, mainQ, sharedQ, sdkVars>> PROVE EventPipeline'
  BY <1>2, PipelineFrame DEF EventPipeline, sdkVars
<1>3. ASSUME NEW d \in Devices, NetStep(d) \/ Drop(d) PROVE EventPipeline'
  BY <1>2, <1>3 DEF NetStep, Connect, Listen, ServerApply, Drop, uiVars
<1>4. CASE UNCHANGED vars
  BY <1>2, <1>4 DEF vars, uiVars
<1>5. CASE Next
  BY <1>1, <1>3, <1>5, UserPipeline, MainPipeline, SharedPipeline, ReceivePipeline DEF Next
<1> QED
  BY <1>4, <1>5

-----------------------------------------------------------------------------
(* The server is heard. *)

\* The messages of a queue whose last value is the server's: adding an answer,
\* or taking the first message, keeps the last value what it is.
LEMMA HeardTail ==
    ASSUME TypeOK, NEW d \in Devices, Heard(d), down[d] # <<>>,
           server' = server, link'[d] = link[d], down'[d] = Tail(down[d]),
           Head(down[d]).type = "data" => cache'[d] = Head(down[d]).node,
           Head(down[d]).type # "data" => cache'[d] = cache[d]
    PROVE  Heard(d)'
<1> DEFINE q == down[d]
           r == Tail(q)
<1>1. /\ DOMAIN r = 1 .. Len(q) - 1 /\ DOMAIN q = 1 .. Len(q) /\ Len(q) \in Nat \ {0}
      /\ \A i \in 1 .. Len(q) - 1 : r[i] = q[i + 1]
      /\ Head(q) = q[1]
  BY DEF TypeOK
<1> HIDE DEF r
<1>2. \A i \in DOMAIN q : i = 1 \/ (i - 1 \in DOMAIN r /\ r[i - 1] = q[i])
  BY <1>1
<1>3. \A j \in DOMAIN r : j + 1 \in DOMAIN q /\ r[j] = q[j + 1]
  BY <1>1
<1>4. down'[d] = r /\ 1 \in DOMAIN q
  BY <1>1 DEF r
<1> HIDE DEF q
<1> SUFFICES ASSUME link[d] = "listening"
             PROVE  \/ /\ cache'[d] = server
                       /\ \A i \in DOMAIN r : r[i].type # "data"
                    \/ \E i \in DOMAIN r :
                         /\ r[i] = [type |-> "data", node |-> server]
                         /\ \A j \in DOMAIN r : j > i => r[j].type # "data"
  BY <1>4 DEF Heard
<1>5. CASE cache[d] = server /\ \A i \in DOMAIN q : q[i].type # "data"
  <2>1. Head(down[d]).type # "data"
    BY <1>1, <1>4, <1>5 DEF q
  <2> QED
    BY <1>3, <1>5, <2>1
<1>6. CASE \E i \in DOMAIN q :
              /\ q[i] = [type |-> "data", node |-> server]
              /\ \A j \in DOMAIN q : j > i => q[j].type # "data"
  <2>1. PICK i \in DOMAIN q :
           /\ q[i] = [type |-> "data", node |-> server]
           /\ \A j \in DOMAIN q : j > i => q[j].type # "data"
    BY <1>6
  <2>2. \A j \in DOMAIN r : j > i - 1 => r[j].type # "data"
    BY <1>1, <1>3, <2>1
  <2>3. CASE i = 1
    <3>1. Head(q) = [type |-> "data", node |-> server]
      BY <1>1, <2>1, <2>3
    <3>2. cache'[d] = server
      BY <3>1 DEF q
    <3>3. \A j \in DOMAIN r : r[j].type # "data"
      BY <1>1, <2>2, <2>3
    <3> QED
      BY <3>2, <3>3
  <2>4. CASE i # 1
    BY <1>2, <2>1, <2>2, <2>4
  <2> QED
    BY <2>3, <2>4
<1> QED
  BY <1>5, <1>6 DEF Heard, q

\* A value at the end of the queue, or followed by an acknowledgement, is the
\* last one.
LEMMA HeardPush ==
    ASSUME NEW q \in Seq(Message), NEW n \in Node, NEW r,
           \/ r = Append(q, [type |-> "data", node |-> n])
           \/ r = q \o <<[type |-> "data", node |-> n], [type |-> "ack"]>>
    PROVE  \E i \in DOMAIN r :
              /\ r[i] = [type |-> "data", node |-> n]
              /\ \A j \in DOMAIN r : j > i => r[j].type # "data"
<1> DEFINE i == Len(q) + 1
<1>1. CASE r = Append(q, [type |-> "data", node |-> n])
  <2>1. DOMAIN r = 1 .. i /\ i \in DOMAIN r /\ r[i] = [type |-> "data", node |-> n]
    BY <1>1
  <2> HIDE DEF i
  <2> QED
    BY <2>1
<1>2. CASE r = q \o <<[type |-> "data", node |-> n], [type |-> "ack"]>>
  <2>1. /\ DOMAIN r = 1 .. i + 1 /\ i \in DOMAIN r /\ i \in Nat
        /\ r[i] = [type |-> "data", node |-> n]
        /\ r[i + 1] = [type |-> "ack"]
    BY <1>2
  <2>2. \A j \in DOMAIN r : j > i => r[j].type # "data"
    BY <2>1
  <2> QED
    BY <2>1, <2>2
<1> QED
  BY <1>1, <1>2

\* What a step does not touch on device e leaves it as well informed.
LEMMA HeardFrame ==
    ASSUME NEW e \in Devices, Heard(e), server' = server,
           link'[e] = link[e], cache'[e] = cache[e], down'[e] = down[e]
    PROVE  Heard(e)'
BY DEF Heard

\* Messages of the server are taken one by one.
LEMMA ReceiveHeard ==
    ASSUME TypeInv, ServerHeard, NEW d \in Devices, Receive(d)
    PROVE  ServerHeard'
<1> USE DEF TypeInv
<1> SUFFICES ASSUME NEW e \in Devices PROVE Heard(e)'
  BY DEF ServerHeard
<1>1. Heard(e)
  BY DEF ServerHeard
<1>2. server' = server /\ link' = link
  BY DEF Receive, OnDataUpdate, AckWrite
<1>3. CASE e # d
  <2>1. cache'[e] = cache[e] /\ down'[e] = down[e]
    BY <1>3 DEF Receive, OnDataUpdate, AckWrite, Notify, TypeOK
  <2> QED
    BY <1>1, <1>2, <2>1, HeardFrame
<1>4. CASE e = d
  <2>1. down[d] # <<>> /\ down'[d] = Tail(down[d])
    BY DEF Receive, OnDataUpdate, AckWrite, TypeOK
  <2>2. Head(down[d]).type = "data" => cache'[d] = Head(down[d]).node
    BY DEF Receive, OnDataUpdate, AckWrite, Notify, TypeOK
  <2>3. Head(down[d]).type # "data" => cache'[d] = cache[d]
    BY DEF Receive, OnDataUpdate, AckWrite, Notify, TypeOK
  <2> QED
    BY <1>1, <1>2, <1>4, <2>1, <2>2, <2>3, HeardTail
<1> QED
  BY <1>3, <1>4

\* A change of the server's value is pushed to every device that listens.
LEMMA ServerApplyHeard ==
    ASSUME TypeInv, ServerHeard, NEW d \in Devices, ServerApply(d)
    PROVE  ServerHeard'
<1> USE DEF TypeInv
<1> SUFFICES ASSUME NEW e \in Devices, link[e] = "listening" PROVE Heard(e)'
  BY DEF ServerHeard, Heard, ServerApply
<1> DEFINE w == pending[d][applied[d] + 1]
<1>1. w \in Write
  BY SMTT(30) DEF ServerApply, TypeOK
<1>2. server' \in Node
  BY NextType DEF Next, NetStep, TypeOK
<1>3. server' = Apply(server, w)
  BY DEF ServerApply
<1>4. \/ down'[e] = Append(down[e], [type |-> "data", node |-> Apply(server, w)])
      \/ down'[e] = down[e] \o <<[type |-> "data", node |-> Apply(server, w)],
                                 [type |-> "ack"]>>
  BY DEF ServerApply
<1>5. down[e] \in Seq(Message)
  BY DEF TypeOK
<1> HIDE DEF w
<1>6. \/ down'[e] = Append(down[e], [type |-> "data", node |-> server'])
      \/ down'[e] = down[e] \o <<[type |-> "data", node |-> server'], [type |-> "ack"]>>
  BY <1>3, <1>4
<1>7. \E i \in DOMAIN down'[e] :
         /\ down'[e][i] = [type |-> "data", node |-> server']
         /\ \A j \in DOMAIN down'[e] : j > i => down'[e][j].type # "data"
  BY <1>2, <1>5, <1>6, HeardPush
<1> QED
  BY <1>7 DEF Heard

\* The listen is answered with the value; on a connection that is not
\* listening there is nothing to hear.
LEMMA LinkHeard ==
    ASSUME TypeInv, ServerHeard, NEW d \in Devices,
           Connect(d) \/ Listen(d) \/ Drop(d) \/ Kill(d) \/ RunTrap(d)
    PROVE  ServerHeard'
<1> USE DEF TypeInv
<1> SUFFICES ASSUME NEW e \in Devices PROVE Heard(e)'
  BY DEF ServerHeard
<1>1. Heard(e)
  BY DEF ServerHeard
<1>2. server' = server
  BY DEF Connect, Listen, Drop, Kill, RunTrap
<1>3. CASE e # d
  <2>1. link'[e] = link[e] /\ cache'[e] = cache[e] /\ down'[e] = down[e]
    BY <1>3 DEF Connect, Listen, Drop, Kill, RunTrap, End, TypeOK, sdkVars
  <2> QED
    BY <1>1, <1>2, <2>1, HeardFrame
<1>4. CASE e = d /\ ~Listen(d)
  <2>1. link'[d] # "listening"
    BY <1>4 DEF Connect, Drop, Kill, RunTrap, End, TypeOK
  <2> QED
    BY <1>4, <2>1 DEF Heard
<1>5. CASE e = d /\ Listen(d)
  <2>1. down'[d] = Append(down[d], [type |-> "data", node |-> server'])
    BY <1>2, <1>5 DEF Listen, TypeOK
  <2>2. down[d] \in Seq(Message) /\ server' \in Node
    BY <1>2 DEF TypeOK
  <2>3. \E i \in DOMAIN down'[d] :
           /\ down'[d][i] = [type |-> "data", node |-> server']
           /\ \A j \in DOMAIN down'[d] : j > i => down'[d][j].type # "data"
    BY <2>1, <2>2, HeardPush
  <2> QED
    BY <1>5, <2>3 DEF Heard
<1> QED
  BY <1>3, <1>4, <1>5

\* Every step keeps the devices informed.
LEMMA NextHeard == TypeInv /\ ServerHeard /\ [Next]_vars => ServerHeard'
<1> SUFFICES ASSUME TypeInv, ServerHeard, [Next]_vars PROVE ServerHeard'
  OBVIOUS
<1>1. ASSUME UNCHANGED <<server, cache, netVars>> PROVE ServerHeard'
  BY <1>1, HeardFrame DEF ServerHeard, netVars
<1>2. ASSUME NEW d \in Devices, UserStep(d) PROVE ServerHeard'
  BY <1>1, <1>2 DEF UserStep, DateCheckAndSave, ConfirmReplace, AskDelete, ConfirmDelete,
     AskDeleteAll, ConfirmDeleteAll, CancelAlert, OpenSearch, Refresh, sdkVars
<1>3. ASSUME NEW d \in Devices, MainStep(d) PROVE ServerHeard'
  BY <1>1, <1>3, LinkHeard DEF MainStep, RunFetch, RunEvent, RunRemove, RunRemoveAll, sdkVars
<1>4. ASSUME NEW d \in Devices, SharedStep(d) PROVE ServerHeard'
  <2>1. UNCHANGED <<server, netVars>>
    BY <1>4 DEF SharedStep, addEventRegistration, ApplyUserOverwrite
  <2>2. cache' = cache
    BY <1>4 DEF SharedStep, addEventRegistration, ApplyUserOverwrite, Notify, TypeInv, TypeOK
  <2> QED
    BY <1>1, <2>1, <2>2
<1>5. ASSUME NEW d \in Devices, Launch(d) PROVE ServerHeard'
  BY <1>1, <1>5 DEF Launch, sdkVars
<1>6. ASSUME NEW d \in Devices, NetStep(d) PROVE ServerHeard'
  BY <1>6, LinkHeard, ServerApplyHeard DEF NetStep
<1>7. CASE UNCHANGED vars
  BY <1>1, <1>7 DEF vars, sdkVars
<1>8. CASE Next
  BY <1>2, <1>3, <1>4, <1>5, <1>6, <1>8, LinkHeard, ReceiveHeard DEF Next
<1> QED
  BY <1>7, <1>8

-----------------------------------------------------------------------------
(* The theorems. *)

\* The inductive invariant.
Inv == TypeInv /\ EventPipeline /\ ServerHeard

\* It holds when no device runs the app.
LEMMA InitInv == Init => Inv
<1> SUFFICES ASSUME Init PROVE Inv
  OBVIOUS
<1>1. TypeInv
  BY InitType DEF TypeInv
<1>2. EventPipeline
  BY DEF Init, EventPipeline, Pipeline
<1>3. ServerHeard
  BY DEF Init, ServerHeard, Heard
<1> QED
  BY <1>1, <1>2, <1>3 DEF Inv

\* Every step of a device, of the server and of the connection keeps it.
LEMMA NextInv == Inv /\ [Next]_vars => Inv'
BY NextType, NextPipeline, NextHeard DEF Inv

\* In a settled state the observers' snapshot is the server's value and the
\* container shows it.
LEMMA InvConvergence == Inv => Convergence
<1> SUFFICES ASSUME Inv, NEW d \in Devices, Settled(d)
             PROVE  CastSucceeds(server) /\ container[d] \in Containers(server)
  BY DEF Convergence
<1>1. cache[d] = server
  BY DEF Inv, ServerHeard, Heard, Settled
<1>2. server \in Node
  BY DEF Inv, TypeInv, TypeOK
<1>3. Shown(d) = server
  BY <1>1, <1>2, VisibleNothing DEF Shown, Settled
<1>4. server # Unknown
  BY <1>2, UnknownAssumption
<1>5. Pipeline(d) /\ observers[d] > 0 /\ mainQ[d] = <<>> /\ sharedQ[d] = <<>>
  BY DEF Inv, EventPipeline, Settled, Idle
<1>6. ~LastEventIs(<<>>, server) /\ \A x : ~Queued(<<>>, x)
  BY DEF LastEventIs, Queued
<1> QED
  BY <1>3, <1>4, <1>5, <1>6 DEF Pipeline

\* The last event queued for a device's observers is always for what they
\* should see, and a container changed locally (Model.removeAction,
\* SearchVC.refresh) always has a call under way that corrects it.
THEOREM PipelineCorrect == Spec => []EventPipeline
<1>1. Inv => EventPipeline
  BY DEF Inv
<1> QED
  BY <1>1, InitInv, NextInv, PTL DEF Spec

\* No device that listens misses the server's last value, through lost
\* connections and the writes of other devices.
THEOREM HeardCorrect == Spec => []ServerHeard
<1>1. Inv => ServerHeard
  BY DEF Inv
<1> QED
  BY <1>1, InitInv, NextInv, PTL DEF Spec

\* For any number of devices, dreams, edits, lost connections and killed
\* processes, a device on which nothing is under way shows exactly the diary
\* in the database, sorted as fetchContainers sorts it.
THEOREM ConvergenceCorrect == Spec => []Convergence
BY InitInv, NextInv, InvConvergence, PTL DEF Spec

-----------------------------------------------------------------------------
(* One device: what the server sends changes nothing that is shown. *)

OneDevice == \E d : Devices = {d}

\* No write of p behind the j-th determines key k; and n and m agree on all
\* such keys.
Free(p, j, k) == \A i \in DOMAIN p : i > j => ~Covers(p[i], k)

Agree(n, m, p, j) == \A k \in Keys : Free(p, j, k) => n[k] = m[k]

\* The server's value n has the puts it applied on this connection, the first
\* a of p, but for what the later ones will replace.
Landed(n, a, p) ==
    \A k \in Keys, i \in 1 .. a : LastCover(p, k, i) => n[k] = Put(p[i])

\* The answer to the m-th put in q: a value that is right but for what the
\* puts behind it determine, and the acknowledgement.
Answered(n, o, q, p, m) ==
    /\ q[o + 2 * m].type = "ack"
    /\ o + 2 * m > 1 =>
          q[o + 2 * m - 1].type = "data" /\ Agree(q[o + 2 * m - 1].node, n, p, m)

\* The messages in q answer the a puts in order; before them is the answer to
\* the listen (o = 1), nothing (o = 0), or the value of the first answer is
\* in the cache c already (o = -1).
Answers(n, o, a, q, c, p) ==
    /\ o \in {-1, 0, 1} /\ Len(q) = o + 2 * a
    /\ o = 1 => q[1].type = "data" /\ Agree(q[1].node, n, p, 0)
    /\ o = -1 => c # Unknown /\ Agree(c, n, p, 1)
    /\ \A m \in 1 .. a : Answered(n, o, q, p, m)

Own(n, c, p) == c # Unknown => Agree(c, n, p, 0)

Echoed(n, l, a, q, c, p) ==
    /\ l # "listening" => q = <<>> /\ a = 0
    /\ Landed(n, a, p) /\ Own(n, c, p)
    /\ \E o \in {-1, 0, 1} : Answers(n, o, a, q, c, p)

Echo(d) == Echoed(server, link[d], applied[d], down[d], cache[d], pending[d])

\* Fewer writes left out of account leave fewer keys to agree on.
LEMMA AgreeLess ==
    ASSUME NEW n, NEW m, NEW p \in Seq(Write), NEW j \in Nat, NEW l \in Nat, j <= l, Agree(n, m, p, l)
    PROVE  Agree(n, m, p, j)
<1>1. \A i \in DOMAIN p : i > l => i > j
  OBVIOUS
<1> QED
  BY <1>1 DEF Agree, Free

\* Agreement while one more write is pending.
LEMMA AgreeAppend ==
    ASSUME NEW n, NEW m, NEW p \in Seq(Write), NEW j \in Nat, NEW w \in Write, Agree(n, m, p, j)
    PROVE  Agree(n, m, Append(p, w), j)
<1>1. \A i \in DOMAIN p : i \in DOMAIN Append(p, w) /\ Append(p, w)[i] = p[i]
  OBVIOUS
<1> QED
  BY <1>1 DEF Agree, Free

\* Agreement after the first write was retired.
LEMMA AgreeTail ==
    ASSUME NEW n, NEW m, NEW p \in Seq(Write), p # <<>>, NEW j \in Nat, Agree(n, m, p, j + 1)
    PROVE  Agree(n, m, Tail(p), j)
<1>1. Len(p) \in Nat /\ DOMAIN p = 1 .. Len(p) /\ DOMAIN Tail(p) = 1 .. Len(p) - 1
      /\ \A i \in 1 .. Len(p) - 1 : Tail(p)[i] = p[i + 1]
  OBVIOUS
<1>2. ASSUME NEW i \in DOMAIN p, i > j + 1
      PROVE  i - 1 \in DOMAIN Tail(p) /\ i - 1 > j /\ Tail(p)[i - 1] = p[i]
  <2>1. i - 1 \in 1 .. Len(p) - 1 /\ (i - 1) + 1 = i
    BY <1>1, <1>2
  <2> QED
    BY <2>1, <1>1, <1>2
<1>3. ASSUME NEW k \in Keys, Free(Tail(p), j, k) PROVE Free(p, j + 1, k)
  <2> SUFFICES ASSUME NEW i \in DOMAIN p, i > j + 1 PROVE ~Covers(p[i], k)
    BY DEF Free
  <2> QED
    BY <1>2, <1>3 DEF Free
<1> QED
  BY <1>3 DEF Agree

\* Agreement after the server applied one of the later writes.
LEMMA AgreeApply ==
    ASSUME NEW n, NEW m, NEW p \in Seq(Write), NEW j, NEW l \in DOMAIN p, l > j, Agree(n, m, p, j)
    PROVE  Agree(n, Apply(m, p[l]), p, j)
<1> SUFFICES ASSUME NEW k \in Keys, Free(p, j, k) PROVE n[k] = Apply(m, p[l])[k]
  BY DEF Agree
<1>1. ~Covers(p[l], k)
  BY DEF Free
<1>2. Apply(m, p[l])[k] = m[k]
  BY <1>1 DEF Apply
<1> QED
  BY <1>2 DEF Agree

\* A new write of the device.
LEMMA EchoedWrite ==
    ASSUME NEW n, NEW l, NEW a \in Nat, NEW q, NEW c, NEW p \in Seq(Write), a <= Len(p),
           NEW w \in Write, Echoed(n, l, a, q, c, p)
    PROVE  Echoed(n, l, a, q, c, Append(p, w))
<1> DEFINE r == Append(p, w)
<1>1. PICK o \in {-1, 0, 1} : Answers(n, o, a, q, c, p)
  BY DEF Echoed
<1>2. \A x, j : j \in Nat /\ Agree(x, n, p, j) => Agree(x, n, r, j)
  BY AgreeAppend
<1>3. \A i \in DOMAIN p : i \in DOMAIN r /\ r[i] = p[i]
  OBVIOUS
<1> HIDE DEF r
<1>4. Landed(n, a, r)
  <2> SUFFICES ASSUME NEW k \in Keys, NEW i \in 1 .. a, LastCover(r, k, i) PROVE n[k] = Put(r[i])
    BY DEF Landed
  <2>1. i \in DOMAIN p /\ r[i] = p[i]
    BY <1>3
  <2>2. LastCover(p, k, i)
    BY <2>1, <1>3 DEF LastCover
  <2> QED
    BY <2>1, <2>2 DEF Echoed, Landed
<1>5. Own(n, c, r)
  BY <1>2 DEF Echoed, Own
<1>6. Answers(n, o, a, q, c, r)
  <2>1. ASSUME NEW m \in 1 .. a PROVE Answered(n, o, q, r, m)
    <3>1. Answered(n, o, q, p, m) /\ m \in Nat
      BY <1>1 DEF Answers
    <3> QED
      BY <3>1, <1>2 DEF Answered
  <2> QED
    BY <2>1, <1>1, <1>2 DEF Answers
<1> QED
  BY <1>4, <1>5, <1>6 DEF Echoed, r

\* The next message is a value.
LEMMA EchoedData ==
    ASSUME NEW n, NEW l, NEW a \in Nat, NEW q \in Seq(Message), q # <<>>, NEW c, NEW p \in Seq(Write),
           q[1].type = "data", q[1].node # Unknown, Echoed(n, l, a, q, c, p)
    PROVE  Agree(q[1].node, n, p, 0) /\ Echoed(n, l, a, Tail(q), q[1].node, p)
<1> DEFINE x == q[1].node
           r == Tail(q)
<1>1. PICK o \in {-1, 0, 1} : Answers(n, o, a, q, c, p)
  BY DEF Echoed
<1>2. Len(q) \in Nat /\ Len(q) > 0 /\ Len(r) = Len(q) - 1 /\ \A i \in 1 .. Len(q) - 1 : r[i] = q[i + 1]
  OBVIOUS
<1> HIDE DEF r
<1>3. l = "listening"
  BY DEF Echoed
<1>4. o # -1
  <2> SUFFICES ASSUME o = -1 PROVE FALSE
    OBVIOUS
  <2>1. 1 \in 1 .. a
    BY <1>1, <1>2 DEF Answers
  <2>2. q[o + 2 * 1].type = "ack"
    BY <2>1, <1>1 DEF Answers, Answered
  <2> QED
    BY <2>2
<1>5. ASSUME NEW m \in 1 .. a PROVE Answered(n, o - 1, r, p, m)
  <2>1. Answered(n, o, q, p, m) /\ o + 2 * a = Len(q)
    BY <1>1 DEF Answers
  <2>2. o + 2 * m \in 2 .. Len(q) /\ o - 1 + 2 * m = o + 2 * m - 1
    BY <2>1, <1>2, <1>4
  <2>3. r[o - 1 + 2 * m] = q[o + 2 * m]
    <3>1. o - 1 + 2 * m \in 1 .. Len(q) - 1 /\ (o - 1 + 2 * m) + 1 = o + 2 * m
      BY <2>2, <1>2
    <3> QED
      BY <3>1, <1>2
  <2>4. ASSUME o - 1 + 2 * m > 1
        PROVE  r[o - 1 + 2 * m - 1] = q[o + 2 * m - 1]
    <3>1. o - 1 + 2 * m - 1 \in 1 .. Len(q) - 1 /\ (o - 1 + 2 * m - 1) + 1 = o + 2 * m - 1
      BY <2>2, <2>4, <1>2
    <3> QED
      BY <3>1, <1>2
  <2>5. o - 1 + 2 * m > 1 => o + 2 * m > 1
    OBVIOUS
  <2> QED
    BY <2>1, <2>3, <2>4, <2>5 DEF Answered
<1>6. CASE o = 1
  <2>1. Agree(x, n, p, 0)
    BY <1>1, <1>6 DEF Answers
  <2>2. Answers(n, 0, a, r, x, p)
    BY <1>1, <1>2, <1>5, <1>6 DEF Answers
  <2>3. Own(n, x, p)
    BY <2>1 DEF Own
  <2> HIDE DEF x
  <2>4. Echoed(n, l, a, r, x, p)
    BY <2>2, <2>3, <1>3 DEF Echoed
  <2> QED
    BY <2>1, <2>4 DEF x, r
<1>7. CASE o = 0
  <2>1. 1 \in 1 .. a
    BY <1>1, <1>2, <1>7 DEF Answers
  <2>2. Answered(n, 0, q, p, 1)
    BY <2>1, <1>1, <1>7 DEF Answers
  <2>3. Agree(x, n, p, 1)
    BY <2>2 DEF Answered
  <2>4. Agree(x, n, p, 0)
    BY <2>3, AgreeLess
  <2>5. Answers(n, -1, a, r, x, p)
    BY <2>3, <1>1, <1>2, <1>5, <1>7 DEF Answers
  <2>6. Own(n, x, p)
    BY <2>4 DEF Own
  <2> HIDE DEF x
  <2>7. Echoed(n, l, a, r, x, p)
    BY <2>5, <2>6, <1>3 DEF Echoed
  <2> QED
    BY <2>4, <2>7 DEF x, r
<1> QED
  BY <1>4, <1>6, <1>7

\* The next message is an acknowledgement: the oldest put retires.
LEMMA EchoedAck ==
    ASSUME NEW n, NEW l, NEW a \in Nat, NEW q \in Seq(Message), q # <<>>, NEW c, NEW p \in Seq(Write),
           a <= Len(p), q[1].type = "ack", Echoed(n, l, a, q, c, p)
    PROVE  /\ a > 0 /\ c # Unknown /\ Agree(c, n, p, 1)
           /\ Echoed(n, l, a - 1, Tail(q), c, Tail(p))
<1> DEFINE r == Tail(q)
           t == Tail(p)
<1>1. PICK o \in {-1, 0, 1} : Answers(n, o, a, q, c, p)
  BY DEF Echoed
<1>2. Len(q) \in Nat /\ Len(q) > 0 /\ Len(r) = Len(q) - 1 /\ \A i \in 1 .. Len(q) - 1 : r[i] = q[i + 1]
  OBVIOUS
<1>3. l = "listening"
  BY DEF Echoed
<1>4. o = -1
  <2>1. o # 1
    BY <1>1 DEF Answers
  <2>2. ASSUME o = 0 PROVE FALSE
    <3>1. 1 \in 1 .. a
      BY <1>1, <1>2, <2>2 DEF Answers
    <3>2. Answered(n, 0, q, p, 1)
      BY <3>1, <1>1, <2>2 DEF Answers
    <3>3. q[0 + 2 * 1 - 1] = q[1]
      OBVIOUS
    <3> QED
      BY <3>2, <3>3 DEF Answered
  <2> QED
    BY <2>1, <2>2
<1>5. a > 0 /\ c # Unknown /\ Agree(c, n, p, 1) /\ Len(q) = 2 * a - 1
  BY <1>1, <1>2, <1>4 DEF Answers
<1>6. p # <<>> /\ Len(p) \in Nat /\ DOMAIN p = 1 .. Len(p) /\ DOMAIN t = 1 .. Len(p) - 1
      /\ \A i \in 1 .. Len(p) - 1 : t[i] = p[i + 1]
  BY <1>5
<1>7. \A x, j : j \in Nat /\ Agree(x, n, p, j + 1) => Agree(x, n, t, j)
  BY <1>6, AgreeTail
<1> HIDE DEF r, t
<1>8. Landed(n, a - 1, t)
  <2> SUFFICES ASSUME NEW k \in Keys, NEW i \in 1 .. a - 1, LastCover(t, k, i) PROVE n[k] = Put(t[i])
    BY DEF Landed
  <2>1. i + 1 \in 1 .. a /\ i + 1 \in DOMAIN p /\ t[i] = p[i + 1] /\ i \in Nat
    BY <1>5, <1>6
  <2>2. ASSUME NEW j \in DOMAIN p, j > i + 1 PROVE ~Covers(p[j], k)
    <3>1. j - 1 \in DOMAIN t /\ j - 1 > i /\ (j - 1) + 1 = j
      BY <2>1, <2>2, <1>6
    <3>2. t[j - 1] = p[j]
      BY <3>1, <1>6
    <3> QED
      BY <3>1, <3>2 DEF LastCover
  <2>3. LastCover(p, k, i + 1)
    BY <2>1, <2>2 DEF LastCover
  <2> QED
    BY <2>1, <2>3 DEF Echoed, Landed
<1>9. Own(n, c, t)
  BY <1>5, <1>7 DEF Own
<1>10. Answers(n, 0, a - 1, r, c, t)
  <2>1. ASSUME NEW m \in 1 .. a - 1 PROVE Answered(n, 0, r, t, m)
    <3>1. m + 1 \in 1 .. a /\ m \in Nat
      BY <1>5
    <3>2. Answered(n, -1, q, p, m + 1)
      BY <3>1, <1>1, <1>4 DEF Answers
    <3>3. /\ -1 + 2 * (m + 1) = 2 * m + 1 /\ -1 + 2 * (m + 1) - 1 = 2 * m /\ -1 + 2 * (m + 1) > 1
          /\ 0 + 2 * m = 2 * m /\ 0 + 2 * m - 1 = 2 * m - 1
      BY <3>1
    <3>4. q[2 * m + 1].type = "ack" /\ q[2 * m].type = "data" /\ Agree(q[2 * m].node, n, p, m + 1)
      BY <3>2, <3>3 DEF Answered
    <3>5. r[2 * m] = q[2 * m + 1] /\ r[2 * m - 1] = q[2 * m]
      <4>1. 2 * m \in 1 .. Len(q) - 1 /\ 2 * m - 1 \in 1 .. Len(q) - 1 /\ (2 * m - 1) + 1 = 2 * m
        BY <1>5
      <4> QED
        BY <4>1, <1>2
    <3>6. Agree(q[2 * m].node, n, t, m)
      BY <3>1, <3>4, <1>7
    <3> QED
      BY <3>3, <3>4, <3>5, <3>6 DEF Answered
  <2>2. Len(r) = 0 + 2 * (a - 1)
    BY <1>2, <1>5
  <2> QED
    BY <2>1, <2>2 DEF Answers
<1>11. Echoed(n, l, a - 1, r, c, t)
  BY <1>3, <1>8, <1>9, <1>10 DEF Echoed
<1> QED
  BY <1>5, <1>11 DEF r, t

\* The answer to a put is exact when it is sent.
LEMMA AnsweredLast ==
    ASSUME NEW z, NEW p, NEW r, NEW a \in Nat, NEW o \in Int, NEW h \in Nat, o + 2 * (a + 1) = h + 2,
           r[h + 1] = [type |-> "data", node |-> z], r[h + 2] = [type |-> "ack"]
    PROVE  Answered(z, o, r, p, a + 1)
<1>1. Agree(z, z, p, a + 1)
  BY DEF Agree
<1>2. ASSUME NEW i \in Int, i = h + 2
      PROVE  r[i].type = "ack" /\ r[i - 1].type = "data" /\ r[i - 1].node = z
  <2>1. i - 1 = h + 1
    BY <1>2
  <2>2. r[i] = [type |-> "ack"] /\ r[i - 1] = [type |-> "data", node |-> z]
    BY <1>2, <2>1
  <2> QED
    BY <2>2
<1>3. o + 2 * (a + 1) \in Int
  OBVIOUS
<1> QED
  BY <1>1, <1>2, <1>3 DEF Answered

\* The server applies the next put, pushes the value and acknowledges.
LEMMA EchoedApply ==
    ASSUME NEW n, NEW a \in Nat, NEW q \in Seq(Message), NEW c, NEW p \in Seq(Write), a < Len(p),
           Echoed(n, "listening", a, q, c, p), NEW z, z = Apply(n, p[a + 1]), NEW r,
           r = q \o <<[type |-> "data", node |-> z], [type |-> "ack"]>>
    PROVE  Echoed(z, "listening", a + 1, r, c, p)
<1>1. PICK o \in {-1, 0, 1} : Answers(n, o, a, q, c, p)
  BY DEF Echoed
<1>2. a + 1 \in DOMAIN p /\ a + 1 \in Nat
  OBVIOUS
<1>3. \A x, j : j \in Nat /\ j <= a /\ Agree(x, n, p, j) => Agree(x, z, p, j)
  <2> SUFFICES ASSUME NEW x, NEW j \in Nat, j <= a, Agree(x, n, p, j) PROVE Agree(x, z, p, j)
    OBVIOUS
  <2>1. a + 1 > j
    OBVIOUS
  <2> QED
    BY <2>1, <1>2, AgreeApply
<1>4. /\ Len(r) = Len(q) + 2 /\ Len(q) \in Nat
      /\ \A i \in 1 .. Len(q) : r[i] = q[i]
      /\ r[Len(q) + 1] = [type |-> "data", node |-> z] /\ r[Len(q) + 2] = [type |-> "ack"]
  OBVIOUS
<1>5. Len(q) = o + 2 * a
  BY <1>1 DEF Answers
<1>6. Landed(z, a + 1, p)
  <2> SUFFICES ASSUME NEW k \in Keys, NEW i \in 1 .. a + 1, LastCover(p, k, i) PROVE z[k] = Put(p[i])
    BY DEF Landed
  <2>1. CASE i = a + 1
    BY <2>1 DEF LastCover, Apply
  <2>2. CASE i \in 1 .. a
    <3>1. ~Covers(p[a + 1], k)
      BY <2>2, <1>2 DEF LastCover
    <3>2. z[k] = n[k]
      BY <3>1 DEF Apply
    <3> QED
      BY <3>2, <2>2 DEF Echoed, Landed
  <2> QED
    BY <2>1, <2>2
<1>a. \A x : Agree(x, n, p, 0) => Agree(x, z, p, 0)
  <2>1. 0 \in Nat /\ 0 <= a
    OBVIOUS
  <2> QED
    BY <2>1, <1>3
<1>7. Own(z, c, p)
  BY <1>a DEF Echoed, Own
<1>8. Answers(z, o, a + 1, r, c, p)
  <2>1. Len(r) = o + 2 * (a + 1)
    BY <1>4, <1>5, SMTT(30)
  <2>2. ASSUME o = 1 PROVE r[1].type = "data" /\ Agree(r[1].node, z, p, 0)
    <3>1. r[1] = q[1]
      BY <1>4, <1>5, <2>2
    <3> QED
      BY <3>1, <2>2, <1>1, <1>a DEF Answers
  <2>3. ASSUME o = -1 PROVE c # Unknown /\ Agree(c, z, p, 1)
    <3>1. 1 <= a
      BY <1>4, <1>5, <2>3
    <3> QED
      BY <3>1, <2>3, <1>1, <1>3 DEF Answers
  <2>4. ASSUME NEW m \in 1 .. a PROVE Answered(z, o, r, p, m)
    <3>1. Answered(n, o, q, p, m) /\ m \in Nat /\ m <= a
      BY <1>1 DEF Answers
    <3>2. r[o + 2 * m] = q[o + 2 * m]
      <4>1. o + 2 * m \in 1 .. Len(q)
        BY <1>5
      <4> QED
        BY <4>1, <1>4
    <3>3. o + 2 * m > 1 => r[o + 2 * m - 1] = q[o + 2 * m - 1]
      <4>1. o + 2 * m > 1 => o + 2 * m - 1 \in 1 .. Len(q)
        BY <1>5
      <4> QED
        BY <4>1, <1>4
    <3> QED
      BY <3>1, <3>2, <3>3, <1>3 DEF Answered
  <2>5. Answered(z, o, r, p, a + 1)
    <3>1. o + 2 * (a + 1) = Len(q) + 2 /\ o \in Int
      BY <1>5
    <3> QED
      BY <3>1, <1>4, AnsweredLast
  <2>6. \A m \in 1 .. a + 1 : m \in 1 .. a \/ m = a + 1
    OBVIOUS
  <2> QED
    BY <2>1, <2>2, <2>3, <2>4, <2>5, <2>6 DEF Answers
<1> QED
  BY <1>6, <1>7, <1>8 DEF Echoed

\* What the device shows under a key: the last write that determines it ...
LEMMA VisibleCovered ==
    ASSUME NEW c, c # Unknown, NEW p \in Seq(Write), NEW k \in Keys,
           NEW i \in DOMAIN p, LastCover(p, k, i)
    PROVE  Visible(c, p)[k] = Put(p[i])
<1> DEFINE j == CHOOSE h \in DOMAIN p : LastCover(p, k, h)
           V(h) == IF \E g \in DOMAIN p : Covers(p[g], h)
                   THEN Put(p[CHOOSE g \in DOMAIN p : LastCover(p, h, g)])
                   ELSE c[h]
<1>1. Visible(c, p) = [h \in Keys |-> V(h)]
  BY DEF Visible
<1>2. Visible(c, p)[k] = V(k)
  BY <1>1
<1>3. j \in DOMAIN p /\ LastCover(p, k, j)
  BY Zenon
<1>4. Covers(p[i], k)
  BY DEF LastCover
<1>5. V(k) = Put(p[j])
  BY <1>4
<1> HIDE DEF j, V
<1>6. ~(j > i) /\ ~(i > j)
  BY <1>3 DEF LastCover
<1>7. i \in Nat /\ j \in Nat
  BY <1>3
<1>8. i = j
  BY <1>6, <1>7
<1> QED
  BY <1>2, <1>5, <1>8

\* ... and where there is none the cache.
LEMMA VisibleFree ==
    ASSUME NEW c, c # Unknown, NEW p \in Seq(Write), NEW k \in Keys, Free(p, 0, k)
    PROVE  Visible(c, p)[k] = c[k]
<1>1. \A i \in DOMAIN p : i > 0
  OBVIOUS
<1>2. ~\E i \in DOMAIN p : Covers(p[i], k)
  BY <1>1 DEF Free
<1> QED
  BY <1>2 DEF Visible

\* Every key is free or has a last write.
LEMMA FreeOrCovered ==
    ASSUME NEW p \in Seq(Write), NEW k
    PROVE  Free(p, 0, k) \/ \E i \in DOMAIN p : LastCover(p, k, i)
BY LastCoverExists DEF Free

\* A device that has loaded shows a node.
LEMMA VisibleLoaded ==
    ASSUME NEW c \in Node, NEW p \in Seq(Write)
    PROVE  Visible(c, p) \in Node
<1>1. c # Unknown
  BY UnknownAssumption
<1>2. ASSUME NEW k \in Keys PROVE Visible(c, p)[k] \in Dream \cup {None}
  <2>1. CASE Free(p, 0, k)
    BY <2>1, <1>1, VisibleFree DEF Node
  <2>2. CASE \E i \in DOMAIN p : LastCover(p, k, i)
    <3>1. PICK i \in DOMAIN p : LastCover(p, k, i)
      BY <2>2
    <3>2. Visible(c, p)[k] = Put(p[i])
      BY <3>1, <1>1, VisibleCovered
    <3>3. p[i] \in Write
      OBVIOUS
    <3> QED
      BY <3>2, <3>3, PutType
  <2> QED
    BY <2>1, <2>2, FreeOrCovered
<1>3. Visible(c, p) = [k \in Keys |-> Visible(c, p)[k]]
  BY <1>1 DEF Visible
<1> QED
  BY <1>2, <1>3 DEF Node

\* What is shown is determined key by key.
LEMMA VisibleEqual ==
    ASSUME NEW c \in Node, NEW x \in Node, NEW p \in Seq(Write), NEW r \in Seq(Write),
           \A k \in Keys : Visible(c, p)[k] = Visible(x, r)[k]
    PROVE  Visible(c, p) = Visible(x, r)
<1>1. Visible(c, p) \in Node /\ Visible(x, r) \in Node
  BY VisibleLoaded
<1> QED
  BY <1>1 DEF Node

\* A value that is right but for what the pending writes determine is shown
\* as the one before it was.
LEMMA VisibleAgree ==
    ASSUME NEW c \in Node, NEW x \in Node, NEW n, NEW p \in Seq(Write),
           Agree(c, n, p, 0), Agree(x, n, p, 0)
    PROVE  Visible(x, p) = Visible(c, p)
<1>1. c # Unknown /\ x # Unknown
  BY UnknownAssumption
<1>2. ASSUME NEW k \in Keys PROVE Visible(x, p)[k] = Visible(c, p)[k]
  <2>1. CASE Free(p, 0, k)
    <3>1. c[k] = x[k]
      BY <2>1 DEF Agree
    <3>2. Visible(x, p)[k] = x[k] /\ Visible(c, p)[k] = c[k]
      BY <1>1, <2>1, VisibleFree
    <3> QED
      BY <3>1, <3>2
  <2>2. CASE \E i \in DOMAIN p : LastCover(p, k, i)
    <3>1. PICK i \in DOMAIN p : LastCover(p, k, i)
      BY <2>2
    <3>2. Visible(x, p)[k] = Put(p[i]) /\ Visible(c, p)[k] = Put(p[i])
      BY <1>1, <3>1, VisibleCovered
    <3> QED
      BY <3>2
  <2> QED
    BY <2>1, <2>2, FreeOrCovered
<1> QED
  BY <1>2, VisibleEqual

\* The put that retires is in the cache by then.
LEMMA VisibleRetire ==
    ASSUME NEW c \in Node, NEW n, NEW a \in Nat, a > 0, NEW p \in Seq(Write), p # <<>>,
           Agree(c, n, p, 1), Landed(n, a, p)
    PROVE  Visible(c, Tail(p)) = Visible(c, p)
<1> DEFINE t == Tail(p)
<1>1. c # Unknown
  BY UnknownAssumption
<1>2. /\ Len(p) \in Nat /\ Len(p) > 0 /\ DOMAIN p = 1 .. Len(p) /\ DOMAIN t = 1 .. Len(p) - 1
      /\ \A i \in 1 .. Len(p) - 1 : t[i] = p[i + 1]
      /\ t \in Seq(Write)
  OBVIOUS
<1> HIDE DEF t
<1>3. \A j \in DOMAIN p : j > 1 => j - 1 \in DOMAIN t /\ t[j - 1] = p[j]
  <2> SUFFICES ASSUME NEW j \in DOMAIN p, j > 1 PROVE j - 1 \in DOMAIN t /\ t[j - 1] = p[j]
    OBVIOUS
  <2>1. j - 1 \in 1 .. Len(p) - 1 /\ (j - 1) + 1 = j
    BY <1>2
  <2> QED
    BY <2>1, <1>2
<1>4. ASSUME NEW k \in Keys PROVE Visible(c, t)[k] = Visible(c, p)[k]
  <2>1. CASE \E i \in DOMAIN t : LastCover(t, k, i)
    <3>1. PICK i \in DOMAIN t : LastCover(t, k, i)
      BY <2>1
    <3>2. i + 1 \in DOMAIN p /\ t[i] = p[i + 1] /\ i \in Nat
      BY <1>2
    <3>3. ASSUME NEW j \in DOMAIN p, j > i + 1 PROVE ~Covers(p[j], k)
      <4>1. j - 1 \in DOMAIN t /\ t[j - 1] = p[j] /\ j - 1 > i
        BY <3>2, <3>3, <1>3, <1>2
      <4> QED
        BY <4>1, <3>1 DEF LastCover
    <3>4. LastCover(p, k, i + 1)
      BY <3>1, <3>2, <3>3 DEF LastCover
    <3>5. Visible(c, t)[k] = Put(t[i])
      BY <3>1, <1>1, <1>2, VisibleCovered
    <3>6. Visible(c, p)[k] = Put(p[i + 1])
      BY <3>2, <3>4, <1>1, VisibleCovered
    <3> QED
      BY <3>2, <3>5, <3>6
  <2>2. CASE Free(t, 0, k)
    <3>1. ASSUME NEW j \in DOMAIN p, j > 1 PROVE ~Covers(p[j], k)
      <4>1. j - 1 \in DOMAIN t /\ t[j - 1] = p[j] /\ j - 1 > 0
        BY <3>1, <1>3, <1>2
      <4> QED
        BY <4>1, <2>2 DEF Free
    <3>2. c[k] = n[k]
      BY <3>1 DEF Agree, Free
    <3>3. Visible(c, t)[k] = c[k]
      BY <2>2, <1>1, <1>2, VisibleFree
    <3>4. 1 \in DOMAIN p /\ 1 \in 1 .. a
      BY <1>2
    <3>5. CASE Covers(p[1], k)
      <4>1. LastCover(p, k, 1)
        BY <3>1, <3>5 DEF LastCover
      <4>2. n[k] = Put(p[1])
        BY <4>1, <3>4 DEF Landed
      <4>3. Visible(c, p)[k] = Put(p[1])
        <5>1. PICK i \in DOMAIN p : i = 1 /\ LastCover(p, k, i)
          BY <4>1, <3>4
        <5>2. LastCover(p, k, i)
          BY <5>1
        <5>3. Visible(c, p)[k] = Put(p[i])
          BY <5>2, <1>1, VisibleCovered
        <5> QED
          BY <5>1, <5>3
      <4> QED
        BY <3>2, <3>3, <4>2, <4>3
    <3>6. CASE ~Covers(p[1], k)
      <4>1. \A j \in DOMAIN p : j = 1 \/ j > 1
        BY <1>2
      <4>2. Free(p, 0, k)
        BY <4>1, <3>1, <3>6 DEF Free
      <4>3. Visible(c, p)[k] = c[k]
        BY <4>2, <1>1, VisibleFree
      <4> QED
        BY <3>3, <4>3
    <3> QED
      BY <3>5, <3>6
  <2> QED
    BY <2>1, <2>2, <1>2, FreeOrCovered
<1>5. Visible(c, t) = Visible(c, p)
  BY <1>2, <1>4, VisibleEqual
<1> QED
  BY <1>5 DEF t

\* A connection on which nothing was sent, and one on which the listen alone
\* was answered.
LEMMA EchoedFresh ==
    ASSUME NEW n, NEW c, NEW p \in Seq(Write), Own(n, c, p)
    PROVE  /\ \A l : Echoed(n, l, 0, <<>>, c, p)
           /\ Echoed(n, "listening", 0, <<[type |-> "data", node |-> n]>>, c, p)
<1>1. Landed(n, 0, p) /\ 1 .. 0 = {}
  BY DEF Landed
<1>2. Len(<<>>) = 0 + 2 * 0
  OBVIOUS
<1>3. Answers(n, 0, 0, <<>>, c, p)
  BY <1>1, <1>2 DEF Answers
<1>4. Agree(n, n, p, 0)
  BY DEF Agree
<1> DEFINE q == <<[type |-> "data", node |-> n]>>
<1>5. Len(q) = 1 + 2 * 0 /\ q[1].type = "data" /\ q[1].node = n
  OBVIOUS
<1> HIDE DEF q
<1>6. Answers(n, 1, 0, q, c, p)
  BY <1>1, <1>4, <1>5 DEF Answers
<1>7. Echoed(n, "listening", 0, q, c, p)
  BY <1>1, <1>6 DEF Echoed
<1>8. \A l : Echoed(n, l, 0, <<>>, c, p)
  BY <1>1, <1>3 DEF Echoed
<1> QED
  BY <1>7, <1>8 DEF q

\* What a step does not touch.
LEMMA EchoFrame ==
    ASSUME NEW d \in Devices, Echo(d), server' = server, cache'[d] = cache[d], pending'[d] = pending[d],
           link'[d] = link[d], applied'[d] = applied[d], down'[d] = down[d]
    PROVE  Echo(d)'
BY DEF Echo

\* The types of what Echo(d) is about.
LEMMA EchoTypes ==
    ASSUME TypeInv, NEW d \in Devices
    PROVE  /\ server \in Node /\ cache[d] \in Node \cup {Unknown} /\ pending[d] \in Seq(Write)
           /\ applied[d] \in Nat /\ applied[d] <= Len(pending[d]) /\ down[d] \in Seq(Message)
BY DEF TypeInv, TypeOK, AcksMatch

\* The connection comes and goes, the process ends.
LEMMA LinkEcho ==
    ASSUME TypeInv, NEW d \in Devices, Echo(d),
           Connect(d) \/ Listen(d) \/ Drop(d) \/ Kill(d) \/ RunTrap(d)
    PROVE  Echo(d)'
<1>1. server' = server
  BY DEF Connect, Listen, Drop, Kill, RunTrap
<1>2. Own(server, cache[d], pending[d]) /\ (link[d] # "listening" => down[d] = <<>> /\ applied[d] = 0)
  BY DEF Echo, Echoed
<1>3. pending[d] \in Seq(Write)
  BY EchoTypes
<1>4. CASE Connect(d) \/ Drop(d)
  <2>1. /\ cache'[d] = cache[d] /\ pending'[d] = pending[d]
        /\ applied'[d] = 0 /\ down'[d] = <<>>
    BY <1>2, <1>4 DEF Connect, Drop, TypeInv, TypeOK, sdkVars
  <2> QED
    BY <1>1, <1>2, <1>3, <2>1, EchoedFresh DEF Echo
<1>5. CASE Listen(d)
  <2>1. /\ cache'[d] = cache[d] /\ pending'[d] = pending[d] /\ link'[d] = "listening"
        /\ applied'[d] = 0 /\ down'[d] = Append(<<>>, [type |-> "data", node |-> server])
    BY <1>2, <1>5 DEF Listen, TypeInv, TypeOK, sdkVars
  <2>2. Append(<<>>, [type |-> "data", node |-> server]) = <<[type |-> "data", node |-> server]>>
    OBVIOUS
  <2>3. Echoed(server, "listening", 0, <<[type |-> "data", node |-> server]>>, cache[d], pending[d])
    BY <1>2, <1>3, EchoedFresh
  <2> QED
    BY <1>1, <2>1, <2>2, <2>3 DEF Echo
<1>6. CASE Kill(d) \/ RunTrap(d)
  <2>1. cache'[d] = Unknown /\ pending'[d] = <<>> /\ applied'[d] = 0 /\ down'[d] = <<>>
    BY <1>6 DEF Kill, RunTrap, End, TypeInv, TypeOK
  <2>2. Own(server, Unknown, <<>>) /\ <<>> \in Seq(Write)
    BY DEF Own
  <2> QED
    BY <1>1, <2>1, <2>2, EchoedFresh DEF Echo
<1> QED
  BY <1>4, <1>5, <1>6

\* The server sends something, or the device writes.
LEMMA TrafficEcho ==
    ASSUME TypeInv, NEW d \in Devices, Echo(d), Receive(d) \/ ServerApply(d) \/ ApplyUserOverwrite(d)
    PROVE  Echo(d)'
<1>1. Echoed(server, link[d], applied[d], down[d], cache[d], pending[d])
  BY DEF Echo
<1>2. CASE OnDataUpdate(d)
  <2> DEFINE x == Head(down[d]).node
  <2>1. down[d] # <<>> /\ down[d][1].type = "data" /\ down[d][1] = Head(down[d])
    BY <1>2 DEF OnDataUpdate
  <2>2. x \in Node
    BY <1>2, <2>1, DataNode, EchoTypes DEF OnDataUpdate
  <2>3. x # Unknown
    BY <2>2, UnknownAssumption
  <2>4. /\ server' = server /\ cache'[d] = x /\ pending'[d] = pending[d]
        /\ link' = link /\ applied' = applied /\ down'[d] = Tail(down[d])
    BY <1>2 DEF OnDataUpdate, Notify, TypeInv, TypeOK
  <2>5. Echoed(server, link[d], applied[d], Tail(down[d]), x, pending[d])
    BY <1>1, <2>1, <2>3, EchoedData, EchoTypes
  <2> QED
    BY <2>4, <2>5 DEF Echo
<1>3. CASE AckWrite(d)
  <2>1. down[d] # <<>> /\ down[d][1].type = "ack"
    BY <1>3 DEF AckWrite
  <2>2. /\ server' = server /\ cache'[d] = cache[d] /\ pending'[d] = Tail(pending[d])
        /\ link' = link /\ applied'[d] = applied[d] - 1 /\ down'[d] = Tail(down[d])
    BY <1>3 DEF AckWrite, Notify, TypeInv, TypeOK
  <2>3. Echoed(server, link[d], applied[d] - 1, Tail(down[d]), cache[d], Tail(pending[d]))
    BY <1>1, <2>1, EchoedAck, EchoTypes
  <2> QED
    BY <2>2, <2>3 DEF Echo
<1>4. CASE ServerApply(d)
  <2> DEFINE z == Apply(server, pending[d][applied[d] + 1])
             r == down[d] \o <<[type |-> "data", node |-> z], [type |-> "ack"]>>
  <2>1. link[d] = "listening" /\ applied[d] < Len(pending[d])
    BY <1>4 DEF ServerApply
  <2>2. /\ server' = z /\ cache' = cache /\ pending' = pending /\ link' = link
        /\ applied'[d] = applied[d] + 1 /\ down'[d] = r
    BY <1>4 DEF ServerApply, sdkVars, TypeInv, TypeOK
  <2> HIDE DEF z, r
  <2>3. Echoed(z, "listening", applied[d] + 1, r, cache[d], pending[d])
    <3>1. Echoed(server, "listening", applied[d], down[d], cache[d], pending[d])
      BY <1>1, <2>1
    <3>2. /\ z = Apply(server, pending[d][applied[d] + 1])
          /\ r = down[d] \o <<[type |-> "data", node |-> z], [type |-> "ack"]>>
      BY DEF z, r
    <3> QED
      BY <2>1, <3>1, <3>2, EchoedApply, EchoTypes
  <2> QED
    BY <2>1, <2>2, <2>3 DEF Echo
<1>5. CASE ApplyUserOverwrite(d)
  <2> DEFINE w == Head(sharedQ[d])
  <2>1. w \in Write
    <3>1. w \in Call /\ w # ObserveCall
      BY <1>5 DEF ApplyUserOverwrite, TypeInv, TypeOK
    <3> QED
      BY <3>1 DEF Call
  <2>2. /\ server' = server /\ cache'[d] = cache[d] /\ pending'[d] = Append(pending[d], w)
        /\ link' = link /\ applied' = applied /\ down' = down
    BY <1>5 DEF ApplyUserOverwrite, Notify, netVars, TypeInv, TypeOK
  <2> HIDE DEF w
  <2>3. Echoed(server, link[d], applied[d], down[d], cache[d], Append(pending[d], w))
    BY <1>1, <2>1, EchoedWrite, EchoTypes
  <2> QED
    BY <2>2, <2>3 DEF Echo
<1> QED
  BY <1>2, <1>3, <1>4, <1>5 DEF Receive

EchoInv == \A d \in Devices : Echo(d)

\* Every step of the one device and of the server keeps the echo.
LEMMA NextEcho == OneDevice /\ TypeInv /\ EchoInv /\ [Next]_vars => EchoInv'
<1> SUFFICES ASSUME OneDevice, TypeInv, EchoInv, [Next]_vars PROVE EchoInv'
  OBVIOUS
<1>1. ASSUME NEW d \in Devices, Echo(d)' PROVE EchoInv'
  BY <1>1 DEF OneDevice, EchoInv
<1>2. \A d \in Devices : Echo(d)
  BY DEF EchoInv
<1>3. ASSUME UNCHANGED <<server, cache, pending, netVars>> PROVE EchoInv'
  BY <1>2, <1>3, EchoFrame DEF EchoInv, netVars
<1>4. ASSUME NEW d \in Devices, UserStep(d) PROVE EchoInv'
  BY <1>3, <1>4 DEF UserStep, DateCheckAndSave, ConfirmReplace, AskDelete, ConfirmDelete,
     AskDeleteAll, ConfirmDeleteAll, CancelAlert, OpenSearch, Refresh, sdkVars
<1>5. ASSUME NEW d \in Devices, MainStep(d) PROVE EchoInv'
  <2>1. CASE RunTrap(d)
    BY <1>1, <1>2, <2>1, LinkEcho
  <2>2. CASE ~RunTrap(d)
    BY <1>3, <1>5, <2>2 DEF MainStep, RunFetch, RunEvent, RunRemove, RunRemoveAll, sdkVars
  <2> QED
    BY <2>1, <2>2
<1>6. ASSUME NEW d \in Devices, SharedStep(d) PROVE EchoInv'
  <2>1. CASE ApplyUserOverwrite(d)
    BY <1>1, <1>2, <2>1, TrafficEcho
  <2>2. CASE addEventRegistration(d)
    BY <1>3, <2>2 DEF addEventRegistration
  <2> QED
    BY <1>6, <2>1, <2>2 DEF SharedStep
<1>7. ASSUME NEW d \in Devices, Launch(d) PROVE EchoInv'
  BY <1>3, <1>7 DEF Launch, sdkVars
<1>8. ASSUME NEW d \in Devices, NetStep(d) PROVE EchoInv'
  BY <1>1, <1>2, <1>8, LinkEcho, TrafficEcho DEF NetStep
<1>9. ASSUME NEW d \in Devices, Receive(d) \/ Kill(d) \/ Drop(d) PROVE EchoInv'
  BY <1>1, <1>2, <1>9, LinkEcho, TrafficEcho
<1>10. CASE UNCHANGED vars
  BY <1>3, <1>10 DEF vars, sdkVars
<1>11. CASE Next
  BY <1>4, <1>5, <1>6, <1>7, <1>8, <1>9, <1>11 DEF Next
<1> QED
  BY <1>10, <1>11

\* A message of the server leaves what the device shows as it was.
LEMMA ReceiveSilent ==
    ASSUME TypeInv, NEW d \in Devices, Echo(d), Receive(d), cache[d] # Unknown
    PROVE  Shown(d)' = Shown(d)
<1>1. Echoed(server, link[d], applied[d], down[d], cache[d], pending[d])
  BY DEF Echo
<1>2. Landed(server, applied[d], pending[d]) /\ Agree(cache[d], server, pending[d], 0)
  BY <1>1 DEF Echoed, Own
<1>3. cache[d] \in Node
  BY EchoTypes
<1>4. CASE OnDataUpdate(d)
  <2> DEFINE x == Head(down[d]).node
  <2>1. down[d] # <<>> /\ down[d][1].type = "data" /\ down[d][1] = Head(down[d])
    BY <1>4 DEF OnDataUpdate
  <2>2. x \in Node
    BY <1>4, <2>1, DataNode, EchoTypes DEF OnDataUpdate
  <2>3. x # Unknown
    BY <2>2, UnknownAssumption
  <2>4. cache'[d] = x /\ pending'[d] = pending[d]
    BY <1>4 DEF OnDataUpdate, Notify, TypeInv, TypeOK
  <2>5. Agree(x, server, pending[d], 0)
    BY <1>1, <2>1, <2>3, EchoedData, EchoTypes
  <2> HIDE DEF x
  <2>6. Visible(x, pending[d]) = Visible(cache[d], pending[d])
    BY <1>2, <1>3, <2>2, <2>5, VisibleAgree, EchoTypes
  <2> QED
    BY <2>4, <2>6 DEF Shown
<1>5. CASE AckWrite(d)
  <2>1. down[d] # <<>> /\ down[d][1].type = "ack"
    BY <1>5 DEF AckWrite
  <2>2. cache'[d] = cache[d] /\ pending'[d] = Tail(pending[d])
    BY <1>5 DEF AckWrite, Notify, TypeInv, TypeOK
  <2>3. applied[d] > 0 /\ Agree(cache[d], server, pending[d], 1)
    BY <1>1, <2>1, EchoedAck, EchoTypes
  <2>4. pending[d] # <<>>
    BY <2>3, EchoTypes
  <2>5. Visible(cache[d], Tail(pending[d])) = Visible(cache[d], pending[d])
    BY <1>2, <1>3, <2>3, <2>4, VisibleRetire, EchoTypes
  <2> QED
    BY <2>2, <2>5 DEF Shown
<1> QED
  BY <1>4, <1>5 DEF Receive

\* With one device, whatever its user does and however often the connection
\* is lost or the process ends, no message of the server changes what the
\* screens show once the diary has been loaded: FRepo's echo of a write, the
\* acknowledgement that retires it and the value sent after a reconnect in
\* the middle of an updateAction agree with the writes still pending.
THEOREM EchoStaysSilent == OneDevice => (Spec => EchoIsSilent)
<1> SUFFICES ASSUME OneDevice PROVE Spec => EchoIsSilent
  OBVIOUS
<1>1. Init => TypeInv /\ EchoInv
  <2> SUFFICES ASSUME Init, NEW d \in Devices PROVE TypeInv /\ Echo(d)
    BY InitType DEF EchoInv, TypeInv
  <2>1. cache[d] = Unknown /\ pending[d] = <<>> /\ applied[d] = 0 /\ down[d] = <<>>
    BY DEF Init
  <2>2. Own(server, Unknown, <<>>) /\ <<>> \in Seq(Write)
    BY DEF Own
  <2> QED
    BY <2>1, <2>2, EchoedFresh, InitType DEF Echo, TypeInv
<1>2. TypeInv /\ EchoInv /\ [Next]_vars => TypeInv' /\ EchoInv'
  BY NextType, NextEcho
<1>3. TypeInv /\ EchoInv /\ [Next]_vars =>
         [\A d \in Devices : Receive(d) /\ cache[d] # Unknown => Shown(d)' = Shown(d)]_vars
  BY ReceiveSilent DEF EchoInv
<1> QED
  BY <1>1, <1>2, <1>3, PTL DEF Spec, EchoIsSilent

-----------------------------------------------------------------------------
(* One device and a patient user: the diary stays an array. *)

\* The user waits until the app caught up and has loaded the diary.
Patient == WaitEcho /\ WaitLoad

\* The keys of n that hold a dream are the first m; where the next dream goes
\* after write w; and w, if it stores a dream, stores it there.
Filled(n, m) == m \in Nat /\ Present(n) = 0 .. m - 1

Behind(w) == IF w.op = "remove" THEN 0 ELSE w.key + 1

Fits(n, w) == w.op = "set" => Filled(n, w.key)

\* Each write of p continues where the one before it stopped.
Chained(p) == \A i \in 2 .. Len(p) : p[i].op = "set" => p[i].key = Behind(p[i - 1])

\* What a patient user's device may have queued, calls q and blocks b, while
\* it shows n: it reads, it is about to remove, or it writes.
Reading(q, b) ==
    /\ \A i \in DOMAIN q : q[i] = ObserveCall
    /\ \A i \in DOMAIN b : b[i].do \in {"fetch", "event"}

Removing(q, b) ==
    /\ q = <<>>
    /\ Len(b) = 1 /\ b[1].do \in {"remove", "removeAll"}

Writing(q, b, n) ==
    /\ \A i \in DOMAIN q : q[i] # ObserveCall
    /\ Chained(q)
    /\ q # <<>> => Fits(n, q[1])
    /\ \A i \in DOMAIN b : b[i].do = "event"

Doing(q, b, n) == Reading(q, b) \/ Removing(q, b) \/ Writing(q, b, n)

\* No event in b will trap.
Legible(b) == \A i \in DOMAIN b : b[i].do = "event" => CastSucceeds(b[i].node)

\* Nothing but the fetch is under way before the diary has been loaded.
NotLoaded(n, p, q, b) ==
    /\ p = <<>> /\ CastSucceeds(n)
    /\ \A i \in DOMAIN q : q[i] = ObserveCall
    /\ \A i \in DOMAIN b : b[i].do = "fetch"

\* What a device shows that has loaded, v, with writes p pending.
Loaded(v, p) ==
    /\ \E m \in Nat : Filled(v, m)
    /\ p # <<>> => Filled(v, Behind(p[Len(p)]))

Patience(d) ==
    /\ Legible(mainQ[d])
    /\ Doing(sharedQ[d], mainQ[d], Shown(d))
    /\ Chained(pending[d])
    /\ cache[d] = Unknown => NotLoaded(server, pending[d], sharedQ[d], mainQ[d])
    /\ cache[d] # Unknown => Loaded(Shown(d), pending[d])

\* The server's value n, after a of the puts p, is an array that the next put
\* continues.
Continued(n, a, p) ==
    /\ \E m \in Nat : Filled(n, m)
    /\ a > 0 => Filled(n, Behind(p[a]))
    /\ a = 0 /\ p # <<>> => Fits(n, p[1])

Upright(d) == MaxDrops = 0 => Continued(server, applied[d], pending[d])

\* A process that does not run has no calls queued.
Stopped(d) == app[d] = "off" => sharedQ[d] = <<>>

PatientInv == \A d \in Devices : Stopped(d) /\ Patience(d) /\ Upright(d)

\* A node whose first keys are filled is read as an array.
LEMMA FilledReads ==
    ASSUME NEW n \in Node, NEW m, Filled(n, m)
    PROVE  CastSucceeds(n) /\ Cardinality(Present(n)) = m
<1>1. m \in Nat /\ Present(n) = 0 .. m - 1
  BY DEF Filled
<1>2. Cardinality(0 .. m - 1) = m
  <2>1. 0 \in Int /\ m - 1 \in Int /\ (0 > m - 1 <=> m = 0) /\ (m - 1) - 0 + 1 = m
    BY <1>1
  <2> QED
    BY <1>1, <2>1, FS_Interval
<1>3. ExportsArray(n)
  BY <1>1, <1>2 DEF ExportsArray
<1>4. ~HasHole(n)
  <2> SUFFICES ASSUME NEW k \in Present(n), NEW j \in 0 .. k, n[j] = None PROVE FALSE
    BY DEF HasHole
  <2>1. j \in Present(n)
    BY <1>1
  <2> QED
    BY <2>1 DEF Present
<1> QED
  BY <1>1, <1>2, <1>3, <1>4 DEF CastSucceeds

\* And a node that can be read has its first keys filled.
LEMMA ReadsFilled ==
    ASSUME NEW n \in Node, CastSucceeds(n)
    PROVE  \E m \in Nat : Filled(n, m) /\ Cardinality(Present(n)) = m
<1>1. PICK m \in 0 .. MaxKey + 1 : Present(n) = 0 .. m - 1 /\ Cardinality(Present(n)) = m
  BY ReadableKeys
<1>2. m \in Nat
  BY MaxKeyAssumption
<1> QED
  BY <1>1, <1>2 DEF Filled

\* The number of filled keys is one number.
LEMMA FilledOnce ==
    ASSUME NEW n, NEW m, NEW l, Filled(n, m), Filled(n, l)
    PROVE  m = l
<1>1. m \in Nat /\ l \in Nat /\ 0 .. m - 1 = 0 .. l - 1
  BY DEF Filled
<1>2. ASSUME m < l PROVE FALSE
  <2>1. m \in 0 .. l - 1 /\ m \notin 0 .. m - 1
    BY <1>1, <1>2
  <2> QED
    BY <1>1, <2>1
<1>3. ASSUME l < m PROVE FALSE
  <2>1. l \in 0 .. m - 1 /\ l \notin 0 .. l - 1
    BY <1>1, <1>3
  <2> QED
    BY <1>1, <2>1
<1> QED
  BY <1>1, <1>2, <1>3

\* A write that fits leaves the first keys filled.
LEMMA FilledApply ==
    ASSUME NEW n \in Node, NEW w \in Write, Fits(n, w)
    PROVE  Filled(Apply(n, w), Behind(w))
<1>1. CASE w.op = "remove"
  <2>1. \A k \in Keys : Apply(n, w)[k] = None
    BY <1>1 DEF Apply, Covers, Put
  <2>2. Present(Apply(n, w)) = {}
    BY <2>1 DEF Present
  <2>3. Behind(w) = 0 /\ 0 .. 0 - 1 = {}
    BY <1>1 DEF Behind
  <2> QED
    BY <2>2, <2>3 DEF Filled
<1>2. CASE w.op # "remove"
  <2>1. w.op = "set" /\ w.key \in Keys /\ w.dream \in Dream
    BY <1>2 DEF Write, RemoveCall
  <2>2. w.key \in Nat /\ Present(n) = 0 .. w.key - 1 /\ Behind(w) = w.key + 1
    BY <1>2, <2>1 DEF Fits, Filled, Behind
  <2>3. \A k \in Keys : Apply(n, w)[k] = IF k = w.key THEN w.dream ELSE n[k]
    BY <1>2, <2>1 DEF Apply, Covers, Put
  <2>4. w.dream # None
    BY <2>1, NoneAssumption
  <2>5. \A k : k \in Present(Apply(n, w)) <=> k \in Present(n) \/ k = w.key
    BY <2>1, <2>3, <2>4 DEF Present
  <2>6. \A k : k \in 0 .. (w.key + 1) - 1 <=> k \in 0 .. w.key - 1 \/ k = w.key
    BY <2>2
  <2>7. Present(Apply(n, w)) = 0 .. (w.key + 1) - 1
    BY <2>2, <2>5, <2>6
  <2> QED
    BY <2>2, <2>7 DEF Filled
<1> QED
  BY <1>1, <1>2

\* A new write shows at once, as the server will apply it.
LEMMA VisibleAppend ==
    ASSUME NEW c \in Node, NEW p \in Seq(Write), NEW w \in Write
    PROVE  Visible(c, Append(p, w)) = Apply(Visible(c, p), w)
<1> DEFINE r == Append(p, w)
           h == Len(p) + 1
<1>1. c # Unknown
  BY UnknownAssumption
<1>2. /\ r \in Seq(Write) /\ DOMAIN r = 1 .. h /\ h \in DOMAIN r /\ h \in Nat /\ r[h] = w
      /\ \A i \in DOMAIN p : i \in DOMAIN r /\ r[i] = p[i]
      /\ \A i \in DOMAIN r : i \in Nat /\ (i = h \/ i \in DOMAIN p)
  OBVIOUS
<1> HIDE DEF r, h
<1>3. Visible(c, r) \in Node /\ Visible(c, p) \in Node
  BY <1>2, VisibleLoaded
<1>4. ASSUME NEW k \in Keys PROVE Visible(c, r)[k] = Apply(Visible(c, p), w)[k]
  <2>1. CASE Covers(w, k)
    <3>1. LastCover(r, k, h)
      <4>1. \A j \in DOMAIN r : ~(j > h)
        BY <1>2
      <4> QED
        BY <1>2, <2>1, <4>1 DEF LastCover
    <3>2. Visible(c, r)[k] = Put(r[h])
      BY <1>1, <1>2, <3>1, VisibleCovered
    <3> QED
      BY <1>2, <2>1, <3>2 DEF Apply
  <2>2. CASE ~Covers(w, k)
    <3>1. Apply(Visible(c, p), w)[k] = Visible(c, p)[k]
      BY <2>2 DEF Apply
    <3>2. CASE Free(p, 0, k)
      <4>1. Free(r, 0, k)
        BY <1>2, <2>2, <3>2 DEF Free
      <4>2. Visible(c, r)[k] = c[k] /\ Visible(c, p)[k] = c[k]
        BY <1>1, <1>2, <3>2, <4>1, VisibleFree
      <4> QED
        BY <3>1, <4>2
    <3>3. CASE \E i \in DOMAIN p : LastCover(p, k, i)
      <4>1. PICK i \in DOMAIN p : LastCover(p, k, i)
        BY <3>3
      <4>2. LastCover(r, k, i) /\ i \in DOMAIN r /\ r[i] = p[i]
        BY <1>2, <2>2, <4>1 DEF LastCover
      <4>3. Visible(c, p)[k] = Put(p[i])
        BY <1>1, <4>1, VisibleCovered
      <4>4. Visible(c, r)[k] = Put(r[i])
        BY <1>1, <1>2, <4>2, VisibleCovered
      <4> QED
        BY <3>1, <4>2, <4>3, <4>4
    <3> QED
      BY <3>2, <3>3, FreeOrCovered
  <2> QED
    BY <2>1, <2>2
<1>5. Apply(Visible(c, p), w) \in Node
  BY <1>3, ApplyType
<1>6. Visible(c, r) = Apply(Visible(c, p), w)
  BY <1>3, <1>4, <1>5 DEF Node
<1> QED
  BY <1>6 DEF r

\* updateAction: a removeValue, and a setValue for each dream.
LEMMA UpdateActionIs ==
    ASSUME NEW s \in Seq(Dream), NEW u, u = updateAction(s)
    PROVE  /\ Len(s) \in Nat /\ Len(u) = Len(s) + 1 /\ DOMAIN u = 1 .. Len(s) + 1
           /\ u[1] = RemoveCall
           /\ \A i \in 2 .. Len(s) + 1 : u[i] = SetCall(i - 2, s[i - 1])
<1> DEFINE t == [i \in 1 .. Len(s) |-> SetCall(i - 1, s[i])]
           S == {RemoveCall} \cup {SetCall(i - 1, s[i]) : i \in 1 .. Len(s)}
<1>1. \A i \in 1 .. Len(s) : t[i] = SetCall(i - 1, s[i])
  OBVIOUS
<1>2. t \in Seq(S) /\ RemoveCall \in S /\ Len(t) = Len(s) /\ Len(s) \in Nat
  OBVIOUS
<1>3. u = <<RemoveCall>> \o t
  BY DEF updateAction
<1> HIDE DEF t, S
<1>4. /\ Len(u) = Len(t) + 1 /\ DOMAIN u = 1 .. Len(t) + 1 /\ u[1] = RemoveCall
      /\ \A i \in 2 .. Len(t) + 1 : u[i] = t[i - 1]
  <2>1. PICK x \in S : x = RemoveCall
    BY <1>2
  <2>2. t \in Seq(S) /\ u = <<x>> \o t
    BY <1>2, <1>3, <2>1
  <2>3. /\ Len(u) = Len(t) + 1 /\ DOMAIN u = 1 .. Len(t) + 1 /\ u[1] = x
        /\ \A i \in 2 .. Len(t) + 1 : u[i] = t[i - 1]
    BY <2>2
  <2> QED
    BY <2>1, <2>3
<1>5. ASSUME NEW i \in 2 .. Len(s) + 1 PROVE u[i] = SetCall(i - 2, s[i - 1])
  <2>1. i - 1 \in 1 .. Len(s) /\ (i - 1) - 1 = i - 2
    BY <1>2
  <2>2. t[i - 1] = SetCall((i - 1) - 1, s[i - 1])
    BY <1>1, <2>1
  <2> QED
    BY <1>2, <1>4, <2>1, <2>2
<1> QED
  BY <1>2, <1>4, <1>5

\* It clears the node and then fills it from the first key on.
LEMMA UpdateActionWrites ==
    ASSUME NEW s \in Seq(Dream), NEW n, NEW b, b = <<>>
    PROVE  Writing(updateAction(s), b, n)
<1> DEFINE u == updateAction(s)
<1>1. /\ Len(s) \in Nat /\ Len(u) = Len(s) + 1 /\ DOMAIN u = 1 .. Len(s) + 1
      /\ u[1] = RemoveCall
      /\ \A i \in 2 .. Len(s) + 1 : u[i] = SetCall(i - 2, s[i - 1])
  BY UpdateActionIs
<1> HIDE DEF u
<1>2. u[1].op = "remove" /\ u[1] # ObserveCall /\ Behind(u[1]) = 0
  BY <1>1 DEF RemoveCall, ObserveCall, Behind
<1>3. \A i \in 2 .. Len(s) + 1 :
         /\ u[i].op = "set" /\ u[i].key = i - 2 /\ u[i] # ObserveCall /\ Behind(u[i]) = (i - 2) + 1
  <2> SUFFICES ASSUME NEW i \in 2 .. Len(s) + 1
               PROVE  /\ u[i].op = "set" /\ u[i].key = i - 2 /\ u[i] # ObserveCall
                      /\ Behind(u[i]) = (i - 2) + 1
    OBVIOUS
  <2>1. u[i] = SetCall(i - 2, s[i - 1])
    BY <1>1
  <2>2. u[i].op = "set" /\ u[i].key = i - 2
    BY <2>1 DEF SetCall
  <2>3. ObserveCall.op = "observe"
    BY DEF ObserveCall
  <2>4. u[i] # ObserveCall
    BY <2>2, <2>3
  <2>5. Behind(u[i]) = (i - 2) + 1
    BY <2>2 DEF Behind
  <2> QED
    BY <2>2, <2>4, <2>5
<1>4. Chained(u)
  <2> SUFFICES ASSUME NEW i \in 2 .. Len(s) + 1 PROVE u[i].key = Behind(u[i - 1])
    BY <1>1 DEF Chained
  <2>1. CASE i = 2
    <3>1. u[i].key = 0 /\ i - 1 = 1
      BY <2>1, <1>3
    <3> QED
      BY <3>1, <1>2
  <2>2. CASE i > 2
    <3>1. i - 1 \in 2 .. Len(s) + 1 /\ (i - 1 - 2) + 1 = i - 2
      BY <1>1, <2>2
    <3> QED
      BY <3>1, <1>3
  <2> QED
    BY <2>1, <2>2
<1>5. \A i \in DOMAIN u : i = 1 \/ i \in 2 .. Len(s) + 1
  BY <1>1
<1>6. \A i \in DOMAIN u : u[i] # ObserveCall
  BY <1>2, <1>3, <1>5
<1>7. Fits(n, u[1])
  BY <1>2 DEF Fits
<1> QED
  BY <1>4, <1>6, <1>7 DEF Writing, u

\* The elements of a queue after its first was taken.
LEMMA TailElements ==
    ASSUME NEW S, NEW q \in Seq(S), q # <<>>
    PROVE  /\ \A i \in DOMAIN Tail(q) : i + 1 \in DOMAIN q /\ Tail(q)[i] = q[i + 1] /\ i \in Nat /\ i >= 1
           /\ Tail(q) \in Seq(S) /\ Len(Tail(q)) = Len(q) - 1 /\ 1 \in DOMAIN q /\ Head(q) = q[1]
OBVIOUS

\* The elements of a queue after one was added.
LEMMA AppendElements ==
    ASSUME NEW S, NEW q \in Seq(S), NEW x
    PROVE  \A i \in DOMAIN Append(q, x) :
              (i \in DOMAIN q /\ Append(q, x)[i] = q[i]) \/ Append(q, x)[i] = x
OBVIOUS

\* The elements of a queue after several were added.
LEMMA ConcatElements ==
    ASSUME NEW S, NEW q \in Seq(S), NEW r \in Seq(S)
    PROVE  \A i \in DOMAIN (q \o r) :
              \/ i \in DOMAIN q /\ (q \o r)[i] = q[i]
              \/ \E j \in DOMAIN r : (q \o r)[i] = r[j]
<1> SUFFICES ASSUME NEW i \in DOMAIN (q \o r), i \notin DOMAIN q
             PROVE  \E j \in DOMAIN r : (q \o r)[i] = r[j]
  OBVIOUS
<1>1. i - Len(q) \in DOMAIN r /\ (q \o r)[i] = r[i - Len(q)]
  OBVIOUS
<1> QED
  BY <1>1

\* A chain of writes from its second on.
LEMMA ChainedTail ==
    ASSUME NEW S, NEW q \in Seq(S), q # <<>>, Chained(q)
    PROVE  /\ Chained(Tail(q))
           /\ Tail(q) # <<>> => (Tail(q)[1].op = "set" => Tail(q)[1].key = Behind(q[1]))
<1> DEFINE t == Tail(q)
<1>1. Len(q) \in Nat /\ Len(q) > 0 /\ Len(t) = Len(q) - 1 /\ \A i \in 1 .. Len(q) - 1 : t[i] = q[i + 1]
  OBVIOUS
<1>2. t # <<>> => Len(t) > 0
  OBVIOUS
<1> HIDE DEF t
<1>3. ASSUME NEW i \in 2 .. Len(t), t[i].op = "set" PROVE t[i].key = Behind(t[i - 1])
  <2>1. i \in 1 .. Len(q) - 1 /\ i - 1 \in 1 .. Len(q) - 1 /\ i + 1 \in 2 .. Len(q) /\ (i - 1) + 1 = i
        /\ (i + 1) - 1 = i
    BY <1>1
  <2>2. t[i] = q[i + 1] /\ t[i - 1] = q[i]
    BY <1>1, <2>1
  <2>3. q[i + 1].op = "set" => q[i + 1].key = Behind(q[(i + 1) - 1])
    BY <2>1 DEF Chained
  <2> QED
    BY <1>3, <2>1, <2>2, <2>3
<1>4. ASSUME t # <<>>, t[1].op = "set" PROVE t[1].key = Behind(q[1])
  <2>1. 2 \in 2 .. Len(q) /\ 1 \in 1 .. Len(q) - 1 /\ 1 + 1 = 2 /\ 2 - 1 = 1
    BY <1>1, <1>2, <1>4
  <2>2. t[1] = q[2]
    BY <1>1, <2>1
  <2>3. q[2].op = "set" => q[2].key = Behind(q[2 - 1])
    BY <2>1 DEF Chained
  <2> QED
    BY <1>4, <2>1, <2>2, <2>3
<1> QED
  BY <1>3, <1>4 DEF Chained, t

\* A chain of writes with one more at its end.
LEMMA ChainedAppend ==
    ASSUME NEW S, NEW p \in Seq(S), Chained(p), NEW w \in S,
           p # <<>> /\ w.op = "set" => w.key = Behind(p[Len(p)])
    PROVE  Chained(Append(p, w))
<1> DEFINE r == Append(p, w)
           h == Len(p)
<1>1. h \in Nat /\ Len(r) = h + 1 /\ r[h + 1] = w /\ \A i \in 1 .. h : r[i] = p[i]
  OBVIOUS
<1>2. h > 0 => p # <<>>
  OBVIOUS
<1> HIDE DEF r
<1>3. ASSUME NEW i \in 2 .. h + 1, r[i].op = "set" PROVE r[i].key = Behind(r[i - 1])
  <2>1. CASE i \in 2 .. h
    <3>1. i \in 1 .. h /\ i - 1 \in 1 .. h
      BY <1>1, <2>1
    <3>2. r[i] = p[i] /\ r[i - 1] = p[i - 1]
      BY <1>1, <3>1
    <3>3. p[i].op = "set" => p[i].key = Behind(p[i - 1])
      BY <2>1 DEF Chained
    <3> QED
      BY <1>3, <3>2, <3>3
  <2>2. CASE i = h + 1
    <3>1. h \in 1 .. h /\ i - 1 = h /\ h > 0
      BY <1>1, <2>2
    <3>2. r[i] = w /\ r[i - 1] = p[h]
      BY <1>1, <2>2, <3>1
    <3>3. w.op = "set" => w.key = Behind(p[h])
      BY <1>2, <3>1
    <3> QED
      BY <1>3, <3>2, <3>3
  <2> QED
    BY <1>1, <2>1, <2>2
<1> QED
  BY <1>1, <1>3 DEF Chained, r

\* The first block is taken from a queue without an illegible event.
LEMMA LegibleTail ==
    ASSUME NEW b \in Seq(Block), b # <<>>, Legible(b)
    PROVE  Legible(Tail(b))
BY TailElements DEF Legible

\* The blocks in a queue after events were raised.
LEMMA RaisedElements ==
    ASSUME NEW b \in Seq(Block), NEW old, NEW new \in Node \cup {Unknown}, NEW n \in Nat
    PROVE  \A i \in DOMAIN (b \o raiseEvents(old, new, n)) :
              \/ i \in DOMAIN b /\ (b \o raiseEvents(old, new, n))[i] = b[i]
              \/ /\ new # Unknown
                 /\ (b \o raiseEvents(old, new, n))[i].do = "event"
                 /\ (b \o raiseEvents(old, new, n))[i].node = new
<1> DEFINE r == raiseEvents(old, new, n)
<1>1. r \in Seq(Block)
  BY RaiseEventsType
<1>2. \A j \in DOMAIN r : new # Unknown /\ r[j].do = "event" /\ r[j].node = new
  <2>1. CASE new # Unknown /\ new # old
    <3>1. r = [j \in 1 .. n |-> EventBlock(new)]
      BY <2>1 DEF raiseEvents
    <3>2. \A j \in DOMAIN r : r[j] = EventBlock(new)
      BY <3>1
    <3> HIDE DEF r
    <3>3. EventBlock(new).do = "event" /\ EventBlock(new).node = new
      BY DEF EventBlock
    <3> QED
      BY <2>1, <3>2, <3>3
  <2>2. CASE ~(new # Unknown /\ new # old)
    <3>1. r = <<>>
      BY <2>2 DEF raiseEvents
    <3> QED
      BY <3>1
  <2> QED
    BY <2>1, <2>2
<1> HIDE DEF r
<1>3. \A i \in DOMAIN (b \o r) :
         \/ i \in DOMAIN b /\ (b \o r)[i] = b[i]
         \/ \E j \in DOMAIN r : (b \o r)[i] = r[j]
  BY <1>1, ConcatElements
<1> QED
  BY <1>2, <1>3 DEF r

\* Events of a snapshot that can be read do no harm.
LEMMA LegibleRaised ==
    ASSUME NEW b \in Seq(Block), Legible(b), NEW old, NEW new \in Node \cup {Unknown}, NEW n \in Nat,
           new # Unknown => CastSucceeds(new)
    PROVE  /\ Legible(b \o raiseEvents(old, new, n))
           /\ \A i \in DOMAIN (b \o raiseEvents(old, new, n)) :
                 \/ i \in DOMAIN b /\ (b \o raiseEvents(old, new, n))[i] = b[i]
                 \/ (b \o raiseEvents(old, new, n))[i].do = "event"
BY RaisedElements DEF Legible

-----------------------------------------------------------------------------
(* A patient user's steps. *)

\* A patient user's tap finds nothing queued and the diary loaded.
LEMMA ReadyIdle ==
    ASSUME Patient, NEW d \in Devices, Ready(d)
    PROVE  mainQ[d] = <<>> /\ sharedQ[d] = <<>> /\ cache[d] # Unknown /\ observers[d] > 0
<1>1. mainQ[d] = <<>> /\ sharedQ[d] = <<>> /\ cache[d] # Unknown
  BY DEF Patient, Ready, Idle
<1>2. ObserveCall \notin Range(<<>>)
  BY DEF Range
<1> QED
  BY <1>1, <1>2 DEF Ready

\* What a loaded device shows is a node.
LEMMA ShownLoaded ==
    ASSUME TypeInv, NEW d \in Devices, cache[d] # Unknown
    PROVE  cache[d] \in Node /\ Shown(d) \in Node /\ Shown(d) # Unknown
<1>1. cache[d] \in Node /\ pending[d] \in Seq(Write)
  BY EchoTypes
<1>2. Shown(d) \in Node
  BY <1>1, VisibleLoaded DEF Shown
<1> QED
  BY <1>1, <1>2, UnknownAssumption

\* On an idle device the container holds what the observers were shown, so
\* the count WriteVC stores under is the first free key.
LEMMA IdleContainer ==
    ASSUME TypeInv, NEW d \in Devices, Pipeline(d), mainQ[d] = <<>>, sharedQ[d] = <<>>,
           cache[d] # Unknown, observers[d] > 0
    PROVE  /\ CastSucceeds(Shown(d)) /\ container[d] \in Containers(Shown(d))
           /\ Filled(Shown(d), Len(container[d]))
<1>1. Shown(d) \in Node /\ Shown(d) # Unknown
  BY ShownLoaded
<1>2. ~LastEventIs(<<>>, Shown(d)) /\ \A x : ~Queued(<<>>, x)
  BY DEF LastEventIs, Queued
<1>3. CastSucceeds(Shown(d)) /\ container[d] \in Containers(Shown(d))
  BY <1>1, <1>2 DEF Pipeline
<1>4. PICK m \in Nat : Filled(Shown(d), m) /\ Cardinality(Present(Shown(d))) = m
  BY <1>1, <1>3, ReadsFilled
<1>5. AsArray(Shown(d)) \in Seq(Dream)
  BY <1>1, <1>3, AsArrayType
<1>6. Len(AsArray(Shown(d))) = m
  <2>1. DOMAIN AsArray(Shown(d)) = 1 .. m
    BY <1>4 DEF AsArray
  <2> QED
    BY <1>5, <2>1
<1>7. container[d] \in Reorderings(AsArray(Shown(d)))
  BY <1>3 DEF Containers, ascendingOrder
<1>8. Len(container[d]) = m
  BY <1>5, <1>6, <1>7, ReorderingType
<1> QED
  BY <1>3, <1>4, <1>8

\* A tap leaves nothing new, one set under the next key, or one block, and
\* what a block removes the user has agreed to.
LEMMA PatientTap ==
    ASSUME Patient, TypeInv, NEW d \in Devices, UserStep(d), mainQ[d] = <<>>, sharedQ[d] = <<>>
    PROVE  \/ mainQ'[d] = <<>> /\ sharedQ'[d] = <<>>
           \/ mainQ'[d] = <<>> /\ \E x \in Dream : sharedQ'[d] = <<SetCall(Len(container[d]), x)>>
           \/ /\ sharedQ'[d] = <<>>
              /\ \/ mainQ'[d] = <<FetchBlock>>
                 \/ mainQ'[d] = <<RemoveAllBlock>> /\ asked' = Dates
                 \/ \E x \in Dream : mainQ'[d] = <<RemoveBlock(x)>> /\ x.writedDate \in asked'
<1> USE DEF TypeInv
<1>1. \A x : Append(<<>>, x) = <<x>>
  OBVIOUS
<1>2. ASSUME NEW x \in Dream, DateCheckAndSave(d, x)
      PROVE  \/ mainQ'[d] = <<>> /\ sharedQ'[d] = <<>>
             \/ mainQ'[d] = <<>> /\ sharedQ'[d] = <<SetCall(Len(container[d]), x)>>
  BY <1>1, <1>2 DEF DateCheckAndSave, TypeOK
<1>3. ASSUME ConfirmReplace(d)
      PROVE  mainQ'[d] = <<>> /\ \E x \in Dream : sharedQ'[d] = <<SetCall(Len(container[d]), x)>>
  <2>1. mainQ'[d] = <<>> /\ sharedQ'[d] = <<SetCall(Len(container[d]), alert[d].dream)>>
    BY <1>1, <1>3 DEF ConfirmReplace, TypeOK
  <2>2. alert[d].dream \in Dream
    BY <1>3, AlertDream DEF ConfirmReplace, Answer, TypeOK
  <2> QED
    BY <2>1, <2>2
<1>4. ASSUME ConfirmDelete(d)
      PROVE  /\ sharedQ'[d] = <<>>
             /\ \E x \in Dream : mainQ'[d] = <<RemoveBlock(x)>> /\ x.writedDate \in asked'
  <2>1. /\ sharedQ'[d] = <<>> /\ mainQ'[d] = <<RemoveBlock(alert[d].dream)>>
        /\ alert[d].dream.writedDate \in asked'
    BY <1>1, <1>4 DEF ConfirmDelete, TypeOK
  <2>2. alert[d].dream \in Dream
    BY <1>4, AlertDream DEF ConfirmDelete, Answer, TypeOK
  <2> QED
    BY <2>1, <2>2
<1>5. ASSUME ConfirmDeleteAll(d)
      PROVE  sharedQ'[d] = <<>> /\ mainQ'[d] = <<RemoveAllBlock>> /\ asked' = Dates
  BY <1>1, <1>5 DEF ConfirmDeleteAll, TypeOK
<1>6. ASSUME OpenSearch(d) \/ Refresh(d) PROVE sharedQ'[d] = <<>> /\ mainQ'[d] = <<FetchBlock>>
  BY <1>1, <1>6 DEF OpenSearch, Refresh, TypeOK
<1>7. ASSUME (\E i \in 1 .. MaxKey + 1 : AskDelete(d, i)) \/ AskDeleteAll(d) \/ CancelAlert(d)
      PROVE  sharedQ'[d] = <<>> /\ mainQ'[d] = <<>>
  BY <1>7 DEF AskDelete, AskDeleteAll, CancelAlert
<1> QED
  BY <1>2, <1>3, <1>4, <1>5, <1>6, <1>7 DEF UserStep

\* Every tap needs Ready and leaves the client and the server alone.
LEMMA TapFrame ==
    ASSUME NEW d \in Devices, UserStep(d)
    PROVE  Ready(d) /\ UNCHANGED <<server, cache, pending, applied>>
<1>1. Ready(d)
  BY DEF UserStep, DateCheckAndSave, ConfirmReplace, AskDelete, ConfirmDelete,
     AskDeleteAll, ConfirmDeleteAll, CancelAlert, OpenSearch, Refresh, Tap, Answer
<1>2. UNCHANGED <<server, cache, pending, applied>>
  BY DEF UserStep, DateCheckAndSave, ConfirmReplace, AskDelete, ConfirmDelete,
     AskDeleteAll, ConfirmDeleteAll, CancelAlert, OpenSearch, Refresh, sdkVars, netVars
<1> QED
  BY <1>1, <1>2

\* A tap of a patient user.
LEMMA UserPatience ==
    ASSUME Patient, TypeInv, NEW d \in Devices, Pipeline(d), Patience(d), UserStep(d)
    PROVE  Patience(d)'
<1>1. Ready(d) /\ server' = server /\ cache' = cache /\ pending' = pending
  BY TapFrame
<1>2. mainQ[d] = <<>> /\ sharedQ[d] = <<>> /\ cache[d] # Unknown /\ observers[d] > 0
  BY <1>1, ReadyIdle
<1>3. Shown(d)' = Shown(d)
  BY <1>1 DEF Shown
<1>4. Filled(Shown(d), Len(container[d]))
  BY <1>2, IdleContainer
<1>5. Legible(mainQ'[d]) /\ Doing(sharedQ'[d], mainQ'[d], Shown(d))
  <2>1. Legible(<<>>) /\ Reading(<<>>, <<>>)
    BY DEF Legible, Reading
  <2>2. Legible(<<FetchBlock>>) /\ Reading(<<>>, <<FetchBlock>>)
    BY DEF Legible, Reading, FetchBlock
  <2>3. Legible(<<RemoveAllBlock>>) /\ Removing(<<>>, <<RemoveAllBlock>>)
    BY DEF Legible, Removing, RemoveAllBlock
  <2>4. ASSUME NEW x \in Dream PROVE Legible(<<RemoveBlock(x)>>) /\ Removing(<<>>, <<RemoveBlock(x)>>)
    BY DEF Legible, Removing, RemoveBlock
  <2>5. ASSUME NEW x \in Dream PROVE Writing(<<SetCall(Len(container[d]), x)>>, <<>>, Shown(d))
    <3> DEFINE w == SetCall(Len(container[d]), x)
               q == <<w>>
    <3>1. w.op = "set" /\ w.key = Len(container[d]) /\ ObserveCall.op = "observe"
      BY DEF SetCall, ObserveCall
    <3>2. w # ObserveCall
      BY <3>1
    <3>3. Fits(Shown(d), w)
      BY <3>1, <1>4 DEF Fits
    <3> HIDE DEF w
    <3>4. Len(q) = 1 /\ DOMAIN q = {1} /\ q[1] = w /\ 2 .. 1 = {}
      OBVIOUS
    <3> HIDE DEF q
    <3>5. Writing(q, <<>>, Shown(d))
      BY <3>2, <3>3, <3>4 DEF Writing, Chained
    <3> QED
      BY <3>5 DEF q, w
  <2>6. CASE mainQ'[d] = <<>> /\ sharedQ'[d] = <<>>
    BY <2>1, <2>6 DEF Doing
  <2>7. CASE mainQ'[d] = <<>> /\ \E x \in Dream : sharedQ'[d] = <<SetCall(Len(container[d]), x)>>
    BY <2>1, <2>5, <2>7 DEF Doing
  <2>8. CASE sharedQ'[d] = <<>> /\ mainQ'[d] = <<FetchBlock>>
    BY <2>2, <2>8 DEF Doing
  <2>9. CASE sharedQ'[d] = <<>> /\ mainQ'[d] = <<RemoveAllBlock>>
    BY <2>3, <2>9 DEF Doing
  <2>10. CASE sharedQ'[d] = <<>> /\ \E x \in Dream : mainQ'[d] = <<RemoveBlock(x)>>
    BY <2>4, <2>10 DEF Doing
  <2> QED
    BY <1>2, <2>6, <2>7, <2>8, <2>9, <2>10, PatientTap
<1>6. Chained(pending[d]) /\ Loaded(Shown(d), pending[d])
  BY <1>2 DEF Patience
<1> QED
  BY <1>1, <1>2, <1>3, <1>5, <1>6 DEF Patience

\* removeAction or removeAllAction runs alone, and queues an updateAction.
LEMMA RemovalStep ==
    ASSUME TypeInv, NEW d \in Devices, Patience(d), RunRemove(d) \/ RunRemoveAll(d)
    PROVE  /\ sharedQ[d] = <<>> /\ Len(mainQ[d]) = 1 /\ mainQ[d][1].do \in {"remove", "removeAll"}
           /\ Tail(mainQ[d]) = <<>> /\ cache[d] # Unknown
           /\ \E s \in Seq(Dream) :
                 /\ sharedQ'[d] = updateAction(s)
                 /\ \/ s \in WithoutDate(container[d], mainQ[d][1].dream.writedDate)
                       /\ mainQ[d][1].do = "remove"
                    \/ mainQ[d][1].do = "removeAll"
<1> DEFINE b == mainQ[d]
           q == sharedQ[d]
<1>1. b \in Seq(Block) /\ b # <<>>
  BY DEF RunRemove, RunRemoveAll, MainBlock, TypeInv, TypeOK
<1>2. /\ Doing(q, b, Shown(d))
      /\ cache[d] = Unknown => NotLoaded(server, pending[d], q, b)
  BY DEF Patience
<1>3. 1 \in DOMAIN b /\ Head(b) = b[1]
  BY <1>1, TailElements
<1>4. b[1].do \in {"remove", "removeAll"}
  BY <1>3 DEF RunRemove, RunRemoveAll, MainBlock
<1>5. Removing(q, b)
  BY <1>2, <1>3, <1>4 DEF Doing, Reading, Writing
<1>6. Tail(b) = <<>>
  <2> DEFINE t == Tail(b)
  <2>1. t \in Seq(Block) /\ Len(t) = 0
    BY <1>1, <1>5, TailElements DEF Removing
  <2> HIDE DEF t
  <2>2. t = <<>>
    BY <2>1
  <2> QED
    BY <2>2 DEF t
<1>7. cache[d] # Unknown
  BY <1>2, <1>3, <1>4 DEF NotLoaded
<1>8. ASSUME NEW s \in Seq(Dream), sharedQ'[d] = q \o updateAction(s) PROVE sharedQ'[d] = updateAction(s)
  <2>1. ASSUME NEW T, NEW u \in Seq(T) PROVE <<>> \o u = u
    BY <2>1
  <2>2. updateAction(s) \in Seq({RemoveCall} \cup {SetCall(i - 1, s[i]) : i \in 1 .. Len(s)})
    BY DEF updateAction
  <2> QED
    BY <1>5, <1>8, <2>1, <2>2 DEF Removing
<1>9. CASE RunRemove(d)
  <2>1. PICK s \in WithoutDate(container[d], b[1].dream.writedDate) :
           sharedQ'[d] = q \o updateAction(s)
    BY <1>3, <1>9 DEF RunRemove, TypeInv, TypeOK
  <2>2. s \in Seq(Dream)
    BY WithoutDateType DEF TypeInv, TypeOK
  <2>3. b[1].do = "remove"
    BY <1>3, <1>9 DEF RunRemove, MainBlock
  <2>4. sharedQ'[d] = updateAction(s)
    BY <1>8, <2>1, <2>2
  <2> QED
    BY <1>4, <1>5, <1>6, <1>7, <2>2, <2>3, <2>4 DEF Removing
<1>10. CASE RunRemoveAll(d)
  <2>1. sharedQ'[d] = q \o updateAction(<<>>) /\ <<>> \in Seq(Dream)
    BY <1>10 DEF RunRemoveAll, TypeInv, TypeOK
  <2>2. b[1].do = "removeAll"
    BY <1>3, <1>10 DEF RunRemoveAll, MainBlock
  <2>3. sharedQ'[d] = updateAction(<<>>)
    BY <1>8, <2>1
  <2> QED
    BY <1>4, <1>5, <1>6, <1>7, <2>1, <2>2, <2>3 DEF Removing
<1> QED
  BY <1>9, <1>10

\* The main thread runs a block; none of them traps.
LEMMA MainPatience ==
    ASSUME TypeInv, NEW d \in Devices, Patience(d), MainStep(d)
    PROVE  Patience(d)' /\ ~RunTrap(d) /\ UNCHANGED <<server, cache, pending, applied, trapped>>
<1> DEFINE b == mainQ[d]
           q == sharedQ[d]
<1>1. b \in Seq(Block) /\ q \in Seq(Call) /\ b # <<>>
  BY DEF MainStep, RunFetch, RunEvent, RunTrap, RunRemove, RunRemoveAll, MainBlock, TypeInv, TypeOK
<1>2. /\ Legible(b) /\ Doing(q, b, Shown(d)) /\ Chained(pending[d])
      /\ cache[d] = Unknown => NotLoaded(server, pending[d], q, b)
      /\ cache[d] # Unknown => Loaded(Shown(d), pending[d])
  BY DEF Patience
<1>3. 1 \in DOMAIN b /\ Head(b) = b[1]
  BY <1>1, TailElements
<1>4. ~RunTrap(d)
  BY <1>2, <1>3 DEF RunTrap, Legible
<1>5. UNCHANGED <<server, cache, pending, applied, trapped>>
  BY <1>4 DEF MainStep, RunFetch, RunEvent, RunRemove, RunRemoveAll, sdkVars, netVars, histVars
<1>6. Shown(d)' = Shown(d)
  BY <1>5 DEF Shown
<1>7. mainQ'[d] = Tail(b)
  BY <1>4 DEF MainStep, RunFetch, RunEvent, RunRemove, RunRemoveAll, MainBlock, TypeInv, TypeOK
<1>8. \A i \in DOMAIN Tail(b) : i + 1 \in DOMAIN b /\ Tail(b)[i] = b[i + 1]
  BY <1>1, TailElements
<1>9. Legible(Tail(b))
  BY <1>1, <1>2, LegibleTail
<1>10. SUFFICES /\ Doing(sharedQ'[d], Tail(b), Shown(d))
                /\ cache[d] = Unknown => NotLoaded(server, pending[d], sharedQ'[d], Tail(b))
  BY <1>2, <1>4, <1>5, <1>6, <1>7, <1>9 DEF Patience
<1>11. CASE RunFetch(d)
  <2>1. b[1].do = "fetch" /\ sharedQ'[d] = Append(q, ObserveCall)
    BY <1>3, <1>11 DEF RunFetch, MainBlock, TypeInv, TypeOK
  <2>2. Reading(q, b)
    BY <1>2, <1>3, <2>1 DEF Doing, Removing, Writing
  <2>3. \A i \in DOMAIN Append(q, ObserveCall) :
           (i \in DOMAIN q /\ Append(q, ObserveCall)[i] = q[i]) \/ Append(q, ObserveCall)[i] = ObserveCall
    BY <1>1, AppendElements
  <2>4. \A i \in DOMAIN Append(q, ObserveCall) : Append(q, ObserveCall)[i] = ObserveCall
    BY <2>2, <2>3 DEF Reading
  <2>5. Reading(Append(q, ObserveCall), Tail(b))
    BY <1>8, <2>2, <2>4 DEF Reading
  <2>6. cache[d] = Unknown => NotLoaded(server, pending[d], Append(q, ObserveCall), Tail(b))
    BY <1>2, <1>8, <2>4 DEF NotLoaded
  <2> QED
    BY <2>1, <2>5, <2>6 DEF Doing
<1>12. CASE RunEvent(d)
  <2>1. b[1].do = "event" /\ sharedQ'[d] = q
    BY <1>3, <1>12 DEF RunEvent, MainBlock, TypeInv, TypeOK
  <2>2. ~Removing(q, b)
    BY <2>1 DEF Removing
  <2>3. Reading(q, b) => Reading(q, Tail(b))
    BY <1>8 DEF Reading
  <2>4. Writing(q, b, Shown(d)) => Writing(q, Tail(b), Shown(d))
    BY <1>8 DEF Writing
  <2>5. cache[d] # Unknown
    BY <1>2, <1>3, <2>1 DEF NotLoaded
  <2> QED
    BY <1>2, <2>1, <2>2, <2>3, <2>4, <2>5 DEF Doing
<1>13. CASE RunRemove(d) \/ RunRemoveAll(d)
  <2>1. Tail(b) = <<>> /\ cache[d] # Unknown
    BY <1>13, RemovalStep
  <2>2. PICK s \in Seq(Dream) : sharedQ'[d] = updateAction(s)
    BY <1>13, RemovalStep
  <2>3. Writing(updateAction(s), Tail(b), Shown(d))
    BY <2>1, UpdateActionWrites
  <2> QED
    BY <2>1, <2>2, <2>3 DEF Doing
<1> QED
  BY <1>4, <1>11, <1>12, <1>13 DEF MainStep

\* A snapshot that can be read has its first keys filled, and conversely.
LEMMA LoadedReads ==
    ASSUME TypeInv, NEW d \in Devices, Patience(d), cache[d] # Unknown
    PROVE  /\ Shown(d) \in Node /\ Shown(d) # Unknown /\ CastSucceeds(Shown(d))
           /\ Loaded(Shown(d), pending[d])
<1>1. Shown(d) \in Node /\ Shown(d) # Unknown
  BY ShownLoaded
<1>2. Loaded(Shown(d), pending[d])
  BY DEF Patience
<1>3. PICK m \in Nat : Filled(Shown(d), m)
  BY <1>2 DEF Loaded
<1> QED
  BY <1>1, <1>2, <1>3, FilledReads

\* The client takes an observe from its queue.
LEMMA ObservePatience ==
    ASSUME TypeInv, NEW d \in Devices, Patience(d), addEventRegistration(d)
    PROVE  Patience(d)'
<1> DEFINE b == mainQ[d]
           q == sharedQ[d]
           c == b \o raiseEvents(Unknown, Shown(d), 1)
<1>1. b \in Seq(Block) /\ q \in Seq(Call) /\ q # <<>> /\ Head(q) = ObserveCall
  BY DEF addEventRegistration, TypeInv, TypeOK
<1>2. /\ Legible(b) /\ Doing(q, b, Shown(d)) /\ Chained(pending[d])
      /\ cache[d] = Unknown => NotLoaded(server, pending[d], q, b)
      /\ cache[d] # Unknown => Loaded(Shown(d), pending[d])
  BY DEF Patience
<1>3. 1 \in DOMAIN q /\ q[1] = ObserveCall
        /\ \A i \in DOMAIN Tail(q) : i + 1 \in DOMAIN q /\ Tail(q)[i] = q[i + 1]
  BY <1>1, TailElements
<1>4. Reading(q, b)
  BY <1>1, <1>2, <1>3 DEF Doing, Removing, Writing
<1>5. \A i \in DOMAIN Tail(q) : Tail(q)[i] = ObserveCall
  BY <1>3, <1>4 DEF Reading
<1>6. UNCHANGED <<server, cache, pending>> /\ mainQ'[d] = c /\ sharedQ'[d] = Tail(q)
  BY DEF addEventRegistration, TypeInv, TypeOK
<1>7. Shown(d)' = Shown(d)
  BY <1>6 DEF Shown
<1> HIDE DEF b, q
<1>8. CASE cache[d] = Unknown
  <2>1. pending[d] = <<>>
    BY <1>2, <1>8 DEF NotLoaded
  <2>2. Shown(d) = Unknown
    BY <1>8, <2>1 DEF Shown, Visible
  <2>3. raiseEvents(Unknown, Shown(d), 1) = <<>>
    BY <2>2 DEF raiseEvents
  <2>4. c = b
    <3>1. b \o <<>> = b
      BY <1>1
    <3>2. c = b \o <<>>
      BY <2>3
    <3> QED
      BY <3>1, <3>2, Zenon
  <2> HIDE DEF c
  <2>5. Reading(Tail(q), b)
    BY <1>4, <1>5 DEF Reading
  <2>6. NotLoaded(server, pending[d], Tail(q), b)
    BY <1>2, <1>5, <1>8 DEF NotLoaded
  <2> QED
    BY <1>2, <1>6, <1>7, <1>8, <2>4, <2>5, <2>6 DEF Patience, Doing
<1>9. CASE cache[d] # Unknown
  <2>1. Shown(d) \in Node /\ CastSucceeds(Shown(d))
    BY <1>9, LoadedReads
  <2>2. /\ Legible(c)
        /\ \A i \in DOMAIN c : (i \in DOMAIN b /\ c[i] = b[i]) \/ c[i].do = "event"
    <3>1. PICK n \in Nat : n = 1
      OBVIOUS
    <3>2. c = b \o raiseEvents(Unknown, Shown(d), n)
      BY <3>1
    <3>3. b \in Seq(Block) /\ Legible(b)
      BY <1>1, <1>2
    <3> HIDE DEF c
    <3> QED
      BY <2>1, <3>2, <3>3, LegibleRaised
  <2> HIDE DEF c
  <2>3. Reading(Tail(q), c)
    BY <1>4, <1>5, <2>2 DEF Reading
  <2> QED
    BY <1>2, <1>6, <1>7, <1>9, <2>2, <2>3 DEF Patience, Doing
<1> QED
  BY <1>8, <1>9

\* The client takes a write from its queue.
LEMMA WritePatience ==
    ASSUME TypeInv, NEW d \in Devices, Echo(d), Patience(d), Upright(d), ApplyUserOverwrite(d)
    PROVE  Patience(d)' /\ Upright(d)'
<1> DEFINE b == mainQ[d]
           q == sharedQ[d]
           p == pending[d]
           w == Head(q)
           v == Shown(d)
           u == Visible(cache[d], Append(p, w))
           c == b \o raiseEvents(v, u, observers[d])
<1>1. /\ b \in Seq(Block) /\ q \in Seq(Call) /\ q # <<>> /\ w # ObserveCall /\ w \in Call
      /\ p \in Seq(Write) /\ observers[d] \in Nat
  BY DEF ApplyUserOverwrite, TypeInv, TypeOK
<1>2. w \in Write
  BY <1>1 DEF Call
<1>3. /\ Legible(b) /\ Doing(q, b, v) /\ Chained(p)
      /\ cache[d] = Unknown => NotLoaded(server, p, q, b)
      /\ cache[d] # Unknown => Loaded(v, p)
  BY DEF Patience
<1>4. /\ 1 \in DOMAIN q /\ q[1] = w
      /\ \A i \in DOMAIN Tail(q) : i + 1 \in DOMAIN q /\ Tail(q)[i] = q[i + 1]
  BY <1>1, TailElements
<1>5. Writing(q, b, v)
  BY <1>1, <1>3, <1>4 DEF Doing, Removing, Reading
<1>6. cache[d] # Unknown
  BY <1>1, <1>3, <1>4 DEF NotLoaded
<1>7. cache[d] \in Node /\ v \in Node /\ v # Unknown
  BY <1>6, ShownLoaded
<1>8. /\ server' = server /\ cache'[d] = cache[d] /\ pending'[d] = Append(p, w) /\ applied' = applied
      /\ mainQ'[d] = c /\ sharedQ'[d] = Tail(q)
  BY DEF ApplyUserOverwrite, Notify, netVars, TypeInv, TypeOK
<1>9. Shown(d)' = u
  BY <1>8 DEF Shown
<1>10. u = Apply(v, w)
  BY <1>1, <1>2, <1>7, VisibleAppend DEF Shown
<1> HIDE DEF b, q, p, w, v, u
<1>11. Fits(v, w)
  BY <1>1, <1>4, <1>5 DEF Writing
<1>12. u \in Node /\ Filled(u, Behind(w))
  BY <1>2, <1>7, <1>10, <1>11, FilledApply, ApplyType
<1>13. u # Unknown /\ CastSucceeds(u) /\ Behind(w) \in Nat
  BY <1>12, FilledReads, UnknownAssumption DEF Filled
<1>14. /\ Legible(c)
       /\ \A i \in DOMAIN c : (i \in DOMAIN b /\ c[i] = b[i]) \/ c[i].do = "event"
  BY <1>1, <1>3, <1>12, <1>13, LegibleRaised, ZenonT(30)
<1> HIDE DEF c
<1>15. Writing(Tail(q), c, u)
  <2>1. Chained(Tail(q)) /\ (Tail(q) # <<>> => (Tail(q)[1].op = "set" => Tail(q)[1].key = Behind(w)))
    BY <1>1, <1>4, <1>5, ChainedTail DEF Writing
  <2>2. Tail(q) # <<>> => Fits(u, Tail(q)[1])
    BY <1>12, <2>1 DEF Fits
  <2>3. \A i \in DOMAIN Tail(q) : Tail(q)[i] # ObserveCall
    BY <1>4, <1>5 DEF Writing
  <2>4. \A i \in DOMAIN c : c[i].do = "event"
    BY <1>5, <1>14 DEF Writing
  <2> QED
    BY <2>1, <2>2, <2>3, <2>4 DEF Writing
<1>16. Chained(Append(p, w))
  <2>1. p # <<>> /\ w.op = "set" => w.key = Behind(p[Len(p)])
    BY <1>3, <1>6, <1>11, FilledOnce DEF Loaded, Fits
  <2> QED
    BY <1>1, <1>2, <1>3, <2>1, ChainedAppend
<1>17. Loaded(u, Append(p, w))
  <2>1. Append(p, w)[Len(Append(p, w))] = w
    BY <1>1
  <2> QED
    BY <1>12, <1>13, <2>1 DEF Loaded
<1>18. Patience(d)'
  BY <1>6, <1>8, <1>9, <1>14, <1>15, <1>16, <1>17 DEF Patience, Doing
<1>19. ASSUME MaxDrops = 0 PROVE Continued(server, applied[d], Append(p, w))
  <2>1. Continued(server, applied[d], p)
    BY <1>19 DEF Upright, p
  <2>2. applied[d] \in Nat /\ applied[d] <= Len(p) /\ server \in Node
    BY EchoTypes DEF p
  <2>3. applied[d] > 0 => Append(p, w)[applied[d]] = p[applied[d]]
    BY <1>1, <2>2
  <2>4. p # <<>> => Append(p, w)[1] = p[1]
    BY <1>1
  <2>5. ASSUME p = <<>> PROVE Append(p, w)[1] = w /\ Fits(server, w)
    <3>1. Agree(cache[d], server, <<>>, 0)
      BY <1>6, <2>5 DEF Echo, Echoed, Own, p
    <3>2. cache[d] = server
      BY <1>7, <2>2, <3>1 DEF Agree, Free, Node
    <3>3. v = server
      BY <1>7, <2>5, <3>2, VisibleNothing DEF v, p, Shown
    <3> QED
      BY <1>11, <2>5, <3>3
  <2> QED
    BY <2>1, <2>3, <2>4, <2>5 DEF Continued
<1> QED
  BY <1>8, <1>18, <1>19 DEF Upright

\* The first value the device gets is the server's: nothing was written yet.
LEMMA FirstLoad ==
    ASSUME TypeInv, NEW d \in Devices, Echo(d), Patience(d), Receive(d), cache[d] = Unknown
    PROVE  /\ OnDataUpdate(d) /\ cache'[d] = server /\ pending'[d] = <<>> /\ Shown(d)' = server
           /\ NotLoaded(server, pending[d], sharedQ[d], mainQ[d])
<1> DEFINE x == Head(down[d]).node
<1>1. NotLoaded(server, pending[d], sharedQ[d], mainQ[d]) /\ pending[d] = <<>>
  BY DEF Patience, NotLoaded
<1>2. ~AckWrite(d)
  <2> SUFFICES ASSUME AckWrite(d) PROVE FALSE
    OBVIOUS
  <2>1. down[d][1].type = "ack" /\ down[d] # <<>>
    BY DEF AckWrite
  <2> QED
    BY <2>1, EchoedAck, EchoTypes DEF Echo
<1>3. OnDataUpdate(d) /\ down[d] # <<>>
  BY <1>2 DEF Receive, OnDataUpdate
<1>4. x \in Node /\ cache'[d] = x /\ pending'[d] = <<>>
  BY <1>1, <1>3, DataNode, EchoTypes DEF OnDataUpdate, Notify, TypeInv, TypeOK
<1>5. down[d][1].type = "data" /\ down[d][1].node = x /\ x # Unknown
  BY <1>3, <1>4, UnknownAssumption DEF OnDataUpdate
<1> HIDE DEF x
<1>6. Agree(x, server, pending[d], 0)
  BY <1>3, <1>5, EchoedData, EchoTypes DEF Echo
<1>7. \A k \in Keys : x[k] = server[k]
  BY <1>1, <1>6 DEF Agree, Free
<1>8. x = server
  BY <1>4, <1>7, EchoTypes DEF Node
<1>9. Shown(d)' = x
  BY <1>4, VisibleNothing DEF Shown
<1> QED
  BY <1>1, <1>3, <1>4, <1>8, <1>9

\* A message of the server: the first value loads the diary, every other one
\* is silent.
LEMMA ReceivePatience ==
    ASSUME TypeInv, NEW d \in Devices, Echo(d), Patience(d), Receive(d)
    PROVE  Patience(d)'
<1> DEFINE b == mainQ[d]
           q == sharedQ[d]
           p == pending[d]
<1>1. b \in Seq(Block) /\ p \in Seq(Write) /\ observers[d] \in Nat /\ server \in Node /\ down[d] # <<>>
  BY DEF Receive, OnDataUpdate, AckWrite, TypeInv, TypeOK
<1>2. /\ Legible(b) /\ Doing(q, b, Shown(d)) /\ Chained(p)
      /\ cache[d] = Unknown => NotLoaded(server, p, q, b)
      /\ cache[d] # Unknown => Loaded(Shown(d), p)
  BY DEF Patience
<1>3. /\ server' = server /\ sharedQ'[d] = q
      /\ mainQ'[d] = b \o raiseEvents(Shown(d), Shown(d)', observers[d])
      /\ pending'[d] = p \/ (pending'[d] = Tail(p) /\ AckWrite(d))
  <2>1. ASSUME NEW x, NEW r, Notify(d, x, r)
        PROVE  /\ mainQ'[d] = b \o raiseEvents(Shown(d), Shown(d)', observers[d])
               /\ pending'[d] = r
    <3>1. cache'[d] = x /\ pending'[d] = r /\ mainQ'[d] = b \o raiseEvents(Shown(d), Visible(x, r), observers[d])
      BY <2>1 DEF Notify, TypeInv, TypeOK
    <3>2. Shown(d)' = Visible(x, r)
      BY <3>1 DEF Shown
    <3> QED
      BY <3>1, <3>2
  <2>2. server' = server /\ sharedQ'[d] = q
    BY DEF Receive, OnDataUpdate, AckWrite
  <2>3. CASE OnDataUpdate(d)
    BY <2>1, <2>2, <2>3 DEF OnDataUpdate
  <2>4. CASE AckWrite(d)
    BY <2>1, <2>2, <2>4 DEF AckWrite
  <2> QED
    BY <2>3, <2>4 DEF Receive
<1>4. AckWrite(d) => applied[d] > 0 /\ cache[d] # Unknown /\ p # <<>>
  <2> SUFFICES ASSUME AckWrite(d) PROVE applied[d] > 0 /\ cache[d] # Unknown /\ p # <<>>
    OBVIOUS
  <2>1. down[d][1].type = "ack" /\ down[d] # <<>>
    BY DEF AckWrite
  <2>2. applied[d] > 0 /\ cache[d] # Unknown
    BY <2>1, EchoedAck, EchoTypes DEF Echo
  <2> QED
    BY <2>2, EchoTypes
<1>5. OnDataUpdate(d) => cache'[d] = Head(down[d]).node /\ Head(down[d]).node \in Node
  BY <1>1, DataNode, EchoTypes DEF OnDataUpdate, Notify, TypeInv, TypeOK
<1>6. AckWrite(d) => cache'[d] = cache[d]
  BY DEF AckWrite, Notify, TypeInv, TypeOK
<1>7. cache'[d] # Unknown
  BY <1>4, <1>5, <1>6, UnknownAssumption DEF Receive
<1> HIDE DEF b, q, p
<1>8. CASE cache[d] # Unknown
  <2>1. Shown(d)' = Shown(d)
    BY <1>8, ReceiveSilent
  <2>2. raiseEvents(Shown(d), Shown(d)', observers[d]) = <<>>
    BY <2>1 DEF raiseEvents
  <2>3. mainQ'[d] = b
    <3>1. b \o <<>> = b
      BY <1>1
    <3> QED
      BY <1>3, <2>2, <3>1
  <2>4. Chained(pending'[d]) /\ Loaded(Shown(d), pending'[d])
    <3>1. CASE pending'[d] = p
      BY <1>2, <1>8, <3>1
    <3>2. CASE pending'[d] = Tail(p) /\ p # <<>>
      <4>1. Chained(Tail(p))
        BY <1>1, <1>2, <3>2, ChainedTail
      <4>2. Tail(p) # <<>> => Tail(p)[Len(Tail(p))] = p[Len(p)]
        BY <1>1, <3>2
      <4> QED
        BY <1>2, <1>8, <3>2, <4>1, <4>2 DEF Loaded
    <3> QED
      BY <1>3, <1>4, <3>1, <3>2
  <2> QED
    BY <1>2, <1>3, <1>7, <2>1, <2>3, <2>4 DEF Patience
<1>9. CASE cache[d] = Unknown
  <2> DEFINE c == b \o raiseEvents(Shown(d), server, observers[d])
  <2>1. /\ cache'[d] = server /\ pending'[d] = <<>> /\ Shown(d)' = server
        /\ NotLoaded(server, p, q, b)
    BY <1>9, FirstLoad DEF p, q, b
  <2>5. CastSucceeds(server)
    BY <2>1 DEF NotLoaded
  <2>6. /\ Legible(c)
        /\ \A i \in DOMAIN c : (i \in DOMAIN b /\ c[i] = b[i]) \/ c[i].do = "event"
    BY <1>1, <1>2, <2>5, LegibleRaised
  <2>7. mainQ'[d] = c
    BY <1>3, <2>1
  <2> HIDE DEF c
  <2>8. Reading(q, c)
    BY <2>1, <2>6 DEF NotLoaded, Reading
  <2>9. PICK m \in Nat : Filled(server, m)
    BY <1>1, <2>5, ReadsFilled
  <2>10. Loaded(server, <<>>) /\ Chained(<<>>)
    BY <2>9 DEF Loaded, Chained
  <2> QED
    BY <1>3, <1>7, <2>1, <2>6, <2>7, <2>8, <2>10 DEF Patience, Doing
<1> QED
  BY <1>8, <1>9

\* An acknowledgement leaves the server where it is in the chain.
LEMMA ReceiveUpright ==
    ASSUME TypeInv, NEW d \in Devices, Echo(d), Patience(d), Upright(d), Receive(d)
    PROVE  Upright(d)'
<1> SUFFICES ASSUME MaxDrops = 0 PROVE Continued(server', applied'[d], pending'[d])
  BY DEF Upright
<1> DEFINE p == pending[d]
           a == applied[d]
           t == Tail(p)
<1>1. Continued(server, a, p) /\ Chained(p) /\ server' = server
  BY DEF Upright, Patience, Receive, OnDataUpdate, AckWrite
<1>2. CASE OnDataUpdate(d)
  <2>1. applied' = applied /\ pending'[d] = p
    BY <1>2 DEF OnDataUpdate, Notify, TypeInv, TypeOK
  <2> QED
    BY <1>1, <2>1
<1>3. CASE AckWrite(d)
  <2>1. down[d][1].type = "ack" /\ down[d] # <<>>
    BY <1>3 DEF AckWrite
  <2>2. a > 0 /\ a \in Nat /\ a <= Len(p) /\ p \in Seq(Write)
    BY <2>1, EchoedAck, EchoTypes DEF Echo
  <2>3. applied'[d] = a - 1 /\ pending'[d] = t
    BY <1>3 DEF AckWrite, Notify, TypeInv, TypeOK
  <2>4. p # <<>> /\ Len(p) \in Nat /\ \A i \in 1 .. Len(p) - 1 : t[i] = p[i + 1]
    BY <2>2
  <2>5. t # <<>> => (t[1].op = "set" => t[1].key = Behind(p[1]))
    BY <1>1, <2>2, <2>4, ChainedTail
  <2> HIDE DEF p, a, t
  <2>6. a - 1 > 0 => t[a - 1] = p[a]
    <3>1. a - 1 > 0 => a - 1 \in 1 .. Len(p) - 1 /\ (a - 1) + 1 = a
      BY <2>2, <2>4
    <3> QED
      BY <2>4, <3>1
  <2>7. ASSUME a - 1 = 0, t # <<>> PROVE Fits(server, t[1])
    <3>1. a = 1
      BY <2>2, <2>7
    <3>2. Filled(server, Behind(p[1]))
      BY <1>1, <2>2, <3>1 DEF Continued
    <3> QED
      BY <2>5, <2>7, <3>2 DEF Fits
  <2>8. Continued(server, a - 1, t)
    BY <1>1, <2>2, <2>6, <2>7 DEF Continued
  <2> QED
    BY <1>1, <2>3, <2>8
<1> QED
  BY <1>2, <1>3 DEF Receive

\* The server applies a put that continues its array.
LEMMA ServerPatience ==
    ASSUME TypeInv, NEW d \in Devices, Patience(d), Upright(d), ServerApply(d)
    PROVE  Patience(d)' /\ Upright(d)'
<1> DEFINE p == pending[d]
           a == applied[d]
           w == p[a + 1]
<1>1. p \in Seq(Write) /\ a \in Nat /\ a < Len(p) /\ server \in Node
  BY EchoTypes DEF ServerApply
<1>2. w \in Write /\ p # <<>>
  BY <1>1
<1>3. /\ server' = Apply(server, w) /\ applied'[d] = a + 1
      /\ UNCHANGED <<mainQ, sharedQ, cache, pending>>
  BY DEF ServerApply, sdkVars, TypeInv, TypeOK
<1>4. cache[d] # Unknown
  BY <1>2 DEF Patience, NotLoaded
<1>5. Shown(d)' = Shown(d)
  BY <1>3 DEF Shown
<1>6. Patience(d)'
  BY <1>3, <1>4, <1>5 DEF Patience
<1>7. ASSUME MaxDrops = 0 PROVE Continued(server', a + 1, p)
  <2>1. Continued(server, a, p) /\ Chained(p)
    BY <1>7 DEF Upright, Patience
  <2> HIDE DEF p, a
  <2>2. Fits(server, w)
    <3>1. CASE a = 0
      <4>1. a + 1 = 1
        BY <3>1
      <4> QED
        BY <1>2, <2>1, <3>1, <4>1 DEF Continued
    <3>2. CASE a > 0
      <4>1. a + 1 \in 2 .. Len(p) /\ (a + 1) - 1 = a
        BY <1>1, <3>2
      <4>2. p[a + 1].op = "set" => p[a + 1].key = Behind(p[a])
        BY <2>1, <4>1 DEF Chained
      <4>3. Filled(server, Behind(p[a]))
        BY <2>1, <3>2 DEF Continued
      <4> QED
        BY <4>2, <4>3 DEF Fits
    <3> QED
      BY <1>1, <3>1, <3>2
  <2>3. Filled(server', Behind(w))
    BY <1>1, <1>2, <1>3, <2>2, FilledApply
  <2>4. Behind(w) \in Nat
    BY <2>3 DEF Filled
  <2>5. a + 1 > 0 /\ a + 1 # 0
    BY <1>1
  <2> QED
    BY <2>3, <2>4, <2>5 DEF Continued
<1> QED
  BY <1>3, <1>6, <1>7 DEF Upright

\* A process that does not run gets no calls.
LEMMA NextStopped ==
    ASSUME TypeInv, [Next]_vars, NEW d \in Devices, Stopped(d)
    PROVE  Stopped(d)'
<1> USE DEF TypeInv
<1> SUFFICES ASSUME app'[d] = "off", sharedQ'[d] # <<>> PROVE FALSE
  BY DEF Stopped
<1>1. ASSUME UNCHANGED <<app, sharedQ>> PROVE FALSE
  BY <1>1 DEF Stopped
<1>2. ASSUME app'[d] = "on" PROVE FALSE
  BY <1>2
<1>3. ASSUME NEW e \in Devices, Launch(e) PROVE FALSE
  BY <1>3 DEF Launch, Stopped, TypeOK
<1>4. ASSUME NEW e \in Devices, Kill(e) \/ RunTrap(e) PROVE FALSE
  BY <1>4 DEF Kill, RunTrap, End, Stopped, TypeOK
<1>5. ASSUME NEW e \in Devices, UserStep(e) PROVE FALSE
  <2>1. app[e] = "on" /\ app' = app
    BY <1>5, TapFrame DEF Ready, UserStep, DateCheckAndSave, ConfirmReplace, AskDelete, ConfirmDelete,
       AskDeleteAll, ConfirmDeleteAll, CancelAlert, OpenSearch, Refresh, uiVars
  <2>2. e # d => sharedQ'[d] = sharedQ[d]
    BY <1>5 DEF UserStep, DateCheckAndSave, ConfirmReplace, AskDelete, ConfirmDelete,
       AskDeleteAll, ConfirmDeleteAll, CancelAlert, OpenSearch, Refresh, TypeOK
  <2> QED
    BY <2>1, <2>2 DEF Stopped
<1>6. ASSUME NEW e \in Devices, MainStep(e) PROVE FALSE
  <2>1. CASE ~RunTrap(e)
    <3>1. app[e] = "on" /\ app' = app
      BY <1>6, <2>1 DEF MainStep, RunFetch, RunEvent, RunRemove, RunRemoveAll, MainBlock, uiVars
    <3>2. e # d => sharedQ'[d] = sharedQ[d]
      BY <1>6, <2>1 DEF MainStep, RunFetch, RunEvent, RunRemove, RunRemoveAll, TypeOK
    <3> QED
      BY <3>1, <3>2 DEF Stopped
  <2> QED
    BY <1>4, <2>1
<1>7. ASSUME NEW e \in Devices, SharedStep(e) PROVE FALSE
  <2>1. app' = app /\ sharedQ[e] # <<>>
    BY <1>7 DEF SharedStep, addEventRegistration, ApplyUserOverwrite, uiVars
  <2>2. e # d => sharedQ'[d] = sharedQ[d]
    BY <1>7 DEF SharedStep, addEventRegistration, ApplyUserOverwrite, TypeOK
  <2> QED
    BY <2>1, <2>2 DEF Stopped
<1>8. ASSUME NEW e \in Devices, Receive(e) PROVE FALSE
  BY <1>1, <1>8 DEF Receive, OnDataUpdate, AckWrite, uiVars
<1>9. ASSUME NEW e \in Devices, NetStep(e) \/ Drop(e) PROVE FALSE
  BY <1>1, <1>9 DEF NetStep, Connect, Listen, ServerApply, Drop, uiVars
<1>10. CASE UNCHANGED vars
  BY <1>1, <1>10 DEF vars, uiVars
<1>11. CASE Next
  BY <1>3, <1>4, <1>5, <1>6, <1>7, <1>8, <1>9, <1>11 DEF Next
<1> QED
  BY <1>10, <1>11

\* What a step does not touch.
LEMMA PatienceFrame ==
    ASSUME NEW d \in Devices, Patience(d), Upright(d), server' = server, mainQ'[d] = mainQ[d],
           sharedQ'[d] = sharedQ[d], cache'[d] = cache[d], pending'[d] = pending[d],
           MaxDrops = 0 => applied'[d] = applied[d]
    PROVE  Patience(d)' /\ Upright(d)'
<1>1. Shown(d)' = Shown(d)
  BY DEF Shown
<1> QED
  BY <1>1 DEF Patience, Upright

\* The process starts.
LEMMA LaunchPatience ==
    ASSUME TypeInv, NEW d \in Devices, Stopped(d), Patience(d), Upright(d), Launch(d)
    PROVE  Patience(d)' /\ Upright(d)'
<1>1. /\ mainQ'[d] = <<FetchBlock>> /\ sharedQ[d] = <<>> /\ sharedQ'[d] = <<>>
      /\ UNCHANGED <<server, cache, pending, applied>>
  BY DEF Launch, Stopped, sdkVars, netVars, TypeInv, TypeOK
<1>2. Shown(d)' = Shown(d)
  BY <1>1 DEF Shown
<1>3. Legible(<<FetchBlock>>) /\ Reading(<<>>, <<FetchBlock>>)
  BY DEF Legible, Reading, FetchBlock
<1>4. cache[d] = Unknown => NotLoaded(server, pending[d], <<>>, <<FetchBlock>>)
  BY DEF Patience, NotLoaded, FetchBlock
<1> QED
  BY <1>1, <1>2, <1>3, <1>4 DEF Patience, Doing, Upright

\* The process is killed, between two puts perhaps, on a connection that was
\* never lost.
LEMMA KillPatience ==
    ASSUME TypeInv, MaxKills = 0 \/ MaxDrops = 0, NEW d \in Devices, Upright(d), Kill(d)
    PROVE  Patience(d)' /\ Upright(d)'
<1>1. MaxDrops = 0
  BY DEF Kill, TypeInv, TypeOK, Bounds
<1>2. Continued(server, applied[d], pending[d]) /\ server \in Node
  BY <1>1, EchoTypes DEF Upright
<1>3. PICK m \in Nat : Filled(server, m)
  BY <1>2 DEF Continued
<1>4. CastSucceeds(server)
  BY <1>2, <1>3, FilledReads
<1>5. /\ server' = server /\ mainQ'[d] = <<>> /\ sharedQ'[d] = <<>> /\ cache'[d] = Unknown
      /\ pending'[d] = <<>> /\ applied'[d] = 0
  BY DEF Kill, End, TypeInv, TypeOK
<1>6. Legible(<<>>) /\ Reading(<<>>, <<>>) /\ Chained(<<>>) /\ NotLoaded(server, <<>>, <<>>, <<>>)
  BY <1>4 DEF Legible, Reading, Chained, NotLoaded
<1>7. Continued(server, 0, <<>>)
  BY <1>3 DEF Continued
<1> QED
  BY <1>5, <1>6, <1>7 DEF Patience, Doing, Upright

\* Everything that is known of one device with a patient user.
OneInv == Inv /\ EchoInv /\ PatientInv /\ NeverTraps

\* It holds before the app was ever started.
LEMMA InitOne == Init => OneInv
<1> SUFFICES ASSUME Init PROVE OneInv
  OBVIOUS
<1>1. Inv
  BY InitInv
<1>2. EchoInv
  <2> SUFFICES ASSUME NEW d \in Devices PROVE Echo(d)
    BY DEF EchoInv
  <2>1. cache[d] = Unknown /\ pending[d] = <<>> /\ applied[d] = 0 /\ down[d] = <<>>
    BY DEF Init
  <2>2. Own(server, Unknown, <<>>) /\ <<>> \in Seq(Write)
    BY DEF Own
  <2> QED
    BY <2>1, <2>2, EchoedFresh DEF Echo
<1>3. PatientInv
  <2> SUFFICES ASSUME NEW d \in Devices PROVE Stopped(d) /\ Patience(d) /\ Upright(d)
    BY DEF PatientInv
  <2>1. /\ cache[d] = Unknown /\ pending[d] = <<>> /\ applied[d] = 0 /\ mainQ[d] = <<>> /\ sharedQ[d] = <<>>
        /\ server \in Node /\ CastSucceeds(server)
    BY DEF Init
  <2>2. PICK m \in Nat : Filled(server, m)
    BY <2>1, ReadsFilled
  <2>3. Legible(<<>>) /\ Reading(<<>>, <<>>) /\ Chained(<<>>) /\ NotLoaded(server, <<>>, <<>>, <<>>)
    BY <2>1 DEF Legible, Reading, Chained, NotLoaded
  <2>4. Continued(server, 0, <<>>)
    BY <2>2 DEF Continued
  <2> QED
    BY <2>1, <2>3, <2>4 DEF Stopped, Patience, Doing, Upright
<1>4. NeverTraps
  BY DEF Init, NeverTraps
<1> QED
  BY <1>1, <1>2, <1>3, <1>4 DEF OneInv

\* A step of the one device or of the server.
LEMMA NextOne ==
    ASSUME OneDevice, Patient, MaxKills = 0 \/ MaxDrops = 0, OneInv, [Next]_vars
    PROVE  OneInv'
<1>1. TypeInv /\ EventPipeline /\ EchoInv /\ PatientInv /\ NeverTraps
  BY DEF OneInv, Inv
<1>2. Inv' /\ EchoInv'
  BY NextInv, NextEcho DEF OneInv, Inv
<1>3. ASSUME NEW d \in Devices
      PROVE  Echo(d) /\ Pipeline(d) /\ Stopped(d) /\ Patience(d) /\ Upright(d)
  BY <1>1 DEF EchoInv, EventPipeline, PatientInv
<1>4. \A d \in Devices : Stopped(d)'
  BY <1>1, <1>3, NextStopped
<1>5. SUFFICES trapped' = trapped /\ \A d \in Devices : Patience(d)' /\ Upright(d)'
  BY <1>1, <1>2, <1>4, <1>5 DEF OneInv, PatientInv, NeverTraps
<1>6. ASSUME NEW d \in Devices, Patience(d)' /\ Upright(d)', trapped' = trapped
      PROVE  trapped' = trapped /\ \A e \in Devices : Patience(e)' /\ Upright(e)'
  BY <1>6 DEF OneDevice
<1> DEFINE Kept == trapped' = trapped /\ \A d \in Devices : Patience(d)' /\ Upright(d)'
<1>7. ASSUME NEW d \in Devices, UserStep(d) PROVE Kept
  <2>1. UNCHANGED <<server, cache, pending, applied, trapped>>
    BY <1>7, TapFrame DEF UserStep, DateCheckAndSave, ConfirmReplace, AskDelete, ConfirmDelete,
       AskDeleteAll, ConfirmDeleteAll, CancelAlert, OpenSearch, Refresh, histVars
  <2>2. Patience(d)'
    BY <1>1, <1>3, <1>7, UserPatience
  <2>3. Upright(d)'
    BY <1>3, <2>1 DEF Upright
  <2> QED
    BY <1>6, <2>1, <2>2, <2>3
<1>8. ASSUME NEW d \in Devices, MainStep(d) PROVE Kept
  <2>1. Patience(d)' /\ UNCHANGED <<server, cache, pending, applied, trapped>>
    BY <1>1, <1>3, <1>8, MainPatience
  <2>2. Upright(d)'
    BY <1>3, <2>1 DEF Upright
  <2> QED
    BY <1>6, <2>1, <2>2
<1>9. ASSUME NEW d \in Devices, SharedStep(d) PROVE Kept
  <2>1. trapped' = trapped
    BY <1>9 DEF SharedStep, addEventRegistration, ApplyUserOverwrite, histVars
  <2>2. CASE addEventRegistration(d)
    <3>1. Patience(d)'
      BY <1>1, <1>3, <2>2, ObservePatience
    <3>2. Upright(d)'
      BY <1>3, <2>2 DEF addEventRegistration, netVars, Upright
    <3> QED
      BY <1>6, <2>1, <3>1, <3>2
  <2>3. CASE ApplyUserOverwrite(d)
    BY <1>1, <1>3, <1>6, <2>1, <2>3, WritePatience
  <2> QED
    BY <1>9, <2>2, <2>3 DEF SharedStep
<1>10. ASSUME NEW d \in Devices, Receive(d) PROVE Kept
  <2>1. trapped' = trapped
    BY <1>10 DEF Receive, OnDataUpdate, AckWrite, histVars
  <2> QED
    BY <1>1, <1>3, <1>6, <1>10, <2>1, ReceivePatience, ReceiveUpright
<1>11. ASSUME NEW d \in Devices, ServerApply(d) PROVE Kept
  <2>1. trapped' = trapped
    BY <1>11 DEF ServerApply
  <2> QED
    BY <1>1, <1>3, <1>6, <1>11, <2>1, ServerPatience
<1>12. ASSUME NEW d \in Devices, Connect(d) \/ Listen(d) \/ Drop(d) PROVE Kept
  <2>1. UNCHANGED <<server, mainQ, sharedQ, cache, pending, trapped>>
    BY <1>12 DEF Connect, Listen, Drop, sdkVars, histVars
  <2>2. MaxDrops = 0 => applied'[d] = applied[d]
    BY <1>1, <1>12 DEF Connect, Listen, Drop, TypeInv, TypeOK, Bounds
  <2> QED
    BY <1>3, <1>6, <2>1, <2>2, PatienceFrame
<1>13. ASSUME NEW d \in Devices, Launch(d) \/ Kill(d) PROVE Kept
  <2>1. trapped' = trapped
    BY <1>13 DEF Launch, Kill, histVars
  <2> QED
    BY <1>1, <1>3, <1>6, <1>13, <2>1, LaunchPatience, KillPatience
<1>14. CASE UNCHANGED vars
  <2>1. UNCHANGED <<server, mainQ, sharedQ, cache, pending, applied, trapped>>
    BY <1>14 DEF vars, sdkVars, netVars, histVars
  <2> QED
    BY <1>3, <2>1, PatienceFrame
<1>15. CASE Next
  <2> HIDE DEF Kept
  <2>1. Kept
    BY <1>7, <1>8, <1>9, <1>10, <1>11, <1>12, <1>13, <1>15 DEF Next, NetStep
  <2> QED
    BY <2>1 DEF Kept
<1> QED
  BY <1>14, <1>15

\* The forced cast of fetchContainers (Model.swift:25) never fails for one
\* device whose user waits for the app, for any number of edits, provided
\* that the app is never killed or the connection never lost.
THEOREM CastNeverFails ==
    OneDevice /\ Patient /\ (MaxKills = 0 \/ MaxDrops = 0) => (Spec => []NeverTraps)
<1> SUFFICES ASSUME OneDevice, Patient, MaxKills = 0 \/ MaxDrops = 0 PROVE Spec => []NeverTraps
  OBVIOUS
<1>1. OneInv /\ [Next]_vars => OneInv'
  BY NextOne
<1>2. OneInv => NeverTraps
  BY DEF OneInv
<1> QED
  BY <1>1, <1>2, InitOne, PTL DEF Spec

\* For the same user, as long as no connection is lost, the keys in the
\* database are 0 .. n - 1 at every moment, also between the removeValue and
\* the setValues of updateAction, and wherever the app is killed.
THEOREM DiaryStaysReadable ==
    OneDevice /\ Patient /\ MaxDrops = 0 => (Spec => []ServerStaysReadable)
<1> SUFFICES ASSUME OneDevice, Patient, MaxDrops = 0 PROVE Spec => []ServerStaysReadable
  OBVIOUS
<1>1. OneInv /\ [Next]_vars => OneInv'
  BY NextOne
<1>2. OneInv => ServerStaysReadable
  <2> SUFFICES ASSUME OneInv PROVE CastSucceeds(server)
    BY DEF ServerStaysReadable
  <2>1. PICK d \in Devices : TRUE
    BY DEF OneDevice
  <2>2. Continued(server, applied[d], pending[d]) /\ server \in Node
    BY DEF OneInv, Inv, PatientInv, Upright, TypeInv, TypeOK
  <2>3. PICK m \in Nat : Filled(server, m)
    BY <2>2 DEF Continued
  <2> QED
    BY <2>2, <2>3, FilledReads
<1> QED
  BY <1>1, <1>2, InitOne, PTL DEF Spec

-----------------------------------------------------------------------------
(* One device, a patient user, and no killed process: what is lost. *)

\* The dreams in node n.
Held(n) == {n[k] : k \in Present(n)}

\* Dream x needs nobody's care: its date is in A, the dates the user agreed
\* to; or a call in q will store it; or it is in v, which is shown, and no
\* call in q will take it away.
Secure(A, q, v, x) ==
    \/ x.writedDate \in A
    \/ \E i \in DOMAIN q : q[i].op = "set" /\ q[i].dream = x
    \/ x \in Held(v) /\ \A i \in DOMAIN q : q[i] # RemoveCall

\* A removeValue is only ever the next call.
RemovesFirst(q) == \A i \in DOMAIN q : q[i] = RemoveCall => i = 1

\* What the blocks in b remove, the user agreed to.
Agreed(A, b) ==
    \A i \in DOMAIN b :
        /\ b[i].do = "remove" => b[i].dream.writedDate \in A
        /\ b[i].do = "removeAll" => A = Dates

\* Every write in p stores a secure dream.
WritesSecure(A, q, v, p) ==
    \A i \in DOMAIN p : p[i].op = "set" => Secure(A, q, v, p[i].dream)

\* So is all the database ever held.
Careful(d) ==
    /\ RemovesFirst(sharedQ[d])
    /\ Agreed(asked, mainQ[d])
    /\ WritesSecure(asked, sharedQ[d], Shown(d), pending[d])
    /\ cache[d] = Unknown => kept \subseteq Held(server)
    /\ cache[d] # Unknown => \A x \in kept : Secure(asked, sharedQ[d], Shown(d), x)

\* A device that has heard of the server has an observer.
Watched(d) == link[d] = "listening" \/ cache[d] # Unknown => observers[d] > 0

LossInv == \A d \in Devices : Careful(d) /\ Watched(d)

\* More dates agreed to, and calls that store as much and remove no more.
LEMMA SecureMore ==
    ASSUME NEW A, NEW B, A \subseteq B, NEW q, NEW r, NEW v, NEW x, Secure(A, q, v, x),
           \A i \in DOMAIN q : q[i].op = "set" => \E j \in DOMAIN r : r[j] = q[i],
           \A j \in DOMAIN r : r[j] = RemoveCall => \E i \in DOMAIN q : q[i] = RemoveCall
    PROVE  Secure(B, r, v, x)
<1>1. CASE x.writedDate \in A
  BY <1>1 DEF Secure
<1>2. CASE \E i \in DOMAIN q : q[i].op = "set" /\ q[i].dream = x
  BY <1>2 DEF Secure
<1>3. CASE x \in Held(v) /\ \A i \in DOMAIN q : q[i] # RemoveCall
  BY <1>3 DEF Secure
<1> QED
  BY <1>1, <1>2, <1>3 DEF Secure

\* The next call is a write that fits: what was secure is, and so is what the
\* write stores.
LEMMA SecureWrite ==
    ASSUME NEW A, NEW q \in Seq(Call), q # <<>>, RemovesFirst(q), NEW w \in Write, w = q[1],
           NEW v \in Node, Fits(v, w)
    PROVE  /\ \A x : Secure(A, q, v, x) => Secure(A, Tail(q), Apply(v, w), x)
           /\ w.op = "set" => Secure(A, Tail(q), Apply(v, w), w.dream)
<1> DEFINE t == Tail(q)
           u == Apply(v, w)
<1>1. /\ \A i \in DOMAIN t : i + 1 \in DOMAIN q /\ t[i] = q[i + 1] /\ i \in Nat /\ i >= 1
      /\ 1 \in DOMAIN q
  BY TailElements
<1>2. \A i \in DOMAIN q : i # 1 => \E j \in DOMAIN t : t[j] = q[i]
  <2> SUFFICES ASSUME NEW i \in DOMAIN q, i # 1 PROVE \E j \in DOMAIN t : t[j] = q[i]
    OBVIOUS
  <2>1. i - 1 \in DOMAIN t /\ t[i - 1] = q[i]
    OBVIOUS
  <2> QED
    BY <2>1
<1> HIDE DEF t
<1>3. \A i \in DOMAIN t : t[i] # RemoveCall
  <2> SUFFICES ASSUME NEW i \in DOMAIN t, t[i] = RemoveCall PROVE FALSE
    OBVIOUS
  <2>1. i + 1 = 1 /\ i >= 1 /\ i \in Nat
    BY <1>1 DEF RemovesFirst
  <2> QED
    BY <2>1
<1>4. CASE w.op = "remove"
  <2>1. w = RemoveCall
    BY <1>4 DEF Write, RemoveCall
  <2>2. ASSUME NEW x, Secure(A, q, v, x) PROVE Secure(A, t, u, x)
    <3>1. CASE x.writedDate \in A
      BY <3>1 DEF Secure
    <3>2. CASE \E i \in DOMAIN q : q[i].op = "set" /\ q[i].dream = x
      <4>1. PICK i \in DOMAIN q : q[i].op = "set" /\ q[i].dream = x
        BY <3>2
      <4>2. i # 1
        BY <1>4, <4>1
      <4>3. PICK j \in DOMAIN t : t[j] = q[i]
        BY <1>2, <4>2
      <4> QED
        BY <4>1, <4>3 DEF Secure
    <3> QED
      BY <1>1, <2>1, <2>2, <3>1, <3>2 DEF Secure
  <2> QED
    BY <1>4, <2>2 DEF t
<1>5. CASE w.op # "remove"
  <2>1. w.op = "set" /\ w.key \in Keys /\ w.dream \in Dream
    BY <1>5 DEF Write, RemoveCall
  <2>2. w.key \in Nat /\ Present(v) = 0 .. w.key - 1
    BY <2>1 DEF Fits, Filled
  <2>3. \A k \in Keys : u[k] = IF k = w.key THEN w.dream ELSE v[k]
    BY <1>5, <2>1 DEF Apply, Covers, Put
  <2>4. w.dream # None
    BY <2>1, NoneAssumption
  <2> HIDE DEF u
  <2>5. w.dream \in Held(u)
    <3>1. w.key \in Present(u) /\ u[w.key] = w.dream
      BY <2>1, <2>3, <2>4 DEF Present
    <3> QED
      BY <3>1 DEF Held
  <2>6. ASSUME NEW x \in Held(v) PROVE x \in Held(u)
    <3>1. PICK k \in Present(v) : x = v[k]
      BY DEF Held
    <3>2. k # w.key
      BY <2>2
    <3>3. u[k] = v[k] /\ k \in Present(u)
      BY <2>3, <3>2 DEF Present
    <3> QED
      BY <3>1, <3>3 DEF Held
  <2>7. Secure(A, t, u, w.dream)
    BY <1>3, <2>5 DEF Secure
  <2>8. ASSUME NEW x, Secure(A, q, v, x) PROVE Secure(A, t, u, x)
    <3>1. CASE x.writedDate \in A
      BY <3>1 DEF Secure
    <3>2. CASE \E i \in DOMAIN q : q[i].op = "set" /\ q[i].dream = x
      <4>1. PICK i \in DOMAIN q : q[i].op = "set" /\ q[i].dream = x
        BY <3>2
      <4>2. CASE i = 1
        BY <2>7, <4>1, <4>2
      <4>3. CASE i # 1
        <5>1. PICK j \in DOMAIN t : t[j] = q[i]
          BY <1>2, <4>3
        <5> QED
          BY <4>1, <5>1 DEF Secure
      <4> QED
        BY <4>2, <4>3
    <3>3. CASE x \in Held(v)
      BY <1>3, <2>6, <3>3 DEF Secure
    <3> QED
      BY <2>8, <3>1, <3>2, <3>3 DEF Secure
  <2> QED
    BY <2>7, <2>8 DEF t, u
<1> QED
  BY <1>4, <1>5

\* updateAction stores every dream of the array again.
LEMMA UpdateActionSecures ==
    ASSUME NEW s \in Seq(Dream), NEW q, q = updateAction(s)
    PROVE  /\ RemovesFirst(q)
           /\ \A A, v : \A x \in Range(s) : Secure(A, q, v, x)
<1>1. /\ Len(s) \in Nat /\ DOMAIN q = 1 .. Len(s) + 1 /\ DOMAIN s = 1 .. Len(s)
      /\ \A i \in 2 .. Len(s) + 1 : q[i] = SetCall(i - 2, s[i - 1])
  BY UpdateActionIs
<1>2. RemovesFirst(q)
  <2> SUFFICES ASSUME NEW i \in DOMAIN q, i # 1 PROVE q[i] # RemoveCall
    BY DEF RemovesFirst
  <2>1. i \in 2 .. Len(s) + 1
    BY <1>1
  <2>2. q[i] = SetCall(i - 2, s[i - 1])
    BY <1>1, <2>1
  <2>3. q[i].op = "set" /\ RemoveCall.op = "remove"
    BY <2>2 DEF SetCall, RemoveCall
  <2> QED
    BY <2>3
<1>3. ASSUME NEW A, NEW v, NEW x \in Range(s) PROVE Secure(A, q, v, x)
  <2>1. PICK j \in DOMAIN s : s[j] = x
    BY DEF Range
  <2> DEFINE i == j + 1
  <2>2. i \in 2 .. Len(s) + 1 /\ i \in DOMAIN q /\ i - 1 = j
    BY <1>1
  <2> HIDE DEF i
  <2>3. q[i] = SetCall(i - 2, x)
    BY <1>1, <2>1, <2>2
  <2>4. q[i].op = "set" /\ q[i].dream = x
    BY <2>3 DEF SetCall
  <2> QED
    BY <2>2, <2>4 DEF Secure
<1> QED
  BY <1>2, <1>3

\* Dates stay agreed to; only the server's puts add to what was ever held.
LEMMA TapHistory ==
    ASSUME TypeInv, NEW d \in Devices, UserStep(d)
    PROVE  asked \subseteq asked' /\ kept' = kept
BY DEF UserStep, DateCheckAndSave, ConfirmReplace, AskDelete, ConfirmDelete, AskDeleteAll,
   ConfirmDeleteAll, CancelAlert, OpenSearch, Refresh, histVars, TypeInv, TypeOK

\* What is secure for all dreams at once.
LEMMA CarefulMore ==
    ASSUME NEW d \in Devices, Careful(d), asked \subseteq asked', kept' = kept, server' = server,
           cache'[d] = cache[d], pending'[d] = pending[d],
           RemovesFirst(sharedQ'[d]), Agreed(asked', mainQ'[d]),
           \A x : Secure(asked, sharedQ[d], Shown(d), x) => Secure(asked', sharedQ'[d], Shown(d), x)
    PROVE  Careful(d)'
<1>1. Shown(d)' = Shown(d)
  BY DEF Shown
<1>2. WritesSecure(asked', sharedQ'[d], Shown(d), pending[d])
  BY DEF Careful, WritesSecure
<1> QED
  BY <1>1, <1>2 DEF Careful

\* A tap.
LEMMA UserCareful ==
    ASSUME Patient, TypeInv, NEW d \in Devices, Careful(d), UserStep(d)
    PROVE  Careful(d)'
<1> DEFINE r == sharedQ'[d]
<1>1. Ready(d) /\ server' = server /\ cache' = cache /\ pending' = pending
  BY TapFrame
<1>2. mainQ[d] = <<>> /\ sharedQ[d] = <<>>
  BY <1>1, ReadyIdle
<1>3. asked \subseteq asked' /\ kept' = kept
  BY TapHistory
<1>4. Agreed(asked', <<>>) /\ Agreed(asked', <<FetchBlock>>)
  BY DEF Agreed, FetchBlock
<1>5. asked' = Dates => Agreed(asked', <<RemoveAllBlock>>)
  BY DEF Agreed, RemoveAllBlock
<1>6. ASSUME NEW x \in Dream, x.writedDate \in asked' PROVE Agreed(asked', <<RemoveBlock(x)>>)
  BY <1>6 DEF Agreed, RemoveBlock
<1>7. r = <<>> \/ \E x \in Dream : r = <<SetCall(Len(container[d]), x)>>
  BY <1>2, PatientTap
<1>8. Agreed(asked', mainQ'[d])
  BY <1>2, <1>4, <1>5, <1>6, PatientTap
<1> HIDE DEF r
<1>9. \A i \in DOMAIN r : r[i] # RemoveCall
  <2>1. CASE r = <<>>
    BY <2>1
  <2>2. CASE \E x \in Dream : r = <<SetCall(Len(container[d]), x)>>
    <3>1. PICK x \in Dream : r = <<SetCall(Len(container[d]), x)>>
      BY <2>2
    <3>2. SetCall(Len(container[d]), x).op = "set" /\ RemoveCall.op = "remove"
      BY DEF SetCall, RemoveCall
    <3>3. \A i \in DOMAIN r : r[i] = SetCall(Len(container[d]), x)
      BY <3>1
    <3> QED
      BY <3>2, <3>3
  <2> QED
    BY <1>7, <2>1, <2>2
<1>10. RemovesFirst(r)
  BY <1>9 DEF RemovesFirst
<1>11. ASSUME NEW x, Secure(asked, sharedQ[d], Shown(d), x) PROVE Secure(asked', r, Shown(d), x)
  <2>1. \A i \in DOMAIN sharedQ[d] : FALSE
    BY <1>2
  <2> QED
    BY <1>3, <1>9, <1>11, <2>1, SecureMore
<1> QED
  BY <1>1, <1>3, <1>8, <1>10, <1>11, CarefulMore DEF r

\* removeAction stores every dream of another date again, because the
\* container it works on is the one the observers were shown.
LEMMA RemovalCareful ==
    ASSUME TypeInv, NEW d \in Devices, Pipeline(d), Patience(d), Careful(d), Watched(d),
           RunRemove(d) \/ RunRemoveAll(d)
    PROVE  Careful(d)'
<1> DEFINE b == mainQ[d]
           r == sharedQ'[d]
<1>1. /\ sharedQ[d] = <<>> /\ Len(b) = 1 /\ b[1].do \in {"remove", "removeAll"}
      /\ Tail(b) = <<>> /\ cache[d] # Unknown
  BY RemovalStep
<1>2. PICK s \in Seq(Dream) :
         /\ r = updateAction(s)
         /\ \/ s \in WithoutDate(container[d], b[1].dream.writedDate) /\ b[1].do = "remove"
            \/ b[1].do = "removeAll"
  BY RemovalStep
<1>3. /\ UNCHANGED <<server, cache, pending, kept, asked>> /\ mainQ'[d] = <<>>
      /\ observers[d] > 0 /\ b \in Seq(Block)
  BY <1>1 DEF RunRemove, RunRemoveAll, MainBlock, sdkVars, histVars, Watched, TypeInv, TypeOK
<1>4. 1 \in DOMAIN b /\ \A i \in DOMAIN b : i = 1
  BY <1>1, <1>3
<1>5. CastSucceeds(Shown(d)) /\ container[d] \in Containers(Shown(d)) /\ Shown(d) \in Node
  <2>1. Shown(d) \in Node /\ Shown(d) # Unknown
    BY <1>1, ShownLoaded
  <2>2. ~LastEventIs(b, Shown(d))
    <3>1. EventBlock(Shown(d)).do = "event"
      BY DEF EventBlock
    <3> QED
      BY <1>1, <1>4, <3>1 DEF LastEventIs
  <2>3. \A x : ~Queued(<<>>, x)
    BY DEF Queued
  <2>4. ~Queued(b, FetchBlock)
    <3>1. FetchBlock.do = "fetch"
      BY DEF FetchBlock
    <3> QED
      BY <1>1, <1>4, <3>1 DEF Queued
  <2> QED
    BY <1>1, <1>3, <2>1, <2>2, <2>3, <2>4 DEF Pipeline
<1>6. RemovesFirst(r) /\ \A A, v : \A x \in Range(s) : Secure(A, r, v, x)
  BY <1>2, UpdateActionSecures
<1>7. Agreed(asked, b) /\ Agreed(asked, <<>>)
  BY DEF Careful, Agreed
<1> HIDE DEF b, r
<1>8. ASSUME NEW x, Secure(asked, sharedQ[d], Shown(d), x), x \in Dream
      PROVE  Secure(asked, r, Shown(d), x)
  <2>1. CASE x.writedDate \in asked
    BY <2>1 DEF Secure
  <2>2. CASE x.writedDate \notin asked
    <3>1. x \in Held(Shown(d))
      BY <1>1, <1>8, <2>2 DEF Secure
    <3>2. b[1].do # "removeAll"
      <4>1. x.writedDate \in Dates
        BY <1>8 DEF Dream
      <4> QED
        BY <1>4, <1>7, <2>2, <4>1 DEF Agreed
    <3>3. b[1].dream.writedDate \in asked
      BY <1>1, <1>4, <1>7, <3>2 DEF Agreed
    <3>4. s \in WithoutDate(container[d], b[1].dream.writedDate)
      BY <1>2, <3>2
    <3>5. PICK k \in Present(Shown(d)) : x = Shown(d)[k]
      BY <3>1 DEF Held
    <3>6. x \in Range(AsArray(Shown(d)))
      BY <1>5, <3>5, PresentInArray
    <3>7. x \in Range(container[d])
      BY <1>5, <3>6, ContainersAre
    <3>8. x.writedDate # b[1].dream.writedDate
      BY <2>2, <3>3
    <3>9. container[d] \in Seq(Dream)
      BY DEF TypeInv, TypeOK
    <3>10. x \in Range(s)
      BY <3>4, <3>7, <3>8, <3>9, WithoutDateKeeps
    <3> QED
      BY <1>6, <3>10
  <2> QED
    BY <2>1, <2>2
<1>9. \A x \in kept : Secure(asked, r, Shown(d), x)
  <2>1. kept \subseteq Dream
    BY DEF TypeInv, TypeOK
  <2> QED
    BY <1>1, <1>8, <2>1 DEF Careful
<1>10. WritesSecure(asked, r, Shown(d), pending[d])
  <2> SUFFICES ASSUME NEW i \in DOMAIN pending[d], pending[d][i].op = "set"
               PROVE  Secure(asked, r, Shown(d), pending[d][i].dream)
    BY DEF WritesSecure
  <2>1. pending[d][i] \in Write
    BY EchoTypes
  <2>2. pending[d][i].dream \in Dream
    BY <2>1 DEF Write, RemoveCall
  <2> QED
    BY <1>8, <2>2 DEF Careful, WritesSecure
<1>11. Shown(d)' = Shown(d)
  BY <1>3 DEF Shown
<1> QED
  BY <1>1, <1>3, <1>6, <1>7, <1>9, <1>10, <1>11 DEF Careful, r

\* The other blocks of the main thread.
LEMMA MainCareful ==
    ASSUME TypeInv, NEW d \in Devices, Patience(d), Careful(d), RunFetch(d) \/ RunEvent(d)
    PROVE  Careful(d)'
<1> DEFINE q == sharedQ[d]
           b == mainQ[d]
           r == sharedQ'[d]
<1>1. UNCHANGED <<server, cache, pending, kept, asked>> /\ mainQ'[d] = Tail(b) /\ b # <<>>
  BY DEF RunFetch, RunEvent, MainBlock, sdkVars, histVars, TypeInv, TypeOK
<1>2. r = q \/ (r = Append(q, ObserveCall) /\ b[1].do = "fetch")
  BY DEF RunFetch, RunEvent, MainBlock, TypeInv, TypeOK
<1>3. b \in Seq(Block) /\ q \in Seq(Call) /\ RemovesFirst(q) /\ Agreed(asked, b)
  BY DEF Careful, TypeInv, TypeOK
<1> HIDE DEF q, b, r
<1>4. \A i \in DOMAIN Tail(b) : i + 1 \in DOMAIN b /\ Tail(b)[i] = b[i + 1]
  BY <1>1, <1>3, TailElements
<1>5. Agreed(asked, Tail(b))
  BY <1>3, <1>4 DEF Agreed
<1>6. \A i \in DOMAIN q : i \in DOMAIN r /\ r[i] = q[i]
  <2>1. r = Append(q, ObserveCall) => \A i \in DOMAIN q : i \in DOMAIN r /\ r[i] = q[i]
    BY <1>3
  <2> QED
    BY <1>2, <2>1
<1>7. \A i \in DOMAIN r : r[i] = RemoveCall => i \in DOMAIN q /\ q[i] = RemoveCall
  <2>1. RemoveCall # ObserveCall
    <3>1. RemoveCall.op = "remove" /\ ObserveCall.op = "observe"
      BY DEF RemoveCall, ObserveCall
    <3> QED
      BY <3>1
  <2>2. \A i \in DOMAIN Append(q, ObserveCall) :
           (i \in DOMAIN q /\ Append(q, ObserveCall)[i] = q[i]) \/ Append(q, ObserveCall)[i] = ObserveCall
    BY <1>3, AppendElements
  <2>3. CASE r = q
    BY <2>3
  <2>4. CASE r = Append(q, ObserveCall)
    BY <2>1, <2>2, <2>4
  <2> QED
    BY <1>2, <2>3, <2>4
<1>8. RemovesFirst(r)
  BY <1>3, <1>7 DEF RemovesFirst
<1>9. ASSUME NEW x, Secure(asked, q, Shown(d), x) PROVE Secure(asked, r, Shown(d), x)
  BY <1>6, <1>7, <1>9, SecureMore
<1>10. asked' = asked
  BY <1>1
<1> QED
  BY <1>1, <1>5, <1>8, <1>9, <1>10, CarefulMore DEF q, r, b


\* Events agree to nothing and remove nothing.
LEMMA AgreedRaised ==
    ASSUME NEW A, NEW b \in Seq(Block), Agreed(A, b), NEW old, NEW new \in Node \cup {Unknown},
           NEW n \in Nat
    PROVE  Agreed(A, b \o raiseEvents(old, new, n))
BY RaisedElements DEF Agreed

\* The client takes an observe from its queue.
LEMMA ObserveCareful ==
    ASSUME TypeInv, NEW d \in Devices, Careful(d), addEventRegistration(d)
    PROVE  Careful(d)'
<1> DEFINE q == sharedQ[d]
           b == mainQ[d]
           v == Shown(d)
<1>1. b \in Seq(Block) /\ q \in Seq(Call) /\ q # <<>> /\ Head(q) = ObserveCall
  BY DEF addEventRegistration, TypeInv, TypeOK
<1>2. /\ UNCHANGED <<server, cache, pending, kept, asked>> /\ sharedQ'[d] = Tail(q)
      /\ mainQ'[d] = b \o raiseEvents(Unknown, v, 1)
  BY DEF addEventRegistration, histVars, TypeInv, TypeOK
<1>3. v \in Node \cup {Unknown}
  BY EchoTypes, VisibleType DEF Shown
<1>4. RemovesFirst(q) /\ Agreed(asked, b)
  BY DEF Careful
<1> HIDE DEF q, b, v
<1>5. Agreed(asked', mainQ'[d])
  <2>1. PICK n \in Nat : n = 1
    OBVIOUS
  <2>2. Agreed(asked, b \o raiseEvents(Unknown, v, n))
    BY <1>1, <1>3, <1>4, AgreedRaised
  <2> QED
    BY <1>2, <2>1, <2>2
<1>6. /\ \A i \in DOMAIN Tail(q) : i + 1 \in DOMAIN q /\ Tail(q)[i] = q[i + 1] /\ i \in Nat /\ i >= 1
      /\ q[1] = ObserveCall
  BY <1>1, TailElements
<1>7. RemovesFirst(Tail(q))
  BY <1>4, <1>6 DEF RemovesFirst
<1>8. \A i \in DOMAIN q : q[i].op = "set" => \E j \in DOMAIN Tail(q) : Tail(q)[j] = q[i]
  <2> SUFFICES ASSUME NEW i \in DOMAIN q, q[i].op = "set"
               PROVE  \E j \in DOMAIN Tail(q) : Tail(q)[j] = q[i]
    OBVIOUS
  <2>1. i # 1
    BY <1>6 DEF ObserveCall
  <2>2. i - 1 \in DOMAIN Tail(q) /\ Tail(q)[i - 1] = q[i]
    BY <1>1, <2>1
  <2> QED
    BY <2>2
<1>9. ASSUME NEW x, Secure(asked, q, v, x) PROVE Secure(asked, Tail(q), v, x)
  <2>1. PICK r : r = Tail(q)
    OBVIOUS
  <2>2. /\ \A i \in DOMAIN q : q[i].op = "set" => \E j \in DOMAIN r : r[j] = q[i]
        /\ \A j \in DOMAIN r : r[j] = RemoveCall => \E i \in DOMAIN q : q[i] = RemoveCall
    BY <1>6, <1>8, <2>1
  <2>3. Secure(asked, r, v, x)
    BY <1>9, <2>2, SecureMore
  <2> QED
    BY <2>1, <2>3
<1> QED
  BY <1>2, <1>5, <1>7, <1>9, CarefulMore DEF q, v

\* The client takes a write from its queue and shows it.
LEMMA WriteCareful ==
    ASSUME TypeInv, NEW d \in Devices, Patience(d), Careful(d), ApplyUserOverwrite(d)
    PROVE  Careful(d)'
<1> DEFINE b == mainQ[d]
           q == sharedQ[d]
           p == pending[d]
           w == Head(q)
           v == Shown(d)
           u == Visible(cache[d], Append(p, w))
<1>1. /\ b \in Seq(Block) /\ q \in Seq(Call) /\ q # <<>> /\ w # ObserveCall /\ w \in Call
      /\ p \in Seq(Write) /\ observers[d] \in Nat
  BY DEF ApplyUserOverwrite, TypeInv, TypeOK
<1>2. w \in Write
  BY <1>1 DEF Call
<1>3. /\ Doing(q, b, v)
      /\ cache[d] = Unknown => NotLoaded(server, p, q, b)
  BY DEF Patience
<1>4. /\ 1 \in DOMAIN q /\ q[1] = w
      /\ \A i \in DOMAIN Tail(q) : i + 1 \in DOMAIN q /\ Tail(q)[i] = q[i + 1] /\ i \in Nat /\ i >= 1
  BY <1>1, TailElements
<1>5. Writing(q, b, v)
  BY <1>1, <1>3, <1>4 DEF Doing, Removing, Reading
<1>6. cache[d] # Unknown
  BY <1>1, <1>3, <1>4 DEF NotLoaded
<1>7. cache[d] \in Node /\ v \in Node
  BY <1>6, ShownLoaded
<1>8. /\ UNCHANGED <<server, kept, asked>> /\ cache'[d] = cache[d] /\ pending'[d] = Append(p, w)
      /\ mainQ'[d] = b \o raiseEvents(v, u, observers[d]) /\ sharedQ'[d] = Tail(q)
  BY DEF ApplyUserOverwrite, Notify, histVars, TypeInv, TypeOK
<1>9. Shown(d)' = u
  BY <1>8 DEF Shown
<1>10. u = Apply(v, w)
  BY <1>1, <1>2, <1>7, VisibleAppend DEF Shown
<1>11. /\ RemovesFirst(q) /\ Agreed(asked, b) /\ WritesSecure(asked, q, v, p)
       /\ \A x \in kept : Secure(asked, q, v, x)
  BY <1>6 DEF Careful
<1> HIDE DEF b, q, p, w, v, u
<1>12. Fits(v, w) /\ u \in Node
  BY <1>1, <1>2, <1>4, <1>5, <1>7, <1>10, ApplyType DEF Writing
<1>13. /\ \A x : Secure(asked, q, v, x) => Secure(asked, Tail(q), u, x)
       /\ w.op = "set" => Secure(asked, Tail(q), u, w.dream)
  <2>1. w = q[1]
    BY <1>4
  <2> QED
    BY <1>1, <1>2, <1>7, <1>10, <1>11, <1>12, <2>1, SecureWrite
<1>14. Agreed(asked, b \o raiseEvents(v, u, observers[d]))
  BY <1>1, <1>11, <1>12, AgreedRaised
<1>15. RemovesFirst(Tail(q))
  BY <1>4, <1>11 DEF RemovesFirst
<1>16. WritesSecure(asked, Tail(q), u, Append(p, w))
  <2>1. \A i \in DOMAIN Append(p, w) :
           (i \in DOMAIN p /\ Append(p, w)[i] = p[i]) \/ Append(p, w)[i] = w
    BY <1>1, AppendElements
  <2> QED
    BY <1>11, <1>13, <2>1 DEF WritesSecure
<1> QED
  BY <1>6, <1>8, <1>9, <1>11, <1>13, <1>14, <1>15, <1>16 DEF Careful

\* A message of the server: with the first value the device shows all the
\* database ever held, and every other one is silent.
LEMMA ReceiveCareful ==
    ASSUME TypeInv, NEW d \in Devices, Echo(d), Patience(d), Careful(d), Receive(d)
    PROVE  Careful(d)'
<1> DEFINE b == mainQ[d]
           q == sharedQ[d]
           p == pending[d]
           r == pending'[d]
           u == Visible(cache'[d], r)
<1>1. b \in Seq(Block) /\ p \in Seq(Write) /\ observers[d] \in Nat /\ down[d] # <<>>
  BY DEF Receive, OnDataUpdate, AckWrite, TypeInv, TypeOK
<1>2. /\ UNCHANGED <<server, kept, asked>> /\ sharedQ'[d] = q
      /\ mainQ'[d] = b \o raiseEvents(Shown(d), u, observers[d])
      /\ r = p \/ (r = Tail(p) /\ AckWrite(d))
  <2>1. ASSUME NEW x, NEW s, Notify(d, x, s)
        PROVE  /\ mainQ'[d] = b \o raiseEvents(Shown(d), u, observers[d])
               /\ r = s
    BY <2>1 DEF Notify, TypeInv, TypeOK
  <2>2. UNCHANGED <<server, kept, asked>> /\ sharedQ'[d] = q
    BY DEF Receive, OnDataUpdate, AckWrite, histVars
  <2>3. CASE OnDataUpdate(d)
    BY <2>1, <2>2, <2>3 DEF OnDataUpdate
  <2>4. CASE AckWrite(d)
    BY <2>1, <2>2, <2>4 DEF AckWrite
  <2> QED
    BY <2>3, <2>4 DEF Receive
<1>3. AckWrite(d) => cache[d] # Unknown /\ cache'[d] = cache[d] /\ p # <<>>
  <2> SUFFICES ASSUME AckWrite(d) PROVE cache[d] # Unknown /\ cache'[d] = cache[d] /\ p # <<>>
    OBVIOUS
  <2>1. down[d][1].type = "ack" /\ down[d] # <<>> /\ cache'[d] = cache[d]
    BY DEF AckWrite, Notify, TypeInv, TypeOK
  <2>2. applied[d] > 0 /\ cache[d] # Unknown
    BY <2>1, EchoedAck, EchoTypes DEF Echo
  <2> QED
    BY <2>1, <2>2, EchoTypes
<1>4. OnDataUpdate(d) => cache'[d] = Head(down[d]).node /\ Head(down[d]).node \in Node
  BY <1>1, DataNode, EchoTypes DEF OnDataUpdate, Notify, TypeInv, TypeOK
<1>5. cache'[d] # Unknown /\ cache'[d] \in Node
  BY <1>3, <1>4, UnknownAssumption, EchoTypes DEF Receive
<1>6. r \in Seq(Write) /\ \A i \in DOMAIN r : \E j \in DOMAIN p : r[i] = p[j]
  <2> HIDE DEF p, r
  <2>1. CASE r = p
    BY <1>1, <2>1
  <2>2. CASE r = Tail(p) /\ p # <<>>
    <3>1. /\ Tail(p) \in Seq(Write)
          /\ \A i \in DOMAIN Tail(p) : i + 1 \in DOMAIN p /\ Tail(p)[i] = p[i + 1]
      BY <1>1, <2>2, TailElements
    <3> QED
      BY <2>2, <3>1
  <2> QED
    BY <1>2, <1>3, <2>1, <2>2
<1>7. u \in Node /\ Shown(d)' = u
  BY <1>5, <1>6, VisibleLoaded DEF Shown
<1>8. /\ RemovesFirst(q) /\ Agreed(asked, b) /\ WritesSecure(asked, q, Shown(d), p)
      /\ cache[d] = Unknown => kept \subseteq Held(server)
      /\ cache[d] # Unknown => \A x \in kept : Secure(asked, q, Shown(d), x)
  BY DEF Careful
<1>9. Agreed(asked, b \o raiseEvents(Shown(d), u, observers[d]))
  <2> HIDE DEF b, u
  <2> QED
    BY <1>1, <1>7, <1>8, AgreedRaised
<1>10. CASE cache[d] # Unknown
  <2>1. u = Shown(d)
    BY <1>7, <1>10, ReceiveSilent
  <2> HIDE DEF b, q, p, r, u
  <2>2. WritesSecure(asked, q, u, r)
    BY <1>6, <1>8, <2>1 DEF WritesSecure
  <2>3. \A x \in kept : Secure(asked, q, u, x)
    BY <1>8, <1>10, <2>1
  <2> QED
    BY <1>2, <1>5, <1>7, <1>8, <1>9, <2>2, <2>3 DEF Careful, r
<1>11. CASE cache[d] = Unknown
  <2>1. r = <<>> /\ u = server /\ NotLoaded(server, p, q, b)
    BY <1>7, <1>11, FirstLoad
  <2> HIDE DEF b, q, p, r, u
  <2>2. \A i \in DOMAIN q : q[i] # RemoveCall
    <3>1. RemoveCall # ObserveCall
      <4>1. RemoveCall.op = "remove" /\ ObserveCall.op = "observe"
        BY DEF RemoveCall, ObserveCall
      <4> QED
        BY <4>1
    <3> QED
      BY <2>1, <3>1 DEF NotLoaded
  <2>3. WritesSecure(asked, q, u, r)
    BY <2>1 DEF WritesSecure
  <2>4. \A x \in kept : Secure(asked, q, u, x)
    BY <1>8, <1>11, <2>1, <2>2 DEF Secure
  <2> QED
    BY <1>2, <1>5, <1>7, <1>8, <1>9, <2>3, <2>4 DEF Careful, r
<1> QED
  BY <1>10, <1>11


\* The server applies a put: what it stores is secure already.
LEMMA ServerCareful ==
    ASSUME TypeInv, NEW d \in Devices, Patience(d), Careful(d), ServerApply(d)
    PROVE  Careful(d)'
<1> DEFINE p == pending[d]
           i == applied[d] + 1
           w == p[i]
<1>1. p \in Seq(Write) /\ i \in DOMAIN p /\ p # <<>>
  BY EchoTypes DEF ServerApply
<1>2. w \in Write
  BY <1>1
<1>3. UNCHANGED <<mainQ, sharedQ, cache, pending, asked>> /\ kept' = kept \cup ({Put(w)} \ {None})
  BY DEF ServerApply, sdkVars
<1>4. cache[d] # Unknown
  BY <1>1 DEF Patience, NotLoaded
<1>5. Shown(d)' = Shown(d)
  BY <1>3 DEF Shown
<1>6. /\ WritesSecure(asked, sharedQ[d], Shown(d), p)
      /\ \A x \in kept : Secure(asked, sharedQ[d], Shown(d), x)
  BY <1>4 DEF Careful
<1>7. Put(w) # None => w.op = "set" /\ Put(w) = w.dream
  BY <1>2 DEF Put, Write, RemoveCall
<1> HIDE DEF p, i
<1>8. \A x \in kept' : Secure(asked, sharedQ[d], Shown(d), x)
  BY <1>1, <1>3, <1>6, <1>7 DEF WritesSecure
<1> QED
  BY <1>3, <1>4, <1>5, <1>8 DEF Careful

\* The process starts.
LEMMA LaunchCareful ==
    ASSUME TypeInv, NEW d \in Devices, Careful(d), Launch(d)
    PROVE  Careful(d)'
<1>1. mainQ'[d] = <<FetchBlock>> /\ UNCHANGED <<server, sharedQ, cache, pending, kept, asked>>
  BY DEF Launch, sdkVars, histVars, TypeInv, TypeOK
<1>2. Agreed(asked, <<FetchBlock>>)
  BY DEF Agreed, FetchBlock
<1>3. Shown(d)' = Shown(d)
  BY <1>1 DEF Shown
<1> QED
  BY <1>1, <1>2, <1>3 DEF Careful

\* What is not touched stays.
LEMMA CarefulFrame ==
    ASSUME NEW d \in Devices, Careful(d), UNCHANGED <<server, mainQ, sharedQ, cache, pending, kept, asked>>
    PROVE  Careful(d)'
<1>1. Shown(d)' = Shown(d)
  BY DEF Shown
<1> QED
  BY <1>1 DEF Careful

\* A device observes before it listens, and its observers are never removed.
LEMMA NextWatched ==
    ASSUME TypeInv, EchoInv, [Next]_vars, NEW d \in Devices, Watched(d)
    PROVE  Watched(d)'
<1> USE DEF TypeInv
<1>1. ASSUME UNCHANGED <<link, cache, observers>> PROVE Watched(d)'
  BY <1>1 DEF Watched
<1>2. ASSUME NEW e \in Devices, UserStep(e) PROVE Watched(d)'
  BY <1>1, <1>2 DEF UserStep, DateCheckAndSave, ConfirmReplace, AskDelete, ConfirmDelete,
     AskDeleteAll, ConfirmDeleteAll, CancelAlert, OpenSearch, Refresh, sdkVars, netVars
<1>3. ASSUME NEW e \in Devices, Kill(e) \/ RunTrap(e) PROVE Watched(d)'
  BY <1>3 DEF Kill, RunTrap, End, Watched, TypeOK
<1>4. ASSUME NEW e \in Devices, Launch(e) PROVE Watched(d)'
  BY <1>1, <1>4 DEF Launch, sdkVars, netVars
<1>5. ASSUME NEW e \in Devices, MainStep(e) PROVE Watched(d)'
  BY <1>1, <1>3, <1>5 DEF MainStep, RunFetch, RunEvent, RunRemove, RunRemoveAll, sdkVars, netVars
<1>6. ASSUME NEW e \in Devices, SharedStep(e) PROVE Watched(d)'
  <2>1. CASE addEventRegistration(e)
    <3>1. observers[d] \in Nat /\ observers'[d] \in {observers[d], observers[d] + 1}
      BY <2>1 DEF addEventRegistration, TypeOK
    <3>2. UNCHANGED <<link, cache>>
      BY <2>1 DEF addEventRegistration, netVars
    <3>3. observers[d] > 0 => observers'[d] > 0
      BY <3>1
    <3> QED
      BY <3>2, <3>3 DEF Watched
  <2>2. CASE ApplyUserOverwrite(e)
    <3>1. UNCHANGED <<link, observers>> /\ cache'[d] = cache[d]
      BY <2>2 DEF ApplyUserOverwrite, Notify, netVars, TypeOK
    <3> QED
      BY <3>1 DEF Watched
  <2> QED
    BY <1>6, <2>1, <2>2 DEF SharedStep
<1>7. ASSUME NEW e \in Devices, Receive(e) PROVE Watched(d)'
  <2>1. UNCHANGED <<link, observers>> /\ down[e] # <<>> /\ (e # d => cache'[d] = cache[d])
    BY <1>7 DEF Receive, OnDataUpdate, AckWrite, Notify, TypeOK
  <2>2. link[e] = "listening"
    BY <2>1 DEF EchoInv, Echo, Echoed
  <2> QED
    BY <2>1, <2>2 DEF Watched
<1>8. ASSUME NEW e \in Devices, NetStep(e) \/ Drop(e) PROVE Watched(d)'
  BY <1>8 DEF NetStep, Connect, Listen, ServerApply, Drop, sdkVars, Watched, TypeOK
<1>9. CASE UNCHANGED vars
  BY <1>1, <1>9 DEF vars, sdkVars, netVars
<1>10. CASE Next
  BY <1>2, <1>3, <1>4, <1>5, <1>6, <1>7, <1>8, <1>10 DEF Next
<1> QED
  BY <1>9, <1>10

\* At the start the database holds all it ever held.
LEMMA InitLoss == Init => LossInv
<1> SUFFICES ASSUME Init, NEW d \in Devices PROVE Careful(d) /\ Watched(d)
  BY DEF LossInv
<1>1. /\ cache[d] = Unknown /\ pending[d] = <<>> /\ mainQ[d] = <<>> /\ sharedQ[d] = <<>>
      /\ link[d] = "lost" /\ kept = Held(server)
  BY DEF Init, Held
<1>2. RemovesFirst(<<>>) /\ Agreed(asked, <<>>) /\ WritesSecure(asked, <<>>, Shown(d), <<>>)
  BY DEF RemovesFirst, Agreed, WritesSecure
<1> QED
  BY <1>1, <1>2 DEF Careful, Watched

\* A step of the one device or of the server loses nothing.
LEMMA NextLoss ==
    ASSUME OneDevice, Patient, MaxKills = 0, OneInv, LossInv, [Next]_vars
    PROVE  LossInv'
<1>1. TypeInv /\ EventPipeline /\ EchoInv /\ PatientInv
  BY DEF OneInv, Inv
<1>2. ASSUME NEW d \in Devices
      PROVE  Echo(d) /\ Pipeline(d) /\ Patience(d) /\ Careful(d) /\ Watched(d)
  BY <1>1 DEF EchoInv, EventPipeline, PatientInv, LossInv
<1>3. \A d \in Devices : Watched(d)'
  BY <1>1, <1>2, NextWatched
<1>4. SUFFICES \A d \in Devices : Careful(d)'
  BY <1>3, <1>4 DEF LossInv
<1>5. ASSUME NEW d \in Devices, Careful(d)' PROVE \A e \in Devices : Careful(e)'
  BY <1>5 DEF OneDevice
<1>6. ASSUME NEW d \in Devices, UserStep(d) PROVE Careful(d)'
  BY <1>1, <1>2, <1>6, UserCareful
<1>7. ASSUME NEW d \in Devices, MainStep(d) PROVE Careful(d)'
  <2>1. ~RunTrap(d)
    BY <1>1, <1>2, <1>7, MainPatience
  <2> QED
    BY <1>1, <1>2, <1>7, <2>1, MainCareful, RemovalCareful DEF MainStep
<1>8. ASSUME NEW d \in Devices, SharedStep(d) PROVE Careful(d)'
  BY <1>1, <1>2, <1>8, ObserveCareful, WriteCareful DEF SharedStep
<1>9. ASSUME NEW d \in Devices, Receive(d) PROVE Careful(d)'
  BY <1>1, <1>2, <1>9, ReceiveCareful
<1>10. ASSUME NEW d \in Devices, ServerApply(d) PROVE Careful(d)'
  BY <1>1, <1>2, <1>10, ServerCareful
<1>11. ASSUME NEW d \in Devices, Connect(d) \/ Listen(d) \/ Drop(d) PROVE Careful(d)'
  <2>1. UNCHANGED <<server, mainQ, sharedQ, cache, pending, kept, asked>>
    BY <1>11 DEF Connect, Listen, Drop, sdkVars, histVars
  <2> QED
    BY <1>2, <2>1, CarefulFrame
<1>12. ASSUME NEW d \in Devices, Launch(d) PROVE Careful(d)'
  BY <1>1, <1>2, <1>12, LaunchCareful
<1>13. ASSUME NEW d \in Devices, Kill(d) PROVE FALSE
  BY <1>1, <1>13 DEF Kill, TypeInv, TypeOK, Bounds
<1>14. CASE UNCHANGED vars
  <2>1. UNCHANGED <<server, mainQ, sharedQ, cache, pending, kept, asked>>
    BY <1>14 DEF vars, sdkVars, histVars
  <2> QED
    BY <1>2, <2>1, CarefulFrame
<1>15. CASE Next
  <2>1. PICK d \in Devices : \/ Launch(d) \/ Kill(d) \/ UserStep(d) \/ MainStep(d) \/ SharedStep(d)
                             \/ Receive(d) \/ NetStep(d) \/ Drop(d)
    BY <1>15 DEF Next
  <2>2. Careful(d)'
    BY <1>6, <1>7, <1>8, <1>9, <1>10, <1>11, <1>12, <1>13, <2>1 DEF NetStep
  <2> QED
    BY <1>5, <2>2
<1> QED
  BY <1>14, <1>15

\* With one device whose user waits for the app and whose process is never
\* killed, a stored dream is still stored whenever the device has settled,
\* unless the user agreed to delete or replace the dreams of its date: the
\* removeValue and the setValues of Model.updateAction put back every dream
\* of another date, for any number of edits and of lost connections.
THEOREM OnlyAskedIsLost ==
    OneDevice /\ Patient /\ MaxKills = 0 => (Spec => []NothingLostUnasked)
<1> SUFFICES ASSUME OneDevice, Patient, MaxKills = 0 PROVE Spec => []NothingLostUnasked
  OBVIOUS
<1>1. Init => OneInv /\ LossInv
  BY InitOne, InitLoss
<1>2. OneInv /\ LossInv /\ [Next]_vars => OneInv' /\ LossInv'
  BY NextOne, NextLoss
<1>3. OneInv /\ LossInv => NothingLostUnasked
  <2> SUFFICES ASSUME OneInv, LossInv, NEW d \in Devices, Settled(d), NEW x \in kept
               PROVE  x.writedDate \in asked \/ \E k \in Keys : server[k] = x
    BY DEF NothingLostUnasked
  <2>1. /\ sharedQ[d] = <<>> /\ link[d] = "listening" /\ pending[d] = <<>> /\ down[d] = <<>>
        /\ Heard(d) /\ Careful(d) /\ server \in Node
    BY DEF Settled, Idle, OneInv, Inv, ServerHeard, LossInv, TypeInv, TypeOK
  <2>2. cache[d] = server
    BY <2>1 DEF Heard
  <2>3. Shown(d) = server
    BY <2>1, <2>2, VisibleNothing DEF Shown
  <2>4. Secure(asked, <<>>, server, x)
    BY <2>1, <2>2, <2>3, UnknownAssumption DEF Careful
  <2>5. x.writedDate \in asked \/ x \in Held(server)
    BY <2>4 DEF Secure
  <2> QED
    BY <2>5 DEF Held, Present
<1> QED
  BY <1>1, <1>2, <1>3, PTL DEF Spec
=============================================================================
