------------------------------- MODULE Dreams -------------------------------
(***************************************************************************)
(* The diary data of ForDream: a dream, the node users/<uid>/dream of the  *)
(* Firebase Realtime Database that stores an account's dreams under the    *)
(* keys "0", "1", ..., the conversion of that node into the Swift array    *)
(* the app works on, and the orders of Model.swift.                        *)
(***************************************************************************)
EXTENDS Integers, Sequences, FiniteSets, Functions

CONSTANTS
    Dates,    \* writedDate strings; "yyyy-MM-dd" sorts as the day number does
    Bodies,   \* what else a dream carries: detailTxt and starStorageIsChecked
    MaxKey,   \* bound: the largest child key the model stores
    None,     \* no child under a key (NSNull)
    Unknown   \* the SDK has no complete snapshot of the node yet

ASSUME DatesAssumption == Dates \subseteq Int
ASSUME MaxKeyAssumption == MaxKey \in Nat

\* struct Dream.
Dream == [writedDate : Dates, body : Bodies]

ASSUME NoneAssumption == None \notin Dream

Keys == 0 .. MaxKey

\* A value of users/<uid>/dream: the dream stored under each key, or None.
Node == [Keys -> Dream \cup {None}]

ASSUME UnknownAssumption == Unknown \notin Node

Empty == [k \in Keys |-> None]

\* The keys of a node that hold a dream.
Present(n) == {k \in Keys : n[k] # None}

-----------------------------------------------------------------------------
(***************************************************************************)
(* FChildrenNode valForExport: integer keys are exported as an array when  *)
(* the largest is below twice their number (missing entries are NSNull),   *)
(* and as a dictionary otherwise.  The cast `as! [[String:Any]]` in        *)
(* fetchContainers accepts only an array without NSNull and traps on       *)
(* anything else.                                                          *)
(***************************************************************************)
ExportsArray(n) ==
    \A k \in Present(n) : k < 2 * Cardinality(Present(n))

HasHole(n) ==
    \E k \in Present(n) : \E j \in 0 .. k : n[j] = None

CastSucceeds(n) == ExportsArray(n) /\ ~HasHole(n)

\* Mutant: the first element is skipped.
AsArraySkipping(n) == [i \in 1 .. Cardinality(Present(n)) |-> n[i]]

\* The array the cast yields: the element of index i - 1 at position i.
AsArray(n) == [i \in 1 .. Cardinality(Present(n)) |-> n[i - 1]]

-----------------------------------------------------------------------------
\* The arrays with the elements of s in another order.
Reorderings(s) ==
    {[i \in DOMAIN s |-> s[p[i]]] : p \in Bijection(DOMAIN s, DOMAIN s)}

IsAscending(s) ==
    \A i, j \in DOMAIN s : i < j => s[i].writedDate <= s[j].writedDate

\* ascendingOrder: sorted(by:) is not stable, so dreams of one date come out
\* in any order.
ascendingOrder(s) == {t \in Reorderings(s) : IsAscending(t)}

\* The arrays fetchContainers may leave in the container for node n.
Containers(n) == ascendingOrder(AsArray(n))

\* The elements of s at the positions in I, in their old order.  The set has
\* one member, the array for the increasing enumeration f of I.
Subarrays(s, I) ==
    {[i \in 1 .. Cardinality(I) |-> s[f[i]]] :
        f \in {g \in [1 .. Cardinality(I) -> I] :
                 \A i, j \in 1 .. Cardinality(I) : i < j => g[i] < g[j]}}

\* removeAll(where: {$0.writedDate == date}).
WithoutDate(s, date) ==
    Subarrays(s, {i \in DOMAIN s : s[i].writedDate # date})
=============================================================================
