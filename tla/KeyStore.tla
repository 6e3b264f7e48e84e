------------------------------ MODULE KeyStore ------------------------------
(***************************************************************************)
(* What the storage engine promises its callers (leveldb/db.h, options.h), *)
(* without files: writes take effect one after the other; a write that was *)
(* acknowledged outlives the process, and a synced one the machine, unless *)
(* an earlier write had failed and torn the log that both went to; and     *)
(* after a crash the store is as if some of the writes that were not       *)
(* acknowledged had happened and nothing else.                             *)
(***************************************************************************)
EXTENDS Naturals

CONSTANT Writes     \* the writes that callers may ask for

VARIABLES
    hist,     \* the writes in effect: pairs of a sequence number and a write
    safe,     \* pairs that the end of the process leaves alone
    durable,  \* pairs that a loss of power leaves alone
    torn,     \* whether a write has failed that may cost the next ones
    sync,     \* the writes asked for with WriteOptions::sync
    answer,   \* what the caller of each write knows of it
    outages   \* how often the power went

storeVars == <<hist, safe, durable, torn, sync, answer, outages>>

Pair == (Nat \ {0}) \X Writes
Answer == {"none", "asked", "ok", "failed", "lost"}

\* The sequence numbers of G come after those of H and are distinct.
Follows(G, H) ==
    /\ \A g \in G, h \in H : g[1] > h[1]
    /\ \A g, f \in G : g[1] = f[1] \/ g[2] = f[2] => g = f

\* Of the writes in effect more become safe and durable, never fewer.
Kept ==
    /\ hist \cap safe \subseteq safe'
    /\ hist \cap durable \subseteq durable'

Init ==
    /\ hist = {} /\ safe = {} /\ durable = {} /\ sync = {}
    /\ torn = FALSE
    /\ answer = [w \in Writes |-> "none"]
    /\ outages = 0

Ask(w) ==
    /\ answer[w] = "none"
    /\ answer' = [answer EXCEPT ![w] = "asked"]
    /\ sync' \in {sync, sync \cup {w}}
    /\ UNCHANGED <<hist, safe, durable, torn, outages>>

\* A group of writes takes effect and is acknowledged.
Commit(S) ==
    /\ \A w \in S : answer[w] = "asked"
    /\ \E G \in SUBSET (hist' \ hist) :
          /\ hist' = hist \cup G
          /\ {g[2] : g \in G} = S
          /\ Follows(G, hist)
          /\ torn \/ G \subseteq safe'
          /\ torn \/ \A g \in G : g[2] \in sync => g \in durable'
    /\ answer' = [w \in Writes |-> IF w \in S THEN "ok" ELSE answer[w]]
    /\ Kept
    /\ UNCHANGED <<torn, sync, outages>>

\* A group of writes fails.  Only this can put later writes at risk.
Reject(S) ==
    /\ S # {} /\ \A w \in S : answer[w] = "asked"
    /\ answer' = [w \in Writes |-> IF w \in S THEN "failed" ELSE answer[w]]
    /\ torn' \in {torn, TRUE}
    /\ UNCHANGED <<hist, safe, durable, sync, outages>>

\* Writing files changes nothing a reader can see, and a new log ends the risk.
Persist ==
    /\ Kept
    /\ torn' \in {torn, FALSE}
    /\ UNCHANGED <<hist, sync, answer, outages>>

\* What may be found after a crash that spares the pairs of K: those, perhaps
\* others that were in effect, and writes without an acknowledgement.  Whatever
\* is found is safe.
Crash(K) ==
    /\ hist \cap K \subseteq hist'
    /\ \A h \in hist' \ hist : answer[h[2]] \in {"asked", "failed", "lost"}
    /\ \A g, h \in hist' : g[1] = h[1] \/ g[2] = h[2] => g = h
    /\ answer' = [w \in Writes |-> IF answer[w] = "asked" THEN "lost" ELSE answer[w]]
    /\ hist' \subseteq safe' /\ hist \cap durable \subseteq durable'
    /\ torn' = FALSE
    /\ UNCHANGED sync

Kill == Crash(safe) /\ UNCHANGED outages
PowerLoss == Crash(durable) /\ outages' = outages + 1

Next ==
    \/ \E w \in Writes : Ask(w)
    \/ \E S \in SUBSET Writes : Commit(S) \/ Reject(S)
    \/ Persist
    \/ Kill
    \/ PowerLoss

Spec == Init /\ [][Next]_storeVars

=============================================================================
