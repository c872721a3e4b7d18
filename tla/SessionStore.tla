---------------------------- MODULE SessionStore ----------------------------
(***************************************************************************)
(* MemSessionStore of router/session.go: the tier each Claude Code session *)
(* was last routed to, with an idle TTL and a hard cap on the number of    *)
(* entries.  Every method runs under the store's mutex, so each is one     *)
(* atomic action; Tick is the wall clock.                                  *)
(***************************************************************************)
EXTENDS Integers, FiniteSets

CONSTANTS
    Ids,            \* non-empty session ids
    NoId,           \* the "" id: a request without a session header
    Tiers,          \* tier names
    NoTier,         \* the miss answer ("", false)
    TTL,            \* defaultSessionTTL, in clock units
    MaxEntries,     \* defaultSessionMax
    MaxTime         \* bound on the clock (model bound)

ASSUME SessionConstants ==
    /\ NoId \notin Ids
    /\ NoTier \notin Tiers
    /\ TTL \in Nat
    /\ MaxEntries \in Nat \ {0}
    /\ MaxTime \in Nat

VARIABLES
    m,          \* the map: a function from some of the ids to entries
    clock,      \* s.now()
    reply,      \* the answer of the last Current call
    latest,     \* history: the tier last Set for each id
    used        \* history: when each id was last Set or found (-1: never)

vars == <<m, clock, reply, latest, used>>

Entry == [tier : Tiers, seen : 0..MaxTime]
Reply == [id : Ids \cup {NoId}, tier : Tiers \cup {NoTier}]

\* One invariant for the types of all variables.
TypeOK ==
    /\ DOMAIN m \subseteq Ids
    /\ m \in [DOMAIN m -> Entry]
    /\ clock \in 0..MaxTime
    /\ reply \in Reply
    /\ latest \in [Ids -> Tiers \cup {NoTier}]
    /\ used \in [Ids -> -1..MaxTime]

Init ==
    /\ m = [i \in {} |-> NoTier]
    /\ clock = 0
    /\ reply = [id |-> NoId, tier |-> NoTier]
    /\ latest = [i \in Ids |-> NoTier]
    /\ used = [i \in Ids |-> -1]

\* now.Sub(e.seen) > s.ttl
Expired(i) == clock - m[i].seen > TTL

\* Mutant: a hit does not refresh the entry.
CurrentHit_NoTouch(i) ==
    /\ i \in DOMAIN m
    /\ ~Expired(i)
    /\ reply' = [id |-> i, tier |-> m[i].tier]
    /\ used' = [used EXCEPT ![i] = clock]
    /\ UNCHANGED <<m, clock, latest>>

\* Mutant: the TTL is not checked on a lookup.
CurrentHit_Stale(i) ==
    /\ i \in DOMAIN m
    /\ m' = [m EXCEPT ![i].seen = clock]
    /\ reply' = [id |-> i, tier |-> m[i].tier]
    /\ used' = [used EXCEPT ![i] = clock]
    /\ UNCHANGED <<clock, latest>>

\* Current finds the id and its entry is fresh: the entry is touched.
CurrentHit(i) ==
    /\ i \in DOMAIN m
    /\ ~Expired(i)
    /\ m' = [m EXCEPT ![i].seen = clock]
    /\ reply' = [id |-> i, tier |-> m[i].tier]
    /\ used' = [used EXCEPT ![i] = clock]
    /\ UNCHANGED <<clock, latest>>

\* Current finds the id but its entry idled out: the entry is deleted.
CurrentExpired(i) ==
    /\ i \in DOMAIN m
    /\ Expired(i)
    /\ m' = [j \in DOMAIN m \ {i} |-> m[j]]
    /\ reply' = [id |-> i, tier |-> NoTier]
    /\ UNCHANGED <<clock, latest, used>>

\* Current does not know the id, or the id is empty.
CurrentMiss(i) ==
    /\ i \notin DOMAIN m
    /\ reply' = [id |-> i, tier |-> NoTier]
    /\ UNCHANGED <<m, clock, latest, used>>

Current(i) == CurrentHit(i) \/ CurrentExpired(i) \/ CurrentMiss(i)

Fresh == {j \in DOMAIN m : ~Expired(j)}

\* evictLocked's candidates: the scan keeps the first entry it meets among
\* those seen earliest, and the map's iteration order is arbitrary.
Oldest == {j \in Fresh : \A k \in Fresh : m[j].seen <= m[k].seen}

\* Mutant: the capacity is compared with the size before the expired entries
\* went.
Survivors_StaleSize ==
    IF Fresh # {} THEN {Fresh \ {j} : j \in Oldest} ELSE {Fresh}

\* The ids evictLocked may leave: the fresh ones, less one of the oldest if
\* they still fill the store.
Survivors ==
    IF Cardinality(Fresh) >= MaxEntries
    THEN {Fresh \ {j} : j \in Oldest}
    ELSE {Fresh}

\* The ids a Set of i keeps: only an insert at capacity evicts.
Kept(i) ==
    IF i \notin DOMAIN m /\ Cardinality(DOMAIN m) >= MaxEntries
    THEN Survivors
    ELSE {DOMAIN m}

\* Set returns at once on the empty id (no action for it changes anything).
Set(i, t) ==
    /\ i # NoId
    /\ \E kept \in Kept(i) :
          m' = [j \in kept \cup {i} |->
                  IF j = i THEN [tier |-> t, seen |-> clock] ELSE m[j]]
    /\ latest' = [latest EXCEPT ![i] = t]
    /\ used' = [used EXCEPT ![i] = clock]
    /\ UNCHANGED <<clock, reply>>

Tick ==
    /\ clock < MaxTime
    /\ clock' = clock + 1
    /\ UNCHANGED <<m, reply, latest, used>>

Next ==
    \/ \E i \in Ids \cup {NoId} : Current(i)
    \/ \E i \in Ids \cup {NoId}, t \in Tiers : Set(i, t)
    \/ Tick

Spec == Init /\ [][Next]_vars

-----------------------------------------------------------------------------
\* The map never holds more than MaxEntries entries: "a max-entries LRU cap,
\* so the map cannot grow unbounded on a long-lived daemon".
SizeBounded == Cardinality(DOMAIN m) <= MaxEntries

\* An entry always carries the tier last Set for its own id and the time the
\* id was last used: no delete, touch or eviction mixes entries up or rolls a
\* session back to an earlier tier.
EntriesAreLatest ==
    \A i \in DOMAIN m : m[i].tier = latest[i] /\ m[i].seen = used[i]

\* The working set is never evicted: a session used within the TTL, with no
\* more than MaxEntries sessions used since (itself included), is still held.
\* "A session actively in use must never be evicted mid-conversation."
WorkingSet(i) == {j \in Ids : used[j] >= used[i]}

WorkingSetHeld ==
    \A i \in Ids :
        (/\ used[i] >= 0
         /\ clock - used[i] <= TTL
         /\ Cardinality(WorkingSet(i)) <= MaxEntries) => i \in DOMAIN m

\* A fresh entry leaves the map only for an insert into a store full of fresh
\* entries: expired entries always go first.
FreshLeavesLast ==
    [][\A i \in DOMAIN m \ DOMAIN m' :
          ~Expired(i) => Cardinality(Fresh) >= MaxEntries]_vars

\* The store implements the lossy memory the router is written against: it
\* shows a session's tier while its entry is held and fresh.
Visible == [i \in Ids |-> IF i \in Fresh THEN m[i].tier ELSE NoTier]

Memory == INSTANCE SessionMemory WITH mem <- Visible
ImplementsMemory == Memory!Spec
=============================================================================
