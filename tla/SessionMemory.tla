--------------------------- MODULE SessionMemory ---------------------------
(***************************************************************************)
(* What the router needs from a session store (router/session.go, the      *)
(* SessionStore interface): a memory of the last tier set for a session    *)
(* that may forget at any time, but never invents a tier, never moves one  *)
(* between sessions, and answers a lookup with exactly what it holds.      *)
(* SessionStore.tla implements it; RouterProxy.tla is written against it.  *)
(***************************************************************************)
CONSTANTS
    Ids,        \* non-empty session ids
    NoId,       \* the "" id: no session
    Tiers,      \* tier names
    NoTier      \* the miss answer

VARIABLES
    mem,        \* mem[i]: the tier remembered for session i, or NoTier
    reply       \* the answer of the last Current call

vars == <<mem, reply>>

Reply == [id : Ids \cup {NoId}, tier : Tiers \cup {NoTier}]

Init ==
    /\ mem = [i \in Ids |-> NoTier]
    /\ reply = [id |-> NoId, tier |-> NoTier]

\* What the store remembers for an id; the empty id is never remembered.
Remembered(i) == IF i \in Ids THEN mem[i] ELSE NoTier

\* SessionStore.Current: answer what is remembered and change nothing else.
Current(i) ==
    /\ reply' = [id |-> i, tier |-> Remembered(i)]
    /\ UNCHANGED mem

\* SessionStore.Set: remember the tier; any other session may be forgotten to
\* make room for it.
Set(i, t) ==
    /\ \E lost \in SUBSET (Ids \ {i}) :
          mem' = [j \in Ids |-> IF j = i THEN t
                                ELSE IF j \in lost THEN NoTier ELSE mem[j]]
    /\ UNCHANGED reply

\* Sessions are forgotten when they have been idle too long.
Forget ==
    /\ \E lost \in SUBSET Ids :
          mem' = [j \in Ids |-> IF j \in lost THEN NoTier ELSE mem[j]]
    /\ UNCHANGED reply

Next ==
    \/ \E i \in Ids \cup {NoId} : Current(i)
    \/ \E i \in Ids, t \in Tiers : Set(i, t)
    \/ Forget

Spec == Init /\ [][Next]_vars
=============================================================================
