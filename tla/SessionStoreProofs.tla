------------------------- MODULE SessionStoreProofs -------------------------
(***************************************************************************)
(* Proofs about SessionStore for every set of ids and tiers, every TTL and *)
(* every capacity.  IInv is the inductive invariant: the type invariant,   *)
(* the checked invariants, and what the cardinality arguments need (the    *)
(* map and the set of ids ever used are finite, nothing was used in the    *)
(* future).                                                                *)
(***************************************************************************)
EXTENDS SessionStore, FiniteSetTheorems, TLAPS

Touched == {j \in Ids : used[j] >= 0}

FiniteOK ==
    /\ IsFiniteSet(DOMAIN m)
    /\ IsFiniteSet(Touched)

UsedOK == \A i \in Ids : used[i] <= clock

IInv ==
    /\ TypeOK
    /\ FiniteOK
    /\ UsedOK
    /\ SizeBounded
    /\ EntriesAreLatest
    /\ WorkingSetHeld

\* The initial state satisfies the invariant: the map is empty.
LEMMA InitIInv == Init => IInv
<1> SUFFICES ASSUME Init PROVE IInv
  OBVIOUS
<1>1. DOMAIN m = {} /\ Touched = {}
  BY DEF Init, Touched
<1>2. TypeOK
  BY <1>1, SessionConstants DEF Init, TypeOK, Entry, Reply
<1>3. FiniteOK /\ SizeBounded
  BY <1>1, FS_EmptySet, SessionConstants DEF FiniteOK, SizeBounded
<1>4. UsedOK /\ EntriesAreLatest /\ WorkingSetHeld
  BY <1>1 DEF Init, UsedOK, EntriesAreLatest, WorkingSetHeld
<1>5. QED
  BY <1>2, <1>3, <1>4 DEF IInv

\* The type invariant is inductive on its own.
LEMMA TypeStep == TypeOK /\ [Next]_vars => TypeOK'
<1> SUFFICES ASSUME TypeOK, [Next]_vars PROVE TypeOK'
  OBVIOUS
<1> USE SessionConstants DEF TypeOK, Entry, Reply
<1>1. ASSUME NEW i \in Ids \cup {NoId}, CurrentHit(i) PROVE TypeOK'
  BY <1>1 DEF CurrentHit
<1>2. ASSUME NEW i \in Ids \cup {NoId}, CurrentExpired(i) PROVE TypeOK'
  BY <1>2 DEF CurrentExpired
<1>3. ASSUME NEW i \in Ids \cup {NoId}, CurrentMiss(i) PROVE TypeOK'
  BY <1>3 DEF CurrentMiss
<1>4. ASSUME NEW i \in Ids \cup {NoId}, NEW t \in Tiers, Set(i, t)
      PROVE  TypeOK'
  <2>1. i \in Ids
    BY <1>4 DEF Set
  <2>2. PICK kept \in Kept(i) :
          m' = [j \in kept \cup {i} |->
                  IF j = i THEN [tier |-> t, seen |-> clock] ELSE m[j]]
    BY <1>4 DEF Set
  <2>3. kept \subseteq DOMAIN m
    BY <2>2 DEF Kept, Survivors, Fresh
  <2>4. DOMAIN m' = kept \cup {i} /\ m' \in [kept \cup {i} -> Entry]
    BY <2>2, <2>3
  <2>5. QED
    BY <1>4, <2>1, <2>3, <2>4 DEF Set
<1>5. CASE Tick
  BY <1>5 DEF Tick
<1>6. CASE UNCHANGED vars
  BY <1>6 DEF vars
<1>7. QED
  BY <1>1, <1>2, <1>3, <1>4, <1>5, <1>6 DEF Next, Current

\* TypeCorrect: every variable keeps its type, for every value of the
\* constants.
THEOREM TypeCorrect == Spec => []TypeOK
<1>1. Init => TypeOK
  BY InitIInv DEF IInv
<1>2. QED
  BY <1>1, TypeStep, PTL DEF Spec

\* What a Set keeps: entries that were there, at most MaxEntries - 1 of them
\* if the id is new, and the map stays finite.
LEMMA KeptBounded ==
    ASSUME IInv, NEW i \in Ids, NEW kept \in Kept(i)
    PROVE  /\ kept \subseteq DOMAIN m
           /\ IsFiniteSet(kept \cup {i})
           /\ Cardinality(kept \cup {i}) <= MaxEntries
<1> USE SessionConstants
<1> USE DEF IInv
<1>1. IsFiniteSet(DOMAIN m) /\ Cardinality(DOMAIN m) \in Nat
  BY FS_CardinalityType DEF FiniteOK
<1>2. Fresh \subseteq DOMAIN m
  BY DEF Fresh
<1>3. /\ IsFiniteSet(Fresh) /\ Cardinality(Fresh) \in Nat
      /\ Cardinality(Fresh) <= Cardinality(DOMAIN m)
  BY <1>1, <1>2, FS_Subset, FS_CardinalityType
<1>4. CASE i \in DOMAIN m
  <2>1. kept = DOMAIN m /\ kept \cup {i} = DOMAIN m
    BY <1>4 DEF Kept
  <2>2. QED
    BY <2>1, <1>1 DEF SizeBounded
<1>5. CASE i \notin DOMAIN m /\ Cardinality(DOMAIN m) < MaxEntries
  <2>1. kept = DOMAIN m
    BY <1>1, <1>5 DEF Kept
  <2>2. /\ IsFiniteSet(kept \cup {i})
        /\ Cardinality(kept \cup {i}) = Cardinality(kept) + 1
    BY <2>1, <1>1, <1>5, FS_AddElement
  <2>3. QED
    BY <2>1, <2>2, <1>1, <1>5
<1>6. CASE i \notin DOMAIN m /\ Cardinality(DOMAIN m) >= MaxEntries
  <2>1. kept \in Survivors
    BY <1>6 DEF Kept
  <2>2. CASE Cardinality(Fresh) >= MaxEntries
    <3>1. PICK v \in Oldest : kept = Fresh \ {v}
      BY <2>1, <2>2 DEF Survivors
    <3>2. v \in Fresh
      BY DEF Oldest
    <3>3. /\ IsFiniteSet(kept)
          /\ Cardinality(kept) = Cardinality(Fresh) - 1
      BY <3>1, <3>2, <1>3, FS_RemoveElement
    <3>4. i \notin kept
      BY <3>1, <1>2, <1>6
    <3>5. Cardinality(Fresh) <= MaxEntries
      BY <1>1, <1>3 DEF SizeBounded
    <3>6. /\ IsFiniteSet(kept \cup {i})
          /\ Cardinality(kept \cup {i}) = Cardinality(kept) + 1
      BY <3>3, <3>4, FS_AddElement
    <3>7. QED
      BY <3>1, <3>3, <3>5, <3>6, <1>2, <1>3
  <2>3. CASE Cardinality(Fresh) < MaxEntries
    <3>1. kept = Fresh
      BY <2>1, <2>3, <1>3 DEF Survivors
    <3>2. i \notin kept
      BY <3>1, <1>2, <1>6
    <3>3. /\ IsFiniteSet(kept \cup {i})
          /\ Cardinality(kept \cup {i}) = Cardinality(kept) + 1
      BY <3>1, <3>2, <1>3, FS_AddElement
    <3>4. QED
      BY <3>1, <3>3, <1>2, <1>3, <2>3
  <2>4. QED
    BY <2>2, <2>3, <1>3
<1>7. QED
  BY <1>4, <1>5, <1>6, <1>1

\* A fresh-for-the-working-set id survives the eviction a Set of i makes: if
\* the eviction took it, the fresh entries and i would all belong to its
\* working set, one more than the store holds.
LEMMA WorkingSetSurvives ==
    ASSUME IInv, NEW i \in Ids, NEW kept \in Kept(i),
           NEW k \in Ids, k \in DOMAIN m, k # i,
           clock - used[k] <= TTL,
           NEW ws, IsFiniteSet(ws), WorkingSet(k) \cup {i} \subseteq ws,
           Cardinality(ws) <= MaxEntries
    PROVE  k \in kept
<1> USE SessionConstants
<1> USE DEF IInv
<1>1. /\ IsFiniteSet(DOMAIN m) /\ Cardinality(DOMAIN m) \in Nat
      /\ DOMAIN m \subseteq Ids /\ Fresh \subseteq DOMAIN m
  BY FS_CardinalityType DEF FiniteOK, TypeOK, Fresh
<1>2. \A j \in DOMAIN m : m[j].seen = used[j] /\ used[j] \in Int
  BY <1>1 DEF EntriesAreLatest, TypeOK
<1>3. k \in Fresh
  BY <1>2 DEF Fresh, Expired, TypeOK
<1>4. IsFiniteSet(Fresh) /\ Cardinality(Fresh) \in Nat
  BY <1>1, FS_Subset, FS_CardinalityType
<1>5. CASE i \in DOMAIN m \/ Cardinality(DOMAIN m) < MaxEntries
  BY <1>5, <1>1 DEF Kept
<1>6. CASE i \notin DOMAIN m /\ Cardinality(DOMAIN m) >= MaxEntries
  <2>1. kept \in Survivors
    BY <1>6 DEF Kept
  <2>2. CASE Cardinality(Fresh) < MaxEntries
    BY <2>1, <2>2, <1>3, <1>4 DEF Survivors
  <2>3. CASE Cardinality(Fresh) >= MaxEntries
    <3>1. PICK v \in Oldest : kept = Fresh \ {v}
      BY <2>1, <2>3 DEF Survivors
    <3>2. ASSUME k = v PROVE FALSE
      <4>1. \A j \in Fresh : used[k] <= used[j]
        BY <3>2, <1>1, <1>2, <1>3 DEF Oldest
      <4>2. Fresh \cup {i} \subseteq ws
        BY <4>1, <1>1 DEF WorkingSet
      <4>3. i \notin Fresh
        BY <1>1, <1>6
      <4>4. /\ IsFiniteSet(Fresh \cup {i})
            /\ Cardinality(Fresh \cup {i}) = Cardinality(Fresh) + 1
        BY <4>3, <1>4, FS_AddElement
      <4>5. Cardinality(Fresh \cup {i}) <= Cardinality(ws)
        BY <4>2, FS_Subset
      <4>6. Cardinality(ws) \in Nat
        BY FS_CardinalityType
      <4>7. QED
        BY <4>4, <4>5, <4>6, <1>4, <2>3
    <3>3. QED
      BY <3>1, <3>2, <1>3
  <2>4. QED
    BY <2>2, <2>3, <1>4
<1>7. QED
  BY <1>5, <1>6, <1>1

\* A Set keeps the whole invariant.
LEMMA SetStep ==
    ASSUME IInv, TypeOK', NEW i \in Ids, NEW t \in Tiers, Set(i, t)
    PROVE  IInv'
<1> USE SessionConstants
<1> USE DEF IInv
<1>1. PICK kept \in Kept(i) :
          m' = [j \in kept \cup {i} |->
                  IF j = i THEN [tier |-> t, seen |-> clock] ELSE m[j]]
  BY DEF Set
<1>2. /\ latest' = [latest EXCEPT ![i] = t]
      /\ used' = [used EXCEPT ![i] = clock]
      /\ clock' = clock
  BY DEF Set
<1>3. /\ kept \subseteq DOMAIN m
      /\ IsFiniteSet(kept \cup {i})
      /\ Cardinality(kept \cup {i}) <= MaxEntries
  BY KeptBounded
<1>4. DOMAIN m' = kept \cup {i}
  BY <1>1
<1>5. SizeBounded'
  BY <1>3, <1>4 DEF SizeBounded
<1>6. FiniteOK'
  <2>1. Touched' = Touched \cup {i}
    BY <1>2 DEF Touched, TypeOK
  <2>2. QED
    BY <2>1, <1>3, <1>4, FS_AddElement DEF FiniteOK
<1>7. UsedOK'
  BY <1>2 DEF UsedOK, TypeOK
<1>8. EntriesAreLatest'
  BY <1>1, <1>2, <1>3 DEF EntriesAreLatest, TypeOK
<1>9. WorkingSetHeld'
  <2> SUFFICES ASSUME NEW k \in Ids, used'[k] >= 0,
                      clock' - used'[k] <= TTL,
                      Cardinality(WorkingSet(k)') <= MaxEntries
               PROVE  k \in DOMAIN m'
    BY DEF WorkingSetHeld
  <2>1. CASE k = i
    BY <2>1, <1>4
  <2>2. CASE k # i
    <3>1. used'[k] = used[k] /\ clock' = clock
      BY <2>2, <1>2 DEF TypeOK
    <3>2. \A j \in Ids : used[j] <= used'[j]
      BY <1>2 DEF UsedOK, TypeOK
    <3>3. WorkingSet(k) \cup {i} \subseteq WorkingSet(k)'
      BY <3>1, <3>2, <1>2 DEF WorkingSet, UsedOK, TypeOK
    <3>4. IsFiniteSet(WorkingSet(k)')
      <4>1. WorkingSet(k)' \subseteq Touched'
        BY DEF WorkingSet, Touched, TypeOK
      <4>2. QED
        BY <4>1, <1>6, FS_Subset DEF FiniteOK
    <3>5. Cardinality(WorkingSet(k)) <= MaxEntries
      <4>1. /\ Cardinality(WorkingSet(k)) <= Cardinality(WorkingSet(k)')
            /\ IsFiniteSet(WorkingSet(k))
        BY <3>3, <3>4, FS_Subset
      <4>2. /\ Cardinality(WorkingSet(k)) \in Nat
            /\ Cardinality(WorkingSet(k)') \in Nat
        BY <4>1, <3>4, FS_CardinalityType
      <4>3. QED
        BY <4>1, <4>2
    <3>6. k \in DOMAIN m
      BY <3>1, <3>5 DEF WorkingSetHeld
    <3>7. k \in kept
      BY <3>1, <3>3, <3>4, <3>6, <2>2, WorkingSetSurvives
    <3>8. QED
      BY <3>7, <1>4
  <2>3. QED
    BY <2>1, <2>2
<1>10. QED
  BY <1>5, <1>6, <1>7, <1>8, <1>9

\* A hit touches one entry: the map keeps its ids, and only the found id's
\* last use moves (forward).
LEMMA HitStep ==
    ASSUME IInv, TypeOK', NEW i \in Ids \cup {NoId}, CurrentHit(i)
    PROVE  IInv'
<1> USE SessionConstants
<1> USE DEF IInv
<1>1. i \in Ids /\ i \in DOMAIN m
  BY DEF CurrentHit, TypeOK
<1>2. /\ m' = [m EXCEPT ![i].seen = clock]
      /\ used' = [used EXCEPT ![i] = clock]
      /\ clock' = clock /\ latest' = latest
  BY DEF CurrentHit
<1>3. DOMAIN m' = DOMAIN m
  BY <1>2
<1>4. SizeBounded'
  BY <1>3 DEF SizeBounded
<1>5. FiniteOK'
  <2>1. Touched' = Touched \cup {i}
    BY <1>1, <1>2 DEF Touched, TypeOK
  <2>2. QED
    BY <2>1, <1>3, FS_AddElement DEF FiniteOK
<1>6. UsedOK'
  BY <1>2 DEF UsedOK, TypeOK
<1>7. EntriesAreLatest'
  BY <1>1, <1>2 DEF EntriesAreLatest, TypeOK, Entry
<1>8. WorkingSetHeld'
  <2> SUFFICES ASSUME NEW k \in Ids, used'[k] >= 0,
                      clock' - used'[k] <= TTL,
                      Cardinality(WorkingSet(k)') <= MaxEntries
               PROVE  k \in DOMAIN m'
    BY DEF WorkingSetHeld
  <2>1. CASE k = i
    BY <2>1, <1>1, <1>3
  <2>2. CASE k # i
    <3>1. used'[k] = used[k] /\ clock' = clock
      BY <2>2, <1>2 DEF TypeOK
    <3>2. WorkingSet(k) \subseteq WorkingSet(k)'
      BY <3>1, <1>2 DEF WorkingSet, UsedOK, TypeOK
    <3>3. IsFiniteSet(WorkingSet(k)')
      <4>1. WorkingSet(k)' \subseteq Touched'
        BY DEF WorkingSet, Touched, TypeOK
      <4>2. QED
        BY <4>1, <1>5, FS_Subset DEF FiniteOK
    <3>4. Cardinality(WorkingSet(k)) <= MaxEntries
      <4>1. /\ Cardinality(WorkingSet(k)) <= Cardinality(WorkingSet(k)')
            /\ IsFiniteSet(WorkingSet(k))
        BY <3>2, <3>3, FS_Subset
      <4>2. /\ Cardinality(WorkingSet(k)) \in Nat
            /\ Cardinality(WorkingSet(k)') \in Nat
        BY <4>1, <3>3, FS_CardinalityType
      <4>3. QED
        BY <4>1, <4>2
    <3>5. QED
      BY <3>1, <3>4, <1>3 DEF WorkingSetHeld
  <2>3. QED
    BY <2>1, <2>2
<1>9. QED
  BY <1>4, <1>5, <1>6, <1>7, <1>8

\* An expired entry's deletion takes no session that is still fresh.
LEMMA ExpiredStep ==
    ASSUME IInv, TypeOK', NEW i \in Ids \cup {NoId}, CurrentExpired(i)
    PROVE  IInv'
<1> USE SessionConstants
<1> USE DEF IInv
<1>1. /\ i \in DOMAIN m /\ clock - m[i].seen > TTL
      /\ m' = [j \in DOMAIN m \ {i} |-> m[j]]
      /\ UNCHANGED <<clock, latest, used>>
  BY DEF CurrentExpired, Expired
<1>2. DOMAIN m' = DOMAIN m \ {i}
  BY <1>1
<1>3. FiniteOK' /\ SizeBounded'
  <2>1. IsFiniteSet(DOMAIN m) /\ Cardinality(DOMAIN m) \in Nat
    BY FS_CardinalityType DEF FiniteOK
  <2>2. /\ IsFiniteSet(DOMAIN m')
        /\ Cardinality(DOMAIN m') = Cardinality(DOMAIN m) - 1
    BY <1>1, <1>2, <2>1, FS_RemoveElement
  <2>3. IsFiniteSet(Touched')
    BY <1>1 DEF Touched, FiniteOK
  <2>4. QED
    BY <2>1, <2>2, <2>3 DEF SizeBounded, FiniteOK
<1>4. UsedOK' /\ EntriesAreLatest'
  BY <1>1 DEF UsedOK, EntriesAreLatest
<1>5. WorkingSetHeld'
  <2> SUFFICES ASSUME NEW k \in Ids, used'[k] >= 0,
                      clock' - used'[k] <= TTL,
                      Cardinality(WorkingSet(k)') <= MaxEntries
               PROVE  k \in DOMAIN m'
    BY DEF WorkingSetHeld
  <2>1. WorkingSet(k)' = WorkingSet(k)
    BY <1>1 DEF WorkingSet
  <2>2. k \in DOMAIN m
    BY <2>1, <1>1 DEF WorkingSetHeld
  <2>3. k # i
    <3>1. clock - used[i] > TTL
      BY <1>1 DEF EntriesAreLatest
    <3>2. clock - used[k] <= TTL
      BY <1>1
    <3>3. QED
      BY <3>1, <3>2, <1>1 DEF TypeOK
  <2>4. QED
    BY <2>2, <2>3, <1>2
<1>6. QED
  BY <1>3, <1>4, <1>5

\* IInv is inductive.
LEMMA StepIInv == IInv /\ [Next]_vars => IInv'
<1> SUFFICES ASSUME IInv, [Next]_vars PROVE IInv'
  OBVIOUS
<1>1. TypeOK'
  BY TypeStep DEF IInv
<1>2. ASSUME NEW i \in Ids \cup {NoId}, CurrentHit(i) PROVE IInv'
  BY <1>1, <1>2, HitStep
<1>3. ASSUME NEW i \in Ids \cup {NoId}, CurrentExpired(i) PROVE IInv'
  BY <1>1, <1>3, ExpiredStep
<1>4. ASSUME UNCHANGED <<m, clock, latest, used>> PROVE IInv'
  BY <1>1, <1>4 DEF IInv, FiniteOK, Touched, UsedOK, SizeBounded,
     EntriesAreLatest, WorkingSetHeld, WorkingSet
<1>5. ASSUME NEW i \in Ids \cup {NoId}, NEW t \in Tiers, Set(i, t)
      PROVE  IInv'
  <2>1. i \in Ids
    BY <1>5 DEF Set
  <2>2. QED
    BY <1>1, <1>5, <2>1, SetStep
<1>6. CASE Tick
  <2>1. clock' = clock + 1 /\ UNCHANGED <<m, latest, used>>
    BY <1>6 DEF Tick
  <2>2. FiniteOK' /\ SizeBounded' /\ EntriesAreLatest'
    BY <2>1 DEF IInv, FiniteOK, Touched, SizeBounded, EntriesAreLatest
  <2>3. UsedOK'
    BY <2>1 DEF IInv, UsedOK, TypeOK
  <2>4. WorkingSetHeld'
    BY <2>1, SessionConstants
    DEF IInv, WorkingSetHeld, WorkingSet, TypeOK
  <2>5. QED
    BY <1>1, <2>2, <2>3, <2>4 DEF IInv
<1>7. QED
  BY <1>2, <1>3, <1>4, <1>5, <1>6 DEF Next, Current, CurrentMiss, vars

\* The invariant holds throughout.
LEMMA Invariance == Spec => []IInv
BY InitIInv, StepIInv, PTL DEF Spec

\* SizeBoundHolds: the store never holds more than MaxEntries sessions.
THEOREM SizeBoundHolds == Spec => []SizeBounded
<1>1. IInv => SizeBounded
  BY DEF IInv
<1>2. QED
  BY <1>1, Invariance, PTL

\* NoRollback: a held entry carries the tier last set for its session.
THEOREM NoRollback == Spec => []EntriesAreLatest
<1>1. IInv => EntriesAreLatest
  BY DEF IInv
<1>2. QED
  BY <1>1, Invariance, PTL

\* ActiveSessionsHeld: a session in active use is never evicted, whatever the
\* other sessions do.
THEOREM ActiveSessionsHeld == Spec => []WorkingSetHeld
<1>1. IInv => WorkingSetHeld
  BY DEF IInv
<1>2. QED
  BY <1>1, Invariance, PTL

\* FreshKeptIn: without a store full of fresh entries a Set keeps all of them.
LEMMA FreshKeptIn ==
    ASSUME TypeOK, FiniteOK, NEW i, NEW kept \in Kept(i),
           ~(Cardinality(Fresh) >= MaxEntries)
    PROVE  Fresh \subseteq kept
BY DEF Kept, Survivors, Fresh

\* EvictionOrder: a fresh entry leaves the map only for an insert into a store
\* full of fresh entries, whatever the cap, the TTL and the ties: expired
\* entries are swept before the least recently seen one goes (evictLocked).
THEOREM EvictionOrder == Spec => FreshLeavesLast
<1> DEFINE Fair == \A i \in DOMAIN m \ DOMAIN m' :
                      ~Expired(i) => Cardinality(Fresh) >= MaxEntries
<1>1. ASSUME IInv, Next PROVE Fair
  <2>1. ASSUME NEW i \in Ids \cup {NoId}, Current(i) PROVE Fair
    <3>1. CASE CurrentHit(i)
      BY <3>1 DEF CurrentHit, IInv, TypeOK
    <3>2. CASE CurrentExpired(i)
      BY <3>2 DEF CurrentExpired
    <3>3. CASE CurrentMiss(i)
      BY <3>3 DEF CurrentMiss
    <3>4. QED
      BY <2>1, <3>1, <3>2, <3>3 DEF Current
  <2>2. ASSUME NEW i \in Ids \cup {NoId}, NEW t \in Tiers, Set(i, t) PROVE Fair
    <3>1. PICK kept \in Kept(i) : DOMAIN m' = kept \cup {i}
      BY <2>2 DEF Set
    <3>2. ASSUME NEW j \in DOMAIN m \ DOMAIN m', ~Expired(j),
                 ~(Cardinality(Fresh) >= MaxEntries)
          PROVE  FALSE
      <4>1. Fresh \subseteq kept
        BY <1>1, <3>2, FreshKeptIn DEF IInv
      <4>2. j \in Fresh
        BY <3>2 DEF Fresh
      <4>3. QED
        BY <3>1, <3>2, <4>1, <4>2
    <3>3. QED
      BY <3>2
  <2>3. CASE Tick
    BY <2>3 DEF Tick
  <2>4. QED
    BY <1>1, <2>1, <2>2, <2>3 DEF Next
<1>2. IInv /\ [Next]_vars => [Fair]_vars
  BY <1>1
<1>3. QED
  BY <1>2, Invariance, PTL DEF Spec, FreshLeavesLast

\* InitMemory: at the start nothing is remembered.
LEMMA InitMemory == Init => Memory!Init
BY DEF Init, Memory!Init, Visible, Fresh

\* SetMemory: a Set remembers its tier, and what else is shown was shown before.
LEMMA SetMemory ==
    ASSUME IInv, NEW i \in Ids, NEW t \in Tiers, Set(i, t)
    PROVE  Memory!Set(i, t)
<1> USE SessionConstants
<1>1. PICK kept \in Kept(i) :
          m' = [j \in kept \cup {i} |->
                  IF j = i THEN [tier |-> t, seen |-> clock] ELSE m[j]]
  BY DEF Set
<1>2. kept \subseteq DOMAIN m
  BY KeptBounded
<1>3. clock' = clock /\ reply' = reply /\ clock \in Nat
  BY DEF Set, IInv, TypeOK
<1>4. i \in Fresh' /\ m'[i].tier = t
  BY <1>1, <1>3 DEF Fresh, Expired
<1>5. ASSUME NEW j \in Ids, j # i, j \in Fresh'
      PROVE  j \in Fresh /\ m'[j].tier = m[j].tier
  BY <1>1, <1>2, <1>3, <1>5 DEF Fresh, Expired
<1> DEFINE lost == {j \in Ids \ {i} : j \notin Fresh'}
<1>6. Visible' = [j \in Ids |-> IF j = i THEN t
                                ELSE IF j \in lost THEN NoTier ELSE Visible[j]]
  BY <1>4, <1>5 DEF Visible
<1>7. lost \in SUBSET (Ids \ {i})
  OBVIOUS
<1>8. QED
  BY <1>3, <1>6, <1>7 DEF Memory!Set

\* CurrentMemory: a lookup answers what is shown, and shows the same after.
LEMMA CurrentMemory ==
    ASSUME IInv, NEW i \in Ids \cup {NoId}, Current(i)
    PROVE  Memory!Current(i)
<1> USE SessionConstants
<1>1. clock \in Nat /\ DOMAIN m \subseteq Ids
  BY DEF IInv, TypeOK
<1>2. CASE CurrentHit(i)
  <2>1. /\ i \in DOMAIN m /\ i \in Fresh /\ clock' = clock
        /\ m' = [m EXCEPT ![i].seen = clock]
        /\ reply' = [id |-> i, tier |-> m[i].tier]
    BY <1>2 DEF CurrentHit, Fresh
  <2>2. \A j \in DOMAIN m : j # i => m'[j] = m[j]
    BY <2>1
  <2>3. m'[i].tier = m[i].tier /\ m'[i].seen = clock /\ DOMAIN m' = DOMAIN m
    BY <2>1 DEF IInv, TypeOK, Entry
  <2>4. Fresh' = Fresh
    BY <1>1, <2>1, <2>2, <2>3 DEF Fresh, Expired
  <2>5. Visible' = Visible
    BY <2>1, <2>2, <2>3, <2>4 DEF Visible, Fresh
  <2>6. QED
    BY <1>1, <2>1, <2>5 DEF Memory!Current, Memory!Remembered, Visible
<1>3. CASE CurrentExpired(i)
  <2>1. /\ i \in DOMAIN m /\ i \notin Fresh /\ clock' = clock
        /\ m' = [j \in DOMAIN m \ {i} |-> m[j]]
        /\ reply' = [id |-> i, tier |-> NoTier]
    BY <1>3 DEF CurrentExpired, Fresh
  <2>2. Fresh' = Fresh
    BY <2>1 DEF Fresh, Expired
  <2>3. Visible' = Visible
    BY <2>1, <2>2 DEF Visible, Fresh
  <2>4. QED
    BY <1>1, <2>1, <2>3 DEF Memory!Current, Memory!Remembered, Visible
<1>4. CASE CurrentMiss(i)
  <2>1. i \notin Fresh /\ reply' = [id |-> i, tier |-> NoTier] /\ UNCHANGED <<m, clock>>
    BY <1>4 DEF CurrentMiss, Fresh
  <2>2. Visible' = Visible
    BY <2>1 DEF Visible, Fresh, Expired
  <2>3. QED
    BY <2>1, <2>2 DEF Memory!Current, Memory!Remembered, Visible
<1>5. QED
  BY <1>2, <1>3, <1>4 DEF Current

\* TickMemory: time only makes the store forget.
LEMMA TickMemory ==
    ASSUME IInv, Tick PROVE Memory!Forget
<1> USE SessionConstants
<1>1. clock' = clock + 1 /\ m' = m /\ reply' = reply /\ clock \in Nat
      /\ \A j \in DOMAIN m : m[j].seen \in Nat
  BY DEF Tick, IInv, TypeOK, Entry
<1>2. Fresh' \subseteq Fresh
  BY <1>1 DEF Fresh, Expired
<1> DEFINE lost == Ids \ Fresh'
<1>3. Visible' = [j \in Ids |-> IF j \in lost THEN NoTier ELSE Visible[j]]
  BY <1>1, <1>2 DEF Visible
<1>4. lost \in SUBSET Ids
  OBVIOUS
<1>5. QED
  BY <1>1, <1>3, <1>4 DEF Memory!Forget

\* StoreImplementsMemory: however lookups, updates, evictions and the clock
\* interleave, what the store shows is a memory that may forget but never
\* invents a tier and never moves one between sessions, and every lookup
\* answers what is shown (Current and Set of session.go; what RouterProxy is
\* written against).
THEOREM StoreImplementsMemory == Spec => ImplementsMemory
<1>1. IInv /\ [Next]_vars => [Memory!Next]_(Memory!vars)
  <2> SUFFICES ASSUME IInv, [Next]_vars PROVE [Memory!Next]_(Memory!vars)
    OBVIOUS
  <2>1. ASSUME NEW i \in Ids \cup {NoId}, Current(i) PROVE Memory!Next
    BY <2>1, CurrentMemory DEF Memory!Next
  <2>2. ASSUME NEW i \in Ids \cup {NoId}, NEW t \in Tiers, Set(i, t)
        PROVE  Memory!Next
    <3>1. i \in Ids
      BY <2>2 DEF Set
    <3>2. QED
      BY <2>2, <3>1, SetMemory DEF Memory!Next
  <2>3. CASE Tick
    BY <2>3, TickMemory DEF Memory!Next
  <2>4. CASE UNCHANGED vars
    BY <2>4 DEF vars, Memory!vars, Visible, Fresh, Expired
  <2>5. QED
    BY <2>1, <2>2, <2>3, <2>4 DEF Next
<1>2. QED
  BY <1>1, InitMemory, Invariance, PTL DEF Spec, ImplementsMemory, Memory!Spec
=============================================================================
