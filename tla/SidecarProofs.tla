--------------------------- MODULE SidecarProofs ---------------------------
(***************************************************************************)
(* Proofs about Sidecar for any requests, endpoints, permits and number of *)
(* crashes.  The double-checked locks are right because the check under    *)
(* the lock is still true when the object is published: LocksOK says that  *)
(* a lock has one holder and what the holder has seen.                     *)
(***************************************************************************)
EXTENDS Sidecar, FiniteSetTheorems, TLAPS

\* Inside a `with' block: of the one _route_lock, or of the model's own lock.
InRouteLock(r) == at[r] \in {"making", "constructing"}
InModelLock(r) == at[r] \in {"entered", "loading"}

\* A thread runs only in a process that serves.
PhaseOK == phase # "serving" => \A r \in Requests : at[r] \in {"idle", "done"}

\* One holder for each lock; what it saw unset under the lock is still unset.
LocksOK ==
    /\ \A q, r \in Requests : InRouteLock(q) /\ InRouteLock(r) => q = r
    /\ \A r \in Requests : at[r] = "constructing" => current[Kind[r]] = 0
    /\ \A q, r \in Requests :
          InModelLock(q) /\ InModelLock(r) /\ Kind[q] = Kind[r] => q = r
    /\ \A r \in Requests : at[r] = "loading" => <<Kind[r], 1>> \notin loaded

\* There is one object of each kind at most, the one published, and everyone
\* who asks for a model asks it.
ObjectsOK ==
    /\ \A k \in RouteKinds : current[k] = made[k] /\ current[k] \in {0, 1}
    /\ \A r \in Requests :
          at[r] \in {"checking", "model", "entered", "loading", "infer"} => obj[r] = 1
    /\ \A r \in Requests :
          /\ at[r] \in {"getting", "object", "making", "constructing"}
                => Kind[r] \in RouteKinds
          /\ at[r] \in {"acquiring", "releasing"} => Kind[r] = "compress"
    /\ loaded \subseteq Kinds \X {1}

\* The inductive invariant.
IInv == TypeOK /\ PhaseOK /\ LocksOK /\ ObjectsOK /\ PermitsConserved

Holders == {r \in Requests : Holding(r)}

-----------------------------------------------------------------------------
LEMMA HoldersFinite == IsFiniteSet(Holders) /\ Cardinality(Holders) \in Nat
BY SidecarConstants, FS_Subset, FS_CardinalityType DEF Holders

\* A step of one thread that neither takes nor gives back a permit.
LEMMA SamePermits ==
    ASSUME PermitsConserved, permits' = permits,
           \A q \in Requests : Holding(q)' <=> Holding(q)
    PROVE  PermitsConserved'
<1>1. {r \in Requests : Holding(r)}' = {r \in Requests : Holding(r)}
  OBVIOUS
<1> QED
  BY <1>1 DEF PermitsConserved

\* The invariant at the start.
LEMMA InitOK == Init => IInv
<1> SUFFICES ASSUME Init PROVE IInv
  OBVIOUS
<1> USE SidecarConstants
<1>1. TypeOK
  BY DEF Init, TypeOK, Steps, Outcomes, RouteKinds
<1>2. PhaseOK /\ LocksOK /\ ObjectsOK
  BY DEF Init, PhaseOK, LocksOK, ObjectsOK, InRouteLock, InModelLock
<1>3. PermitsConserved
  <2>1. {r \in Requests : Holding(r)} = {}
    BY DEF Init, Holding
  <2> QED
    BY <2>1, FS_EmptySet DEF Init, PermitsConserved
<1> QED
  BY <1>1, <1>2, <1>3 DEF IInv

\* Every step of a thread, and of the process, keeps types.
LEMMA TypeStep ==
    ASSUME TypeOK, PhaseOK, ObjectsOK, PermitsConserved, [Next]_vars
    PROVE  TypeOK'
<1> USE SidecarConstants DEF TypeOK, RouteKinds, Goto, process, objects
<1>1. ASSUME NEW r \in Requests, Arrive(r)
      PROVE  TypeOK'
  BY <1>1 DEF Arrive, Steps
<1>2. ASSUME NEW r \in Requests, Skip(r)
      PROVE  TypeOK'
  BY <1>2 DEF Skip, Answer, Steps, Outcomes
<1>3. ASSUME NEW r \in Requests, Acquire(r)
      PROVE  TypeOK'
  BY <1>3 DEF Acquire, Steps
<1>4. ASSUME NEW r \in Requests, Shed(r)
      PROVE  TypeOK'
  BY <1>4 DEF Shed, Answer, Steps, Outcomes
<1>5. ASSUME NEW r \in Requests, Release(r)
      PROVE  TypeOK'
  <2>1. r \in Holders
    BY <1>5 DEF Release, ObjectsOK, Holders, Holding
  <2>2. Cardinality(Holders) # 0
    BY <2>1, HoldersFinite, FS_EmptySet
  <2>3. permits + 1 \in 0..MaxConcurrency
    BY <2>2, HoldersFinite DEF PermitsConserved, Holders
  <2> QED
    BY <1>5, <2>3 DEF Release, Steps
<1>6. ASSUME NEW r \in Requests, GetObject(r)
      PROVE  TypeOK'
  BY <1>6 DEF GetObject, ObjectsOK, Steps
<1>7. ASSUME NEW r \in Requests, LockObject(r)
      PROVE  TypeOK'
  BY <1>7 DEF LockObject, Steps
<1>8. ASSUME NEW r \in Requests, RecheckObject(r)
      PROVE  TypeOK'
  BY <1>8 DEF RecheckObject, ObjectsOK, Steps
<1>9. ASSUME NEW r \in Requests, MakeObject(r)
      PROVE  TypeOK'
  BY <1>9 DEF MakeObject, ObjectsOK, Steps
<1>10. ASSUME NEW r \in Requests, AnswerEmpty(r)
       PROVE  TypeOK'
  BY <1>10 DEF AnswerEmpty, Answer, Steps, Outcomes
<1>11. ASSUME NEW r \in Requests, CheckModel(r) \/ LockModel(r) \/ RecheckModel(r)
       PROVE  TypeOK'
  BY <1>11 DEF CheckModel, LockModel, RecheckModel, Steps
<1>12. ASSUME NEW r \in Requests, LoadModel(r)
       PROVE  TypeOK'
  BY <1>12 DEF LoadModel, Model, Steps
<1>13. ASSUME NEW r \in Requests, FailLoad(r)
       PROVE  TypeOK'
  BY <1>13 DEF FailLoad, Finish, Answer, Steps, Outcomes
<1>14. ASSUME NEW r \in Requests, Infer(r)
       PROVE  TypeOK'
  BY <1>14 DEF Infer, Finish, Answer, Steps, Outcomes
<1>15. CASE Start
  BY <1>15 DEF Start, Kinds
<1>16. CASE Crash
  BY <1>16 DEF Crash, Steps, Outcomes
<1>17. CASE Restart
  BY <1>17 DEF Restart
<1>18. CASE UNCHANGED vars
  BY <1>18 DEF vars
<1> QED
  BY <1>1, <1>2, <1>3, <1>4, <1>5, <1>6, <1>7, <1>8, <1>9, <1>10, <1>11, <1>12,
     <1>13, <1>14, <1>15, <1>16, <1>17, <1>18 DEF Next, Serve

\* Nothing of a dead process runs, and nothing runs before it serves.
LEMMA PhaseStep ==
    ASSUME TypeOK, PhaseOK, [Next]_vars
    PROVE  PhaseOK'
<1> USE DEF TypeOK, PhaseOK, Goto, process, objects
<1>1. ASSUME NEW r \in Requests, Arrive(r) \/ Skip(r)
      PROVE  PhaseOK'
  BY <1>1 DEF Arrive, Skip, Answer
<1>2. ASSUME NEW r \in Requests, Serve(r)
      PROVE  PhaseOK'
  <2>1. at[r] \notin {"idle", "done"}
    BY <1>2 DEF Serve, Acquire, Shed, Release, GetObject, LockObject, RecheckObject,
                MakeObject, AnswerEmpty, CheckModel, LockModel, RecheckModel, LoadModel,
                FailLoad, Infer
  <2>2. phase' = phase
    BY <1>2 DEF Serve, Acquire, Shed, Release, GetObject, LockObject, RecheckObject,
                MakeObject, AnswerEmpty, CheckModel, LockModel, RecheckModel, LoadModel,
                FailLoad, Infer
  <2> QED
    BY <2>1, <2>2
<1>3. CASE Start
  BY <1>3 DEF Start
<1>4. CASE Crash
  BY <1>4 DEF Crash
<1>5. CASE Restart
  BY <1>5 DEF Restart
<1>6. CASE UNCHANGED vars
  BY <1>6 DEF vars
<1> QED
  BY <1>1, <1>2, <1>3, <1>4, <1>5, <1>6 DEF Next

\* One object of each kind, also when two threads want the first.
LEMMA ObjectsStep ==
    ASSUME TypeOK, PhaseOK, LocksOK, ObjectsOK, [Next]_vars
    PROVE  ObjectsOK'
<1> USE SidecarConstants DEF TypeOK, ObjectsOK, RouteKinds, Goto, process, objects
<1>1. ASSUME NEW r \in Requests, Arrive(r)
      PROVE  ObjectsOK'
  BY <1>1 DEF Arrive
<1>2. ASSUME NEW r \in Requests, Skip(r) \/ Shed(r) \/ AnswerEmpty(r)
      PROVE  ObjectsOK'
  BY <1>2 DEF Skip, Shed, AnswerEmpty, Answer
<1>3. ASSUME NEW r \in Requests, Acquire(r)
      PROVE  ObjectsOK'
  BY <1>3 DEF Acquire
<1>4. ASSUME NEW r \in Requests, Release(r)
      PROVE  ObjectsOK'
  BY <1>4 DEF Release
<1>5. ASSUME NEW r \in Requests, GetObject(r)
      PROVE  ObjectsOK'
  BY <1>5 DEF GetObject
<1>6. ASSUME NEW r \in Requests, LockObject(r)
      PROVE  ObjectsOK'
  BY <1>6 DEF LockObject
<1>7. ASSUME NEW r \in Requests, RecheckObject(r)
      PROVE  ObjectsOK'
  BY <1>7 DEF RecheckObject
<1>8. ASSUME NEW r \in Requests, MakeObject(r)
      PROVE  ObjectsOK'
  <2>1. current[Kind[r]] = 0 /\ made[Kind[r]] = 0
    BY <1>8 DEF MakeObject, LocksOK
  <2> QED
    BY <1>8, <2>1 DEF MakeObject
<1>9. ASSUME NEW r \in Requests, CheckModel(r) \/ LockModel(r) \/ RecheckModel(r)
      PROVE  ObjectsOK'
  BY <1>9 DEF CheckModel, LockModel, RecheckModel
<1>10. ASSUME NEW r \in Requests, LoadModel(r)
       PROVE  ObjectsOK'
  BY <1>10 DEF LoadModel, Model
<1>11. ASSUME NEW r \in Requests, FailLoad(r) \/ Infer(r)
       PROVE  ObjectsOK'
  BY <1>11 DEF FailLoad, Infer, Finish, Answer
<1>12. CASE Start
  BY <1>12 DEF Start, Kinds
<1>13. CASE Crash
  BY <1>13 DEF Crash
<1>14. CASE Restart
  BY <1>14 DEF Restart
<1>15. CASE UNCHANGED vars
  BY <1>15 DEF vars
<1> QED
  BY <1>1, <1>2, <1>3, <1>4, <1>5, <1>6, <1>7, <1>8, <1>9, <1>10, <1>11, <1>12,
     <1>13, <1>14, <1>15 DEF Next, Serve

\* A lock has one holder, and nobody else changes what it protects.
LEMMA LocksStep ==
    ASSUME TypeOK, PhaseOK, LocksOK, ObjectsOK, [Next]_vars
    PROVE  LocksOK'
<1> USE SidecarConstants
    DEF TypeOK, LocksOK, InRouteLock, InModelLock, RouteKinds, Goto, process, objects
<1>1. ASSUME NEW r \in Requests, Arrive(r)
      PROVE  LocksOK'
  BY <1>1 DEF Arrive
<1>2. ASSUME NEW r \in Requests, Skip(r) \/ Shed(r) \/ AnswerEmpty(r)
      PROVE  LocksOK'
  BY <1>2 DEF Skip, Shed, AnswerEmpty, Answer
<1>3. ASSUME NEW r \in Requests, Acquire(r) \/ Release(r)
      PROVE  LocksOK'
  BY <1>3 DEF Acquire, Release
<1>4. ASSUME NEW r \in Requests, GetObject(r)
      PROVE  LocksOK'
  BY <1>4 DEF GetObject
<1>5. ASSUME NEW r \in Requests, LockObject(r)
      PROVE  LocksOK'
  BY <1>5 DEF LockObject
<1>6. ASSUME NEW r \in Requests, RecheckObject(r)
      PROVE  LocksOK'
  BY <1>6 DEF RecheckObject
<1>7. ASSUME NEW r \in Requests, MakeObject(r)
      PROVE  LocksOK'
  <2>1. \A q \in Requests : at[q] = "constructing" => q = r
    BY <1>7 DEF MakeObject
  <2> QED
    BY <1>7, <2>1 DEF MakeObject
<1>8. ASSUME NEW r \in Requests, CheckModel(r)
      PROVE  LocksOK'
  BY <1>8 DEF CheckModel
<1>9. ASSUME NEW r \in Requests, LockModel(r)
      PROVE  LocksOK'
  <2>1. \A q \in Requests : InModelLock(q) => Kind[q] # Kind[r]
    BY <1>9 DEF LockModel, Model, ObjectsOK
  <2> QED
    BY <1>9, <2>1 DEF LockModel
<1>10. ASSUME NEW r \in Requests, RecheckModel(r)
       PROVE  LocksOK'
  BY <1>10 DEF RecheckModel, Model, ObjectsOK
<1>11. ASSUME NEW r \in Requests, LoadModel(r)
       PROVE  LocksOK'
  BY <1>11 DEF LoadModel, Model
<1>12. ASSUME NEW r \in Requests, FailLoad(r) \/ Infer(r)
       PROVE  LocksOK'
  BY <1>12 DEF FailLoad, Infer, Finish, Answer
<1>13. CASE Start
  BY <1>13 DEF Start, PhaseOK
<1>14. CASE Crash
  BY <1>14 DEF Crash
<1>15. CASE Restart
  BY <1>15 DEF Restart
<1>16. CASE UNCHANGED vars
  BY <1>16 DEF vars
<1> QED
  BY <1>1, <1>2, <1>3, <1>4, <1>5, <1>6, <1>7, <1>8, <1>9, <1>10, <1>11, <1>12,
     <1>13, <1>14, <1>15, <1>16 DEF Next, Serve

\* A permit moves with its holder: taken by Acquire, given back by Release, and
\* kept through whatever fails in between.
LEMMA PermitsStep ==
    ASSUME TypeOK, PhaseOK, ObjectsOK, PermitsConserved, [Next]_vars
    PROVE  PermitsConserved'
<1> USE DEF TypeOK, Goto, process, objects
<1>1. ASSUME NEW r \in Requests, Acquire(r)
      PROVE  PermitsConserved'
  <2>1. r \notin Holders /\ Holders' = Holders \cup {r}
    BY <1>1 DEF Acquire, Holders, Holding, ObjectsOK
  <2>2. Cardinality(Holders') = Cardinality(Holders) + 1
    BY <2>1, HoldersFinite, FS_AddElement
  <2> QED
    BY <1>1, <2>2, HoldersFinite DEF Acquire, PermitsConserved, Holders
<1>2. ASSUME NEW r \in Requests, Release(r)
      PROVE  PermitsConserved'
  <2>1. r \in Holders /\ Holders' = Holders \ {r}
    BY <1>2 DEF Release, Holders, Holding, ObjectsOK
  <2>2. Cardinality(Holders') = Cardinality(Holders) - 1
    BY <2>1, HoldersFinite, FS_RemoveElement
  <2> QED
    BY <1>2, <2>2, HoldersFinite DEF Release, PermitsConserved, Holders
<1>3. ASSUME NEW r \in Requests,
             \/ Arrive(r) \/ Skip(r) \/ Shed(r) \/ GetObject(r) \/ LockObject(r)
             \/ RecheckObject(r) \/ MakeObject(r) \/ AnswerEmpty(r)
      PROVE  PermitsConserved'
  BY <1>3, SamePermits
     DEF Arrive, Skip, Shed, GetObject, LockObject, RecheckObject, MakeObject,
         AnswerEmpty, Answer, Holding, ObjectsOK, RouteKinds
<1>4. ASSUME NEW r \in Requests,
             CheckModel(r) \/ LockModel(r) \/ RecheckModel(r) \/ LoadModel(r)
      PROVE  PermitsConserved'
  BY <1>4, SamePermits DEF CheckModel, LockModel, RecheckModel, LoadModel, Holding
<1>5. ASSUME NEW r \in Requests, FailLoad(r) \/ Infer(r)
      PROVE  PermitsConserved'
  BY <1>5, SamePermits DEF FailLoad, Infer, Finish, Answer, Holding
<1>6. CASE Start \/ Restart \/ UNCHANGED vars
  BY <1>6, SamePermits DEF Start, Restart, vars, Holding
<1>7. CASE Crash
  <2>1. {r \in Requests : Holding(r)}' = {}
    BY <1>7 DEF Crash, Holding
  <2> QED
    BY <1>7, <2>1, FS_EmptySet, SidecarConstants DEF Crash, PermitsConserved
<1> QED
  BY <1>1, <1>2, <1>3, <1>4, <1>5, <1>6, <1>7 DEF Next, Serve

LEMMA Inductive == IInv /\ [Next]_vars => IInv'
BY TypeStep, PhaseStep, LocksStep, ObjectsStep, PermitsStep DEF IInv

LEMMA InvariantHolds == Spec => []IInv
BY InitOK, Inductive, PTL DEF Spec

-----------------------------------------------------------------------------
\* A set of which any two elements are equal has one element at most.
LEMMA AtMostOne ==
    ASSUME NEW S, \A x, y \in S : x = y
    PROVE  S = {} \/ \E x : S = {x}
OBVIOUS

\* What the locks are for.
LEMMA LoadedOnceHolds == IInv => LoadedOnce
<1> SUFFICES ASSUME IInv, NEW k \in Kinds
             PROVE  LET L == {r \in Requests : Kind[r] = k /\ at[r] = "loading"}
                        M == {m \in loaded : m[1] = k}
                    IN  Cardinality(L) + Cardinality(M) <= 1
  BY DEF LoadedOnce
<1> DEFINE L == {r \in Requests : Kind[r] = k /\ at[r] = "loading"}
           M == {m \in loaded : m[1] = k}
<1> HIDE DEF L, M
<1>1. L = {} \/ \E r : L = {r}
  <2>1. \A q, r \in L : q = r
    BY DEF L, IInv, LocksOK, InModelLock
  <2> QED
    BY <2>1, AtMostOne
<1>2. M = {} \/ M = {<<k, 1>>}
  BY DEF M, IInv, ObjectsOK
<1>3. L = {} \/ M = {}
  BY <1>2 DEF L, M, IInv, LocksOK
<1>4. /\ Cardinality(L) = 0 \/ (Cardinality(L) = 1 /\ L # {})
      /\ Cardinality(M) = 0 \/ (Cardinality(M) = 1 /\ M # {})
  BY <1>1, <1>2, FS_EmptySet, FS_Singleton
<1>5. (L = {} => Cardinality(L) = 0) /\ (M = {} => Cardinality(M) = 0)
  BY FS_EmptySet
<1>6. Cardinality(L) + Cardinality(M) <= 1
  BY <1>3, <1>4, <1>5
<1> QED
  BY <1>6 DEF L, M

\* Types, and no error of the compressor for a caller of compress.
THEOREM SidecarTypeCorrect == Spec => []TypeOK
<1>1. IInv => TypeOK
  BY DEF IInv
<1> QED
  BY <1>1, InvariantHolds, PTL

\* No permit of the inference semaphore is lost or invented, whatever fails.
THEOREM PermitsAreConserved == Spec => []PermitsConserved
<1>1. IInv => PermitsConserved
  BY DEF IInv
<1> QED
  BY <1>1, InvariantHolds, PTL

\* A process loads no model twice, nor two of one kind.
THEOREM ModelsLoadedOnce == Spec => []LoadedOnce
BY InvariantHolds, LoadedOnceHolds, PTL
============================================================================
