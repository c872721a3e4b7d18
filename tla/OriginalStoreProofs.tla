------------------------ MODULE OriginalStoreProofs ------------------------
(***************************************************************************)
(* Proofs about OriginalStore: its types; that no alias is ever handed out *)
(* twice, by way of what a restart at any moment would read back; that the *)
(* table stays within the byte cap; and that what fits the cap is kept.    *)
(***************************************************************************)
EXTENDS OriginalStore, FoldTheorems

\* Adding a content to an alias table gives a table.
LEMMA AddTable ==
    ASSUME NEW t, IsTable(t), NEW id \in Nat \ {0}, NEW c \in Contents
    PROVE  IsTable(Add(t, id, c))
BY DEF IsTable, Add

\* Taking entries out gives a table.
LEMMA WithoutTable ==
    ASSUME NEW t, IsTable(t), NEW S
    PROVE  IsTable(Without(t, S))
BY DEF IsTable, Without

\* What a table names are contents.
LEMMA HeldContents ==
    ASSUME NEW t, IsTable(t)
    PROVE  Held(t) \subseteq Contents
BY DEF IsTable, Held

\* The files stay a function from some contents to files.
LEMMA AddFile ==
    ASSUME NEW f, DOMAIN f \subseteq Contents, f \in [DOMAIN f -> File],
           NEW c \in Contents, NEW v \in File
    PROVE  /\ DOMAIN Add(f, c, v) \subseteq Contents
           /\ Add(f, c, v) \in [DOMAIN Add(f, c, v) -> File]
BY DEF Add

\* Dropped files are files of the table.
LEMMA DropsSubset ==
    ASSUME NEW f, NEW D \in Drops(f)
    PROVE  D \subseteq DOMAIN f
BY DEF Drops

\* The initial state has the types.
LEMMA InitTypeOK == Init => TypeOK
<1> USE StoreConstants
<1> SUFFICES ASSUME Init PROVE TypeOK
  OBVIOUS
<1>1. IsTable(Empty) /\ DOMAIN Empty = {}
  BY DEF IsTable, Empty
<1>2. QED
  BY <1>1 DEF Init, TypeOK, Empty, Missing, Idle, NotReading, Miss, Issued, PutState,
     File

\* Every step preserves them.
LEMMA StepTypeOK == TypeOK /\ [Next]_vars => TypeOK'
<1> USE StoreConstants
<1> SUFFICES ASSUME TypeOK, [Next]_vars PROVE TypeOK'
  OBVIOUS
<1>1. ASSUME NEW c \in Contents, PutWrite(c) PROVE TypeOK'
  <2>1. [mod |-> clock, whole |-> FALSE] \in File
    BY DEF TypeOK, File
  <2>2. /\ DOMAIN files' \subseteq Contents
        /\ files' \in [DOMAIN files' -> File]
    BY <1>1, <2>1, AddFile DEF PutWrite, TypeOK
  <2>3. put' = [at |-> "writing", c |-> c, id |-> 0, drop |-> {}]
    BY <1>1 DEF PutWrite, Idle
  <2>4. QED
    <3>1. UNCHANGED <<next, ids, idx, get, answer, clock, issued, wrote>>
      BY <1>1 DEF PutWrite
    <3>2. put' \in PutState
      BY <2>3 DEF PutState
    <3>3. QED
      BY <2>2, <2>3, <3>1, <3>2 DEF TypeOK
<1>2. CASE PutEvict
  <2> DEFINE table == Add(ids, next, put.c)
             known == [c \in Held(table) \cap DOMAIN files' |-> files'[c]]
  <2>1. put.c \in Contents /\ next \in Nat \ {0}
    BY <1>2 DEF PutEvict, TypeOK
  <2>2. IsTable(table)
    BY <2>1, AddTable DEF TypeOK
  <2>3. PICK D \in Drops(known) :
          /\ ids' = Without(table, {id \in DOMAIN table : table[id] \in D})
          /\ put' = [put EXCEPT !.at = "evicting", !.id = next, !.drop = D]
    BY <1>2 DEF PutEvict
  <2>4. D \in SUBSET Contents
    <3> HIDE DEF table
    <3>1. DOMAIN known \subseteq Held(table)
      OBVIOUS
    <3>2. D \subseteq DOMAIN known
      BY DropsSubset
    <3>3. QED
      BY <2>2, <3>1, <3>2, HeldContents
  <2>5. IsTable(ids')
    <3> HIDE DEF table
    <3>1. QED
      BY <2>2, <2>3, WithoutTable
  <2>6. PICK whole \in BOOLEAN :
          files' = Add(files, put.c, [mod |-> clock, whole |-> whole])
    BY <1>2 DEF PutEvict
  <2>7. [mod |-> clock, whole |-> whole] \in File
    BY DEF TypeOK, File
  <2>8. /\ DOMAIN files' \subseteq Contents
        /\ files' \in [DOMAIN files' -> File]
    BY <2>1, <2>6, <2>7, AddFile DEF TypeOK
  <2>9. /\ put' \in PutState
        /\ put'.at # "idle" => put'.c \in Contents
        /\ put'.at = "evicting" => put'.id > 0
    <3>1. put' = [at |-> "evicting", c |-> put.c, id |-> next, drop |-> D]
      BY <2>3 DEF TypeOK, PutState
    <3>2. QED
      BY <2>1, <2>4, <3>1 DEF PutState
  <2>10. wrote' \in [Contents -> -1..MaxTime] /\ next' \in Nat \ {0}
    BY <1>2, <2>1 DEF PutEvict, TypeOK
  <2>11. UNCHANGED <<idx, get, answer, clock, issued>>
    BY <1>2 DEF PutEvict
  <2>12. QED
    BY <2>5, <2>8, <2>9, <2>10, <2>11 DEF TypeOK
<1>3. ASSUME NEW c \in Contents, PutRemove(c) PROVE TypeOK'
  BY <1>3 DEF PutRemove, TypeOK, PutState, Without
<1>4. CASE PutPersist
  <2>1. put.c \in Contents
    BY <1>4 DEF PutPersist, TypeOK
  <2>2. /\ idx'.state \in {"missing", "unreadable", "saved"}
        /\ idx' = [state |-> idx'.state, next |-> idx'.next, ids |-> idx'.ids]
        /\ idx'.next \in Nat
        /\ IsTable(idx'.ids)
        /\ idx'.state = "saved" => idx'.next > 0
    <3>1. CASE idx' = Saved(next, ids)
      BY <3>1 DEF Saved, TypeOK
    <3>2. CASE idx' = idx
      BY <3>2 DEF TypeOK
    <3>3. QED
      BY <1>4, <3>1, <3>2 DEF PutPersist
  <2> DEFINE e == [c |-> put.c, t |-> wrote[put.c],
                   whole |-> /\ put.c \in DOMAIN files
                             /\ files[put.c].whole]
  <2>3. e \in Issued
    <3>1. wrote[put.c] \in -1..MaxTime
      BY <2>1 DEF TypeOK
    <3>2. put.c \in DOMAIN files => files[put.c].whole \in BOOLEAN
      BY DEF TypeOK, File
    <3>3. (put.c \in DOMAIN files /\ files[put.c].whole) \in BOOLEAN
      BY <3>2
    <3>4. QED
      BY <2>1, <3>1, <3>3 DEF Issued
  <2>4. issued' = Add(issued, put.id, e)
    BY <1>4 DEF PutPersist
  <2>5. put.id \in Nat \ {0}
    BY <1>4 DEF PutPersist, TypeOK, PutState
  <2>6. /\ DOMAIN issued' \subseteq Nat \ {0}
        /\ issued' \in [DOMAIN issued' -> Issued]
    <3> HIDE DEF e
    <3>1. QED
      BY <2>3, <2>4, <2>5 DEF TypeOK, Add
  <2>7. /\ put' = [at |-> "idle", c |-> NoContent, id |-> 0, drop |-> {}]
        /\ UNCHANGED <<next, ids, files, get, answer, clock, wrote>>
    BY <1>4 DEF PutPersist, Idle
  <2>8. QED
    BY <2>2, <2>6, <2>7 DEF TypeOK, PutState
<1>5. ASSUME NEW g \in Getters, NEW id \in DOMAIN issued, GetLookup(g, id)
      PROVE  TypeOK'
  <2>1. answer' \in [Getters -> [id : Nat, c : Contents \cup {NoContent},
                                 whole : BOOLEAN]]
    BY <1>5 DEF GetLookup, Miss, TypeOK
  <2>2. id \in Nat
    BY DEF TypeOK
  <2>3. id \in DOMAIN ids => ids[id] \in Contents
    BY DEF TypeOK, IsTable
  <2>4. get' \in [Getters -> [at : {"idle", "reading"}, id : Nat,
                              c : Contents \cup {NoContent}]]
    BY <1>5, <2>2, <2>3 DEF GetLookup, NotReading, TypeOK
  <2>5. QED
    BY <1>5, <2>1, <2>4 DEF GetLookup, TypeOK
<1>6. ASSUME NEW g \in Getters, GetRead(g) PROVE TypeOK'
  <2>1. get[g].c \in DOMAIN files =>
            files[get[g].c].whole \in BOOLEAN
    BY DEF TypeOK, File
  <2>2. answer' \in [Getters -> [id : Nat, c : Contents \cup {NoContent},
                                 whole : BOOLEAN]]
    BY <1>6, <2>1 DEF GetRead, TypeOK
  <2>3. get' \in [Getters -> [at : {"idle", "reading"}, id : Nat,
                              c : Contents \cup {NoContent}]]
    BY <1>6 DEF GetRead, NotReading, TypeOK
  <2>4. QED
    BY <1>6, <2>2, <2>3 DEF GetRead, TypeOK
<1>7. CASE Restart
  <2>1. next' \in Nat \ {0}
    BY <1>7 DEF Restart, Reopen, TypeOK
  <2>2. QED
    BY <1>7, <2>1 DEF Restart, Reopen, Idle, NotReading, TypeOK, PutState
<1>8. CASE IndexLost
  <2>1. /\ next' = Epoch + clock
        /\ idx' = Unreadable /\ ids' = Empty
    BY <1>8 DEF IndexLost, Reopen, Unreadable
  <2>2. IsTable(Empty)
    BY DEF IsTable, Empty
  <2>3. issued' \in [DOMAIN issued -> Issued]
    BY <1>8 DEF IndexLost, TypeOK, Issued
  <2>4. QED
    BY <1>8, <2>1, <2>2, <2>3
    DEF IndexLost, Reopen, Unreadable, Idle, NotReading, TypeOK, PutState
<1>9. CASE Tick
  BY <1>9 DEF Tick, TypeOK
<1>10. CASE UNCHANGED vars
  BY <1>10 DEF vars, TypeOK
<1>11. QED
  BY <1>1, <1>2, <1>3, <1>4, <1>5, <1>6, <1>7, <1>8, <1>9, <1>10
  DEF Next, Put, PutGoesOn, PutDedup

\* StoreTypeCorrect: every variable of the store keeps its type.
THEOREM StoreTypeCorrect == Spec => []TypeOK
BY InitTypeOK, StepTypeOK, PTL DEF Spec

-----------------------------------------------------------------------------
(***************************************************************************)
(* No alias is handed out twice.  The counter is past every alias that was *)
(* ever handed out, in memory and also in whatever a restart would make of *)
(* index.json; and every table, in memory or saved, agrees with what was   *)
(* handed out.  The argument needs every save of the index to succeed.     *)
(***************************************************************************)

\* All aliases that were handed out are below n.
Below(n) == \A id \in DOMAIN issued : id < n

\* A table names no alias from n on, and means by each what was handed out.
Agrees(t, n) ==
    /\ \A id \in DOMAIN t : id < n
    /\ \A id \in DOMAIN t : id \in DOMAIN issued => t[id] = issued[id].c

\* What a restart would read back.
RestartSafe ==
    /\ idx.state = "saved" => Below(idx.next) /\ Agrees(idx.ids, idx.next)
    /\ idx.state = "missing" => DOMAIN issued = {} /\ idx.ids = Empty
    /\ idx.state = "unreadable" => Below(Epoch + clock) /\ idx.ids = Empty

\* The Put in progress holds an alias nobody has been given.
PutSafe ==
    put.at = "evicting" =>
        /\ put.id < next
        /\ put.id \notin DOMAIN issued
        /\ put.id \in DOMAIN ids => ids[put.id] = put.c

\* A Get on its way to the file goes for the content of its alias.
GetSafe ==
    \A g \in Getters :
        get[g].at = "reading" =>
            /\ get[g].id \in DOMAIN issued
            /\ get[g].c = issued[get[g].id].c

IInv ==
    /\ TypeOK
    /\ Below(next)
    /\ Agrees(ids, next)
    /\ RestartSafe
    /\ PutSafe
    /\ GetSafe

\* The empty store is safe.
LEMMA InitIInv == Init => IInv
<1> SUFFICES ASSUME Init PROVE IInv
  OBVIOUS
<1>1. DOMAIN issued = {} /\ DOMAIN ids = {} /\ idx = Missing
      /\ put = Idle /\ get = [g \in Getters |-> NotReading]
  BY DEF Init, Empty
<1>2. Below(next) /\ Agrees(ids, next)
  BY <1>1 DEF Below, Agrees
<1>3. RestartSafe /\ PutSafe /\ GetSafe
  BY <1>1 DEF RestartSafe, PutSafe, GetSafe, Missing, Idle, NotReading, Empty
<1>4. QED
  BY <1>2, <1>3, InitTypeOK DEF IInv

\* Taking the next alias, and dropping entries, keeps the tables in agreement.
LEMMA EvictStep ==
    ASSUME IInv, TypeOK', PutEvict
    PROVE  IInv'
<1> USE DEF IInv
<1> DEFINE table == Add(ids, next, put.c)
<1>1. /\ put.at = "writing" /\ next' = next + 1
      /\ UNCHANGED <<idx, get, clock, issued>>
  BY DEF PutEvict
<1>2. PICK S, D :
        /\ ids' = Without(table, S)
        /\ put' = [put EXCEPT !.at = "evicting", !.id = next, !.drop = D]
  BY DEF PutEvict
<1>3. next \in Nat \ {0} /\ next \notin DOMAIN issued
  BY DEF TypeOK, Below
<1>4. put' = [at |-> "evicting", c |-> put.c, id |-> next, drop |-> D]
  BY <1>2 DEF TypeOK, PutState
<1>5. /\ DOMAIN ids' \subseteq DOMAIN ids \cup {next}
      /\ \A id \in DOMAIN ids' : ids'[id] = table[id]
  BY <1>2 DEF Without, Add
<1>6. \A id \in DOMAIN ids' :
          ids'[id] = IF id = next THEN put.c ELSE ids[id]
  BY <1>5 DEF Add
<1>7. Below(next)'
  BY <1>1, <1>3 DEF Below, TypeOK
<1>8. Agrees(ids, next)'
  <2>1. \A id \in DOMAIN ids' : id < next + 1
    BY <1>3, <1>5 DEF Agrees, TypeOK, IsTable
  <2>2. \A id \in DOMAIN ids' : id \in DOMAIN issued => ids'[id] = issued[id].c
    BY <1>3, <1>5, <1>6 DEF Agrees
  <2>3. QED
    BY <1>1, <2>1, <2>2 DEF Agrees
<1>9. RestartSafe'
  BY <1>1 DEF RestartSafe, Below, Agrees
<1>10. PutSafe'
  BY <1>1, <1>3, <1>4, <1>6 DEF PutSafe
<1>11. GetSafe'
  BY <1>1 DEF GetSafe
<1>12. QED
  BY <1>7, <1>8, <1>9, <1>10, <1>11

\* Handing the alias out: it is new, and the saved index knows it.
LEMMA PersistStep ==
    ASSUME "index" \notin Faults, IInv, TypeOK', PutPersist
    PROVE  IInv'
<1> USE DEF IInv
<1>1. /\ put.at = "evicting" /\ put' = Idle
      /\ UNCHANGED <<next, ids, get, clock>>
      /\ idx' = Saved(next, ids)
  BY DEF PutPersist, Failing
<1>2. PICK e : issued' = Add(issued, put.id, e) /\ e.c = put.c
  BY DEF PutPersist
<1>3. put.id < next /\ put.id \notin DOMAIN issued
  BY <1>1 DEF PutSafe
<1>4. /\ DOMAIN issued' = DOMAIN issued \cup {put.id}
      /\ \A id \in DOMAIN issued : issued'[id] = issued[id]
      /\ issued'[put.id].c = put.c
  BY <1>2, <1>3 DEF Add
<1>5. \A id \in DOMAIN issued' : id < next
  BY <1>3, <1>4 DEF Below
<1>6. \A id \in DOMAIN ids : id \in DOMAIN issued' => ids[id] = issued'[id].c
  BY <1>1, <1>4 DEF Agrees, PutSafe
<1>7. Below(next)' /\ Agrees(ids, next)'
  BY <1>1, <1>5, <1>6 DEF Below, Agrees
<1>8. RestartSafe'
  BY <1>1, <1>5, <1>6 DEF RestartSafe, Saved, Below, Agrees
<1>9. PutSafe'
  BY <1>1 DEF PutSafe, Idle
<1>10. GetSafe'
  BY <1>1, <1>4 DEF GetSafe
<1>11. QED
  BY <1>7, <1>8, <1>9, <1>10

\* A restart reads back a safe counter and a table that agrees.
LEMMA RestartStep ==
    ASSUME IInv, TypeOK', Restart
    PROVE  IInv'
<1> USE DEF IInv
<1>1. UNCHANGED <<idx, clock, issued>> /\ put' = Idle /\ ids' = idx.ids
      /\ get' = [g \in Getters |-> NotReading]
  BY DEF Restart, Reopen
<1>2. Below(next)' /\ Agrees(ids, next)'
  <2>1. CASE idx.state = "saved"
    <3>1. next' = idx.next
      BY <2>1 DEF Restart, Reopen
    <3>2. QED
      BY <1>1, <2>1, <3>1 DEF RestartSafe, Below, Agrees
  <2>2. CASE idx.state = "missing"
    BY <1>1, <2>2 DEF RestartSafe, Below, Agrees, Empty
  <2>3. CASE idx.state = "unreadable"
    <3>1. next' = Epoch + clock
      BY <2>3 DEF Restart, Reopen
    <3>2. QED
      BY <1>1, <2>3, <3>1 DEF RestartSafe, Below, Agrees, Empty
  <2>4. QED
    BY <2>1, <2>2, <2>3 DEF TypeOK
<1>3. RestartSafe'
  BY <1>1 DEF RestartSafe, Below, Agrees
<1>4. PutSafe' /\ GetSafe'
  BY <1>1 DEF PutSafe, GetSafe, Idle, NotReading
<1>5. QED
  BY <1>2, <1>3, <1>4

\* So does a restart on an unreadable index, which jumps the counter.
LEMMA IndexLostStep ==
    ASSUME IInv, TypeOK', IndexLost
    PROVE  IInv'
<1> USE DEF IInv
<1>1. /\ next <= Epoch + clock /\ next' = Epoch + clock
      /\ UNCHANGED clock
      /\ put' = Idle /\ idx' = Unreadable /\ ids' = Empty
      /\ get' = [g \in Getters |-> NotReading]
  BY DEF IndexLost, Reopen, Unreadable
<1>2. DOMAIN issued' = DOMAIN issued
  BY DEF IndexLost
<1>3. \A id \in DOMAIN issued' : id < Epoch + clock
  BY <1>1, <1>2, StoreConstants DEF Below, TypeOK
<1>4. Below(next)' /\ Agrees(ids, next)'
  BY <1>1, <1>3 DEF Below, Agrees, Empty
<1>5. RestartSafe'
  BY <1>1, <1>3 DEF RestartSafe, Unreadable, Below
<1>6. PutSafe' /\ GetSafe'
  BY <1>1 DEF PutSafe, GetSafe, Idle, NotReading
<1>7. QED
  BY <1>4, <1>5, <1>6

\* IInv is inductive when the saves of the index succeed.
LEMMA StepIInv ==
    ASSUME "index" \notin Faults
    PROVE  IInv /\ [Next]_vars => IInv'
<1> SUFFICES ASSUME IInv, [Next]_vars PROVE IInv'
  OBVIOUS
<1>1. TypeOK'
  BY StepTypeOK DEF IInv
<1>2. ASSUME UNCHANGED <<next, ids, idx, clock, issued>>, PutSafe', GetSafe'
      PROVE  IInv'
  BY <1>1, <1>2 DEF IInv, RestartSafe, Below, Agrees
<1>3. ASSUME NEW c \in Contents, PutWrite(c) PROVE IInv'
  <2>1. put' = [at |-> "writing", c |-> c, id |-> 0, drop |-> {}]
        /\ UNCHANGED <<next, ids, idx, get, clock, issued>>
    BY <1>3 DEF PutWrite, Idle
  <2>2. PutSafe' /\ GetSafe'
    BY <2>1 DEF IInv, PutSafe, GetSafe
  <2>3. QED
    BY <1>2, <2>1, <2>2
<1>4. ASSUME NEW c \in Contents, PutRemove(c) PROVE IInv'
  <2>1. put' = [put EXCEPT !.drop = @ \ {c}]
        /\ UNCHANGED <<next, ids, idx, get, clock, issued>>
    BY <1>4 DEF PutRemove
  <2>2. put'.at = put.at /\ put'.id = put.id /\ put'.c = put.c
    BY <2>1 DEF IInv, TypeOK, PutState
  <2>3. PutSafe' /\ GetSafe'
    BY <2>1, <2>2 DEF IInv, PutSafe, GetSafe
  <2>4. QED
    BY <1>2, <2>1, <2>3
<1>5. ASSUME NEW g \in Getters, NEW id \in DOMAIN issued, GetLookup(g, id)
      PROVE  IInv'
  <2>1. UNCHANGED <<next, ids, idx, put, clock, issued>>
    BY <1>5 DEF GetLookup
  <2>2. PutSafe'
    BY <2>1 DEF IInv, PutSafe
  <2>3. GetSafe'
    <3>1. id \in DOMAIN ids => ids[id] = issued[id].c
      BY DEF IInv, Agrees
    <3>2. get'[g].at = "reading" =>
              get'[g].id = id /\ get'[g].c = issued[id].c
      BY <1>5, <3>1 DEF GetLookup, NotReading, IInv, TypeOK
    <3>3. \A k \in Getters \ {g} : get'[k] = get[k]
      BY <1>5 DEF GetLookup, IInv, TypeOK
    <3>4. QED
      BY <2>1, <3>2, <3>3 DEF GetSafe, IInv
  <2>4. QED
    BY <1>2, <2>1, <2>2, <2>3
<1>6. ASSUME NEW g \in Getters, GetRead(g) PROVE IInv'
  <2>1. UNCHANGED <<next, ids, idx, put, clock, issued>>
        /\ get' = [get EXCEPT ![g] = NotReading]
    BY <1>6 DEF GetRead
  <2>2. PutSafe' /\ GetSafe'
    BY <2>1 DEF IInv, PutSafe, GetSafe, NotReading, TypeOK
  <2>3. QED
    BY <1>2, <2>1, <2>2
<1>7. CASE Tick
  <2>1. UNCHANGED <<next, ids, idx, put, get, issued>> /\ clock' = clock + 1
    BY <1>7 DEF Tick
  <2>2. RestartSafe'
    <3>1. Below(Epoch + clock) => Below(Epoch + clock)'
      BY <2>1, StoreConstants DEF Below, IInv, TypeOK
    <3>2. QED
      BY <2>1, <3>1 DEF RestartSafe, Below, Agrees, IInv
  <2>3. QED
    BY <1>1, <2>1, <2>2 DEF IInv, Below, Agrees, PutSafe, GetSafe
<1>8. CASE UNCHANGED vars
  <2>1. PutSafe' /\ GetSafe' /\ UNCHANGED <<next, ids, idx, clock, issued>>
    BY <1>8 DEF vars, IInv, PutSafe, GetSafe
  <2>2. QED
    BY <1>2, <2>1
<1>9. QED
  BY <1>1, <1>3, <1>4, <1>5, <1>6, <1>7, <1>8, EvictStep, PersistStep,
     RestartStep, IndexLostStep
  DEF Next, Put, PutGoesOn, PutDedup

\* The invariant holds throughout.
LEMMA StoreInvariance ==
    ASSUME "index" \notin Faults
    PROVE  Spec => []IInv
BY InitIInv, StepIInv, PTL DEF Spec

-----------------------------------------------------------------------------
\* What a step may do to the aliases handed out: nothing, or add a new one.
LEMMA IssuedGrows ==
    ASSUME IInv, [Next]_vars
    PROVE  \/ /\ DOMAIN issued' = DOMAIN issued
              /\ \A id \in DOMAIN issued : issued'[id].c = issued[id].c
           \/ /\ PutPersist
              /\ put.id \notin DOMAIN issued
              /\ DOMAIN issued' = DOMAIN issued \cup {put.id}
              /\ \A id \in DOMAIN issued : issued'[id].c = issued[id].c
              /\ issued'[put.id].c = put.c
<1>1. CASE PutPersist
  <2>1. put.id \notin DOMAIN issued
    BY <1>1 DEF PutPersist, IInv, PutSafe
  <2>2. QED
    BY <1>1, <2>1 DEF PutPersist, Add
<1>2. CASE IndexLost
  BY <1>2 DEF IndexLost, IInv, TypeOK, Issued
<1>3. CASE UNCHANGED issued
  BY <1>3
<1>4. QED
  BY <1>1, <1>2, <1>3
  DEF Next, vars, Put, PutGoesOn, PutDedup, PutWrite, PutRemove, PutEvict,
      GetLookup, GetRead, Restart, Tick

\* AliasesNeverReissued: as long as index.json can be written, an alias that
\* was handed out stands for its content for good, through every crash, every
\* restart, and the loss of the index.
THEOREM AliasesNeverReissued ==
    ASSUME "index" \notin Faults
    PROVE  Spec => NeverReissued
<1>1. IInv /\ [Next]_vars =>
          [\A id \in DOMAIN issued :
              id \in DOMAIN issued' /\ issued'[id].c = issued[id].c]_vars
  BY IssuedGrows
<1>2. QED
  BY <1>1, StoreInvariance, PTL DEF Spec, NeverReissued

\* What the aliases stand for, as the archive sees it.
Registry == [id \in DOMAIN issued |-> issued[id].c]

\* A step that leaves the answers alone issues aliases, at most.
LEMMA IssueRefines ==
    ASSUME IInv, IInv', [Next]_vars, UNCHANGED answer
    PROVE  Archive!Issue
<1>1. Registry' \in [DOMAIN Registry' -> Contents]
  BY DEF Registry, IInv, TypeOK, Issued
<1>2. /\ DOMAIN Registry \subseteq DOMAIN Registry'
      /\ \A id \in DOMAIN Registry : Registry'[id] = Registry[id]
  BY IssuedGrows DEF Registry
<1>3. QED
  BY <1>1, <1>2 DEF Archive!Issue, Registry

\* A lookup answers a miss.
LEMMA LookupRefines ==
    ASSUME IInv, NEW g \in Getters, NEW id, GetLookup(g, id)
    PROVE  Archive!Retrieve(g)
<1>1. answer' = [answer EXCEPT ![g] = Miss] /\ UNCHANGED issued
  BY DEF GetLookup
<1>2. answer'[g] = Miss
  BY <1>1 DEF IInv, TypeOK
<1>3. Miss \in Archive!Answers /\ Miss.c = NoContent
  BY DEF Miss, Archive!Answers
<1>4. QED
  BY <1>1, <1>2, <1>3 DEF Archive!Retrieve

\* A read answers the content of the alias, or leaves the miss.
LEMMA ReadRefines ==
    ASSUME IInv, TypeOK', NEW g \in Getters, GetRead(g)
    PROVE  Archive!Retrieve(g) \/ UNCHANGED <<issued, answer>>
<1>1. UNCHANGED issued /\ get[g].at = "reading"
  BY DEF GetRead
<1>2. CASE get[g].c \in DOMAIN files
  <2> DEFINE a == [id |-> get[g].id, c |-> get[g].c,
                   whole |-> files[get[g].c].whole]
  <2>1. answer' = [answer EXCEPT ![g] = a]
    BY <1>2 DEF GetRead
  <2>2. answer'[g] = a
    BY <2>1 DEF IInv, TypeOK
  <2>3. answer'[g] \in Archive!Answers
    BY DEF TypeOK, Archive!Answers
  <2>4. a.id \in DOMAIN issued /\ a.c = issued[a.id].c
    BY <1>1 DEF IInv, GetSafe
  <2>5. a.id \in DOMAIN Registry /\ a.c = Registry[a.id]
    BY <2>4 DEF Registry
  <2> HIDE DEF a
  <2>6. answer'[g].c # NoContent =>
            answer'[g].id \in DOMAIN Registry
            /\ answer'[g].c = Registry[answer'[g].id]
    BY <2>2, <2>5
  <2>7. answer' = [answer EXCEPT ![g] = answer'[g]]
    BY <2>1, <2>2
  <2>8. Registry' = Registry
    BY <1>1 DEF Registry
  <2>9. QED
    BY <2>3, <2>6, <2>7, <2>8 DEF Archive!Retrieve, Registry
<1>3. CASE get[g].c \notin DOMAIN files
  BY <1>1, <1>3 DEF GetRead
<1>4. QED
  BY <1>2, <1>3

\* Every step of the store is a step of the archive, or changes nothing there.
LEMMA StepRefines ==
    ASSUME IInv, IInv', [Next]_vars
    PROVE  [Archive!Next]_(Archive!vars)
<1>1. CASE UNCHANGED answer
  BY <1>1, IssueRefines DEF Archive!Next
<1>2. ASSUME NEW g \in Getters, NEW id, GetLookup(g, id)
      PROVE  Archive!Next
  BY <1>2, LookupRefines DEF Archive!Next
<1>3. ASSUME NEW g \in Getters, GetRead(g)
      PROVE  Archive!Next \/ UNCHANGED <<issued, answer>>
  BY <1>3, ReadRefines DEF Archive!Next, IInv
<1>4. QED
  BY <1>1, <1>2, <1>3
  DEF Next, vars, Put, PutGoesOn, PutDedup, PutWrite, PutRemove, PutEvict,
      PutPersist, Restart, IndexLost, Tick

\* StoreImplementsArchive: as long as index.json can be written, every answer
\* of a retrieval is a miss or the content its alias was handed out for,
\* however Puts, evictions, Gets, crashes and restarts interleave.
THEOREM StoreImplementsArchive ==
    ASSUME "index" \notin Faults
    PROVE  Spec => ImplementsArchive
<1>1. Init => Archive!Init
  BY DEF Init, Empty, Miss, Archive!Init
<1>2. IInv /\ IInv' /\ [Next]_vars => [Archive!Next]_(Archive!vars)
  BY StepRefines
<1>3. QED
  BY <1>1, <1>2, StoreInvariance, PTL
  DEF Spec, ImplementsArchive, Archive!Spec

(***************************************************************************)
(* The byte cap and what is retained.  Both turn on the sums evict takes,  *)
(* and both have to hold of the saved table as well: a crash goes back to  *)
(* it.  In the middle of a Put the saved table is still the one evict      *)
(* started from, and the file being written is not in it.                  *)
(***************************************************************************)

\* The bytes of some files are the total of a function on them.
LEMMA BytesIsTotal ==
    ASSUME NEW f, NEW S, IsFiniteSet(S), \A c \in S : FileBytes(f, c) \in Nat
    PROVE  Bytes(f, S) = Total([c \in S |-> FileBytes(f, c)], S)
<1> DEFINE b == [c \in S |-> FileBytes(f, c)]
           E(h) == [s \in SUBSET S |->
                       IF s = {} THEN 0
                       ELSE FileBytes(f, Some(s)) + h[s \ {Some(s)}]]
           it == CHOOSE h : h = E(h)
<1>1. \A x \in S : b[x] \in Nat
  OBVIOUS
<1>2. \A s \in SUBSET S : s # {} => Some(s) \in S
  BY DEF Some
<1>3. PICK h \in [SUBSET S -> Nat] : Sums(h, b, S)
  <2> HIDE DEF b
  <2>1. QED
    BY <1>1, SumExists
<1>4. h = E(h)
  BY <1>2, <1>3 DEF Sums
<1>5. it = E(it)
  <2> HIDE DEF E
  <2>1. QED
    BY <1>4
<1>6. Sums(it, b, S)
  BY <1>2, <1>5 DEF Sums
<1>7. Bytes(f, S) = it[S]
  BY DEF Bytes, MapThenSumSet, MapThenFoldSet, Some
<1>8. Total(b, S) = it[S]
  <2> HIDE DEF it, b
  <2>1. QED
    BY <1>1, <1>6, TotalIs
<1>9. QED
  BY <1>7, <1>8

\* Files as the store keeps them, and how many bytes they take.
AreFiles(f) == /\ DOMAIN f \subseteq Contents
               /\ f \in [DOMAIN f -> File]

\* A file takes at most the size of its content.
LEMMA FileBytesType ==
    ASSUME NEW f, AreFiles(f), NEW c \in DOMAIN f
    PROVE  FileBytes(f, c) \in Nat /\ FileBytes(f, c) <= Size[c]
<1>1. Size[c] \in Nat \ {0}
  BY StoreConstants DEF AreFiles
<1>2. QED
  BY <1>1 DEF FileBytes

\* Fewer files of the same bytes take fewer bytes.
LEMMA BytesMono ==
    ASSUME NEW f, AreFiles(f), NEW S \in SUBSET DOMAIN f, IsFiniteSet(S),
           NEW g, AreFiles(g), NEW T \in SUBSET DOMAIN g, T \subseteq S,
           \A c \in T : FileBytes(g, c) = FileBytes(f, c)
    PROVE  Bytes(g, T) <= Bytes(f, S)
<1> DEFINE a == [c \in T |-> FileBytes(g, c)]
           b == [c \in S |-> FileBytes(f, c)]
<1>1. IsFiniteSet(T)
  BY FS_Subset
<1>2. \A c \in T : FileBytes(g, c) \in Nat
  BY FileBytesType
<1>3. \A c \in S : FileBytes(f, c) \in Nat
  BY FileBytesType
<1>4. Bytes(g, T) = Total(a, T) /\ Bytes(f, S) = Total(b, S)
  BY <1>1, <1>2, <1>3, BytesIsTotal
<1>5. /\ \A c \in T : a[c] \in Nat /\ a[c] <= b[c]
      /\ \A c \in S : b[c] \in Nat
  BY <1>2, <1>3
<1> HIDE DEF a, b
<1>6. Total(a, T) <= Total(b, S)
  BY <1>5, TotalMono
<1>7. QED
  BY <1>4, <1>6

\* The sizes of contents bound the bytes of their files.
LEMMA BytesFitSizes ==
    ASSUME NEW f, AreFiles(f), NEW S \in SUBSET DOMAIN f,
           NEW W \in SUBSET Contents, IsFiniteSet(W), S \subseteq W
    PROVE  Bytes(f, S) <= Sizes(W)
<1> DEFINE a == [c \in S |-> FileBytes(f, c)]
<1>1. IsFiniteSet(S)
  BY FS_Subset
<1>2. \A c \in S : FileBytes(f, c) \in Nat
  BY FileBytesType
<1>3. Bytes(f, S) = Total(a, S)
  BY <1>1, <1>2, BytesIsTotal
<1>4. Sizes(W) = Total(Size, W)
  BY DEF Sizes, Total
<1>5. /\ \A c \in S : a[c] \in Nat /\ a[c] <= Size[c]
      /\ \A c \in W : Size[c] \in Nat
  BY <1>2, FileBytesType, StoreConstants
<1> HIDE DEF a
<1>6. Total(a, S) <= Total(Size, W)
  BY <1>5, TotalMono
<1>7. QED
  BY <1>3, <1>4, <1>6

\* Fewer contents have a smaller size.
LEMMA SizesMono ==
    ASSUME NEW W \in SUBSET Contents, IsFiniteSet(W), NEW S \in SUBSET W
    PROVE  Sizes(S) <= Sizes(W) /\ Sizes(W) \in Nat
<1>1. Sizes(W) = Total(Size, W) /\ Sizes(S) = Total(Size, S)
  BY DEF Sizes, Total
<1>2. \A c \in W : Size[c] \in Nat
  BY StoreConstants
<1>3. \A c \in S : Size[c] \in Nat /\ Size[c] <= Size[c]
  BY <1>2
<1>4. Total(Size, S) <= Total(Size, W)
  BY <1>2, <1>3, TotalMono
<1>5. Total(Size, W) \in Nat
  BY <1>2, TotalType
<1>6. QED
  BY <1>1, <1>4, <1>5

\* The files a table names carry the time they were written: only a file that
\* is in no table can have been truncated since.
Stamped(t) == \A c \in Held(t) \cap DOMAIN files : files[c].mod = wrote[c]

\* A table names no more than the cap.
Bounded(t) == Bytes(files, Held(t) \cap DOMAIN files) <= MaxBytes

\* A table keeps what is claimed.
Keeps(t) ==
    \A id \in DOMAIN issued :
        Claimed(id) =>
            /\ id \in DOMAIN t
            /\ t[id] = issued[id].c
            /\ issued[id].c \in DOMAIN files
            /\ files[issued[id].c].whole

\* A content nobody has been given an alias for yet that would be claimed.
Young(c) == /\ clock - wrote[c] <= TTL
            /\ Sizes(WrittenSince(wrote[c])) <= MaxBytes

\* The saved table is the one in memory, up to the moment evict changes it.
SavedTable ==
    /\ put.at # "evicting" => ids = idx.ids
    /\ put.at # "idle" => put.c \notin Held(idx.ids)

\* What the Put has put aside for removal is no longer named, and what it
\* stored is named if it is young.
PutKeeps ==
    put.at = "evicting" =>
        /\ put.drop \cap Held(ids) = {}
        /\ wrote[put.c] >= 0
        /\ Young(put.c) => put.id \in DOMAIN ids /\ ids[put.id] = put.c

Times == /\ \A c \in Contents : wrote[c] <= clock
         /\ \A id \in DOMAIN issued : issued[id].t <= wrote[issued[id].c]

Finite == IsFiniteSet(DOMAIN files) /\ IsFiniteSet(WrittenSince(0))

RInv ==
    /\ Finite
    /\ Times
    /\ SavedTable
    /\ PutKeeps
    /\ Stamped(ids) /\ Stamped(idx.ids)
    /\ Bounded(ids) /\ Bounded(idx.ids)
    /\ Keeps(ids) /\ Keeps(idx.ids)

\* It gives both properties.
LEMMA RInvSuffices == RInv => IndexedBounded /\ Retained
BY DEF RInv, Bounded, Keeps, IndexedBounded, Retained

\* It holds of the empty store.
LEMMA InitRInv == Init => RInv
<1> SUFFICES ASSUME Init PROVE RInv
  OBVIOUS
<1>1. /\ DOMAIN files = {} /\ DOMAIN issued = {} /\ DOMAIN ids = {}
      /\ ids = idx.ids /\ put.at = "idle" /\ Held(ids) = {}
      /\ wrote = [c \in Contents |-> -1] /\ clock = 0
  BY DEF Init, Empty, Missing, Idle, Held
<1>2. IsFiniteSet({}) /\ WrittenSince(0) = {}
  BY <1>1, FS_EmptySet DEF WrittenSince
<1>3. Bytes(files, {}) <= MaxBytes
  <2>1. AreFiles(files) /\ {} \in SUBSET DOMAIN files /\ {} \in SUBSET Contents
    BY <1>1 DEF AreFiles
  <2>2. Bytes(files, {}) <= Sizes({})
    BY <1>2, <2>1, BytesFitSizes
  <2>3. Sizes({}) = 0
    <3>1. Sizes({}) = Total(Size, {})
      BY DEF Sizes, Total
    <3>2. QED
      BY <3>1, TotalEmpty
  <2>4. Bytes(files, {}) \in Nat
    <3>1. \A c \in {} : FileBytes(files, c) \in Nat
      OBVIOUS
    <3>2. Bytes(files, {}) = Total([c \in {} |-> FileBytes(files, c)], {})
      BY <1>2, <3>1, BytesIsTotal
    <3>3. QED
      BY <3>2, TotalEmpty
  <2>5. QED
    BY <2>2, <2>3, <2>4, StoreConstants
<1>4. Held(ids) \cap DOMAIN files = {}
  BY <1>1
<1>5. Bounded(ids) /\ Bounded(idx.ids)
  BY <1>1, <1>3, <1>4 DEF Bounded
<1>6. Stamped(ids) /\ Keeps(ids) /\ Stamped(idx.ids) /\ Keeps(idx.ids)
  BY <1>1 DEF Stamped, Keeps
<1>7. Finite
  BY <1>1, <1>2 DEF Finite
<1>8. Times
  BY <1>1 DEF Times
<1>9. SavedTable /\ PutKeeps
  BY <1>1 DEF SavedTable, PutKeeps
<1>10. QED
  BY <1>5, <1>6, <1>7, <1>8, <1>9 DEF RInv

\* Bytes are counted in naturals.
LEMMA BytesType ==
    ASSUME NEW f, AreFiles(f), NEW S \in SUBSET DOMAIN f, IsFiniteSet(S)
    PROVE  Bytes(f, S) \in Nat
<1> DEFINE b == [c \in S |-> FileBytes(f, c)]
<1>1. \A c \in S : FileBytes(f, c) \in Nat
  BY FileBytesType
<1>2. Bytes(f, S) = Total(b, S)
  BY <1>1, BytesIsTotal
<1>3. \A c \in S : b[c] \in Nat
  BY <1>1
<1> HIDE DEF b
<1>4. QED
  BY <1>2, <1>3, TotalType

\* A table that names fewer of the same files stays within the cap.
LEMMA BoundedStep ==
    ASSUME NEW f, AreFiles(f), IsFiniteSet(DOMAIN f), NEW S \in SUBSET DOMAIN f,
           Bytes(f, S) <= MaxBytes,
           NEW g, AreFiles(g), NEW T \in SUBSET DOMAIN g, T \subseteq S,
           \A c \in T : g[c] = f[c]
    PROVE  Bytes(g, T) <= MaxBytes
<1>1. IsFiniteSet(S) /\ IsFiniteSet(T)
  BY FS_Subset
<1>2. Bytes(f, S) \in Nat /\ Bytes(g, T) \in Nat
  BY <1>1, BytesType
<1>3. \A c \in T : FileBytes(g, c) = FileBytes(f, c)
  BY DEF FileBytes
<1>4. Bytes(g, T) <= Bytes(f, S)
  BY <1>1, <1>3, BytesMono
<1>5. QED
  BY <1>2, <1>4, StoreConstants

\* The files of a state are files.
LEMMA StoreFiles ==
    /\ TypeOK => AreFiles(files) /\ wrote \in [Contents -> Int] /\ clock \in Nat
    /\ TypeOK' => AreFiles(files') /\ wrote' \in [Contents -> Int] /\ clock' \in Nat
BY StoreConstants DEF TypeOK, AreFiles

\* A claim, as a matter of an entry, the times of the writes and the clock.
Since(w, t) == {c \in Contents : w[c] >= t}
Due(e, w, now) ==
    /\ e.whole
    /\ e.t >= 0
    /\ e.t = w[e.c]
    /\ now - e.t <= TTL
    /\ Sizes(Since(w, e.t)) <= MaxBytes

\* Claimed says just that, now and after a step.
LEMMA ClaimedIsDue ==
    /\ \A id : Claimed(id) <=> Due(issued[id], wrote, clock)
    /\ \A id : Claimed(id)' <=> Due(issued'[id], wrote', clock')
<1>1. \A t : WrittenSince(t) = Since(wrote, t)
  BY DEF WrittenSince, Since
<1>2. \A id : Claimed(id) <=> Due(issued[id], wrote, clock)
  BY <1>1 DEF Claimed, Due, Sizes
<1>3. \A id : Claimed(id)' <=> Due(issued'[id], wrote', clock')
  <2> TAKE id
  <2>1. {c \in Contents : wrote'[c] >= issued'[id].t} = Since(wrote', issued'[id].t)
    BY DEF Since
  <2>2. QED
    BY <2>1 DEF Claimed, WrittenSince, Due
<1>4. QED
  BY <1>2, <1>3

\* Time and later writes only take claims away.
LEMMA DueShrinks ==
    ASSUME NEW e \in Issued, NEW w \in [Contents -> Int], NEW now \in Nat,
           NEW v \in [Contents -> Int], NEW later \in Nat, now <= later,
           \A c \in Contents : w[c] <= v[c],
           e.t <= w[e.c],
           IsFiniteSet(Since(v, 0)),
           Due(e, v, later)
    PROVE  Due(e, w, now)
<1>1. /\ e.c \in Contents /\ e.t \in Int /\ e.t >= 0 /\ e.t = v[e.c]
      /\ Sizes(Since(v, e.t)) <= MaxBytes
  BY DEF Issued, Due
<1>2. e.t = w[e.c]
  BY <1>1
<1>3. Since(w, e.t) \subseteq Since(v, e.t)
  BY <1>1 DEF Since
<1>4. IsFiniteSet(Since(v, e.t)) /\ Since(v, e.t) \subseteq Contents
  <2>1. Since(v, e.t) \subseteq Since(v, 0)
    BY <1>1 DEF Since
  <2>2. QED
    BY <2>1, FS_Subset DEF Since
<1>5. /\ Sizes(Since(w, e.t)) <= Sizes(Since(v, e.t))
      /\ Sizes(Since(v, e.t)) \in Nat /\ Sizes(Since(w, e.t)) \in Nat
  <2>1. IsFiniteSet(Since(w, e.t)) /\ Since(w, e.t) \subseteq Contents
    BY <1>3, <1>4, FS_Subset
  <2>2. QED
    BY <1>3, <1>4, <2>1, SizesMono
<1>6. Sizes(Since(w, e.t)) <= MaxBytes
  BY <1>1, <1>5, StoreConstants
<1>7. now - e.t <= TTL
  BY <1>1, StoreConstants DEF Due
<1>8. QED
  BY <1>1, <1>2, <1>6, <1>7 DEF Due

\* So a claim after a step was one before it.
LEMMA ClaimsShrink ==
    ASSUME TypeOK, TypeOK', Times, Finite', clock <= clock',
           \A c \in Contents : wrote[c] <= wrote'[c],
           NEW id \in DOMAIN issued, issued'[id] = issued[id], Claimed(id)'
    PROVE  Claimed(id)
<1>1. issued[id] \in Issued
  BY DEF TypeOK
<1>2. /\ wrote \in [Contents -> Int] /\ clock \in Nat
      /\ wrote' \in [Contents -> Int] /\ clock' \in Nat
  BY StoreFiles
<1>3. issued[id].t <= wrote[issued[id].c]
  BY DEF Times
<1>4. IsFiniteSet(Since(wrote', 0))
  BY DEF Finite, WrittenSince, Since
<1>5. Due(issued[id], wrote', clock')
  BY ClaimedIsDue
<1>6. Due(issued[id], wrote, clock)
  BY <1>1, <1>2, <1>3, <1>4, <1>5, DueShrinks
<1>7. QED
  BY <1>6, ClaimedIsDue

\* A content that would be claimed tomorrow would be claimed today.
LEMMA YoungShrinks ==
    ASSUME TypeOK, TypeOK', Finite', clock <= clock', UNCHANGED wrote,
           NEW c \in Contents, Young(c)'
    PROVE  Young(c)
<1>1. /\ wrote[c] \in Int /\ clock \in Nat /\ clock' \in Nat
  BY StoreFiles
<1>2. clock' - wrote[c] <= TTL
  BY DEF Young
<1>3. clock - wrote[c] <= TTL
  BY <1>1, <1>2, StoreConstants
<1>4. Sizes(WrittenSince(wrote[c])) <= MaxBytes
  BY DEF Young, WrittenSince
<1>5. QED
  BY <1>3, <1>4 DEF Young

\* Nothing but the clock and the retrievals moves.
LEMMA QuietKeeps ==
    ASSUME TypeOK, TypeOK', RInv, clock <= clock',
           UNCHANGED <<ids, idx, files, put, wrote, issued>>
    PROVE  RInv'
<1> USE DEF RInv
<1>1. Finite'
  BY DEF Finite, WrittenSince
<1>2. Times'
  <2>1. /\ wrote \in [Contents -> Int] /\ clock \in Nat /\ clock' \in Nat
    BY StoreFiles
  <2>2. \A c \in Contents : wrote[c] <= clock'
    BY <2>1 DEF Times
  <2>3. QED
    BY <2>2 DEF Times
<1>3. SavedTable'
  BY DEF SavedTable
<1>4. PutKeeps'
  <2> SUFFICES ASSUME put.at = "evicting"
               PROVE  /\ put.drop \cap Held(ids) = {}
                      /\ wrote[put.c] >= 0
                      /\ Young(put.c)' => put.id \in DOMAIN ids
                                          /\ ids[put.id] = put.c
    BY DEF PutKeeps, Held, Young
  <2>1. put.c \in Contents
    BY DEF TypeOK
  <2>2. Young(put.c)' => Young(put.c)
    BY <1>1, <2>1, YoungShrinks DEF Young
  <2>3. QED
    BY <2>2 DEF PutKeeps
<1>5. Stamped(ids)' /\ Stamped(idx.ids)' /\ Bounded(ids)' /\ Bounded(idx.ids)'
  BY DEF Stamped, Bounded, Held
<1>6. \A c \in Contents : wrote[c] <= wrote'[c]
  BY StoreFiles
<1>7. ASSUME NEW id \in DOMAIN issued', Claimed(id)' PROVE Claimed(id)
  BY <1>1, <1>6, <1>7, ClaimsShrink
<1>8. Keeps(ids)' /\ Keeps(idx.ids)'
  BY <1>7 DEF Keeps
<1>9. QED
  BY <1>1, <1>2, <1>3, <1>4, <1>5, <1>8

\* With the times and the claims where they were, a claim is what it was.
LEMMA SameClaims ==
    ASSUME TypeOK, TypeOK', Times, Finite', UNCHANGED <<clock, wrote, issued>>
    PROVE  \A id \in DOMAIN issued : Claimed(id)' => Claimed(id)
<1>1. clock <= clock' /\ \A c \in Contents : wrote[c] <= wrote'[c]
  BY StoreFiles
<1>2. QED
  BY <1>1, ClaimsShrink

\* Truncating a file no table names.
LEMMA WriteKeeps ==
    ASSUME TypeOK, TypeOK', RInv, NEW c \in Contents, PutWrite(c)
    PROVE  RInv'
<1> USE DEF RInv
<1>1. /\ put.at = "idle" /\ c \notin Held(ids)
      /\ put'.at = "writing" /\ put'.c = c
      /\ UNCHANGED <<ids, idx, clock, issued, wrote>>
  BY DEF PutWrite, Idle
<1>2. ids = idx.ids /\ c \notin Held(idx.ids)
  BY <1>1 DEF SavedTable
<1>3. /\ DOMAIN files' = DOMAIN files \cup {c}
      /\ \A d \in DOMAIN files \ {c} : files'[d] = files[d]
  BY DEF PutWrite, Add
<1>4. Finite'
  <2>1. IsFiniteSet(DOMAIN files')
    BY <1>3, FS_AddElement DEF Finite
  <2>2. QED
    BY <1>1, <2>1 DEF Finite, WrittenSince
<1>5. Times' /\ SavedTable' /\ PutKeeps'
  BY <1>1, <1>2 DEF Times, SavedTable, PutKeeps, Held
<1>6. Stamped(ids)'
  BY <1>1, <1>3 DEF Stamped, Held
<1>7. Bounded(ids)'
  <2>1. /\ Held(ids) \cap DOMAIN files' \subseteq Held(ids) \cap DOMAIN files
        /\ \A d \in Held(ids) \cap DOMAIN files' : files'[d] = files[d]
    BY <1>1, <1>3
  <2>2. AreFiles(files) /\ AreFiles(files')
    BY StoreFiles
  <2>3. Bytes(files', Held(ids) \cap DOMAIN files') <= MaxBytes
    BY <2>1, <2>2, BoundedStep DEF Bounded, Finite
  <2>4. QED
    BY <1>1, <2>3 DEF Bounded, Held
<1>8. Keeps(ids)'
  <2>1. ASSUME NEW id \in DOMAIN issued, Claimed(id)'
        PROVE  /\ id \in DOMAIN ids /\ ids[id] = issued[id].c
               /\ issued[id].c \in DOMAIN files /\ files[issued[id].c].whole
    BY <1>1, <1>4, <2>1, SameClaims DEF Keeps
  <2>2. \A id \in DOMAIN ids : ids[id] # c
    BY <1>1 DEF Held
  <2>3. QED
    BY <1>1, <1>3, <2>1, <2>2 DEF Keeps
<1>9. ids' = idx'.ids
  BY <1>1, <1>2
<1>10. QED
  BY <1>4, <1>5, <1>6, <1>7, <1>8, <1>9 DEF Stamped, Bounded, Keeps, Held

\* Removing a file the table in memory no longer names.
LEMMA RemoveKeeps ==
    ASSUME TypeOK, TypeOK', RInv, NEW c \in Contents, PutRemove(c)
    PROVE  RInv'
<1> USE DEF RInv
<1>1. /\ put.at = "evicting" /\ c \in put.drop
      /\ put' = [put EXCEPT !.drop = @ \ {c}]
      /\ UNCHANGED <<ids, idx, clock, issued, wrote>>
  BY DEF PutRemove
<1>2. put'.at = put.at /\ put'.c = put.c /\ put'.id = put.id
      /\ put'.drop = put.drop \ {c}
  BY <1>1 DEF TypeOK, PutState
<1>3. c \notin Held(ids)
  BY <1>1 DEF PutKeeps
<1>4. /\ DOMAIN files' = DOMAIN files \ {c}
      /\ \A d \in DOMAIN files \ {c} : files'[d] = files[d]
  BY DEF PutRemove, Without
<1>5. Finite'
  <2>1. IsFiniteSet(DOMAIN files')
    BY <1>4, FS_Subset DEF Finite
  <2>2. QED
    BY <1>1, <2>1 DEF Finite, WrittenSince
<1>6. Times' /\ SavedTable'
  BY <1>1, <1>2 DEF Times, SavedTable, Held
<1>7. PutKeeps'
  BY <1>1, <1>2 DEF PutKeeps, Held, Young, WrittenSince
<1>8. Stamped(ids)' /\ Stamped(idx.ids)'
  BY <1>1, <1>4 DEF Stamped, Held
<1>9. ASSUME NEW t, Bounded(t)
      PROVE  Bytes(files', Held(t) \cap DOMAIN files') <= MaxBytes
  <2>1. /\ Held(t) \cap DOMAIN files' \subseteq Held(t) \cap DOMAIN files
        /\ \A d \in Held(t) \cap DOMAIN files' : files'[d] = files[d]
    BY <1>4
  <2>2. AreFiles(files) /\ AreFiles(files')
    BY StoreFiles
  <2>3. QED
    BY <1>9, <2>1, <2>2, BoundedStep DEF Bounded, Finite
<1>10. Bounded(ids)' /\ Bounded(idx.ids)'
  BY <1>1, <1>9 DEF Bounded, Held
<1>11. ASSUME NEW id \in DOMAIN issued, Claimed(id)'
       PROVE  /\ Claimed(id) /\ issued[id].c \in DOMAIN files'
              /\ files'[issued[id].c].whole
  <2>1. Claimed(id)
    BY <1>1, <1>5, <1>11, SameClaims
  <2>2. /\ id \in DOMAIN ids /\ ids[id] = issued[id].c
        /\ issued[id].c \in DOMAIN files /\ files[issued[id].c].whole
    BY <2>1 DEF Keeps
  <2>3. issued[id].c # c
    BY <1>3, <2>2 DEF Held
  <2>4. QED
    BY <1>4, <2>1, <2>2, <2>3
<1>12. Keeps(ids)' /\ Keeps(idx.ids)'
  BY <1>1, <1>11 DEF Keeps
<1>13. QED
  BY <1>5, <1>6, <1>7, <1>8, <1>10, <1>12

\* Handing the alias out: a claim on it is what evict made sure of.
LEMMA PersistKeeps ==
    ASSUME "index" \notin Faults, IInv, TypeOK', RInv, PutPersist
    PROVE  RInv'
<1> USE DEF RInv
<1> DEFINE e == [c |-> put.c, t |-> wrote[put.c],
                 whole |-> put.c \in DOMAIN files /\ files[put.c].whole]
<1>1. /\ put.at = "evicting" /\ put'.at = "idle"
      /\ idx'.ids = ids /\ issued' = Add(issued, put.id, e)
      /\ UNCHANGED <<ids, files, clock, wrote>>
  <2>1. issued' = Add(issued, put.id, e)
    BY DEF PutPersist
  <2>2. idx' = Saved(next, ids)
    BY DEF PutPersist, Failing
  <2> HIDE DEF e
  <2>3. QED
    BY <2>1, <2>2 DEF PutPersist, Idle, Saved
<1>2. put.id \notin DOMAIN issued /\ TypeOK /\ put.c \in Contents
  BY <1>1 DEF IInv, PutSafe, TypeOK
<1>3. /\ DOMAIN issued' = DOMAIN issued \cup {put.id}
      /\ \A id \in DOMAIN issued : issued'[id] = issued[id]
      /\ issued'[put.id] = e
  BY <1>1, <1>2 DEF Add
<1>4. Finite'
  BY <1>1 DEF Finite, WrittenSince
<1>5. Times'
  <2>1. wrote[put.c] <= wrote[put.c]
    BY <1>2, StoreFiles
  <2>2. QED
    BY <1>1, <1>3, <2>1 DEF Times
<1>6. SavedTable' /\ PutKeeps'
  BY <1>1 DEF SavedTable, PutKeeps
<1>7. Stamped(ids)' /\ Bounded(ids)'
  BY <1>1 DEF Stamped, Bounded, Held
<1>8. Keeps(ids)'
  <2> SUFFICES ASSUME NEW id \in DOMAIN issued', Claimed(id)'
               PROVE  /\ id \in DOMAIN ids /\ ids[id] = issued'[id].c
                      /\ issued'[id].c \in DOMAIN files
                      /\ files[issued'[id].c].whole
    BY <1>1 DEF Keeps
  <2>1. CASE id \in DOMAIN issued
    <3>1. clock <= clock' /\ \A c \in Contents : wrote[c] <= wrote'[c]
      BY <1>1, <1>2, StoreFiles
    <3>2. Claimed(id)
      BY <1>2, <1>3, <1>4, <2>1, <3>1, ClaimsShrink
    <3>3. QED
      BY <1>3, <2>1, <3>2 DEF Keeps
  <2>2. CASE id = put.id
    <3>1. Due(e, wrote, clock)
      BY <1>1, <1>3, <2>2, ClaimedIsDue
    <3>2. e.c = put.c /\ e.t = wrote[put.c]
          /\ e.whole = (put.c \in DOMAIN files /\ files[put.c].whole)
      OBVIOUS
    <3> HIDE DEF e
    <3>3. WrittenSince(wrote[put.c]) = Since(wrote, e.t)
      BY <3>2 DEF WrittenSince, Since
    <3>4. Young(put.c)
      BY <3>1, <3>2, <3>3 DEF Due, Young
    <3>5. put.c \in DOMAIN files /\ files[put.c].whole
      BY <3>1, <3>2 DEF Due
    <3>6. QED
      BY <1>1, <1>3, <2>2, <3>2, <3>4, <3>5 DEF PutKeeps
  <2>3. QED
    BY <1>3, <2>1, <2>2
<1>9. QED
  BY <1>1, <1>4, <1>5, <1>6, <1>7, <1>8 DEF Stamped, Bounded, Keeps, Held

\* A restart goes back to the saved table, which keeps what is claimed.
LEMMA RestartKeeps ==
    ASSUME TypeOK, TypeOK', RInv, Restart
    PROVE  RInv'
<1> USE DEF RInv
<1>1. /\ ids' = idx.ids /\ idx' = idx /\ put'.at = "idle"
      /\ UNCHANGED <<files, clock, issued, wrote>>
  BY DEF Restart, Reopen, Idle
<1>2. Finite' /\ Times'
  BY <1>1 DEF Finite, Times, WrittenSince
<1>3. SavedTable' /\ PutKeeps'
  BY <1>1 DEF SavedTable, PutKeeps
<1>4. Stamped(ids)' /\ Bounded(ids)'
  BY <1>1 DEF Stamped, Bounded, Held
<1>5. \A id \in DOMAIN issued : Claimed(id)' => Claimed(id)
  BY <1>1, <1>2, SameClaims
<1>6. Keeps(ids)'
  BY <1>1, <1>5 DEF Keeps
<1>7. QED
  BY <1>1, <1>2, <1>3, <1>4, <1>6 DEF Stamped, Bounded, Keeps, Held

\* A lost index loses the table and every claim with it.
LEMMA IndexLostKeeps ==
    ASSUME TypeOK, TypeOK', RInv, IndexLost
    PROVE  RInv'
<1> USE DEF RInv
<1>1. /\ DOMAIN ids' = {} /\ ids' = idx'.ids /\ put'.at = "idle"
      /\ issued' = [id \in DOMAIN issued |-> [issued[id] EXCEPT !.t = -1]]
      /\ UNCHANGED <<files, clock, wrote>>
  BY DEF IndexLost, Reopen, Unreadable, Empty, Idle
<1>2. \A id \in DOMAIN issued' : issued'[id].t = -1 /\ issued'[id].c \in Contents
  BY <1>1 DEF TypeOK, Issued
<1>3. Finite'
  BY <1>1 DEF Finite, WrittenSince
<1>4. Times'
  <2>1. \A c \in Contents : -1 <= wrote[c]
    BY DEF TypeOK
  <2>2. QED
    BY <1>1, <1>2, <2>1 DEF Times
<1>5. Held(ids)' = {}
  BY <1>1 DEF Held
<1>6. SavedTable' /\ PutKeeps' /\ Stamped(ids)'
  BY <1>1, <1>5 DEF SavedTable, PutKeeps, Stamped
<1>7. Bounded(ids)'
  <2>1. AreFiles(files)
    BY StoreFiles
  <2>2. Bytes(files, {}) <= MaxBytes
    BY <2>1, BoundedStep DEF Bounded, Finite
  <2>3. Held(ids') \cap DOMAIN files' = {}
    BY <1>5
  <2>4. QED
    BY <1>1, <2>2, <2>3 DEF Bounded
<1>8. Keeps(ids)'
  <2>1. \A id \in DOMAIN issued' : ~Claimed(id)'
    BY <1>2 DEF Claimed
  <2>2. QED
    BY <2>1 DEF Keeps
<1>9. QED
  BY <1>1, <1>3, <1>4, <1>6, <1>7, <1>8 DEF Stamped, Bounded, Keeps, Held

\* What evict may not drop.  A file dropped while young was dropped for the
\* cap: with the last such file the rest was over it.  All of these were
\* written since, so they fit what was written since.
LEMMA YoungStays ==
    ASSUME clock \in Nat, NEW f, AreFiles(f), NEW D \in Drops(f),
           NEW w \in [Contents -> Int], \A c \in DOMAIN f : f[c].mod = w[c],
           IsFiniteSet(Since(w, 0)),
           NEW c \in DOMAIN f, clock - w[c] <= TTL,
           Sizes(Since(w, w[c])) <= MaxBytes
    PROVE  c \notin D
<1> SUFFICES ASSUME c \in D PROVE FALSE
  OBVIOUS
<1> DEFINE All == DOMAIN f
           Old == {d \in All : f[d].mod < clock - TTL}
           W == Since(w, w[c])
<1>1. \A d \in All : d \in Contents /\ f[d].mod \in Nat /\ w[d] \in Int
  BY StoreConstants DEF AreFiles, File
<1>2. /\ D \in SUBSET All
      /\ \A d \in D, k \in All \ D : f[d].mod <= f[k].mod
      /\ \/ D = Old
         \/ \E last \in D \ Old :
               /\ \A d \in D : f[d].mod <= f[last].mod
               /\ Bytes(f, (All \ D) \cup {last}) > MaxBytes
  BY DEF Drops
<1>3. c \notin Old
  <2>1. ~(w[c] < clock - TTL)
    BY <1>1, StoreConstants
  <2>2. QED
    BY <2>1
<1>4. PICK last \in D \ Old :
         /\ \A d \in D : f[d].mod <= f[last].mod
         /\ Bytes(f, (All \ D) \cup {last}) > MaxBytes
  BY <1>2, <1>3
<1> DEFINE S == (All \ D) \cup {last}
<1>5. S \in SUBSET All /\ \A d \in S : f[c].mod <= f[d].mod
  BY <1>2, <1>4
<1>6. S \subseteq W
  BY <1>1, <1>5 DEF Since
<1>7. IsFiniteSet(W) /\ W \in SUBSET Contents
  <2>1. w[c] >= 0 /\ w[c] \in Int
    BY <1>1
  <2>2. W \subseteq Since(w, 0)
    BY <2>1 DEF Since
  <2>3. QED
    BY <2>2, FS_Subset DEF Since
<1> HIDE DEF W, S
<1>8. S \in SUBSET DOMAIN f
  BY <1>5
<1>9. Bytes(f, S) <= Sizes(W)
  BY <1>6, <1>7, <1>8, BytesFitSizes
<1>10. Bytes(f, S) \in Nat /\ Sizes(W) \in Nat
  <2>1. IsFiniteSet(S)
    BY <1>6, <1>7, FS_Subset
  <2>2. QED
    BY <1>7, <1>8, <2>1, BytesType, SizesMono
<1>11. Bytes(f, S) > MaxBytes /\ Sizes(W) <= MaxBytes
  BY <1>4 DEF S, W
<1>12. QED
  BY <1>9, <1>10, <1>11, StoreConstants

\* Storing the content and evicting.
LEMMA EvictKeeps ==
    ASSUME IInv, TypeOK', RInv, PutEvict
    PROVE  RInv'
<1> USE DEF RInv
<1> DEFINE c == put.c
           table == Add(ids, next, c)
           known == [d \in Held(table) \cap DOMAIN files' |-> files'[d]]
<1>1. /\ put.at = "writing" /\ c \in Contents /\ ids = idx.ids
      /\ c \notin Held(ids) /\ TypeOK
      /\ next \in Nat /\ next \notin DOMAIN ids /\ next \notin DOMAIN issued
      /\ UNCHANGED <<idx, clock, issued>>
      /\ wrote' = [wrote EXCEPT ![c] = clock]
  <2>1. put.at = "writing" /\ UNCHANGED <<idx, clock, issued>>
        /\ wrote' = [wrote EXCEPT ![c] = clock]
    BY DEF PutEvict
  <2>2. TypeOK /\ next \in Nat /\ c \in Contents
    BY <2>1 DEF IInv, TypeOK
  <2>3. next \notin DOMAIN ids /\ next \notin DOMAIN issued
    BY <2>2 DEF IInv, Below, Agrees, TypeOK, IsTable
  <2>4. QED
    BY <2>1, <2>2, <2>3 DEF SavedTable
<1>2. /\ DOMAIN files' = DOMAIN files \cup {c} /\ files'[c].mod = clock
      /\ \A d \in DOMAIN files \ {c} : files'[d] = files[d]
  BY DEF PutEvict, Add
<1>3. PICK D \in Drops(known) :
         /\ ids' = Without(table, {id \in DOMAIN table : table[id] \in D})
         /\ put' = [put EXCEPT !.at = "evicting", !.id = next, !.drop = D]
  BY DEF PutEvict
<1>4. /\ put'.at = "evicting" /\ put'.c = c /\ put'.id = next /\ put'.drop = D
  BY <1>1, <1>3 DEF TypeOK, PutState
<1>5. /\ DOMAIN table = DOMAIN ids \cup {next}
      /\ table[next] = c
      /\ \A id \in DOMAIN ids : table[id] = ids[id]
  BY <1>1 DEF Add
<1>6. Held(table) = Held(ids) \cup {c}
  BY <1>5 DEF Held
<1>7. /\ \A id \in DOMAIN table : table[id] \notin D =>
                id \in DOMAIN ids' /\ ids'[id] = table[id]
      /\ Held(ids') = Held(table) \ D
  BY <1>3 DEF Without, Held
<1>8. AreFiles(files) /\ AreFiles(files') /\ clock \in Nat
      /\ wrote \in [Contents -> Int] /\ wrote' \in [Contents -> Int]
  BY <1>1, StoreFiles
<1>9. /\ DOMAIN known = Held(table) \cap DOMAIN files'
      /\ \A d \in DOMAIN known : known[d] = files'[d]
      /\ AreFiles(known)
  BY <1>8 DEF AreFiles
<1> HIDE DEF table, known
<1>10. /\ wrote'[c] = clock
       /\ \A d \in Contents \ {c} : wrote'[d] = wrote[d]
       /\ \A d \in Contents : wrote[d] <= wrote'[d]
  BY <1>1, <1>8 DEF Times
<1>11. Finite'
  <2>1. IsFiniteSet(DOMAIN files')
    BY <1>2, FS_AddElement DEF Finite
  <2>2. WrittenSince(0)' \subseteq WrittenSince(0) \cup {c}
    BY <1>10 DEF WrittenSince
  <2>3. IsFiniteSet(WrittenSince(0) \cup {c})
    BY FS_AddElement DEF Finite
  <2>4. IsFiniteSet(WrittenSince(0)')
    BY <2>2, <2>3, FS_Subset
  <2>5. QED
    BY <2>1, <2>4 DEF Finite
<1>12. Times'
  <2>1. \A d \in Contents : wrote'[d] <= clock
    BY <1>8, <1>10 DEF Times
  <2>2. ASSUME NEW id \in DOMAIN issued
        PROVE  issued[id].t <= wrote'[issued[id].c]
    <3>1. /\ issued[id].c \in Contents /\ issued[id].t \in Int
          /\ issued[id].t <= wrote[issued[id].c]
      BY <1>1 DEF TypeOK, Issued, Times
    <3>2. QED
      BY <1>8, <1>10, <3>1
  <2>3. QED
    BY <1>1, <2>1, <2>2 DEF Times
<1>13. SavedTable'
  BY <1>1, <1>4 DEF SavedTable, Held
<1>14. \A d \in DOMAIN known : known[d].mod = wrote'[d] /\ d \in Contents
  <2>1. \A d \in Held(ids) \cap DOMAIN files : files[d].mod = wrote[d]
    BY DEF Stamped
  <2>2. \A d \in DOMAIN files : d \in Contents
    BY <1>8 DEF AreFiles
  <2>3. QED
    BY <1>1, <1>2, <1>6, <1>9, <1>10, <2>1, <2>2
<1>15. ASSUME NEW d \in DOMAIN known, clock - wrote'[d] <= TTL,
              Sizes(Since(wrote', wrote'[d])) <= MaxBytes
       PROVE  d \notin D
  <2>1. IsFiniteSet(Since(wrote', 0))
    BY <1>11 DEF Finite, WrittenSince, Since
  <2>2. QED
    BY <1>3, <1>8, <1>9, <1>14, <1>15, <2>1, YoungStays
<1>16. Held(ids') \cap DOMAIN files' = DOMAIN known \ D
  BY <1>7, <1>9
<1>17. Stamped(ids)' /\ Stamped(idx.ids)'
  <2>1. \A d \in Held(ids') \cap DOMAIN files' : files'[d].mod = wrote'[d]
    BY <1>9, <1>14, <1>16
  <2>2. \A d \in Held(ids) \cap DOMAIN files' : files'[d].mod = wrote'[d]
    BY <1>6, <1>9, <1>14
  <2>3. QED
    BY <1>1, <2>1, <2>2 DEF Stamped, Held
<1>18. Bounded(ids)'
  <2>1. Bytes(known, DOMAIN known \ D) <= MaxBytes
    BY <1>3 DEF Drops
  <2>2. IsFiniteSet(DOMAIN known)
    BY <1>9, <1>11, FS_Subset DEF Finite
  <2>3. DOMAIN known \ D \in SUBSET DOMAIN files'
    BY <1>9
  <2>4. Bytes(files', DOMAIN known \ D) <= MaxBytes
    BY <1>8, <1>9, <2>1, <2>2, <2>3, BoundedStep
  <2>5. QED
    BY <1>16, <2>4 DEF Bounded
<1>19. Bounded(idx.ids)'
  <2>1. /\ Held(ids) \cap DOMAIN files' \subseteq Held(ids) \cap DOMAIN files
        /\ \A d \in Held(ids) \cap DOMAIN files' : files'[d] = files[d]
    BY <1>1, <1>2
  <2>2. Bytes(files', Held(ids) \cap DOMAIN files') <= MaxBytes
    BY <1>8, <2>1, BoundedStep DEF Bounded, Finite
  <2>3. QED
    BY <1>1, <2>2 DEF Bounded, Held
<1>20. ASSUME NEW id \in DOMAIN issued, Claimed(id)'
       PROVE  /\ id \in DOMAIN ids /\ ids[id] = issued[id].c
              /\ issued[id].c \in DOMAIN files' /\ files'[issued[id].c].whole
              /\ id \in DOMAIN ids' /\ ids'[id] = issued[id].c
  <2>1. Claimed(id)
    BY <1>1, <1>8, <1>10, <1>11, <1>20, ClaimsShrink
  <2>2. /\ id \in DOMAIN ids /\ ids[id] = issued[id].c
        /\ issued[id].c \in DOMAIN files /\ files[issued[id].c].whole
    BY <2>1 DEF Keeps
  <2>3. issued[id].c # c
    BY <1>1, <2>2 DEF Held
  <2>4. issued[id].c \in DOMAIN files' /\ files'[issued[id].c].whole
    BY <1>2, <2>2, <2>3
  <2>5. issued[id].c \in DOMAIN known
    BY <1>6, <1>9, <2>2, <2>4 DEF Held
  <2>6. Due(issued[id], wrote', clock)
    BY <1>1, <1>20, ClaimedIsDue
  <2>7. issued[id].c \notin D
    BY <1>15, <2>5, <2>6 DEF Due
  <2>8. QED
    BY <1>5, <1>7, <2>2, <2>4, <2>7
<1>21. Keeps(ids)' /\ Keeps(idx.ids)'
  BY <1>1, <1>20 DEF Keeps
<1>22. PutKeeps'
  <2>1. D \cap Held(ids') = {}
    BY <1>7
  <2>2. wrote'[c] >= 0
    BY <1>8, <1>10
  <2>3. ASSUME Young(c)' PROVE next \in DOMAIN ids' /\ ids'[next] = c
    <3>1. clock - wrote'[c] <= TTL
      BY <1>1, <1>4, <2>3 DEF Young
    <3>2. Sizes(Since(wrote', wrote'[c])) <= MaxBytes
      <4>1. Sizes({d \in Contents : wrote'[d] >= wrote'[put'.c]}) <= MaxBytes
        BY <2>3 DEF Young, WrittenSince
      <4>2. {d \in Contents : wrote'[d] >= wrote'[put'.c]}
                = Since(wrote', wrote'[put'.c])
        BY DEF Since
      <4>3. QED
        BY <1>4, <4>1, <4>2
    <3>3. c \in DOMAIN known
      BY <1>2, <1>6, <1>9
    <3>4. c \notin D
      BY <1>15, <3>1, <3>2, <3>3
    <3>5. QED
      BY <1>5, <1>7, <3>4
  <2>4. QED
    BY <1>4, <2>1, <2>2, <2>3 DEF PutKeeps
<1>23. QED
  BY <1>11, <1>12, <1>13, <1>17, <1>18, <1>19, <1>21, <1>22

\* RInv is inductive when the saves of the index succeed.
LEMMA StepRInv ==
    ASSUME "index" \notin Faults
    PROVE  IInv /\ IInv' /\ RInv /\ [Next]_vars => RInv'
<1> SUFFICES ASSUME IInv, IInv', RInv, [Next]_vars PROVE RInv'
  OBVIOUS
<1>1. TypeOK /\ TypeOK'
  BY DEF IInv
<1>2. ASSUME UNCHANGED <<ids, idx, files, put, wrote, issued>>, clock <= clock'
      PROVE  RInv'
  BY <1>1, <1>2, QuietKeeps
<1>3. clock <= clock
  BY <1>1, StoreFiles
<1>4. CASE Tick
  <2>1. UNCHANGED <<ids, idx, files, put, wrote, issued>> /\ clock' = clock + 1
    BY <1>4 DEF Tick
  <2>2. clock <= clock'
    BY <1>1, <2>1, StoreFiles
  <2>3. QED
    BY <1>2, <2>1, <2>2
<1>5. ASSUME NEW g \in Getters, NEW id, GetLookup(g, id) PROVE RInv'
  BY <1>2, <1>3, <1>5 DEF GetLookup
<1>6. ASSUME NEW g \in Getters, GetRead(g) PROVE RInv'
  BY <1>2, <1>3, <1>6 DEF GetRead
<1>7. CASE UNCHANGED vars
  BY <1>2, <1>3, <1>7 DEF vars
<1>8. ASSUME NEW c \in Contents, PutDedup(c) PROVE RInv'
  BY <1>2, <1>3, <1>8 DEF PutDedup, vars
<1>9. QED
  BY <1>1, <1>4, <1>5, <1>6, <1>7, <1>8, WriteKeeps, RemoveKeeps, PersistKeeps,
     RestartKeeps, IndexLostKeeps, EvictKeeps
  DEF Next, Put, PutGoesOn

\* RInv holds throughout.
LEMMA RInvInvariance ==
    ASSUME "index" \notin Faults
    PROVE  Spec => []RInv
BY InitRInv, StepRInv, StoreInvariance, PTL DEF Spec

\* TableWithinCap: as long as index.json can be written, the files the table
\* names fit the byte cap between two Puts, wherever in an earlier Put or
\* eviction the daemon died.
THEOREM TableWithinCap ==
    ASSUME "index" \notin Faults
    PROVE  Spec => []IndexedBounded
BY RInvInvariance, RInvSuffices, PTL

\* OriginalsRetained: as long as index.json can be written, an original that
\* is younger than the TTL and fits the cap together with everything written
\* since stays retrievable to the last byte: whatever the sizes, the cap, the
\* order of the Puts, and wherever in a Put or an eviction the daemon died.
THEOREM OriginalsRetained ==
    ASSUME "index" \notin Faults
    PROVE  Spec => []Retained
BY RInvInvariance, RInvSuffices, PTL
=============================================================================
