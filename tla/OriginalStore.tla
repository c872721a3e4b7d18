--------------------------- MODULE OriginalStore ---------------------------
(***************************************************************************)
(* The retrieval store of the hook daemon (server/store.go): originals of  *)
(* reduced outputs on disk, named by content hash and reached by a small   *)
(* integer alias.  Put runs under the mutex but is not one step: it writes *)
(* the content, evicts, and saves the index, and the daemon may die        *)
(* between any two of these.  Get takes the mutex only to look the alias   *)
(* up and reads the file without it.  A hash stands for its content.       *)
(***************************************************************************)
EXTENDS Integers, FiniteSets, FiniteSetsExt

CONSTANTS
    Contents,       \* contents worth storing
    NoContent,      \* a miss
    Size,           \* Size[c]: bytes of content c
    MaxBytes,       \* the byte cap
    TTL,            \* the age cap, in clock units
    Epoch,          \* time.Now().Unix() at clock 0
    Getters,        \* concurrent /whittle/get calls
    Faults,         \* which writes may fail: "content", "index"
    MaxTime,        \* bound on the clock (model bound)
    MaxAliases      \* bound on the aliases handed out (model bound)

ASSUME StoreConstants ==
    /\ NoContent \notin Contents
    /\ Size \in [Contents -> Nat \ {0}]
    /\ MaxBytes \in Nat
    /\ TTL \in Nat
    /\ Epoch \in Nat \ {0}
    /\ Faults \subseteq {"content", "index"}
    /\ MaxTime \in Nat
    /\ MaxAliases \in Nat

VARIABLES
    next,       \* Store.next
    ids,        \* Store.ids: alias -> content
    idx,        \* index.json
    files,      \* the content files: content -> [mod, whole]
    put,        \* the Put in progress; the mutex is free when it is idle
    get,        \* each getter's Get, between its lookup and its read
    answer,     \* each getter's last answer
    clock,
    issued,     \* history: what each alias was handed out for, when its
                \* file was written (-1: the index was lost since), and
                \* whether all of it was
    wrote       \* history: when each content's file was last written

vars == <<next, ids, idx, files, put, get, answer, clock, issued, wrote>>

Empty == [x \in {} |-> NoContent]
Idle == [at |-> "idle", c |-> NoContent, id |-> 0, drop |-> {}]
Miss == [id |-> 0, c |-> NoContent, whole |-> TRUE]
NotReading == [at |-> "idle", id |-> 0, c |-> NoContent]

\* index.json: absent, unreadable, or a saved counter and alias table.
Missing == [state |-> "missing", next |-> 0, ids |-> Empty]
Unreadable == [state |-> "unreadable", next |-> 0, ids |-> Empty]
Saved(n, t) == [state |-> "saved", next |-> n, ids |-> t]

IsTable(t) == /\ DOMAIN t \subseteq Nat \ {0}
              /\ t \in [DOMAIN t -> Contents]

File == [mod : 0..MaxTime, whole : BOOLEAN]
PutState == [at : {"idle", "writing", "evicting"},
             c : Contents \cup {NoContent}, id : Nat, drop : SUBSET Contents]
Issued == [c : Contents, t : -1..MaxTime, whole : BOOLEAN]

\* One invariant for the types of all variables.
TypeOK ==
    /\ next \in Nat \ {0}
    /\ IsTable(ids)
    /\ /\ idx.state \in {"missing", "unreadable", "saved"}
       /\ idx = [state |-> idx.state, next |-> idx.next, ids |-> idx.ids]
       /\ idx.next \in Nat
       /\ IsTable(idx.ids)
       /\ idx.state = "saved" => idx.next > 0
    /\ DOMAIN files \subseteq Contents
    /\ files \in [DOMAIN files -> File]
    /\ put \in PutState
    /\ put.at # "idle" => put.c \in Contents
    /\ put.at = "evicting" => put.id > 0
    /\ get \in [Getters -> [at : {"idle", "reading"}, id : Nat,
                            c : Contents \cup {NoContent}]]
    /\ answer \in [Getters -> [id : Nat, c : Contents \cup {NoContent},
                               whole : BOOLEAN]]
    /\ clock \in 0..MaxTime
    /\ DOMAIN issued \subseteq Nat \ {0}
    /\ issued \in [DOMAIN issued -> Issued]
    /\ wrote \in [Contents -> -1..MaxTime]

\* The first OpenStore of an empty directory.
Init ==
    /\ next = 1
    /\ ids = Empty
    /\ idx = Missing
    /\ files = Empty
    /\ put = Idle
    /\ get = [g \in Getters |-> NotReading]
    /\ answer = [g \in Getters |-> Miss]
    /\ clock = 0
    /\ issued = Empty
    /\ wrote = [c \in Contents |-> -1]

Held(t) == {t[id] : id \in DOMAIN t}
Add(t, id, v) == [i \in DOMAIN t \cup {id} |-> IF i = id THEN v ELSE t[i]]
Without(t, S) == [i \in DOMAIN t \ S |-> t[i]]
Failing(kind) == kind \in Faults

-----------------------------------------------------------------------------
\* Put finds the content in the table: "same content keeps its alias".  The
\* file is neither checked nor touched.
PutDedup(c) ==
    /\ put.at = "idle"
    /\ c \in Held(ids)
    /\ UNCHANGED vars

\* os.WriteFile truncates the file before it writes.
PutWrite(c) ==
    /\ put.at = "idle"
    /\ c \notin Held(ids)
    /\ Cardinality(DOMAIN issued) < MaxAliases
    /\ put' = [Idle EXCEPT !.at = "writing", !.c = c]
    /\ files' = Add(files, c, [mod |-> clock, whole |-> FALSE])
    /\ UNCHANGED <<next, ids, idx, get, answer, clock, issued, wrote>>

\* A torn file is some prefix; the model takes the empty one.
FileBytes(f, c) == IF f[c].whole THEN Size[c] ELSE 0
Bytes(f, S) == MapThenSumSet(LAMBDA c : FileBytes(f, c), S)

\* Mutant: evict goes newest first.
Drops_NewestFirst(f) ==
    LET All == DOMAIN f
        Old == {c \in All : f[c].mod < clock - TTL}
    IN  {D \in SUBSET All :
            /\ Old \subseteq D
            /\ \A c \in D \ Old, d \in All \ D : f[c].mod >= f[d].mod
            /\ Bytes(f, All \ D) <= MaxBytes}

\* What evict may drop, from the files `f` the table names.  Oldest first, a
\* file goes while it is past the TTL or the rest is over the cap: the files
\* are sorted by mtime alone, so those of equal mtime come in any order.
Drops(f) ==
    LET All == DOMAIN f
        Old == {c \in All : f[c].mod < clock - TTL}
    IN  {D \in SUBSET All :
            /\ Old \subseteq D
            /\ \A c \in D, d \in All \ D : f[c].mod <= f[d].mod
            /\ Bytes(f, All \ D) <= MaxBytes
            /\ \/ D = Old
               \/ \E last \in D \ Old :
                     /\ \A c \in D : f[c].mod <= f[last].mod
                     /\ Bytes(f, (All \ D) \cup {last}) > MaxBytes}

\* Mutant: evict runs before the new entry is in the table.
PutEvict_Early ==
    /\ put.at = "writing"
    /\ \E whole \in IF Failing("content") THEN BOOLEAN ELSE {TRUE} :
          files' = Add(files, put.c, [mod |-> clock, whole |-> whole])
    /\ next' = next + 1
    /\ wrote' = [wrote EXCEPT ![put.c] = clock]
    /\ LET known == [c \in Held(ids) \cap DOMAIN files' |-> files'[c]]
       IN  \E D \in Drops(known) :
              /\ ids' = Add(Without(ids, {id \in DOMAIN ids : ids[id] \in D}),
                            next, put.c)
              /\ put' = [put EXCEPT !.at = "evicting", !.id = next, !.drop = D]
    /\ UNCHANGED <<idx, get, answer, clock, issued>>

\* The write ends (cut short when it fails; Put ignores the error), the alias
\* is taken from the counter, and evict drops what has to go from the table.
PutEvict ==
    /\ put.at = "writing"
    /\ \E whole \in IF Failing("content") THEN BOOLEAN ELSE {TRUE} :
          files' = Add(files, put.c, [mod |-> clock, whole |-> whole])
    /\ next' = next + 1
    /\ wrote' = [wrote EXCEPT ![put.c] = clock]
    /\ LET table == Add(ids, next, put.c)
           known == [c \in Held(table) \cap DOMAIN files' |-> files'[c]]
       IN  \E D \in Drops(known) :
              /\ ids' = Without(table, {id \in DOMAIN table : table[id] \in D})
              /\ put' = [put EXCEPT !.at = "evicting", !.id = next, !.drop = D]
    /\ UNCHANGED <<idx, get, answer, clock, issued>>

\* evict removes the dropped files one by one.
PutRemove(c) ==
    /\ put.at = "evicting"
    /\ c \in put.drop
    /\ files' = Without(files, {c})
    /\ put' = [put EXCEPT !.drop = @ \ {c}]
    /\ UNCHANGED <<next, ids, idx, get, answer, clock, issued, wrote>>

\* persist replaces index.json by temp file and rename, or leaves it as it was
\* when either fails (the error is ignored), and Put returns the alias.
PutPersist ==
    /\ put.at = "evicting"
    /\ put.drop = {}
    /\ idx' \in {Saved(next, ids)} \cup IF Failing("index") THEN {idx} ELSE {}
    /\ issued' = Add(issued, put.id,
                     [c |-> put.c, t |-> wrote[put.c],
                      whole |-> /\ put.c \in DOMAIN files
                                /\ files[put.c].whole])
    /\ put' = Idle
    /\ UNCHANGED <<next, ids, files, get, answer, clock, wrote>>

\* Get looks the alias up under the mutex; the answer is a miss until the file
\* has been read.
GetLookup(g, id) ==
    /\ put.at = "idle"
    /\ get[g].at = "idle"
    /\ answer' = [answer EXCEPT ![g] = Miss]
    /\ get' = [get EXCEPT ![g] =
                  IF id \in DOMAIN ids
                  THEN [at |-> "reading", id |-> id, c |-> ids[id]]
                  ELSE NotReading]
    /\ UNCHANGED <<next, ids, idx, files, put, clock, issued, wrote>>

\* Get reads the file after it released the mutex: the file may be gone by
\* then, or be in the middle of a rewrite.  Its age is not looked at.
GetRead(g) ==
    /\ get[g].at = "reading"
    /\ LET c == get[g].c
       IN  answer' = IF c \in DOMAIN files
                     THEN [answer EXCEPT ![g] =
                              [id |-> get[g].id, c |-> c,
                               whole |-> files[c].whole]]
                     ELSE answer
    /\ get' = [get EXCEPT ![g] = NotReading]
    /\ UNCHANGED <<next, ids, idx, files, put, clock, issued, wrote>>

\* Mutant: an unreadable index opens a fresh store.
Reopen_NoJump(index) ==
    /\ next' = IF index.state = "saved" THEN index.next ELSE 1
    /\ ids' = index.ids
    /\ idx' = index
    /\ put' = Idle
    /\ get' = [g \in Getters |-> NotReading]

\* Mutant: the counter of a store without an index starts at zero.
Reopen_FromZero(index) ==
    /\ next' = IF index.state = "unreadable" THEN Epoch + clock ELSE index.next
    /\ ids' = index.ids
    /\ idx' = index
    /\ put' = Idle
    /\ get' = [g \in Getters |-> NotReading]

\* OpenStore on what the last run left: the saved counter and table, a fresh
\* store without an index, or, with an unreadable one, a counter far past any
\* alias (time.Now().Unix()) and an empty table.
Reopen(index) ==
    /\ next' = CASE index.state = "saved" -> index.next
                 [] index.state = "missing" -> 1
                 [] index.state = "unreadable" -> Epoch + clock
    /\ ids' = index.ids
    /\ idx' = index
    /\ put' = Idle
    /\ get' = [g \in Getters |-> NotReading]

\* The daemon dies, in the middle of a Put or not, and is started again.
Restart ==
    /\ Reopen(idx)
    /\ UNCHANGED <<files, answer, clock, issued, wrote>>

\* The daemon restarts on an index.json that cannot be read any more.  The
\* jump is to the current second, so it clears every alias handed out as long
\* as those after an earlier jump came no faster than one a second.
IndexLost ==
    /\ idx.state = "saved"
    /\ next <= Epoch + clock
    /\ Reopen(Unreadable)
    /\ issued' = [id \in DOMAIN issued |-> [issued[id] EXCEPT !.t = -1]]
    /\ UNCHANGED <<files, answer, clock, wrote>>

Tick ==
    /\ clock < MaxTime
    /\ clock' = clock + 1
    /\ UNCHANGED <<next, ids, idx, files, put, get, answer, issued, wrote>>

Put(c) == PutDedup(c) \/ PutWrite(c) \/ PutRemove(c)
PutGoesOn == PutEvict \/ PutPersist

Next ==
    \/ \E c \in Contents : Put(c)
    \/ PutGoesOn
    \/ \E g \in Getters, id \in DOMAIN issued : GetLookup(g, id)
    \/ \E g \in Getters : GetRead(g)
    \/ Restart
    \/ IndexLost
    \/ Tick

Spec == Init /\ [][Next]_vars

-----------------------------------------------------------------------------
\* An alias is never handed out a second time for something else, across
\* restarts and a lost index ("aliases are never reissued across restarts").
NeverReissued ==
    [][\A id \in DOMAIN issued :
          id \in DOMAIN issued' /\ issued'[id].c = issued[id].c]_vars

\* Between two Puts the files the table names fit the cap, whatever died where.
IndexedBounded ==
    put.at = "idle" =>
        Bytes(files, Held(ids) \cap DOMAIN files) <= MaxBytes

\* The store keeps what it has room for: an original stays retrievable, to the
\* last byte, while it is younger than the TTL and everything written since
\* it was, it included, fits the cap.  Neither an eviction, a crash in the
\* middle of one, nor a later Put of the same content may lose it.
Sizes(S) == MapThenSumSet(LAMBDA c : Size[c], S)
WrittenSince(t) == {c \in Contents : wrote[c] >= t}
Claimed(id) ==
    LET e == issued[id]
    IN  /\ e.whole
        /\ e.t >= 0
        /\ e.t = wrote[e.c]
        /\ clock - e.t <= TTL
        /\ Sizes(WrittenSince(e.t)) <= MaxBytes

Retained ==
    \A id \in DOMAIN issued :
        Claimed(id) =>
            /\ id \in DOMAIN ids
            /\ ids[id] = issued[id].c
            /\ issued[id].c \in DOMAIN files
            /\ files[issued[id].c].whole

\* The store implements the archive the hints promise.
Archive == INSTANCE OriginalArchive
               WITH registry <- [id \in DOMAIN issued |-> issued[id].c]
ImplementsArchive == Archive!Spec
=============================================================================
