------------------------------ MODULE Follower ------------------------------
(***************************************************************************)
(* whittle watch (cmd/whittle/watch.go): one goroutine that shows a        *)
(* backlog from two logs and then, every 300 ms, what was appended to      *)
(* each.  A follower looks at its log in two steps, a Stat and a later     *)
(* read, and knows of it only a byte offset.  Around it the logs live on:  *)
(* other processes append lines (server/hook.go logEvent, the route        *)
(* daemon), a write may be seen half done or end half done, and somebody   *)
(* may truncate, remove or replace a log.                                  *)
(*                                                                         *)
(* A line is two bytes long: its number, which is also its timestamp, and  *)
(* a newline.  What a write seen or ended half done lacks is the newline.  *)
(***************************************************************************)
EXTENDS Naturals, Sequences, SequencesExt, FiniteSets, Filters

CONSTANTS
    RouterLog, StatsLog,    \* the two files, in the order they are polled
    Backlog,                \* watch -n: recent events shown at the start
    MaxRead,                \* bytes one read takes at most (4 MiB)
    MaxLines, MaxRotations, MaxTears    \* bounds of the environment

ASSUME FollowerAssumption ==
    /\ RouterLog # StatsLog
    /\ Backlog \in Nat /\ MaxRead \in Nat \ {0}
    /\ MaxLines \in Nat /\ MaxRotations \in Nat /\ MaxTears \in Nat

Files == {RouterLog, StatsLog}
Newline == 0

VARIABLES
    content,    \* the bytes of each log, <<>> when it does not exist
    exists,     \* whether the path names a file
    epoch,      \* how often each log was truncated, removed or replaced
    writing,    \* logs with a write in progress: a line without its newline
    lines,      \* lines begun so far
    tears,      \* writes that ended half done
    turn,       \* where the loop of cmdWatch is
    offset, partial,    \* the followers' fields
    told,       \* the texts handed over from the file `base` is about
    base,       \* the epoch the offset was counted in
    clean,      \* the follower did not start in the middle of a line
    backlog     \* the events shown at the start

logs == <<content, exists, epoch, writing, lines, tears>>
vars == <<logs, turn, offset, partial, told, base, clean, backlog>>

----------------------------------------------------------------------------
\* strings.Split at the newlines: the complete texts, and what comes after.
Split(bytes) ==
    FoldLeft(LAMBDA acc, b :
                 IF b = Newline
                 THEN [texts |-> Append(acc.texts, acc.rest), rest |-> <<>>]
                 ELSE [acc EXCEPT !.rest = Append(@, b)],
             [texts |-> <<>>, rest |-> <<>>], bytes)

\* bufio.Scanner: a last line without a newline is a line as well.
Scanned(bytes) ==
    LET s == Split(bytes)
    IN  IF s.rest = <<>> THEN s.texts ELSE Append(s.texts, s.rest)

\* The size lastLines adds up: every line counts with a newline.
ScannedSize(texts) == FoldLeft(LAMBDA n, t : n + Len(t) + 1, 0, texts)

LastOf(s, n) == IF Len(s) > n THEN SubSeq(s, Len(s) - n + 1, Len(s)) ELSE s

\* A text that is no record (two lines glued) is passed through from the
\* router's log and dropped from the other, an empty one is dropped.
Rendered(f, texts) ==
    Only(texts, {t \in ToSet(texts) : Len(t) = 1 \/ (f = RouterLog /\ t # <<>>)})

Events(f, texts) ==
    LET shown == Rendered(f, texts)
    IN  [i \in DOMAIN shown |-> [ts |-> Head(shown[i]), text |-> shown[i]]]

Init ==
    /\ content = [f \in Files |-> <<>>]
    /\ exists = [f \in Files |-> FALSE]
    /\ epoch = [f \in Files |-> 0]
    /\ writing = {}
    /\ lines = 0 /\ tears = 0
    /\ turn = "start"
    /\ offset = [f \in Files |-> 0]
    /\ partial = [f \in Files |-> <<>>]
    /\ told = [f \in Files |-> <<>>]
    /\ base = [f \in Files |-> 0]
    /\ clean = [f \in Files |-> TRUE]
    /\ backlog = <<>>

\* The path still names the file the follower has been reading.
SameFile(f) == base[f] = epoch[f]

----------------------------------------------------------------------------
(* The logs.                                                               *)

\* O_CREATE|O_APPEND, one write: its bytes become visible one after another.
BeginWrite(f) ==
    /\ lines < MaxLines /\ f \notin writing
    /\ lines' = lines + 1
    /\ content' = [content EXCEPT ![f] = Append(@, lines')]
    /\ exists' = [exists EXCEPT ![f] = TRUE]
    /\ writing' = writing \cup {f}
    /\ UNCHANGED <<epoch, tears, turn, offset, partial, told, base, clean,
                   backlog>>

EndWrite(f) ==
    /\ f \in writing
    /\ content' = [content EXCEPT ![f] = Append(@, Newline)]
    /\ writing' = writing \ {f}
    /\ UNCHANGED <<exists, epoch, lines, tears, turn, offset, partial, told,
                   base, clean, backlog>>

\* A short write, on a full disk for one: its error is not looked at.
TearWrite(f) ==
    /\ f \in writing /\ tears < MaxTears
    /\ tears' = tears + 1
    /\ writing' = writing \ {f}
    /\ UNCHANGED <<content, exists, epoch, lines, turn, offset, partial, told,
                   base, clean, backlog>>

\* Truncated in place, or moved away; a write in progress goes to the old file.
Rotate(f) ==
    /\ epoch[RouterLog] + epoch[StatsLog] < MaxRotations /\ exists[f]
    /\ epoch' = [epoch EXCEPT ![f] = @ + 1]
    /\ content' = [content EXCEPT ![f] = <<>>]
    /\ \E stays \in BOOLEAN : exists' = [exists EXCEPT ![f] = stays]
    /\ writing' = writing \ {f}
    /\ UNCHANGED <<lines, tears, turn, offset, partial, told, base, clean,
                   backlog>>

----------------------------------------------------------------------------
(* The watch.                                                              *)

\* lastLines and prime: everything scanned counts as shown, whether or not it
\* is among the last events.
Prime(f) ==
    LET texts == Scanned(content[f])
    IN  /\ offset' = [offset EXCEPT ![f] = ScannedSize(texts)]
        /\ told' = [told EXCEPT ![f] = texts]
        /\ base' = [base EXCEPT ![f] = epoch[f]]
        /\ clean' = [clean EXCEPT ![f] = Split(content[f]).rest = <<>>]
        /\ UNCHANGED <<logs, partial>>

PrimeRouter ==
    /\ turn = "start"
    /\ Prime(RouterLog)
    /\ backlog' = Events(RouterLog, LastOf(Scanned(content[RouterLog]), Backlog))
    /\ turn' = "started"

\* Mutant: the two backlogs one after the other.
Merged_Unsorted(events) == LastOf(events, Backlog)

\* The two backlogs merged by time, equal ones as they come; the last events
\* of the result are shown.
Merged(events) ==
    LET order == InOrder(DOMAIN events, [i \in DOMAIN events |->
                     {j \in DOMAIN events :
                         \/ events[j].ts < events[i].ts
                         \/ events[j].ts = events[i].ts /\ j < i}])
    IN  LastOf([n \in DOMAIN order |-> events[order[n]]], Backlog)

PrimeStats ==
    /\ turn = "started"
    /\ Prime(StatsLog)
    /\ backlog' = Merged(backlog \o Events(StatsLog,
                            LastOf(Scanned(content[StatsLog]), Backlog)))
    /\ turn' = "wait"

Tick ==
    /\ turn = "wait"
    /\ turn' = "stat-router"
    /\ UNCHANGED <<logs, offset, partial, told, base, clean, backlog>>

\* Mutant: only a file that is gone is a rotation.
Shrunk_Never(f) == exists[f] /\ content[f] = <<>> /\ offset[f] = 0

\* The file is shorter than what was read of it.
Shrunk(f) == exists[f] /\ Len(content[f]) < offset[f]

\* The first half of readNew, up to the open: a log shorter than the offset
\* starts over; one that is missing or has nothing new is left alone.
Stat(f, read, next) ==
    LET at == IF Shrunk(f) THEN 0 ELSE offset[f]
    IN  /\ offset' = [offset EXCEPT ![f] = at]
        /\ partial' = [partial EXCEPT ![f] = IF Shrunk(f) THEN <<>> ELSE @]
        /\ turn' = IF exists[f] /\ Len(content[f]) # at THEN read ELSE next
        /\ UNCHANGED <<logs, told, base, clean, backlog>>

\* What one read takes: up to the end of the file, or MaxRead bytes.
Chunk(f) ==
    SubSeq(content[f], offset[f] + 1,
           Min({offset[f] + MaxRead, Len(content[f])}))

\* Mutant: the unfinished rest of the last read is forgotten.
Joined_Forgets(f) == Split(Chunk(f))

\* The texts that are complete now, and the rest that waits for its newline.
Joined(f) == Split(partial[f] \o Chunk(f))

Advanced(f) == offset[f] + Len(Chunk(f))

\* The second half: open, seek, read on, and split.  What is read from the
\* start of a file that is another one than before is the file's first text.
Read(f, next) ==
    LET anew == offset[f] = 0 /\ ~SameFile(f)
    IN  /\ IF exists[f]
           THEN /\ offset' = [offset EXCEPT ![f] = Advanced(f)]
                /\ partial' = [partial EXCEPT ![f] = Joined(f).rest]
                /\ told' = [told EXCEPT ![f] =
                              (IF anew THEN <<>> ELSE @) \o Joined(f).texts]
                /\ base' = [base EXCEPT ![f] = IF anew THEN epoch[f] ELSE @]
                /\ clean' = [clean EXCEPT ![f] = @ \/ anew]
           ELSE UNCHANGED <<offset, partial, told, base, clean>>
        /\ turn' = next
        /\ UNCHANGED <<logs, backlog>>

StatRouter == turn = "stat-router" /\ Stat(RouterLog, "read-router", "stat-stats")
ReadRouter == turn = "read-router" /\ Read(RouterLog, "stat-stats")
StatStats == turn = "stat-stats" /\ Stat(StatsLog, "read-stats", "wait")
ReadStats == turn = "read-stats" /\ Read(StatsLog, "wait")

\* ^C, looked at between two rounds.
Stop ==
    /\ turn = "wait"
    /\ turn' = "stopped"
    /\ UNCHANGED <<logs, offset, partial, told, base, clean, backlog>>

Loop == Tick \/ StatRouter \/ ReadRouter \/ StatStats \/ ReadStats

Next ==
    \/ \E f \in Files : BeginWrite(f) \/ EndWrite(f) \/ TearWrite(f) \/ Rotate(f)
    \/ PrimeRouter \/ PrimeStats \/ Loop \/ Stop

Spec == Init /\ [][Next]_vars

\* The ticker fires and the goroutine runs; nothing forces anyone to write, to
\* finish a write or to stop the watch.
FairSpec == Spec /\ WF_vars(Loop)

----------------------------------------------------------------------------
Started == turn \notin {"start", "started"}

\* While the log is only appended to, a follower that did not start in the
\* middle of a line has handed over exactly the complete lines of what it has
\* read, each once and in order, and holds back the unfinished rest, wherever
\* the reads cut the file (readNew: offset, partial).
InStep ==
    \A f \in Files :
        Started /\ clean[f] /\ SameFile(f) =>
            LET seen == Split(SubSeq(content[f], 1, offset[f]))
            IN  /\ offset[f] <= Len(content[f])
                /\ told[f] = seen.texts
                /\ partial[f] = seen.rest

\* The backlog of the two files is made of their latest events and in order of
\* time, although each file is cut to its last lines before the merge, unless
\* one of those lines is not an event (backlogEvents).
BacklogIsLatest ==
    [][turn = "started" /\ turn' = "wait" =>
        LET all == UNION {ToSet(Events(f, told'[f])) : f \in Files}
            plain == \A f \in Files : Rendered(f, told'[f]) = told'[f]
        IN  plain =>
              /\ ToSet(backlog') \subseteq all
              /\ Len(backlog') = Min({Backlog, Cardinality(all)})
              /\ \A i, j \in DOMAIN backlog' :
                    i < j => backlog'[i].ts < backlog'[j].ts
              /\ \A e \in ToSet(backlog'), d \in all \ ToSet(backlog') :
                    d.ts < e.ts]_vars

\* Every complete line of a log is shown in the end, however much was appended
\* since (the 300 ms ticker), and a file that has become shorter than what was
\* read of it is noticed (readNew: rotated or truncated), unless the file is
\* replaced, removed or grows back first, or the watch stopped.
Follows ==
    \A f \in Files :
        /\ \A k \in 1..MaxLines :
              (/\ Started /\ clean[f] /\ SameFile(f)
               /\ Len(Split(content[f]).texts) >= k)
                  ~> (Len(told[f]) >= k \/ ~SameFile(f) \/ turn = "stopped")
        /\ (Started /\ exists[f] /\ Len(content[f]) < offset[f])
              ~> (Len(content[f]) >= offset[f] \/ ~exists[f] \/ turn = "stopped")
=============================================================================
