----------------------------- MODULE LogSelect ------------------------------
(***************************************************************************)
(* LogCompressor (compress/compressors/logcompress.go): which lines of a   *)
(* log are kept, and what stands in the place of the others.  A selection  *)
(* is a set of line numbers.                                               *)
(***************************************************************************)
EXTENDS ToolText

CONSTANTS
    MaxErrors, MaxWarnings, MaxStackTraces, StackTraceMaxLines,
    MaxTotalLines,      \* LogConfig
    FloorLines          \* floorSelection's keep

ASSUME LogAssumption ==
    /\ MaxErrors \in Nat /\ MaxWarnings \in Nat /\ MaxStackTraces \in Nat
    /\ StackTraceMaxLines \in Nat /\ MaxTotalLines \in Nat
    /\ FloorLines \in Nat \ {0}

\* In hundredths.
BaseScore == [error |-> 100, fail |-> 100, warn |-> 50, info |-> 10,
              debug |-> 5, trace |-> 2, unknown |-> 10]

Plain == [level |-> "unknown", stack |-> "no", cont |-> FALSE,
          summary |-> FALSE, key |-> ""]

Score(c, stack) ==
    LET score == BaseScore[c.level] + (IF stack THEN 30 ELSE 0)
                                    + (IF c.summary THEN 40 ELSE 0)
    IN  IF score > 100 THEN 100 ELSE score

Judged(c, indented) ==
    LET stack == c.stack = "yes" \/ (c.stack = "indented" /\ indented)
    IN  [level |-> c.level, stack |-> stack, cont |-> c.cont,
         summary |-> c.summary, key |-> c.key, score |-> Score(c, stack)]

\* classifyLine, before extendStacks.
Meta(line) ==
    Judged(IF HasWord(line) THEN ClassOf(line) ELSE Plain, IsIndented(line))

\* extendStacks: frame-like lines stay in the block of the trace above them.
Extended(meta) ==
    [i \in DOMAIN meta |->
        [meta[i] EXCEPT !.stack =
            \E j \in 1..i : /\ meta[j].stack
                            /\ \A k \in (j + 1)..i : meta[k].stack \/ meta[k].cont]]

\* Among the n first of S by score, earlier lines first among equals.
Top(meta, S, n) ==
    LET before(i, j) == \/ meta[i].score > meta[j].score
                        \/ meta[i].score = meta[j].score /\ i < j
    IN  {i \in S : Cardinality({j \in S : before(j, i)}) < n}

OfLevel(meta, level) == {i \in DOMAIN meta : meta[i].level = level}

\* Mutant: the scores alone decide, and a late failure goes.
FirstLastTop_Top(meta, S) == Top(meta, S, MaxErrors)

\* selectFirstLastTop
FirstLastTop(meta, S) ==
    IF S = {} \/ MaxErrors = 0 THEN {}
    ELSE LET ends == {Min(S), Max(S)}
         IN  ends \cup Top(meta, S \ ends, MaxErrors - Cardinality(ends))

\* selectWarnings: the first of each normalised text.
Warnings(meta) ==
    LET firsts == {i \in OfLevel(meta, "warn") :
                      \A j \in OfLevel(meta, "warn") :
                          j < i => meta[j].key # meta[i].key}
    IN  {i \in firsts : Cardinality({j \in firsts : j < i}) < MaxWarnings}

\* selectStacks: the heads of the first blocks.
Stacks(meta) ==
    LET starts == {i \in DOMAIN meta :
                      meta[i].stack /\ (i = 1 \/ ~meta[i - 1].stack)}
        upTo(i) == {s \in starts : s <= i}
    IN  {i \in DOMAIN meta :
            /\ meta[i].stack
            /\ Cardinality(upTo(i)) <= MaxStackTraces
            /\ StackTraceMaxLines = 0 \/ i < Max(upTo(i)) + StackTraceMaxLines}

Summaries(meta) == {i \in DOMAIN meta : meta[i].summary}

Signals(meta) ==
    UNION {FirstLastTop(meta, OfLevel(meta, "error")),
           FirstLastTop(meta, OfLevel(meta, "fail")),
           Warnings(meta), Stacks(meta), Summaries(meta)}

\* Mutant: context is added to context.
WithNeighbors_Cascade(meta, S) ==
    {i \in DOMAIN meta : \E j \in S : i \in (j - 2)..(j + 2)}

\* addNeighbors
WithNeighbors(meta, S) ==
    {i \in DOMAIN meta : \E j \in S : j \in {i - 1, i, i + 1}}

\* enforceCap
Capped(meta, S) ==
    IF MaxTotalLines = 0 \/ Cardinality(S) <= MaxTotalLines THEN S
    ELSE Top(meta, S, MaxTotalLines)

\* floorSelection
Floored(meta, S) ==
    IF S # {} THEN S
    ELSE {i \in DOMAIN meta : i <= FloorLines \/ i > Len(meta) - FloorLines}

MetaOf(text) ==
    LET lines == Lines(text)
    IN  Extended([i \in DOMAIN lines |-> Meta(lines[i])])

Selection(meta) ==
    Floored(meta, Capped(meta, WithNeighbors(meta, Signals(meta))))

\* Mutant: the gap is not counted anew.
Flushed_Sums(acc) ==
    IF acc.gap = 0 THEN acc
    ELSE [acc EXCEPT !.out = Append(@, <<Marker(acc.gap)>>)]

\* flushGap
Flushed(acc) ==
    IF acc.gap = 0 THEN acc
    ELSE [out |-> Append(acc.out, <<Marker(acc.gap)>>), gap |-> 0]

\* The kept lines in order, each run of dropped ones replaced by its count.
Emitted(lines, kept) ==
    LET step(acc, i) ==
            IF i \in kept
            THEN [Flushed(acc) EXCEPT !.out = Append(@, lines[i])]
            ELSE [acc EXCEPT !.gap = @ + 1]
    IN  Join(Flushed(FoldLeft(step, [out |-> <<>>, gap |-> 0],
                              [i \in DOMAIN lines |-> i])).out)

\* Never expand.
Shorter(out, text) == IF Chars(out) >= Chars(text) THEN text ELSE out

LogCompress(text) ==
    Shorter(Emitted(Lines(text), Selection(MetaOf(text))), text)
=============================================================================
