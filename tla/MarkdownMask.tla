---------------------------- MODULE MarkdownMask ----------------------------
(***************************************************************************)
(* Documents read with line numbers: which lines are verbatim and which    *)
(* are prose (compress/mdblocks.go), whether the prose may go to the model *)
(* (detectLineNumbered of compress/router.go), and how the verbatim blocks *)
(* are taken out before and put back after                                 *)
(* (compress/compressors/mdstructured.go).                                 *)
(***************************************************************************)
EXTENDS ToolText, FiniteSetsExt

IsUnderline(line) ==
    HasWord(line) /\ ClassOf(line).md = "underline" /\ ~IsIndented(line)

\* isClosingFence
Closes(line, open) ==
    /\ HasWord(line) /\ ~IsIndented(line)
    /\ ClassOf(line).md = "fence"
    /\ LET f == ClassOf(line).fence
       IN  f.bare /\ f.ch = open.ch /\ f.len >= open.len

\* A line that is not blank, outside a fence and not part of a title; what
\* is not recognised as prose is verbatim.
WordTag(c, indented, underlined) ==
    FirstOf(<< <<c.md = "fence" /\ ~indented, "fence">>,
               <<c.md = "shebang", "shebang">>,
               <<c.md = "heading", "heading">>,
               <<c.title /\ underlined, "title">>,
               <<indented, "indented">>,
               <<TRUE, c.md>> >>)

TagOf(lines, i) ==
    IF ~HasWord(lines[i]) THEN "structure"
    ELSE WordTag(ClassOf(lines[i]), IsIndented(lines[i]),
                 i < Len(lines) /\ IsUnderline(lines[i + 1]))

\* SegmentMarkdown, line by line; `open` is the fence the line is in.
NextTag(acc, lines, i) ==
    IF acc.open # NoFence THEN "fenced"
    ELSE IF i > 1 /\ acc.tags[i - 1] = "title" THEN "underlined"
    ELSE IF IsBlank(lines[i]) THEN "blank"
    ELSE TagOf(lines, i)

Tagged(acc, line, tag) ==
    [tags |-> Append(acc.tags, tag),
     open |-> IF tag = "fence" THEN ClassOf(line).fence
              ELSE IF tag = "fenced" /\ ~Closes(line, acc.open)
              THEN acc.open ELSE NoFence]

Tags(lines) ==
    FoldLeft(LAMBDA acc, i : Tagged(acc, lines[i], NextTag(acc, lines, i)),
             [tags |-> <<>>, open |-> NoFence], [i \in DOMAIN lines |-> i]).tags

IsVerbatim(tag) == tag \notin {"blank", "prose"}

\* isMarkdownDoc.  That the prose is mostly letters holds by its kind.
IsMarkdownDoc(lines, tags) ==
    LET tagged(S) == {i \in DOMAIN lines : tags[i] \in S}
        prose == tagged({"prose"})
        total == DOMAIN lines \ tagged({"blank", "fenced", "underlined"})
    IN  /\ tagged({"shebang"}) = {}
        /\ Cardinality(tagged({"straggler"})) <= Max({2, Cardinality(total) \div 20})
        /\ Cardinality(tagged({"heading", "title"})) >= 2
        /\ Quantify(prose, LAMBDA i : ClassOf(lines[i]).sentence) >= 2
        /\ MapThenSumSet(LAMBDA i : Chars(lines[i]), prose) >= 200

\* detectLineNumbered: "doc_read", "code" or what the others say.
LineNumbered(text, otherwise) ==
    LET lines == SelectSeq(Lines(text), LAMBDA l : ~IsBlank(l))
        numbered == Quantify(DOMAIN lines, LAMBDA i : IsNumbered(lines[i]))
    IN  IF Len(lines) < 3 \/ ~IsNumbered(lines[1])
               \/ 10 * numbered < 7 * Len(lines)
        THEN otherwise
        ELSE LET read == Lines(StripLineNumbers(text))
             IN  IF IsMarkdownDoc(read, Tags(read)) THEN "doc_read" ELSE "code"

----------------------------------------------------------------------------
\* The last lines of the verbatim runs.
BlockEnds(tags) ==
    {i \in DOMAIN tags : /\ IsVerbatim(tags[i])
                         /\ i = Len(tags) \/ ~IsVerbatim(tags[i + 1])}

\* The first line of the run that ends at e.
BlockStart(tags, e) ==
    Min({b \in 1..e : \A i \in b..e : IsVerbatim(tags[i])})

\* The text of each verbatim block, in order.
BlocksOf(lines, tags) ==
    LET ends == Ascending(BlockEnds(tags))
    IN  [k \in DOMAIN ends |->
            Join(SubSeq(lines, BlockStart(tags, ends[k]), ends[k]))]
Blocks(text) == BlocksOf(Lines(text), Tags(Lines(text)))

\* Mutant: the sentinel is put in front of the block's last line.
MaskedLines_Before(lines, tags) ==
    LET shown == Ascending({i \in DOMAIN lines :
                               ~IsVerbatim(tags[i]) \/ i \in BlockEnds(tags)})
    IN  [k \in DOMAIN shown |->
            IF IsVerbatim(tags[shown[k]]) THEN <<Sentinel>> \o lines[shown[k]]
            ELSE lines[shown[k]]]

\* What the model gets: one sentinel per block.
MaskedLines(lines, tags) ==
    LET shown == Ascending({i \in DOMAIN lines :
                               ~IsVerbatim(tags[i]) \/ i \in BlockEnds(tags)})
    IN  [k \in DOMAIN shown |->
            IF IsVerbatim(tags[shown[k]]) THEN <<Sentinel>> ELSE lines[shown[k]]]
Masked(text) == Join(MaskedLines(Lines(text), Tags(Lines(text))))

Sentinels(text, upTo) == Quantify(1..upTo, LAMBDA i : text[i] = Sentinel)

CanRestore(answer, blocks) ==
    Sentinels(answer, Len(answer)) = Len(blocks)

\* Mutant: the block is not set off from what follows it.
Spliced_Glued(answer, blocks, i) ==
    IF answer[i] # Sentinel THEN <<answer[i]>>
    ELSE (IF i > 1 /\ answer[i - 1] # Newline THEN <<Newline>> ELSE <<>>)
            \o blocks[Sentinels(answer, i)]

\* The item i of the answer: the k-th sentinel is block k, on lines of its own.
Spliced(answer, blocks, i) ==
    IF answer[i] # Sentinel THEN <<answer[i]>>
    ELSE LET before == i > 1 /\ answer[i - 1] # Newline
             rest == SubSeq(answer, i + 1, Len(answer))
             after == ~IsBlank(rest) /\ rest[1] # Newline
         IN  (IF before THEN <<Newline>> ELSE <<>>)
                \o blocks[Sentinels(answer, i)]
                \o (IF after THEN <<Newline>> ELSE <<>>)

\* restoreBlocks
Restored(answer, blocks) ==
    FlattenSeq([i \in DOMAIN answer |-> Spliced(answer, blocks, i)])
=============================================================================
