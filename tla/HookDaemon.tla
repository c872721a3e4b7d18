----------------------------- MODULE HookDaemon -----------------------------
(***************************************************************************)
(* A tool's output on its way through the hook: the text is found in the   *)
(* tool response (server/toolresponse.go), goes through the pipeline, and  *)
(* comes back in its place, with a retrieval hint if something was lost    *)
(* (server/hook.go).  The hook reaches the daemon by POST /hook or as the  *)
(* command `whittle hook`, which asks /v1/compress (cmd/whittle/hook.go).  *)
(***************************************************************************)
EXTENDS Pipeline

CONSTANTS
    Calls,          \* the tool calls a behaviour may be about
    MinLength,      \* outputs below this length are left alone
    HasStore,       \* the daemon could open its retrieval store
    AliasDigits,    \* the digits of the alias Put may answer with
    NotText         \* a field that holds something other than a string


VARIABLES
    call,           \* the PostToolUse event and what is known of its text
    final,          \* the replacement text and the alias it names, 0 for none
    stored,         \* what the alias of this call stands for
    log,            \* the events written to stats.jsonl
    reply           \* the response Claude Code is told to use instead

hookVars == <<call, final, stored, log, reply>>
vars == <<pipelineVars, hookVars>>

NoReply == [shape |-> "none", fields |-> <<>>]
NoFinal == [text |-> <<>>, digits |-> 0]

\* Where a text is looked for, in this order.  A bare string is "itself".
Fields == <<"itself", "stdout", "output", "result", "file.content">>

\* ExtractToolText: the fields that hold a text; the first one is taken.
Carriers(response) ==
    {i \in DOMAIN Fields : /\ Fields[i] \in DOMAIN response.fields
                           /\ response.fields[Fields[i]] \notin {NotText, <<>>}}
Carrier(response) == Fields[Min(Carriers(response))]

\* Its rebuild, or the legacy field's, which has no shape.
Rebuilt(response, text) ==
    IF Carriers(response) = {}
    THEN [shape |-> "string", fields |-> [itself |-> text]]
    ELSE [response EXCEPT !.fields[Carrier(response)] = text]

\* ExtractHookText
HookText(c) ==
    IF Carriers(c.response) = {} THEN c.legacy
    ELSE c.response.fields[Carrier(c.response)]

ASSUME HookAssumption ==
    /\ MinLength \in Nat /\ HasStore \in BOOLEAN /\ AliasDigits \subseteq Nat \ {0}
    /\ \A c \in Calls :
          /\ c.response = [shape |-> c.response.shape, fields |-> c.response.fields]
          /\ c.response.fields = [f \in DOMAIN c.response.fields |-> c.response.fields[f]]
          /\ IsGiven(HookText(c)) /\ OneWord(Lines(HookText(c)))
          /\ IsArray(c.table)

Lossy(strategy) ==
    \E i \in DOMAIN strategy :
        strategy[i] \in {"llmlingua", "log_compressor", "md_structured"}

Hinted(text, digits) == text \o <<Newline, Hint(digits)>>

\* Mutant: a hint that passed the probe is not measured again.
Replacement_Probed(text, output, digits, hint) ==
    IF hint THEN [text |-> Hinted(output, digits), digits |-> digits]
    ELSE [text |-> output, digits |-> 0]

\* finalizeReplacement after the probe: with the hint, or without it.
Replacement(text, output, digits, hint) ==
    IF hint /\ Smaller(Hinted(output, digits), text)
    THEN [text |-> Hinted(output, digits), digits |-> digits]
    ELSE [text |-> output, digits |-> 0]

----------------------------------------------------------------------------
Init ==
    /\ call \in Calls
    /\ in = [text |-> <<>>, nature |-> call.nature, klass |-> call.klass,
             table |-> call.table]
    /\ at = "idle"
    /\ detected = "unknown" /\ cur = <<>> /\ done = <<>>
    /\ sent = NoText /\ answer = NoText /\ outcome = NoOutcome
    /\ final = NoFinal /\ stored = NoText /\ log = <<>> /\ reply = NoReply

\* No answer: Claude Code goes on with the original.
Leave ==
    /\ at' = "over"
    /\ UNCHANGED <<in, detected, cur, done, sent, answer, outcome, hookVars>>

\* The event is read and its text found.
Receive ==
    /\ at = "idle"
    /\ call.event = "PostToolUse" /\ Chars(HookText(call)) >= MinLength
    /\ in' = [in EXCEPT !.text = HookText(call)]
    /\ cur' = in'.text
    /\ at' = "gate"
    /\ UNCHANGED <<detected, done, sent, answer, outcome, hookVars>>

Decline ==
    /\ at = "idle"
    /\ call.event # "PostToolUse" \/ Chars(HookText(call)) < MinLength
    /\ Leave

Compress == PipelineNext /\ UNCHANGED hookVars

Skipped ==
    /\ at = "out" /\ outcome.action = "skipped"
    /\ Leave

\* hookHandler: the hint is probed with eight digits before Put spends an
\* alias.  What neither hint nor output can shrink was the guard's to refuse.
Finalize ==
    /\ at = "out" /\ outcome.action = "compressed" /\ call.path = "http"
    /\ LET hint == /\ HasStore /\ Lossy(done)
                   /\ Smaller(Hinted(outcome.output, 8), in.text)
       IN  \E digits \in AliasDigits :
              /\ stored' = IF hint THEN in.text ELSE stored
              /\ final' = Replacement(in.text, outcome.output, digits, hint)
    /\ at' = "final"
    /\ UNCHANGED <<in, detected, cur, done, sent, answer, outcome, call, log, reply>>

\* compressHandler answers `whittle hook`, which takes the output as it is.
Fetch ==
    /\ at = "out" /\ outcome.action = "compressed" /\ call.path = "command"
    /\ final' = [text |-> outcome.output, digits |-> 0]
    /\ at' = "final"
    /\ UNCHANGED <<in, detected, cur, done, sent, answer, outcome, call, stored,
                   log, reply>>

\* logEvent, logStat; what cannot be opened or written is passed over.
Record ==
    /\ at = "final"
    /\ \/ log' = Append(log, [strategy |-> done, digits |-> final.digits,
                              in |-> Tokens(in.text), out |-> Tokens(final.text)])
       \/ log' = log
    /\ at' = "recorded"
    /\ UNCHANGED <<in, detected, cur, done, sent, answer, outcome, call, final,
                   stored, reply>>

\* HookReply, emitReplacement
Reply ==
    /\ at = "recorded"
    /\ reply' = Rebuilt(call.response, final.text)
    /\ at' = "over"
    /\ UNCHANGED <<in, detected, cur, done, sent, answer, outcome, call, final,
                   stored, log>>

\* The daemon or the command dies, or Claude Code waits no longer.
Die == at # "over" /\ Leave

Next ==
    \/ Receive \/ Decline \/ Compress \/ Skipped \/ Finalize \/ Fetch
    \/ Record \/ Reply \/ Die

Spec == Init /\ [][Next]_vars

----------------------------------------------------------------------------
\* Properties

\* Whatever the chain did to the text, and with or without the hint, what
\* leaves the pipeline compressed and what is put in the place of the original
\* are smaller than it on both axes, and what is skipped is the original
\* itself (pipeline.go:195-218, hook.go:128-158); the alias that is told stands
\* for it.
NeverLonger ==
    /\ outcome.action = "compressed" => Smaller(outcome.output, in.text)
    /\ outcome.action = "skipped" => outcome.output = in.text
    /\ at \in {"final", "recorded"} => Smaller(final.text, in.text)
    /\ final.digits # 0 => stored = in.text

\* The log compressor has just run; the log it was given.
LogReduced == at = "chain" /\ done = <<"ansi_strip", "log_compressor">>
LogLines == Lines(ANSIStrip(in.text))
LogMeta == Extended([i \in DOMAIN LogLines |-> Meta(LogLines[i])])
KeptLine(i) == HasWord(LogLines[i]) /\ Contains(cur, TheWord(LogLines[i]))

\* No line of a log disappears silently: reading the result from the top,
\* every line is the next one of the log or says how many were left out there
\* (the drop is never silent, logcompress.go:116-118).
LossIsMarked ==
    LogReduced =>
        LET lines == LogLines
            read(n, l) ==
                IF l # <<>> /\ l[1].t = "marker" THEN n + l[1].n
                ELSE IF n < Len(lines) /\ lines[n + 1] = l THEN n + 1
                ELSE Len(lines) + 1
        IN  FoldLeft(read, 0, Lines(cur)) = Len(lines)

\* While a log has no more lines of the highest score than the total cap, its
\* first and last error and its first and last failure are kept, and all of
\* them if they are within their own cap, whatever else competes for the room
\* (selectFirstLastTop against enforceCap).
FailuresKept ==
    LogReduced =>
        LET meta == LogMeta
            loud == {i \in DOMAIN meta : meta[i].score = 100}
        IN  MaxErrors > 0 /\ Cardinality(loud) <= MaxTotalLines =>
               \A level \in {"error", "fail"} :
                  LET S == {i \in loud : meta[i].level = level}
                  IN  \A i \in S :
                         \/ Cardinality(S) <= MaxErrors
                         \/ \A j \in S : i <= j
                         \/ \A j \in S : i >= j
                         => KeptLine(i)

\* Noise does not come through: once something was dropped, a line is kept
\* only for itself or for its neighbour, one line away, and no more lines than
\* the cap allows (addNeighbors does not cascade; floorSelection).  A limit of
\* zero turns a kind of signal, or the cap, off.
ContextOnly ==
    LogReduced /\ (\E i \in DOMAIN cur : cur[i].t = "marker") =>
        LET meta == LogMeta
            signals == {i \in DOMAIN meta :
                           \/ MaxErrors > 0 /\ meta[i].level \in {"error", "fail"}
                           \/ MaxWarnings > 0 /\ meta[i].level = "warn"
                           \/ MaxStackTraces > 0 /\ meta[i].stack
                           \/ meta[i].summary}
            kept == {i \in DOMAIN meta : KeptLine(i)}
        IN  IF signals = {} THEN Cardinality(kept) <= 2 * FloorLines
            ELSE /\ MaxTotalLines > 0 => Cardinality(kept) <= MaxTotalLines
                 /\ \A i \in kept : {i - 1, i, i + 1} \cap signals # {}

\* No row, key or value of a JSON table is lost or changed by any rendering:
\* the decoder rebuilds the array, absent and null cells and dotted keys told
\* apart (columnarModel's contract, jsoncrusher.go:113-131; GUARANTEES.md:9-10).
TableComesBack ==
    done # <<>> /\ Last(done) = "json_crusher" =>
        \A i \in DOMAIN cur :
            cur[i].t = "envelope" =>
                LET m == Columns(in.table)
                IN  Reconstruct(IF cur[i].n = 1 THEN RenderJSON(m) ELSE RenderCSV(m))
                        = in.table

\* A document as the gate judges it, without colors and line numbers, and as
\* it is segmented, its blank runs collapsed.
Original(text) == StripLineNumbers(StripANSI(text))
ReadText(text) == StripLineNumbers(ANSIStrip(text))

\* The lines that have a word, and whether collapsing a run of blank lines took
\* none of them its indentation (ansi.go:15, 44).
Worded(lines) == Only(lines, {l \in Range(lines) : HasWord(l)})
LinesKept(text) == Worded(Lines(ReadText(text))) = Worded(Lines(Original(text)))

\* The words of its code and structure, as the gate judges it.
VerbatimWords(text) ==
    LET lines == Lines(Original(text))
        tags == Tags(lines)
    IN  {x \in Range(text) :
            IsWord(x) /\ \E i \in DOMAIN lines :
                            IsVerbatim(tags[i]) /\ x \in Range(lines[i])}

\* What the gate took for code or structure in a document never reaches the
\* model, although the lines are judged anew after blank runs are collapsed and
\* the numbers stripped (router.go:471-474; mdstructured.go:22-25), unless that
\* collapse moves an indented line to the left margin: the two judge the same
\* lines no longer, and indented code may be taken for prose.  And no text that
\* is told to be code falls through to prose (pipeline.go:123-125).
CodeStaysAway ==
    sent # NoText =>
        /\ detected = "doc_read" /\ LinesKept(in.text) =>
              \A i \in DOMAIN sent :
                 IsWord(sent[i]) => sent[i] \notin VerbatimWords(in.text)
        /\ detected = "prose" => in.klass # "code_structured"

\* The lines that have one of these words, and the line a word is of.
CodeLines(lines, words) ==
    Only(lines, {l \in Range(lines) : HasWord(l) /\ TheWord(l) \in words})
LineOf(x, lines) == Min({k \in DOMAIN lines : x \in Range(lines[k])})

\* The verbatim blocks have just been put back.
Unmasking == done # <<>> /\ Last(done) = "md_structured"

\* Verbatim lines come back untouched, each on a line of its own, in their
\* order, whatever the model answered, but for spaces after the last one at
\* the end of the document and for a line that lost its indentation before,
CodeComesBack ==
    Unmasking /\ LinesKept(in.text) =>
        \E n \in 0..Len(cur) :
            /\ IsBlank(SubSeq(cur, n + 1, Len(cur)))
            /\ CodeLines(Lines(SubSeq(cur, 1, n)), VerbatimWords(in.text))
                  = CodeLines(Lines(Original(in.text)), VerbatimWords(in.text))

\* and, if it only left something out, in their place among the prose that is
\* left (restoreBlocks).
InPlace ==
    Unmasking /\ IsSubsequence(answer, sent) =>
        LET original == Lines(Original(in.text))
        IN  \A i, j \in DOMAIN cur :
               i < j /\ IsWord(cur[i]) /\ IsWord(cur[j]) =>
                   LineOf(cur[i], original) < LineOf(cur[j], original)

BlocksComeBack == CodeComesBack /\ InPlace

\* What Claude Code is told to use has the shape of the response and differs
\* in the one field the text came from; it is what came out of the pipeline, or
\* that and one hint if something was lost and the original is retrievable
\* under it; it is smaller on both axes, hint included; and the log has one
\* event at most, with the numbers of this very text: a log that cannot be
\* opened or written is passed over (hook.go:111-119, 128-158,
\* toolresponse.go:6-13).
ReplyHonest ==
    reply # NoReply =>
        \E f \in DOMAIN reply.fields, digits \in AliasDigits \cup {0} :
            LET shown == reply.fields[f]
                event == [strategy |-> done, digits |-> digits,
                          in |-> Tokens(in.text), out |-> Tokens(shown)]
            IN  /\ \/ f = "itself" /\ reply.shape = "string" /\ call.legacy = in.text
                   \/ /\ reply = [call.response EXCEPT !.fields[f] = shown]
                      /\ call.response.fields[f] = in.text
                /\ Smaller(shown, in.text)
                /\ log \in {<<>>, <<event>>}
                /\ IF digits = 0 THEN shown = outcome.output
                   ELSE /\ shown = Hinted(outcome.output, digits)
                        /\ stored = in.text /\ Lossy(done)
=============================================================================
