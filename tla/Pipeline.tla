------------------------------ MODULE Pipeline ------------------------------
(***************************************************************************)
(* Pipeline.Compress (compress/pipeline.go): a gate, the chain of layers   *)
(* of the detected type, guardrails.  Whatever fails, the original comes   *)
(* out.  One call is one goroutine; a step is a layer or an exchange with  *)
(* the model behind llmlingua.go.                                          *)
(***************************************************************************)
EXTENDS LogSelect, MarkdownMask, JsonColumns

CONSTANTS
    MinTokens, MaxChars, ProseMaxChars,     \* the gate's limits
    WithModel,          \* WHITTLE_MODEL_URL is set
    NoText              \* no text

ASSUME PipelineAssumption ==
    /\ MinTokens \in Nat /\ MaxChars \in Nat /\ ProseMaxChars \in Nat
    /\ WithModel \in BOOLEAN

VARIABLES
    in,         \* the call: text, nature, klass, table
    at,         \* where it is: see Stages
    detected,   \* its content type
    cur,        \* the text as the layers so far left it
    done,       \* the names of these layers
    sent,       \* what the model was sent (history)
    answer,     \* what it answered (history)
    outcome     \* what Compress returns

pipelineVars == <<in, at, detected, cur, done, sent, answer, outcome>>

Stages == {"idle", "gate", "chain", "model", "out", "final", "recorded", "over"}
Natures == {"json", "diff", "html", "search", "log", "tabular", "code",
            "terminal", "prose"}
Layers == {"ansi_strip", "log_compressor", "json_crusher", "linenum_strip",
           "llmlingua", "md_structured"}

NoOutcome == [action |-> "none", reason |-> "", output |-> <<>>]

\* Detect.  nature is the first other detector to claim the text; five of
\* them come before the one for line numbers.
Detected(i) ==
    IF i.nature \in {"json", "diff", "html", "search", "log"} THEN i.nature
    ELSE LineNumbered(StripANSI(i.text), i.nature)

\* ChainsWithModel
Chain(type) ==
    CASE type \in {"log", "terminal"} -> <<"ansi_strip", "log_compressor">>
      [] type = "json" -> <<"ansi_strip", "json_crusher">>
      [] type = "tabular" -> <<"ansi_strip">>
      [] type = "prose" /\ WithModel -> <<"ansi_strip", "llmlingua">>
      [] type = "doc_read" /\ WithModel ->
            <<"ansi_strip", "linenum_strip", "md_structured">>
      [] OTHER -> <<>>

\* Why Compress returns before the chain, or "".  klass is classify's.
Refusal(i, type) ==
    FirstOf(<< <<MaxChars > 0 /\ Chars(i.text) > MaxChars, "too_large">>,
               <<Tokens(i.text) < MinTokens, "too_short">>,
               <<type = "prose" /\ i.klass = "code_structured", "code_structured">>,
               <<type \in {"prose", "doc_read"} /\ ProseMaxChars > 0
                    /\ Chars(i.text) > ProseMaxChars, "too_large_prose">>,
               <<Chain(type) = <<>>, "no_compressor">>,
               <<TRUE, "">> >>)

Layer == Chain(detected)[Len(done) + 1]
AtLayer(names) ==
    at = "chain" /\ Len(done) < Len(Chain(detected)) /\ Layer \in names

\* The layer produced out; the next one may run.
Produced(out) ==
    /\ cur' = out
    /\ done' = Append(done, Layer)
    /\ at' = "chain"
    /\ UNCHANGED <<in, detected, outcome>>

\* Passthrough: the original and nothing else.
Skip(reason) ==
    /\ outcome' = [action |-> "skipped", reason |-> reason, output |-> in.text]
    /\ at' = "out"
    /\ UNCHANGED <<in, cur, done>>

----------------------------------------------------------------------------
Gate ==
    /\ at = "gate"
    /\ detected' = Detected(in)
    /\ LET refusal == Refusal(in, detected')
       IN  \/ refusal # "" /\ Skip(refusal)
           \/ refusal = "" /\ at' = "chain" /\ UNCHANGED <<in, cur, done, outcome>>
    /\ UNCHANGED <<sent, answer>>

\* A layer that computes its output by itself.
Transform ==
    /\ AtLayer({"ansi_strip", "log_compressor", "linenum_strip"})
    /\ Produced(CASE Layer = "ansi_strip" -> ANSIStrip(cur)
                  [] Layer = "log_compressor" -> LogCompress(cur)
                  [] Layer = "linenum_strip" -> StripLineNumbers(cur))
    /\ UNCHANGED <<sent, answer>>

\* What JSONCrusher chooses from, by an estimate of their tokens: the compact
\* text and, for an array of objects, the two renderings of its table.
Renderings(text, items) ==
    {Only(text, {x \in Range(text) : ~IsSpace(x)})}
        \cup (IF IsTabular(items) THEN {<<Envelope(1)>>} ELSE {})
        \cup (IF IsTabular(items) /\ HasCSV(Columns(items))
              THEN {<<Envelope(2)>>} ELSE {})

\* JSONCrusher: one of them if it is shorter, or else the text itself.
CrushJSON ==
    /\ AtLayer({"json_crusher"})
    /\ \E out \in Renderings(cur, in.table) \cup {cur} :
          /\ out = cur \/ Chars(out) < Chars(cur)
          /\ Produced(out)
    /\ UNCHANGED <<sent, answer>>

\* MarkdownStructured cannot mask a text that has a sentinel of its own.
Collide ==
    /\ AtLayer({"md_structured"})
    /\ Contains(cur, Sentinel)
    /\ Skip("md_sentinel_collision")
    /\ UNCHANGED <<detected, sent, answer>>

\* LLMLinguaAdapter.Compress, the request.
AskModel ==
    /\ AtLayer({"llmlingua", "md_structured"})
    /\ Layer = "md_structured" => ~Contains(cur, Sentinel)
    /\ sent' = IF Layer = "llmlingua" THEN cur ELSE Masked(cur)
    /\ at' = "model"
    /\ UNCHANGED <<in, detected, cur, done, answer, outcome>>

\* An extractive model drops items, here two at most or all; a worse one puts
\* a sentinel where there was none and loses an item, or writes more than it
\* was given.
Answers(text) ==
    LET places == (DOMAIN text) \X (DOMAIN text)
    IN  {Without(text, {p[1], p[2]}) : p \in places}
            \cup {Without([text EXCEPT ![p[1]] = Sentinel], {p[2]}) : p \in places}
            \cup {<<>>, text, text \o text}

\* Its answer.  A text without verbatim blocks was sent as it is.
ModelAnswers ==
    /\ at = "model"
    /\ \E a \in Answers(sent),
          blocks \in {IF Layer = "md_structured" THEN Blocks(cur) ELSE <<>>} :
          /\ answer' = a
          /\ \/ blocks = <<>> /\ Produced(a)
             \/ /\ blocks # <<>> /\ CanRestore(a, blocks)
                /\ Produced(Restored(a, blocks))
             \/ /\ blocks # <<>> /\ ~CanRestore(a, blocks)
                /\ Skip("md_structure_guard") /\ UNCHANGED detected
    /\ UNCHANGED sent

\* A timeout and a refusal are clean skips, all else is an error.
ModelFails ==
    /\ at = "model"
    /\ \E reason \in {"prose_budget", "skipped", "error"} : Skip(reason)
    /\ UNCHANGED <<detected, sent, answer>>

\* The recovered panic of any layer.
Panic ==
    /\ at \in {"gate", "chain", "model"}
    /\ Skip("error")
    /\ UNCHANGED <<detected, sent, answer>>

\* Mutant: the guardrail looks at the characters only.
Guard_CharsOnly ==
    /\ at = "chain" /\ done = Chain(detected)
    /\ \/ cur = <<>> /\ in.text # <<>> /\ Skip("empty_output")
       \/ cur # <<>> /\ Chars(cur) >= Chars(in.text) /\ Skip("guardrail_expansion")
       \/ /\ cur # <<>> /\ Chars(cur) < Chars(in.text)
          /\ outcome' = [action |-> "compressed", reason |-> "", output |-> cur]
          /\ at' = "out"
          /\ UNCHANGED <<in, cur, done>>
    /\ UNCHANGED <<detected, sent, answer>>

\* The chain is through: the two guardrails.
Guard ==
    /\ at = "chain" /\ done = Chain(detected)
    /\ \/ cur = <<>> /\ in.text # <<>> /\ Skip("empty_output")
       \/ cur # <<>> /\ ~Smaller(cur, in.text) /\ Skip("guardrail_expansion")
       \/ /\ cur # <<>> /\ Smaller(cur, in.text)
          /\ outcome' = [action |-> "compressed", reason |-> "", output |-> cur]
          /\ at' = "out"
          /\ UNCHANGED <<in, cur, done>>
    /\ UNCHANGED <<detected, sent, answer>>

PipelineNext ==
    \/ Gate \/ Transform \/ CrushJSON \/ Collide \/ AskModel
    \/ ModelAnswers \/ ModelFails \/ Panic \/ Guard
=============================================================================
