---------------------------- MODULE MCHookDaemon ----------------------------
(* Logs, documents and other outputs for HookDaemon.  Sizes are those of     *)
(* ordinary lines; two info lines less make just room for a hint of eight    *)
(* digits.                                                                   *)
EXTENDS HookDaemon

CONSTANT
    Surrogates      \* strings may hold a lone surrogate

Base == [level |-> "unknown", stack |-> "no", cont |-> FALSE, summary |-> FALSE,
         key |-> "", md |-> "structure", fence |-> NoFence, title |-> FALSE,
         sentence |-> FALSE, chars |-> 69, tokens |-> 24]
Fence(ch, len, bare) ==
    [Base EXCEPT !.md = "fence", !.chars = len, !.tokens = 1,
                 !.fence = [ch |-> ch, len |-> len, bare |-> bare]]

MCClass ==
    [info |-> [Base EXCEPT !.level = "info"],
     debug |-> [Base EXCEPT !.level = "debug"],
     letters |-> [Base EXCEPT !.chars = 30, !.tokens = 4],
     error |-> [Base EXCEPT !.level = "error"],
     fail |-> [Base EXCEPT !.level = "fail"],
     old |-> [Base EXCEPT !.level = "warn", !.key = "old"],
     slow |-> [Base EXCEPT !.level = "warn", !.key = "slow"],
     panic |-> [Base EXCEPT !.level = "error", !.stack = "yes"],
     goroutine |-> [Base EXCEPT !.stack = "yes"],
     frame |-> [Base EXCEPT !.stack = "indented"],
     call |-> [Base EXCEPT !.cont = TRUE],
     passed |-> [Base EXCEPT !.summary = TRUE],
     row |-> Base,
     essay |-> [Base EXCEPT !.md = "prose", !.sentence = TRUE, !.chars = 120000,
                            !.tokens = 30000],
     bulk |-> [Base EXCEPT !.chars = 300000, !.tokens = 75000],
     prose |-> [Base EXCEPT !.md = "prose", !.sentence = TRUE, !.chars = 110,
                            !.tokens = 28],
     title |-> [Base EXCEPT !.md = "prose", !.title = TRUE, !.chars = 20,
                            !.tokens = 5],
     heading |-> [Base EXCEPT !.md = "heading", !.title = TRUE, !.chars = 20,
                              !.tokens = 5],
     underline |-> [Base EXCEPT !.md = "underline", !.chars = 20, !.tokens = 5],
     item |-> [Base EXCEPT !.chars = 30, !.tokens = 8],
     pair |-> [Base EXCEPT !.md = "straggler", !.chars = 30, !.tokens = 8],
     shebang |-> [Base EXCEPT !.md = "shebang", !.chars = 12, !.tokens = 4],
     ticks |-> Fence("tick", 3, TRUE),
     go |-> Fence("tick", 3, FALSE),
     four |-> Fence("tick", 4, TRUE),
     tildes |-> Fence("tilde", 3, TRUE)]
MCKinds == DOMAIN MCClass

\* The text of the kinds, a line each: "" is blank, "mask" a sentinel.
Text(kinds, before) ==
    Join([i \in DOMAIN kinds |->
             before[i] \o (IF kinds[i] = "" THEN <<>>
                           ELSE IF kinds[i] = "mask" THEN <<Sentinel>>
                           ELSE <<Word(i, kinds[i])>>)])

Output(text, nature, klass) ==
    [text |-> text, nature |-> nature, klass |-> klass, table |-> <<>>]

\* Frames are indented, some lines are colored.
Log(kinds) ==
    Output(Text(kinds, [i \in DOMAIN kinds |->
                           IF kinds[i] = "frame" THEN <<Indent>>
                           ELSE IF kinds[i] = "fail" THEN <<Escape>> ELSE <<>>]),
           "log", "code_structured")

Logs ==
    {Log(k) : k \in [1..4 -> {"info", "error", "fail", "old", "frame", "passed"}]
                \cup [1..4 -> {"debug", "panic", "frame", "call"}]
                \cup [1..5 -> {"panic", "frame", "call"}]
                \cup [1..6 -> {"info", "error", "fail"}]
                \cup [1..5 -> {"info", "old", "slow"}]
                \cup [1..7 -> {"info", "error"}]
                \cup {<<"error", "info", "letters", "info", "error">>,
                      <<"info", "", "", "frame", "info", "info", "error", "info">>,
                      <<"goroutine", "", "frame", "info", "info", "info", "info">>}}

\* A document read with its line numbers, but for the lines in `bare`, and
\* which lines of it are code or structure.
Doc(kinds, indented, bare, code) ==
    [code |-> code]
        @@ Output(Text(kinds, [i \in DOMAIN kinds |->
                                  (IF i \in bare THEN <<>> ELSE <<Number>>)
                                      \o (IF i \in indented THEN <<Indent>> ELSE <<>>)]),
                  "prose", "code_structured")

Docs ==
    {Doc(<<"heading", "prose", "heading", "prose">>, {}, {}, {1, 3}),
     Doc(<<"heading", "prose", "ticks", "prose", "ticks", "heading", "prose">>,
         {}, {}, {1, 3, 4, 5, 6}),
     Doc(<<"heading", "prose", "heading", "prose", "ticks", "prose">>,
         {}, {}, {1, 3, 5, 6}),
     Doc(<<"heading", "prose", "heading", "four", "prose", "ticks", "prose", "four",
           "prose">>, {}, {}, 3..8 \cup {1}),
     Doc(<<"heading", "prose", "heading", "go", "prose", "tildes", "go", "prose",
           "ticks", "prose">>, {}, {}, 3..9 \cup {1}),
     Doc(<<"title", "underline", "prose", "", "heading", "underline", "prose">>,
         {}, {}, {1, 2, 5, 6}),
     Doc(<<"heading", "prose", "heading", "prose", "prose", "prose">>, {4, 5}, {},
         {1, 3, 4, 5}),
     Doc(<<"heading", "prose", "item", "pair", "", "item", "heading", "prose">>,
         {}, {}, {1, 3, 4, 6, 7}),
     Doc(<<"heading", "prose", "pair", "pair", "heading", "pair", "prose">>,
         {}, {}, 1..7),
     Doc(<<"shebang", "heading", "heading", "prose", "prose">>, {}, {}, 1..5),
     Doc(<<"heading", "prose", "heading", "prose", "mask">>, {}, {}, {1, 3}),
     Doc(<<"heading", "essay", "heading", "prose">>, {}, {}, {1, 3}),
     Doc(<<"heading", "prose", "", "", "heading", "prose">>, {}, {3, 4}, {1, 5}),
     Doc(<<"heading", "prose", "heading", "prose", "ticks", "prose", "ticks", "">>, {8}, {},
         {1, 3, 5, 6, 7}),
     Doc(<<"heading", "prose", "prose", "heading", "prose">>, {}, {1, 2}, {1, 4}),
     Doc(<<"heading", "prose", "heading", "prose", "", "", "prose">>,
         {7}, {5, 6, 7}, {1, 3, 7}),
     Doc(<<"heading", "prose", "heading", "prose", "", "", "", "ticks", "", "", "prose",
           "ticks", "prose">>, {}, {5, 6, 7, 9, 10}, {1, 3, 8, 11, 12})}

Flat(kinds) == Text(kinds, [i \in DOMAIN kinds |-> <<>>])
Colored(kinds) == Text(kinds, [i \in DOMAIN kinds |-> <<Escape>>])
Rows == [i \in 1..4 |-> "row"]

Others ==
    {Output(Flat(<<"prose", "prose", "prose", "prose">>), "prose", klass) : klass \in {"prose", "code_structured"}}
    \cup {Output(Colored(<<"prose", "", "", "prose", "prose">>), "prose", "prose"),
          Output(Flat(<<"essay">>), "prose", "prose"),
          Output(Flat(<<"bulk">>), "log", "code_structured"),
          Output(Colored(Rows), "tabular", "code_structured"),
          Output(Colored(<<"info", "info", "info", "error">>), "terminal",
                 "code_structured"),
          Output(Flat(Rows), "code", "code_structured"),
          Output(Flat(Rows), "search", "code_structured")}

\* Tables: keys with and without a dot, objects of one inner key or two, and
\* strings that look like something else.
a == <<"a">>
ab == <<"a", "b">>
d == <<"d">>
MCKeys == <<a, ab, <<"b">>, d, <<"e">> >>
MCTokenType == [null |-> "null", true |-> "bool"] @@ ("1" :> "int") @@ ("1.5" :> "float")
MCHasCR(s) == s = "cr"
MCDecoded(s) == IF s = "lone surrogate" THEN "replacement character" ELSE s
MCReadBack(s) == IF s = "cr" THEN "lf" ELSE s

One == <<"plain", "1">>
Strings == {"1", "null", "", "cr"} \cup (IF Surrogates THEN {"lone surrogate"} ELSE {})
Quoted == {<<"quoted", s>> : s \in Strings}
Inner1(v) == <<"object", <<"b">> :> v>>
Inner2(v, w) == <<"object", (<<"b">> :> v) @@ (d :> w)>>

\* The objects over these keys with these values, some keys left out.
Objects(keys, values) ==
    {<<"object", f>> : f \in UNION {[S -> values] : S \in SUBSET keys}}

Tables ==
    [1..2 -> Objects({a, ab}, {Null, One, Inner1(One), Inner1(Null)})]
    \cup [1..2 -> Objects({a, d}, Quoted)]
    \cup [1..2 -> Objects({a, d}, {<<"quoted", "1">>, One, Null})]
    \cup [1..2 -> Objects({a}, {One, <<"plain", "1.5">>, <<"plain", "true">>})]
    \cup [1..3 -> Objects({a, d}, {One, Inner2(One, Null)})]
    \cup [1..1 -> Objects({a, ab}, {One, Inner1(One)})]
    \cup {<<<<"object", (a :> v) @@ (d :> w)>>, <<"object", (a :> w) @@ (d :> One)>> >> :
             v, w \in {<<"array", "x">>, <<"twice", {}>>, Inner2(One, One),
                       <<"object", NoKeys>>,
                       <<"object", [k \in {<<"b">>, d, <<"e">>} |-> One]>>}}
    \cup {<<>>, <<One>>, <<<<"object", NoKeys>> >>, <<<<"twice", {}>> >>}

Json(table) ==
    [Output(Flat(Rows), "json", "code_structured") EXCEPT !.table = table]

Call(path, event, response, legacy, output) ==
    [path |-> path, event |-> event, response |-> response, legacy |-> legacy,
     nature |-> output.nature, klass |-> output.klass, table |-> output.table]

Bash(path, output) ==
    Call(path, "PostToolUse",
         [shape |-> "object", fields |-> [stdout |-> output.text, stderr |-> NotText]],
         <<>>, output)

\* One log in every shape of response, next to a text that must stay.
Sample == Log(<<"error", "info", "info", "info", "info">>)
Other == Flat(<<"row", "row", "row", "row">>)
Shapes ==
    {[shape |-> "string", fields |-> [itself |-> text]] : text \in {<<>>, Sample.text}}
    \cup {[shape |-> "object", fields |-> fs] :
             fs \in [{"output", "result", "file.content", "numLines"} ->
                        {NotText, <<>>, Sample.text}]
                    \cup [{"stdout", "result"} -> {NotText, <<>>, Sample.text}]
                    \cup {[stdout |-> Sample.text, output |-> Other],
                          [numLines |-> NotText]}}
    \cup {[shape |-> "other", fields |-> [f \in {} |-> <<>>]]}

MCCalls ==
    {Bash("http", output) : output \in Logs \cup Docs \cup Others}
    \cup {Bash("http", Json(table)) : table \in Tables}
    \cup {Bash("command", output) : output \in Docs \cup Others \cup {Sample}}
    \cup {Call("http", "PostToolUse", shape, legacy, Sample) :
             shape \in Shapes, legacy \in {<<>>, Sample.text}}
    \cup {Call(path, "PreToolUse", [shape |-> "object", fields |-> [stdout |-> Sample.text]],
               <<>>, Sample) : path \in {"http", "command"}}

\* In the documents it lets pass, the gate tells what is code or structure to a
\* reader of them.
ASSUME CodeIsKnown ==
    \A doc \in Docs :
        Detected(doc) = "doc_read" => {x.n : x \in VerbatimWords(doc.text)} = doc.code
=============================================================================
