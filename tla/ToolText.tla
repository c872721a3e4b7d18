------------------------------ MODULE ToolText ------------------------------
(***************************************************************************)
(* Tool output as the compressors see it: a text is a sequence of items,   *)
(* and a line what stands between two newlines.  A word stands for all the *)
(* visible characters of one original line and carries that line's number; *)
(* its kind says how the regular expressions of compress/ judge such a     *)
(* line.  The other items are what the compressors add or take away.       *)
(***************************************************************************)
EXTENDS Integers, Sequences, SequencesExt, FiniteSets, Filters

CONSTANTS
    Kinds,      \* kinds of lines
    Class       \* Kinds -> what is matched in a line of the kind

\* level, stack, cont, summary: logcompress.go; key: a warning normalised;
\* md, fence, title, sentence: mdblocks.go; chars, tokens: its cost.
Levels == {"error", "fail", "warn", "info", "debug", "trace", "unknown"}
NoFence == [ch |-> "none", len |-> 0, bare |-> FALSE]
Fences == [ch : {"none", "tick", "tilde"}, len : Nat, bare : BOOLEAN]
Classes ==
    [level : Levels, stack : {"no", "indented", "yes"}, cont : BOOLEAN,
     summary : BOOLEAN, key : STRING, md : {"fence", "shebang", "heading", "underline",
                         "structure", "straggler", "prose"},
     fence : Fences, title : BOOLEAN, sentence : BOOLEAN,
     chars : Nat \ {0}, tokens : Nat \ {0}]

ASSUME TextAssumption == Class \in [Kinds -> Classes]

Item(t, n) == [t |-> t, n |-> n, kind |-> "-"]
Newline == Item("newline", 0)
Indent == Item("indent", 0)         \* leading spaces
Escape == Item("escape", 0)         \* an ANSI escape sequence
Number == Item("number", 0)         \* a line number and its tab
Sentinel == Item("sentinel", 0)     \* MDBLKX
Marker(n) == Item("marker", n)      \* ... [n lines omitted]
Hint(digits) == Item("hint", digits)    \* the retrieval hint
Envelope(form) == Item("envelope", form)    \* a table: JSON rows 1, CSV 2
Word(i, k) == [t |-> "word", n |-> i, kind |-> k]

\* What tools write: a word for each line that has visible characters.
Raw == {Newline, Indent, Escape, Number, Sentinel} \cup [t : {"word"}, n : Nat, kind : Kinds]

IsWord(x) == x.t = "word"
IsSpace(x) == x \in {Newline, Indent}

----------------------------------------------------------------------------
\* len(s); a line carries at most a color, the numbers have one digit.
ItemChars(x) ==
    CASE x.t = "word" -> Class[x.kind].chars
      [] x.t = "newline" -> 1
      [] x.t = "indent" -> 4
      [] x.t = "escape" -> 5
      [] x.t = "number" -> 2
      [] x.t = "sentinel" -> 6
      [] x.t = "marker" -> 21
      [] x.t = "hint" -> 108 + x.n
      [] x.t = "envelope" -> 150 + x.n

Chars(text) == FoldLeft(LAMBDA n, x : n + ItemChars(x), 0, text)

\* EstimateTokens: letters by eight, digits by three, symbols by four, and a
\* run of newlines is one token.
ItemTokens(x) ==
    CASE x.t = "word" -> Class[x.kind].tokens
      [] x.t \in {"newline", "indent", "number", "sentinel"} -> 1
      [] x.t = "escape" -> 3
      [] x.t = "marker" -> 6
      [] x.t = "hint" -> 24 + (x.n + 2) \div 3
      [] x.t = "envelope" -> 50

Tokens(text) ==
    FoldLeft(LAMBDA n, i : IF text[i] = Newline /\ i > 1 /\ text[i - 1] = Newline
                           THEN n ELSE n + ItemTokens(text[i]),
             0, [i \in DOMAIN text |-> i])

\* strings.Split and strings.Join at the newlines.
Lines(text) ==
    FoldLeft(LAMBDA ls, x : IF x = Newline THEN Append(ls, <<>>)
                            ELSE [ls EXCEPT ![Len(ls)] = Append(@, x)],
             << <<>> >>, text)

Join(lines) ==
    FoldLeft(LAMBDA s, i : s \o (IF i = 1 THEN <<>> ELSE <<Newline>>) \o lines[i],
             <<>>, [i \in DOMAIN lines |-> i])

IsBlank(line) == \A i \in DOMAIN line : IsSpace(line[i])

IsIndented(line) == line # <<>> /\ line[1] = Indent /\ ~IsBlank(line)

\* How the line is judged: by its word.
HasWord(line) == \E i \in DOMAIN line : IsWord(line[i])
TheWord(line) == line[Min({i \in DOMAIN line : IsWord(line[i])})]
ClassOf(line) == Class[TheWord(line).kind]

\* No two words of a text are the same line's.
WordsDiffer(text) ==
    \A i, j \in DOMAIN text : IsWord(text[i]) /\ text[i] = text[j] => i = j

\* No line has two words.
OneWord(lines) ==
    \A line \in Range(lines) : \A i, j \in DOMAIN line :
        IsWord(line[i]) /\ IsWord(line[j]) => i = j

\* A text as a tool writes it.
IsGiven(text) == text \in Seq(Raw) /\ WordsDiffer(text)

\* The text without the items at D.
Without(text, D) ==
    LET kept == Ascending(DOMAIN text \ D)
    IN  [k \in DOMAIN kept |-> text[kept[k]]]

\* Smaller on both axes: what the pipeline and the hook accept.
Smaller(a, b) == Chars(a) < Chars(b) /\ Tokens(a) < Tokens(b)

\* The value of the first of the <<condition, value>> pairs that holds.
FirstOf(pairs) ==
    pairs[Min({i \in DOMAIN pairs : pairs[i][1]})][2]

----------------------------------------------------------------------------
(* compress/compressors/ansi.go, compress/router.go                        *)

StripANSI(text) == Only(text, Range(text) \ {Escape})

\* blankRunRe: three newlines or more, and all spaces after them, the
\* indentation of the next line included.
Collapsed(run) ==
    IF Quantify(DOMAIN run, LAMBDA i : run[i] = Newline) >= 3
    THEN <<Newline, Newline>> ELSE run

CollapseBlankRuns(text) ==
    LET step(acc, x) ==
            IF x = Newline \/ (x = Indent /\ acc.run # <<>>)
            THEN [acc EXCEPT !.run = Append(@, x)]
            ELSE [out |-> Append(acc.out \o Collapsed(acc.run), x), run |-> <<>>]
        end == FoldLeft(step, [out |-> <<>>, run |-> <<>>], text)
    IN  end.out \o Collapsed(end.run)

ANSIStrip(text) == CollapseBlankRuns(StripANSI(text))

\* The N\t of each line that carries one; N may be indented.
StripLineNumbers(text) == Only(text, Range(text) \ {Number})
IsNumbered(line) == line # <<>> /\ line[1] = Number
=============================================================================
