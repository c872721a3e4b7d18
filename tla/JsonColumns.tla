---------------------------- MODULE JsonColumns ----------------------------
(***************************************************************************)
(* JSONCrusher's columnar reshape (compress/compressors/jsoncrusher.go):   *)
(* an array of objects becomes a table with one column per key.  Objects   *)
(* in a column become columns of their own, a column that never changes is *)
(* stored once, and the table is rendered as JSON rows or as CSV.  A       *)
(* decoder, which exists only as a contract and in the tests, rebuilds the *)
(* array.                                                                  *)
(*                                                                         *)
(* A key is the sequence of its parts between dots.  A value is a pair:    *)
(* <<"plain", token>>, <<"quoted", characters>>, <<"object", a function    *)
(* from keys to values>>, <<"twice", the same with a key that occurs       *)
(* twice>>, or <<"array", anything>>.                                      *)
(***************************************************************************)
EXTENDS Integers, Sequences, SequencesExt, FiniteSets, Functions, Filters

CONSTANTS
    Keys,           \* the keys in alphabetical order
    MaxInnerKeys,   \* flattenMaxInnerKeys
    TokenType,      \* plain tokens -> "int", "float", "bool", "null"
    HasCR(_),       \* characters with a carriage return
    Decoded(_),     \* the characters json.Unmarshal makes of a string
    ReadBack(_)     \* the characters a CSV reader makes of what was written

ASSUME ColumnsAssumption ==
    /\ Keys \in Seq(Seq(STRING)) /\ IsInjective(Keys) /\ <<>> \notin Range(Keys)
    /\ MaxInnerKeys \in Nat
    /\ \A t \in DOMAIN TokenType : /\ TokenType[t] \in {"int", "float", "bool", "null"}
                                  /\ ReadBack(t) = t

\* A value as the parser gives it.  A CSV reader keeps what has no carriage
\* return.
IsValue(v) ==
    /\ v = <<v[1], v[2]>>
    /\ v[1] = "plain" => v[2] \in DOMAIN TokenType
    /\ v[1] = "quoted" => HasCR(Decoded(v[2])) \/ ReadBack(Decoded(v[2])) = Decoded(v[2])
    /\ v[1] = "object" => /\ DOMAIN v[2] \subseteq Range(Keys)
                          /\ v[2] = [k \in DOMAIN v[2] |-> v[2][k]]

\* The values of objects, and an array with all that becomes a cell of it.
Members(v) == IF v[1] = "object" THEN Range(v[2]) ELSE {}
Cells(items) ==
    LET outer == UNION {Members(v) : v \in Range(items)}
    IN  outer \cup UNION {Members(v) : v \in outer}
IsArray(items) ==
    items \in Seq(Range(items)) /\ \A v \in Range(items) \cup Cells(items) : IsValue(v)

Null == <<"plain", "null">>
Rank(k) == CHOOSE i \in DOMAIN Keys : Keys[i] = k

\* The encodings of the pipeline hold a table: its columns, the cells row by
\* row, the columns absent in each row, the inner keys of what was flattened,
\* and what is the same in every row.
Table(schema, rows, absent, nested, consts) ==
    [schema |-> schema, rows |-> rows, absent |-> absent, nested |-> nested,
     consts |-> consts]
NoKeys == [k \in {} |-> Null]

----------------------------------------------------------------------------
\* What buildColumnarModel accepts, its bound on the matrix aside.
IsTabular(items) ==
    /\ items # <<>>
    /\ \A i \in DOMAIN items : items[i][1] = "object"
    /\ \E i \in DOMAIN items : DOMAIN items[i][2] # {}

\* The union of the keys, the most frequent first; a null where one is absent.
Build(items) ==
    LET keys == UNION {DOMAIN items[i][2] : i \in DOMAIN items}
        freq(k) == Cardinality({i \in DOMAIN items : k \in DOMAIN items[i][2]})
        schema == InOrder(keys, [k \in keys |->
                      {j \in keys : \/ freq(j) > freq(k)
                                    \/ freq(j) = freq(k) /\ Rank(j) < Rank(k)}])
        has(i, c) == schema[c] \in DOMAIN items[i][2]
    IN  Table(schema,
              [i \in DOMAIN items |->
                  [c \in DOMAIN schema |->
                      IF has(i, c) THEN items[i][2][schema[c]] ELSE Null]],
              [i \in DOMAIN items |-> {c \in DOMAIN schema : ~has(i, c)}],
              NoKeys, NoKeys)

\* The cells of a column where it is present.
Present(m, c) == {m.rows[i][c] : i \in {r \in DOMAIN m.rows : c \notin m.absent[r]}}

\* uniformInnerKeys: objects of one shape, under a key without a dot.
IsUniform(m, c) ==
    /\ Len(m.schema[c]) = 1
    /\ Present(m, c) # {}
    /\ \A v \in Present(m, c) : v[1] = "object"
    /\ \A v, w \in Present(m, c) : DOMAIN v[2] = DOMAIN w[2]

Inner(m, c) ==
    LET keys == DOMAIN (CHOOSE v \in Present(m, c) : TRUE)[2]
    IN  InOrder(keys, [k \in keys |-> {j \in keys : Rank(j) < Rank(k)}])

\* None of the new names may be there already.
IsFlattened(m, c) ==
    /\ IsUniform(m, c)
    /\ Len(Inner(m, c)) \in 1..MaxInnerKeys
    /\ \A k \in Range(Inner(m, c)) : m.schema[c] \o k \notin Range(m.schema)

\* Where the columns of the flattened table come from: a column and one of its
\* inner keys, or a column that stays whole.
Whole == <<>>
Origins(m) ==
    FlattenSeq([c \in DOMAIN m.schema |->
        IF IsFlattened(m, c)
        THEN [n \in DOMAIN Inner(m, c) |-> <<c, Inner(m, c)[n]>>]
        ELSE << <<c, Whole>> >>])

\* flattenModel: each such column becomes one column per inner key, absent
\* where the object was.
Flatten(m) ==
    LET origins == Origins(m)
        flat == {c \in DOMAIN m.schema : IsFlattened(m, c)}
        name(o) == m.schema[o[1]] \o o[2]
        cell(i, o) == IF o[2] = Whole THEN m.rows[i][o[1]]
                      ELSE IF o[1] \in m.absent[i] THEN Null
                      ELSE m.rows[i][o[1]][2][o[2]]
    IN  Table([n \in DOMAIN origins |-> name(origins[n])],
              [i \in DOMAIN m.rows |->
                  [n \in DOMAIN origins |-> cell(i, origins[n])]],
              [i \in DOMAIN m.rows |->
                  {n \in DOMAIN origins : origins[n][1] \in m.absent[i]}],
              [p \in {m.schema[c] : c \in flat} |->
                  Range(Inner(m, CHOOSE c \in flat : m.schema[c] = p))],
              NoKeys)

IsConstant(m, c) ==
    /\ \A i \in DOMAIN m.rows : c \notin m.absent[i]
    /\ \A i \in DOMAIN m.rows : m.rows[i][c] = m.rows[1][c]

\* Mutant: the absent columns keep their old numbers.
Remapped_Not(kept, columns) == {c \in columns : c <= Len(kept)}

\* The numbers of columns among those that are kept.
Remapped(kept, columns) == {c \in DOMAIN kept : kept[c] \in columns}

\* factorConstants: of two rows or more, what is equal in all of them.
FactorConstants(m) ==
    LET consts == {c \in DOMAIN m.schema : IsConstant(m, c)}
        kept == Ascending(DOMAIN m.schema \ consts)
        only(s) == [c \in DOMAIN kept |-> s[kept[c]]]
    IN  IF Len(m.rows) < 2 THEN m
        ELSE Table(only(m.schema),
                   [i \in DOMAIN m.rows |-> only(m.rows[i])],
                   [i \in DOMAIN m.rows |-> Remapped(kept, m.absent[i])],
                   m.nested,
                   [k \in {m.schema[c] : c \in consts} |->
                       m.rows[1][CHOOSE c \in consts : m.schema[c] = k]])

Columns(items) == FactorConstants(Flatten(Build(items)))

----------------------------------------------------------------------------
\* jsonScalarType
ScalarType(v) ==
    IF v[1] = "plain" THEN TokenType[v[2]]
    ELSE IF v[1] = "quoted" THEN "string" ELSE "json"

\* A primitive type only if every present cell has it; strings that a CSV
\* reader would change make it "json".
ColumnType(m, c) ==
    LET types == {ScalarType(v) : v \in Present(m, c)}
    IN  IF /\ Cardinality(types) = 1 /\ types \cap {"null", "json"} = {}
           /\ \A v \in Present(m, c) : v[1] = "quoted" => ~HasCR(Decoded(v[2]))
        THEN CHOOSE t \in types : TRUE ELSE "json"

\* One column alone is not rendered as CSV.
HasCSV(m) == Len(m.schema) >= 2

\* A field is text: a string without its quotes, else the token as it is.
Field(m, i, c) ==
    IF c \in m.absent[i] THEN <<"plain", "">>
    ELSE IF ColumnType(m, c) = "string" THEN <<"plain", Decoded(m.rows[i][c][2])>>
    ELSE m.rows[i][c]

\* renderColumnarCSV, its fields as they are read again.
RenderCSV(m) ==
    [table |-> [m EXCEPT !.rows =
                   [i \in DOMAIN m.rows |->
                       [c \in DOMAIN m.schema |->
                           LET field == Field(m, i, c)
                           IN  IF field[1] = "plain"
                               THEN <<"plain", ReadBack(field[2])>> ELSE field]]],
     types |-> [c \in DOMAIN m.schema |-> ColumnType(m, c)]]

\* renderColumnarJSON
RenderJSON(m) == [table |-> m, types |-> [c \in DOMAIN m.schema |-> "json"]]

----------------------------------------------------------------------------
\* The decoder: fields get their quotes back, absent columns are skipped, the
\* constants are added to every row, and then exactly the recorded inner keys
\* of each parent are put together again.
Reconstruct(enc) ==
    LET m == enc.table
        cell(i, c) == IF enc.types[c] = "string"
                      THEN <<"quoted", m.rows[i][c][2]>> ELSE m.rows[i][c]
        columns(i) == {c \in DOMAIN m.schema : c \notin m.absent[i]}
        flat(i) == [k \in {m.schema[c] : c \in columns(i)} \cup DOMAIN m.consts |->
                       IF k \in DOMAIN m.consts THEN m.consts[k]
                       ELSE cell(i, CHOOSE c \in columns(i) : m.schema[c] = k)]
        inner(i, p) == {k \in m.nested[p] : p \o k \in DOMAIN flat(i)}
        parents(i) == {p \in DOMAIN m.nested : inner(i, p) # {}}
        moved(i) == UNION {{p \o k : k \in inner(i, p)} : p \in parents(i)}
        row(i) == [k \in (DOMAIN flat(i) \ moved(i)) \cup parents(i) |->
                      IF k \in parents(i)
                      THEN <<"object", [j \in inner(i, k) |-> flat(i)[k \o j]]>>
                      ELSE flat(i)[k]]
    IN  [i \in DOMAIN m.rows |-> <<"object", row(i)>>]
=============================================================================
