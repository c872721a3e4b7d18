--------------------------- MODULE FollowerProofs ---------------------------
(***************************************************************************)
(* Proofs about Follower: the laws of splitting bytes into lines, that a   *)
(* follower stays in step with its log, and that the backlog is made of    *)
(* the latest events.                                                      *)
(***************************************************************************)
EXTENDS Follower, FoldTheorems

Bytes == Seq(Nat)
Split0 == [texts |-> << >>, rest |-> << >>]
SplitStep(acc, b) ==
    IF b = Newline
    THEN [texts |-> Append(acc.texts, acc.rest), rest |-> <<>>]
    ELSE [acc EXCEPT !.rest = Append(@, b)]
Splits == [texts : Seq(Bytes), rest : Bytes]
SplitF == [acc \in Splits |-> [b \in Nat |-> SplitStep(acc, b)]]

\* One byte more is one step more.
LEMMA SplitStays == Stays(SplitF, Splits, Nat) /\ Split0 \in Splits
<1>1. ASSUME NEW acc \in Splits, NEW b \in Nat PROVE SplitStep(acc, b) \in Splits
  <2>1. acc.texts \in Seq(Bytes) /\ acc.rest \in Bytes
    BY DEF Splits
  <2>2. Append(acc.texts, acc.rest) \in Seq(Bytes) /\ Append(acc.rest, b) \in Bytes
    BY <2>1, AppendProperties DEF Bytes
  <2>3. [acc EXCEPT !.rest = Append(@, b)] \in Splits
    BY <2>2 DEF Splits
  <2>4. << >> \in Bytes
    BY EmptySeq DEF Bytes
  <2>5. QED
    BY <2>2, <2>3, <2>4 DEF SplitStep, Splits
<1>2. Split0 \in Splits
  BY EmptySeq DEF Split0, Splits, Bytes
<1>3. QED
  BY <1>1, <1>2 DEF Stays, SplitF

\* Split (strings.Split in readNew) is the fold of SplitStep from the left:
\* the recursive function FoldLeft chooses is the one LeftFold is about.
LEMMA SplitIsFold ==
    ASSUME NEW s \in Bytes
    PROVE  Split(s) = LeftFold(SplitF, Split0, s)
<1> DEFINE D == DOMAIN s
           E(h) == [t \in SUBSET D |->
                       IF t = {} THEN Split0
                       ELSE SplitStep(h[t \ {Max(t)}], s[Max(t)])]
           it == CHOOSE h : h = E(h)
<1>1. Len(s) \in Nat /\ D = 1..Len(s) /\ \A i \in D : s[i] \in Nat
  BY LenProperties, ElementOfSeq DEF Bytes
<1>2. \A t \in SUBSET D : t # {} => Max(t) \in D
  BY <1>1, LastPosition
<1>3. PICK h \in [SUBSET D -> Splits] : Lefts(h, SplitF, Split0, s)
  BY SplitStays, LeftsExist DEF Bytes
<1>4. ASSUME NEW t \in SUBSET D
      PROVE  h[t] = IF t = {} THEN Split0
                    ELSE SplitStep(h[t \ {Max(t)}], s[Max(t)])
  <2>1. h[t] = IF t = {} THEN Split0 ELSE SplitF[h[t \ {Max(t)}]][s[Max(t)]]
    BY <1>3 DEF Lefts
  <2>2. t # {} => h[t \ {Max(t)}] \in Splits /\ s[Max(t)] \in Nat
    BY <1>1, <1>2
  <2>3. QED
    BY <2>1, <2>2 DEF SplitF
<1>5. h = E(h)
  BY <1>4
<1>6. it = E(it)
  <2> HIDE DEF E
  <2>1. QED
    BY <1>5
<1>7. Split(s) = it[D]
  BY DEF Split, FoldLeft, MapThenFoldSet, SplitStep, Split0
<1> HIDE DEF it
<1>8. \A t \in SUBSET D : it[t] = IF t = {} THEN Split0
                                 ELSE SplitStep(it[t \ {Max(t)}], s[Max(t)])
  BY <1>6
<1>9. it[D] = h[D]
  <2>1. it[{}] = h[{}]
    BY <1>4, <1>8
  <2>2. ASSUME NEW t \in SUBSET D, t # {}, it[t \ {Max(t)}] = h[t \ {Max(t)}]
        PROVE  it[t] = h[t]
    BY <1>4, <1>8, <2>2
  <2> HIDE DEF D
  <2>3. it[1..Len(s)] = h[1..Len(s)]
    BY <1>1, <2>1, <2>2, AgreeOnPositions
  <2>4. QED
    BY <1>1, <2>3
<1>10. LeftFold(SplitF, Split0, s) = h[D]
  BY <1>3, SplitStays, LeftFoldIs DEF Bytes
<1>11. QED
  BY <1>7, <1>9, <1>10

\* Splitting bytes gives texts and a rest, all of bytes.
LEMMA SplitType == ASSUME NEW s \in Bytes PROVE Split(s) \in Splits
BY SplitIsFold, SplitStays, LeftFoldType DEF Bytes

\* Of no bytes there is no text and no rest.
LEMMA SplitEmpty == Split(<< >>) = Split0
<1>1. << >> \in Bytes
  BY EmptySeq DEF Bytes
<1>2. QED
  BY <1>1, SplitIsFold, SplitStays, LeftFoldEmpty

\* One byte more is one step more of the split.
LEMMA SplitAppend ==
    ASSUME NEW s \in Bytes, NEW b \in Nat
    PROVE  Split(Append(s, b)) = SplitStep(Split(s), b)
<1>1. Append(s, b) \in Bytes
  BY AppendProperties DEF Bytes
<1>2. LeftFold(SplitF, Split0, Append(s, b)) = SplitF[LeftFold(SplitF, Split0, s)][b]
  BY SplitStays, LeftFoldAppend DEF Bytes
<1>3. QED
  BY <1>1, <1>2, SplitIsFold, SplitType DEF SplitF

\* Appending to the second of two sequences.
LEMMA ConcatAppend ==
    ASSUME NEW S, NEW a \in Seq(S), NEW t \in Seq(S), NEW x \in S
    PROVE  a \o Append(t, x) = Append(a \o t, x) /\ a \o t \in Seq(S)
<1>1. <<x>> \in Seq(S) /\ a \o t \in Seq(S)
  BY ConcatProperties
<1>2. Append(t, x) = t \o <<x>> /\ Append(a \o t, x) = (a \o t) \o <<x>>
  BY <1>1, AppendIsConcat
<1>3. (a \o t) \o <<x>> = a \o (t \o <<x>>)
  BY <1>1, ConcatAssociative
<1>4. QED
  BY <1>1, <1>2, <1>3

\* Splitting on: what comes after continues the unfinished rest.
SplitOn(a, b) ==
    LET s == Split(a.rest \o b)
    IN  [texts |-> a.texts \o s.texts, rest |-> s.rest]

\* One text more is at the end; a byte that is no newline joins the rest.
LEMMA StepCases ==
    ASSUME NEW acc \in Splits, NEW b \in Nat
    PROVE  /\ b = Newline =>
                 SplitStep(acc, b) = [texts |-> Append(acc.texts, acc.rest),
                                      rest |-> << >>]
           /\ b # Newline =>
                 SplitStep(acc, b) = [texts |-> acc.texts,
                                      rest |-> Append(acc.rest, b)]
<1> DEFINE r == [acc EXCEPT !.rest = Append(@, b)]
<1>1. acc.texts \in Seq(Bytes) /\ Append(acc.rest, b) \in Bytes
  BY AppendProperties DEF Bytes, Splits
<1>2. r \in Splits
  BY <1>1 DEF Splits
<1>3. r.texts = acc.texts /\ r.rest = Append(acc.rest, b)
  BY DEF Splits
<1> HIDE DEF r
<1>4. r = [texts |-> acc.texts, rest |-> Append(acc.rest, b)]
  BY <1>2, <1>3 DEF Splits
<1>5. QED
  BY <1>4 DEF SplitStep, r

\* An unfinished rest holds no newline.
LEMMA SplitRest ==
    ASSUME NEW a \in Bytes
    PROVE  Split(Split(a).rest) = [texts |-> << >>, rest |-> Split(a).rest]
<1> DEFINE Q == {t \in Bytes : Split(Split(t).rest)
                                  = [texts |-> << >>, rest |-> Split(t).rest]}
<1>1. << >> \in Q
  BY SplitEmpty, EmptySeq DEF Split0, Bytes
<1>2. ASSUME NEW t \in Q, NEW x \in Nat PROVE Append(t, x) \in Q
  <2> DEFINE r == Split(t).rest
  <2>1. /\ t \in Bytes /\ Append(t, x) \in Bytes
        /\ Split(t) \in Splits /\ r \in Bytes
    BY AppendProperties, SplitType DEF Bytes, Splits
  <2>2. Split(r) = [texts |-> << >>, rest |-> r]
    OBVIOUS
  <2>3. Split(Append(t, x)).rest = IF x = Newline THEN << >> ELSE Append(r, x)
    <3>1. Split(Append(t, x)) = SplitStep(Split(t), x)
      BY <2>1, SplitAppend
    <3> DEFINE acc == Split(t)
    <3> HIDE DEF acc
    <3>2. acc \in Splits /\ r = acc.rest
      BY <2>1 DEF acc
    <3>3. SplitStep(acc, x).rest = IF x = Newline THEN << >> ELSE Append(acc.rest, x)
      <4> DEFINE y == SplitStep(acc, x)
      <4> HIDE DEF y
      <4>1. /\ x = Newline => y = [texts |-> Append(acc.texts, acc.rest), rest |-> << >>]
            /\ x # Newline => y = [texts |-> acc.texts, rest |-> Append(acc.rest, x)]
        BY <3>2, StepCases DEF y
      <4>2. x = Newline => y.rest = << >>
        BY <4>1
      <4>3. x # Newline => y.rest = Append(acc.rest, x)
        BY <4>1
      <4>4. QED
        BY <4>2, <4>3 DEF y
    <3>4. QED
      BY <3>1, <3>2, <3>3 DEF acc
  <2> HIDE DEF r
  <2>4. Split(r) \in Splits
    BY <2>1, SplitType
  <2>5. x # Newline => Split(Append(r, x)) = [texts |-> << >>, rest |-> Append(r, x)]
    BY <2>1, <2>2, <2>4, SplitAppend, StepCases
  <2>6. Split(<< >>) = [texts |-> << >>, rest |-> << >>]
    BY SplitEmpty DEF Split0
  <2>7. QED
    BY <2>1, <2>3, <2>5, <2>6
<1>3. Q \in SUBSET Seq(Nat)
  BY DEF Bytes
<1> HIDE DEF Q
<1>4. a \in Q
  BY <1>1, <1>2, <1>3, SequencesAll DEF Bytes
<1>5. QED
  BY <1>4 DEF Q

\* What is split in two parts is split as a whole.
LEMMA SplitConcat ==
    ASSUME NEW a \in Bytes, NEW b \in Bytes
    PROVE  Split(a \o b) = SplitOn(Split(a), b)
<1> DEFINE Q == {t \in Bytes : Split(a \o t) = SplitOn(Split(a), t)}
           rest == Split(a).rest
           texts == Split(a).texts
<1>1. Split(a) = [texts |-> texts, rest |-> rest]
      /\ texts \in Seq(Bytes) /\ rest \in Bytes
  BY SplitType DEF Splits
<1> HIDE DEF rest, texts
<1>2. Q \in SUBSET Seq(Nat)
  BY DEF Bytes
<1>3. \A t \in Bytes : SplitOn(Split(a), t) = [texts |-> texts \o Split(rest \o t).texts,
                                              rest |-> Split(rest \o t).rest]
  BY <1>1 DEF SplitOn
<1>4. << >> \in Q
  <2>1. << >> \in Bytes
    BY EmptySeq DEF Bytes
  <2>2. a \o << >> = a /\ rest \o << >> = rest
    BY <1>1, ConcatEmptySeq DEF Bytes
  <2>3. Split(rest) = [texts |-> << >>, rest |-> rest]
    BY SplitRest DEF rest
  <2>4. texts \o << >> = texts
    BY <1>1, ConcatEmptySeq
  <2>5. Split(rest \o << >>).texts = << >> /\ Split(rest \o << >>).rest = rest
    BY <2>2, <2>3
  <2>6. SplitOn(Split(a), << >>) = [texts |-> texts, rest |-> rest]
    BY <1>3, <2>1, <2>4, <2>5
  <2>7. QED
    BY <1>1, <2>1, <2>2, <2>6
<1>5. ASSUME NEW t \in Q, NEW x \in Nat PROVE Append(t, x) \in Q
  <2>1. t \in Bytes /\ Append(t, x) \in Bytes
    BY AppendProperties DEF Bytes
  <2>2. a \o Append(t, x) = Append(a \o t, x)
        /\ rest \o Append(t, x) = Append(rest \o t, x)
        /\ a \o t \in Bytes /\ rest \o t \in Bytes
    <3>1. a \in Seq(Nat) /\ rest \in Seq(Nat) /\ t \in Seq(Nat)
      BY <1>1 DEF Bytes
    <3>2. a \o Append(t, x) = Append(a \o t, x) /\ a \o t \in Seq(Nat)
      BY <3>1, ConcatAppend
    <3>3. rest \o Append(t, x) = Append(rest \o t, x) /\ rest \o t \in Seq(Nat)
      BY <3>1, ConcatAppend
    <3>4. QED
      BY <3>2, <3>3 DEF Bytes
  <2>3. Split(a \o t) = [texts |-> texts \o Split(rest \o t).texts,
                         rest |-> Split(rest \o t).rest]
    BY <1>3, <2>1
  <2>4. Split(a \o Append(t, x)) = SplitStep(Split(a \o t), x)
        /\ Split(rest \o Append(t, x)) = SplitStep(Split(rest \o t), x)
    BY <2>2, SplitAppend
  <2> DEFINE u == Split(rest \o t)
             v == Split(rest \o Append(t, x))
  <2>5. u \in Splits /\ u.texts \in Seq(Bytes) /\ u.rest \in Bytes
    BY <2>2, SplitType DEF Splits
  <2>6. Split(a \o t) \in Splits
    BY <2>2, SplitType
  <2>7. Split(a \o t).texts = texts \o u.texts /\ Split(a \o t).rest = u.rest
    BY <2>3
  <2>8. v = SplitStep(u, x)
    BY <2>4
  <2> HIDE DEF u
  <2>9. SplitOn(Split(a), Append(t, x)) = [texts |-> texts \o v.texts, rest |-> v.rest]
    BY <1>3, <2>1
  <2> HIDE DEF v
  <2>10. CASE x = Newline
    <3>1. Split(a \o Append(t, x)) =
              [texts |-> Append(texts \o u.texts, u.rest), rest |-> << >>]
      BY <2>4, <2>6, <2>7, <2>10, StepCases
    <3>2. v = [texts |-> Append(u.texts, u.rest), rest |-> << >>]
      BY <2>5, <2>8, <2>10, StepCases
    <3>3. texts \o Append(u.texts, u.rest) = Append(texts \o u.texts, u.rest)
      BY <1>1, <2>5, ConcatAppend
    <3>4. QED
      BY <2>1, <2>9, <3>1, <3>2, <3>3
  <2>11. CASE x # Newline
    <3>1. Split(a \o Append(t, x)) =
              [texts |-> texts \o u.texts, rest |-> Append(u.rest, x)]
      BY <2>4, <2>6, <2>7, <2>11, StepCases
    <3>2. v = [texts |-> u.texts, rest |-> Append(u.rest, x)]
      BY <2>5, <2>8, <2>11, StepCases
    <3>3. QED
      BY <2>1, <2>9, <3>1, <3>2
  <2>12. QED
    BY <2>10, <2>11
<1> HIDE DEF Q
<1>6. b \in Q
  BY <1>2, <1>4, <1>5, SequencesAll DEF Bytes
<1>7. QED
  BY <1>6 DEF Q

\* The size of the lines, by the same way.
SizeF == [n \in Nat |-> [t \in Bytes |-> n + Len(t) + 1]]

\* Adding a line's size to a natural number gives a natural number.
LEMMA SizeStays == Stays(SizeF, Nat, Bytes) /\ 0 \in Nat
<1>1. \A t \in Bytes : Len(t) \in Nat
  BY LenProperties DEF Bytes
<1>2. QED
  BY <1>1 DEF Stays, SizeF

\* ScannedSize (the sum lastLines keeps) is the fold of SizeF from the left.
LEMMA SizeIsFold ==
    ASSUME NEW s \in Seq(Bytes)
    PROVE  ScannedSize(s) = LeftFold(SizeF, 0, s)
<1> DEFINE D == DOMAIN s
           E(h) == [t \in SUBSET D |->
                       IF t = {} THEN 0
                       ELSE h[t \ {Max(t)}] + Len(s[Max(t)]) + 1]
           it == CHOOSE h : h = E(h)
<1>1. Len(s) \in Nat /\ D = 1..Len(s) /\ \A i \in D : s[i] \in Bytes
  BY LenProperties, ElementOfSeq
<1>2. \A t \in SUBSET D : t # {} => Max(t) \in D
  BY <1>1, LastPosition
<1>3. PICK h \in [SUBSET D -> Nat] : Lefts(h, SizeF, 0, s)
  BY SizeStays, LeftsExist
<1>4. ASSUME NEW t \in SUBSET D
      PROVE  h[t] = IF t = {} THEN 0
                    ELSE h[t \ {Max(t)}] + Len(s[Max(t)]) + 1
  <2>1. h[t] = IF t = {} THEN 0 ELSE SizeF[h[t \ {Max(t)}]][s[Max(t)]]
    BY <1>3 DEF Lefts
  <2>2. t # {} => h[t \ {Max(t)}] \in Nat /\ s[Max(t)] \in Bytes
    BY <1>1, <1>2
  <2>3. QED
    BY <2>1, <2>2 DEF SizeF
<1>5. h = E(h)
  BY <1>4
<1>6. it = E(it)
  <2> HIDE DEF E
  <2>1. QED
    BY <1>5
<1>7. ScannedSize(s) = it[D]
  BY DEF ScannedSize, FoldLeft, MapThenFoldSet
<1> HIDE DEF it
<1>8. \A t \in SUBSET D : it[t] = IF t = {} THEN 0
                                 ELSE it[t \ {Max(t)}] + Len(s[Max(t)]) + 1
  BY <1>6
<1>9. it[D] = h[D]
  <2>1. it[{}] = h[{}]
    BY <1>4, <1>8
  <2>2. ASSUME NEW t \in SUBSET D, t # {}, it[t \ {Max(t)}] = h[t \ {Max(t)}]
        PROVE  it[t] = h[t]
    BY <1>4, <1>8, <2>2
  <2> HIDE DEF D
  <2>3. it[1..Len(s)] = h[1..Len(s)]
    BY <1>1, <2>1, <2>2, AgreeOnPositions
  <2>4. QED
    BY <1>1, <2>3
<1>10. LeftFold(SizeF, 0, s) = h[D]
  <2> DEFINE V == Nat
             zero == 0
  <2>1. Stays(SizeF, V, Bytes) /\ zero \in V /\ Lefts(h, SizeF, zero, s)
    BY <1>3, SizeStays
  <2> HIDE DEF D, V, zero
  <2>2. LeftFold(SizeF, zero, s) = h[DOMAIN s]
    BY <2>1, LeftFoldIs
  <2>3. QED
    BY <2>2 DEF D, zero
<1>11. QED
  BY <1>7, <1>9, <1>10

\* No lines have no size.
LEMMA SizeEmpty == ScannedSize(<< >>) = 0
<1>1. << >> \in Seq(Bytes)
  BY EmptySeq
<1>2. QED
  BY <1>1, SizeIsFold, SizeStays, LeftFoldEmpty

\* One line more adds its bytes and its newline.
LEMMA SizeAppend ==
    ASSUME NEW s \in Seq(Bytes), NEW t \in Bytes
    PROVE  ScannedSize(Append(s, t)) = ScannedSize(s) + Len(t) + 1
           /\ ScannedSize(s) \in Nat
<1>1. Append(s, t) \in Seq(Bytes)
  BY AppendProperties
<1>2. LeftFold(SizeF, 0, Append(s, t)) = SizeF[LeftFold(SizeF, 0, s)][t]
  BY SizeStays, LeftFoldAppend
<1>3. LeftFold(SizeF, 0, s) \in Nat
  BY SizeStays, LeftFoldType
<1>4. QED
  BY <1>1, <1>2, <1>3, SizeIsFold DEF SizeF

\* The lines with their newlines, and the rest, are all the bytes there are.
LEMMA SplitSize ==
    ASSUME NEW s \in Bytes
    PROVE  ScannedSize(Split(s).texts) + Len(Split(s).rest) = Len(s)
<1> DEFINE Q == {t \in Bytes :
                    ScannedSize(Split(t).texts) + Len(Split(t).rest) = Len(t)}
<1>1. << >> \in Q
  <2>1. << >> \in Bytes /\ Len(<< >>) = 0
    BY EmptySeq DEF Bytes
  <2>2. QED
    BY <2>1, SplitEmpty, SizeEmpty DEF Split0
<1>2. ASSUME NEW t \in Q, NEW x \in Nat PROVE Append(t, x) \in Q
  <2> DEFINE acc == Split(t)
             y == Split(Append(t, x))
  <2>1. t \in Bytes /\ Append(t, x) \in Bytes /\ Len(Append(t, x)) = Len(t) + 1
        /\ Len(t) \in Nat
    BY AppendProperties, LenProperties DEF Bytes
  <2>2. ScannedSize(acc.texts) + Len(acc.rest) = Len(t)
    OBVIOUS
  <2>3. acc \in Splits /\ y = SplitStep(acc, x)
    BY <2>1, SplitType, SplitAppend
  <2> HIDE DEF acc
  <2>4. acc.texts \in Seq(Bytes) /\ acc.rest \in Bytes /\ Len(acc.rest) \in Nat
        /\ Len(Append(acc.rest, x)) = Len(acc.rest) + 1
    BY <2>3, AppendProperties, LenProperties DEF Splits, Bytes
  <2>5. ScannedSize(acc.texts) \in Nat
        /\ ScannedSize(Append(acc.texts, acc.rest))
               = ScannedSize(acc.texts) + Len(acc.rest) + 1
    BY <2>4, SizeAppend
  <2>6. Len(<< >>) = 0
    BY EmptySeq
  <2> HIDE DEF y
  <2>7. CASE x = Newline
    <3>1. y.texts = Append(acc.texts, acc.rest) /\ y.rest = << >>
      BY <2>3, <2>7, StepCases
    <3>2. ScannedSize(y.texts) + Len(y.rest) = Len(t) + 1
      BY <2>1, <2>2, <2>4, <2>5, <2>6, <3>1
    <3>3. QED
      BY <2>1, <3>2 DEF y
  <2>8. CASE x # Newline
    <3>1. y.texts = acc.texts /\ y.rest = Append(acc.rest, x)
      BY <2>3, <2>8, StepCases
    <3>2. ScannedSize(y.texts) + Len(y.rest) = Len(t) + 1
      <4>1. ScannedSize(y.texts) = ScannedSize(acc.texts)
            /\ Len(y.rest) = Len(acc.rest) + 1
        BY <2>4, <3>1
      <4>2. QED
        BY <2>1, <2>2, <2>4, <2>5, <4>1
    <3>3. QED
      BY <2>1, <3>2 DEF y
  <2>9. QED
    BY <2>7, <2>8
<1>3. Q \in SUBSET Seq(Nat)
  BY DEF Bytes
<1> HIDE DEF Q
<1>4. s \in Q
  BY <1>1, <1>2, <1>3, SequencesAll DEF Bytes
<1>5. QED
  BY <1>4 DEF Q

\* The size of the lines scanned is a natural number.
LEMMA SizeType == ASSUME NEW s \in Seq(Bytes) PROVE ScannedSize(s) \in Nat
<1>1. LeftFold(SizeF, 0, s) \in Nat
  BY SizeStays, LeftFoldType
<1>2. QED
  BY <1>1, SizeIsFold

\* What Scanned makes of bytes are texts.
LEMMA ScannedType == ASSUME NEW s \in Bytes PROVE Scanned(s) \in Seq(Bytes)
<1> DEFINE u == Split(s)
<1>1. u.texts \in Seq(Bytes) /\ u.rest \in Bytes
  BY SplitType DEF Splits
<1>2. Append(u.texts, u.rest) \in Seq(Bytes)
  BY <1>1, AppendProperties
<1>3. QED
  BY <1>1, <1>2 DEF Scanned

\* What was read of a log does not change when the log grows.
LEMMA PrefixKept ==
    ASSUME NEW s \in Bytes, NEW x \in Nat, NEW o \in 0..Len(s)
    PROVE  SubSeq(Append(s, x), 1, o) = SubSeq(s, 1, o)
<1>1. Len(s) \in Nat
  BY LenProperties DEF Bytes
<1>2. CASE o = 0
  BY <1>2, SubSeqEmpty
<1>3. CASE o # 0
  <2>1. 1 \in 1..Len(s) /\ o \in 1..Len(s)
    BY <1>1, <1>3
  <2>2. <<x>> \in Seq(Nat) /\ Append(s, x) = s \o <<x>>
    BY AppendIsConcat DEF Bytes
  <2>3. SubSeq(s \o <<x>>, 1, o) = SubSeq(s, 1, o)
    BY <2>1, <2>2, SubSeqOfConcat1 DEF Bytes
  <2>4. QED
    BY <2>2, <2>3
<1>4. QED
  BY <1>2, <1>3

\* The smaller of two numbers.
LEMMA MinOfTwo ==
    ASSUME NEW a \in Nat, NEW b \in Nat
    PROVE  /\ a <= b => Min({a, b}) = a
           /\ b <= a => Min({a, b}) = b
<1>1. ASSUME NEW m \in {a, b}, \A y \in {a, b} : m <= y
      PROVE  Min({a, b}) = m
  <2>1. \A x \in {a, b} : (\A y \in {a, b} : x <= y) => x = m
    BY <1>1
  <2>2. QED
    BY <1>1, <2>1 DEF Min
<1>2. QED
  BY <1>1

\* A part of a log.
LEMMA PartType ==
    ASSUME NEW s \in Bytes, NEW o \in Nat, NEW m \in 0..Len(s)
    PROVE  SubSeq(s, o + 1, m) \in Bytes
<1>1. Len(s) \in Nat
  BY LenProperties DEF Bytes
<1>2. \A i \in (o + 1)..m : s[i] \in Nat
  BY <1>1, ElementOfSeq DEF Bytes
<1>3. o + 1 \in Int /\ m \in Int
  BY <1>1
<1>4. QED
  BY <1>2, <1>3, SubSeqProperties DEF Bytes

\* A read takes what comes next, whatever the log is by now.
LEMMA ChunkLaws ==
    ASSUME NEW f \in Files, content[f] \in Bytes, offset[f] \in Nat
    PROVE  /\ Chunk(f) \in Bytes
           /\ Len(Chunk(f)) \in Nat
           /\ offset[f] <= Len(content[f]) =>
                 /\ Advanced(f) \in 0..Len(content[f])
                 /\ SubSeq(content[f], 1, offset[f]) \o Chunk(f)
                        = SubSeq(content[f], 1, Advanced(f))
                 /\ SubSeq(content[f], 1, offset[f]) \in Bytes
<1> DEFINE s == content[f]
           o == offset[f]
           m == Min({o + MaxRead, Len(s)})
<1>1. Len(s) \in Nat /\ o \in Nat /\ MaxRead \in Nat /\ MaxRead > 0
  BY LenProperties, FollowerAssumption DEF Bytes
<1>2. m \in 0..Len(s) /\ (o <= Len(s) => o <= m)
  <2> DEFINE a == o + MaxRead
             b == Len(s)
  <2>1. a \in Nat /\ b \in Nat /\ o <= a
    BY <1>1
  <2> HIDE DEF a, b, o
  <2>2. /\ a <= b => Min({a, b}) = a
        /\ b <= a => Min({a, b}) = b
    BY <2>1, MinOfTwo
  <2>3. Min({a, b}) \in 0..b /\ (o <= b => o <= Min({a, b}))
    BY <2>1, <2>2
  <2>4. QED
    BY <2>3 DEF a, b, o
<1>3. Chunk(f) = SubSeq(s, o + 1, m)
  BY DEF Chunk
<1> HIDE DEF m, s, o
<1>4. Chunk(f) \in Bytes
  BY <1>1, <1>2, <1>3, PartType DEF s
<1>5. Len(Chunk(f)) \in Nat
  BY <1>4, LenProperties DEF Bytes
<1>6. ASSUME o <= Len(s)
      PROVE  /\ o + Len(Chunk(f)) = m
             /\ SubSeq(s, 1, o) \o Chunk(f) = SubSeq(s, 1, m)
             /\ SubSeq(s, 1, o) \in Bytes
  <2>1. \A i \in (o + 1)..m : s[i] \in Nat
    BY <1>1, <1>2, ElementOfSeq DEF s, Bytes
  <2>2. o + 1 \in Int /\ m \in Int
    BY <1>1, <1>2
  <2>3. Len(SubSeq(s, o + 1, m)) = IF o + 1 <= m THEN m - (o + 1) + 1 ELSE 0
    BY <2>1, <2>2, SubSeqProperties
  <2>4. o + Len(Chunk(f)) = m
    BY <1>1, <1>2, <1>3, <1>6, <2>3
  <2>5. SubSeq(s, 1, o) \o SubSeq(s, o + 1, m) = SubSeq(s, 1, m)
    <3>1. 1 \in 1..(Len(s) + 1) /\ o \in (1 - 1)..Len(s) /\ m \in o..Len(s)
      BY <1>1, <1>2, <1>6
    <3>2. s \in Seq(Nat)
      BY DEF s, Bytes
    <3>3. QED
      BY <3>1, <3>2, ConcatAdjacentSubSeq
  <2>6. SubSeq(s, 1, o) \in Bytes
    <3>1. o \in 0..Len(s)
      BY <1>1, <1>6
    <3>2. SubSeq(s, 0 + 1, o) \in Bytes
      BY <3>1, PartType DEF s
    <3>3. 0 + 1 = 1
      OBVIOUS
    <3>4. QED
      BY <3>2, <3>3
  <2>7. QED
    BY <1>3, <2>4, <2>5, <2>6
<1>7. QED
  BY <1>2, <1>4, <1>5, <1>6 DEF Advanced, s, o

-----------------------------------------------------------------------------
\* The types of the state.
FTypes ==
    /\ content \in [Files -> Bytes]
    /\ told \in [Files -> Seq(Bytes)]
    /\ partial \in [Files -> Bytes]
    /\ offset \in [Files -> Nat]
    /\ epoch \in [Files -> Nat]
    /\ base \in [Files -> Nat]
    /\ clean \in [Files -> BOOLEAN]
    /\ lines \in Nat

\* The watch starts with its fields, and the logs, of the right types.
LEMMA InitFTypes == Init => FTypes
BY EmptySeq DEF Init, FTypes, Bytes

\* A starting point taken from a log is an offset and lines of bytes.
LEMMA PrimeTypes ==
    ASSUME FTypes, NEW f \in Files, Prime(f) PROVE FTypes'
<1>1. content[f] \in Bytes /\ epoch[f] \in Nat
  BY DEF FTypes
<1> DEFINE texts == Scanned(content[f])
<1>2. texts \in Seq(Bytes)
  BY <1>1, ScannedType
<1>3. ScannedSize(texts) \in Nat
  BY <1>2, SizeType
<1>4. /\ offset' = [offset EXCEPT ![f] = ScannedSize(texts)]
      /\ told' = [told EXCEPT ![f] = texts]
      /\ base' = [base EXCEPT ![f] = epoch[f]]
      /\ clean' = [clean EXCEPT ![f] = Split(content[f]).rest = <<>>]
      /\ UNCHANGED <<content, epoch, lines, partial>>
  BY DEF Prime, logs
<1> HIDE DEF texts
<1>5. QED
  BY <1>1, <1>2, <1>3, <1>4 DEF FTypes

\* A Stat leaves the fields of the right types.
LEMMA StatTypes ==
    ASSUME FTypes, NEW f \in Files, NEW read, NEW next, Stat(f, read, next)
    PROVE  FTypes'
<1>1. << >> \in Bytes
  BY EmptySeq DEF Bytes
<1>2. QED
  BY <1>1 DEF FTypes, Stat, logs

\* A read leaves the fields of the right types: the rest and the texts are
\* bytes, the offset a number.
LEMMA ReadTypes ==
    ASSUME FTypes, NEW f \in Files, NEW next, Read(f, next)
    PROVE  FTypes'
<1>1. /\ content[f] \in Bytes /\ offset[f] \in Nat /\ partial[f] \in Bytes
      /\ told[f] \in Seq(Bytes) /\ epoch[f] \in Nat
  BY DEF FTypes
<1>2. Chunk(f) \in Bytes /\ Advanced(f) \in Nat
  BY <1>1, ChunkLaws DEF Advanced
<1>3. Joined(f).texts \in Seq(Bytes) /\ Joined(f).rest \in Bytes
  <2>1. partial[f] \o Chunk(f) \in Bytes
    BY <1>1, <1>2, ConcatProperties DEF Bytes
  <2>2. Joined(f) \in Splits
    BY <2>1, SplitType DEF Joined
  <2>3. QED
    BY <2>2 DEF Splits
<1>4. /\ told[f] \o Joined(f).texts \in Seq(Bytes)
      /\ << >> \o Joined(f).texts \in Seq(Bytes)
  BY <1>1, <1>3, ConcatProperties, EmptySeq
<1>5. UNCHANGED <<content, epoch, lines>>
  BY DEF Read, logs
<1>6. CASE exists[f]
  <2> DEFINE anew == offset[f] = 0 /\ ~SameFile(f)
  <2>1. /\ offset' = [offset EXCEPT ![f] = Advanced(f)]
        /\ partial' = [partial EXCEPT ![f] = Joined(f).rest]
        /\ told' = [told EXCEPT ![f] =
                      (IF anew THEN <<>> ELSE @) \o Joined(f).texts]
        /\ base' = [base EXCEPT ![f] = IF anew THEN epoch[f] ELSE @]
        /\ clean' = [clean EXCEPT ![f] = @ \/ anew]
    BY <1>6 DEF Read
  <2> HIDE DEF anew
  <2>2. offset' \in [Files -> Nat] /\ partial' \in [Files -> Bytes]
    BY <1>2, <1>3, <2>1 DEF FTypes
  <2>3. told' \in [Files -> Seq(Bytes)]
    BY <1>4, <2>1 DEF FTypes
  <2>4. base' \in [Files -> Nat]
    BY <1>1, <2>1 DEF FTypes
  <2>5. clean' \in [Files -> BOOLEAN]
    <3>1. (clean[f] \/ anew) \in BOOLEAN
      OBVIOUS
    <3>2. QED
      BY <2>1, <3>1 DEF FTypes
  <2>6. QED
    BY <1>5, <2>2, <2>3, <2>4, <2>5 DEF FTypes
<1>7. CASE ~exists[f]
  BY <1>5, <1>7 DEF Read, FTypes
<1>8. QED
  BY <1>6, <1>7

\* Every step preserves them.
LEMMA StepFTypes == FTypes /\ [Next]_vars => FTypes'
<1> SUFFICES ASSUME FTypes, [Next]_vars PROVE FTypes'
  OBVIOUS
<1>1. RouterLog \in Files /\ StatsLog \in Files
  BY DEF Files
<1>2. ASSUME NEW f \in Files, BeginWrite(f) PROVE FTypes'
  <2>1. lines' \in Nat /\ content[f] \in Bytes
    BY <1>2 DEF BeginWrite, FTypes
  <2>2. Append(content[f], lines') \in Bytes
    BY <2>1, AppendProperties DEF Bytes
  <2>3. QED
    BY <1>2, <2>1, <2>2 DEF BeginWrite, FTypes
<1>3. ASSUME NEW f \in Files, EndWrite(f) PROVE FTypes'
  <2>1. Append(content[f], Newline) \in Bytes
    BY AppendProperties DEF Bytes, FTypes, Newline
  <2>2. QED
    BY <1>3, <2>1 DEF EndWrite, FTypes
<1>4. ASSUME NEW f \in Files, TearWrite(f) PROVE FTypes'
  BY <1>4 DEF TearWrite, FTypes
<1>5. ASSUME NEW f \in Files, Rotate(f) PROVE FTypes'
  <2>1. << >> \in Bytes
    BY EmptySeq DEF Bytes
  <2>2. content' \in [Files -> Bytes]
    BY <1>5, <2>1 DEF Rotate, FTypes
  <2>3. epoch' \in [Files -> Nat]
    BY <1>5 DEF Rotate, FTypes
  <2>4. UNCHANGED <<lines, offset, partial, told, base, clean>>
    BY <1>5 DEF Rotate
  <2>5. QED
    BY <2>2, <2>3, <2>4 DEF FTypes
<1>6. CASE PrimeRouter \/ PrimeStats
  BY <1>1, <1>6, PrimeTypes DEF PrimeRouter, PrimeStats
<1>7. CASE Loop
  BY <1>1, <1>7, StatTypes, ReadTypes
  DEF Loop, Tick, StatRouter, ReadRouter, StatStats, ReadStats, FTypes, logs
<1>8. CASE Stop \/ UNCHANGED vars
  BY <1>8 DEF Stop, vars, logs, FTypes
<1>9. QED
  BY <1>2, <1>3, <1>4, <1>5, <1>6, <1>7, <1>8 DEF Next

(***************************************************************************)
(* In step.  A follower knows the file it reads by the offset alone, so    *)
(* what it holds is tied to the file the offset was counted in, and says   *)
(* nothing once that file was replaced, until the follower starts over.    *)
(***************************************************************************)

\* The follower has taken its starting point.
Primed(f) == turn # "start" /\ (turn = "started" => f = RouterLog)

\* It has handed over the lines of what it read, and keeps the rest.
Caught(f) ==
    /\ offset[f] <= Len(content[f])
    /\ Split(SubSeq(content[f], 1, offset[f]))
           = [texts |-> told[f], rest |-> partial[f]]

FileInv(f) ==
    /\ base[f] <= epoch[f]
    /\ ~Primed(f) \/ offset[f] = 0 => partial[f] = << >>
    /\ Primed(f) /\ clean[f] /\ SameFile(f) => Caught(f)

FInv == FTypes /\ \A f \in Files : FileInv(f)

\* What holds of each file makes the followers in step.
LEMMA FInvSuffices == FInv => InStep
<1> SUFFICES ASSUME FInv, NEW f \in Files, Started, clean[f], SameFile(f)
             PROVE  LET seen == Split(SubSeq(content[f], 1, offset[f]))
                    IN  /\ offset[f] <= Len(content[f])
                        /\ told[f] = seen.texts
                        /\ partial[f] = seen.rest
  BY DEF InStep
<1>1. Caught(f)
  BY DEF FInv, FileInv, Primed, Started
<1>2. QED
  BY <1>1 DEF Caught

\* Before its start a follower has read nothing of any file.
LEMMA InitFInv == Init => FInv
<1> SUFFICES ASSUME Init PROVE FInv
  OBVIOUS
<1>1. \A f \in Files : base[f] = epoch[f] /\ partial[f] = << >> /\ epoch[f] \in Nat
  BY DEF Init
<1>2. \A f \in Files : ~Primed(f)
  BY DEF Init, Primed
<1>3. QED
  BY <1>1, <1>2, InitFTypes DEF FInv, FileInv

\* A file nothing happens to.
LEMMA FileAsBefore ==
    ASSUME NEW f \in Files, FileInv(f), Primed(f)' <=> Primed(f),
           UNCHANGED <<content[f], epoch[f], base[f], offset[f], partial[f],
                       told[f], clean[f]>>
    PROVE  FileInv(f)'
<1>1. Caught(f) => Caught(f)'
  BY DEF Caught
<1>2. SameFile(f)' <=> SameFile(f)
  BY DEF SameFile
<1>3. QED
  BY <1>1, <1>2 DEF FileInv

\* A log that grows.
LEMMA GrowthKeeps ==
    ASSUME FTypes, NEW f \in Files, FileInv(f), NEW x \in Nat,
           content' = [content EXCEPT ![f] = Append(@, x)],
           UNCHANGED <<epoch, turn, offset, partial, told, base, clean>>
    PROVE  FileInv(f)'
<1>1. content[f] \in Bytes /\ offset[f] \in Nat /\ content'[f] = Append(content[f], x)
  BY DEF FTypes
<1>2. Len(content[f]) \in Nat /\ Len(content'[f]) = Len(content[f]) + 1
  BY <1>1, LenProperties, AppendProperties DEF Bytes
<1>3. ASSUME Caught(f) PROVE Caught(f)'
  <2>1. offset[f] \in 0..Len(content[f])
    BY <1>1, <1>2, <1>3 DEF Caught
  <2>2. SubSeq(content'[f], 1, offset[f]) = SubSeq(content[f], 1, offset[f])
    BY <1>1, <2>1, PrefixKept
  <2>3. offset[f] <= Len(content'[f])
    BY <1>1, <1>2, <2>1
  <2>4. QED
    BY <1>3, <2>2, <2>3 DEF Caught
<1>4. QED
  BY <1>3 DEF FileInv, Primed, SameFile

\* Taking the starting point: all lines of the log as it is, if it ends with a
\* whole line.
LEMMA PrimeKeeps ==
    ASSUME FTypes, NEW f \in Files, FileInv(f), ~Primed(f), Primed(f)', Prime(f)
    PROVE  FileInv(f)'
<1> DEFINE s == content[f]
           texts == Scanned(s)
<1>1. s \in Bytes /\ epoch[f] \in Nat /\ partial[f] = << >>
  BY DEF FTypes, FileInv
<1>2. /\ offset'[f] = ScannedSize(texts) /\ told'[f] = texts
      /\ base'[f] = epoch[f] /\ clean'[f] = (Split(s).rest = << >>)
      /\ partial'[f] = << >> /\ content' = content /\ epoch' = epoch
  BY <1>1 DEF Prime, logs, FTypes
<1>3. ASSUME clean'[f] PROVE Caught(f)'
  <2>1. Split(s).rest = << >> /\ texts = Split(s).texts
    BY <1>2, <1>3 DEF Scanned
  <2>2. ScannedSize(texts) = Len(s)
    <3>1. ScannedSize(Split(s).texts) + Len(Split(s).rest) = Len(s)
      BY <1>1, SplitSize
    <3>2. Len(<< >>) = 0 /\ ScannedSize(texts) \in Nat
      BY <1>1, EmptySeq, ScannedType, SizeType
    <3>3. QED
      BY <2>1, <3>1, <3>2
  <2>3. SubSeq(s, 1, Len(s)) = s /\ Len(s) \in Nat
    BY <1>1, SubSeqFull, LenProperties DEF Bytes
  <2>4. Split(s) = [texts |-> texts, rest |-> << >>]
    BY <1>1, <2>1, SplitType DEF Splits
  <2> HIDE DEF texts, s
  <2>5. offset'[f] = Len(s) /\ content'[f] = s
    BY <1>2, <2>2 DEF s
  <2>6. SubSeq(content'[f], 1, offset'[f]) = s /\ offset'[f] <= Len(content'[f])
    BY <2>3, <2>5
  <2>7. [texts |-> told'[f], rest |-> partial'[f]] = [texts |-> texts, rest |-> << >>]
    BY <1>2
  <2>8. QED
    BY <2>4, <2>6, <2>7 DEF Caught
<1>4. QED
  BY <1>1, <1>2, <1>3 DEF FileInv

\* A Stat starts over only from a file that is not the one read so far, or one
\* the follower started in the middle of a line of.
LEMMA StatKeeps ==
    ASSUME FTypes, NEW f \in Files, FileInv(f), NEW read, NEW next,
           Stat(f, read, next), Primed(f)' <=> Primed(f), Primed(f)
    PROVE  FileInv(f)'
<1>1. UNCHANGED <<content, epoch, told, base, clean>>
  BY DEF Stat, logs
<1>2. CASE Shrunk(f)
  <2>1. offset'[f] = 0 /\ partial'[f] = << >>
    BY <1>2 DEF Stat, FTypes
  <2>2. ~Caught(f)
    <3>1. Len(content[f]) \in Nat /\ offset[f] \in Nat
      BY LenProperties DEF FTypes, Bytes
    <3>2. Len(content[f]) < offset[f]
      BY <1>2 DEF Shrunk
    <3>3. QED
      BY <3>1, <3>2 DEF Caught
  <2>3. ~(clean[f] /\ SameFile(f))
    BY <2>2 DEF FileInv
  <2>4. QED
    BY <1>1, <2>1, <2>3 DEF FileInv, SameFile
<1>3. CASE ~Shrunk(f)
  <2>1. offset'[f] = offset[f] /\ partial'[f] = partial[f]
    BY <1>3 DEF Stat, FTypes
  <2>2. QED
    BY <1>1, <2>1, FileAsBefore
<1>4. QED
  BY <1>2, <1>3

\* A read hands over the lines it completes and keeps the rest, if the file is
\* the one read so far, or is read from its start.
LEMMA ReadKeeps ==
    ASSUME FTypes, NEW f \in Files, FileInv(f), NEW next,
           Read(f, next), Primed(f)' <=> Primed(f), Primed(f)
    PROVE  FileInv(f)'
<1>1. /\ content[f] \in Bytes /\ offset[f] \in Nat /\ partial[f] \in Bytes
      /\ told[f] \in Seq(Bytes) /\ epoch[f] \in Nat /\ base[f] \in Nat
  BY DEF FTypes
<1>2. UNCHANGED <<content, epoch>>
  BY DEF Read, logs
<1>3. CASE ~exists[f]
  <2>1. UNCHANGED <<offset, partial, told, base, clean>>
    BY <1>3 DEF Read
  <2>2. QED
    BY <1>2, <2>1, FileAsBefore
<1>4. CASE exists[f]
  <2> DEFINE anew == offset[f] = 0 /\ ~SameFile(f)
             prev == SubSeq(content[f], 1, offset[f])
             before == IF anew THEN << >> ELSE told[f]
             j == Joined(f)
  <2>1. /\ offset' = [offset EXCEPT ![f] = Advanced(f)]
        /\ partial' = [partial EXCEPT ![f] = j.rest]
        /\ told' = [told EXCEPT ![f] =
                      (IF anew THEN <<>> ELSE @) \o j.texts]
        /\ base' = [base EXCEPT ![f] = IF anew THEN epoch[f] ELSE @]
        /\ clean' = [clean EXCEPT ![f] = @ \/ anew]
    BY <1>4 DEF Read
  <2>2. /\ offset'[f] = Advanced(f) /\ partial'[f] = j.rest
        /\ told'[f] = before \o j.texts
        /\ base'[f] = IF anew THEN epoch[f] ELSE base[f]
        /\ clean'[f] <=> clean[f] \/ anew
    BY <2>1 DEF FTypes
  <2>3. /\ Chunk(f) \in Bytes /\ Len(Chunk(f)) \in Nat
        /\ offset[f] <= Len(content[f]) =>
              /\ Advanced(f) \in 0..Len(content[f])
              /\ prev \o Chunk(f) = SubSeq(content[f], 1, Advanced(f))
              /\ prev \in Bytes
    BY <1>1, ChunkLaws
  <2>4. j \in Splits
    <3>1. partial[f] \o Chunk(f) \in Bytes
      BY <1>1, <2>3, ConcatProperties DEF Bytes
    <3>2. QED
      BY <3>1, SplitType DEF Joined
  <2> HIDE DEF anew, before, j, prev
  <2>5. base'[f] <= epoch'[f]
    BY <1>1, <1>2, <2>2 DEF FileInv
  <2>6. offset'[f] = 0 => partial'[f] = << >>
    <3> SUFFICES ASSUME Advanced(f) = 0 PROVE j.rest = << >>
      BY <2>2
    <3>1. offset[f] = 0 /\ Len(Chunk(f)) = 0
      BY <1>1, <2>3 DEF Advanced
    <3>2. partial[f] = << >> /\ Chunk(f) = << >>
      BY <2>3, <3>1, EmptySeq DEF FileInv, Bytes
    <3>3. << >> \o << >> = << >>
      BY EmptySeq, ConcatEmptySeq
    <3>4. j = Split0
      BY <3>2, <3>3, SplitEmpty DEF j, Joined
    <3>5. QED
      BY <3>4 DEF Split0
  <2>7. ASSUME clean'[f], SameFile(f)' PROVE Caught(f)'
    <3>1. /\ offset[f] <= Len(content[f])
          /\ Split(prev) = [texts |-> before, rest |-> partial[f]]
      <4>1. CASE anew
        <5>1. offset[f] = 0 /\ partial[f] = << >> /\ before = << >>
          BY <4>1 DEF anew, before, FileInv
        <5>2. prev = << >> /\ Len(content[f]) \in Nat
          BY <1>1, <5>1, SubSeqEmpty, LenProperties DEF prev, Bytes
        <5>3. Split(prev) = Split0
          BY <5>2, SplitEmpty
        <5>4. QED
          BY <1>1, <5>1, <5>2, <5>3 DEF Split0
      <4>2. CASE ~anew
        <5>1. clean[f] /\ SameFile(f) /\ before = told[f]
          BY <1>2, <2>2, <2>7, <4>2 DEF SameFile, before
        <5>2. Caught(f)
          BY <5>1 DEF FileInv
        <5>3. QED
          BY <5>1, <5>2 DEF Caught, prev
      <4>3. QED
        BY <4>1, <4>2
    <3>2. Split(prev \o Chunk(f)) = SplitOn(Split(prev), Chunk(f))
      BY <2>3, <3>1, SplitConcat
    <3>3. Split(partial[f] \o Chunk(f)) = j
      BY DEF j, Joined
    <3>4. SplitOn(Split(prev), Chunk(f)) = [texts |-> before \o j.texts, rest |-> j.rest]
      <4>1. Split(prev).texts = before /\ Split(prev).rest = partial[f]
        BY <3>1
      <4>2. Split(Split(prev).rest \o Chunk(f)) = j
        BY <3>3, <4>1
      <4>3. QED
        BY <4>1, <4>2 DEF SplitOn
    <3>5. Split(SubSeq(content[f], 1, Advanced(f)))
              = [texts |-> told'[f], rest |-> partial'[f]]
      BY <2>2, <2>3, <3>1, <3>2, <3>4
    <3>6. Advanced(f) <= Len(content[f])
      BY <2>3, <3>1
    <3>7. QED
      BY <1>2, <2>2, <3>5, <3>6 DEF Caught
  <2>8. QED
    BY <2>5, <2>6, <2>7 DEF FileInv
<1>5. QED
  BY <1>3, <1>4

\* Replacing a file ends what was known of it.
LEMMA RotateKeeps ==
    ASSUME FTypes, NEW f \in Files, FileInv(f), Rotate(f)
    PROVE  FileInv(f)'
<1>1. /\ epoch'[f] = epoch[f] + 1 /\ base' = base
      /\ UNCHANGED <<turn, offset, partial, told, clean>>
      /\ base[f] \in Nat /\ epoch[f] \in Nat
  BY DEF Rotate, FTypes
<1>2. ~SameFile(f)' /\ base'[f] <= epoch'[f]
  BY <1>1 DEF FileInv, SameFile
<1>3. QED
  BY <1>1, <1>2 DEF FileInv, Primed

\* A step of the watch on one file leaves the other.
LEMMA OtherFile ==
    ASSUME FTypes, NEW f \in Files, NEW g \in Files, f # g, FileInv(g),
           Primed(g)' <=> Primed(g),
           \/ Prime(f)
           \/ \E read, next : Stat(f, read, next)
           \/ \E next : Read(f, next)
    PROVE  FileInv(g)'
<1>1. UNCHANGED <<content, epoch>>
  BY DEF Prime, Stat, Read, logs
<1>2. UNCHANGED <<base[g], offset[g], partial[g], told[g], clean[g]>>
  <2>1. CASE Prime(f)
    BY <2>1 DEF Prime, FTypes
  <2>2. CASE \E read, next : Stat(f, read, next)
    BY <2>2 DEF Stat, FTypes
  <2>3. CASE \E next : Read(f, next)
    <3>1. CASE exists[f]
      <4> DEFINE anew == offset[f] = 0 /\ ~SameFile(f)
      <4> PICK next : Read(f, next)
        BY <2>3
      <4>1. /\ offset' = [offset EXCEPT ![f] = Advanced(f)]
            /\ partial' = [partial EXCEPT ![f] = Joined(f).rest]
            /\ told' = [told EXCEPT ![f] =
                          (IF anew THEN <<>> ELSE @) \o Joined(f).texts]
            /\ base' = [base EXCEPT ![f] = IF anew THEN epoch[f] ELSE @]
            /\ clean' = [clean EXCEPT ![f] = @ \/ anew]
        BY <3>1 DEF Read
      <4> HIDE DEF anew
      <4>2. QED
        BY <4>1 DEF FTypes
    <3>2. CASE ~exists[f]
      BY <2>3, <3>2 DEF Read
    <3>3. QED
      BY <3>1, <3>2
  <2>4. QED
    BY <2>1, <2>2, <2>3
<1>3. QED
  BY <1>1, <1>2, FileAsBefore

\* Every step, of the logs and of the watch, keeps what holds of each file.
LEMMA StepFInv == FInv /\ [Next]_vars => FInv'
<1> SUFFICES ASSUME FInv, [Next]_vars, NEW g \in Files PROVE FileInv(g)'
  BY StepFTypes DEF FInv
<1>1. FTypes /\ FileInv(g) /\ \A f \in Files : FileInv(f)
  BY DEF FInv
<1>2. Files = {RouterLog, StatsLog} /\ RouterLog # StatsLog
  BY FollowerAssumption DEF Files
<1>3. ASSUME UNCHANGED <<offset, partial, told, base, clean>>,
             UNCHANGED <<content[g], epoch[g]>>, Primed(g)' <=> Primed(g)
      PROVE  FileInv(g)'
  BY <1>1, <1>3, FileAsBefore
<1>4. ASSUME NEW f \in Files, BeginWrite(f) PROVE FileInv(g)'
  <2>1. /\ lines' \in Nat /\ content' = [content EXCEPT ![f] = Append(@, lines')]
        /\ UNCHANGED <<epoch, turn, offset, partial, told, base, clean>>
    BY <1>1, <1>4 DEF BeginWrite, FTypes
  <2>2. CASE f = g
    BY <1>1, <2>1, <2>2, GrowthKeeps
  <2>3. CASE f # g
    <3>1. content'[g] = content[g]
      BY <1>1, <2>1, <2>3 DEF FTypes
    <3>2. QED
      BY <1>3, <2>1, <3>1 DEF Primed
  <2>4. QED
    BY <2>2, <2>3
<1>5. ASSUME NEW f \in Files, EndWrite(f) PROVE FileInv(g)'
  <2>1. /\ Newline \in Nat /\ content' = [content EXCEPT ![f] = Append(@, Newline)]
        /\ UNCHANGED <<epoch, turn, offset, partial, told, base, clean>>
    BY <1>5 DEF EndWrite, Newline
  <2>2. CASE f = g
    BY <1>1, <2>1, <2>2, GrowthKeeps
  <2>3. CASE f # g
    <3>1. content'[g] = content[g]
      BY <1>1, <2>1, <2>3 DEF FTypes
    <3>2. QED
      BY <1>3, <2>1, <3>1 DEF Primed
  <2>4. QED
    BY <2>2, <2>3
<1>6. ASSUME NEW f \in Files, TearWrite(f) PROVE FileInv(g)'
  BY <1>3, <1>6 DEF TearWrite, Primed
<1>7. ASSUME NEW f \in Files, Rotate(f) PROVE FileInv(g)'
  <2>1. CASE f = g
    BY <1>1, <1>7, <2>1, RotateKeeps
  <2>2. CASE f # g
    BY <1>1, <1>3, <1>7, <2>2 DEF Rotate, Primed, FTypes
  <2>3. QED
    BY <2>1, <2>2
<1>8. CASE PrimeRouter
  <2>1. turn = "start" /\ turn' = "started" /\ Prime(RouterLog)
    BY <1>8 DEF PrimeRouter
  <2>2. ~Primed(g) /\ (Primed(g)' <=> g = RouterLog)
    BY <2>1 DEF Primed
  <2>3. QED
    BY <1>1, <1>2, <2>1, <2>2, PrimeKeeps, OtherFile
<1>9. CASE PrimeStats
  <2>1. turn = "started" /\ turn' = "wait" /\ Prime(StatsLog)
    BY <1>9 DEF PrimeStats
  <2>2. Primed(g)' /\ (Primed(g) <=> g = RouterLog)
    BY <2>1 DEF Primed
  <2>3. QED
    BY <1>1, <1>2, <2>1, <2>2, PrimeKeeps, OtherFile
<1>10. CASE Tick \/ Stop
  BY <1>3, <1>10 DEF Tick, Stop, Primed, logs
<1>11. ASSUME NEW f \in Files, NEW next \in {"stat-stats", "wait"},
              turn \notin {"start", "started"},
              \/ Stat(f, "read-router", next)
              \/ Stat(f, "read-stats", next)
              \/ Read(f, next) /\ turn' = next
       PROVE  FileInv(g)'
  <2>1. turn' \notin {"start", "started"}
    BY <1>11 DEF Stat
  <2>2. Primed(g) /\ Primed(g)'
    BY <1>11, <2>1 DEF Primed
  <2>3. CASE f = g
    BY <1>1, <1>11, <2>2, <2>3, StatKeeps, ReadKeeps
  <2>4. CASE f # g
    BY <1>1, <1>11, <2>2, <2>4, OtherFile
  <2>5. QED
    BY <2>3, <2>4
<1>12. CASE StatRouter \/ ReadRouter
  BY <1>2, <1>11, <1>12 DEF StatRouter, ReadRouter, Read
<1>13. CASE StatStats \/ ReadStats
  BY <1>2, <1>11, <1>13 DEF StatStats, ReadStats, Read
<1>14. CASE UNCHANGED vars
  BY <1>3, <1>14 DEF vars, logs, Primed
<1>15. QED
  BY <1>4, <1>5, <1>6, <1>7, <1>8, <1>9, <1>10, <1>12, <1>13, <1>14 DEF Next, Loop

\* FollowersInStep: however long the logs grow, in however many lines, torn or
\* whole, wherever the reads cut them and whoever replaces them when, each
\* follower has handed over exactly the whole lines of what it has read of the
\* file it is reading, each once and in order, and keeps the unfinished rest.
THEOREM FollowersInStep == Spec => []InStep
<1>1. Init => FInv
  BY InitFInv
<1>2. FInv /\ [Next]_vars => FInv'
  BY StepFInv
<1>3. FInv => InStep
  BY FInvSuffices
<1>4. QED
  BY <1>1, <1>2, <1>3, PTL DEF Spec

-----------------------------------------------------------------------------
(***************************************************************************)
(* The backlog.                                                            *)
(***************************************************************************)

\* What LastOf leaves out at the front.
Skips(s, n) == IF Len(s) > n THEN Len(s) - n ELSE 0

\* The last items of a sequence.
LEMMA LastOfIs ==
    ASSUME NEW B, NEW s \in Seq(B), NEW n \in Nat,
           NEW t, t = LastOf(s, n), NEW k, k = Skips(s, n)
    PROVE  /\ t \in Seq(B) /\ k \in Nat /\ Len(s) \in Nat
           /\ Len(t) = Len(s) - k /\ Len(t) \in Nat /\ Len(t) <= n
           /\ DOMAIN s = 1..Len(s) /\ DOMAIN t = 1..Len(t)
           /\ k > 0 => Len(t) = n
           /\ \A i \in 1..Len(t) : k + i \in 1..Len(s) /\ t[i] = s[k + i]
<1>1. Len(s) \in Nat /\ DOMAIN s = 1..Len(s) /\ \A i \in 1..Len(s) : s[i] \in B
  BY LenProperties, ElementOfSeq
<1>2. CASE Len(s) > n
  <2> DEFINE a == Len(s) - n + 1
             b == Len(s)
  <2>1. k = Len(s) - n /\ t = SubSeq(s, a, b)
    BY <1>2 DEF LastOf, Skips
  <2>2. a \in Int /\ b \in Int /\ \A i \in a..b : s[i] \in B
    BY <1>1, <1>2
  <2>3. /\ SubSeq(s, a, b) \in Seq(B)
        /\ Len(SubSeq(s, a, b)) = IF a <= b THEN b - a + 1 ELSE 0
        /\ \A i \in 1..(b - a + 1) : SubSeq(s, a, b)[i] = s[a + i - 1]
    BY <2>2, SubSeqProperties
  <2>4. t \in Seq(B) /\ DOMAIN t = 1..Len(t)
    BY <2>1, <2>3, LenProperties
  <2>5. Len(t) = n
    BY <1>1, <1>2, <2>1, <2>3
  <2>6. \A i \in 1..n : t[i] = s[k + i]
    <3>1. \A i \in 1..n : a + i - 1 = k + i /\ i \in 1..(b - a + 1)
      BY <1>1, <1>2, <2>1
    <3> HIDE DEF a, b
    <3>2. QED
      BY <2>1, <2>3, <3>1
  <2>7. QED
    BY <1>1, <1>2, <2>1, <2>4, <2>5, <2>6
<1>3. CASE ~(Len(s) > n)
  BY <1>1, <1>3 DEF LastOf, Skips
<1>4. QED
  BY <1>2, <1>3

\* The last items of a sequence are items of it.
LEMMA LastOfRange ==
    ASSUME NEW B, NEW s \in Seq(B), NEW n \in Nat
    PROVE  Range(LastOf(s, n)) \subseteq Range(s)
<1> DEFINE t == LastOf(s, n)
           k == Skips(s, n)
<1>1. /\ DOMAIN s = 1..Len(s) /\ DOMAIN t = 1..Len(t)
      /\ \A i \in 1..Len(t) : k + i \in 1..Len(s) /\ t[i] = s[k + i]
  BY LastOfIs
<1> HIDE DEF t, k
<1>2. QED
  BY <1>1 DEF Range, t

\* A filter that lets everything through.
LEMMA OnlyAll ==
    ASSUME NEW B, NEW D, NEW s \in Seq(B), Range(s) \subseteq D
    PROVE  Only(s, D) = s
<1>0. /\ Only(<<>>, D) = <<>>
      /\ \A t \in Seq(B), x \in B :
             Only(Append(t, x), D) = IF x \in D THEN Append(Only(t, D), x) ELSE Only(t, D)
  BY OnlyIs
<1> DEFINE Q == {t \in Seq(B) : Range(t) \subseteq D => Only(t, D) = t}
<1>1. <<>> \in Q
  BY <1>0, EmptySeq
<1>2. ASSUME NEW t \in Q, NEW x \in B PROVE Append(t, x) \in Q
  <2>1. t \in Seq(B) /\ (Range(t) \subseteq D => Only(t, D) = t)
    OBVIOUS
  <2>2. Append(t, x) \in Seq(B) /\ Range(Append(t, x)) = Range(t) \cup {x}
    BY <2>1, AppendProperties, RangeAppend
  <2>3. Only(Append(t, x), D) = IF x \in D THEN Append(Only(t, D), x) ELSE Only(t, D)
    BY <1>0, <2>1
  <2>4. ASSUME Range(Append(t, x)) \subseteq D PROVE Only(Append(t, x), D) = Append(t, x)
    <3>1. Range(t) \subseteq D /\ x \in D
      BY <2>2, <2>4
    <3>2. QED
      BY <2>1, <2>3, <3>1
  <2>5. QED
    BY <2>2, <2>4
<1>3. Q \in SUBSET Seq(B)
  OBVIOUS
<1> HIDE DEF Q
<1>4. s \in Q
  BY <1>1, <1>2, <1>3, SequencesAll
<1>5. QED
  BY <1>4 DEF Q

\* Events that can be told apart by their times.
Timed(s) == \A i, j \in DOMAIN s : s[i].ts = s[j].ts => i = j

\* The merged events are the latest ones, in order of time.
LEMMA MergedIs ==
    ASSUME NEW S, \A e \in S : e.ts \in Nat, NEW s \in Seq(S), Timed(s),
           NEW t, t = Merged(s)
    PROVE  /\ t \in Seq(S) /\ Len(s) \in Nat /\ Range(t) \subseteq Range(s)
           /\ Len(t) = Len(s) - Skips(s, Backlog) /\ Len(t) \in Nat /\ Len(t) <= Backlog
           /\ DOMAIN t = 1..Len(t)
           /\ \A i, j \in DOMAIN t : i < j => t[i].ts < t[j].ts
           /\ \A e \in Range(t), d \in Range(s) \ Range(t) : d.ts < e.ts
           /\ \A e \in Range(t), P \in SUBSET DOMAIN s :
                 (\A i \in P : e.ts < s[i].ts) => Cardinality(P) < Backlog
<1> DEFINE D == DOMAIN s
           N == Len(s)
           before == [i \in D |-> {j \in D : \/ s[j].ts < s[i].ts
                                             \/ s[j].ts = s[i].ts /\ j < i}]
           o == InOrder(D, before)
           r == [n \in DOMAIN o |-> s[o[n]]]
           k == Skips(r, Backlog)
<1>1. t = LastOf(r, Backlog)
  BY DEF Merged
<1>2. N \in Nat /\ D = 1..N /\ \A i \in D : s[i] \in S /\ s[i].ts \in Nat
  BY LenProperties, ElementOfSeq
<1>3. \A i, j \in D : j \in before[i] <=> s[j].ts < s[i].ts
  BY <1>2 DEF Timed
<1>4. IsFiniteSet(D) /\ Cardinality(D) = N
  <2>1. 1 \in Int /\ N \in Int
    BY <1>2
  <2>2. IsFiniteSet(1..N) /\ Cardinality(1..N) = IF 1 > N THEN 0 ELSE N - 1 + 1
    BY <2>1, FS_Interval
  <2>3. QED
    BY <1>2, <2>2
<1>5. IsOrder(D, before)
  <2> HIDE DEF before
  <2> DEFINE ts(i) == s[i].ts
  <2>1. \A i, j \in D : ts(i) = ts(j) => i = j
    BY DEF Timed
  <2>2. \A i \in D : ts(i) \in Nat
    BY <1>2
  <2>3. \A i, j \in D : j \in before[i] <=> ts(j) < ts(i)
    BY <1>3
  <2> HIDE DEF D, ts
  <2>4. \A i \in D : i \notin before[i]
    BY <2>2, <2>3
  <2>5. \A i, j \in D : i # j => i \in before[j] \/ j \in before[i]
    BY <2>1, <2>2, <2>3
  <2>6. \A i, j, h \in D : i \in before[j] /\ j \in before[h] => i \in before[h]
    BY <2>2, <2>3
  <2>7. QED
    BY <2>4, <2>5, <2>6 DEF IsOrder
<1> HIDE DEF before
<1>6. /\ o \in Seq(D) /\ Len(o) = N /\ Range(o) = D
      /\ \A i, j \in DOMAIN o : o[i] = o[j] => i = j
      /\ \A i, j \in DOMAIN o : i < j => o[i] \in before[o[j]]
  <2> HIDE DEF D
  <2>1. QED
    BY <1>4, <1>5, InOrderIs
<1> HIDE DEF o, D
<1>7. DOMAIN o = 1..N /\ \A n \in 1..N : o[n] \in D
  BY <1>2, <1>6, LenProperties, ElementOfSeq
<1>8. r \in [1..N -> S] /\ \A n \in 1..N : r[n] = s[o[n]]
  BY <1>2, <1>7
<1> HIDE DEF r, N
<1>9. r \in Seq(S) /\ Len(r) = N
  <2>1. r \in Seq(S)
    BY <1>2, <1>8, FunctionIsSeq
  <2>2. QED
    BY <1>2, <1>8, <2>1, LenProperties
<1>10. Backlog \in Nat
  BY FollowerAssumption
<1>11. \A i, j \in 1..N : i < j => r[i].ts < r[j].ts
  <2>1. ASSUME NEW i \in 1..N, NEW j \in 1..N, i < j PROVE s[o[i]].ts < s[o[j]].ts
    <3>1. o[i] \in D /\ o[j] \in D /\ o[i] \in before[o[j]]
      BY <1>6, <1>7, <2>1
    <3>2. QED
      BY <1>3, <3>1
  <2>2. QED
    BY <1>8, <2>1
<1>12. \A i, j \in 1..N : r[i].ts < r[j].ts => i < j
  <2>1. \A i \in 1..N : r[i].ts \in Nat
    BY <1>2, <1>7, <1>8
  <2>2. QED
    BY <1>2, <1>11, <2>1
<1>13. \A i \in D : \E n \in 1..N : s[i] = r[n] /\ o[n] = i
  BY <1>6, <1>7, <1>8 DEF Range
<1>14. /\ t \in Seq(S) /\ k \in Nat
       /\ Len(t) = N - k /\ Len(t) \in Nat /\ Len(t) <= Backlog
       /\ DOMAIN t = 1..Len(t)
       /\ k > 0 => Len(t) = Backlog
       /\ \A i \in 1..Len(t) : k + i \in 1..N /\ t[i] = r[k + i]
  BY <1>1, <1>9, <1>10, LastOfIs
<1>15. k = Skips(s, Backlog)
  BY <1>9 DEF Skips, N
<1> HIDE DEF k
<1>16. Range(t) \subseteq Range(s)
  <2>1. \A i \in 1..Len(t) : t[i] = s[o[k + i]] /\ o[k + i] \in D
    BY <1>7, <1>8, <1>14
  <2>2. QED
    BY <1>14, <2>1 DEF Range, D
<1>17. \A i, j \in DOMAIN t : i < j => t[i].ts < t[j].ts
  <2>1. ASSUME NEW i \in 1..Len(t), NEW j \in 1..Len(t), i < j
        PROVE  t[i].ts < t[j].ts
    <3>1. k + i \in 1..N /\ k + j \in 1..N /\ t[i] = r[k + i] /\ t[j] = r[k + j]
      BY <1>14
    <3>2. k + i < k + j
      BY <1>14, <2>1
    <3>3. QED
      BY <1>11, <3>1, <3>2
  <2>2. QED
    BY <1>14, <2>1
<1>18. ASSUME NEW e \in Range(t)
       PROVE  \E m \in (k + 1)..N : e = r[m]
  <2>1. PICK i \in 1..Len(t) : e = t[i]
    BY <1>14 DEF Range
  <2>2. k + i \in 1..N /\ e = r[k + i]
    BY <1>14, <2>1
  <2>3. k + i \in (k + 1)..N
    BY <1>2, <1>14, <2>2
  <2>4. QED
    BY <2>2, <2>3
<1>19. ASSUME NEW m \in (k + 1)..N PROVE r[m] \in Range(t)
  <2>1. m - k \in 1..Len(t) /\ k + (m - k) = m
    BY <1>2, <1>14
  <2>2. t[m - k] = r[m]
    BY <1>14, <2>1
  <2>3. QED
    BY <1>14, <2>1, <2>2 DEF Range
<1>20. ASSUME NEW e \in Range(t), NEW d \in Range(s) \ Range(t) PROVE d.ts < e.ts
  <2>1. PICK m \in (k + 1)..N : e = r[m]
    BY <1>18
  <2>2. PICK n \in 1..N : d = r[n]
    BY <1>13 DEF Range, D
  <2>3. n \notin (k + 1)..N
    BY <1>19, <2>2
  <2>4. n < m /\ m \in 1..N
    BY <1>2, <1>14, <2>1, <2>3
  <2>5. QED
    BY <1>11, <2>1, <2>2, <2>4
<1>21. ASSUME NEW e \in Range(t), NEW P \in SUBSET D, \A i \in P : e.ts < s[i].ts
       PROVE  Cardinality(P) < Backlog
  <2>1. PICK m \in (k + 1)..N : e = r[m]
    BY <1>18
  <2> DEFINE at == [i \in P |-> CHOOSE n \in 1..N : s[i] = r[n] /\ o[n] = i]
             T == (m + 1)..N
  <2>2. \A i \in P : at[i] \in 1..N /\ s[i] = r[at[i]] /\ o[at[i]] = i
    BY <1>13
  <2>3. DOMAIN at = P
    OBVIOUS
  <2> HIDE DEF at
  <2>4. m \in 1..N
    BY <1>2, <1>14, <2>1
  <2>5. ASSUME NEW i \in P PROVE at[i] \in T
    <3>1. m < at[i]
      BY <1>12, <1>21, <2>1, <2>2, <2>4
    <3>2. QED
      BY <1>2, <2>2, <2>4, <3>1
  <2>6. at \in Injection(P, T)
    <3>1. \A i, j \in P : at[i] = at[j] => i = j
      BY <2>2
    <3>2. at = [i \in P |-> at[i]]
      BY DEF at
    <3>3. at \in [P -> T]
      <4> HIDE DEF T
      <4>1. QED
        BY <2>5, <3>2
    <3>4. QED
      BY <2>3, <3>1, <3>3 DEF Injection, IsInjective
  <2>7. IsFiniteSet(T) /\ Cardinality(T) = IF m + 1 > N THEN 0 ELSE N - (m + 1) + 1
    <3>1. m + 1 \in Int /\ N \in Int
      BY <1>2, <2>4
    <3>2. QED
      BY <3>1, FS_Interval
  <2>8. Cardinality(T) <= N - m
    BY <1>2, <2>4, <2>7
  <2>9. Cardinality(P) <= Cardinality(T) /\ Cardinality(P) \in Nat /\ Cardinality(T) \in Nat
    <3> HIDE DEF T
    <3>1. IsFiniteSet(P) /\ Cardinality(P) <= Cardinality(T)
      BY <2>6, <2>7, FS_Injection
    <3>2. QED
      BY <2>7, <3>1, FS_CardinalityType
  <2>10. N - m < Len(t)
    BY <1>2, <1>14, <2>1
  <2> HIDE DEF T
  <2>11. QED
    BY <1>2, <1>10, <1>14, <2>4, <2>8, <2>9, <2>10
<1>22. QED
  BY <1>2, <1>14, <1>15, <1>16, <1>17, <1>20, <1>21 DEF D, N

\* A sequence without repetitions has as many items as positions.
LEMMA OnceSize ==
    ASSUME NEW B, NEW s \in Seq(B), Once(s)
    PROVE  IsFiniteSet(Range(s)) /\ Cardinality(Range(s)) = Len(s)
<1> DEFINE n == Len(s)
           D == 1..n
           T == Range(s)
<1>1. n \in Nat /\ D = DOMAIN s
  BY LenProperties
<1>2. IsFiniteSet(D) /\ Cardinality(D) = n
  <2>1. 1 \in Int /\ n \in Int
    BY <1>1
  <2>2. IsFiniteSet(D) /\ Cardinality(D) = IF 1 > n THEN 0 ELSE n - 1 + 1
    BY <2>1, FS_Interval
  <2> HIDE DEF D
  <2>3. QED
    BY <1>1, <2>2
<1> DEFINE f == [i \in D |-> s[i]]
<1>3. f \in Bijection(D, T)
  <2>1. \A i \in D : f[i] \in T
    BY <1>1 DEF Range
  <2>2. \A x \in T : \E i \in D : f[i] = x
    BY <1>1 DEF Range
  <2>3. \A i, j \in D : f[i] = f[j] => i = j
    BY <1>1 DEF Once
  <2>4. f = [i \in D |-> f[i]]
    OBVIOUS
  <2> HIDE DEF f, D, T
  <2>5. QED
    BY <2>1, <2>2, <2>3, <2>4 DEF Bijection, Injection, Surjection, IsInjective
<1>4. ExistsBijection(D, T)
  BY <1>3 DEF ExistsBijection
<1> HIDE DEF D, T
<1>5. IsFiniteSet(T) /\ Cardinality(T) = Cardinality(D)
  BY <1>2, <1>4, FS_Bijection
<1>6. QED
  BY <1>2, <1>5 DEF T

\* Events in order of time.
InTime(s) == \A i, j \in DOMAIN s : i < j => s[i].ts < s[j].ts

\* The backlog t is the latest of all the events, in order.
IsLatest(t, all) ==
    /\ Range(t) \subseteq all
    /\ Len(t) = Min({Backlog, Cardinality(all)})
    /\ InTime(t)
    /\ \A e \in Range(t), d \in all \ Range(t) : d.ts < e.ts

\* Of two logs in order of time the latest events are found among the last
\* ones of each, as many of them as are asked for.
LEMMA LatestOf ==
    ASSUME NEW S, \A e \in S : e.ts \in Nat,
           NEW u \in Seq(S), NEW w \in Seq(S), InTime(u), InTime(w),
           \A i \in DOMAIN u, j \in DOMAIN w : u[i].ts # w[j].ts
    PROVE  IsLatest(Merged(LastOf(u, Backlog) \o LastOf(w, Backlog)),
                    Range(u) \cup Range(w))
<1> DEFINE all == Range(u) \cup Range(w)
           t == Merged(LastOf(u, Backlog) \o LastOf(w, Backlog))
           a == LastOf(u, Backlog)
           b == LastOf(w, Backlog)
           s == a \o b
           p == Skips(u, Backlog)
           q == Skips(w, Backlog)
<1>0. all = Range(u) \cup Range(w)
  OBVIOUS
<1> HIDE DEF all, t
<1>1. Backlog \in Nat
  BY FollowerAssumption
<1>2. /\ a \in Seq(S) /\ p \in Nat /\ Len(u) \in Nat
      /\ Len(a) = Len(u) - p /\ Len(a) \in Nat
      /\ DOMAIN u = 1..Len(u) /\ DOMAIN a = 1..Len(a)
      /\ p > 0 => Len(a) = Backlog
      /\ \A i \in 1..Len(a) : p + i \in 1..Len(u) /\ a[i] = u[p + i]
  BY <1>1, LastOfIs
<1>3. /\ b \in Seq(S) /\ q \in Nat /\ Len(w) \in Nat
      /\ Len(b) = Len(w) - q /\ Len(b) \in Nat
      /\ DOMAIN w = 1..Len(w) /\ DOMAIN b = 1..Len(b)
      /\ q > 0 => Len(b) = Backlog
      /\ \A i \in 1..Len(b) : q + i \in 1..Len(w) /\ b[i] = w[q + i]
  BY <1>1, LastOfIs
<1>4. Len(a) = (IF Len(u) > Backlog THEN Backlog ELSE Len(u))
  BY <1>1, <1>2 DEF Skips
<1>5. Len(b) = (IF Len(w) > Backlog THEN Backlog ELSE Len(w))
  BY <1>1, <1>3 DEF Skips
<1>6. Range(a) \subseteq Range(u) /\ Range(b) \subseteq Range(w)
  BY <1>1, LastOfRange
<1> HIDE DEF a, b, p, q
<1>7. /\ s \in Seq(S) /\ Len(s) = Len(a) + Len(b)
      /\ DOMAIN s = 1..(Len(a) + Len(b))
      /\ \A i \in 1..Len(a) : s[i] = a[i]
      /\ \A i \in 1..Len(b) : s[Len(a) + i] = b[i]
      /\ Range(s) = Range(a) \cup Range(b)
  <2>1. a \in Seq(S) /\ b \in Seq(S)
    BY <1>2, <1>3
  <2>2. QED
    BY <2>1, ConcatItems
<1> HIDE DEF s
<1>8. /\ \A i \in 1..Len(u) : u[i] \in S /\ u[i].ts \in Nat
      /\ \A i \in 1..Len(w) : w[i] \in S /\ w[i].ts \in Nat
  BY <1>2, <1>3, ElementOfSeq
<1>9. \A i, j \in 1..Len(u) : u[i].ts = u[j].ts => i = j
  <2>1. \A i, j \in 1..Len(u) : i < j => u[i].ts < u[j].ts
    BY <1>2 DEF InTime
  <2> DEFINE ts(i) == u[i].ts
  <2>2. \A i, j \in 1..Len(u) : i < j => ts(i) < ts(j)
    BY <2>1
  <2>3. \A i \in 1..Len(u) : ts(i) \in Nat
    BY <1>8
  <2> HIDE DEF ts
  <2>4. \A i, j \in 1..Len(u) : ts(i) = ts(j) => i = j
    BY <1>2, <2>2, <2>3
  <2>5. QED
    BY <2>4 DEF ts
<1>10. \A i, j \in 1..Len(w) : w[i].ts = w[j].ts => i = j
  <2>1. \A i, j \in 1..Len(w) : i < j => w[i].ts < w[j].ts
    BY <1>3 DEF InTime
  <2> DEFINE ts(i) == w[i].ts
  <2>2. \A i, j \in 1..Len(w) : i < j => ts(i) < ts(j)
    BY <2>1
  <2>3. \A i \in 1..Len(w) : ts(i) \in Nat
    BY <1>8
  <2> HIDE DEF ts
  <2>4. \A i, j \in 1..Len(w) : ts(i) = ts(j) => i = j
    BY <1>3, <2>2, <2>3
  <2>5. QED
    BY <2>4 DEF ts
<1>11. \A i \in 1..Len(u), j \in 1..Len(w) : u[i].ts # w[j].ts
  BY <1>2, <1>3
<1>12. \A i \in DOMAIN s :
           \/ i \in 1..Len(a) /\ p + i \in 1..Len(u) /\ s[i] = u[p + i]
           \/ /\ i - Len(a) \in 1..Len(b) /\ q + (i - Len(a)) \in 1..Len(w)
              /\ s[i] = w[q + (i - Len(a))]
  <2>1. ASSUME NEW i \in 1..Len(a) PROVE p + i \in 1..Len(u) /\ s[i] = u[p + i]
    BY <1>2, <1>7
  <2>2. ASSUME NEW j \in 1..Len(b)
        PROVE  q + j \in 1..Len(w) /\ s[Len(a) + j] = w[q + j]
    BY <1>3, <1>7
  <2>3. \A i \in DOMAIN s : i \in 1..Len(a)
                            \/ (i - Len(a) \in 1..Len(b) /\ Len(a) + (i - Len(a)) = i)
    <3>1. DOMAIN s = 1..(Len(a) + Len(b)) /\ Len(a) \in Nat /\ Len(b) \in Nat
      BY <1>2, <1>3, <1>7
    <3>2. \A m, n \in Nat : \A i \in 1..(m + n) :
             i \in 1..m \/ (i - m \in 1..n /\ m + (i - m) = i)
      OBVIOUS
    <3>3. QED
      BY <3>1, <3>2
  <2>4. QED
    BY <2>1, <2>2, <2>3
<1>13. Timed(s)
  <2>1. ASSUME NEW i \in DOMAIN s, NEW j \in DOMAIN s, s[i].ts = s[j].ts PROVE i = j
    <3> DEFINE x == i - Len(a)
               y == j - Len(a)
    <3>1. i \in Int /\ j \in Int /\ i = Len(a) + x /\ j = Len(a) + y
      <4>1. DOMAIN s = 1..(Len(a) + Len(b)) /\ Len(a) \in Nat /\ Len(b) \in Nat
        BY <1>2, <1>3, <1>7
      <4>2. \A n \in Nat, k \in Int : k = n + (k - n)
        OBVIOUS
      <4>3. QED
        BY <4>1, <4>2
    <3>2. \/ i \in 1..Len(a) /\ p + i \in 1..Len(u) /\ s[i] = u[p + i]
          \/ x \in 1..Len(b) /\ q + x \in 1..Len(w) /\ s[i] = w[q + x]
      BY <1>12
    <3>3. \/ j \in 1..Len(a) /\ p + j \in 1..Len(u) /\ s[j] = u[p + j]
          \/ y \in 1..Len(b) /\ q + y \in 1..Len(w) /\ s[j] = w[q + y]
      BY <1>12
    <3> HIDE DEF x, y
    <3>4. CASE p + i \in 1..Len(u) /\ s[i] = u[p + i] /\ p + j \in 1..Len(u) /\ s[j] = u[p + j]
      <4>1. p + i = p + j
        BY <1>9, <2>1, <3>4
      <4>2. QED
        BY <1>2, <3>1, <4>1
    <3>5. CASE x \in 1..Len(b) /\ q + x \in 1..Len(w) /\ s[i] = w[q + x]
               /\ y \in 1..Len(b) /\ q + y \in 1..Len(w) /\ s[j] = w[q + y]
      <4>1. q + x = q + y
        BY <1>10, <2>1, <3>5
      <4>2. x \in Int /\ y \in Int /\ x = y
        BY <1>3, <3>5, <4>1
      <4>3. QED
        BY <3>1, <4>2
    <3>6. CASE p + i \in 1..Len(u) /\ s[i] = u[p + i] /\ q + y \in 1..Len(w) /\ s[j] = w[q + y]
      BY <1>11, <2>1, <3>6
    <3>7. CASE q + x \in 1..Len(w) /\ s[i] = w[q + x] /\ p + j \in 1..Len(u) /\ s[j] = u[p + j]
      BY <1>11, <2>1, <3>7
    <3>8. QED
      BY <3>2, <3>3, <3>4, <3>5, <3>6, <3>7
  <2>2. QED
    BY <2>1 DEF Timed
<1>14. t = Merged(s)
  BY DEF t, s, a, b
<1>15. /\ Range(t) \subseteq Range(s)
       /\ Len(t) = Len(s) - Skips(s, Backlog) /\ Len(t) \in Nat
       /\ \A i, j \in DOMAIN t : i < j => t[i].ts < t[j].ts
       /\ \A e \in Range(t), d \in Range(s) \ Range(t) : d.ts < e.ts
       /\ \A e \in Range(t), P \in SUBSET DOMAIN s :
             (\A i \in P : e.ts < s[i].ts) => Cardinality(P) < Backlog
  BY <1>7, <1>13, <1>14, MergedIs
<1>16. Cardinality(all) = Len(u) + Len(w)
  <2> DEFINE c == u \o w
  <2>1. c \in Seq(S) /\ Len(c) = Len(u) + Len(w) /\ Range(c) = all
    BY <1>0, ConcatItems
  <2>2. Once(u) /\ Once(w)
    BY <1>2, <1>3, <1>9, <1>10 DEF Once
  <2>3. Range(u) \cap Range(w) = {}
    BY <1>2, <1>3, <1>11 DEF Range
  <2>4. Once(c)
    BY <2>2, <2>3, ConcatOnce
  <2> HIDE DEF c
  <2>5. QED
    BY <2>1, <2>4, OnceSize
<1>17. Len(t) = Min({Backlog, Cardinality(all)})
  <2> DEFINE x == Len(u) + Len(w)
  <2>1. x \in Nat /\ Cardinality(all) = x
    BY <1>2, <1>3, <1>16
  <2>2. Len(t) = IF x <= Backlog THEN x ELSE Backlog
    <3>1. Len(t) = IF Len(s) > Backlog THEN Len(s) - (Len(s) - Backlog) ELSE Len(s) - 0
      BY <1>15 DEF Skips
    <3>2. Len(s) = Len(a) + Len(b) /\ Len(s) \in Nat
      BY <1>2, <1>3, <1>7
    <3> DEFINE m == Len(u)
               n == Len(w)
               k == Len(s)
    <3>3. m \in Nat /\ n \in Nat /\ k \in Nat
          /\ k = (IF m > Backlog THEN Backlog ELSE m) + (IF n > Backlog THEN Backlog ELSE n)
          /\ Len(t) = IF k > Backlog THEN k - (k - Backlog) ELSE k - 0
      BY <1>2, <1>3, <1>4, <1>5, <3>1, <3>2
    <3> HIDE DEF m, n, k
    <3>4. Len(t) = IF m + n <= Backlog THEN m + n ELSE Backlog
      BY <1>1, <3>3
    <3>5. QED
      BY <3>4 DEF m, n
  <2> HIDE DEF x
  <2>3. /\ Backlog <= x => Min({Backlog, x}) = Backlog
        /\ x <= Backlog => Min({Backlog, x}) = x
    BY <1>1, <2>1, MinOfTwo
  <2>4. Len(t) = Min({Backlog, x})
    BY <1>1, <2>1, <2>2, <2>3
  <2>5. QED
    BY <2>1, <2>4
<1> DEFINE Shown(c, k, P) ==
               /\ InTime(c) /\ DOMAIN c = 1..(k + Backlog)
               /\ \A j \in 1..(k + Backlog) : c[j].ts \in Nat
               /\ P \in SUBSET DOMAIN s /\ Cardinality(P) = Backlog
               /\ \A h \in P : \E j \in 1..Backlog : s[h] = c[k + j]
<1>18. ASSUME NEW e \in Range(t), NEW c, NEW k \in Nat, NEW i \in 1..k,
              NEW P, Shown(c, k, P)
       PROVE  c[i].ts < e.ts
  <2>1. SUFFICES ASSUME ~(c[i].ts < e.ts) PROVE FALSE
    OBVIOUS
  <2>2. e.ts \in Nat
    <3>1. e \in Range(s)
      BY <1>15
    <3>2. PICK h \in DOMAIN s : e = s[h]
      BY <3>1 DEF Range
    <3>3. e \in S
      BY <1>7, <3>2, ElementOfSeq
    <3>4. QED
      BY <3>3
  <2>3. i \in 1..(k + Backlog) /\ c[i].ts \in Nat
    <3>1. i \in 1..(k + Backlog)
      BY <1>1
    <3>2. QED
      BY <1>18, <3>1
  <2>4. ASSUME NEW h \in P PROVE e.ts < s[h].ts
    <3>1. PICK j \in 1..Backlog : s[h] = c[k + j]
      BY <1>18
    <3>2. k + j \in 1..(k + Backlog) /\ i < k + j
      BY <1>1
    <3>3. c[i].ts < c[k + j].ts /\ c[k + j].ts \in Nat
      BY <1>18, <2>3, <3>2 DEF InTime
    <3>4. QED
      BY <2>1, <2>2, <2>3, <3>1, <3>3
  <2>5. P \in SUBSET DOMAIN s /\ \A h \in P : e.ts < s[h].ts
    BY <1>18, <2>4
  <2>6. Cardinality(P) < Backlog /\ Cardinality(P) = Backlog
    <3>1. Cardinality(P) = Backlog
      BY <1>18
    <3> HIDE DEF Shown
    <3>2. QED
      BY <1>15, <2>5, <3>1
  <2>7. QED
    BY <1>1, <2>6
<1> HIDE DEF Shown
<1>19. ASSUME NEW e \in Range(t), NEW d \in all \ Range(t) PROVE d.ts < e.ts
  <2>1. CASE d \in Range(s)
    BY <1>15, <2>1
  <2>2. CASE d \in Range(u) /\ d \notin Range(s)
    <3>1. PICK i \in 1..Len(u) : d = u[i]
      BY <1>2, <2>2 DEF Range
    <3>2. \A j \in 1..Len(a) : a[j] \in Range(s)
      BY <1>2, <1>7 DEF Range
    <3>3. i \in 1..p
      <4>1. ASSUME i > p PROVE FALSE
        <5>1. i - p \in 1..Len(a) /\ p + (i - p) = i
          BY <1>2, <4>1
        <5>2. a[i - p] = d
          BY <1>2, <3>1, <5>1
        <5>3. QED
          BY <2>2, <3>2, <5>1, <5>2
      <4>2. QED
        BY <1>2, <4>1
    <3>4. Len(a) = Backlog /\ Len(u) = p + Backlog
      BY <1>1, <1>2, <3>3
    <3>5. DOMAIN u = 1..(p + Backlog) /\ \A j \in 1..(p + Backlog) : u[j].ts \in Nat
      BY <1>2, <1>8, <3>4
    <3> DEFINE P == 1..Backlog
    <3>6. P \in SUBSET DOMAIN s /\ \A h \in P : \E j \in 1..Backlog : s[h] = u[p + j]
      <4>1. \A h \in 1..Len(a) : h \in DOMAIN s /\ s[h] = u[p + h]
        BY <1>2, <1>3, <1>7
      <4>2. QED
        BY <3>4, <4>1
    <3>7. Cardinality(P) = Backlog
      <4>1. 1 \in Int /\ Backlog \in Int
        BY <1>1
      <4>2. Cardinality(P) = IF 1 > Backlog THEN 0 ELSE Backlog - 1 + 1
        BY <4>1, FS_Interval
      <4> HIDE DEF P
      <4>3. QED
        BY <1>1, <4>2
    <3> HIDE DEF P
    <3>8. Shown(u, p, P)
      BY <3>5, <3>6, <3>7 DEF Shown
    <3>9. u[i].ts < e.ts
      BY <1>2, <1>18, <3>3, <3>8
    <3>10. QED
      BY <3>1, <3>9
  <2>3. CASE d \in Range(w) /\ d \notin Range(s)
    <3>1. PICK i \in 1..Len(w) : d = w[i]
      BY <1>3, <2>3 DEF Range
    <3>2. \A j \in 1..Len(b) : b[j] \in Range(s)
      BY <1>3, <1>7 DEF Range
    <3>3. i \in 1..q
      <4>1. ASSUME i > q PROVE FALSE
        <5>1. i - q \in 1..Len(b) /\ q + (i - q) = i
          BY <1>3, <4>1
        <5>2. b[i - q] = d
          BY <1>3, <3>1, <5>1
        <5>3. QED
          BY <2>3, <3>2, <5>1, <5>2
      <4>2. QED
        BY <1>3, <4>1
    <3>4. Len(b) = Backlog /\ Len(w) = q + Backlog
      BY <1>1, <1>3, <3>3
    <3>5. DOMAIN w = 1..(q + Backlog) /\ \A j \in 1..(q + Backlog) : w[j].ts \in Nat
      BY <1>3, <1>8, <3>4
    <3> DEFINE x == Len(a) + 1
               y == Len(a) + Backlog
               P == x..y
    <3>6. P \in SUBSET DOMAIN s /\ \A h \in P : \E j \in 1..Backlog : s[h] = w[q + j]
      <4>1. ASSUME NEW j \in 1..Backlog
            PROVE  Len(a) + j \in DOMAIN s /\ s[Len(a) + j] = w[q + j]
        <5>1. j \in 1..Len(b)
          BY <3>4
        <5>2. Len(a) + j \in 1..(Len(a) + Len(b))
          BY <1>2, <1>3, <5>1
        <5>3. s[Len(a) + j] = b[j]
          BY <1>7, <5>1
        <5>4. b[j] = w[q + j]
          BY <1>3, <5>1
        <5>5. QED
          BY <1>7, <5>2, <5>3, <5>4
      <4>2. \A h \in P : h - Len(a) \in 1..Backlog /\ Len(a) + (h - Len(a)) = h
        BY <1>1, <1>2
      <4>3. QED
        BY <4>1, <4>2
    <3>7. Cardinality(P) = Backlog
      <4>1. x \in Int /\ y \in Int /\ y - x + 1 = Backlog /\ (x > y => Backlog = 0)
        BY <1>1, <1>2
      <4> HIDE DEF x, y
      <4>2. Cardinality(P) = IF x > y THEN 0 ELSE y - x + 1
        BY <4>1, FS_Interval
      <4> HIDE DEF P
      <4>3. QED
        BY <4>1, <4>2
    <3> HIDE DEF P
    <3>8. Shown(w, q, P)
      BY <3>5, <3>6, <3>7 DEF Shown
    <3>9. w[i].ts < e.ts
      BY <1>3, <1>18, <3>3, <3>8
    <3>10. QED
      BY <3>1, <3>9
  <2>4. QED
    BY <1>0, <2>1, <2>2, <2>3
<1>20. Range(t) \subseteq all
  BY <1>0, <1>6, <1>7, <1>15
<1>21. QED
  BY <1>15, <1>17, <1>19, <1>20 DEF IsLatest, InTime, all, t

\* What happens to the scanned texts when a log grows by a byte.
LEMMA ScannedAppend ==
    ASSUME NEW s \in Bytes, NEW x \in Nat, NEW u, u = Split(s), NEW v, v = Split(Append(s, x))
    PROVE  /\ u.texts \in Seq(Bytes) /\ u.rest \in Bytes
           /\ Scanned(s) = (IF u.rest = <<>> THEN u.texts ELSE Append(u.texts, u.rest))
           /\ x # Newline =>
                 /\ v.rest # <<>>
                 /\ Scanned(Append(s, x)) = Append(u.texts, Append(u.rest, x))
           /\ x = Newline /\ u.rest # <<>> => Scanned(Append(s, x)) = Scanned(s)
<1>1. u \in Splits /\ u.texts \in Seq(Bytes) /\ u.rest \in Bytes
  BY SplitType DEF Splits
<1>2. v = SplitStep(u, x)
  BY SplitAppend
<1>3. /\ Scanned(s) = (IF u.rest = <<>> THEN u.texts ELSE Append(u.texts, u.rest))
      /\ Scanned(Append(s, x)) = (IF v.rest = <<>> THEN v.texts ELSE Append(v.texts, v.rest))
  BY DEF Scanned
<1>4. Append(u.rest, x) # <<>>
  <2> DEFINE r == u.rest
  <2>1. r \in Seq(Nat)
    BY <1>1 DEF Bytes
  <2> HIDE DEF r
  <2>2. Append(r, x) # <<>>
    BY <2>1, AppendProperties
  <2>3. QED
    BY <2>2 DEF r
<1>5. x # Newline => v.texts = u.texts /\ v.rest = Append(u.rest, x)
  <2>1. x # Newline => v = [texts |-> u.texts, rest |-> Append(u.rest, x)]
    BY <1>1, <1>2, StepCases
  <2>2. QED
    BY <2>1
<1>6. x = Newline => v.texts = Append(u.texts, u.rest) /\ v.rest = <<>>
  <2>1. x = Newline => v = [texts |-> Append(u.texts, u.rest), rest |-> <<>>]
    BY <1>1, <1>2, StepCases
  <2>2. QED
    BY <2>1
<1>7. QED
  BY <1>1, <1>3, <1>4, <1>5, <1>6

\* The time of a text is its first line's.
LEMMA HeadIs ==
    ASSUME NEW r \in Bytes, NEW x \in Nat
    PROVE  /\ Append(r, x) \in Bytes /\ Append(r, x) # <<>>
           /\ r = <<>> => Head(Append(r, x)) = x
           /\ r # <<>> => Head(Append(r, x)) = Head(r) /\ Head(r) \in Nat
<1> DEFINE a == Append(r, x)
<1>1. /\ a \in Seq(Nat) /\ a # <<>> /\ Len(a) = Len(r) + 1 /\ a[Len(r) + 1] = x
      /\ \A i \in 1..Len(r) : a[i] = r[i]
  BY AppendProperties DEF Bytes
<1>2. r \in Seq(Nat) /\ Len(r) \in Nat
  BY LenProperties DEF Bytes
<1> HIDE DEF a
<1>3. Head(a) = a[1]
  BY <1>1
<1>4. CASE r = <<>>
  <2>1. Len(r) = 0
    BY <1>4, EmptySeq
  <2>2. QED
    BY <1>1, <1>3, <1>4, <2>1 DEF a, Bytes
<1>5. CASE r # <<>>
  <2>1. Len(r) # 0 /\ 1 \in 1..Len(r)
    BY <1>2, <1>5, EmptySeq
  <2>2. Head(r) = r[1] /\ r[1] \in Nat
    BY <1>2, <1>5, <2>1, ElementOfSeq
  <2>3. a[1] = r[1]
    BY <1>1, <2>1
  <2>4. QED
    BY <1>1, <1>3, <1>5, <2>2, <2>3 DEF a, Bytes
<1>6. QED
  BY <1>4, <1>5

\* The texts of a log begin with lines that were written one after the other.
Rising(T, n) ==
    /\ T \in Seq(Bytes)
    /\ \A i \in DOMAIN T : T[i] # <<>> /\ Head(T[i]) \in 1..n
    /\ \A i, j \in DOMAIN T : i < j => Head(T[i]) < Head(T[j])

\* No line is in both logs.
Apart(T, U) == \A i \in DOMAIN T, j \in DOMAIN U : Head(T[i]) # Head(U[j])

\* The texts after a line was begun: one more, or the last of them goes on.
LEMMA BeginRises ==
    ASSUME NEW s \in Bytes, NEW n \in Nat, Rising(Scanned(s), n),
           NEW x, x = n + 1, NEW t, t = Scanned(Append(s, x))
    PROVE  /\ Rising(t, x)
           /\ \A U : Rising(U, n) =>
                 /\ Rising(U, x)
                 /\ Apart(Scanned(s), U) => Apart(t, U)
                 /\ Apart(U, Scanned(s)) => Apart(U, t)
           /\ Split(Append(s, x)).rest # <<>>
<1> DEFINE u == Split(s)
           w == Append(u.texts, Append(u.rest, x))
           o == Scanned(s)
           m == Len(u.texts)
<1>1. x \in Nat /\ x # Newline /\ x > n
  BY DEF Newline
<1>2. /\ u.texts \in Seq(Bytes) /\ u.rest \in Bytes
      /\ o = (IF u.rest = <<>> THEN u.texts ELSE Append(u.texts, u.rest))
      /\ t = w /\ Split(Append(s, x)).rest # <<>>
  BY <1>1, ScannedAppend
<1>3. /\ Append(u.rest, x) \in Bytes /\ Append(u.rest, x) # <<>>
      /\ u.rest = <<>> => Head(Append(u.rest, x)) = x
      /\ u.rest # <<>> => Head(Append(u.rest, x)) = Head(u.rest)
  BY <1>1, <1>2, HeadIs
<1>4. m \in Nat /\ DOMAIN u.texts = 1..m
  BY <1>2, LenProperties
<1>5. /\ w \in Seq(Bytes) /\ Len(w) = m + 1 /\ w[m + 1] = Append(u.rest, x)
      /\ \A i \in 1..m : w[i] = u.texts[i]
  BY <1>2, <1>3, AppendProperties
<1>6. DOMAIN t = 1..(m + 1) /\ t \in Seq(Bytes)
  BY <1>2, <1>5, LenProperties
<1>7. \A i \in 1..m : i \in DOMAIN o /\ t[i] = o[i]
  <2>1. CASE u.rest = <<>>
    BY <1>2, <1>4, <1>5, <2>1
  <2>2. CASE u.rest # <<>>
    <3>1. o = Append(u.texts, u.rest)
      BY <1>2, <2>2
    <3>2. o \in Seq(Bytes) /\ Len(o) = m + 1 /\ \A i \in 1..m : o[i] = u.texts[i]
      BY <1>2, <3>1, AppendProperties
    <3> HIDE DEF o, w, m
    <3>3. DOMAIN o = 1..(m + 1)
      BY <3>2, LenProperties
    <3>4. \A i \in 1..m : i \in 1..(m + 1)
      BY <1>4
    <3>5. t = w
      BY <1>2
    <3>6. QED
      BY <1>5, <3>2, <3>3, <3>4, <3>5
  <2>3. QED
    BY <2>1, <2>2
<1>8. \/ Head(t[m + 1]) = x
      \/ m + 1 \in DOMAIN o /\ Head(t[m + 1]) = Head(o[m + 1])
  <2>1. CASE u.rest = <<>>
    BY <1>2, <1>3, <1>5, <2>1
  <2>2. CASE u.rest # <<>>
    <3>1. o = Append(u.texts, u.rest)
      BY <1>2, <2>2
    <3>2. o \in Seq(Bytes) /\ Len(o) = m + 1 /\ o[m + 1] = u.rest
      BY <1>2, <3>1, AppendProperties
    <3>3. m + 1 \in DOMAIN o
      BY <1>4, <3>2, LenProperties
    <3>4. QED
      BY <1>2, <1>3, <1>5, <2>2, <3>2, <3>3
  <2>3. QED
    BY <2>1, <2>2
<1>9. t[m + 1] # <<>>
  BY <1>2, <1>3, <1>5
<1> HIDE DEF u, w, o, m
<1>10. /\ \A i \in DOMAIN o : o[i] # <<>> /\ Head(o[i]) \in 1..n
       /\ \A i, j \in DOMAIN o : i < j => Head(o[i]) < Head(o[j])
  BY DEF Rising, o
<1> DEFINE ht == [i \in 1..(m + 1) |-> Head(t[i])]
           ho == [i \in DOMAIN o |-> Head(o[i])]
<1>11. /\ \A i \in 1..m : i \in DOMAIN o /\ ht[i] = ho[i]
       /\ ht[m + 1] = x \/ (m + 1 \in DOMAIN o /\ ht[m + 1] = ho[m + 1])
       /\ \A i \in DOMAIN o : ho[i] \in 1..n
       /\ \A i, j \in DOMAIN o : i < j => ho[i] < ho[j]
       /\ \A i \in 1..(m + 1) : ht[i] = Head(t[i])
  <2>1. \A i \in 1..m : i \in 1..(m + 1) /\ i \in DOMAIN o /\ ht[i] = ho[i]
    BY <1>4, <1>7
  <2>2. m + 1 \in 1..(m + 1)
    BY <1>4
  <2>3. ht[m + 1] = x \/ (m + 1 \in DOMAIN o /\ ht[m + 1] = ho[m + 1])
    BY <1>8, <2>2
  <2>4. /\ \A i \in DOMAIN o : ho[i] \in 1..n
        /\ \A i, j \in DOMAIN o : i < j => ho[i] < ho[j]
    BY <1>10
  <2>5. QED
    BY <2>1, <2>3, <2>4
<1>12. \A i \in DOMAIN o : ho[i] = Head(o[i])
  OBVIOUS
<1> HIDE DEF ht, ho
<1>13. \A i \in 1..(m + 1) : i \in 1..m \/ i = m + 1
  BY <1>4
<1>14. Rising(t, x)
  <2>1. \A i \in 1..(m + 1) : t[i] # <<>>
    BY <1>7, <1>9, <1>10, <1>13
  <2>2. \A i \in 1..(m + 1) : ht[i] \in 1..x
    <3>1. \A i \in 1..m : ht[i] \in 1..n
      BY <1>11
    <3>2. ht[m + 1] = x \/ ht[m + 1] \in 1..n
      BY <1>11
    <3>3. QED
      BY <1>1, <1>13, <3>1, <3>2
  <2>3. ASSUME NEW i \in 1..(m + 1), NEW j \in 1..(m + 1), i < j PROVE ht[i] < ht[j]
    <3>1. i \in 1..m /\ i \in DOMAIN o /\ ht[i] = ho[i] /\ ho[i] \in 1..n
      BY <1>4, <1>11, <2>3
    <3>2. ht[j] = x \/ (j \in DOMAIN o /\ ht[j] = ho[j])
      BY <1>11, <1>13
    <3>3. QED
      BY <1>1, <1>11, <2>3, <3>1, <3>2
  <2>4. /\ \A i \in DOMAIN t : t[i] # <<>> /\ Head(t[i]) \in 1..x
        /\ \A i, j \in DOMAIN t : i < j => Head(t[i]) < Head(t[j])
    <3>1. \A i \in DOMAIN t : ht[i] = Head(t[i])
      BY <1>6, <1>11
    <3>2. \A i \in DOMAIN t : t[i] # <<>> /\ ht[i] \in 1..x
      BY <1>6, <2>1, <2>2
    <3>3. \A i, j \in DOMAIN t : i < j => ht[i] < ht[j]
      BY <1>6, <2>3
    <3>4. QED
      BY <3>1, <3>2, <3>3
  <2>5. QED
    BY <1>6, <2>4 DEF Rising
<1>15. ASSUME NEW i \in DOMAIN t
       PROVE  Head(t[i]) = x \/ (i \in DOMAIN o /\ Head(t[i]) = Head(o[i]))
  BY <1>6, <1>11, <1>12, <1>13
<1>16. ASSUME NEW U, Rising(U, n)
       PROVE  /\ Rising(U, x)
              /\ Apart(o, U) => Apart(t, U)
              /\ Apart(U, o) => Apart(U, t)
  <2>1. \A j \in DOMAIN U : Head(U[j]) \in 1..n
    BY <1>16 DEF Rising
  <2>2. \A j \in DOMAIN U : Head(U[j]) \in 1..x /\ Head(U[j]) # x
    BY <1>1, <2>1
  <2>3. Rising(U, x)
    BY <1>16, <2>2 DEF Rising
  <2>4. Apart(o, U) => Apart(t, U)
    BY <1>15, <2>2 DEF Apart
  <2>5. Apart(U, o) => Apart(U, t)
    BY <1>15, <2>2 DEF Apart
  <2>6. QED
    BY <2>3, <2>4, <2>5
<1>17. QED
  BY <1>2, <1>14, <1>16 DEF o

\* The events of texts that are all shown.
EventsOf(T) == [i \in DOMAIN T |-> [ts |-> Head(T[i]), text |-> T[i]]]

\* Cutting texts to the last ones is cutting their events, if all are shown.
LEMMA EventsAre ==
    ASSUME NEW f \in Files, NEW T, NEW n, Rising(T, n), n \in Nat, Rendered(f, T) = T,
           NEW u, u = EventsOf(T)
    PROVE  /\ u \in Seq([ts : Nat, text : Bytes]) /\ InTime(u)
           /\ DOMAIN u = DOMAIN T /\ \A i \in DOMAIN T : u[i].ts = Head(T[i])
           /\ Events(f, T) = u
           /\ Events(f, LastOf(T, Backlog)) = LastOf(u, Backlog)
<1> DEFINE S == [ts : Nat, text : Bytes]
           shown(t) == Len(t) = 1 \/ (f = RouterLog /\ t # <<>>)
           L == LastOf(T, Backlog)
           k == Skips(T, Backlog)
<1>1. T \in Seq(Bytes) /\ Backlog \in Nat
  BY FollowerAssumption DEF Rising
<1>2. Len(T) \in Nat /\ DOMAIN T = 1..Len(T) /\ \A i \in DOMAIN T : T[i] \in Bytes
  BY <1>1, LenProperties, ElementOfSeq
<1>3. \A i \in DOMAIN T : [ts |-> Head(T[i]), text |-> T[i]] \in S
  <2>1. \A i \in DOMAIN T : Head(T[i]) \in Nat
    BY DEF Rising
  <2>2. QED
    BY <1>2, <2>1
<1>4. u \in Seq(S) /\ Len(u) = Len(T)
  <2>1. u \in [1..Len(T) -> S] /\ DOMAIN u = 1..Len(T)
    BY <1>2, <1>3 DEF EventsOf
  <2> HIDE DEF S
  <2>2. u \in Seq(S)
    BY <1>2, <2>1, FunctionIsSeq
  <2>3. QED
    BY <1>2, <2>1, <2>2, LenProperties
<1>5. /\ DOMAIN u = DOMAIN T
      /\ \A i \in DOMAIN T : u[i] = [ts |-> Head(T[i]), text |-> T[i]] /\ u[i].ts = Head(T[i])
  BY DEF EventsOf
<1>6. InTime(u)
  BY <1>5 DEF InTime, Rising
<1>7. Events(f, T) = u
  BY DEF Events, EventsOf
<1>8. \A i \in DOMAIN T : shown(T[i])
  <2> DEFINE D == {t \in ToSet(T) : shown(t)}
  <2>1. Only(T, D) = T
    BY DEF Rendered
  <2>2. \A t \in D : shown(t)
    OBVIOUS
  <2> HIDE DEF D, shown
  <2>3. Range(T) = Range(T) \cap D
    BY <1>1, <2>1, OnlyRange
  <2>4. QED
    BY <2>2, <2>3 DEF Range
<1> HIDE DEF shown
<1>9. /\ L \in Seq(Bytes) /\ k \in Nat /\ Len(L) = Len(T) - k /\ Len(L) \in Nat
      /\ DOMAIN L = 1..Len(L)
      /\ \A i \in 1..Len(L) : k + i \in 1..Len(T) /\ L[i] = T[k + i]
  BY <1>1, LastOfIs
<1> HIDE DEF L, k
<1>10. Rendered(f, L) = L
  <2> DEFINE D == {t \in ToSet(L) : shown(t)}
  <2>1. Rendered(f, L) = Only(L, D)
    BY DEF Rendered, shown
  <2>2. \A i \in DOMAIN L : shown(L[i])
    BY <1>2, <1>8, <1>9
  <2>3. Range(L) \subseteq D
    BY <2>2 DEF Range, ToSet
  <2> HIDE DEF D
  <2>4. QED
    BY <1>9, <2>1, <2>3, OnlyAll
<1>11. Events(f, L) = EventsOf(L)
  BY <1>10 DEF Events, EventsOf
<1> DEFINE v == LastOf(u, Backlog)
           q == Skips(u, Backlog)
<1>12. q = k
  BY <1>4 DEF Skips, k
<1>13. /\ v \in Seq(S) /\ Len(v) = Len(u) - q
       /\ DOMAIN v = 1..Len(v)
       /\ \A i \in 1..Len(v) : v[i] = u[q + i]
  <2> HIDE DEF S
  <2>1. QED
    BY <1>1, <1>4, LastOfIs
<1> HIDE DEF v, q
<1>14. EventsOf(L) = v
  <2>1. DOMAIN v = DOMAIN L
    BY <1>4, <1>9, <1>12, <1>13
  <2>2. ASSUME NEW i \in DOMAIN L PROVE v[i] = [ts |-> Head(L[i]), text |-> L[i]]
    <3>1. k + i \in DOMAIN T /\ L[i] = T[k + i] /\ v[i] = u[k + i]
      BY <1>2, <1>4, <1>9, <1>12, <1>13
    <3>2. QED
      BY <1>5, <3>1
  <2>3. v = [i \in DOMAIN v |-> v[i]]
    BY <1>13
  <2>4. QED
    BY <2>1, <2>2, <2>3 DEF EventsOf
<1>15. QED
  BY <1>4, <1>5, <1>6, <1>7, <1>11, <1>14 DEF L, v

-----------------------------------------------------------------------------
\* Each log holds its lines in the order they were begun, and no line is in
\* both; a write in progress has something to end.
LogsOK ==
    /\ \A f \in Files : /\ Rising(Scanned(content[f]), lines)
                        /\ f \in writing => Split(content[f]).rest # <<>>
    /\ Apart(Scanned(content[RouterLog]), Scanned(content[StatsLog]))

\* What was taken from the router's log stays so while that log goes on, or is
\* replaced, before the other one is read.
StartOK ==
    turn = "started" =>
        /\ Rising(told[RouterLog], lines)
        /\ Apart(told[RouterLog], Scanned(content[StatsLog]))
        /\ backlog = Events(RouterLog, LastOf(told[RouterLog], Backlog))

BacklogInv == FTypes /\ LogsOK /\ StartOK

\* Of an empty log there are no texts.
LEMMA NoTexts ==
    /\ Scanned(<<>>) = <<>> /\ DOMAIN Scanned(<<>>) = {}
    /\ \A n : Rising(Scanned(<<>>), n)
    /\ \A T : Apart(T, Scanned(<<>>)) /\ Apart(Scanned(<<>>), T)
<1>1. Scanned(<<>>) = <<>>
  BY SplitEmpty DEF Scanned, Split0
<1>2. <<>> \in Seq(Bytes) /\ DOMAIN <<>> = {}
  BY EmptySeq, LenProperties
<1>3. QED
  BY <1>1, <1>2 DEF Rising, Apart

\* The first state has nothing in it.
LEMMA InitBacklog == Init => BacklogInv
<1> SUFFICES ASSUME Init PROVE BacklogInv
  OBVIOUS
<1>1. \A f \in Files : content[f] = <<>> /\ f \notin writing
  BY DEF Init
<1>2. RouterLog \in Files /\ StatsLog \in Files
  BY DEF Files
<1>3. LogsOK
  BY <1>1, <1>2, NoTexts DEF LogsOK
<1>4. turn = "start"
  BY DEF Init
<1>5. QED
  BY <1>3, <1>4, InitFTypes DEF BacklogInv, StartOK

\* A line that is begun is the latest of all.
LEMMA BeginKeeps ==
    ASSUME BacklogInv, NEW f \in Files, BeginWrite(f) PROVE LogsOK' /\ StartOK'
<1> DEFINE c(g) == Scanned(content[g])
<1>1. /\ lines \in Nat /\ lines' = lines + 1
      /\ content[f] \in Bytes
      /\ content' = [content EXCEPT ![f] = Append(content[f], lines')]
      /\ writing' = writing \cup {f}
      /\ UNCHANGED <<turn, told, backlog>>
  BY DEF BacklogInv, FTypes, BeginWrite
<1>2. /\ content'[f] = Append(content[f], lines')
      /\ \A g \in Files : g # f => content'[g] = content[g]
  BY <1>1 DEF BacklogInv, FTypes
<1>3. RouterLog \in Files /\ StatsLog \in Files /\ Files = {RouterLog, StatsLog}
      /\ RouterLog # StatsLog
  BY FollowerAssumption DEF Files
<1>4. /\ \A g \in Files : Rising(c(g), lines)
      /\ \A g \in Files : g \in writing => Split(content[g]).rest # <<>>
      /\ Apart(c(RouterLog), c(StatsLog))
  BY DEF BacklogInv, LogsOK
<1> DEFINE t == Scanned(Append(content[f], lines'))
<1>5. /\ Rising(t, lines')
      /\ \A U : Rising(U, lines) =>
            /\ Rising(U, lines')
            /\ Apart(c(f), U) => Apart(t, U)
            /\ Apart(U, c(f)) => Apart(U, t)
      /\ Split(Append(content[f], lines')).rest # <<>>
  <2>1. Rising(Scanned(content[f]), lines)
    BY <1>4
  <2>2. QED
    BY <1>1, <2>1, BeginRises
<1>6. /\ Scanned(content'[f]) = t
      /\ \A g \in Files : g # f => Scanned(content'[g]) = c(g)
  BY <1>2
<1>7. \A g \in Files : g \in writing' => Split(content'[g]).rest # <<>>
  BY <1>1, <1>2, <1>4, <1>5
<1> HIDE DEF c, t
<1>8. \A g \in Files : Rising(Scanned(content'[g]), lines')
  BY <1>4, <1>5, <1>6
<1>9. Apart(Scanned(content'[RouterLog]), Scanned(content'[StatsLog]))
  <2>1. CASE f = RouterLog
    BY <1>3, <1>4, <1>5, <1>6, <2>1
  <2>2. CASE f = StatsLog
    BY <1>3, <1>4, <1>5, <1>6, <2>2
  <2>3. QED
    BY <1>3, <2>1, <2>2
<1>10. LogsOK'
  BY <1>7, <1>8, <1>9 DEF LogsOK
<1>11. StartOK'
  <2>1. SUFFICES ASSUME turn = "started"
        PROVE  /\ Rising(told[RouterLog], lines')
               /\ Apart(told[RouterLog], Scanned(content'[StatsLog]))
               /\ backlog = Events(RouterLog, LastOf(told[RouterLog], Backlog))
    BY <1>1 DEF StartOK
  <2>2. /\ Rising(told[RouterLog], lines)
        /\ Apart(told[RouterLog], c(StatsLog))
        /\ backlog = Events(RouterLog, LastOf(told[RouterLog], Backlog))
    BY <2>1 DEF BacklogInv, StartOK, c
  <2>3. Rising(told[RouterLog], lines')
    BY <1>5, <2>2
  <2>4. Apart(told[RouterLog], Scanned(content'[StatsLog]))
    <3>1. CASE f = StatsLog
      BY <1>5, <1>6, <2>2, <3>1
    <3>2. CASE f # StatsLog
      BY <1>3, <1>6, <2>2, <3>2
    <3>3. QED
      BY <3>1, <3>2
  <2>5. QED
    BY <2>2, <2>3, <2>4
<1>12. QED
  BY <1>10, <1>11

\* Neither the end of a write nor a replaced file adds a line.
LEMMA LessKeeps ==
    ASSUME LogsOK, StartOK, UNCHANGED <<lines, turn, told, backlog>>,
           writing' \subseteq writing, NEW f \in Files,
           \A g \in Files : g # f => content'[g] = content[g],
           \/ Scanned(content'[f]) = Scanned(content[f])
           \/ content'[f] = <<>>,
           f \in writing' => content'[f] = content[f]
    PROVE  LogsOK' /\ StartOK'
<1>1. RouterLog \in Files /\ StatsLog \in Files
  BY DEF Files
<1>2. /\ \A g \in Files : Rising(Scanned(content[g]), lines)
      /\ \A g \in Files : g \in writing => Split(content[g]).rest # <<>>
      /\ Apart(Scanned(content[RouterLog]), Scanned(content[StatsLog]))
  BY DEF LogsOK
<1>3. \A g \in Files : Scanned(content'[g]) = Scanned(content[g]) \/ content'[g] = <<>>
  OBVIOUS
<1>4. \A g \in Files : Rising(Scanned(content'[g]), lines)
  BY <1>2, <1>3, NoTexts
<1>5. Apart(Scanned(content'[RouterLog]), Scanned(content'[StatsLog]))
  BY <1>1, <1>2, <1>3, NoTexts
<1>6. \A g \in Files : g \in writing' => Split(content'[g]).rest # <<>>
  BY <1>2
<1>7. LogsOK'
  BY <1>4, <1>5, <1>6 DEF LogsOK
<1>8. ASSUME Apart(told[RouterLog], Scanned(content[StatsLog]))
      PROVE  Apart(told[RouterLog], Scanned(content'[StatsLog]))
  BY <1>1, <1>3, <1>8, NoTexts
<1>9. StartOK'
  BY <1>8 DEF StartOK
<1>10. QED
  BY <1>7, <1>9

\* Every step preserves them.
LEMMA StepBacklog == BacklogInv /\ [Next]_vars => BacklogInv'
<1> SUFFICES ASSUME BacklogInv, [Next]_vars PROVE LogsOK' /\ StartOK'
  BY StepFTypes DEF BacklogInv
<1>1. LogsOK /\ StartOK /\ FTypes
  BY DEF BacklogInv
<1>2. RouterLog \in Files /\ StatsLog \in Files /\ RouterLog # StatsLog
  BY FollowerAssumption DEF Files
<1>3. ASSUME NEW f \in Files, BeginWrite(f) PROVE LogsOK' /\ StartOK'
  BY <1>3, BeginKeeps
<1>4. ASSUME NEW f \in Files, EndWrite(f) PROVE LogsOK' /\ StartOK'
  <2>1. /\ content[f] \in Bytes /\ content'[f] = Append(content[f], Newline)
        /\ \A g \in Files : g # f => content'[g] = content[g]
        /\ writing' = writing \ {f} /\ f \in writing
        /\ UNCHANGED <<lines, turn, told, backlog>>
    BY <1>1, <1>4 DEF EndWrite, FTypes
  <2>2. Split(content[f]).rest # <<>>
    BY <1>1, <2>1 DEF LogsOK
  <2>3. Newline \in Nat
    BY DEF Newline
  <2>4. Scanned(content'[f]) = Scanned(content[f])
    BY <2>1, <2>2, <2>3, ScannedAppend
  <2>5. QED
    BY <1>1, <2>1, <2>4, LessKeeps
<1>5. ASSUME NEW f \in Files, TearWrite(f) PROVE LogsOK' /\ StartOK'
  BY <1>1, <1>5, LessKeeps DEF TearWrite
<1>6. ASSUME NEW f \in Files, Rotate(f) PROVE LogsOK' /\ StartOK'
  <2>1. /\ content'[f] = <<>>
        /\ \A g \in Files : g # f => content'[g] = content[g]
        /\ writing' = writing \ {f}
        /\ UNCHANGED <<lines, turn, told, backlog>>
    BY <1>1, <1>6 DEF Rotate, FTypes
  <2>2. QED
    BY <1>1, <2>1, LessKeeps
<1>7. ASSUME UNCHANGED <<content, lines, writing>> PROVE LogsOK'
  BY <1>1, <1>7 DEF LogsOK
<1>8. CASE PrimeRouter
  <2>1. /\ UNCHANGED <<content, lines, writing>>
        /\ told'[RouterLog] = Scanned(content[RouterLog])
        /\ backlog' = Events(RouterLog, LastOf(Scanned(content[RouterLog]), Backlog))
    BY <1>1, <1>2, <1>8 DEF PrimeRouter, Prime, logs, FTypes
  <2>2. StartOK'
    BY <1>1, <1>2, <2>1 DEF StartOK, LogsOK
  <2>3. QED
    BY <1>7, <2>1, <2>2
<1>9. ASSUME UNCHANGED logs, turn' # "started" PROVE LogsOK' /\ StartOK'
  BY <1>7, <1>9 DEF logs, StartOK
<1>10. CASE PrimeStats \/ Tick \/ Stop
  BY <1>9, <1>10 DEF PrimeStats, Prime, Tick, Stop
<1>11. CASE StatRouter \/ StatStats
  BY <1>9, <1>11 DEF StatRouter, StatStats, Stat
<1>12. CASE ReadRouter \/ ReadStats
  BY <1>9, <1>12 DEF ReadRouter, ReadStats, Read
<1>13. CASE UNCHANGED vars
  BY <1>1, <1>13 DEF vars, logs, LogsOK, StartOK
<1>14. QED
  BY <1>3, <1>4, <1>5, <1>6, <1>8, <1>10, <1>11, <1>12, <1>13 DEF Next, Loop

\* The backlog of the two logs is made of their latest events and in order of
\* time, although each log is cut to its last lines before the merge, and goes
\* on or is replaced in between, unless a line is not an event (backlogEvents).
THEOREM LatestShown == Spec => BacklogIsLatest
<1>1. Init => BacklogInv
  BY InitBacklog
<1>2. BacklogInv /\ [Next]_vars => BacklogInv'
  BY StepBacklog
<1> DEFINE all == UNION {ToSet(Events(f, told'[f])) : f \in Files}
           plain == \A f \in Files : Rendered(f, told'[f]) = told'[f]
           Latest ==
               /\ ToSet(backlog') \subseteq all
               /\ Len(backlog') = Min({Backlog, Cardinality(all)})
               /\ \A i, j \in DOMAIN backlog' :
                     i < j => backlog'[i].ts < backlog'[j].ts
               /\ \A e \in ToSet(backlog'), d \in all \ ToSet(backlog') :
                     d.ts < e.ts
<1>3. ASSUME BacklogInv, [Next]_vars, turn = "started", turn' = "wait", plain
      PROVE  Latest
  <2>1. PrimeStats
    BY <1>3 DEF Next, vars, BeginWrite, EndWrite, TearWrite, Rotate, PrimeRouter, Loop,
                Tick, StatRouter, ReadRouter, StatStats, ReadStats, Stop
  <2>2. RouterLog \in Files /\ StatsLog \in Files /\ Files = {RouterLog, StatsLog}
        /\ RouterLog # StatsLog
    BY FollowerAssumption DEF Files
  <2> DEFINE T == told[RouterLog]
             U == Scanned(content[StatsLog])
             u == EventsOf(T)
             w == EventsOf(U)
             S == [ts : Nat, text : Bytes]
  <2>3. told'[RouterLog] = T /\ told'[StatsLog] = U
        /\ backlog' = Merged(backlog \o Events(StatsLog, LastOf(U, Backlog)))
    BY <1>3, <2>1, <2>2 DEF PrimeStats, Prime, BacklogInv, FTypes
  <2>4. /\ Rising(T, lines) /\ Rising(U, lines) /\ Apart(T, U) /\ lines \in Nat
        /\ backlog = Events(RouterLog, LastOf(T, Backlog))
    BY <1>3, <2>2 DEF BacklogInv, LogsOK, StartOK, FTypes
  <2>5. Rendered(RouterLog, T) = T /\ Rendered(StatsLog, U) = U
    BY <1>3, <2>2, <2>3
  <2> HIDE DEF T, U
  <2>6. /\ u \in Seq(S) /\ InTime(u)
        /\ DOMAIN u = DOMAIN T /\ \A i \in DOMAIN T : u[i].ts = Head(T[i])
        /\ Events(RouterLog, T) = u
        /\ Events(RouterLog, LastOf(T, Backlog)) = LastOf(u, Backlog)
    BY <2>2, <2>4, <2>5, EventsAre
  <2>7. /\ w \in Seq(S) /\ InTime(w)
        /\ DOMAIN w = DOMAIN U /\ \A i \in DOMAIN U : w[i].ts = Head(U[i])
        /\ Events(StatsLog, U) = w
        /\ Events(StatsLog, LastOf(U, Backlog)) = LastOf(w, Backlog)
    BY <2>2, <2>4, <2>5, EventsAre
  <2>8. \A e \in S : e.ts \in Nat
    OBVIOUS
  <2> HIDE DEF u, w, S
  <2>9. backlog' = Merged(LastOf(u, Backlog) \o LastOf(w, Backlog))
    BY <2>3, <2>4, <2>6, <2>7
  <2>10. \A i \in DOMAIN u, j \in DOMAIN w : u[i].ts # w[j].ts
    BY <2>4, <2>6, <2>7 DEF Apart
  <2>11. all = Range(u) \cup Range(w)
    <3>1. all = ToSet(Events(RouterLog, told'[RouterLog]))
                    \cup ToSet(Events(StatsLog, told'[StatsLog]))
      BY <2>2
    <3>2. all = ToSet(u) \cup ToSet(w)
      BY <2>3, <2>6, <2>7, <3>1
    <3>3. QED
      BY <3>2 DEF Range, ToSet
  <2>12. Range(backlog') = ToSet(backlog')
    BY DEF Range, ToSet
  <2> HIDE DEF all
  <2>13. IsLatest(backlog', all)
    <3>1. IsLatest(Merged(LastOf(u, Backlog) \o LastOf(w, Backlog)),
                   Range(u) \cup Range(w))
      <4>1. u \in Seq(S) /\ w \in Seq(S) /\ InTime(u) /\ InTime(w)
        BY <2>6, <2>7
      <4>2. QED
        BY <2>8, <2>10, <4>1, LatestOf
    <3>2. QED
      BY <2>9, <2>11, <3>1
  <2>14. QED
    BY <2>12, <2>13 DEF IsLatest, InTime
<1>4. BacklogInv /\ [Next]_vars =>
          [turn = "started" /\ turn' = "wait" => (plain => Latest)]_vars
  BY <1>3
<1>5. QED
  BY <1>1, <1>2, <1>4, PTL DEF Spec, BacklogIsLatest
=============================================================================
