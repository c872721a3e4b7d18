---------------------------- MODULE FoldTheorems ----------------------------
(***************************************************************************)
(* Facts about the recursions of the community modules that the proofs     *)
(* about the components need.  MapThenSumSet and FoldLeft are defined by   *)
(* MapThenFoldSet, a recursive function over the subsets of a set; here    *)
(* such a function is shown to exist and to be unique, from which follow   *)
(* the laws of sums.  The inductions are by a smallest counterexample:     *)
(* the well-foundedness of the naturals gives it (WFMin).                  *)
(***************************************************************************)
EXTENDS Integers, Sequences, FiniteSets, FiniteSetsExt, SequencesExt, Filters,
        FiniteSetTheorems, SequenceTheorems, WellFoundedInduction, TLAPS

\* A set of naturals that is not empty has a smallest element.
LEMMA SmallestNat ==
    ASSUME NEW T \in SUBSET Nat, T # {}
    PROVE  \E n \in T : \A m \in T : n <= m
<1> DEFINE R == {ss \in Nat \X Nat : ss[1] < ss[2]}
<1>1. IsWellFoundedOn(R, Nat)
  BY NatLessThanWellFounded DEF OpToRel
<1> HIDE DEF R
<1>2. PICK n \in T : \A m \in T : <<m, n>> \notin R
  BY <1>1, WFMin
<1>3. \A m \in T : ~(m < n)
  BY <1>2 DEF R
<1> QED
  BY <1>3

\* Among subsets of a finite set there is one that no longer is one of them when
\* an element is taken out.
LEMMA SmallestSubset ==
    ASSUME NEW S, IsFiniteSet(S), NEW Q \in SUBSET (SUBSET S), Q # {}
    PROVE  \E s \in Q : /\ IsFiniteSet(s)
                        /\ \A x \in s : s \ {x} \notin Q
<1>1. \A s \in SUBSET S : IsFiniteSet(s) /\ Cardinality(s) \in Nat
  BY FS_Subset, FS_CardinalityType
<1> DEFINE T == {Cardinality(s) : s \in Q}
<1>2. PICK n \in T : \A m \in T : n <= m
  <2>1. T \in SUBSET Nat /\ T # {}
    BY <1>1
  <2> HIDE DEF T
  <2> QED
    BY <2>1, SmallestNat
<1>3. PICK s \in Q : Cardinality(s) = n
  OBVIOUS
<1>4. ASSUME NEW x \in s, s \ {x} \in Q PROVE FALSE
  <2>1. Cardinality(s \ {x}) = Cardinality(s) - 1
    BY <1>1, FS_RemoveElement
  <2>2. n <= Cardinality(s \ {x})
    BY <1>2, <1>4
  <2> QED
    BY <2>1, <2>2, <1>1, <1>3
<1> QED
  BY <1>1, <1>4

\* c picks an element of every subset of S.
Picks(c, S) == \A s \in SUBSET S : s # {} => c[s] \in s

\* Each element of S maps V into V.
Closed(F, V, S) == \A x \in S, v \in V : F[x][v] \in V

\* h is the recursion over the subsets of S that takes the picked element last.
Recurs(h, S, base, F, c) ==
    \A s \in SUBSET S :
        h[s] = IF s = {} THEN base ELSE F[c[s]][h[s \ {c[s]}]]

\* The recursion exists over a finite set.
LEMMA RecursionExists ==
    ASSUME NEW S, IsFiniteSet(S), NEW V, NEW base \in V, NEW c, NEW F,
           Picks(c, S), Closed(F, V, S)
    PROVE  \E h \in [SUBSET S -> V] : Recurs(h, S, base, F, c)
<1> DEFINE Def(h, s) == IF s = {} THEN base ELSE F[c[s]][h[s \ {c[s]}]]
           UpTo(n) == {h \in [SUBSET S -> V] :
                         \A s \in SUBSET S : Cardinality(s) <= n => h[s] = Def(h, s)}
           Q == {n \in Nat : UpTo(n) = {}}
<1>1. \A s \in SUBSET S : /\ IsFiniteSet(s) /\ Cardinality(s) \in Nat
                          /\ Cardinality(s) <= Cardinality(S)
  BY FS_Subset, FS_CardinalityType
<1>2. \A s \in SUBSET S : s # {} => /\ s \ {c[s]} \in SUBSET S /\ c[s] \in S
                                    /\ Cardinality(s \ {c[s]}) = Cardinality(s) - 1
  BY <1>1, FS_RemoveElement DEF Picks
<1>3. ASSUME NEW s \in SUBSET S, Cardinality(s) <= 0 PROVE s = {}
  <2>1. IsFiniteSet(s) /\ Cardinality(s) = 0
    BY <1>1, <1>3
  <2> QED
    BY <2>1, FS_EmptySet
<1>4. UpTo(0) # {}
  <2> DEFINE h == [s \in SUBSET S |-> base]
  <2>2. h \in [SUBSET S -> V] /\ \A s \in SUBSET S : s = {} => h[s] = Def(h, s)
    OBVIOUS
  <2>3. h \in UpTo(0)
    BY <1>3, <2>2
  <2> QED
    BY <2>3
<1>5. ASSUME NEW n \in Nat, NEW h \in UpTo(n) PROVE UpTo(n + 1) # {}
  <2> DEFINE g == [s \in SUBSET S |-> IF Cardinality(s) <= n THEN h[s] ELSE Def(h, s)]
  <2>0. /\ h \in [SUBSET S -> V]
        /\ \A s \in SUBSET S : Cardinality(s) <= n => h[s] = Def(h, s)
    OBVIOUS
  <2> HIDE DEF UpTo
  <2>1. \A s \in SUBSET S : Def(h, s) \in V
    BY <1>2, <2>0 DEF Closed
  <2>2. g \in [SUBSET S -> V]
    BY <2>0, <2>1
  <2>3. ASSUME NEW s \in SUBSET S, Cardinality(s) <= n + 1 PROVE g[s] = Def(g, s)
    <3>1. g[s] = Def(h, s)
      BY <2>0
    <3>2. ASSUME s # {} PROVE g[s \ {c[s]}] = h[s \ {c[s]}]
      <4>1. /\ s \ {c[s]} \in SUBSET S
            /\ Cardinality(s \ {c[s]}) = Cardinality(s) - 1
        BY <1>2, <3>2
      <4>2. Cardinality(s) \in Nat
        BY <1>1
      <4> HIDE DEF g
      <4>3. Cardinality(s \ {c[s]}) <= n
        BY <2>3, <4>1, <4>2
      <4> QED
        BY <4>1, <4>3 DEF g
    <3> QED
      BY <3>1, <3>2
  <2>4. g \in UpTo(n + 1)
    BY <2>2, <2>3 DEF UpTo
  <2> QED
    BY <2>4
<1>6. ASSUME NEW n \in Nat PROVE UpTo(n) # {}
  <2> SUFFICES ASSUME Q # {} PROVE FALSE
    OBVIOUS
  <2>1. PICK m \in Q : \A k \in Q : m <= k
    <3>1. Q \in SUBSET Nat
      OBVIOUS
    <3> HIDE DEF Q
    <3> QED
      BY <3>1, SmallestNat
  <2> HIDE DEF UpTo
  <2>2. m \in Nat /\ UpTo(m) = {}
    OBVIOUS
  <2>3. m - 1 \in Nat /\ ~(m <= m - 1)
    BY <1>4, <2>2
  <2>4. m - 1 \notin Q
    BY <2>1, <2>3
  <2>5. UpTo(m - 1) # {}
    BY <2>3, <2>4
  <2>6. UpTo((m - 1) + 1) # {}
    BY <1>5, <2>3, <2>5
  <2>7. (m - 1) + 1 = m
    BY <2>2
  <2> QED
    BY <2>2, <2>6, <2>7
<1>7. PICK h : h \in UpTo(Cardinality(S))
  BY <1>6, FS_CardinalityType
<1>8. h \in [SUBSET S -> V] /\ \A s \in SUBSET S : h[s] = Def(h, s)
  BY <1>1, <1>7
<1> QED
  BY <1>8 DEF Recurs

\* The element the sum takes next.
Some(s) == CHOOSE x \in s : TRUE
\* The sum of f[x] over the elements of S.
Total(f, S) == MapThenSumSet(LAMBDA x : f[x], S)

\* h is the sum of f over every subset of S.
Sums(h, f, S) ==
    \A s \in SUBSET S :
        h[s] = IF s = {} THEN 0 ELSE f[Some(s)] + h[s \ {Some(s)}]

\* Sums over the subsets of a finite set exist.
LEMMA SumExists ==
    ASSUME NEW S, IsFiniteSet(S), NEW f, \A x \in S : f[x] \in Nat
    PROVE  \E h \in [SUBSET S -> Nat] : Sums(h, f, S)
<1> DEFINE c == [s \in SUBSET S |-> Some(s)]
           F == [x \in S |-> [v \in Nat |-> f[x] + v]]
<1>1. Picks(c, S)
  BY DEF Picks, Some
<1>2. Closed(F, Nat, S)
  BY DEF Closed
<1>3. PICK h \in [SUBSET S -> Nat] : Recurs(h, S, 0, F, c)
  <2> HIDE DEF F, c
  <2> QED
    BY <1>1, <1>2, RecursionExists
<1>4. ASSUME NEW s \in SUBSET S
      PROVE  h[s] = IF s = {} THEN 0 ELSE f[Some(s)] + h[s \ {Some(s)}]
  <2>1. s # {} => Some(s) \in S /\ s \ {Some(s)} \in SUBSET S
    BY <1>1 DEF Picks
  <2> QED
    BY <1>3, <2>1 DEF Recurs
<1> QED
  BY <1>4 DEF Sums

\* Sums over the subsets agree on every set both are defined on.
LEMMA SumUnique ==
    ASSUME NEW S, IsFiniteSet(S), NEW T \in SUBSET S, NEW f,
           NEW g, Sums(g, f, S), NEW h, Sums(h, f, T)
    PROVE  g[T] = h[T]
<1> DEFINE Q == {s \in SUBSET T : g[s] # h[s]}
<1> SUFFICES ASSUME Q # {} PROVE FALSE
  OBVIOUS
<1>1. PICK s \in Q : \A x \in s : s \ {x} \notin Q
  <2>1. Q \in SUBSET (SUBSET S)
    OBVIOUS
  <2> HIDE DEF Q
  <2> QED
    BY <2>1, SmallestSubset
<1>2. s \in SUBSET T /\ s \in SUBSET S /\ g[s] # h[s]
  OBVIOUS
<1>3. s # {}
  BY <1>2 DEF Sums
<1>4. s \ {Some(s)} \in SUBSET T /\ s \ {Some(s)} \notin Q
  BY <1>1, <1>3 DEF Some
<1> QED
  BY <1>2, <1>3, <1>4 DEF Sums

\* What the community module defines is such a sum.
LEMMA TotalUnfolds ==
    ASSUME NEW S, IsFiniteSet(S), NEW f, \A x \in S : f[x] \in Nat
    PROVE  \E h \in [SUBSET S -> Nat] : Sums(h, f, S) /\ Total(f, S) = h[S]
<1> DEFINE E(h) == [s \in SUBSET S |->
                       IF s = {} THEN 0 ELSE f[Some(s)] + h[s \ {Some(s)}]]
           it == CHOOSE h : h = E(h)
<1>1. PICK h \in [SUBSET S -> Nat] : Sums(h, f, S)
  BY SumExists
<1>2. h = E(h)
  BY <1>1 DEF Sums
<1>3. it = E(it)
  <2> HIDE DEF E
  <2> QED
    BY <1>2
<1>4. Sums(it, f, S)
  BY <1>3 DEF Sums
<1>5. Total(f, S) = it[S]
  BY DEF Total, MapThenSumSet, MapThenFoldSet, Some
<1> HIDE DEF it
<1>6. it[S] = h[S]
  BY <1>1, <1>4, SumUnique
<1> QED
  BY <1>1, <1>5, <1>6

\* A total of naturals is a natural.
LEMMA TotalType ==
    ASSUME NEW S, IsFiniteSet(S), NEW f, \A x \in S : f[x] \in Nat
    PROVE  Total(f, S) \in Nat
<1>1. PICK h \in [SUBSET S -> Nat] : Total(f, S) = h[S]
  BY TotalUnfolds
<1>2. S \in SUBSET S
  OBVIOUS
<1> QED
  BY <1>1, <1>2

\* The total of a set is any sum over its subsets.
LEMMA TotalIs ==
    ASSUME NEW S, IsFiniteSet(S), NEW T \in SUBSET S, NEW f, \A x \in S : f[x] \in Nat,
           NEW g, Sums(g, f, S)
    PROVE  Total(f, T) = g[T]
<1>1. IsFiniteSet(T)
  BY FS_Subset
<1>2. PICK h : Sums(h, f, T) /\ Total(f, T) = h[T]
  BY <1>1, TotalUnfolds
<1> QED
  BY <1>2, SumUnique

\* The total of nothing is zero.
LEMMA TotalEmpty == ASSUME NEW f PROVE Total(f, {}) = 0
<1>1. IsFiniteSet({})
  BY FS_EmptySet
<1>2. PICK h : Sums(h, f, {}) /\ Total(f, {}) = h[{}]
  BY <1>1, TotalUnfolds
<1> QED
  BY <1>2 DEF Sums

\* A total is the element chosen first plus the total of the rest.
LEMMA TotalStep ==
    ASSUME NEW S, IsFiniteSet(S), NEW f, \A x \in S : f[x] \in Nat, S # {}
    PROVE  Total(f, S) = f[Some(S)] + Total(f, S \ {Some(S)})
<1>1. PICK g : Sums(g, f, S)
  BY SumExists
<1>2. Total(f, S) = g[S] /\ Total(f, S \ {Some(S)}) = g[S \ {Some(S)}]
  BY <1>1, TotalIs
<1> QED
  BY <1>1, <1>2 DEF Sums

\* Whichever element is taken out: the choice does not matter.
LEMMA TotalRemove ==
    ASSUME NEW S, IsFiniteSet(S), NEW f, \A x \in S : f[x] \in Nat, NEW x \in S
    PROVE  Total(f, S) = f[x] + Total(f, S \ {x})
<1> DEFINE Off(s) == \E y \in s : Total(f, s) # f[y] + Total(f, s \ {y})
           Q == {s \in SUBSET S : Off(s)}
<1> SUFFICES ASSUME Q # {} PROVE FALSE
  OBVIOUS
<1>1. PICK s \in Q : IsFiniteSet(s) /\ \A y \in s : s \ {y} \notin Q
  <2>1. Q \in SUBSET (SUBSET S)
    OBVIOUS
  <2> HIDE DEF Q
  <2> QED
    BY <2>1, SmallestSubset
<1>2. PICK y \in s : Total(f, s) # f[y] + Total(f, s \ {y})
  OBVIOUS
<1> DEFINE z == Some(s)
<1>3. z \in s
  BY DEF Some
<1>4. Total(f, s) = f[z] + Total(f, s \ {z})
  BY <1>1, <1>3, TotalStep
<1>5. y # z
  BY <1>2, <1>4
<1> HIDE DEF z
<1>6. Total(f, s \ {z}) = f[y] + Total(f, (s \ {z}) \ {y})
  BY <1>1, <1>3, <1>5
<1>7. Total(f, s \ {y}) = f[z] + Total(f, (s \ {y}) \ {z})
  BY <1>1, <1>3, <1>5
<1>8. (s \ {z}) \ {y} = (s \ {y}) \ {z}
  OBVIOUS
<1>9. Total(f, (s \ {y}) \ {z}) \in Nat
  <2>1. IsFiniteSet((s \ {y}) \ {z})
    BY <1>1, FS_Subset
  <2> QED
    BY <2>1, TotalType
<1>10. f[y] \in Nat /\ f[z] \in Nat
  BY <1>3
<1> HIDE DEF Q
<1>11. f[z] + (f[y] + Total(f, (s \ {y}) \ {z})) = f[y] + (f[z] + Total(f, (s \ {y}) \ {z}))
  BY <1>9, <1>10
<1> QED
  BY <1>2, <1>4, <1>6, <1>7, <1>8, <1>11

\* A smaller set of smaller numbers has a smaller total.
LEMMA TotalMono ==
    ASSUME NEW S, IsFiniteSet(S), NEW T \in SUBSET S,
           NEW f, \A x \in T : f[x] \in Nat,
           NEW g, \A x \in S : g[x] \in Nat,
           \A x \in T : f[x] <= g[x]
    PROVE  Total(f, T) <= Total(g, S)
<1> DEFINE Q == {s \in SUBSET S : ~(Total(f, s \cap T) <= Total(g, s))}
<1>1. T = S \cap T
  OBVIOUS
<1> SUFFICES ASSUME Q # {} PROVE FALSE
  BY <1>1
<1>2. PICK s \in Q : IsFiniteSet(s) /\ \A y \in s : s \ {y} \notin Q
  <2>1. Q \in SUBSET (SUBSET S)
    OBVIOUS
  <2> HIDE DEF Q
  <2> QED
    BY <2>1, SmallestSubset
<1>3. s \in SUBSET S /\ ~(Total(f, s \cap T) <= Total(g, s))
  OBVIOUS
<1>4. s # {}
  BY <1>3, TotalEmpty
<1>5. PICK y \in s : TRUE
  BY <1>4
<1>6. Total(f, (s \ {y}) \cap T) <= Total(g, s \ {y})
  BY <1>2, <1>3
<1> HIDE DEF Q
<1>7. /\ IsFiniteSet(s \cap T) /\ IsFiniteSet(s \ {y})
      /\ IsFiniteSet((s \ {y}) \cap T)
  BY <1>2, FS_Subset
<1>8. /\ Total(g, s) = g[y] + Total(g, s \ {y}) /\ g[y] \in Nat
      /\ Total(g, s \ {y}) \in Nat /\ Total(f, (s \ {y}) \cap T) \in Nat
  BY <1>2, <1>3, <1>7, TotalRemove, TotalType
<1>9. CASE y \in T
  <2>1. (s \cap T) \ {y} = (s \ {y}) \cap T
    OBVIOUS
  <2>2. Total(f, s \cap T) = f[y] + Total(f, (s \ {y}) \cap T)
    BY <1>7, <1>9, <2>1, TotalRemove
  <2>3. f[y] \in Nat /\ f[y] <= g[y]
    BY <1>9
  <2> QED
    BY <1>3, <1>6, <1>8, <2>2, <2>3
<1>10. CASE y \notin T
  <2>1. s \cap T = (s \ {y}) \cap T
    BY <1>10
  <2>2. Total(f, s \cap T) = Total(f, (s \ {y}) \cap T)
    BY <2>1
  <2> QED
    BY <1>3, <1>6, <1>8, <2>2
<1> QED
  BY <1>9, <1>10

-----------------------------------------------------------------------------
(***************************************************************************)
(* Folds of sequences from the left.                                       *)
(***************************************************************************)

\* A function on the first n positions is a sequence.
LEMMA FunctionIsSeq ==
    ASSUME NEW B, NEW n \in Nat, NEW s \in [1..n -> B]
    PROVE  s \in Seq(B)
  BY SeqDef

\* Induction over sequences, for a set of sequences.
LEMMA SequencesAll ==
    ASSUME NEW B, NEW Q \in SUBSET Seq(B), << >> \in Q,
           \A s \in Q, b \in B : Append(s, b) \in Q
    PROVE  \A s \in Seq(B) : s \in Q
<1> DEFINE Off == {s \in Seq(B) : s \notin Q}
           T == {Len(s) : s \in Off}
<1> SUFFICES ASSUME Off # {} PROVE FALSE
  OBVIOUS
<1>1. \A s \in Seq(B) : Len(s) \in Nat
  BY LenProperties
<1>2. PICK n \in T : \A m \in T : n <= m
  <2>1. T \in SUBSET Nat /\ T # {}
    BY <1>1
  <2> HIDE DEF T
  <2>2. QED
    BY <2>1, SmallestNat
<1>3. PICK s \in Off : Len(s) = n
  OBVIOUS
<1>4. s \in Seq(B) /\ s # << >>
  OBVIOUS
<1>5. PICK r \in Seq(B), b \in B : s = Append(r, b)
  BY <1>4, SequenceEmptyOrAppend
<1>6. r \notin Q
  BY <1>5
<1>7. Len(r) \in T
  BY <1>6
<1>8. Len(s) = Len(r) + 1 /\ Len(r) \in Nat
  BY <1>5, <1>1, AppendProperties
<1> HIDE DEF T
<1>9. n <= Len(r)
  BY <1>2, <1>7
<1>10. QED
  BY <1>3, <1>8, <1>9

\* The last of some positions of a sequence.
LEMMA LastPosition ==
    ASSUME NEW n \in Nat, NEW t \in SUBSET (1..n), t # {}
    PROVE  Max(t) \in t /\ \A i \in t : Max(t) >= i
<1> DEFINE T == {n - i : i \in t}
<1>1. T \in SUBSET Nat /\ T # {}
  <2>1. \A i \in t : n - i \in Nat
    OBVIOUS
  <2>2. QED
    BY <2>1
<1>2. PICK k \in T : \A m \in T : k <= m
  <2> HIDE DEF T
  <2>1. QED
    BY <1>1, SmallestNat
<1>3. PICK i \in t : k = n - i
  OBVIOUS
<1>4. ASSUME NEW j \in t PROVE i >= j
  <2>1. n - i <= n - j
    BY <1>2, <1>3
  <2>2. i \in Nat /\ j \in Nat
    OBVIOUS
  <2>3. QED
    BY <2>1, <2>2
<1>5. QED
  BY <1>4 DEF Max

\* The whole is its last position after the rest.
LEMMA LastOfAll ==
    ASSUME NEW n \in Nat
    PROVE  Max(1..(n + 1)) = n + 1 /\ (1..(n + 1)) \ {n + 1} = 1..n
<1> DEFINE D == 1..(n + 1)
<1>1. n + 1 \in Nat /\ n + 1 \in D /\ D \in SUBSET (1..(n + 1)) /\ D # {}
  OBVIOUS
<1>2. \A i \in D : i \in Int /\ i <= n + 1
  OBVIOUS
<1>3. D \ {n + 1} = 1..n
  OBVIOUS
<1> HIDE DEF D
<1>4. Max(D) \in D /\ \A i \in D : Max(D) >= i
  BY <1>1, LastPosition
<1>5. Max(D) = n + 1
  <2>1. Max(D) \in Int /\ Max(D) <= n + 1
    BY <1>2, <1>4
  <2>2. Max(D) >= n + 1
    BY <1>1, <1>4
  <2>3. n + 1 \in Int
    OBVIOUS
  <2>4. QED
    BY <2>1, <2>2, <2>3
<1>6. QED
  BY <1>3, <1>5 DEF D

\* Functions over sets of positions agree if they do so step by step.
LEMMA AgreeOnPositions ==
    ASSUME NEW n \in Nat, NEW g, NEW h, g[{}] = h[{}],
           \A t \in SUBSET (1..n) :
               t # {} /\ g[t \ {Max(t)}] = h[t \ {Max(t)}] => g[t] = h[t]
    PROVE  g[1..n] = h[1..n]
<1> DEFINE D == 1..n
           Q == {t \in SUBSET D : g[t] # h[t]}
<1> SUFFICES ASSUME Q # {} PROVE FALSE
  OBVIOUS
<1>1. PICK t \in Q : \A x \in t : t \ {x} \notin Q
  <2>1. IsFiniteSet(D)
    BY FS_Interval
  <2>2. Q \in SUBSET (SUBSET D)
    OBVIOUS
  <2> HIDE DEF Q, D
  <2>3. QED
    BY <2>1, <2>2, SmallestSubset
<1>2. t \in SUBSET D /\ g[t] # h[t] /\ t # {}
  OBVIOUS
<1>3. Max(t) \in t
  BY <1>2, LastPosition
<1>4. g[t \ {Max(t)}] = h[t \ {Max(t)}]
  BY <1>1, <1>2, <1>3
<1> HIDE DEF Q
<1>5. QED
  BY <1>2, <1>4

\* h is the fold of s by F over every set of its positions.
Lefts(h, F, base, s) ==
    \A t \in SUBSET (DOMAIN s) :
        h[t] = IF t = {} THEN base ELSE F[h[t \ {Max(t)}]][s[Max(t)]]

\* Each element maps V into V.
Stays(F, V, B) == \A v \in V, b \in B : F[v][b] \in V

\* The fold exists.
LEMMA LeftsExist ==
    ASSUME NEW V, NEW B, NEW F, Stays(F, V, B), NEW base \in V, NEW s \in Seq(B)
    PROVE  \E h \in [SUBSET (DOMAIN s) -> V] : Lefts(h, F, base, s)
<1> DEFINE D == DOMAIN s
           c == [t \in SUBSET D |-> Max(t)]
           G == [i \in D |-> [v \in V |-> F[v][s[i]]]]
<1>1. Len(s) \in Nat /\ D = 1..Len(s)
  BY LenProperties
<1>2. \A i \in D : s[i] \in B
  BY <1>1, ElementOfSeq
<1>3. \A t \in SUBSET D : t # {} => Max(t) \in t
  BY <1>1, LastPosition
<1>4. IsFiniteSet(D)
  BY <1>1, FS_Interval
<1> HIDE DEF D
<1>5. Picks(c, D)
  BY <1>3 DEF Picks
<1>6. Closed(G, V, D)
  BY <1>2 DEF Stays, Closed
<1>7. PICK h \in [SUBSET D -> V] : Recurs(h, D, base, G, c)
  <2> HIDE DEF c, G
  <2>1. QED
    BY <1>4, <1>5, <1>6, RecursionExists
<1>8. ASSUME NEW t \in SUBSET D
      PROVE  h[t] = IF t = {} THEN base ELSE F[h[t \ {Max(t)}]][s[Max(t)]]
  <2>1. t # {} => Max(t) \in D /\ c[t] = Max(t) /\ h[t \ {Max(t)}] \in V
    BY <1>3
  <2>2. h[t] = IF t = {} THEN base ELSE G[c[t]][h[t \ {c[t]}]]
    BY <1>7 DEF Recurs
  <2>3. QED
    BY <2>1, <2>2
<1>9. QED
  BY <1>8 DEF Lefts, D

\* Two folds agree on every sequence that begins alike.
LEMMA LeftsUnique ==
    ASSUME NEW B, NEW s \in Seq(B), NEW r \in Seq(B), Len(r) <= Len(s),
           \A i \in 1..Len(r) : r[i] = s[i],
           NEW F, NEW base,
           NEW g, Lefts(g, F, base, r), NEW h, Lefts(h, F, base, s)
    PROVE  g[DOMAIN r] = h[DOMAIN r]
<1> DEFINE D == DOMAIN r
           Q == {t \in SUBSET D : g[t] # h[t]}
<1>1. /\ Len(r) \in Nat /\ D = 1..Len(r)
      /\ Len(s) \in Nat /\ DOMAIN s = 1..Len(s)
  BY LenProperties
<1> SUFFICES ASSUME Q # {} PROVE FALSE
  OBVIOUS
<1>2. PICK t \in Q : \A x \in t : t \ {x} \notin Q
  <2>1. IsFiniteSet(D)
    BY <1>1, FS_Interval
  <2>2. Q \in SUBSET (SUBSET D)
    OBVIOUS
  <2> HIDE DEF Q, D
  <2>3. QED
    BY <2>1, <2>2, SmallestSubset
<1>3. t \in SUBSET D /\ t \in SUBSET (DOMAIN s) /\ g[t] # h[t]
  BY <1>1
<1>4. t # {}
  BY <1>3 DEF Lefts
<1>5. Max(t) \in t
  BY <1>1, <1>3, <1>4, LastPosition
<1>6. g[t \ {Max(t)}] = h[t \ {Max(t)}]
  BY <1>2, <1>3, <1>5
<1>7. r[Max(t)] = s[Max(t)]
  BY <1>1, <1>3, <1>5
<1>8. g[t] = F[g[t \ {Max(t)}]][r[Max(t)]]
  BY <1>3, <1>4 DEF Lefts
<1>9. h[t] = F[h[t \ {Max(t)}]][s[Max(t)]]
  BY <1>3, <1>4 DEF Lefts
<1>10. QED
  BY <1>3, <1>6, <1>7, <1>8, <1>9

\* The fold of a sequence by F.
LeftFold(F, base, s) == FoldLeft(LAMBDA acc, b : F[acc][b], base, s)

\* It is the value of any fold at the whole.
LEMMA LeftFoldIs ==
    ASSUME NEW V, NEW B, NEW F, Stays(F, V, B), NEW base \in V, NEW s \in Seq(B),
           NEW g, Lefts(g, F, base, s)
    PROVE  LeftFold(F, base, s) = g[DOMAIN s] /\ g[DOMAIN s] \in V
<1> DEFINE E(h) == [t \in SUBSET (DOMAIN s) |->
                       IF t = {} THEN base ELSE F[h[t \ {Max(t)}]][s[Max(t)]]]
           it == CHOOSE h : h = E(h)
<1>1. PICK h \in [SUBSET (DOMAIN s) -> V] : Lefts(h, F, base, s)
  BY LeftsExist
<1>2. h = E(h)
  BY <1>1 DEF Lefts
<1>3. it = E(it)
  <2> HIDE DEF E
  <2>1. QED
    BY <1>2
<1>4. Lefts(it, F, base, s)
  <2> HIDE DEF it
  <2>1. ASSUME NEW t \in SUBSET (DOMAIN s)
        PROVE  it[t] = IF t = {} THEN base ELSE F[it[t \ {Max(t)}]][s[Max(t)]]
    BY <1>3
  <2>2. QED
    BY <2>1 DEF Lefts
<1>5. LeftFold(F, base, s) = it[DOMAIN s]
  BY DEF LeftFold, FoldLeft, MapThenFoldSet
<1> HIDE DEF it
<1>6. Len(s) \in Nat
  BY LenProperties
<1>7. it[DOMAIN s] = h[DOMAIN s] /\ g[DOMAIN s] = h[DOMAIN s]
  BY <1>1, <1>4, <1>6, LeftsUnique
<1>8. h[DOMAIN s] \in V
  OBVIOUS
<1>9. QED
  BY <1>5, <1>7, <1>8

\* A fold of nothing is the base, and one element more is one step more.
LEMMA LeftFoldType ==
    ASSUME NEW V, NEW B, NEW F, Stays(F, V, B), NEW base \in V, NEW s \in Seq(B)
    PROVE  LeftFold(F, base, s) \in V
<1>1. PICK h \in [SUBSET (DOMAIN s) -> V] : Lefts(h, F, base, s)
  BY LeftsExist
<1>2. QED
  BY <1>1, LeftFoldIs

\* Folding the empty sequence from the left gives the start.
LEMMA LeftFoldEmpty ==
    ASSUME NEW V, NEW B, NEW F, Stays(F, V, B), NEW base \in V
    PROVE  LeftFold(F, base, << >>) = base
<1>1. << >> \in Seq(B) /\ Len(<< >>) = 0
  BY EmptySeq
<1>2. DOMAIN << >> = {}
  BY <1>1
<1> DEFINE s == << >>
<1> HIDE DEF s
<1>3. PICK h \in [SUBSET (DOMAIN s) -> V] : Lefts(h, F, base, s)
  BY <1>1, LeftsExist DEF s
<1>4. h[{}] = base
  BY <1>3 DEF Lefts
<1>5. LeftFold(F, base, s) = h[DOMAIN s]
  <2>1. s \in Seq(B)
    BY <1>1 DEF s
  <2>2. QED
    BY <1>3, <2>1, LeftFoldIs
<1>6. QED
  BY <1>2, <1>4, <1>5 DEF s

\* One element more at the end is one step more of the fold.
LEMMA LeftFoldAppend ==
    ASSUME NEW V, NEW B, NEW F, Stays(F, V, B), NEW base \in V,
           NEW s \in Seq(B), NEW b \in B
    PROVE  LeftFold(F, base, Append(s, b)) = F[LeftFold(F, base, s)][b]
<1> DEFINE u == Append(s, b)
           n == Len(s)
<1>1. /\ u \in Seq(B) /\ Len(u) = n + 1 /\ u[n + 1] = b
      /\ \A i \in 1..n : s[i] = u[i]
  BY AppendProperties
<1>2. n \in Nat /\ DOMAIN s = 1..n /\ DOMAIN u = 1..(n + 1)
  BY <1>1, LenProperties
<1> HIDE DEF u, n
<1>3. PICK g \in [SUBSET (DOMAIN s) -> V] : Lefts(g, F, base, s)
  BY LeftsExist
<1>4. PICK h \in [SUBSET (DOMAIN u) -> V] : Lefts(h, F, base, u)
  BY <1>1, LeftsExist
<1>5. /\ LeftFold(F, base, s) = g[1..n]
      /\ LeftFold(F, base, u) = h[1..(n + 1)]
  BY <1>1, <1>2, <1>3, <1>4, LeftFoldIs
<1>6. g[1..n] = h[1..n]
  <2>1. Len(s) <= Len(u) /\ \A i \in 1..Len(s) : s[i] = u[i]
    BY <1>1, <1>2 DEF n
  <2>2. g[DOMAIN s] = h[DOMAIN s]
    BY <1>1, <1>3, <1>4, <2>1, LeftsUnique
  <2>3. QED
    BY <1>2, <2>2
<1>7. Max(1..(n + 1)) = n + 1 /\ (1..(n + 1)) \ {n + 1} = 1..n
  BY <1>2, LastOfAll
<1>8. h[1..(n + 1)] = F[h[1..n]][b]
  <2>1. 1..(n + 1) \in SUBSET (DOMAIN u) /\ 1..(n + 1) # {}
    <3>1. n + 1 \in 1..(n + 1)
      BY <1>2
    <3>2. QED
      BY <1>2, <3>1
  <2>2. h[1..(n + 1)] = F[h[(1..(n + 1)) \ {Max(1..(n + 1))}]][u[Max(1..(n + 1))]]
    BY <1>4, <2>1 DEF Lefts
  <2>3. QED
    BY <1>1, <1>7, <2>2
<1>9. QED
  BY <1>5, <1>6, <1>8 DEF u

\* What holds at 0 and is handed on holds up to n.
LEMMA UpTo ==
    ASSUME NEW n \in Nat, NEW Q, 0 \in Q,
           \A i \in 1..n : i - 1 \in Q => i \in Q
    PROVE  \A i \in 0..n : i \in Q
<1> DEFINE W == {i \in 0..n : i \notin Q}
<1> SUFFICES ASSUME W # {} PROVE FALSE
  OBVIOUS
<1>1. PICK k \in W : \A m \in W : k <= m
  <2>1. W \in SUBSET Nat
    OBVIOUS
  <2> HIDE DEF W
  <2>2. QED
    BY <2>1, SmallestNat
<1>2. k \in 1..n /\ k - 1 \in 0..n /\ ~(k <= k - 1)
  OBVIOUS
<1>3. k - 1 \in Q
  BY <1>1, <1>2
<1>4. QED
  BY <1>2, <1>3

\* A function over sets of positions that goes on like the fold.
GoesOn(it, F, V, base, s) ==
    /\ it[{}] = base
    /\ \A t \in SUBSET (DOMAIN s) :
           t # {} /\ it[t \ {Max(t)}] \in V
               => it[t] = F[it[t \ {Max(t)}]][s[Max(t)]]

\* The accumulators of the loop over s.
IsLoop(acc, F, base, s) ==
    acc[0] = base /\ \A i \in 1..Len(s) : acc[i] = F[acc[i - 1]][s[i]]

\* A fold is a loop, and its value the last of the accumulators.
LEMMA FoldIsLoop ==
    ASSUME NEW V, NEW B, NEW F, Stays(F, V, B), NEW base \in V, NEW s \in Seq(B),
           NEW it, GoesOn(it, F, V, base, s)
    PROVE  \E acc \in [0..Len(s) -> V] :
               IsLoop(acc, F, base, s) /\ it[DOMAIN s] = acc[Len(s)]
<1> DEFINE n == Len(s)
           acc == [i \in 0..n |-> it[1..i]]
<1>1. n \in Nat /\ DOMAIN s = 1..n /\ \A i \in 1..n : s[i] \in B
  BY LenProperties, ElementOfSeq
<1> HIDE DEF n
<1>2. ASSUME NEW i \in 1..n, acc[i - 1] \in V
      PROVE  acc[i] = F[acc[i - 1]][s[i]] /\ acc[i] \in V
  <2>1. i - 1 \in Nat /\ i - 1 \in 0..n /\ i \in 0..n /\ (i - 1) + 1 = i
    BY <1>1
  <2>2. Max(1..i) = i /\ (1..i) \ {i} = 1..(i - 1)
    BY <2>1, LastOfAll
  <2>3. 1..i \in SUBSET (1..n) /\ 1..i # {}
    <3>1. i \in 1..i /\ 1..i \subseteq 1..n
      BY <1>1
    <3>2. QED
      BY <3>1
  <2>4. it[1..(i - 1)] \in V
    BY <1>2, <2>1
  <2>5. it[1..i] = F[it[1..(i - 1)]][s[i]]
    BY <1>1, <2>2, <2>3, <2>4 DEF GoesOn
  <2>6. F[it[1..(i - 1)]][s[i]] \in V
    BY <1>1, <2>4 DEF Stays
  <2>7. QED
    BY <2>1, <2>5, <2>6
<1>3. acc[0] = base
  <2>1. 1..0 = {} /\ 0 \in 0..n
    BY <1>1
  <2>2. QED
    BY <2>1 DEF GoesOn
<1>4. acc[n] = it[DOMAIN s]
  BY <1>1
<1>5. \A i \in 0..n : acc[i] \in V
  <2> DEFINE Q == {i \in 0..n : acc[i] \in V}
  <2>1. 0 \in Q
    BY <1>1, <1>3
  <2>2. \A i \in 1..n : i - 1 \in Q => i \in Q
    BY <1>1, <1>2
  <2> HIDE DEF Q
  <2>3. \A i \in 0..n : i \in Q
    BY <1>1, <2>1, <2>2, UpTo
  <2>4. QED
    BY <2>3 DEF Q
<1>6. acc \in [0..n -> V]
  BY <1>5
<1>7. \A i \in 1..n : acc[i] = F[acc[i - 1]][s[i]]
  <2>1. \A i \in 1..n : i - 1 \in 0..n
    BY <1>1
  <2> HIDE DEF acc
  <2>2. QED
    BY <1>2, <1>5, <2>1
<1> HIDE DEF acc
<1>8. QED
  BY <1>3, <1>4, <1>6, <1>7 DEF n, IsLoop

\* The fold of a sequence is a loop.
LEMMA LeftFoldLoop ==
    ASSUME NEW V, NEW B, NEW F, Stays(F, V, B), NEW base \in V, NEW s \in Seq(B)
    PROVE  \E acc \in [0..Len(s) -> V] :
               IsLoop(acc, F, base, s) /\ LeftFold(F, base, s) = acc[Len(s)]
<1>1. PICK h \in [SUBSET (DOMAIN s) -> V] : Lefts(h, F, base, s)
  BY LeftsExist
<1>2. LeftFold(F, base, s) = h[DOMAIN s]
  BY <1>1, LeftFoldIs
<1>3. GoesOn(h, F, V, base, s)
  BY <1>1 DEF Lefts, GoesOn
<1>4. QED
  BY <1>2, <1>3, FoldIsLoop

\* What goes on like a fold is that fold.
LEMMA GoesOnIsFold ==
    ASSUME NEW V, NEW B, NEW F, Stays(F, V, B), NEW base \in V, NEW s \in Seq(B),
           NEW it, GoesOn(it, F, V, base, s)
    PROVE  it[DOMAIN s] = LeftFold(F, base, s)
<1>1. PICK a \in [0..Len(s) -> V] : IsLoop(a, F, base, s) /\ it[DOMAIN s] = a[Len(s)]
  BY FoldIsLoop
<1>2. PICK b \in [0..Len(s) -> V] :
            IsLoop(b, F, base, s) /\ LeftFold(F, base, s) = b[Len(s)]
  BY LeftFoldLoop
<1>3. Len(s) \in Nat
  BY LenProperties
<1> DEFINE Q == {i \in 0..Len(s) : a[i] = b[i]}
<1>4. 0 \in Q
  BY <1>1, <1>2, <1>3 DEF IsLoop
<1>5. \A i \in 1..Len(s) : i - 1 \in Q => i \in Q
  <2>1. \A i \in 1..Len(s) : i \in 0..Len(s)
    BY <1>3
  <2>2. QED
    BY <1>1, <1>2, <2>1 DEF IsLoop
<1> HIDE DEF Q
<1>6. \A i \in 0..Len(s) : i \in Q
  BY <1>3, <1>4, <1>5, UpTo
<1>7. a[Len(s)] = b[Len(s)]
  BY <1>3, <1>6 DEF Q
<1>8. QED
  BY <1>1, <1>2, <1>7

-----------------------------------------------------------------------------
(***************************************************************************)
(* Filters.                                                                *)
(***************************************************************************)

\* One round of the loop of Only.
OnlyStep(D, kept, x) == IF x \in D THEN Append(kept, x) ELSE kept
OnlyF(B, D) == [kept \in Seq(B) |-> [x \in B |-> OnlyStep(D, kept, x)]]

\* A filter never leaves the sequences.
LEMMA OnlyStays == ASSUME NEW B, NEW D PROVE Stays(OnlyF(B, D), Seq(B), B)
<1>1. \A kept \in Seq(B), x \in B : OnlyStep(D, kept, x) \in Seq(B)
  BY AppendProperties DEF OnlyStep
<1>2. QED
  BY <1>1 DEF Stays, OnlyF

\* A filter is the fold of its round.
LEMMA OnlyIsFold ==
    ASSUME NEW B, NEW D, NEW s \in Seq(B)
    PROVE  Only(s, D) = LeftFold(OnlyF(B, D), <<>>, s)
<1> DEFINE P == DOMAIN s
           base == <<>>
           E(h) == [t \in SUBSET P |->
                       IF t = {} THEN base
                       ELSE OnlyStep(D, h[t \ {Max(t)}], s[Max(t)])]
           it == CHOOSE h : h = E(h)
<1>1. Stays(OnlyF(B, D), Seq(B), B) /\ base \in Seq(B)
  BY OnlyStays, EmptySeq
<1>2. Len(s) \in Nat /\ P = 1..Len(s) /\ \A i \in P : s[i] \in B
  BY LenProperties, ElementOfSeq
<1>3. \A t \in SUBSET P : t # {} => Max(t) \in P
  BY <1>2, LastPosition
<1> HIDE DEF base
<1>4. PICK h \in [SUBSET P -> Seq(B)] : Lefts(h, OnlyF(B, D), base, s)
  BY <1>1, LeftsExist
<1>5. ASSUME NEW t \in SUBSET P
      PROVE  h[t] = IF t = {} THEN base
                    ELSE OnlyStep(D, h[t \ {Max(t)}], s[Max(t)])
  <2>1. h[t] = IF t = {} THEN base ELSE OnlyF(B, D)[h[t \ {Max(t)}]][s[Max(t)]]
    BY <1>4 DEF Lefts
  <2>2. QED
    BY <1>2, <1>3, <2>1 DEF OnlyF
<1>6. it = E(it)
  <2>1. h = E(h)
    BY <1>5
  <2> HIDE DEF E
  <2>2. QED
    BY <2>1
<1>7. Only(s, D) = it[P]
  BY DEF Only, FoldLeft, MapThenFoldSet, OnlyStep, base
<1> HIDE DEF it
<1>8. \A t \in SUBSET P : it[t] = IF t = {} THEN base
                                  ELSE OnlyStep(D, it[t \ {Max(t)}], s[Max(t)])
  BY <1>6
<1>9. GoesOn(it, OnlyF(B, D), Seq(B), base, s)
  BY <1>2, <1>3, <1>8 DEF GoesOn, OnlyF
<1>10. it[P] = LeftFold(OnlyF(B, D), base, s)
  BY <1>1, <1>9, GoesOnIsFold
<1>11. QED
  BY <1>7, <1>10 DEF base

\* What a filter gives is a sequence; of nothing it gives nothing, and one item
\* more adds the item or nothing.
LEMMA OnlyIs ==
    ASSUME NEW B, NEW D
    PROVE  /\ Only(<<>>, D) = <<>>
           /\ \A s \in Seq(B) : Only(s, D) \in Seq(B)
           /\ \A s \in Seq(B), x \in B :
                  Only(Append(s, x), D) = IF x \in D THEN Append(Only(s, D), x)
                                          ELSE Only(s, D)
<1> DEFINE F == OnlyF(B, D)
           base == <<>>
<1>1. Stays(F, Seq(B), B) /\ base \in Seq(B)
  BY OnlyStays, EmptySeq
<1>2. \A s \in Seq(B) : Only(s, D) = LeftFold(F, base, s)
  BY OnlyIsFold
<1>3. \A v \in Seq(B), x \in B : F[v][x] = OnlyStep(D, v, x)
  BY DEF OnlyF
<1>4. base = <<>>
  OBVIOUS
<1> HIDE DEF F, base
<1>5. ASSUME NEW s \in Seq(B) PROVE Only(s, D) \in Seq(B)
  <2>1. LeftFold(F, base, s) \in Seq(B)
    BY <1>1, LeftFoldType
  <2>2. QED
    BY <1>2, <2>1
<1>6. Only(base, D) = base
  <2>1. LeftFold(F, base, <<>>) = base
    BY <1>1, LeftFoldEmpty
  <2>2. QED
    BY <1>1, <1>2, <1>4, <2>1
<1>7. ASSUME NEW s \in Seq(B), NEW x \in B
      PROVE  Only(Append(s, x), D) = IF x \in D THEN Append(Only(s, D), x)
                                     ELSE Only(s, D)
  <2>1. Append(s, x) \in Seq(B)
    BY AppendProperties
  <2>2. LeftFold(F, base, Append(s, x)) = F[LeftFold(F, base, s)][x]
    BY <1>1, LeftFoldAppend
  <2>3. Only(Append(s, x), D) = F[Only(s, D)][x]
    BY <1>2, <2>1, <2>2
  <2>4. QED
    BY <1>3, <1>5, <2>3 DEF OnlyStep
<1>8. QED
  BY <1>4, <1>5, <1>6, <1>7

\* Concatenation is associative, and adding an item is part of it.
LEMMA ConcatLaws ==
    ASSUME NEW B, NEW r \in Seq(B), NEW s \in Seq(B)
    PROVE  /\ r \o s \in Seq(B) /\ r \o <<>> = r /\ <<>> \o s = s
           /\ \A x \in B : r \o Append(s, x) = Append(r \o s, x)
           /\ \A t \in Seq(B) : r \o (s \o t) = (r \o s) \o t
  BY SMT

\* A filter distributes over concatenation.
LEMMA OnlyConcat ==
    ASSUME NEW B, NEW D, NEW r \in Seq(B), NEW s \in Seq(B)
    PROVE  Only(r \o s, D) = Only(r, D) \o Only(s, D)
<1>0. \A u \in Seq(B), x \in B :
          Only(Append(u, x), D) = IF x \in D THEN Append(Only(u, D), x) ELSE Only(u, D)
  BY OnlyIs
<1> DEFINE Q == {t \in Seq(B) : Only(r \o t, D) = Only(r, D) \o Only(t, D)}
<1>1. <<>> \in Q
  <2>1. <<>> \in Seq(B) /\ Only(r, D) \in Seq(B) /\ Only(<<>>, D) = <<>>
    BY OnlyIs, EmptySeq
  <2>2. r \o <<>> = r /\ Only(r, D) \o <<>> = Only(r, D)
    BY <2>1, ConcatLaws
  <2>3. QED
    BY <2>1, <2>2
<1>2. ASSUME NEW t \in Q, NEW x \in B PROVE Append(t, x) \in Q
  <2>1. /\ Append(t, x) \in Seq(B) /\ r \o t \in Seq(B)
        /\ Only(r, D) \in Seq(B) /\ Only(t, D) \in Seq(B)
    BY OnlyIs, ConcatLaws, AppendProperties
  <2>2. r \o Append(t, x) = Append(r \o t, x)
    BY ConcatLaws
  <2>3. Only(r \o Append(t, x), D) = IF x \in D THEN Append(Only(r \o t, D), x)
                                     ELSE Only(r \o t, D)
    BY <1>0, <2>1, <2>2
  <2>4. Only(Append(t, x), D) = IF x \in D THEN Append(Only(t, D), x) ELSE Only(t, D)
    BY <1>0
  <2>5. Only(r, D) \o Append(Only(t, D), x) = Append(Only(r, D) \o Only(t, D), x)
    BY <2>1, ConcatLaws
  <2>6. Only(r \o t, D) = Only(r, D) \o Only(t, D)
    OBVIOUS
  <2> HIDE DEF Q
  <2>7. Only(r \o Append(t, x), D) = Only(r, D) \o Only(Append(t, x), D)
    <3>1. CASE x \in D
      <4>1. /\ Only(r \o Append(t, x), D) = Append(Only(r \o t, D), x)
            /\ Only(Append(t, x), D) = Append(Only(t, D), x)
        BY <2>3, <2>4, <3>1
      <4>2. QED
        BY <2>5, <2>6, <4>1
    <3>2. CASE x \notin D
      BY <2>3, <2>4, <2>6, <3>2
    <3>3. QED
      BY <3>1, <3>2
  <2>8. QED
    BY <2>1, <2>7 DEF Q
<1>3. \A t \in Seq(B) : t \in Q
  <2>1. Q \in SUBSET Seq(B)
    OBVIOUS
  <2> HIDE DEF Q
  <2>2. QED
    BY <1>1, <1>2, <2>1, SequencesAll
<1>4. QED
  BY <1>3

\* What a sequence with one item more holds.
LEMMA RangeAppend ==
    ASSUME NEW B, NEW s \in Seq(B), NEW x \in B
    PROVE  Range(Append(s, x)) = Range(s) \cup {x} /\ Range(<<>>) = {}
<1> DEFINE u == Append(s, x)
<1>1. /\ u \in Seq(B) /\ Len(u) = Len(s) + 1 /\ u[Len(s) + 1] = x
      /\ \A i \in 1..Len(s) : u[i] = s[i]
  BY AppendProperties
<1>2. Len(s) \in Nat /\ DOMAIN s = 1..Len(s) /\ DOMAIN u = 1..(Len(s) + 1)
  BY <1>1, LenProperties
<1> HIDE DEF u
<1>3. 1..(Len(s) + 1) = (1..Len(s)) \cup {Len(s) + 1}
  BY <1>2
<1>4. Range(u) = Range(s) \cup {x}
  BY <1>1, <1>2, <1>3 DEF Range
<1>5. Range(<<>>) = {}
  <2>1. <<>> \in Seq(B) /\ Len(<<>>) = 0
    BY EmptySeq
  <2>2. DOMAIN <<>> = {}
    BY <2>1
  <2>3. QED
    BY <2>2 DEF Range
<1>6. QED
  BY <1>4, <1>5 DEF u

\* A filter keeps just the items of its set.
LEMMA OnlyRange ==
    ASSUME NEW B, NEW D, NEW s \in Seq(B)
    PROVE  Range(Only(s, D)) = Range(s) \cap D
<1>0. /\ Only(<<>>, D) = <<>>
      /\ \A t \in Seq(B) : Only(t, D) \in Seq(B)
      /\ \A t \in Seq(B), x \in B :
             Only(Append(t, x), D) = IF x \in D THEN Append(Only(t, D), x) ELSE Only(t, D)
  BY OnlyIs
<1> DEFINE Q == {t \in Seq(B) : Range(Only(t, D)) = Range(t) \cap D}
<1>1. <<>> \in Q
  <2>1. <<>> \in Seq(B) /\ DOMAIN <<>> = {}
    BY EmptySeq, LenProperties
  <2>2. Range(<<>>) = {}
    BY <2>1 DEF Range
  <2>3. QED
    BY <1>0, <2>1, <2>2
<1>2. ASSUME NEW t \in Q, NEW x \in B PROVE Append(t, x) \in Q
  <2>1. t \in Seq(B) /\ Range(Only(t, D)) = Range(t) \cap D
    OBVIOUS
  <2> HIDE DEF Q
  <2>2. Only(t, D) \in Seq(B) /\ Append(t, x) \in Seq(B)
    BY <1>0, <2>1, AppendProperties
  <2>3. /\ Range(Append(t, x)) = Range(t) \cup {x}
        /\ Range(Append(Only(t, D), x)) = Range(Only(t, D)) \cup {x}
    BY <2>1, <2>2, RangeAppend
  <2>4. Range(Only(Append(t, x), D)) = Range(Append(t, x)) \cap D
    <3>1. CASE x \in D
      <4>1. Only(Append(t, x), D) = Append(Only(t, D), x)
        BY <1>0, <2>1, <3>1
      <4>2. QED
        BY <2>1, <2>3, <3>1, <4>1
    <3>2. CASE x \notin D
      <4>1. Only(Append(t, x), D) = Only(t, D)
        BY <1>0, <2>1, <3>2
      <4>2. QED
        BY <2>1, <2>3, <3>2, <4>1
    <3>3. QED
      BY <3>1, <3>2
  <2>5. QED
    BY <2>2, <2>4 DEF Q
<1>3. \A t \in Seq(B) : t \in Q
  <2>1. Q \in SUBSET Seq(B)
    OBVIOUS
  <2> HIDE DEF Q
  <2>2. QED
    BY <1>1, <1>2, <2>1, SequencesAll
<1>4. QED
  BY <1>3

-----------------------------------------------------------------------------
(***************************************************************************)
(* Recursion over finite trees: every node has a height, above those of    *)
(* the nodes under it.                                                     *)
(***************************************************************************)

\* What holds of a node if it holds of all lower ones holds of every node.
LEMMA HeightInduction ==
    ASSUME NEW R, NEW h \in [R -> Nat], NEW Q,
           \A r \in R : (\A q \in R : h[q] < h[r] => q \in Q) => r \in Q
    PROVE  \A r \in R : r \in Q
<1> DEFINE Off == {r \in R : r \notin Q}
           T == {h[r] : r \in Off}
<1> SUFFICES ASSUME Off # {} PROVE FALSE
  OBVIOUS
<1>1. PICK n \in T : \A m \in T : n <= m
  <2>1. T \in SUBSET Nat /\ T # {}
    OBVIOUS
  <2> HIDE DEF T
  <2>2. QED
    BY <2>1, SmallestNat
<1>2. PICK r \in Off : n = h[r]
  OBVIOUS
<1>3. \A q \in R : h[q] < h[r] => q \in Q
  <2>1. SUFFICES ASSUME NEW q \in R, h[q] < h[r], q \notin Q PROVE FALSE
    OBVIOUS
  <2>2. h[q] \in T /\ h[q] \in Nat /\ h[r] \in Nat
    BY <2>1
  <2>3. QED
    BY <1>1, <1>2, <2>1, <2>2
<1>4. QED
  BY <1>2, <1>3

\* F defines a node from the lower ones only.
Lowers(F, R, h, V) ==
    /\ F \in [[R -> V] -> [R -> V]]
    /\ \A f, g \in [R -> V], r \in R :
           (\A q \in R : h[q] < h[r] => f[q] = g[q]) => F[f][r] = F[g][r]

\* Such a recursion has a solution.
LEMMA TreeRecursion ==
    ASSUME NEW R, NEW h \in [R -> Nat], NEW V, NEW F, Lowers(F, R, h, V),
           [R -> V] # {}
    PROVE  \E f \in [R -> V] : f = F[f]
<1> DEFINE Below(n) == {f \in [R -> V] : \A r \in R : h[r] < n => f[r] = F[f][r]}
<1>1. \A f \in [R -> V] : F[f] \in [R -> V]
  BY DEF Lowers
<1>2. ASSUME NEW n \in Nat, NEW f \in Below(n) PROVE F[f] \in Below(n + 1)
  <2>1. f \in [R -> V] /\ F[f] \in [R -> V]
    BY <1>1
  <2>2. SUFFICES ASSUME NEW r \in R, h[r] < n + 1 PROVE F[f][r] = F[F[f]][r]
    BY <2>1
  <2>3. ASSUME NEW q \in R, h[q] < h[r] PROVE f[q] = F[f][q]
    <3>1. h[q] \in Nat /\ h[r] \in Nat
      OBVIOUS
    <3>2. h[q] < n
      BY <2>2, <2>3, <3>1
    <3>3. QED
      BY <3>2
  <2>4. QED
    BY <2>1, <2>3 DEF Lowers
<1>3. ASSUME NEW n \in Nat PROVE Below(n) # {}
  <2> DEFINE T == {m \in Nat : Below(m) = {}}
  <2>1. SUFFICES ASSUME T # {} PROVE FALSE
    OBVIOUS
  <2>2. PICK m \in T : \A k \in T : m <= k
    <3>1. T \in SUBSET Nat
      OBVIOUS
    <3> HIDE DEF T
    <3>2. QED
      BY <2>1, <3>1, SmallestNat
  <2>3. m # 0
    <3>1. Below(0) = [R -> V]
      OBVIOUS
    <3> HIDE DEF Below
    <3>2. QED
      BY <3>1
  <2>4. m - 1 \in Nat /\ ~(m <= m - 1) /\ (m - 1) + 1 = m
    BY <2>2, <2>3
  <2>5. Below(m - 1) # {}
    <3> HIDE DEF Below
    <3>1. QED
      BY <2>2, <2>4
  <2>6. PICK f : f \in Below(m - 1)
    <3> HIDE DEF Below
    <3>1. QED
      BY <2>5
  <2>7. F[f] \in Below(m)
    <3> HIDE DEF Below
    <3>1. QED
      BY <1>2, <2>4, <2>6
  <2>8. Below(m) = {}
    BY <2>2
  <2> HIDE DEF Below
  <2>9. QED
    BY <2>7, <2>8
<1>4. ASSUME NEW n \in Nat, NEW m \in Nat, NEW f \in Below(n), NEW g \in Below(m),
             NEW r0 \in R, h[r0] < n, h[r0] < m
      PROVE  f[r0] = g[r0]
  <2> DEFINE Q == {r \in R : h[r] < n /\ h[r] < m => f[r] = g[r]}
  <2>1. ASSUME NEW r \in R, \A q \in R : h[q] < h[r] => q \in Q PROVE r \in Q
    <3>1. SUFFICES ASSUME h[r] < n, h[r] < m PROVE f[r] = g[r]
      OBVIOUS
    <3>2. ASSUME NEW q \in R, h[q] < h[r] PROVE f[q] = g[q]
      <4>1. h[q] \in Nat /\ h[r] \in Nat
        OBVIOUS
      <4>2. h[q] < n /\ h[q] < m
        BY <3>1, <3>2, <4>1
      <4>3. QED
        BY <2>1, <3>2, <4>2
    <3>3. f[r] = F[f][r] /\ g[r] = F[g][r] /\ f \in [R -> V] /\ g \in [R -> V]
      BY <3>1
    <3>4. QED
      BY <3>2, <3>3 DEF Lowers
  <2>2. \A r \in R : r \in Q
    <3> HIDE DEF Q
    <3>1. QED
      BY <2>1, HeightInduction
  <2>3. QED
    BY <1>4, <2>2
<1> DEFINE A == [n \in Nat |-> CHOOSE f : f \in Below(n)]
           it == [r \in R |-> A[h[r] + 1][r]]
<1>5. \A n \in Nat : A[n] \in Below(n)
  <2> HIDE DEF Below
  <2>1. QED
    BY <1>3
<1>6. \A n \in Nat : A[n] \in [R -> V]
  BY <1>5
<1> HIDE DEF A
<1>7. \A r \in R : h[r] + 1 \in Nat /\ h[r] < h[r] + 1
  OBVIOUS
<1>8. it \in [R -> V]
  BY <1>6, <1>7
<1>9. ASSUME NEW r \in R PROVE it[r] = F[it][r]
  <2> DEFINE f == A[h[r] + 1]
  <2>1. f \in [R -> V] /\ f[r] = F[f][r]
    BY <1>5, <1>7
  <2>2. ASSUME NEW q \in R, h[q] < h[r] PROVE it[q] = f[q]
    <3>1. h[q] < h[r] + 1
      BY <1>7, <2>2
    <3>2. A[h[q] + 1] \in Below(h[q] + 1) /\ f \in Below(h[r] + 1)
      BY <1>5, <1>7
    <3>3. A[h[q] + 1][q] = f[q]
      <4> HIDE DEF Below, f
      <4>1. QED
        BY <1>4, <1>7, <3>1, <3>2
    <3>4. QED
      BY <3>3
  <2>3. F[it][r] = F[f][r]
    <3> HIDE DEF f, it
    <3>1. QED
      BY <1>8, <2>1, <2>2 DEF Lowers
  <2>4. QED
    BY <2>1, <2>3
<1>10. F[it] \in [R -> V]
  BY <1>1, <1>8
<1> HIDE DEF it
<1>11. it = F[it]
  BY <1>8, <1>9, <1>10
<1>12. QED
  BY <1>8, <1>11

-----------------------------------------------------------------------------
(***************************************************************************)
(* Sets in order.                                                          *)
(***************************************************************************)

\* before is a strict total order of S.
IsOrder(S, before) ==
    /\ \A x \in S : x \notin before[x]
    /\ \A x, y \in S : x # y => x \in before[y] \/ y \in before[x]
    /\ \A x, y, z \in S : x \in before[y] /\ y \in before[z] => x \in before[z]

\* What comes earlier has less before it.
LEMMA RankGrows ==
    ASSUME NEW S, IsFiniteSet(S), NEW before, IsOrder(S, before),
           NEW x \in S, NEW y \in S, x \in before[y]
    PROVE  /\ Cardinality(S \cap before[x]) \in Nat
           /\ Cardinality(S \cap before[y]) \in Nat
           /\ Cardinality(S \cap before[x]) < Cardinality(S \cap before[y])
<1> DEFINE a == S \cap before[x]
           b == S \cap before[y]
<1>1. a \in SUBSET b /\ b \in SUBSET S /\ a \in SUBSET S /\ x \in b /\ x \notin a
  BY DEF IsOrder
<1> HIDE DEF a, b
<1>2. IsFiniteSet(b) /\ IsFiniteSet(a)
  BY <1>1, FS_Subset
<1>3. Cardinality(a) <= Cardinality(b) /\ (Cardinality(b) = Cardinality(a) => b = a)
  BY <1>1, <1>2, FS_Subset
<1>4. Cardinality(a) \in Nat /\ Cardinality(b) \in Nat
  BY <1>2, FS_CardinalityType
<1>5. QED
  BY <1>1, <1>3, <1>4 DEF a, b

\* For each number below the size of S there is one item with so many before it.
LEMMA RanksAreAll ==
    ASSUME NEW S, IsFiniteSet(S), NEW before, IsOrder(S, before)
    PROVE  /\ Cardinality(S) \in Nat
           /\ \A n \in 1..Cardinality(S) :
                 \E x \in S : Cardinality(S \cap before[x]) = n - 1
           /\ \A x, y \in S :
                 Cardinality(S \cap before[x]) = Cardinality(S \cap before[y]) => x = y
<1> DEFINE n == Cardinality(S)
           rank == [x \in S |-> Cardinality(S \cap before[x])]
           T == 0..(n - 1)
<1>1. n \in Nat
  BY FS_CardinalityType
<1>2. ASSUME NEW x \in S PROVE rank[x] \in T
  <2> DEFINE a == S \cap before[x]
  <2>1. a \in SUBSET S /\ x \notin a
    BY DEF IsOrder
  <2> HIDE DEF a
  <2>2. IsFiniteSet(a) /\ Cardinality(a) <= n /\ (n = Cardinality(a) => S = a)
    BY <2>1, FS_Subset
  <2>3. Cardinality(a) \in Nat /\ n # Cardinality(a)
    BY <2>1, <2>2, FS_CardinalityType
  <2>4. rank[x] = Cardinality(a)
    BY DEF a
  <2> HIDE DEF n, rank
  <2>5. QED
    BY <1>1, <2>2, <2>3, <2>4
<1>3. ASSUME NEW x \in S, NEW y \in S, rank[x] = rank[y] PROVE x = y
  <2> SUFFICES ASSUME x # y PROVE FALSE
    OBVIOUS
  <2>1. \A v, w \in S : v \in before[w] => rank[v] \in Nat /\ rank[w] \in Nat /\ rank[v] < rank[w]
    BY RankGrows
  <2>2. x \in before[y] \/ y \in before[x]
    BY DEF IsOrder
  <2> HIDE DEF rank
  <2>3. QED
    BY <1>3, <2>1, <2>2
<1>4. rank \in Injection(S, T)
  <2>1. rank \in [S -> T]
    BY <1>2
  <2>2. DOMAIN rank = S
    OBVIOUS
  <2> HIDE DEF rank, T
  <2>3. QED
    BY <1>3, <2>1, <2>2 DEF Injection, IsInjective
<1>5. IsFiniteSet(T) /\ Cardinality(T) = n
  <2>1. 0 \in Int /\ n - 1 \in Int
    BY <1>1
  <2>2. IsFiniteSet(T) /\ Cardinality(T) = IF 0 > n - 1 THEN 0 ELSE (n - 1) - 0 + 1
    BY <2>1, FS_Interval
  <2> HIDE DEF n
  <2>3. QED
    BY <1>1, <2>2
<1>6. rank \in Surjection(S, T)
  <2> HIDE DEF rank, T
  <2>1. n = Cardinality(T)
    BY <1>5
  <2>2. QED
    BY <1>4, <1>5, <2>1, FS_Injection
<1>7. ASSUME NEW k \in 1..n PROVE \E x \in S : rank[x] = k - 1
  <2>1. k - 1 \in T
    BY <1>1
  <2> HIDE DEF rank, T
  <2>2. QED
    BY <1>6, <2>1 DEF Surjection
<1>8. QED
  BY <1>1, <1>3, <1>7

\* A set in order has each of its items once, the earlier ones first.
LEMMA InOrderIs ==
    ASSUME NEW S, IsFiniteSet(S), NEW before, IsOrder(S, before),
           NEW s, s = InOrder(S, before)
    PROVE  /\ s \in Seq(S) /\ Len(s) = Cardinality(S) /\ Range(s) = S
           /\ Cardinality(S) \in Nat
           /\ \A i, j \in DOMAIN s : s[i] = s[j] => i = j
           /\ \A i, j \in DOMAIN s : i < j => s[i] \in before[s[j]]
<1> DEFINE n == Cardinality(S)
           rank(x) == Cardinality(S \cap before[x])
<1>1. /\ n \in Nat
      /\ \A k \in 1..n : \E x \in S : rank(x) = k - 1
      /\ \A x, y \in S : rank(x) = rank(y) => x = y
  BY RanksAreAll
<1>2. /\ s = [k \in 1..n |-> CHOOSE x \in S : rank(x) = k - 1]
      /\ DOMAIN s = 1..n
  BY DEF InOrder
<1>3. \A k \in 1..n : s[k] \in S /\ rank(s[k]) = k - 1
  <2> HIDE DEF rank, n
  <2>1. QED
    BY <1>1, <1>2
<1>4. s \in [1..n -> S]
  BY <1>2, <1>3
<1>5. s \in Seq(S)
  BY <1>1, <1>4, FunctionIsSeq
<1>6. Len(s) = n
  <2> HIDE DEF n
  <2>1. QED
    BY <1>1, <1>2, <1>5, LenProperties
<1>7. \A i, j \in 1..n : s[i] = s[j] => i = j
  <2> HIDE DEF rank, n
  <2>1. QED
    BY <1>1, <1>3
<1>8. ASSUME NEW x \in S PROVE \E k \in 1..n : s[k] = x
  <2>1. rank(x) \in Nat /\ rank(x) < n
    <3> DEFINE a == S \cap before[x]
    <3>1. a \in SUBSET S /\ x \notin a
      BY DEF IsOrder
    <3> HIDE DEF a
    <3>2. IsFiniteSet(a) /\ Cardinality(a) <= n /\ (n = Cardinality(a) => S = a)
      BY <3>1, FS_Subset
    <3>3. Cardinality(a) \in Nat /\ n # Cardinality(a)
      BY <3>1, <3>2, FS_CardinalityType
    <3> HIDE DEF n
    <3>4. QED
      BY <1>1, <3>2, <3>3 DEF a
  <2>2. rank(x) + 1 \in 1..n /\ (rank(x) + 1) - 1 = rank(x)
    <3> HIDE DEF rank, n
    <3>1. QED
      BY <1>1, <2>1
  <2> HIDE DEF rank, n
  <2>3. s[rank(x) + 1] = x
    BY <1>1, <1>3, <2>2
  <2>4. QED
    BY <2>2, <2>3
<1>9. Range(s) = S
  BY <1>2, <1>3, <1>8 DEF Range
<1>10. ASSUME NEW i \in 1..n, NEW j \in 1..n, i < j PROVE s[i] \in before[s[j]]
  <2>1. s[i] \in S /\ s[j] \in S /\ rank(s[i]) = i - 1 /\ rank(s[j]) = j - 1
    BY <1>3
  <2>2. s[i] # s[j]
    BY <1>1, <1>7, <1>10
  <2>3. CASE s[j] \in before[s[i]]
    <3>1. rank(s[j]) < rank(s[i])
      BY <2>1, <2>3, RankGrows
    <3> HIDE DEF rank, n
    <3>2. QED
      BY <1>1, <1>10, <2>1, <3>1
  <2>4. QED
    BY <2>1, <2>2, <2>3 DEF IsOrder
<1>11. QED
  BY <1>1, <1>2, <1>5, <1>6, <1>7, <1>9, <1>10

\* Numbers in ascending order.
LEMMA AscendingIs ==
    ASSUME NEW S \in SUBSET Nat, IsFiniteSet(S), NEW s, s = Ascending(S)
    PROVE  /\ s \in Seq(S) /\ Len(s) = Cardinality(S) /\ Range(s) = S
           /\ \A i, j \in DOMAIN s : i < j => s[i] < s[j]
           /\ \A i, j \in DOMAIN s : s[i] = s[j] => i = j
<1> DEFINE before == [x \in S |-> {y \in S : y < x}]
<1>1. \A x \in S : x \in Nat
  OBVIOUS
<1>2. \A x, y \in S : x \in before[y] <=> x < y
  OBVIOUS
<1>3. s = InOrder(S, before)
  BY DEF Ascending
<1> HIDE DEF before
<1>4. IsOrder(S, before)
  BY <1>1, <1>2 DEF IsOrder
<1>5. /\ s \in Seq(S) /\ Len(s) = Cardinality(S) /\ Range(s) = S
      /\ \A i, j \in DOMAIN s : s[i] = s[j] => i = j
      /\ \A i, j \in DOMAIN s : i < j => s[i] \in before[s[j]]
  BY <1>3, <1>4, InOrderIs
<1>6. \A i \in DOMAIN s : s[i] \in S
  BY <1>5 DEF Range
<1>7. QED
  BY <1>2, <1>5, <1>6

-----------------------------------------------------------------------------
(***************************************************************************)
(* Sequences of sequences laid end to end.                                 *)
(***************************************************************************)

\* The items of two sequences, one after the other.
LEMMA ConcatItems ==
    ASSUME NEW B, NEW r \in Seq(B), NEW s \in Seq(B)
    PROVE  /\ r \o s \in Seq(B) /\ Len(r \o s) = Len(r) + Len(s)
           /\ Len(r) \in Nat /\ DOMAIN r = 1..Len(r)
           /\ Len(s) \in Nat /\ DOMAIN s = 1..Len(s)
           /\ DOMAIN (r \o s) = 1..(Len(r) + Len(s))
           /\ \A i \in 1..Len(r) : (r \o s)[i] = r[i]
           /\ \A i \in 1..Len(s) : (r \o s)[Len(r) + i] = s[i]
           /\ Range(r \o s) = Range(r) \cup Range(s)
<1> DEFINE u == r \o s
<1>1. /\ u \in Seq(B) /\ Len(u) = Len(r) + Len(s)
      /\ Len(r) \in Nat /\ DOMAIN r = 1..Len(r)
      /\ Len(s) \in Nat /\ DOMAIN s = 1..Len(s)
      /\ DOMAIN u = 1..Len(u)
  BY ConcatProperties, LenProperties
<1>2. \A i \in 1..(Len(r) + Len(s)) :
         u[i] = IF i <= Len(r) THEN r[i] ELSE s[i - Len(r)]
  BY ConcatProperties
<1> HIDE DEF u
<1>3. \A i \in 1..Len(r) : i \in 1..(Len(r) + Len(s)) /\ u[i] = r[i]
  BY <1>1, <1>2
<1>4. \A i \in 1..Len(s) : Len(r) + i \in 1..(Len(r) + Len(s)) /\ u[Len(r) + i] = s[i]
  BY <1>1, <1>2
<1>5. \A i \in 1..(Len(r) + Len(s)) :
         i \in 1..Len(r) \/ (i - Len(r) \in 1..Len(s) /\ u[i] = s[i - Len(r)])
  BY <1>1, <1>2
<1>6. Range(u) \subseteq Range(r) \cup Range(s)
  BY <1>1, <1>3, <1>5 DEF Range
<1>7. Range(r) \subseteq Range(u) /\ Range(s) \subseteq Range(u)
  BY <1>1, <1>3, <1>4 DEF Range
<1>8. QED
  BY <1>1, <1>3, <1>4, <1>6, <1>7 DEF u

GlueF(B) == [r \in Seq(B) |-> [s \in Seq(B) |-> r \o s]]

\* Flattening is a loop that adds one sequence after the other.
LEMMA FlattenIs ==
    ASSUME NEW B, NEW ss \in Seq(Seq(B))
    PROVE  \E acc \in [0..Len(ss) -> Seq(B)] :
              /\ acc[0] = <<>>
              /\ \A i \in 1..Len(ss) : acc[i] = acc[i - 1] \o ss[i]
              /\ FlattenSeq(ss) = acc[Len(ss)]
<1> DEFINE F == GlueF(B)
           n == Len(ss)
           D(f) == [i \in 1..n |-> IF i = 1 THEN ss[i] ELSE f[i - 1] \o ss[i]]
           g == CHOOSE f : f = D(f)
           base == <<>>
<1>1. Stays(F, Seq(B), Seq(B)) /\ base \in Seq(B)
  BY ConcatItems, EmptySeq DEF Stays, GlueF
<1>2. n \in Nat /\ DOMAIN ss = 1..n /\ \A i \in 1..n : ss[i] \in Seq(B)
  BY LenProperties, ElementOfSeq
<1>3. PICK acc \in [0..n -> Seq(B)] : IsLoop(acc, F, base, ss)
  <2> HIDE DEF F, base
  <2>1. QED
    BY <1>1, LeftFoldLoop
<1>4. ASSUME NEW i \in 1..n PROVE acc[i] = acc[i - 1] \o ss[i]
  <2>1. i - 1 \in 0..n
    BY <1>2
  <2>2. acc[i] = F[acc[i - 1]][ss[i]]
    BY <1>3 DEF IsLoop
  <2>3. QED
    BY <1>2, <2>1, <2>2 DEF GlueF
<1>5. acc[0] = base
  BY <1>3 DEF IsLoop
<1>6. FlattenSeq(ss) = IF n = 0 THEN ss ELSE g[n]
  BY DEF FlattenSeq
<1>7. g = D(g)
  <2> HIDE DEF base, F
  <2> DEFINE h == [i \in 1..n |-> acc[i]]
  <2>1. ASSUME NEW i \in 1..n PROVE h[i] = IF i = 1 THEN ss[i] ELSE h[i - 1] \o ss[i]
    <3>1. CASE i = 1
      <4>1. ss[1] \in Seq(B) /\ acc[1] = acc[0] \o ss[1]
        BY <1>2, <1>4, <3>1
      <4>2. acc[1] = ss[1]
        BY <1>5, <4>1, ConcatLaws DEF base
      <4>3. QED
        BY <3>1, <4>2
    <3>2. CASE i # 1
      <4>1. i - 1 \in 1..n
        BY <1>2, <3>2
      <4>2. QED
        BY <1>4, <3>2, <4>1
    <3>3. QED
      BY <3>1, <3>2
  <2>2. h = D(h)
    BY <2>1
  <2> HIDE DEF D, h
  <2>3. QED
    BY <2>2
<1>8. \A i \in 1..n : g[i] = IF i = 1 THEN ss[i] ELSE g[i - 1] \o ss[i]
  <2> HIDE DEF g
  <2>1. QED
    BY <1>7
<1> HIDE DEF g, D
<1>9. \A i \in 1..n : g[i] = acc[i]
  <2> HIDE DEF base, F
  <2> DEFINE Q == {i \in 0..n : i = 0 \/ g[i] = acc[i]}
  <2>1. 0 \in Q
    BY <1>2
  <2>2. ASSUME NEW i \in 1..n, i - 1 \in Q PROVE i \in Q
    <3>1. CASE i = 1
      <4>1. ss[1] \in Seq(B) /\ acc[1] = acc[0] \o ss[1]
        BY <1>2, <1>4, <3>1
      <4>2. acc[1] = ss[1]
        BY <1>5, <4>1, ConcatLaws DEF base
      <4>3. QED
        BY <1>2, <1>8, <3>1, <4>2
    <3>2. CASE i # 1
      <4>1. g[i - 1] = acc[i - 1]
        BY <1>2, <2>2, <3>2
      <4>2. acc[i] = acc[i - 1] \o ss[i]
        BY <1>4
      <4>3. g[i] = g[i - 1] \o ss[i]
        BY <1>8, <3>2
      <4>4. i \in 0..n
        BY <1>2
      <4>5. QED
        BY <4>1, <4>2, <4>3, <4>4
    <3>3. QED
      BY <3>1, <3>2
  <2> HIDE DEF Q
  <2>3. \A i \in 0..n : i \in Q
    BY <1>2, <2>1, <2>2, UpTo
  <2>4. QED
    BY <1>2, <2>3 DEF Q
<1>10. FlattenSeq(ss) = acc[n]
  <2>1. CASE n = 0
    <3>1. ss = <<>>
      BY <2>1, EmptySeq
    <3>2. QED
      BY <1>5, <1>6, <2>1, <3>1
  <2>2. CASE n # 0
    <3>1. n \in 1..n
      BY <1>2, <2>2
    <3>2. QED
      BY <1>6, <1>9, <2>2, <3>1
  <2>3. QED
    BY <2>1, <2>2
<1>11. QED
  BY <1>3, <1>4, <1>5, <1>10

\* A sequence without repetitions.
Once(s) == \A i, j \in DOMAIN s : s[i] = s[j] => i = j

\* Two of them that share nothing, in a row.
LEMMA ConcatOnce ==
    ASSUME NEW B, NEW r \in Seq(B), NEW s \in Seq(B), Once(r), Once(s),
           Range(r) \cap Range(s) = {}
    PROVE  Once(r \o s)
<1> DEFINE u == r \o s
<1>1. /\ Len(r) \in Nat /\ DOMAIN r = 1..Len(r)
      /\ Len(s) \in Nat /\ DOMAIN s = 1..Len(s)
      /\ DOMAIN u = 1..(Len(r) + Len(s))
      /\ \A i \in 1..Len(r) : u[i] = r[i]
      /\ \A i \in 1..Len(s) : u[Len(r) + i] = s[i]
  BY ConcatItems
<1> HIDE DEF u
<1>2. \A i \in 1..Len(r), j \in 1..Len(s) : r[i] # s[j]
  BY <1>1 DEF Range
<1>3. ASSUME NEW i \in DOMAIN u
      PROVE  \/ i \in 1..Len(r) /\ u[i] = r[i]
             \/ \E k \in 1..Len(s) : i = Len(r) + k /\ u[i] = s[k]
  <2>1. i \in 1..Len(r) \/ (i - Len(r) \in 1..Len(s) /\ i = Len(r) + (i - Len(r)))
    BY <1>1
  <2>2. QED
    BY <1>1, <2>1
<1>4. ASSUME NEW i \in DOMAIN u, NEW j \in DOMAIN u, u[i] = u[j] PROVE i = j
  <2>1. CASE i \in 1..Len(r) /\ j \in 1..Len(r)
    BY <1>1, <1>4, <2>1 DEF Once
  <2>2. CASE i \in 1..Len(r) /\ \E k \in 1..Len(s) : j = Len(r) + k /\ u[j] = s[k]
    BY <1>1, <1>2, <1>4, <2>2
  <2>3. CASE j \in 1..Len(r) /\ \E k \in 1..Len(s) : i = Len(r) + k /\ u[i] = s[k]
    BY <1>1, <1>2, <1>4, <2>3
  <2>4. CASE /\ \E k \in 1..Len(s) : i = Len(r) + k /\ u[i] = s[k]
             /\ \E k \in 1..Len(s) : j = Len(r) + k /\ u[j] = s[k]
    BY <1>1, <1>4, <2>4 DEF Once
  <2>5. QED
    BY <1>3, <2>1, <2>2, <2>3, <2>4
<1>5. QED
  BY <1>4 DEF Once, u

\* What is in the flattened sequence, and that it is there once.
LEMMA FlattenHolds ==
    ASSUME NEW B, NEW ss \in Seq(Seq(B)), NEW f, f = FlattenSeq(ss)
    PROVE  /\ f \in Seq(B)
           /\ Range(f) = UNION {Range(ss[i]) : i \in DOMAIN ss}
           /\ (\A i \in DOMAIN ss : Once(ss[i]))
                 /\ (\A i, j \in DOMAIN ss : i # j => Range(ss[i]) \cap Range(ss[j]) = {})
              => Once(f)
<1> DEFINE n == Len(ss)
           Held(i) == UNION {Range(ss[k]) : k \in 1..i}
           Apiece == /\ \A i \in 1..n : Once(ss[i])
                     /\ \A i, j \in 1..n : i # j => Range(ss[i]) \cap Range(ss[j]) = {}
<1>1. PICK acc \in [0..n -> Seq(B)] :
              /\ acc[0] = <<>>
              /\ \A i \in 1..n : acc[i] = acc[i - 1] \o ss[i]
              /\ f = acc[n]
  BY FlattenIs
<1>2. n \in Nat /\ DOMAIN ss = 1..n /\ \A i \in 1..n : ss[i] \in Seq(B)
  BY LenProperties, ElementOfSeq
<1> DEFINE Q == {i \in 0..n : Range(acc[i]) = Held(i) /\ (Apiece => Once(acc[i]))}
<1>3. 0 \in Q
  <2>1. DOMAIN acc[0] = {}
    <3>1. <<>> \in Seq(B) /\ Len(<<>>) = 0
      BY EmptySeq
    <3>2. DOMAIN <<>> = {}
      BY <3>1
    <3>3. QED
      BY <1>1, <3>2
  <2>2. Range(acc[0]) = {} /\ Once(acc[0])
    BY <2>1 DEF Range, Once
  <2>3. 1..0 = {} /\ 0 \in 0..n
    BY <1>2
  <2>4. Held(0) = {}
    BY <2>3
  <2> HIDE DEF Held, Apiece
  <2>5. QED
    BY <2>2, <2>3, <2>4
<1>4. ASSUME NEW i \in 1..n, i - 1 \in Q PROVE i \in Q
  <2>1. i - 1 \in 0..n /\ i \in 0..n /\ i - 1 \in Nat
    BY <1>2
  <2>2. acc[i - 1] \in Seq(B) /\ ss[i] \in Seq(B) /\ acc[i] = acc[i - 1] \o ss[i]
    BY <1>1, <1>2, <2>1
  <2>3. Range(acc[i]) = Range(acc[i - 1]) \cup Range(ss[i])
    BY <2>2, ConcatItems
  <2>4. 1..i = 1..(i - 1) \cup {i} /\ i \notin 1..(i - 1) /\ 1..(i - 1) \subseteq 1..n
    BY <1>2, <2>1
  <2>5. Range(acc[i - 1]) = Held(i - 1) /\ (Apiece => Once(acc[i - 1]))
    BY <1>4
  <2>6. Held(i) = Held(i - 1) \cup Range(ss[i])
    BY <2>4
  <2>7. Apiece => Held(i - 1) \cap Range(ss[i]) = {}
    <3>1. \A k \in 1..(i - 1) : k \in 1..n /\ k # i
      BY <2>4
    <3>2. QED
      BY <3>1
  <2>8. Apiece => Once(ss[i])
    OBVIOUS
  <2> HIDE DEF Held, Apiece
  <2>9. Apiece => Once(acc[i])
    BY <2>2, <2>5, <2>7, <2>8, ConcatOnce
  <2>10. QED
    BY <2>1, <2>3, <2>5, <2>6, <2>9
<1> HIDE DEF Q
<1>5. \A i \in 0..n : i \in Q
  BY <1>2, <1>3, <1>4, UpTo
<1>6. n \in 0..n
  BY <1>2
<1>7. Range(acc[n]) = Held(n) /\ (Apiece => Once(acc[n])) /\ acc[n] \in Seq(B)
  BY <1>5, <1>6 DEF Q
<1>8. QED
  BY <1>1, <1>2, <1>7

----------------------------------------------------------------------------
\* Where the items of a concatenation of n pieces come from: item p is item
\* o[p] of piece g[p]; they come in order, and all of them come.
Places(s, pieces, n, g, o) ==
    /\ g \in [DOMAIN s -> 1..n] /\ o \in [DOMAIN s -> Nat]
    /\ \A p \in DOMAIN s :
          o[p] \in DOMAIN pieces[g[p]] /\ s[p] = pieces[g[p]][o[p]]
    /\ \A p, q \in DOMAIN s : p < q => g[p] < g[q] \/ (g[p] = g[q] /\ o[p] < o[q])
    /\ \A i \in 1..n : \A r \in DOMAIN pieces[i] :
          \E p \in DOMAIN s : g[p] = i /\ o[p] = r

\* One piece more.
LEMMA PlacesMore ==
    ASSUME NEW B, NEW s \in Seq(B), NEW x \in Seq(B), NEW n \in Nat,
           NEW pieces, pieces[n + 1] = x, NEW g, NEW o, Places(s, pieces, n, g, o)
    PROVE  \E gg, oo : Places(s \o x, pieces, n + 1, gg, oo)
<1> DEFINE t == s \o x
           m == Len(s)
           k == Len(x)
           gg == [p \in 1..(m + k) |-> IF p <= m THEN g[p] ELSE n + 1]
           oo == [p \in 1..(m + k) |-> IF p <= m THEN o[p] ELSE p - m]
<1>1. /\ m \in Nat /\ DOMAIN s = 1..m /\ k \in Nat /\ DOMAIN x = 1..k
      /\ DOMAIN t = 1..(m + k)
      /\ \A p \in 1..m : t[p] = s[p]
      /\ \A p \in 1..k : t[m + p] = x[p]
  BY ConcatItems
<1> HIDE DEF t, m, k
<1>2. /\ g \in [1..m -> 1..n] /\ o \in [1..m -> Nat]
      /\ \A p \in 1..m : o[p] \in DOMAIN pieces[g[p]] /\ s[p] = pieces[g[p]][o[p]]
      /\ \A p, q \in 1..m : p < q => g[p] < g[q] \/ (g[p] = g[q] /\ o[p] < o[q])
      /\ \A i \in 1..n : \A r \in DOMAIN pieces[i] : \E p \in 1..m : g[p] = i /\ o[p] = r
  <2>1. DOMAIN s = 1..m
    BY <1>1
  <2>2. g \in [1..m -> 1..n] /\ o \in [1..m -> Nat]
    BY <2>1 DEF Places
  <2>3. \A p \in 1..m : o[p] \in DOMAIN pieces[g[p]] /\ s[p] = pieces[g[p]][o[p]]
    BY <2>1 DEF Places
  <2>4. \A p, q \in 1..m : p < q => g[p] < g[q] \/ (g[p] = g[q] /\ o[p] < o[q])
    BY <2>1 DEF Places
  <2>5. \A i \in 1..n : \A r \in DOMAIN pieces[i] : \E p \in 1..m : g[p] = i /\ o[p] = r
    BY <2>1 DEF Places
  <2>6. QED
    BY <2>2, <2>3, <2>4, <2>5
<1>3. \A p \in 1..(m + k) :
          \/ p \in 1..m /\ gg[p] = g[p] /\ oo[p] = o[p] /\ g[p] \in 1..n /\ o[p] \in Nat
          \/ p - m \in 1..k /\ p > m /\ gg[p] = n + 1 /\ oo[p] = p - m /\ m + (p - m) = p
  BY <1>1, <1>2
<1>4. DOMAIN gg = 1..(m + k) /\ DOMAIN oo = 1..(m + k)
  OBVIOUS
<1>5. gg \in [1..(m + k) -> 1..(n + 1)] /\ oo \in [1..(m + k) -> Nat]
  <2>1. \A p \in 1..(m + k) : gg[p] \in 1..(n + 1) /\ oo[p] \in Nat
    <3> SUFFICES ASSUME NEW p \in 1..(m + k) PROVE gg[p] \in 1..(n + 1) /\ oo[p] \in Nat
      OBVIOUS
    <3>1. \/ gg[p] = g[p] /\ oo[p] = o[p] /\ g[p] \in 1..n /\ o[p] \in Nat
          \/ p - m \in 1..k /\ gg[p] = n + 1 /\ oo[p] = p - m
      BY <1>3
    <3> HIDE DEF gg, oo
    <3>2. QED
      BY <1>1, <3>1
  <2>2. QED
    BY <2>1
<1>6. \A p \in 1..m : p \in 1..(m + k) /\ gg[p] = g[p] /\ oo[p] = o[p]
  BY <1>1
<1>7. \A r \in 1..k : m + r \in 1..(m + k) /\ gg[m + r] = n + 1 /\ oo[m + r] = r
  BY <1>1
<1> HIDE DEF gg, oo
<1>8. ASSUME NEW p \in 1..(m + k)
      PROVE  oo[p] \in DOMAIN pieces[gg[p]] /\ t[p] = pieces[gg[p]][oo[p]]
  <2>1. CASE p \in 1..m /\ gg[p] = g[p] /\ oo[p] = o[p]
    BY <1>1, <1>2, <2>1
  <2>2. CASE p - m \in 1..k /\ gg[p] = n + 1 /\ oo[p] = p - m /\ m + (p - m) = p
    <3>1. t[m + (p - m)] = x[p - m]
      BY <1>1, <2>2
    <3>2. QED
      BY <1>1, <2>2, <3>1
  <2>3. QED
    BY <1>3, <2>1, <2>2
<1>9. ASSUME NEW p \in 1..(m + k), NEW q \in 1..(m + k), p < q
      PROVE  gg[p] < gg[q] \/ (gg[p] = gg[q] /\ oo[p] < oo[q])
  <2>1. CASE q \in 1..m
    <3>1. p \in 1..m
      BY <1>1, <1>9, <2>1
    <3>2. QED
      BY <1>2, <1>6, <1>9, <2>1, <3>1
  <2>2. CASE q > m /\ gg[q] = n + 1 /\ oo[q] = q - m
    BY <1>1, <1>3, <1>9, <2>2
  <2>3. QED
    BY <1>3, <2>1, <2>2
<1>10. ASSUME NEW i \in 1..(n + 1), NEW r \in DOMAIN pieces[i]
       PROVE  \E p \in 1..(m + k) : gg[p] = i /\ oo[p] = r
  <2>1. CASE i \in 1..n
    <3>1. PICK p \in 1..m : g[p] = i /\ o[p] = r
      BY <1>2, <2>1
    <3>2. QED
      BY <1>6, <3>1
  <2>2. CASE i = n + 1
    <3>1. r \in 1..k
      BY <1>1, <2>2
    <3>2. QED
      BY <1>7, <2>2, <3>1
  <2>3. QED
    BY <2>1, <2>2
<1>11. Places(t, pieces, n + 1, gg, oo)
  <2>1. DOMAIN t = 1..(m + k)
    BY <1>1
  <2>2. gg \in [DOMAIN t -> 1..(n + 1)] /\ oo \in [DOMAIN t -> Nat]
    BY <1>5, <2>1
  <2>3. \A p \in DOMAIN t : oo[p] \in DOMAIN pieces[gg[p]] /\ t[p] = pieces[gg[p]][oo[p]]
    BY <1>8, <2>1
  <2>4. \A p, q \in DOMAIN t : p < q => gg[p] < gg[q] \/ (gg[p] = gg[q] /\ oo[p] < oo[q])
    BY <1>9, <2>1
  <2>5. \A i \in 1..(n + 1) : \A r \in DOMAIN pieces[i] :
            \E p \in DOMAIN t : gg[p] = i /\ oo[p] = r
    BY <1>10, <2>1
  <2>6. QED
    BY <2>2, <2>3, <2>4, <2>5 DEF Places
<1>12. QED
  BY <1>11 DEF t

\* What a loop has concatenated.
LEMMA ConcatPlaces ==
    ASSUME NEW B, NEW n \in Nat, NEW pieces, \A i \in 1..n : pieces[i] \in Seq(B),
           NEW acc, acc[0] = <<>>, \A i \in 1..n : acc[i] = acc[i - 1] \o pieces[i]
    PROVE  /\ \A i \in 0..n : acc[i] \in Seq(B)
           /\ \E g, o : Places(acc[n], pieces, n, g, o)
<1> DEFINE Good(i) == acc[i] \in Seq(B) /\ \E g, o : Places(acc[i], pieces, i, g, o)
           Q == {i \in 0..n : Good(i)}
<1>1. 0 \in Q
  <2>1. acc[0] \in Seq(B) /\ DOMAIN acc[0] = {}
    BY EmptySeq, LenProperties
  <2> DEFINE e == [p \in {} |-> 1]
  <2>2. Places(acc[0], pieces, 0, e, e)
    BY <2>1 DEF Places
  <2>3. \E g, o : Places(acc[0], pieces, 0, g, o)
    BY <2>2
  <2>4. Good(0)
    BY <2>1, <2>3
  <2> HIDE DEF Good
  <2>5. QED
    BY <2>4
<1>2. ASSUME NEW i \in 1..n, i - 1 \in Q PROVE i \in Q
  <2>1. PICK g, o : Places(acc[i - 1], pieces, i - 1, g, o)
    BY <1>2
  <2>2. /\ acc[i - 1] \in Seq(B) /\ pieces[i] \in Seq(B) /\ i - 1 \in Nat
        /\ (i - 1) + 1 = i /\ i \in 0..n
    BY <1>2
  <2>3. \E gg, oo : Places(acc[i - 1] \o pieces[i], pieces, (i - 1) + 1, gg, oo)
    BY <2>1, <2>2, PlacesMore
  <2>4. acc[i] \in Seq(B)
    <3>1. acc[i] = acc[i - 1] \o pieces[i]
      OBVIOUS
    <3>2. acc[i - 1] \o pieces[i] \in Seq(B)
      BY <2>2, ConcatItems
    <3>3. QED
      BY <3>1, <3>2
  <2>5. Good(i)
    BY <2>2, <2>3, <2>4
  <2> HIDE DEF Good
  <2>6. QED
    BY <2>2, <2>5
<1> HIDE DEF Q
<1>3. \A i \in 0..n : i \in Q
  BY <1>1, <1>2, UpTo
<1>4. n \in 0..n
  OBVIOUS
<1>5. QED
  BY <1>3, <1>4 DEF Q

\* A text put together from parts.
LEMMA FlattenPlaces ==
    ASSUME NEW B, NEW ss \in Seq(Seq(B))
    PROVE  /\ FlattenSeq(ss) \in Seq(B)
           /\ \E g, o : Places(FlattenSeq(ss), ss, Len(ss), g, o)
<1>1. PICK acc \in [0..Len(ss) -> Seq(B)] :
             /\ acc[0] = <<>>
             /\ \A i \in 1..Len(ss) : acc[i] = acc[i - 1] \o ss[i]
             /\ FlattenSeq(ss) = acc[Len(ss)]
  BY FlattenIs
<1>2. Len(ss) \in Nat /\ \A i \in 1..Len(ss) : ss[i] \in Seq(B)
  BY LenProperties, ElementOfSeq
<1>3. /\ \A i \in 0..Len(ss) : acc[i] \in Seq(B)
      /\ \E g, o : Places(acc[Len(ss)], ss, Len(ss), g, o)
  BY <1>1, <1>2, ConcatPlaces
<1>4. QED
  BY <1>1, <1>2, <1>3

\* A piece with a separator before it, but for the first.
LEMMA Separated ==
    ASSUME NEW B, NEW x \in B, NEW c \in Seq(B), NEW i,
           NEW b, b = IF i = 1 THEN <<>> ELSE <<x>>,
           NEW d, d = IF i = 1 THEN 0 ELSE 1
    PROVE  /\ b \in Seq(B) /\ b \o c \in Seq(B) /\ d \in {0, 1}
           /\ Len(c) \in Nat /\ DOMAIN c = 1..Len(c)
           /\ DOMAIN (b \o c) = 1..(d + Len(c))
           /\ \A r \in 1..Len(c) : (b \o c)[d + r] = c[r]
           /\ i # 1 => (b \o c)[1] = x
<1>1. b \in Seq(B) /\ Len(b) = d /\ (i # 1 => b[1] = x /\ d = 1) /\ d \in {0, 1}
  <2>1. CASE i = 1
    BY <2>1, EmptySeq
  <2>2. CASE i # 1
    BY <2>2
  <2>3. QED
    BY <2>1, <2>2
<1>2. /\ b \o c \in Seq(B) /\ Len(c) \in Nat /\ DOMAIN c = 1..Len(c)
      /\ DOMAIN (b \o c) = 1..(Len(b) + Len(c))
      /\ \A r \in 1..Len(b) : (b \o c)[r] = b[r]
      /\ \A r \in 1..Len(c) : (b \o c)[Len(b) + r] = c[r]
  BY <1>1, ConcatItems
<1>3. i # 1 => 1 \in 1..Len(b)
  BY <1>1
<1>4. QED
  BY <1>1, <1>2, <1>3

\* A map of 1..n to itself that keeps the order is the identity.  Here as
\* counting: a subset of S that is as large as S is S.
LEMMA SameRank ==
    ASSUME NEW A \in SUBSET Nat, IsFiniteSet(A), NEW E \in SUBSET Nat, IsFiniteSet(E),
           Cardinality(A) = Cardinality(E),
           NEW f \in [A -> E], \A i, j \in A : i < j => f[i] < f[j],
           NEW i \in A
    PROVE  Cardinality({j \in A : j <= i}) = Cardinality({e \in E : e <= f[i]})
<1> DEFINE Al == {j \in A : j <= i}
           Ah == {j \in A : j > i}
           El == {e \in E : e <= f[i]}
           Eh == {e \in E : e > f[i]}
<1>1. /\ Al \in SUBSET A /\ Ah \in SUBSET A /\ Al \cup Ah = A /\ Al \cap Ah = {}
      /\ El \in SUBSET E /\ Eh \in SUBSET E /\ El \cup Eh = E /\ El \cap Eh = {}
  <2>1. f[i] \in Nat /\ i \in Nat /\ (\A j \in A : j \in Nat) /\ (\A e \in E : e \in Nat)
    OBVIOUS
  <2>2. \A j \in Nat : (j <= i \/ j > i) /\ ~(j <= i /\ j > i)
    BY <2>1
  <2>3. \A e \in Nat : (e <= f[i] \/ e > f[i]) /\ ~(e <= f[i] /\ e > f[i])
    BY <2>1
  <2>4. Al \cup Ah = A /\ Al \cap Ah = {}
    BY <2>1, <2>2
  <2>5. El \cup Eh = E /\ El \cap Eh = {}
    BY <2>1, <2>3
  <2>6. QED
    BY <2>4, <2>5
<1>2. /\ \A j \in Al : f[j] \in El
      /\ \A j \in Ah : f[j] \in Eh
      /\ \A j, k \in A : f[j] = f[k] => j = k
  <2>1. \A j \in A : f[j] \in E /\ f[j] \in Nat /\ j \in Nat
    OBVIOUS
  <2>2. \A j \in A : j < i => f[j] < f[i]
    OBVIOUS
  <2>3. \A j \in A : i < j => f[i] < f[j]
    OBVIOUS
  <2>4. \A j \in Al : f[j] \in El
    BY <2>1, <2>2
  <2>5. \A j \in Ah : f[j] \in Eh
    BY <2>1, <2>3
  <2>6. ASSUME NEW j \in A, NEW k \in A, f[j] = f[k] PROVE j = k
    <3>1. ~(j < k) /\ ~(k < j)
      BY <2>1, <2>6
    <3>2. QED
      BY <2>1, <3>1
  <2>7. QED
    BY <2>4, <2>5, <2>6
<1> HIDE DEF Al, Ah, El, Eh
<1>3. IsFiniteSet(Al) /\ IsFiniteSet(Ah) /\ IsFiniteSet(El) /\ IsFiniteSet(Eh)
  BY <1>1, FS_Subset
<1>4. /\ Cardinality(A) = Cardinality(Al) + Cardinality(Ah)
      /\ Cardinality(E) = Cardinality(El) + Cardinality(Eh)
  <2>1. Cardinality({}) = 0
    BY FS_EmptySet
  <2>2. /\ Cardinality(Al \cup Ah) = Cardinality(Al) + Cardinality(Ah) - Cardinality(Al \cap Ah)
        /\ Cardinality(El \cup Eh) = Cardinality(El) + Cardinality(Eh) - Cardinality(El \cap Eh)
    BY <1>3, FS_Union
  <2>3. /\ Cardinality(Al) \in Nat /\ Cardinality(Ah) \in Nat
        /\ Cardinality(El) \in Nat /\ Cardinality(Eh) \in Nat
    BY <1>3, FS_CardinalityType
  <2>4. /\ Cardinality(A) = Cardinality(Al) + Cardinality(Ah) - 0
        /\ Cardinality(E) = Cardinality(El) + Cardinality(Eh) - 0
    <3>1. Cardinality(Al \cap Ah) = 0 /\ Cardinality(El \cap Eh) = 0
      BY <1>1, <2>1
    <3>2. Cardinality(Al \cup Ah) = Cardinality(A) /\ Cardinality(El \cup Eh) = Cardinality(E)
      BY <1>1
    <3>3. QED
      BY <2>2, <3>1, <3>2
  <2> DEFINE a == Cardinality(Al)
             b == Cardinality(Ah)
             c == Cardinality(El)
             d == Cardinality(Eh)
  <2>5. a \in Nat /\ b \in Nat /\ c \in Nat /\ d \in Nat
    BY <2>3
  <2>6. Cardinality(A) = a + b - 0 /\ Cardinality(E) = c + d - 0
    BY <2>4
  <2> HIDE DEF a, b, c, d
  <2>7. Cardinality(A) = a + b /\ Cardinality(E) = c + d
    <3>1. a + b - 0 = a + b /\ c + d - 0 = c + d
      BY <2>5
    <3>2. QED
      BY <2>6, <3>1
  <2>8. QED
    BY <2>7 DEF a, b, c, d
<1>5. Cardinality(Al) <= Cardinality(El) /\ Cardinality(Ah) <= Cardinality(Eh)
  <2> DEFINE u == [j \in Al |-> f[j]]
             w == [j \in Ah |-> f[j]]
  <2>1. u \in [Al -> El] /\ \A j, k \in Al : u[j] = u[k] => j = k
    BY <1>1, <1>2
  <2>2. w \in [Ah -> Eh] /\ \A j, k \in Ah : w[j] = w[k] => j = k
    BY <1>1, <1>2
  <2> HIDE DEF u, w
  <2>3. u \in Injection(Al, El) /\ w \in Injection(Ah, Eh)
    BY <2>1, <2>2 DEF Injection, IsInjective
  <2>4. QED
    BY <1>3, <2>3, FS_Injection
<1>6. /\ Cardinality(Al) \in Nat /\ Cardinality(Ah) \in Nat
      /\ Cardinality(El) \in Nat /\ Cardinality(Eh) \in Nat
  BY <1>3, FS_CardinalityType
<1>7. Cardinality(Al) = Cardinality(El)
  <2> DEFINE a == Cardinality(Al)
             b == Cardinality(Ah)
             c == Cardinality(El)
             d == Cardinality(Eh)
  <2>1. /\ a \in Nat /\ b \in Nat /\ c \in Nat /\ d \in Nat
        /\ a <= c /\ b <= d /\ a + b = c + d
    BY <1>4, <1>5, <1>6
  <2> HIDE DEF a, b, c, d
  <2>2. a = c
    BY <2>1
  <2>3. QED
    BY <2>2 DEF a, c
<1>8. QED
  BY <1>7 DEF Al, El

----------------------------------------------------------------------------
\* What concatenating, cutting and filtering do to the items of a sequence.

\* Filters that agree on a sequence.
LEMMA OnlyAgree ==
    ASSUME NEW B, NEW D, NEW DD, NEW s \in Seq(B), \A x \in Range(s) : x \in D <=> x \in DD
    PROVE  Only(s, D) = Only(s, DD)
<1> DEFINE Same(t) == \A x \in Range(t) : x \in D <=> x \in DD
           Q == {t \in Seq(B) : Same(t) => Only(t, D) = Only(t, DD)}
<1>0. /\ Only(<<>>, D) = <<>>
      /\ \A t \in Seq(B), x \in B :
             Only(Append(t, x), D) = IF x \in D THEN Append(Only(t, D), x) ELSE Only(t, D)
  BY OnlyIs
<1>01. /\ Only(<<>>, DD) = <<>>
       /\ \A t \in Seq(B), x \in B :
             Only(Append(t, x), DD) = IF x \in DD THEN Append(Only(t, DD), x) ELSE Only(t, DD)
  BY OnlyIs
<1>1. <<>> \in Q
  BY <1>0, <1>01, EmptySeq
<1>2. ASSUME NEW t \in Q, NEW x \in B PROVE Append(t, x) \in Q
  <2>1. t \in Seq(B) /\ (Same(t) => Only(t, D) = Only(t, DD))
    OBVIOUS
  <2>2. Append(t, x) \in Seq(B) /\ Range(Append(t, x)) = Range(t) \cup {x}
    BY <2>1, AppendProperties, RangeAppend
  <2>3. ASSUME Same(Append(t, x)) PROVE Only(Append(t, x), D) = Only(Append(t, x), DD)
    <3>1. Same(t) /\ (x \in D <=> x \in DD)
      BY <2>2, <2>3
    <3> HIDE DEF Same, Q
    <3>2. Only(t, D) = Only(t, DD)
      BY <2>1, <3>1
    <3>3. CASE x \in D
      BY <1>0, <1>01, <2>1, <3>1, <3>2, <3>3
    <3>4. CASE x \notin D
      BY <1>0, <1>01, <2>1, <3>1, <3>2, <3>4
    <3>5. QED
      BY <3>3, <3>4
  <2> HIDE DEF Same
  <2>4. QED
    BY <2>2, <2>3
<1>3. \A t \in Seq(B) : t \in Q
  <2>1. Q \in SUBSET Seq(B)
    OBVIOUS
  <2> HIDE DEF Q
  <2>2. QED
    BY <1>1, <1>2, <2>1, SequencesAll
<1>4. QED
  BY <1>3

\* A filter that finds nothing.
LEMMA OnlyNone ==
    ASSUME NEW B, NEW D, NEW s \in Seq(B), \A x \in Range(s) : x \notin D
    PROVE  Only(s, D) = <<>>
<1> DEFINE o == Only(s, D)
<1>1. o \in Seq(B) /\ Range(o) = {}
  <2>1. Only(s, D) \in Seq(B)
    BY OnlyIs
  <2>2. Range(Only(s, D)) = Range(s) \cap D
    BY OnlyRange
  <2>3. QED
    BY <2>1, <2>2
<1> HIDE DEF o
<1>2. DOMAIN o = 1..Len(o) /\ Len(o) \in Nat
  BY <1>1, LenProperties
<1>3. DOMAIN o = {}
  BY <1>1 DEF Range
<1>4. Len(o) = 0
  BY <1>2, <1>3
<1>5. o = <<>>
  BY <1>1, <1>4, EmptySeq
<1>6. QED
  BY <1>5 DEF o

\* Concatenation is associative.
LEMMA Assoc ==
    ASSUME NEW r, NEW s, NEW t, NEW B, r \in Seq(B), s \in Seq(B), t \in Seq(B)
    PROVE  r \o (s \o t) = (r \o s) \o t /\ r \o s \in Seq(B)
BY ConcatLaws

\* The two parts of a concatenation.
LEMMA Halves ==
    ASSUME NEW B, NEW x \in Seq(B), NEW t \in Seq(B), NEW s, s = x \o t
    PROVE  /\ SubSeq(s, 1, Len(x)) = x /\ SubSeq(s, Len(x) + 1, Len(s)) = t
           /\ Len(x) \in 0..Len(s)
<1> DEFINE n == Len(x)
           k == Len(t)
<1>1. /\ n \in Nat /\ k \in Nat /\ s \in Seq(B) /\ Len(s) = n + k
      /\ \A i \in 1..(n + k) : s[i] = IF i <= n THEN x[i] ELSE t[i - n]
  BY LenProperties, ConcatProperties
<1>2. \A i \in 1..(n + k) : s[i] \in B
  BY <1>1, ElementOfSeq
<1>3. SubSeq(s, 1, n) = x
  <2> DEFINE p == SubSeq(s, 1, n)
  <2>1. 1 \in Int /\ n \in Int /\ \A i \in 1..n : s[i] \in B
    BY <1>1, <1>2
  <2>2. /\ p \in Seq(B) /\ Len(p) = (IF 1 <= n THEN n - 1 + 1 ELSE 0)
        /\ \A i \in 1..(n - 1 + 1) : p[i] = s[1 + i - 1]
    BY <2>1, SubSeqProperties
  <2> HIDE DEF p
  <2>3. Len(p) = n
    BY <1>1, <2>2
  <2>4. \A i \in 1..n : p[i] = x[i]
    BY <1>1, <2>2
  <2>5. p = x
    BY <2>2, <2>3, <2>4, SeqEqual
  <2>6. QED
    BY <2>5 DEF p
<1>4. SubSeq(s, n + 1, n + k) = t
  <2> DEFINE p == SubSeq(s, n + 1, n + k)
  <2>1. n + 1 \in Int /\ n + k \in Int /\ \A i \in (n + 1)..(n + k) : s[i] \in B
    BY <1>1, <1>2
  <2>2. /\ p \in Seq(B) /\ Len(p) = (IF n + 1 <= n + k THEN (n + k) - (n + 1) + 1 ELSE 0)
        /\ \A i \in 1..((n + k) - (n + 1) + 1) : p[i] = s[(n + 1) + i - 1]
    BY <2>1, SubSeqProperties
  <2> HIDE DEF p
  <2>3. Len(p) = k
    BY <1>1, <2>2
  <2>4. ASSUME NEW i \in 1..k PROVE p[i] = t[i]
    <3>1. i \in 1..((n + k) - (n + 1) + 1) /\ (n + 1) + i - 1 = n + i /\ n + i \in 1..(n + k)
          /\ ~(n + i <= n) /\ (n + i) - n = i
      BY <1>1
    <3>2. QED
      BY <1>1, <2>2, <3>1
  <2>5. p = t
    BY <2>2, <2>3, <2>4, SeqEqual
  <2>6. QED
    BY <2>5 DEF p
<1>5. QED
  BY <1>1, <1>3, <1>4

\* What is left of a sequence: its item i was item h[i], and all of D is left.
Sifted(s, D, t, h) ==
    /\ h \in [DOMAIN t -> DOMAIN s]
    /\ \A i \in DOMAIN t : t[i] = s[h[i]] /\ t[i] \in D
    /\ \A i, j \in DOMAIN t : i < j => h[i] < h[j]
    /\ \A q \in DOMAIN s : s[q] \in D => \E i \in DOMAIN t : h[i] = q

\* One item more.
LEMMA SiftMore ==
    ASSUME NEW B, NEW D, NEW s \in Seq(B), NEW t \in Seq(B), NEW h, Sifted(s, D, t, h), NEW x \in B
    PROVE  /\ x \in D => \E g : Sifted(Append(s, x), D, Append(t, x), g)
           /\ x \notin D => Sifted(Append(s, x), D, t, h)
<1> DEFINE n == Len(s)
           k == Len(t)
           u == Append(s, x)
           v == Append(t, x)
<1>1. n \in Nat /\ k \in Nat /\ DOMAIN s = 1..n /\ DOMAIN t = 1..k
  BY LenProperties
<1>2. /\ DOMAIN u = 1..(n + 1) /\ u[n + 1] = x /\ \A i \in 1..n : u[i] = s[i]
      /\ DOMAIN v = 1..(k + 1) /\ v[k + 1] = x /\ \A i \in 1..k : v[i] = t[i]
  BY <1>1, SMT
<1> HIDE DEF u, v, n, k
<1>3. /\ \A i \in 1..k : h[i] \in 1..n /\ t[i] = s[h[i]] /\ t[i] \in D
      /\ \A i, j \in 1..k : i < j => h[i] < h[j]
      /\ \A q \in 1..n : s[q] \in D => \E i \in 1..k : h[i] = q
      /\ h \in [1..k -> 1..n]
  BY <1>1 DEF Sifted
<1>4. (\A i \in 1..n : i \in 1..(n + 1)) /\ n + 1 \in 1..(n + 1) /\ k + 1 \in 1..(k + 1)
      /\ (\A i \in 1..k : i \in 1..(k + 1))
      /\ (\A i \in 1..(n + 1) : i \in 1..n \/ i = n + 1)
      /\ (\A i \in 1..(k + 1) : i \in 1..k \/ i = k + 1)
      /\ k + 1 \notin 1..k
  BY <1>1
<1>5. CASE x \notin D
  <2>1. h \in [1..k -> 1..(n + 1)]
    BY <1>3, <1>4
  <2>2. \A i \in 1..k : t[i] = u[h[i]] /\ t[i] \in D
    BY <1>2, <1>3
  <2>3. \A q \in 1..(n + 1) : u[q] \in D => \E i \in 1..k : h[i] = q
    BY <1>2, <1>3, <1>4, <1>5
  <2>4. Sifted(u, D, t, h)
    BY <1>1, <1>2, <1>3, <2>1, <2>2, <2>3 DEF Sifted
  <2>5. QED
    BY <1>5, <2>4 DEF u
<1>6. CASE x \in D
  <2> DEFINE g == [i \in 1..(k + 1) |-> IF i = k + 1 THEN n + 1 ELSE h[i]]
  <2>1. g[k + 1] = n + 1 /\ \A i \in 1..k : g[i] = h[i]
    BY <1>4
  <2>2. g \in [1..(k + 1) -> 1..(n + 1)]
    BY <1>3, <1>4
  <2> HIDE DEF g
  <2>3. \A i \in 1..(k + 1) : v[i] = u[g[i]] /\ v[i] \in D
    BY <1>2, <1>3, <1>4, <1>6, <2>1
  <2>4. ASSUME NEW i \in 1..(k + 1), NEW j \in 1..(k + 1), i < j PROVE g[i] < g[j]
    <3>1. i \in 1..k /\ i \in Int /\ j \in Int
      BY <1>1, <2>4
    <3>2. CASE j = k + 1
      <4>1. g[i] \in 1..n /\ g[j] = n + 1
        BY <1>3, <2>1, <3>1, <3>2
      <4>2. QED
        BY <1>1, <4>1
    <3>3. CASE j \in 1..k
      BY <1>3, <2>1, <2>4, <3>1, <3>3
    <3>4. QED
      BY <1>4, <3>2, <3>3
  <2>5. ASSUME NEW q \in 1..(n + 1), u[q] \in D PROVE \E i \in 1..(k + 1) : g[i] = q
    <3>1. CASE q = n + 1
      BY <1>4, <2>1, <3>1
    <3>2. CASE q \in 1..n
      BY <1>2, <1>3, <1>4, <2>1, <2>5, <3>2
    <3>3. QED
      BY <1>4, <3>1, <3>2
  <2>6. Sifted(u, D, v, g)
    BY <1>2, <2>2, <2>3, <2>4, <2>5 DEF Sifted
  <2>7. QED
    BY <1>6, <2>6 DEF u, v
<1>7. QED
  BY <1>5, <1>6

\* What a filter leaves.
LEMMA OnlyPlaces ==
    ASSUME NEW B, NEW D, NEW s \in Seq(B)
    PROVE  Only(s, D) \in Seq(B) /\ \E h : Sifted(s, D, Only(s, D), h)
<1> DEFINE Q == {r \in Seq(B) : \E h : Sifted(r, D, Only(r, D), h)}
<1>1. /\ Only(<<>>, D) = <<>> /\ \A r \in Seq(B) : Only(r, D) \in Seq(B)
      /\ \A r \in Seq(B), x \in B :
             Only(Append(r, x), D) = IF x \in D THEN Append(Only(r, D), x) ELSE Only(r, D)
  BY OnlyIs
<1>2. <<>> \in Q
  <2>1. DOMAIN <<>> = {} /\ <<>> \in [{} -> {}]
    OBVIOUS
  <2>2. Sifted(<<>>, D, <<>>, <<>>)
    BY <2>1 DEF Sifted
  <2>3. QED
    BY <1>1, <2>2
<1>3. ASSUME NEW r \in Q, NEW x \in B PROVE Append(r, x) \in Q
  <2>1. r \in Seq(B) /\ Append(r, x) \in Seq(B) /\ Only(r, D) \in Seq(B)
    BY <1>1, AppendProperties
  <2>2. PICK h : Sifted(r, D, Only(r, D), h)
    OBVIOUS
  <2>3. /\ x \in D => \E g : Sifted(Append(r, x), D, Append(Only(r, D), x), g)
        /\ x \notin D => Sifted(Append(r, x), D, Only(r, D), h)
    BY <2>1, <2>2, SiftMore
  <2>4. \E g : Sifted(Append(r, x), D, Only(Append(r, x), D), g)
    <3>1. CASE x \in D
      BY <1>1, <2>1, <2>3, <3>1
    <3>2. CASE x \notin D
      BY <1>1, <2>1, <2>3, <3>2
    <3>3. QED
      BY <3>1, <3>2
  <2>5. QED
    BY <2>1, <2>4
<1>4. \A r \in Seq(B) : r \in Q
  <2>1. Q \in SUBSET Seq(B)
    OBVIOUS
  <2> HIDE DEF Q
  <2>2. QED
    BY <1>2, <1>3, <2>1, SequencesAll
<1>5. QED
  BY <1>1, <1>4

\* How many of the first m of a growing sequence are no greater than its k-th.
LEMMA CountTo ==
    ASSUME NEW m \in Nat, NEW e, \A k \in 1..m : e[k] \in Nat,
           \A k, l \in 1..m : k < l => e[k] < e[l], NEW k \in 1..m
    PROVE  Cardinality({x \in {e[l] : l \in 1..m} : x <= e[k]}) = k
<1> DEFINE E == {e[l] : l \in 1..m}
           X == {x \in E : x <= e[k]}
           F == [l \in 1..k |-> e[l]]
<1>1. \A l \in 1..k : l \in 1..m /\ l \in Nat /\ l <= k
  OBVIOUS
<1>2. \A l \in 1..k : e[l] \in X
  <2>1. ASSUME NEW l \in 1..k PROVE e[l] \in X
    <3>1. l \in 1..m /\ (l < k \/ l = k) /\ e[l] \in Nat /\ e[k] \in Nat
      BY <1>1
    <3>2. e[l] <= e[k]
      BY <3>1
    <3>3. QED
      BY <3>1, <3>2
  <2>2. QED
    BY <2>1
<1>3. \A x \in X : \E l \in 1..k : e[l] = x
  <2>1. ASSUME NEW l \in 1..m, e[l] <= e[k] PROVE l \in 1..k
    <3>1. e[l] \in Nat /\ e[k] \in Nat /\ l \in Nat /\ k \in Nat
      OBVIOUS
    <3>2. ~(k < l)
      BY <2>1, <3>1
    <3>3. QED
      BY <3>1, <3>2
  <2>2. QED
    BY <2>1
<1> HIDE DEF X
<1>4. F \in Bijection(1..k, X)
  <2>1. F \in [1..k -> X] /\ \A l \in 1..k : F[l] = e[l]
    BY <1>2
  <2> HIDE DEF F
  <2>2. ASSUME NEW l \in 1..k, NEW j \in 1..k, F[l] = F[j] PROVE l = j
    <3>1. l \in 1..m /\ j \in 1..m /\ l \in Nat /\ j \in Nat /\ e[l] = e[j] /\ e[l] \in Nat
      BY <1>1, <2>1, <2>2
    <3>2. ~(l < j) /\ ~(j < l)
      BY <3>1
    <3>3. QED
      BY <3>1, <3>2
  <2>3. \A x \in X : \E l \in 1..k : F[l] = x
    BY <1>3, <2>1
  <2>4. F \in Injection(1..k, X) /\ F \in Surjection(1..k, X)
    BY <2>1, <2>2, <2>3 DEF Injection, Surjection, IsInjective
  <2>5. QED
    BY <2>4 DEF Bijection
<1>5. IsFiniteSet(1..k) /\ Cardinality(1..k) = k
  <2>1. k \in Nat /\ k >= 1
    OBVIOUS
  <2>2. QED
    BY <2>1, FS_Interval
<1>6. Cardinality(X) = Cardinality(1..k)
  BY <1>4, <1>5, FS_Bijection DEF ExistsBijection
<1>7. QED
  BY <1>5, <1>6 DEF X

\* The beginnings of a sequence.
LEMMA SubSeqGrows ==
    ASSUME NEW B, NEW s \in Seq(B)
    PROVE  /\ SubSeq(s, 1, Len(s)) = s /\ SubSeq(s, 1, 0) = <<>>
           /\ \A i \in 1..Len(s) : SubSeq(s, 1, i) = Append(SubSeq(s, 1, i - 1), s[i])
<1>1. Len(s) \in Nat /\ \A i \in 1..Len(s) : s[i] \in B
  BY LenProperties, ElementOfSeq
<1>2. ASSUME NEW i \in 0..Len(s)
      PROVE  /\ SubSeq(s, 1, i) \in Seq(B) /\ Len(SubSeq(s, 1, i)) = i
             /\ \A k \in 1..i : SubSeq(s, 1, i)[k] = s[k]
  BY <1>1, SMT
<1>3. SubSeq(s, 1, Len(s)) = s
  <2> DEFINE t == SubSeq(s, 1, Len(s))
  <2>1. t \in Seq(B) /\ Len(t) = Len(s) /\ \A k \in 1..Len(t) : t[k] = s[k]
    BY <1>1, <1>2
  <2> HIDE DEF t
  <2>2. t = s
    BY <2>1, SeqEqual
  <2>3. QED
    BY <2>2 DEF t
<1>4. SubSeq(s, 1, 0) = <<>>
  <2>1. 0 \in 0..Len(s)
    BY <1>1
  <2>2. QED
    BY <1>2, <2>1, EmptySeq
<1>5. ASSUME NEW i \in 1..Len(s) PROVE SubSeq(s, 1, i) = Append(SubSeq(s, 1, i - 1), s[i])
  <2> DEFINE t == SubSeq(s, 1, i)
             u == SubSeq(s, 1, i - 1)
             x == s[i]
             v == Append(u, x)
  <2>1. i \in 0..Len(s) /\ i - 1 \in 0..Len(s) /\ x \in B
    BY <1>1
  <2>2. /\ t \in Seq(B) /\ Len(t) = i /\ \A k \in 1..i : t[k] = s[k]
        /\ u \in Seq(B) /\ Len(u) = i - 1 /\ \A k \in 1..(i - 1) : u[k] = s[k]
    BY <1>2, <2>1
  <2> HIDE DEF t, u, x
  <2>3. v \in Seq(B) /\ Len(v) = i /\ v[i] = x /\ \A k \in 1..(i - 1) : v[k] = s[k]
    BY <2>1, <2>2, AppendProperties
  <2> HIDE DEF v
  <2>4. \A k \in 1..Len(t) : t[k] = v[k]
    <3>1. \A k \in 1..i : k = i \/ k \in 1..(i - 1)
      BY <2>1
    <3>2. t[i] = x
      BY <2>1, <2>2 DEF x
    <3>3. QED
      BY <2>2, <2>3, <3>1, <3>2
  <2>5. t = v
    BY <2>2, <2>3, <2>4, SeqEqual
  <2>6. QED
    BY <2>5 DEF t, u, x, v
<1>6. QED
  BY <1>3, <1>4, <1>5

\* A sequence is its first element and the rest.
LEMMA HeadAndTail ==
    ASSUME NEW B, NEW s \in Seq(B), s # <<>>
    PROVE  s = <<s[1]>> \o Tail(s)
<1> DEFINE t == Tail(s)
           one == <<s[1]>>
           q == one \o t
           n == Len(s)
<1>1. n \in Nat /\ n # 0 /\ \A i \in 1..n : s[i] \in B
  BY EmptySeq, LenProperties, ElementOfSeq
<1>2. t \in Seq(B) /\ Len(t) = n - 1 /\ \A i \in 1..Len(t) : t[i] = s[i + 1]
  BY HeadTailProperties
<1>3. 1 \in 1..n
  BY <1>1
<1>4. s[1] \in B
  BY <1>1, <1>3
<1> HIDE DEF t, n
<1>5. q \in Seq(B) /\ Len(q) = 1 + Len(t) /\ q[1] = s[1]
      /\ \A i \in 1..Len(t) : q[1 + i] = t[i]
  <2> DEFINE x == s[1]
             b == IF 2 = 1 THEN <<>> ELSE <<x>>
             d == IF 2 = 1 THEN 0 ELSE 1
  <2>1. b = one /\ d = 1
    OBVIOUS
  <2>2. x \in B /\ t \in Seq(B)
    BY <1>2, <1>4
  <2> HIDE DEF x
  <2>3. /\ b \o t \in Seq(B) /\ Len(t) \in Nat /\ DOMAIN (b \o t) = 1..(d + Len(t))
        /\ (\A r \in 1..Len(t) : (b \o t)[d + r] = t[r]) /\ (b \o t)[1] = x
    BY ONLY <2>2, Separated DEF b, d
  <2> HIDE DEF b, d
  <2>4. DOMAIN q = 1..(1 + Len(t)) /\ q \in Seq(B)
    BY <2>1, <2>3
  <2>5. Len(q) = 1 + Len(t)
    <3> HIDE DEF q
    <3>1. Len(q) \in Nat /\ DOMAIN q = 1..Len(q)
      BY <2>4, LenProperties
    <3>2. QED
      BY <2>3, <2>4, <3>1
  <2>6. QED
    BY <2>1, <2>3, <2>4, <2>5 DEF x
<1> HIDE DEF q
<1>6. ASSUME NEW i \in 1..n PROVE s[i] = q[i]
  <2>1. CASE i = 1
    BY <1>5, <2>1
  <2>2. CASE i # 1
    <3>1. i - 1 \in 1..Len(t) /\ 1 + (i - 1) = i /\ (i - 1) + 1 = i
      BY <1>1, <1>2, <2>2
    <3>2. q[1 + (i - 1)] = t[i - 1] /\ t[i - 1] = s[(i - 1) + 1]
      BY <1>2, <1>5, <3>1
    <3>3. QED
      BY <3>1, <3>2
  <2>3. QED
    BY <2>1, <2>2
<1>7. Len(s) = Len(q) /\ \A i \in 1..Len(s) : s[i] = q[i]
  BY <1>1, <1>2, <1>5, <1>6 DEF n
<1>8. s = q
  BY <1>5, <1>7, SeqEqual
<1>9. QED
  BY <1>8 DEF q, t

\* What shortening runs of blank lines does to the lines of a text: line i of S
\* was line f[i] of L.  A blank line is one of items of W.  Lines of L that are
\* no longer there were blank, and come after a line that is; a line of S may
\* have lost blanks at its start.
Squeezed(f, S, L, W) ==
    /\ f \in [1..Len(S) -> 1..Len(L)] /\ f[1] = 1
    /\ \A i, j \in 1..Len(S) : i < j => f[i] < f[j]
    /\ \A k \in 1..Len(L) : L[k] \in Seq(W) \/ \E i \in 1..Len(S) : f[i] = k
    /\ \A i \in 1..Len(S) : \E p \in Seq(W) : L[f[i]] = p \o S[i]
    /\ \A i \in 1..(Len(S) - 1) : S[i] \in Seq(W) \/ f[i + 1] = f[i] + 1

\* The last line of S is the last one of L.
Ends(S, L, W) == \E f : Squeezed(f, S, L, W) /\ f[Len(S)] = Len(L)

\* A blank line more in L.
LEMMA KeptBlank ==
    ASSUME NEW W, NEW S, NEW L, Len(S) \in Nat, Len(L) \in Nat, NEW f, Squeezed(f, S, L, W),
           NEW M, Len(M) = Len(L) + 1, \A k \in 1..Len(L) : M[k] = L[k],
           M[Len(M)] \in Seq(W)
    PROVE  Squeezed(f, S, M, W)
<1> DEFINE m == Len(L)
           n == Len(S)
<1>1. /\ f \in [1..n -> 1..m] /\ f[1] = 1
      /\ \A i, j \in 1..n : i < j => f[i] < f[j]
      /\ \A k \in 1..m : L[k] \in Seq(W) \/ \E i \in 1..n : f[i] = k
      /\ \A i \in 1..n : \E p \in Seq(W) : L[f[i]] = p \o S[i]
      /\ \A i \in 1..(n - 1) : S[i] \in Seq(W) \/ f[i + 1] = f[i] + 1
  BY DEF Squeezed
<1>2. m \in Nat /\ n \in Nat /\ Len(M) = m + 1 /\ (\A k \in 1..m : M[k] = L[k])
      /\ M[m + 1] \in Seq(W)
  OBVIOUS
<1> HIDE DEF m, n
<1>3. \A k \in 1..m : k \in 1..(m + 1)
  BY <1>2
<1>4. f \in [1..n -> 1..(m + 1)]
  BY <1>1, <1>3
<1>5. \A k \in 1..(m + 1) : k \in 1..m \/ k = m + 1
  BY <1>2
<1>6. \A k \in 1..(m + 1) : M[k] \in Seq(W) \/ \E i \in 1..n : f[i] = k
  BY <1>1, <1>2, <1>5
<1>7. \A i \in 1..n : \E p \in Seq(W) : M[f[i]] = p \o S[i]
  BY <1>1, <1>2
<1>8. QED
  BY <1>1, <1>2, <1>4, <1>6, <1>7 DEF Squeezed, n

\* An empty line more in S, which was the last line of L.
LEMMA KeptNext ==
    ASSUME NEW W, NEW S, NEW L, Len(S) \in Nat \ {0}, Len(L) \in Nat, NEW f, Squeezed(f, S, L, W),
           f[Len(S)] < Len(L), L[Len(L)] \in Seq(W),
           S[Len(S)] \in Seq(W) \/ Len(L) = f[Len(S)] + 1,
           NEW T, Len(T) = Len(S) + 1, \A i \in 1..Len(S) : T[i] = S[i], T[Len(T)] = <<>>
    PROVE  Ends(T, L, W)
<1> DEFINE m == Len(L)
           n == Len(S)
           g == [i \in 1..(n + 1) |-> IF i = n + 1 THEN m ELSE f[i]]
<1>1. /\ f \in [1..n -> 1..m] /\ f[1] = 1
      /\ \A i, j \in 1..n : i < j => f[i] < f[j]
      /\ \A k \in 1..m : L[k] \in Seq(W) \/ \E i \in 1..n : f[i] = k
      /\ \A i \in 1..n : \E p \in Seq(W) : L[f[i]] = p \o S[i]
      /\ \A i \in 1..(n - 1) : S[i] \in Seq(W) \/ f[i + 1] = f[i] + 1
  BY DEF Squeezed
<1>2. m \in Nat /\ n \in Nat /\ n >= 1 /\ Len(T) = n + 1 /\ (\A i \in 1..n : T[i] = S[i])
      /\ T[n + 1] = <<>> /\ f[n] < m /\ L[m] \in Seq(W) /\ (S[n] \in Seq(W) \/ m = f[n] + 1)
  OBVIOUS
<1> HIDE DEF m, n
<1>3. (\A i \in 1..n : i \in 1..(n + 1) /\ i # n + 1) /\ n + 1 \in 1..(n + 1) /\ n \in 1..n
      /\ 1 \in 1..n /\ \A i \in 1..(n + 1) : i \in 1..n \/ i = n + 1
  BY <1>2
<1>4. g[n + 1] = m /\ \A i \in 1..n : g[i] = f[i]
  BY <1>3
<1>5. m \in 1..m
  BY <1>1, <1>2, <1>3
<1>6. g \in [1..(n + 1) -> 1..m]
  BY <1>1, <1>3, <1>5
<1> HIDE DEF g
<1>7. g[1] = 1
  BY <1>1, <1>3, <1>4
<1>8. ASSUME NEW i \in 1..(n + 1), NEW j \in 1..(n + 1), i < j PROVE g[i] < g[j]
  <2>1. i \in 1..n
    BY <1>2, <1>8
  <2>2. CASE j \in 1..n
    BY <1>1, <1>4, <1>8, <2>1, <2>2
  <2>3. CASE j = n + 1
    <3>1. i = n \/ i < n
      BY <1>2, <2>1
    <3>2. f[i] \in 1..m /\ f[n] \in 1..m /\ (i = n \/ f[i] < f[n])
      BY <1>1, <1>3, <2>1, <3>1
    <3>3. f[i] < m
      <4>1. f[n] < m /\ m \in Nat
        BY <1>2
      <4>2. QED
        BY ONLY <3>2, <4>1
    <3>4. QED
      BY <1>4, <2>1, <2>3, <3>3
  <2>4. QED
    BY <1>3, <2>2, <2>3
<1>9. \A k \in 1..m : L[k] \in Seq(W) \/ \E i \in 1..(n + 1) : g[i] = k
  BY <1>1, <1>3, <1>4
<1>10. ASSUME NEW i \in 1..(n + 1) PROVE \E p \in Seq(W) : L[g[i]] = p \o T[i]
  <2>1. CASE i \in 1..n
    <3>1. g[i] = f[i] /\ T[i] = S[i]
      BY <1>2, <1>4, <2>1
    <3>2. \E p \in Seq(W) : L[f[i]] = p \o S[i]
      BY <1>1, <2>1
    <3>3. QED
      BY <3>1, <3>2
  <2>2. CASE i = n + 1
    <3>1. L[m] \o <<>> = L[m]
      BY <1>2, ConcatLaws
    <3>2. QED
      BY <1>2, <1>4, <2>2, <3>1
  <2>3. QED
    BY <1>3, <2>1, <2>2
<1>11. ASSUME NEW i \in 1..n PROVE T[i] \in Seq(W) \/ g[i + 1] = g[i] + 1
  <2>1. CASE i = n
    BY <1>2, <1>3, <1>4, <2>1
  <2>2. CASE i # n
    <3>1. i \in 1..(n - 1) /\ i + 1 \in 1..n
      BY <1>2, <2>2
    <3>2. QED
      BY <1>1, <1>2, <1>4, <3>1
  <2>3. QED
    BY <2>1, <2>2
<1>12. (n + 1) - 1 = n
  BY <1>2
<1>13. Squeezed(g, T, L, W)
  BY <1>2, <1>6, <1>7, <1>8, <1>9, <1>10, <1>11, <1>12 DEF Squeezed, m
<1>14. g[Len(T)] = Len(L)
  BY <1>2, <1>4 DEF m
<1>15. QED
  BY <1>13, <1>14 DEF Ends

\* An item more in the last lines of both.
LEMMA KeptLast ==
    ASSUME NEW B, NEW W \in SUBSET B, NEW S \in Seq(Seq(B)), NEW L \in Seq(Seq(B)), Len(S) # 0,
           NEW f, Squeezed(f, S, L, W), f[Len(S)] = Len(L), NEW x \in B,
           NEW T, Len(T) = Len(S), T[Len(S)] = Append(S[Len(S)], x),
           \A i \in 1..(Len(S) - 1) : T[i] = S[i],
           NEW M, Len(M) = Len(L), M[Len(L)] = Append(L[Len(L)], x),
           \A k \in 1..(Len(L) - 1) : M[k] = L[k]
    PROVE  Squeezed(f, T, M, W)
<1> DEFINE m == Len(L)
           n == Len(S)
<1>0. Len(L) \in Nat /\ Len(S) \in Nat /\ \A i \in 1..Len(S) : S[i] \in Seq(B)
  BY LenProperties, ElementOfSeq
<1>1. /\ f \in [1..n -> 1..m] /\ f[1] = 1
      /\ \A i, j \in 1..n : i < j => f[i] < f[j]
      /\ \A k \in 1..m : L[k] \in Seq(W) \/ \E i \in 1..n : f[i] = k
      /\ \A i \in 1..n : \E p \in Seq(W) : L[f[i]] = p \o S[i]
      /\ \A i \in 1..(n - 1) : S[i] \in Seq(W) \/ f[i + 1] = f[i] + 1
  BY DEF Squeezed
<1>2. /\ m \in Nat /\ n \in Nat /\ n >= 1 /\ f[n] = m
      /\ Len(T) = n /\ T[n] = Append(S[n], x) /\ \A i \in 1..(n - 1) : T[i] = S[i]
      /\ Len(M) = m /\ M[m] = Append(L[m], x) /\ \A k \in 1..(m - 1) : M[k] = L[k]
  BY <1>0
<1>3. \A i \in 1..n : S[i] \in Seq(B)
  BY <1>0
<1> HIDE DEF m, n
<1>4. n \in 1..n /\ (\A i \in 1..n : i = n \/ i \in 1..(n - 1))
      /\ (\A k \in 1..m : k = m \/ k \in 1..(m - 1)) /\ (\A i \in 1..(n - 1) : i \in 1..n /\ i < n)
      /\ \A k \in 1..m : k < m => k \in 1..(m - 1)
  BY <1>2
<1>5. ASSUME NEW k \in 1..m PROVE M[k] \in Seq(W) \/ \E i \in 1..n : f[i] = k
  BY <1>1, <1>2, <1>4
<1>6. ASSUME NEW i \in 1..n PROVE \E p \in Seq(W) : M[f[i]] = p \o T[i]
  <2>1. CASE i = n
    <3>0. \E p \in Seq(W) : L[f[n]] = p \o S[n]
      BY <1>1, <1>4
    <3>1. PICK p \in Seq(W) : L[m] = p \o S[n]
      BY <1>2, <3>0
    <3> DEFINE u == S[n]
    <3>2. p \in Seq(B) /\ u \in Seq(B) /\ x \in B
      BY <1>3, <1>4, SeqMonotonic
    <3> HIDE DEF u
    <3>3. p \o Append(u, x) = Append(p \o u, x)
      BY ONLY <3>2, ConcatLaws
    <3>4. QED
      BY <1>2, <2>1, <3>1, <3>3 DEF u
  <2>2. CASE i \in 1..(n - 1)
    <3>1. f[i] \in 1..m /\ f[i] < m
      BY <1>1, <1>2, <1>4, <2>2
    <3>2. M[f[i]] = L[f[i]] /\ T[i] = S[i]
      BY <1>2, <1>4, <2>2, <3>1
    <3>3. QED
      BY <1>1, <3>2
  <2>3. QED
    BY <1>4, <2>1, <2>2
<1>7. \A i \in 1..(n - 1) : T[i] \in Seq(W) \/ f[i + 1] = f[i] + 1
  BY <1>1, <1>2
<1>8. QED
  BY <1>1, <1>2, <1>5, <1>6, <1>7 DEF Squeezed

\* A blank more in the last line of L, when the last one of S is empty.
LEMMA KeptSpace ==
    ASSUME NEW W, NEW S, NEW L, Len(S) \in Nat \ {0}, Len(L) \in Nat \ {0}, NEW f,
           Squeezed(f, S, L, W), S[Len(S)] = <<>>, L[Len(L)] \in Seq(W), NEW x \in W,
           NEW M, Len(M) = Len(L), M[Len(L)] = Append(L[Len(L)], x),
           \A k \in 1..(Len(L) - 1) : M[k] = L[k]
    PROVE  Squeezed(f, S, M, W) /\ M[Len(M)] \in Seq(W)
<1> DEFINE m == Len(L)
           n == Len(S)
<1>1. /\ f \in [1..n -> 1..m] /\ f[1] = 1
      /\ \A i, j \in 1..n : i < j => f[i] < f[j]
      /\ \A k \in 1..m : L[k] \in Seq(W) \/ \E i \in 1..n : f[i] = k
      /\ \A i \in 1..n : \E p \in Seq(W) : L[f[i]] = p \o S[i]
      /\ \A i \in 1..(n - 1) : S[i] \in Seq(W) \/ f[i + 1] = f[i] + 1
  BY DEF Squeezed
<1>2. /\ m \in Nat /\ n \in Nat /\ n >= 1 /\ S[n] = <<>>
      /\ Len(M) = m /\ M[m] = Append(L[m], x) /\ \A k \in 1..(m - 1) : M[k] = L[k]
  OBVIOUS
<1>3. Append(L[m], x) \in Seq(W)
  BY AppendProperties
<1> HIDE DEF m, n
<1>4. n \in 1..n /\ (\A i \in 1..n : i = n \/ i < n)
      /\ (\A k \in 1..m : k = m \/ k \in 1..(m - 1))
      /\ \A k \in 1..m : k < m => k \in 1..(m - 1) /\ k # m
  BY <1>2
<1>5. ASSUME NEW k \in 1..m PROVE M[k] \in Seq(W) \/ \E i \in 1..n : f[i] = k
  BY <1>1, <1>2, <1>3, <1>4
<1>6. ASSUME NEW i \in 1..n PROVE \E p \in Seq(W) : M[f[i]] = p \o S[i]
  <2>1. CASE f[i] = m
    <3>1. i = n
      <4>1. f[n] \in 1..m
        BY <1>1, <1>4
      <4>2. i < n => f[i] < f[n]
        BY <1>1, <1>4
      <4>3. QED
        BY <1>2, <1>4, <2>1, <4>1, <4>2
    <3>2. Append(L[m], x) \o <<>> = Append(L[m], x)
      BY <1>3, ConcatLaws
    <3>3. QED
      BY <1>2, <1>3, <2>1, <3>1, <3>2
  <2>2. CASE f[i] # m
    <3>1. f[i] \in 1..m
      BY <1>1
    <3>2. M[f[i]] = L[f[i]]
      BY <1>2, <1>4, <2>2, <3>1
    <3>3. QED
      BY <1>1, <3>2
  <2>3. QED
    BY <2>1, <2>2
<1>7. QED
  BY <1>1, <1>2, <1>3, <1>5, <1>6 DEF Squeezed

\* The places of a sequence, in order.
Numbers(lines) == [i \in DOMAIN lines |-> i]

\* They are a sequence of places.
LEMMA NumbersAre ==
    ASSUME NEW S, NEW lines \in Seq(S)
    PROVE  /\ Numbers(lines) \in Seq(DOMAIN lines)
           /\ Len(Numbers(lines)) = Len(lines)
           /\ Len(lines) \in Nat /\ DOMAIN lines = 1..Len(lines)
           /\ \A i \in 1..Len(lines) : Numbers(lines)[i] = i /\ lines[i] \in S
<1>1. Len(lines) \in Nat /\ DOMAIN lines = 1..Len(lines)
      /\ \A i \in 1..Len(lines) : lines[i] \in S
  BY LenProperties, ElementOfSeq
<1>2. Numbers(lines) \in [1..Len(lines) -> DOMAIN lines]
  BY <1>1 DEF Numbers
<1>3. Numbers(lines) \in Seq(DOMAIN lines)
  BY <1>1, <1>2, SeqDef
<1>4. Len(Numbers(lines)) = Len(lines)
  BY <1>1, <1>2, <1>3, LenProperties
<1>5. QED
  BY <1>1, <1>3, <1>4 DEF Numbers

\* Filtering first for more changes nothing.
LEMMA OnlyTwice ==
    ASSUME NEW T, NEW p \in Seq(T), NEW A, NEW D, \A x \in Range(p) : x \in D => x \in A
    PROVE  Only(Only(p, A), D) = Only(p, D)
<1> DEFINE Q == {t \in Seq(T) : Range(t) \subseteq Range(p) => Only(Only(t, A), D) = Only(t, D)}
<1>0. /\ Only(<<>>, A) = <<>> /\ Only(<<>>, D) = <<>>
      /\ \A t \in Seq(T) : Only(t, A) \in Seq(T)
      /\ \A t \in Seq(T), x \in T :
           /\ Only(Append(t, x), A) = IF x \in A THEN Append(Only(t, A), x) ELSE Only(t, A)
           /\ Only(Append(t, x), D) = IF x \in D THEN Append(Only(t, D), x) ELSE Only(t, D)
  <2>1. /\ Only(<<>>, A) = <<>> /\ \A t \in Seq(T) : Only(t, A) \in Seq(T)
        /\ \A t \in Seq(T), x \in T :
              Only(Append(t, x), A) = IF x \in A THEN Append(Only(t, A), x) ELSE Only(t, A)
    BY ONLY OnlyIs
  <2>2. /\ Only(<<>>, D) = <<>>
        /\ \A t \in Seq(T), x \in T :
              Only(Append(t, x), D) = IF x \in D THEN Append(Only(t, D), x) ELSE Only(t, D)
    BY ONLY OnlyIs
  <2>3. QED
    BY <2>1, <2>2
<1>1. <<>> \in Q
  BY <1>0, EmptySeq
<1>2. ASSUME NEW t \in Q, NEW x \in T PROVE Append(t, x) \in Q
  <2>1. t \in Seq(T) /\ (Range(t) \subseteq Range(p) => Only(Only(t, A), D) = Only(t, D))
    OBVIOUS
  <2>2. Append(t, x) \in Seq(T) /\ Range(Append(t, x)) = Range(t) \cup {x}
    BY <2>1, AppendProperties, RangeAppend
  <2>3. ASSUME Range(Append(t, x)) \subseteq Range(p)
        PROVE  Only(Only(Append(t, x), A), D) = Only(Append(t, x), D)
    <3>1. Only(Only(t, A), D) = Only(t, D) /\ x \in Range(p)
      BY <2>1, <2>2, <2>3
    <3>2. x \in D => x \in A
      BY <3>1
    <3> HIDE DEF Q
    <3>3. Only(t, A) \in Seq(T)
      BY <1>0, <2>1
    <3>4. CASE x \in A
      <4>1. Only(Append(t, x), A) = Append(Only(t, A), x)
        BY <1>0, <2>1, <3>4
      <4>2. Only(Append(Only(t, A), x), D) = IF x \in D THEN Append(Only(Only(t, A), D), x)
                                             ELSE Only(Only(t, A), D)
        BY <1>0, <3>3
      <4>3. Only(Append(t, x), D) = IF x \in D THEN Append(Only(t, D), x) ELSE Only(t, D)
        BY <1>0, <2>1
      <4>4. QED
        BY <3>1, <4>1, <4>2, <4>3
    <3>5. CASE x \notin A
      <4>1. Only(Append(t, x), A) = Only(t, A) /\ Only(Append(t, x), D) = Only(t, D)
        BY <1>0, <2>1, <3>2, <3>5
      <4>2. QED
        BY <3>1, <4>1
    <3>6. QED
      BY <3>4, <3>5
  <2>4. QED
    BY <2>2, <2>3
<1>3. \A t \in Seq(T) : t \in Q
  <2>1. Q \in SUBSET Seq(T)
    OBVIOUS
  <2> HIDE DEF Q
  <2>2. QED
    BY <1>1, <1>2, <2>1, SequencesAll
<1>4. p \in Q
  BY <1>3
<1>5. QED
  BY <1>4

MatchStep(short, n, x) == IF n < Len(short) /\ short[n + 1] = x THEN n + 1 ELSE n
MatchF(short, S) == [n \in Nat |-> [x \in S |-> MatchStep(short, n, x)]]

\* IsSubsequence counts what it has found.
LEMMA MatchLoop ==
    ASSUME NEW S, NEW short \in Seq(S), NEW long \in Seq(S)
    PROVE  \E acc \in [0..Len(long) -> Nat] :
               /\ acc[0] = 0
               /\ \A i \in 1..Len(long) : acc[i] = MatchStep(short, acc[i - 1], long[i])
               /\ IsSubsequence(short, long) <=> acc[Len(long)] = Len(short)
<1> DEFINE D == DOMAIN long
           F == MatchF(short, S)
           fold == FoldLeft(LAMBDA n, x : MatchStep(short, n, x), 0, long)
           E(h) == [t \in SUBSET D |->
                       IF t = {} THEN 0
                       ELSE MatchStep(short, h[t \ {Max(t)}], long[Max(t)])]
           it == CHOOSE h : h = E(h)
<1>1. Len(short) \in Nat /\ Len(long) \in Nat /\ D = 1..Len(long)
      /\ \A i \in 1..Len(long) : long[i] \in S
  BY LenProperties, ElementOfSeq
<1>2. \A n \in Nat, x \in S : MatchStep(short, n, x) \in Nat /\ F[n][x] = MatchStep(short, n, x)
  BY DEF MatchStep, MatchF
<1>3. Stays(F, Nat, S)
  BY <1>2 DEF Stays
<1>4. IsSubsequence(short, long) <=> fold = Len(short)
  BY DEF IsSubsequence, MatchStep
<1>5. fold = it[D]
  BY DEF FoldLeft, MapThenFoldSet
<1> HIDE DEF F, fold
<1>6. \A t \in SUBSET D : t # {} => Max(t) \in D
  BY <1>1, LastPosition
<1>7. PICK h \in [SUBSET D -> Nat] : Lefts(h, F, 0, long)
  BY <1>3, LeftsExist
<1>8. ASSUME NEW t \in SUBSET D
      PROVE  h[t] = IF t = {} THEN 0 ELSE MatchStep(short, h[t \ {Max(t)}], long[Max(t)])
  <2>1. h[t] = IF t = {} THEN 0 ELSE F[h[t \ {Max(t)}]][long[Max(t)]]
    BY <1>7 DEF Lefts
  <2>2. t # {} => h[t \ {Max(t)}] \in Nat /\ long[Max(t)] \in S
    BY <1>1, <1>6
  <2>3. QED
    BY <1>2, <2>1, <2>2
<1>9. it = E(it)
  <2>1. h = E(h)
    BY <1>8
  <2> HIDE DEF E
  <2>2. QED
    BY <2>1
<1> HIDE DEF it
<1>10. \A t \in SUBSET D : it[t] = IF t = {} THEN 0
                                 ELSE MatchStep(short, it[t \ {Max(t)}], long[Max(t)])
  BY <1>9
<1>11. GoesOn(it, F, Nat, 0, long)
  <2>1. it[{}] = 0
    BY <1>10
  <2>2. ASSUME NEW t \in SUBSET D, t # {}, it[t \ {Max(t)}] \in Nat
        PROVE  it[t] = F[it[t \ {Max(t)}]][long[Max(t)]]
    <3>1. long[Max(t)] \in S
      BY <1>1, <1>6, <2>2
    <3>2. it[t] = MatchStep(short, it[t \ {Max(t)}], long[Max(t)])
      BY <1>10, <2>2
    <3>3. QED
      BY <1>2, <2>2, <3>1, <3>2
  <2>3. QED
    BY <2>1, <2>2 DEF GoesOn
<1>12. PICK acc \in [0..Len(long) -> Nat] : IsLoop(acc, F, 0, long) /\ it[D] = acc[Len(long)]
  <2> DEFINE V == Nat
             zero == 0
  <2>1. Stays(F, V, S) /\ zero \in V /\ GoesOn(it, F, V, zero, long)
    BY <1>3, <1>11
  <2> HIDE DEF V, zero
  <2>2. \E acc \in [0..Len(long) -> V] : IsLoop(acc, F, zero, long) /\ it[D] = acc[Len(long)]
    BY <2>1, FoldIsLoop
  <2>3. QED
    BY <2>2 DEF V, zero
<1>13. ASSUME NEW i \in 1..Len(long) PROVE acc[i] = MatchStep(short, acc[i - 1], long[i])
  <2>1. i - 1 \in 0..Len(long)
    BY <1>1
  <2>2. acc[i - 1] \in Nat /\ acc[i] = F[acc[i - 1]][long[i]] /\ long[i] \in S
    BY <1>1, <1>12, <2>1 DEF IsLoop
  <2>3. QED
    BY <1>2, <2>2
<1>14. acc[0] = 0
  BY <1>12 DEF IsLoop
<1>15. QED
  BY <1>4, <1>5, <1>12, <1>13, <1>14

\* Where the items of short are found in long.
FoundAt(short, n, long, m, f) ==
    /\ f \in [1..n -> 1..m]
    /\ \A i \in 1..n : short[i] = long[f[i]]
    /\ \A i, j \in 1..n : i < j => f[i] < f[j]

\* What IsSubsequence has counted is found, in order.
LEMMA SubsequenceIs ==
    ASSUME NEW S, NEW short \in Seq(S), NEW long \in Seq(S), IsSubsequence(short, long)
    PROVE  \E f : FoundAt(short, Len(short), long, Len(long), f)
<1>1. PICK acc \in [0..Len(long) -> Nat] :
             /\ acc[0] = 0
             /\ \A i \in 1..Len(long) : acc[i] = MatchStep(short, acc[i - 1], long[i])
             /\ IsSubsequence(short, long) <=> acc[Len(long)] = Len(short)
  BY MatchLoop
<1>2. Len(short) \in Nat /\ Len(long) \in Nat
  BY LenProperties
<1> DEFINE Good(i) == \E f : FoundAt(short, acc[i], long, i, f)
           Q == {i \in 0..Len(long) : Good(i)}
<1>3. 0 \in Q
  <2> DEFINE e == [p \in 1..0 |-> 1]
  <2>1. 1..0 = {}
    OBVIOUS
  <2>2. FoundAt(short, acc[0], long, 0, e)
    BY <1>1, <2>1 DEF FoundAt
  <2>3. Good(0)
    BY <2>2
  <2> HIDE DEF Good
  <2>4. QED
    BY <1>2, <2>3
<1>4. ASSUME NEW i \in 1..Len(long), i - 1 \in Q PROVE i \in Q
  <2>1. PICK f : FoundAt(short, acc[i - 1], long, i - 1, f)
    BY <1>4
  <2> DEFINE n == acc[i - 1]
  <2>2. i \in 0..Len(long) /\ i - 1 \in 0..Len(long) /\ i \in 1..i /\ n \in Nat
    BY <1>2
  <2> HIDE DEF n
  <2>3. /\ f \in [1..n -> 1..(i - 1)]
        /\ \A k \in 1..n : short[k] = long[f[k]]
        /\ \A k, j \in 1..n : k < j => f[k] < f[j]
    BY <2>1 DEF FoundAt, n
  <2>4. \A k \in 1..n : f[k] \in 1..i /\ f[k] < i
    BY <2>2, <2>3
  <2>5. acc[i] = MatchStep(short, n, long[i])
    BY <1>1 DEF n
  <2>6. CASE n < Len(short) /\ short[n + 1] = long[i]
    <3> DEFINE ff == [k \in 1..(n + 1) |-> IF k = n + 1 THEN i ELSE f[k]]
    <3>1. acc[i] = n + 1
      BY <2>5, <2>6 DEF MatchStep
    <3>2. \A k \in 1..(n + 1) : (k \in 1..n /\ k # n + 1) \/ k = n + 1
      BY <2>2
    <3>3. \A k \in 1..(n + 1) : ff[k] \in 1..i
      BY <2>2, <2>4, <3>2
    <3>4. \A k \in 1..(n + 1) : short[k] = long[ff[k]]
      BY <2>3, <2>6, <3>2
    <3>5. ASSUME NEW k \in 1..(n + 1), NEW j \in 1..(n + 1), k < j PROVE ff[k] < ff[j]
      <4>1. k \in 1..n /\ ff[k] = f[k]
        BY <2>2, <3>2, <3>5
      <4>2. CASE j = n + 1
        BY <2>4, <4>1, <4>2
      <4>3. CASE j \in 1..n /\ j # n + 1
        BY <2>3, <3>5, <4>1, <4>3
      <4>4. QED
        BY <3>2, <4>2, <4>3
    <3>6. ff \in [1..(n + 1) -> 1..i]
      BY <3>3
    <3> HIDE DEF ff
    <3>7. FoundAt(short, acc[i], long, i, ff)
      BY <3>1, <3>4, <3>5, <3>6 DEF FoundAt
    <3>8. Good(i)
      BY <3>7
    <3> HIDE DEF Good
    <3>9. QED
      BY <2>2, <3>8
  <2>7. CASE ~(n < Len(short) /\ short[n + 1] = long[i])
    <3>1. acc[i] = n
      BY <2>5, <2>7 DEF MatchStep
    <3>2. f \in [1..n -> 1..i]
      BY <2>3, <2>4
    <3>3. FoundAt(short, acc[i], long, i, f)
      BY <2>3, <3>1, <3>2 DEF FoundAt
    <3>4. Good(i)
      BY <3>3
    <3> HIDE DEF Good
    <3>5. QED
      BY <2>2, <3>4
  <2>8. QED
    BY <2>6, <2>7
<1> HIDE DEF Q
<1>5. \A i \in 0..Len(long) : i \in Q
  BY <1>2, <1>3, <1>4, UpTo
<1>6. Len(long) \in 0..Len(long)
  BY <1>2
<1>7. QED
  BY <1>1, <1>5, <1>6 DEF Q
=============================================================================
