------------------------------ MODULE Filters ------------------------------
(***************************************************************************)
(* What a loop keeps of a sequence, and a set in order.  They are written  *)
(* as the loop and by counting, because the proof system has no definition *)
(* of SelectSeq and SortSeq.                                               *)
(***************************************************************************)
EXTENDS Naturals, Sequences, SequencesExt, FiniteSets

\* The items of s that are in D, in their order.
Only(s, D) ==
    FoldLeft(LAMBDA kept, x : IF x \in D THEN Append(kept, x) ELSE kept, <<>>, s)

\* The items of short are in long, in their order.
IsSubsequence(short, long) ==
    FoldLeft(LAMBDA n, x : IF n < Len(short) /\ short[n + 1] = x THEN n + 1 ELSE n,
             0, long) = Len(short)

\* The items of S in order, when before[x] has those that come before x: the
\* n-th is the one that comes after n - 1 of S.
InOrder(S, before) ==
    [n \in 1..Cardinality(S) |->
        CHOOSE x \in S : Cardinality(S \cap before[x]) = n - 1]
Ascending(S) == InOrder(S, [x \in S |-> {y \in S : y < x}])
=============================================================================
