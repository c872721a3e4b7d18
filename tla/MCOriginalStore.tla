-------------------------- MODULE MCOriginalStore --------------------------
\* Three contents of unequal size, of which the cap holds two at most; the
\* clock passes the TTL, and one retrieval races the Puts.
EXTENDS OriginalStore, TLC

CONSTANTS log, diff, page, g1

MCContents == {log, diff, page}
MCSize == log :> 1 @@ diff :> 1 @@ page :> 2
\* The two contents of one unit are interchangeable.
SmallOnes == Permutations({log, diff})
MCGetters == {g1}
ContentFault == {"content"}
IndexFault == {"index"}
NoFault == {}
=============================================================================
