----------------------------- MODULE RangeSet -----------------------------
(***************************************************************************)
(* One rangeset (rangeset_t of alngap.c) driven the way                    *)
(* reciprocal_best_aligns() drives it: rangeset_overlap() on an interval, *)
(* then rangeset_add() with the boundary indices that call returned.      *)
(***************************************************************************)
EXTENDS RangeSetOps

CONSTANTS
    Pos,        \* coordinates of the intervals inserted
    StrayEnd    \* values the out-of-bounds read of a[-1].end can yield

VARIABLES
    spans,  \* the ranges, as a sequence of [beg, end]
    req     \* history: the interval the last Insert was given

vars == << spans, req >>

Init == spans = << >> /\ req = << >>

\* alngap.c:222 and :227: overlap, then add with the same b and e.
Insert(beg, end, stray) ==
    LET q == RangesetOverlap(spans, beg, end)
    IN /\ spans' = RangesetAdd(spans, beg, end, q.b, q.e, stray)
       /\ req' = << beg, end >>

Next == \E beg, end \in Pos, stray \in StrayEnd : Insert(beg, end, stray)

Spec == Init /\ [][Next]_vars

-----------------------------------------------------------------------------
\* The ranges stay non-empty, sorted, disjoint and non-adjacent after any
\* sequence of rangeset_add calls (the precondition of both binary searches).
SpansWellFormed == WellFormed(spans)

\* The overlap rangeset_overlap() reports for any interval is exactly the
\* number of covered bases in it: its binary searches never skip a range
\* that meets the interval.
OverlapExact ==
    \A beg, end \in Pos :
        beg < end =>
            RangesetOverlap(spans, beg, end).o
                = Cardinality(Covered(spans) \cap beg..(end - 1))

\* find_last_small / find_first_large agree with their reference
\* definitions on every reachable rangeset and every query value.
SearchesAgree ==
    \A v \in Pos :
        /\ FindLastSmall(spans, v) = LastSmallRef(spans, v)
        /\ FindFirstLarge(spans, v) = FirstLargeRef(spans, v)

\* The rangeset implements a coverage set: every overlap+add pair adds
\* exactly the bases of the interval [beg, end) it was given to what is
\* covered, no more, no less, whatever ranges it merges or abuts.
Abstract == INSTANCE CoverSet WITH cover <- Covered(spans), added <- req
CoverRefinement == Abstract!Spec
=============================================================================
