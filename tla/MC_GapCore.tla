----------------------------- MODULE MC_GapCore -----------------------------
EXTENDS GapCore

\* Alignments of length 1 or 2 on an 8-base query, each on the target
\* diagonal or one base off it: partners fall inside and outside the
\* window, gaps are found against both sentinels, and boxes nest.
MCPool ==
    { Box(qb, qb + l, qb + d, qb + d + l) :
        qb \in 1..5, l \in 1..2, d \in {-1, 0, 1} }

\* RORDER within a group: abpos, then bbpos, aepos, bepos.
ROrderLeq(x, y) ==
    \/ x.abpos < y.abpos
    \/ x.abpos = y.abpos /\ x.bbpos < y.bbpos
    \/ x.abpos = y.abpos /\ x.bbpos = y.bbpos /\ x.aepos < y.aepos
    \/ x.abpos = y.abpos /\ x.bbpos = y.bbpos /\ x.aepos = y.aepos /\ x.bepos <= y.bepos

\* Every RORDER-sorted group of one to three alignments of the pool.
MCGroups ==
    { g \in UNION { [1..n -> MCPool] : n \in 1..3 } :
        \A j \in 1..(Len(g) - 1) : ROrderLeq(g[j], g[j + 1]) }
=============================================================================
