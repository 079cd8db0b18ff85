----------------------------- MODULE MC_GapWorkers -----------------------------
EXTENDS GapWorkers

\* Groups on an 8-base query and target with min_gap 1, max_gap 3,
\* flank 1: one alignment giving one box (to the start), two alignments
\* giving three boxes, two adjacent alignments whose box from the start
\* contains another box (dropped by the filter), and one alignment giving
\* none (gap_core() returns before the filter).
MCGroupSets ==
    { << GC!Box(2, 3, 2, 3) >>,
      << GC!Box(2, 3, 2, 3), GC!Box(5, 6, 5, 6) >>,
      << GC!Box(1, 2, 1, 2), GC!Box(2, 3, 2, 3) >>,
      << GC!Box(4, 5, 4, 5) >> }
=============================================================================
