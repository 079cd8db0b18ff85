---------------------------- MODULE MC_RangeSet ----------------------------
EXTENDS RangeSet

\* Nine coordinates: up to four separate ranges fit, so merges across
\* several ranges, adjacency merges and inserts at both ends all happen.
MCPos == 0..8
=============================================================================
