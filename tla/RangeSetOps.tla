---------------------------- MODULE RangeSetOps ----------------------------
(***************************************************************************)
(* The rangeset of alngap.c as pure operators.  A rangeset (rangeset_t, a *)
(* kvec of range_t) is a sequence of records [beg, end]; the C array index *)
(* k is the sequence position k+1.  The binary searches keep the C        *)
(* variables low/high/res and are checked against the reference            *)
(* definitions LastSmallRef / FirstLargeRef in the state invariants of     *)
(* RangeSet.tla.                                                           *)
(***************************************************************************)
EXTENDS Integers, Sequences, FiniteSets, SequencesExt

\* misc.h MAX / MIN (named after the macros; FiniteSetsExt has Max/Min).
MAX(x, y) == IF x > y THEN x ELSE y
MIN(x, y) == IF x < y THEN x ELSE y

\* overlap(): length of [b1,e1) /\ [b2,e2), 0 when they do not meet.
Overlap(b1, e1, b2, e2) ==
    IF MAX(b1, b2) < MIN(e1, e2) THEN MIN(e1, e2) - MAX(b1, b2) ELSE 0

\* Mutant of LastSmallLoop: the test reads end <= val.
RECURSIVE LastSmallLoopLe(_, _, _, _, _)
LastSmallLoopLe(r, val, low, high, res) ==
    IF low > high THEN res
    ELSE LET mid == low + (high - low) \div 2
         IN IF r[mid + 1].end <= val
              THEN LastSmallLoopLe(r, val, mid + 1, high, mid)
              ELSE LastSmallLoopLe(r, val, low, mid - 1, res)

\* find_last_small(): index of the rightmost range with end < val, or -1.
RECURSIVE LastSmallLoop(_, _, _, _, _)
LastSmallLoop(r, val, low, high, res) ==
    IF low > high THEN res
    ELSE LET mid == low + (high - low) \div 2
         IN IF r[mid + 1].end < val
              THEN LastSmallLoop(r, val, mid + 1, high, mid)
              ELSE LastSmallLoop(r, val, low, mid - 1, res)

\* Mutant of FindLastSmall: res starts at 0 instead of -1.
FindLastSmallRes0(r, val) == LastSmallLoop(r, val, 0, Len(r) - 1, 0)

FindLastSmall(r, val) == LastSmallLoop(r, val, 0, Len(r) - 1, -1)

\* find_first_large(): index of the leftmost range with beg > val, or n.
RECURSIVE FirstLargeLoop(_, _, _, _, _)
FirstLargeLoop(r, val, low, high, res) ==
    IF low > high THEN res
    ELSE LET mid == low + (high - low) \div 2
         IN IF r[mid + 1].beg > val
              THEN FirstLargeLoop(r, val, low, mid - 1, mid)
              ELSE FirstLargeLoop(r, val, mid + 1, high, res)

\* Mutant of FindFirstLarge: res starts at n - 1 instead of n.
FindFirstLargeLast(r, val) == FirstLargeLoop(r, val, 0, Len(r) - 1, Len(r) - 1)

FindFirstLarge(r, val) == FirstLargeLoop(r, val, 0, Len(r) - 1, Len(r))

\* rangeset_overlap(): the overlap o of [beg,end) with the set and the
\* boundary indices b, e later handed to rangeset_add().
RangesetOverlap(r, beg, end) ==
    IF beg >= end \/ Len(r) = 0
      THEN [o |-> 0, b |-> -1, e |-> Len(r)]
      ELSE LET b == FindLastSmall(r, beg)
               e == FindFirstLarge(r, end)
           IN [o |-> FoldLeft(LAMBDA acc, x : acc + Overlap(x.beg, x.end, beg, end),
                              0, SubSeq(r, b + 2, e)),
               b |-> b, e |-> e]

(***************************************************************************)
(* rangeset_add(): replaces ranges b+1 .. e-1 by one range widened to the *)
(* first and last of them.  The C code reads a[e-1] whenever e-1 < n,     *)
(* which includes e = 0: a read of a[-1], before the array.  That read is *)
(* undefined behaviour; its value is the parameter stray (what the bytes  *)
(* before the heap block hold).                                            *)
(***************************************************************************)
\* Mutant of RangesetAdd: beg is not widened to the first range replaced.
RangesetAddNoWiden(r, beg, end, b, e, stray) ==
    IF beg >= end THEN r
    ELSE LET n    == Len(r)
             last == IF e >= 1 THEN r[e].end ELSE stray
             hi   == IF e - 1 < n THEN MAX(last, end) ELSE end
         IN SubSeq(r, 1, b + 1) \o << [beg |-> beg, end |-> hi] >> \o SubSeq(r, e + 1, n)

RangesetAdd(r, beg, end, b, e, stray) ==
    IF beg >= end THEN r
    ELSE LET n    == Len(r)
             lo   == IF b + 1 < n THEN MIN(r[b + 2].beg, beg) ELSE beg
             last == IF e >= 1 THEN r[e].end ELSE stray
             hi   == IF e - 1 < n THEN MAX(last, end) ELSE end
         IN SubSeq(r, 1, b + 1) \o << [beg |-> lo, end |-> hi] >> \o SubSeq(r, e + 1, n)

\* Reference definitions of what the searches must return on a sorted set.
LastSmallRef(r, val) ==
    LET S == {k \in 0..(Len(r) - 1) : r[k + 1].end < val}
    IN IF S = {} THEN -1 ELSE CHOOSE k \in S : \A j \in S : j <= k

FirstLargeRef(r, val) ==
    LET S == {k \in 0..(Len(r) - 1) : r[k + 1].beg > val}
    IN IF S = {} THEN Len(r) ELSE CHOOSE k \in S : \A j \in S : j >= k

\* The bases a rangeset covers, and the well-formedness the code relies on:
\* every range non-empty, ranges strictly increasing and never touching.
Covered(r) == UNION { r[k].beg..(r[k].end - 1) : k \in DOMAIN r }

WellFormed(r) ==
    /\ \A k \in DOMAIN r : r[k].beg < r[k].end
    /\ \A k \in 1..(Len(r) - 1) : r[k].end < r[k + 1].beg
=============================================================================
