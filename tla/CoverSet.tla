----------------------------- MODULE CoverSet -----------------------------
(***************************************************************************)
(* What a rangeset promises: a set of covered bases of one sequence, to   *)
(* which a half-open interval [beg, end) is added.  An empty or inverted  *)
(* interval adds nothing.  `added` is the interval of the last add, so a   *)
(* step says which interval it was given and that exactly its bases were   *)
(* added.                                                                  *)
(***************************************************************************)
EXTENDS Integers

CONSTANT Pos          \* the coordinates a model uses

VARIABLES
    cover,      \* the set of covered bases
    added       \* the interval [beg, end) of the last add

Init == cover = {} /\ added = << >>

Add(beg, end) ==
    /\ added' = << beg, end >>
    /\ cover' = cover \cup beg..(end - 1)

Next == \E beg, end \in Pos : Add(beg, end)

Spec == Init /\ [][Next]_<< cover, added >>
=============================================================================
