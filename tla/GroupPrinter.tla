---------------------------- MODULE GroupPrinter ----------------------------
(***************************************************************************)
(* What the thread pool of align_gaps() promises: every group is printed  *)
(* once, in one piece, with exactly its lines and in any order of groups, *)
(* and every group is eventually printed.  The lines of a group are the   *)
(* set Lines(group), written in some order.                                *)
(***************************************************************************)
EXTENDS Integers, Sequences, SequencesExt, FiniteSets

CONSTANTS
    GroupIds,   \* the indices handed to kt_for()
    Lines(_)    \* the set of boxes a group's content must print

VARIABLES
    groups,     \* the content of each group (fixed)
    printed,    \* the groups printed so far
    aout        \* stdout: lines [g |-> group, box |-> rectangle]

avars == << groups, printed, aout >>

Init ==
    /\ printed = {}
    /\ aout = << >>

\* One group appended to stdout in one piece.
PrintGroup(g) ==
    /\ g \notin printed
    /\ printed' = printed \cup { g }
    /\ \E s \in SetToSeqs(Lines(groups[g])) :
          aout' = aout \o [p \in 1..Len(s) |-> [g |-> g, box |-> s[p]]]
    /\ UNCHANGED groups

Next == \E g \in GroupIds : PrintGroup(g)

Spec == Init /\ [][Next]_avars /\ WF_avars(Next)
=============================================================================
