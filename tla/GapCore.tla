------------------------------ MODULE GapCore ------------------------------
(***************************************************************************)
(* gap_core() of alngap.c for one group (one query/target pair): the      *)
(* group is copied between two sentinel alignments, every alignment is an *)
(* anchor whose forward window of partners yields candidate boxes, the    *)
(* boxes are sorted by area and each is kept unless the R-tree already    *)
(* holds a kept box inside it, and the kept boxes are printed.            *)
(***************************************************************************)
EXTENDS Integers, Sequences, FiniteSets, SequencesExt, AlngapOptions

CONSTANTS
    LArg, MArg,   \* the -l and -m arguments, in thousandths
    MaxOvl,       \* -e: atoi of its argument
    QLen, TLen,               \* lengths of the group's query and target
    Groups                    \* the groups align_gaps() can hand over

VARIABLES
    group,    \* the group: aln_t records sorted by RORDER
    pc,       \* "load", "scan", "filter", "done"
    alns,     \* the thread's scratch array: sentinel, group, sentinel
    a1,       \* outer loop index (C index of aln1)
    gaps,     \* the thread's gap buffer
    k,        \* index of the dominance loop
    tree,     \* rectangles in the R-tree, as boxes
    out       \* boxes printed, in order

vars == << group, pc, alns, a1, gaps, k, tree, out >>

\* main() stores (int) parse_num(arg) for -l and -m; gap_core() reads
\* the int fields of data_t.
MinGap == ToInt(ParseNum(LArg))
MaxGap == ToInt(ParseNum(MArg))

MAX(x, y) == IF x > y THEN x ELSE y
MIN(x, y) == IF x < y THEN x ELSE y

Box(qb, qe, tb, te) == [abpos |-> qb, aepos |-> qe, bbpos |-> tb, bepos |-> te, mlen |-> 0]

\* The two ends gap_core() adds: (0,0)-(0,0) and (alen,alen)-(blen,blen).
StartSentinel == Box(0, 0, 0, 0)
EndSentinel   == Box(QLen, QLen, TLen, TLen)

\* Mutant of AdvanceLt: the walk also passes partners at the bound.
RECURSIVE AdvanceLe(_, _, _)
AdvanceLe(s, p, bound) ==
    IF p <= Len(s) /\ s[p].abpos <= bound THEN AdvanceLe(s, p + 1, bound) ELSE p

\* while (p < end && p->abpos < bound) p++;   (1-based positions)
RECURSIVE AdvanceLt(_, _, _)
AdvanceLt(s, p, bound) ==
    IF p <= Len(s) /\ s[p].abpos < bound THEN AdvanceLt(s, p + 1, bound) ELSE p

\* The target-axis separation of two alignments.
Dist(x, y) == MAX(x.bbpos, y.bbpos) - MIN(x.bepos, y.bepos)

\* The candidate box pushed for anchor x and partner y.
MakeBox(x, y) ==
    Box(MAX(x.abpos, x.aepos - MaxOvl),
        MIN(y.aepos, y.abpos + MaxOvl),
        IF x.bepos < y.bepos THEN MAX(x.bbpos, x.bepos - MaxOvl)
                             ELSE MAX(y.bbpos, y.bepos - MaxOvl),
        IF x.bbpos > y.bbpos THEN MIN(x.bepos, x.bbpos + MaxOvl)
                             ELSE MIN(y.bepos, y.bbpos + MaxOvl))

\* Boxes of anchor position p: partners from the first abpos >= aepos+MinGap
\* up to before the first abpos >= aepos+MaxGap, whose Dist is in range.
AnchorBoxes(s, p) ==
    LET x  == s[p]
        ws == AdvanceLt(s, p + 1, x.aepos + MinGap)
        we == AdvanceLt(s, ws, x.aepos + MaxGap)
        ok == SelectSeq(SubSeq(s, ws, we - 1),
                        LAMBDA y : Dist(x, y) >= MinGap /\ Dist(x, y) <= MaxGap)
    IN [j \in 1..Len(ok) |-> MakeBox(x, ok[j])]

Area(b) == (b.aepos - b.abpos) * (b.bepos - b.bbpos)

\* The orders qsort(AORDER) may leave: area non-decreasing, ties in any
\* order (qsort is not stable).
RECURSIVE AreaSorts(_)
AreaSorts(s) ==
    IF s = << >> THEN { << >> }
    ELSE LET least == { j \in 1..Len(s) : \A m \in 1..Len(s) : Area(s[j]) <= Area(s[m]) }
         IN UNION { { << s[j] >> \o r : r \in AreaSorts(RemoveAt(s, j)) } : j \in least }

\* Mutant of ExistInside: a stored rectangle equal to b does not count.
ExistStrictlyInside(t, b) ==
    \E r \in t : /\ r # b
                 /\ b.abpos <= r.abpos /\ r.aepos <= b.aepos
                 /\ b.bbpos <= r.bbpos /\ r.bepos <= b.bepos

\* rtree_exist_node_inside(): some stored rectangle lies within b.
ExistInside(t, b) ==
    \E r \in t : /\ b.abpos <= r.abpos /\ r.aepos <= b.aepos
                 /\ b.bbpos <= r.bbpos /\ r.bepos <= b.bepos

Init ==
    /\ group \in Groups
    /\ pc = "load"
    /\ alns = << >>
    /\ a1 = 0
    /\ gaps = << >>
    /\ k = 0
    /\ tree = {}
    /\ out = << >>

\* memcpy of the group into the scratch array, the two sentinels, and the
\* reset of the gap buffer.
Load ==
    /\ pc = "load"
    /\ alns' = << StartSentinel >> \o group \o << EndSentinel >>
    /\ gaps' = << >>
    /\ a1' = 0
    /\ pc' = "scan"
    /\ UNCHANGED << group, k, tree, out >>

\* One anchor of the outer loop: all its boxes pushed onto the buffer.
ScanAnchor ==
    /\ pc = "scan"
    /\ a1 < Len(alns)
    /\ gaps' = gaps \o AnchorBoxes(alns, a1 + 1)
    /\ a1' = a1 + 1
    /\ UNCHANGED << group, pc, alns, k, tree, out >>

\* End of the scan: return when no box was found, else sort by area and
\* start the dominance loop on a new, empty R-tree.
ScanDone ==
    /\ pc = "scan"
    /\ a1 = Len(alns)
    /\ IF gaps = << >>
         THEN /\ pc' = "done"
              /\ UNCHANGED << gaps, k, tree >>
         ELSE /\ gaps' \in AreaSorts(gaps)
              /\ k' = 0
              /\ tree' = {}
              /\ pc' = "filter"
    /\ UNCHANGED << group, alns, a1, out >>

\* One box of the dominance loop: kept (mlen = 1) and inserted unless a
\* kept rectangle lies inside it.
FilterBox ==
    /\ pc = "filter"
    /\ k < Len(gaps)
    /\ LET b == gaps[k + 1]
       IN IF ExistInside(tree, b)
            THEN UNCHANGED << gaps, tree >>
            ELSE /\ gaps' = [gaps EXCEPT ![k + 1].mlen = 1]
                 /\ tree' = tree \cup { b }
    /\ k' = k + 1
    /\ UNCHANGED << group, pc, alns, a1, out >>

\* rtree_free, then the kept boxes printed in buffer order.
Emit ==
    /\ pc = "filter"
    /\ k = Len(gaps)
    /\ out' = SelectSeq(gaps, LAMBDA b : b.mlen = 1)
    /\ tree' = {}
    /\ pc' = "done"
    /\ UNCHANGED << group, alns, a1, gaps, k >>

Next == Load \/ ScanAnchor \/ ScanDone \/ FilterBox \/ Emit

Spec == Init /\ [][Next]_vars

-----------------------------------------------------------------------------
(***************************************************************************)
(* Reference definitions written from the spec (section 4.4 and 4.5).     *)
(***************************************************************************)
\* The gap sizes the user asked for: the numbers the arguments denote.
ReqMinGap == ParseNum(LArg)
ReqMaxGap == ParseNum(MArg)

\* a2 is a partner of a1: its query start lies in [q_end+min, q_end+max).
InWindow(x, y) == x.aepos + ReqMinGap <= y.abpos /\ y.abpos < x.aepos + ReqMaxGap

\* The target-axis separation, as the spec states it.
TargetGap(x, y) ==
    LET hiBeg == IF x.bbpos >= y.bbpos THEN x.bbpos ELSE y.bbpos
        loEnd == IF x.bepos <= y.bepos THEN x.bepos ELSE y.bepos
    IN hiBeg - loEnd

\* The candidate box of the spec: query extent clipped by the flank, the
\* target extent from the alignment that ends first on the target.
SpecBox(x, y) ==
    LET first == IF x.bepos < y.bepos THEN x ELSE y
        later == IF x.bepos < y.bepos THEN y ELSE x
    IN Box(MAX(x.abpos, x.aepos - MaxOvl), MIN(y.aepos, y.abpos + MaxOvl),
           MAX(first.bbpos, first.bepos - MaxOvl),
           MIN(later.bepos, later.bbpos + MaxOvl))

\* All boxes of the spec, anchor by anchor, partners in array order.
CandidateRef(s) ==
    LET n     == Len(s)
        pairs == [m \in 1..(n * n) |-> << (m - 1) \div n + 1, ((m - 1) % n) + 1 >>]
        sel   == SelectSeq(pairs, LAMBDA pr :
                    /\ pr[1] < pr[2]
                    /\ InWindow(s[pr[1]], s[pr[2]])
                    /\ TargetGap(s[pr[1]], s[pr[2]]) \in ReqMinGap..ReqMaxGap)
    IN [m \in 1..Len(sel) |-> SpecBox(s[sel[m][1]], s[sel[m][2]])]

Rect(b) == << b.abpos, b.aepos, b.bbpos, b.bepos >>

Inside(r, c) == /\ c[1] <= r[1] /\ r[2] <= c[2]
                /\ c[3] <= r[3] /\ r[4] <= c[4]

\* When the scan ends, the gap buffer holds exactly the boxes of every
\* forward pair in the sentinel-bounded group whose partner starts in the
\* window and whose target separation is in [min_gap, max_gap], in anchor
\* then partner order, min_gap and max_gap being the numbers -l and -m
\* denote: the early-stopping window walks lose none, and the int main()
\* stores the parsed options in changes neither bound.
CandidatesComplete ==
    (pc = "scan" /\ a1 = Len(alns)) => gaps = CandidateRef(alns)

\* The boxes printed are exactly the candidates that contain no other
\* candidate, each printed once: the area sort and the R-tree test keep
\* the minimal boxes, whatever order qsort gives boxes of equal area.
DominanceMinimal ==
    pc = "done" =>
        LET C == { Rect(gaps[j]) : j \in 1..Len(gaps) }
            M == { c \in C : ~\E d \in C : d # c /\ Inside(d, c) }
        IN /\ { Rect(out[j]) : j \in 1..Len(out) } = M
           /\ Len(out) = Cardinality(M)
=============================================================================
