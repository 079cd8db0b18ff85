----------------------------- MODULE GapWorkers -----------------------------
(***************************************************************************)
(* The second half of align_gaps(): kt_for() runs gap_core() for every    *)
(* group on NThreads workers.  Worker w passes tid = w, so it alone uses  *)
(* abufs[w] and gbufs[w], which it reuses from one group to the next.     *)
(* The workers share stdout and b_stats, which gap_core() updates only    *)
(* while it holds print_mutex.                                             *)
(*                                                                         *)
(* A worker's scan of a group and its dominance filter touch only its own *)
(* buffers, so each is one step here.  Their inner loops are the actions  *)
(* of GapCore, whose operators this module instantiates.  The flush is    *)
(* two steps per box: the += on b_stats loads the counters, then stores   *)
(* them with the line printed, so other workers can interleave with it.   *)
(***************************************************************************)
EXTENDS Integers, Sequences, FiniteSets, SequencesExt

CONSTANTS
    LArg, MArg, MaxOvl, IntBits, QLen, TLen,   \* as in GapCore
    NThreads,   \* -t
    NGroups,    \* ranges.n
    GroupSets,  \* the groups align_gaps() can hand over
    None

Workers == 0..(NThreads - 1)

VARIABLES
    groups,   \* the group of each index 0 .. NGroups-1 (data->ranges)
    wpc,      \* per worker: "take", "scan", "filter", "lock", "print", "line", "done"
    next,     \* per worker: the next index kt_for() hands it
    cur,      \* per worker: the index it is working on (gap_core's i)
    abuf,     \* per worker: abufs[tid]
    gbuf,     \* per worker: gbufs[tid]
    k,        \* per worker: index of the output loop
    lock,     \* print_mutex: the worker holding it, or None
    out,      \* stdout: lines as [g |-> group index, box |-> rectangle]
    bstats,   \* b_stats[0..3], as a 4-tuple
    ld        \* per worker: the b_stats values its += loaded

vars == << groups, wpc, next, cur, abuf, gbuf, k, lock, out, bstats, ld >>

GC == INSTANCE GapCore WITH Groups <- {}, group <- << >>, pc <- "done", alns <- << >>,
                            a1 <- 0, gaps <- << >>, k <- 0, tree <- {}, out <- << >>

\* The boxes the anchor loop pushes, anchor by anchor.
ScanBoxes(s) ==
    FoldLeft(LAMBDA acc, p : acc \o GC!AnchorBoxes(s, p), << >>, [p \in 1..Len(s) |-> p])

\* The dominance loop over the area-sorted boxes: a box is marked kept
\* (mlen = 1) and inserted unless the R-tree holds a rectangle inside it.
RECURSIVE Dominance(_, _)
Dominance(s, t) ==
    IF s = << >> THEN << >>
    ELSE LET b == Head(s)
         IN IF GC!ExistInside(t, b)
              THEN << b >> \o Dominance(Tail(s), t)
              ELSE << [b EXCEPT !.mlen = 1] >> \o Dominance(Tail(s), t \cup { b })

Init ==
    /\ groups \in [0..(NGroups - 1) -> GroupSets]
    /\ wpc = [w \in Workers |-> "take"]
    /\ next = [w \in Workers |-> w]
    /\ cur = [w \in Workers |-> 0]
    /\ abuf = [w \in Workers |-> << >>]
    /\ gbuf = [w \in Workers |-> << >>]
    /\ k = [w \in Workers |-> 0]
    /\ lock = None
    /\ out = << >>
    /\ bstats = << 0, 0, 0, 0 >>
    /\ ld = [w \in Workers |-> << 0, 0, 0, 0 >>]

\* kt_for() hands worker w its next index, i = w, w + n, ... (or the
\* worker exits); gap_core() copies the group between the two sentinels
\* into abufs[tid] and empties gbufs[tid].
Take(w) ==
    /\ wpc[w] = "take"
    /\ IF next[w] < NGroups
         THEN /\ cur' = [cur EXCEPT ![w] = next[w]]
              /\ next' = [next EXCEPT ![w] = next[w] + NThreads]
              /\ abuf' = [abuf EXCEPT ![w] =
                            << GC!StartSentinel >> \o groups[next[w]] \o << GC!EndSentinel >>]
              /\ gbuf' = [gbuf EXCEPT ![w] = << >>]
              /\ wpc' = [wpc EXCEPT ![w] = "scan"]
         ELSE /\ wpc' = [wpc EXCEPT ![w] = "done"]
              /\ UNCHANGED << next, cur, abuf, gbuf >>
    /\ UNCHANGED << groups, k, lock, out, bstats, ld >>

\* The anchor loop; gap_core() returns at once when it pushed no box.
Scan(w) ==
    /\ wpc[w] = "scan"
    /\ gbuf' = [gbuf EXCEPT ![w] = @ \o ScanBoxes(abuf[w])]
    /\ wpc' = [wpc EXCEPT ![w] = IF gbuf'[w] = << >> THEN "take" ELSE "filter"]
    /\ UNCHANGED << groups, next, cur, abuf, k, lock, out, bstats, ld >>

\* qsort(AORDER), then the R-tree loop marking the kept boxes.
Filter(w) ==
    /\ wpc[w] = "filter"
    /\ \E s \in GC!AreaSorts(gbuf[w]) : gbuf' = [gbuf EXCEPT ![w] = Dominance(s, {})]
    /\ wpc' = [wpc EXCEPT ![w] = "lock"]
    /\ UNCHANGED << groups, next, cur, abuf, k, lock, out, bstats, ld >>

\* Mutant of Lock: the worker enters the output loop without the mutex.
LockNoWait(w) ==
    /\ wpc[w] = "lock"
    /\ lock' = w
    /\ k' = [k EXCEPT ![w] = 0]
    /\ wpc' = [wpc EXCEPT ![w] = "print"]
    /\ UNCHANGED << groups, next, cur, abuf, gbuf, out, bstats, ld >>

\* pthread_mutex_lock(&print_mutex): blocks while another worker holds it.
Lock(w) ==
    /\ wpc[w] = "lock"
    /\ lock = None
    /\ lock' = w
    /\ k' = [k EXCEPT ![w] = 0]
    /\ wpc' = [wpc EXCEPT ![w] = "print"]
    /\ UNCHANGED << groups, next, cur, abuf, gbuf, out, bstats, ld >>

\* The head of one iteration of the output loop: a dropped box (mlen = 0)
\* is skipped; for a kept box the += statements load b_stats.
LoadStats(w) ==
    /\ wpc[w] = "print"
    /\ k[w] < Len(gbuf[w])
    /\ IF gbuf[w][k[w] + 1].mlen = 0
         THEN /\ k' = [k EXCEPT ![w] = @ + 1]
              /\ UNCHANGED << wpc, ld >>
         ELSE /\ ld' = [ld EXCEPT ![w] = bstats]
              /\ wpc' = [wpc EXCEPT ![w] = "line"]
              /\ UNCHANGED k
    /\ UNCHANGED << groups, next, cur, abuf, gbuf, lock, out, bstats >>

\* The rest of the iteration: the += statements store the loaded counters
\* plus the box's count, bases and area, and the line is printed.
PrintLine(w) ==
    /\ wpc[w] = "line"
    /\ LET b  == gbuf[w][k[w] + 1]
           ql == b.aepos - b.abpos
           tl == b.bepos - b.bbpos
       IN /\ bstats' = << ld[w][1] + 1, ld[w][2] + ql, ld[w][3] + tl, ld[w][4] + ql * tl >>
          /\ out' = Append(out, [g |-> cur[w], box |-> GC!Rect(b)])
    /\ k' = [k EXCEPT ![w] = @ + 1]
    /\ wpc' = [wpc EXCEPT ![w] = "print"]
    /\ UNCHANGED << groups, next, cur, abuf, gbuf, lock, ld >>

\* pthread_mutex_unlock(&print_mutex); gap_core() returns.
Unlock(w) ==
    /\ wpc[w] = "print"
    /\ k[w] = Len(gbuf[w])
    /\ lock' = None
    /\ wpc' = [wpc EXCEPT ![w] = "take"]
    /\ UNCHANGED << groups, next, cur, abuf, gbuf, k, out, bstats, ld >>

Worker(w) == Take(w) \/ Scan(w) \/ Filter(w) \/ Lock(w) \/ LoadStats(w) \/ PrintLine(w) \/ Unlock(w)

Next == \E w \in Workers : Worker(w)

\* Every kt_for() worker is a thread the OS keeps scheduling.
Fairness == \A w \in Workers : WF_vars(Worker(w))

Spec == Init /\ [][Next]_vars /\ Fairness

-----------------------------------------------------------------------------
\* Reference: the rectangles of the minimal candidate boxes of a group.
MinimalOf(grp) ==
    LET C == { GC!Rect(b) : b \in Range(GC!CandidateRef(
                   << GC!StartSentinel >> \o grp \o << GC!EndSentinel >>)) }
    IN { c \in C : ~\E d \in C : d # c /\ GC!Inside(d, c) }

\* MinimalOf for every group content the model can draw, computed once.
MinimalTable == [grp \in GroupSets |-> MinimalOf(grp)]

MinimalLookup(grp) == MinimalTable[grp]

QBases(r) == r[2] - r[1]
TBases(r) == r[4] - r[3]

\* b_stats are the box count, query bases, target bases and area summed
\* over exactly the lines printed so far: no worker's += loads the
\* counters while another worker's += on them is between its load and its
\* store, because every worker holds print_mutex over its output loop.
StatsMatchOutput ==
    bstats = << Len(out),
                FoldLeft(LAMBDA acc, l : acc + QBases(l.box), 0, out),
                FoldLeft(LAMBDA acc, l : acc + TBases(l.box), 0, out),
                FoldLeft(LAMBDA acc, l : acc + QBases(l.box) * TBases(l.box), 0, out) >>

\* Refinement mapping: group g is finished once kt_for() has handed it to
\* worker g % n and that worker has left gap_core() for it (unlocked, or
\* returned early); the abstract stdout holds the lines of finished groups.
Finished(g) ==
    LET w == g % NThreads
    IN g < next[w] /\ (g # cur[w] \/ wpc[w] \in {"take", "done"})

AP == INSTANCE GroupPrinter WITH GroupIds <- 0..(NGroups - 1), Lines <- MinimalLookup,
                                 printed <- { g \in 0..(NGroups - 1) : Finished(g) },
                                 aout <- SelectSeq(out, LAMBDA l : Finished(l.g))

\* The pool implements the atomic printer: each group's lines reach stdout
\* in one piece (print_mutex is held over gap_core's whole output loop),
\* they are exactly its minimal boxes, each once (although every worker
\* reuses abufs[tid] and gbufs[tid] from group to group), and every group
\* is eventually printed (no worker waits forever on the mutex).
AtomicPrinting == AP!Spec
=============================================================================
