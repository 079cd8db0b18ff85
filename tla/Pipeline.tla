------------------------------ MODULE Pipeline ------------------------------
(***************************************************************************)
(* main() of alngap.c up to the hand-over to the thread pool: the options *)
(* -a and -f, read_pafs(), the optional reciprocal_best_aligns() (the     *)
(* ReciprocalBest module, instantiated with the max_cov that main()       *)
(* computes), and the first half of align_gaps(): the RORDER sort and the *)
(* loop that cuts the array into (query, target) groups, recording their  *)
(* (offset, length) and the largest length m, which sizes the per-thread  *)
(* scratch arrays.                                                         *)
(***************************************************************************)
EXTENDS Integers, Sequences, FiniteSets, Functions, AlngapOptions

CONSTANTS
    PafPool, MaxAlns, StrayEnd,   \* as in ReciprocalBest
    InitCap, NotFound, NoSeq, NullName,
    FArg,     \* the -f argument, in thousandths, or NoArg when not given
    NoArg

VARIABLES
    qdicts, tdicts, pc, alns, i, qspan, tspan, nrec, sorted,   \* ReciprocalBest's state
    do_rba,   \* FALSE when -a was given
    stage,    \* "filter", "partition", "dispatch", "exit"
    ranges,   \* the groups pushed so far, as << offset, length >>
    gi, gj,   \* i and j of the partition loop of align_gaps()
    m         \* the largest group length seen

rbvars == << qdicts, tdicts, pc, alns, i, qspan, tspan, nrec, sorted >>
pvars  == << do_rba, stage, ranges, gi, gj, m >>
vars   == << rbvars, pvars >>

\* max_cov: 0.5 by default; -f stores (int) parse_num(arg) in the double.
MaxCovNum == IF FArg = NoArg THEN 1 ELSE ParseNum(FArg)
MaxCovDen == IF FArg = NoArg THEN 2 ELSE 1

RB == INSTANCE ReciprocalBest WITH CovNum <- MaxCovNum, CovDen <- MaxCovDen

\* The sequence pair of a record: what the partition loop compares.
Pair(a) == << a.aread, a.bread >>

\* Mutant of ROrderKey: the target id compared after the query start.
ROrderKeyLate(a) == << a.aread, a.abpos, a.bread, a.bbpos, a.aepos, a.bepos >>

\* RORDER: aread, bread, abpos, bbpos, aepos, bepos, compared in turn.
ROrderKey(a) == << a.aread, a.bread, a.abpos, a.bbpos, a.aepos, a.bepos >>

RECURSIVE LexLe(_, _, _)
LexLe(x, y, n) ==
    \/ n > Len(x)
    \/ x[n] < y[n]
    \/ x[n] = y[n] /\ LexLe(x, y, n + 1)

\* The arrangements qsort(RORDER) may leave; records equal on every key
\* (they may differ in mlen) come in any order.
ROrderPerms(s) ==
    { p \in [1..Len(s) -> 1..Len(s)] :
        /\ IsInjective(p)
        /\ \A k \in 1..(Len(s) - 1) : LexLe(ROrderKey(s[p[k]]), ROrderKey(s[p[k + 1]]), 1) }

Init ==
    /\ RB!Init
    /\ do_rba \in BOOLEAN
    /\ stage = "filter"
    /\ ranges = << >>
    /\ gi = 0
    /\ gj = 0
    /\ m = 0

ReadPaf(rec) == RB!ReadPaf(rec) /\ UNCHANGED pvars

\* if (do_rba) alns = reciprocal_best_aligns(...): its sort, its loop and
\* its compaction.
Filter ==
    /\ do_rba
    /\ \/ RB!SortByMatch
       \/ RB!SelectAln
       \/ RB!Compact
    /\ UNCHANGED pvars

\* -a: read_pafs() returns and main() goes straight to align_gaps().
SkipFilter ==
    /\ ~do_rba
    /\ pc = "read"
    /\ pc' = "done"
    /\ UNCHANGED << qdicts, tdicts, alns, i, qspan, tspan, nrec, sorted >>
    /\ UNCHANGED pvars

\* align_gaps(): return on an empty array, else sort by RORDER and start
\* the loop at i = 1, j = 0 with a, b the pair of the first record.
AlignGaps ==
    /\ pc = "done"
    /\ stage = "filter"
    /\ IF Len(alns) = 0
         THEN /\ stage' = "exit"
              /\ UNCHANGED << alns, ranges, gi, gj, m >>
         ELSE /\ \E p \in ROrderPerms(alns) : alns' = [k \in 1..Len(alns) |-> alns[p[k]]]
              /\ ranges' = << >>
              /\ gi' = 1
              /\ gj' = 0
              /\ m' = 0
              /\ stage' = "partition"
    /\ UNCHANGED << qdicts, tdicts, pc, i, qspan, tspan, nrec, sorted, do_rba >>

\* One iteration: a record of a new pair closes the run j .. i-1.
PartitionStep ==
    /\ stage = "partition"
    /\ gi < Len(alns)
    /\ IF Pair(alns[gi + 1]) # Pair(alns[gj + 1])
         THEN /\ ranges' = Append(ranges, << gj, gi - gj >>)
              /\ m' = IF m < gi - gj THEN gi - gj ELSE m
              /\ gj' = gi
         ELSE UNCHANGED << ranges, m, gj >>
    /\ gi' = gi + 1
    /\ UNCHANGED << rbvars, do_rba, stage >>

\* Mutant of PartitionEnd: the last run is pushed but m is not updated.
PartitionEndNoMax ==
    /\ stage = "partition"
    /\ gi = Len(alns)
    /\ ranges' = Append(ranges, << gj, gi - gj >>)
    /\ stage' = "dispatch"
    /\ UNCHANGED << rbvars, do_rba, gi, gj, m >>

\* After the loop: the last run is pushed and counted in m; the scratch
\* arrays are then sized m + 2 and the groups handed to kt_for().
PartitionEnd ==
    /\ stage = "partition"
    /\ gi = Len(alns)
    /\ ranges' = Append(ranges, << gj, gi - gj >>)
    /\ m' = IF m < gi - gj THEN gi - gj ELSE m
    /\ stage' = "dispatch"
    /\ UNCHANGED << rbvars, do_rba, gi, gj >>

Next ==
    \/ \E rec \in PafPool : ReadPaf(rec)
    \/ Filter
    \/ SkipFilter
    \/ AlignGaps
    \/ PartitionStep
    \/ PartitionEnd

Spec == Init /\ [][Next]_vars

-----------------------------------------------------------------------------
\* The records of group k, as gap_core() copies them.
Group(k) == SubSeq(alns, ranges[k][1] + 1, ranges[k][1] + ranges[k][2])

\* The groups handed to kt_for() tile the sorted array in order, each holds
\* the records of one (query, target) pair, no pair is split over two
\* groups, and inside a group the records come by query start: gap_core()
\* sees every alignment of a pair, in the order its window walks rely on.
GroupsPartition ==
    stage = "dispatch" =>
        /\ ranges[1][1] = 0
        /\ \A k \in 1..(Len(ranges) - 1) : ranges[k + 1][1] = ranges[k][1] + ranges[k][2]
        /\ ranges[Len(ranges)][1] + ranges[Len(ranges)][2] = Len(alns)
        /\ \A k \in DOMAIN ranges :
              /\ ranges[k][2] > 0
              /\ \A x, y \in Range(Group(k)) : Pair(x) = Pair(y)
              /\ \A p \in 1..(ranges[k][2] - 1) : Group(k)[p].abpos <= Group(k)[p + 1].abpos
        /\ \A k1, k2 \in DOMAIN ranges : k1 # k2 => Pair(Group(k1)[1]) # Pair(Group(k2)[1])

\* Every group plus its two sentinels fits the m + 2 records each
\* thread's scratch array is sized to, which gap_core()'s memcpy() and
\* sentinel stores write without a bound check.
ScratchFits ==
    stage = "dispatch" => \A k \in DOMAIN ranges : ranges[k][2] + 2 <= m + 2

\* Every record of a group lies inside the sentinels gap_core() brackets
\* it with: 0, and the lengths the dictionaries hold for the group's ids.
\* Spec section 7 skips a record whose coordinates fall outside
\* [0, sequence length); read_pafs() checks nothing, and sd_put() keeps
\* the ql and tl of the first record that named each sequence.
SentinelsBoundGroups ==
    stage = "dispatch" =>
        \A k \in DOMAIN ranges :
            LET g == Group(k)
            IN \A p \in DOMAIN g :
                  /\ g[p].aepos <= qdicts.s[g[1].aread + 1].len
                  /\ g[p].bepos <= tdicts.s[g[1].bread + 1].len

\* The fraction the spec gives for -f (section 4.2: threshold = score *
\* max_overlap_fraction, default 0.5), in thousandths.
SpecCovNum == IF FArg = NoArg THEN 500 ELSE FArg

SpecRB == INSTANCE ReciprocalBest WITH CovNum <- SpecCovNum, CovDen <- 1000

\* The filter keeps exactly what the spec's greedy selection keeps with
\* the overlap fraction given by -f: main() must hand the fraction to
\* reciprocal_best_aligns() unchanged.
FilterUsesFraction ==
    (do_rba /\ pc = "done" /\ stage = "filter") => alns = SpecRB!GreedyRef(sorted)
=============================================================================
