--------------------------- MODULE ReciprocalBest ---------------------------
(***************************************************************************)
(* The alignment store and the greedy "reciprocal best" filter of         *)
(* alngap.c: read_pafs() fills the array, naming each record's sequences  *)
(* by the ids sd_put() gives them, reciprocal_best_aligns() sorts          *)
(* it by matched length, tests each record against one rangeset per query *)
(* sequence and one per target sequence, tombstones the rejected ones     *)
(* (mlen = 0) and compacts the array.                                     *)
(***************************************************************************)
EXTENDS RangeSetOps, Functions, AlngapOptions

CONSTANTS
    PafPool,    \* the paf_rec_t records paf_read() can yield
    InitCap, NotFound, NoSeq, NullName,   \* as in SequenceDict
    MaxAlns,    \* bound on the number of records read
    CovNum,     \* max_cov = CovNum / CovDen
    CovDen,
    StrayEnd    \* values the out-of-bounds read of a[-1].end can yield

ASSUME CovDen > 0 /\ CovNum >= 0 /\ MaxAlns \in Nat

SD == INSTANCE SequenceDict

VARIABLES
    qdicts,     \* the query dictionary read_pafs() fills
    tdicts,     \* the target dictionary
    pc,         \* "read", "sort", "select", "done"
    alns,       \* the aln_t array
    i,          \* loop index of the selection loop (C index)
    qspan,      \* q_span: a rangeset per query id
    tspan,      \* t_span: a rangeset per target id
    nrec,       \* records kept so far
    sorted      \* history: the array as qsort left it

vars == << qdicts, tdicts, pc, alns, i, qspan, tspan, nrec, sorted >>

\* The arrangements qsort(MORDER) may leave: matched length non-increasing.
\* qsort is not stable, so records of equal mlen come in any order.
MOrderPerms(s) ==
    { p \in [1..Len(s) -> 1..Len(s)] :
        /\ IsInjective(p)
        /\ \A k \in 1..(Len(s) - 1) : s[p[k]].mlen >= s[p[k + 1]].mlen }

Permute(s, p) == [k \in 1..Len(s) |-> s[p[k]]]

Init ==
    /\ qdicts = SD!SdInit
    /\ tdicts = SD!SdInit
    /\ pc = "read"
    /\ alns = << >>
    /\ i = 0
    /\ qspan = << >>
    /\ tspan = << >>
    /\ nrec = 0
    /\ sorted = << >>

\* read_pafs(): the ids of the record's two names (new ones for names not
\* seen before, with the record's lengths), and the aln_t pushed.
ReadPaf(rec) ==
    /\ pc = "read"
    /\ Len(alns) < MaxAlns
    /\ LET q == SD!SdPut(qdicts, rec.qn, rec.ql)
           t == SD!SdPut(tdicts, rec.tn, rec.tl)
       IN /\ qdicts' = q.d
          /\ tdicts' = t.d
          /\ alns' = Append(alns, [aread |-> q.id, bread |-> t.id, abpos |-> rec.qs,
                                   aepos |-> rec.qe, bbpos |-> rec.ts, bepos |-> rec.te,
                                   mlen |-> rec.ml])
    /\ UNCHANGED << pc, i, qspan, tspan, nrec, sorted >>

\* read_pafs() returns; main() calls reciprocal_best_aligns(), which sorts
\* the array and allocates qdicts->n + tdicts->n empty rangesets.
SortByMatch ==
    /\ pc = "read"
    /\ \E p \in MOrderPerms(alns) :
          /\ alns' = Permute(alns, p)
          /\ sorted' = Permute(alns, p)
    /\ qspan' = [q \in 0..(qdicts.n - 1) |-> << >>]
    /\ tspan' = [t \in 0..(tdicts.n - 1) |-> << >>]
    /\ pc' = "select"
    /\ UNCHANGED << qdicts, tdicts, i, nrec >>

\* Mutant of Accept: only the query-side overlap is tested.
AcceptQueryOnly(qo, to, mlen) == qo * CovDen <= mlen * CovNum

\* The keep test: both overlaps at most mlen * max_cov.
Accept(qo, to, mlen) ==
    /\ qo * CovDen <= mlen * CovNum
    /\ to * CovDen <= mlen * CovNum

\* One iteration of the selection loop for record i.
SelectAln ==
    /\ pc = "select"
    /\ i < Len(alns)
    /\ LET a  == alns[i + 1]
           qb == ToInt(a.abpos)
           qe == ToInt(a.aepos)
           tb == ToInt(a.bbpos)
           te == ToInt(a.bepos)
           qr == RangesetOverlap(qspan[a.aread], qb, qe)
           tr == RangesetOverlap(tspan[a.bread], tb, te)
       IN IF Accept(qr.o, tr.o, a.mlen)
            THEN \E s1, s2 \in StrayEnd :
                   /\ qspan' = [qspan EXCEPT ![a.aread] =
                                  RangesetAdd(@, qb, qe, qr.b, qr.e, s1)]
                   /\ tspan' = [tspan EXCEPT ![a.bread] =
                                  RangesetAdd(@, tb, te, tr.b, tr.e, s2)]
                   /\ nrec' = nrec + 1
                   /\ UNCHANGED alns
            ELSE /\ alns' = [alns EXCEPT ![i + 1].mlen = 0]
                 /\ UNCHANGED << qspan, tspan, nrec >>
    /\ i' = i + 1
    /\ UNCHANGED << qdicts, tdicts, pc, sorted >>

\* After the loop: the coverage summary (logging only), the rangesets are
\* freed, and the tombstoned records are squeezed out in order.  The model
\* keeps the last rangesets as history for the properties.
Compact ==
    /\ pc = "select"
    /\ i = Len(alns)
    /\ alns' = SelectSeq(alns, LAMBDA a : a.mlen > 0)
    /\ nrec' = Len(SelectSeq(alns, LAMBDA a : a.mlen > 0))
    /\ pc' = "done"
    /\ UNCHANGED << qdicts, tdicts, i, qspan, tspan, sorted >>

Next ==
    \/ \E rec \in PafPool : ReadPaf(rec)
    \/ SortByMatch
    \/ SelectAln
    \/ Compact

Spec == Init /\ [][Next]_vars

-----------------------------------------------------------------------------
(***************************************************************************)
(* Reference: the greedy selection the spec describes (section 4.2),      *)
(* on sets of covered bases and true coordinates, one record at a time in *)
(* the given order.                                                        *)
(***************************************************************************)
Bases(b, e) == b..(e - 1)

RECURSIVE Greedy(_, _, _)
Greedy(s, qc, tc) ==
    IF s = << >> THEN << >>
    ELSE LET a   == Head(s)
             qo  == Cardinality(qc[a.aread] \cap Bases(a.abpos, a.aepos))
             to  == Cardinality(tc[a.bread] \cap Bases(a.bbpos, a.bepos))
             thr == a.mlen * CovNum
         IN IF qo * CovDen <= thr /\ to * CovDen <= thr
              THEN << a >> \o Greedy(Tail(s),
                        [qc EXCEPT ![a.aread] = @ \cup Bases(a.abpos, a.aepos)],
                        [tc EXCEPT ![a.bread] = @ \cup Bases(a.bbpos, a.bepos)])
              ELSE Greedy(Tail(s), qc, tc)

GreedyRef(s) == Greedy(s, [q \in 0..(qdicts.n - 1) |-> {}], [t \in 0..(tdicts.n - 1) |-> {}])

\* The filter's output is exactly what the greedy selection keeps from the
\* order qsort produced, kept records in their sorted order: every kept
\* record overlapped the coverage of the records kept before it by at most
\* mlen * max_cov on both genomes, every dropped one by more on one of them.
GreedySelection == pc = "done" => alns = GreedyRef(sorted)
=============================================================================
