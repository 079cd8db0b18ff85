------------------------------ MODULE Harness ------------------------------
(***************************************************************************)
(* alnfill.c: main() checks that lastz runs, reads the interval file and  *)
(* keeps the valid lines, makes one temporary output stream and one set   *)
(* of file names per thread, and runs lastz_fill() for every interval     *)
(* through kt_for().  lastz_fill() writes the two sequence slices, runs   *)
(* lastz through run_system_cmd(), appends lastz's PAF records, shifted   *)
(* to genome coordinates, to its thread's stream, and removes its files.  *)
(* Any failure calls exit(1), which ends every thread.  After kt_for()    *)
(* returns, main() copies each thread's stream to stdout in blocks.  The  *)
(* two dictionaries are built by make_sdict_from_fa() (SequenceDict), and *)
(* an interval holds the ids sd_get() returned.                            *)
(***************************************************************************)
EXTENDS Integers, Sequences, FiniteSets, SequencesExt, TLC

CONSTANTS
    InputFiles,  \* interval files: sequences of lines [lead: starts with a blank, words]
    TFastas,     \* target FASTA files: sequences of [name, len] records
    QFastas,     \* query FASTA files
    MaxSeqLen,   \* UINT32_MAX, the longest sequence make_sdict_from_fa() takes
    InitCap, NotFound, NoSeq, NullName,   \* as in SequenceDict
    NThreads,    \* -t
    SysStatus,   \* wait statuses system() can return
    IOOutcomes,  \* outcomes of a file operation: "ok", "fail"
    PushBlock,   \* PUSH_BLOCK, in PAF records
    DirectRead   \* whether the C library's fread() of a request at least as
                 \* large as the stream buffer reads the descriptor directly

Workers == 0..(NThreads - 1)

SD == INSTANCE SequenceDict

VARIABLES
    phase,    \* main: "check", "tload", "qload", "parse", "tmpfiles", "work", "merge", "exit0", "exit1"
    tfa, qfa, \* the FASTA files given
    fi,       \* records of the FASTA file being read so far
    tdict,    \* tdicts
    qdict,    \* qdicts
    lines,    \* the interval file given
    li,       \* lines read
    ivs,      \* the intervals kept (kvec intervals)
    lastz,    \* per interval: what its first and second system() call return
    wpc,      \* per worker: "take", "write", "run", "read", "unlink", "done"
    nxt,      \* per worker: the next index kt_for() hands it
    cur,      \* per worker: the index it is working on (lastz_fill's i)
    retry,    \* per worker: run_system_cmd()'s retry argument
    tmp,      \* per worker: the records written to tmpfds[tid]
    mi, moff, \* merge loop: thread index, records already read from it
    out,      \* stdout, as a sequence of PAF records
    fatal,    \* why exit(1) was called, or "none"
    ti,       \* index of main()'s loop that makes the threads' temporary files
    disk      \* scratch files present in the work directory

dvars == << tfa, qfa, fi, tdict, qdict >>

fsvars == << ti, disk >>

vars == << phase, dvars, lines, li, ivs, lastz, wpc, nxt, cur, retry, tmp, mi, moff, out, fatal, fsvars >>

\* qdicts->s[qsid].len, tdicts->s[tsid].len
QLen(sid) == qdict.s[sid + 1].len
TLen(sid) == tdict.s[sid + 1].len

\* WEXITSTATUS on a wait status: bits 8..15.
WExitStatus(st) == (st \div 256) % 256

\* run_system_cmd() returns (rather than recursing) after this call.
CmdReturns(st, r) == (st # -1 /\ WExitStatus(st) = 0) \/ r - 1 = 0

\* lastz_fill() passes retry = 1.
LastzRetry == 1

\* run_system_cmd(cmd, r) when the n-th call of system() returns ss[n]:
\* << the status it returns, the number of calls made >>.  ss lists the
\* calls the model offers; the last one is returned without a retry.
RECURSIVE RunSystemCmd(_, _, _)
RunSystemCmd(ss, r, n) ==
    IF CmdReturns(ss[n], r) \/ n = Len(ss) THEN << ss[n], n >>
    ELSE RunSystemCmd(ss, r - 1, n + 1)

\* Mutant of LastzFailed: the test check_executable() uses, which takes a
\* command killed by a signal for a success.
LastzFailedExit(st) == st = -1 \/ WExitStatus(st) # 0

\* lastz_fill(): if (run_system_cmd(...)) -- any non-zero status fails.
LastzFailed(st) == st # 0

\* fdopen(fd, "w") at line 441: the mode of every thread's stream.
TmpMode == "w"

\* fread() of up to n records from a stream of mode md with avail records
\* left.  A stream opened without read access reads nothing (error set)
\* under musl and BSD stdio.  glibc tests read access only when it refills
\* the buffer: a request of PUSH_BLOCK (1 MiB, more than the buffer) goes
\* to read(2) on the descriptor, which mkstemp() opened O_RDWR.
Fread(md, n, avail) ==
    IF md \in {"r", "r+", "w+", "a+"} \/ DirectRead
      THEN IF avail < n THEN avail ELSE n
      ELSE 0

\* lastz on a slice of the two sequences (an external program): one
\* record, the slices aligned end to end, in slice coordinates.
LastzHits(iv) == << [qs |-> 0, qe |-> iv.qend - iv.qbeg, ts |-> 0, te |-> iv.tend - iv.tbeg] >>

\* Mutant of PafShift: the query offset is added to the target columns
\* and the target offset to the query columns.
PafShiftSwapped(j, iv, h) ==
    [iv |-> j, qlen |-> QLen(iv.qsid), qs |-> h.qs + iv.tbeg, qe |-> h.qe + iv.tbeg,
     tlen |-> TLen(iv.tsid), ts |-> h.ts + iv.qbeg, te |-> h.te + iv.qbeg]

\* paf_parse1(): column 1 becomes the query length, columns 2 and 3 are
\* shifted by qbeg, column 6 becomes the target length, columns 7 and 8
\* are shifted by tbeg; the rest is copied.
PafShift(j, iv, h) ==
    [iv |-> j, qlen |-> QLen(iv.qsid), qs |-> h.qs + iv.qbeg, qe |-> h.qe + iv.qbeg,
     tlen |-> TLen(iv.tsid), ts |-> h.ts + iv.tbeg, te |-> h.te + iv.tbeg]

\* The size_t count fwrite() gets for interval->qend - interval->qbeg: a
\* negative difference wraps to 2^64 minus it, more than any sequence
\* holds, which MaxSeqLen + 1 stands for.
FwriteCount(b, e) == IF e >= b THEN e - b ELSE MaxSeqLen + 1

\* exit(1): the process ends, all threads with it.
Exit1(why) == /\ phase' = "exit1"
              /\ fatal' = why

Init ==
    /\ phase = "check"
    /\ tfa \in TFastas
    /\ qfa \in QFastas
    /\ fi = 0
    /\ tdict = SD!SdInit
    /\ qdict = SD!SdInit
    /\ lines \in InputFiles
    /\ li = 0
    /\ ivs = << >>
    /\ lastz \in [0..(Len(lines) - 1) -> SysStatus \X SysStatus]
    /\ wpc = [w \in Workers |-> "take"]
    /\ nxt = [w \in Workers |-> w]
    /\ cur = [w \in Workers |-> 0]
    /\ retry = [w \in Workers |-> 0]
    /\ tmp = [w \in Workers |-> << >>]
    /\ mi = 0
    /\ moff = 0
    /\ out = << >>
    /\ fatal = "none"
    /\ ti = 0
    /\ disk = {}

wvars == << wpc, nxt, cur, retry, tmp >>

\* check_executable(): "command -v lastz" through run_system_cmd(cmd, 1).
CheckExecutable ==
    /\ phase = "check"
    /\ \E st \in SysStatus :
          IF st = -1 \/ WExitStatus(st) # 0 THEN Exit1("exec") ELSE phase' = "topen" /\ UNCHANGED fatal
    /\ UNCHANGED << dvars, lines, li, ivs, lastz, wvars, mi, moff, out, fsvars >>

\* make_sdict_from_fa(argv[opt.ind], 0), then (argv[opt.ind+1], 0).
MinLen == 0

\* kopen() of the FASTA file; failure is fatal.
OpenFasta ==
    /\ phase \in {"topen", "qopen"}
    /\ \E io \in IOOutcomes :
          IF io = "ok" THEN /\ phase' = IF phase = "topen" THEN "tload" ELSE "qload"
                            /\ UNCHANGED fatal
                       ELSE Exit1("fasta")
    /\ UNCHANGED << dvars, lines, li, ivs, lastz, wvars, mi, moff, out, fsvars >>

\* The dictionary after the record r: sd_put1() when it is long enough.
LoadRecord(d, r) == IF r.len >= MinLen THEN SD!SdPut1(d, r.name, r.len, r.len) ELSE d

\* One kseq_read(): a sequence longer than UINT32_MAX is fatal, any other
\* goes through LoadRecord.
ReadFastaRecord ==
    /\ phase \in {"tload", "qload"}
    /\ LET fa == IF phase = "tload" THEN tfa ELSE qfa
           r  == fa[fi + 1]
       IN /\ fi < Len(fa)
          /\ IF r.len > MaxSeqLen
               THEN Exit1("fasta") /\ UNCHANGED << fi, tdict, qdict >>
               ELSE /\ fi' = fi + 1
                    /\ tdict' = IF phase = "tload" THEN LoadRecord(tdict, r) ELSE tdict
                    /\ qdict' = IF phase = "qload" THEN LoadRecord(qdict, r) ELSE qdict
                    /\ UNCHANGED << phase, fatal >>
    /\ UNCHANGED << tfa, qfa, lines, li, ivs, lastz, wvars, mi, moff, out, fsvars >>

\* kseq_read() returns -1: the dictionary is complete.
FastaEnd ==
    /\ phase \in {"tload", "qload"}
    /\ fi = Len(IF phase = "tload" THEN tfa ELSE qfa)
    /\ fi' = 0
    /\ phase' = IF phase = "tload" THEN "qopen" ELSE "parse"
    /\ UNCHANGED << tfa, qfa, tdict, qdict, lines, li, ivs, lastz, wvars, mi, moff, out, fatal, fsvars >>

\* The decimals the interval files of a model spell: coordinates just
\* past the longest sequence, either sign.
NumBound == MaxSeqLen + 2

\* The value of each decimal word up to NumBound.
Decimals == [w \in { ToString(k) : k \in -NumBound..NumBound } |->
                CHOOSE k \in -NumBound..NumBound : ToString(k) = w]

\* strtoll()/strtol() of a word: the decimal it spells, 0 when it does
\* not start with one.
StrToll(w) == IF w \in DOMAIN Decimals THEN Decimals[w] ELSE 0

\* parse_interval(): up to ten whitespace-separated words, counted in
\* fields; words 2, 3, 5, 6 and the flanks 7..10 go through strtoll() or
\* strtol(), the flanks are reset to 0 first.  Coordinates past the last
\* word are only read when fields >= 6, so they are left as 0 here.
ParseInterval(ws) ==
    LET f       == IF Len(ws) < 10 THEN Len(ws) ELSE 10
        Num(k)  == IF k <= f THEN StrToll(ws[k]) ELSE 0
        Name(k) == IF k <= f THEN ws[k] ELSE NullName
    IN [fields |-> f, qn |-> Name(1), qbeg |-> Num(2), qend |-> Num(3),
        tn |-> Name(4), tbeg |-> Num(5), tend |-> Num(6),
        qbol |-> Num(7), qeol |-> Num(8), tbol |-> Num(9), teol |-> Num(10)]

\* buf.l > 0 && buf.s[0] == '#': the line's first character, so a '#'
\* after leading blanks is not a header.  "#" stands for a word that
\* starts with '#'.
Header(ln) == ~ln.lead /\ Len(ln.words) > 0 /\ ln.words[1] = "#"

\* The fields of the line being read.
Parsed == ParseInterval(lines[li + 1].words)

\* A header line: next line.
SkipHeader ==
    /\ phase = "parse"
    /\ li < Len(lines)
    /\ Header(lines[li + 1])
    /\ li' = li + 1
    /\ UNCHANGED << phase, dvars, lines, ivs, lastz, wvars, mi, moff, out, fatal, fsvars >>

\* A line with fewer than six fields: warning, next line.
SkipShortLine ==
    /\ phase = "parse"
    /\ li < Len(lines)
    /\ ~Header(lines[li + 1])
    /\ Parsed.fields < 6
    /\ li' = li + 1
    /\ UNCHANGED << phase, dvars, lines, ivs, lastz, wvars, mi, moff, out, fatal, fsvars >>

\* sd_get() of the query name, then of the target name.
QSid(l) == SD!SdGet(qdict, l.qn)
TSid(l) == SD!SdGet(tdict, l.tn)

Known(l) == QSid(l) # NotFound /\ TSid(l) # NotFound


\* sd_get() returns UINT32_MAX for the query or the target name: exit(1).
UnknownSequence ==
    /\ phase = "parse"
    /\ li < Len(lines)
    /\ ~Header(lines[li + 1])
    /\ Parsed.fields >= 6
    /\ ~Known(Parsed)
    /\ Exit1("sequence")
    /\ UNCHANGED << dvars, lines, li, ivs, lastz, wvars, mi, moff, out, fsvars >>

\* Mutant of InRange: the ends are not compared with the lengths.
InRangeNoEnd(l) == ~ \/ l.qbeg < l.qbol
                     \/ l.tbeg < l.tbol

\* The range test of main(): the interval with its flanks inside both
\* sequences.
InRange(l) ==
    ~ \/ l.qbeg < l.qbol
      \/ l.qend + l.qeol > QLen(QSid(l))
      \/ l.tbeg < l.tbol
      \/ l.tend + l.teol > TLen(TSid(l))

\* "skip invalid gap": warning, next line.
SkipInvalid ==
    /\ phase = "parse"
    /\ li < Len(lines)
    /\ ~Header(lines[li + 1])
    /\ Parsed.fields >= 6
    /\ Known(Parsed)
    /\ ~InRange(Parsed)
    /\ li' = li + 1
    /\ UNCHANGED << phase, dvars, lines, ivs, lastz, wvars, mi, moff, out, fatal, fsvars >>

\* The interval_t pushed: the two ids in place of the names.
Interval(l) == [qsid |-> QSid(l), tsid |-> TSid(l), qbeg |-> l.qbeg, qend |-> l.qend,
                tbeg |-> l.tbeg, tend |-> l.tend]

\* kv_push of the interval.
PushInterval ==
    /\ phase = "parse"
    /\ li < Len(lines)
    /\ ~Header(lines[li + 1])
    /\ Parsed.fields >= 6
    /\ Known(Parsed)
    /\ InRange(Parsed)
    /\ ivs' = Append(ivs, Interval(Parsed))
    /\ li' = li + 1
    /\ UNCHANGED << phase, dvars, lines, lastz, wvars, mi, moff, out, fatal, fsvars >>

\* Scratch files of thread tid, named after its mkstemp() template:
\* the template itself, the two slices "_A.fna" (tfiles) and "_B.fna"
\* (qfiles), and lastz's output "_O.paf" (pfiles).
Template(w) == << "T", w >>
Slices(w)   == { << "A", w >>, << "B", w >> }
PafFile(w)  == << "O", w >>

\* End of the interval file: the loop over the threads' temporary files.
StartWorkers ==
    /\ phase = "parse"
    /\ li = Len(lines)
    /\ phase' = "tmpfiles"
    /\ ti' = 0
    /\ UNCHANGED << dvars, lines, li, ivs, lastz, wvars, mi, moff, out, fatal, disk >>

\* One pass for thread ti: mkstemp() creates the template, fdopen() opens
\* the stream, unlink() removes the name, and the three paths are made
\* from it.  A failure is fatal; after a failed fdopen() or unlink() the
\* template is left in the work directory.
MakeTmpFile ==
    /\ phase = "tmpfiles"
    /\ ti < NThreads
    /\ \E io \in IOOutcomes :
          IF io = "ok"
            THEN ti' = ti + 1 /\ UNCHANGED << phase, fatal, disk >>
            ELSE /\ Exit1("tmpfile")
                 /\ disk' \in { disk, disk \cup { Template(ti) } }
                 /\ UNCHANGED ti
    /\ UNCHANGED << dvars, lines, li, ivs, lastz, wvars, mi, moff, out >>

\* kt_for(n_threads, lastz_fill, data, intervals.n).
RunKtFor ==
    /\ phase = "tmpfiles"
    /\ ti = NThreads
    /\ phase' = "work"
    /\ UNCHANGED << dvars, lines, li, ivs, lastz, wvars, mi, moff, out, fatal, fsvars >>

\* Mutant of Take: a worker out of indices keeps waiting for more.
TakeNoExit(w) ==
    /\ phase = "work"
    /\ wpc[w] = "take"
    /\ nxt[w] < Len(ivs)
    /\ cur' = [cur EXCEPT ![w] = nxt[w]]
    /\ nxt' = [nxt EXCEPT ![w] = nxt[w] + NThreads]
    /\ wpc' = [wpc EXCEPT ![w] = "write"]
    /\ UNCHANGED << phase, dvars, lines, li, ivs, lastz, retry, tmp, mi, moff, out, fatal, fsvars >>

\* kt_for() hands worker w its next index i = w, w + n, ... or lets it
\* finish.
Take(w) ==
    /\ phase = "work"
    /\ wpc[w] = "take"
    /\ IF nxt[w] < Len(ivs)
         THEN /\ cur' = [cur EXCEPT ![w] = nxt[w]]
              /\ nxt' = [nxt EXCEPT ![w] = nxt[w] + NThreads]
              /\ wpc' = [wpc EXCEPT ![w] = "write"]
         ELSE /\ wpc' = [wpc EXCEPT ![w] = "done"]
              /\ UNCHANGED << nxt, cur >>
    /\ UNCHANGED << phase, dvars, lines, li, ivs, lastz, retry, tmp, mi, moff, out, fatal, fsvars >>

\* fopen(..., "w") of tfiles[tid] and qfiles[tid], which creates them,
\* the writes and the fclose() calls.  A failure is fatal, leaving the
\* files opened before it.
WriteSlices(w) ==
    /\ phase = "work"
    /\ wpc[w] = "write"
    /\ \E io \in IOOutcomes :
          IF io = "ok"
            THEN /\ wpc' = [wpc EXCEPT ![w] = "run"]
                 /\ retry' = [retry EXCEPT ![w] = LastzRetry]
                 /\ disk' = disk \cup Slices(w)
                 /\ UNCHANGED << phase, fatal >>
            ELSE /\ Exit1("io")
                 /\ disk' \in { disk \cup c : c \in SUBSET Slices(w) }
                 /\ UNCHANGED << wpc, retry >>
    /\ UNCHANGED << dvars, lines, li, ivs, lastz, nxt, cur, tmp, mi, moff, out, ti >>

\* run_system_cmd(cmds[tid], 1): a non-zero result is fatal.
RunCmd(w) ==
    /\ phase = "work"
    /\ wpc[w] = "run"
    /\ LET res == RunSystemCmd(lastz[cur[w]], retry[w], 1)
       IN IF LastzFailed(res[1])
            THEN /\ Exit1("lastz")
                 /\ disk' \in { disk, disk \cup { PafFile(w) } }
                 /\ UNCHANGED << wpc, retry >>
            ELSE /\ wpc' = [wpc EXCEPT ![w] = "read"]
                 /\ retry' = [retry EXCEPT ![w] = retry[w] - res[2]]
                 /\ disk' = disk \cup { PafFile(w) }
                 /\ UNCHANGED << phase, fatal >>
    /\ UNCHANGED << dvars, lines, li, ivs, lastz, nxt, cur, tmp, mi, moff, out, ti >>

\* paf_open(pfiles[tid]), every record through paf_parse1() into
\* tmpfds[tid], paf_close(); an open or close failure is fatal.
ReadPaf(w) ==
    /\ phase = "work"
    /\ wpc[w] = "read"
    /\ \E io \in IOOutcomes :
          IF io = "ok"
            THEN LET iv == ivs[cur[w] + 1]
                     hs == LastzHits(iv)
                 IN /\ tmp' = [tmp EXCEPT ![w] =
                                  @ \o [p \in 1..Len(hs) |-> PafShift(cur[w], iv, hs[p])]]
                    /\ wpc' = [wpc EXCEPT ![w] = "unlink"]
                    /\ UNCHANGED << phase, fatal >>
            ELSE Exit1("io") /\ UNCHANGED << tmp, wpc >>
    /\ UNCHANGED << dvars, lines, li, ivs, lastz, nxt, cur, retry, mi, moff, out, fsvars >>

\* Mutant of Unlink: lastz's output file is not removed.
UnlinkKeepsPaf(w) ==
    /\ phase = "work"
    /\ wpc[w] = "unlink"
    /\ \E io \in IOOutcomes :
          IF io = "ok"
            THEN /\ wpc' = [wpc EXCEPT ![w] = "take"]
                 /\ disk' = disk \ Slices(w)
                 /\ UNCHANGED << phase, fatal >>
            ELSE /\ Exit1("io")
                 /\ disk' \in { disk, disk \ { << "A", w >> }, disk \ Slices(w) }
                 /\ UNCHANGED wpc
    /\ UNCHANGED << dvars, lines, li, ivs, lastz, nxt, cur, retry, tmp, mi, moff, out, ti >>

\* unlink() of tfiles[tid], qfiles[tid], pfiles[tid] in that order; the
\* first failure is fatal and the files after it stay.
Unlink(w) ==
    /\ phase = "work"
    /\ wpc[w] = "unlink"
    /\ \E io \in IOOutcomes :
          IF io = "ok"
            THEN /\ wpc' = [wpc EXCEPT ![w] = "take"]
                 /\ disk' = disk \ (Slices(w) \cup { PafFile(w) })
                 /\ UNCHANGED << phase, fatal >>
            ELSE /\ Exit1("io")
                 /\ disk' \in { disk, disk \ { << "A", w >> }, disk \ Slices(w) }
                 /\ UNCHANGED wpc
    /\ UNCHANGED << dvars, lines, li, ivs, lastz, nxt, cur, retry, tmp, mi, moff, out, ti >>

\* kt_for() returns when every worker is done.
JoinWorkers ==
    /\ phase = "work"
    /\ \A w \in Workers : wpc[w] = "done"
    /\ phase' = "merge"
    /\ mi' = 0
    /\ moff' = 0
    /\ UNCHANGED << dvars, lines, li, ivs, lastz, wvars, out, fatal, fsvars >>

\* Mutant of MergeBlock: the copy loop goes on only while fread() returns
\* more than PUSH_BLOCK, so it stops after the first full block.
MergeBlockStopFull ==
    /\ phase = "merge"
    /\ mi < NThreads
    /\ LET x == Fread(TmpMode, PushBlock, Len(tmp[mi]) - moff)
       IN /\ out' = out \o SubSeq(tmp[mi], moff + 1, moff + x)
          /\ IF x > PushBlock
               THEN moff' = moff + x /\ UNCHANGED mi
               ELSE mi' = mi + 1 /\ moff' = 0
    /\ UNCHANGED << phase, dvars, lines, li, ivs, lastz, wvars, fatal, fsvars >>

\* One pass of the copy loop for thread mi: x = fread(...), fwrite of
\* what was read, and on a short read fclose() and the next thread.
MergeBlock ==
    /\ phase = "merge"
    /\ mi < NThreads
    /\ LET x == Fread(TmpMode, PushBlock, Len(tmp[mi]) - moff)
       IN /\ out' = out \o SubSeq(tmp[mi], moff + 1, moff + x)
          /\ IF x >= PushBlock
               THEN moff' = moff + x /\ UNCHANGED mi
               ELSE mi' = mi + 1 /\ moff' = 0
    /\ UNCHANGED << phase, dvars, lines, li, ivs, lastz, wvars, fatal, fsvars >>

\* The loop is over (ret is never set, so its test passes); fflush(stdout)
\* fails fatally, or main returns 0.
Finish ==
    /\ phase = "merge"
    /\ mi = NThreads
    /\ \E io \in IOOutcomes :
          IF io = "ok" THEN phase' = "exit0" /\ UNCHANGED fatal ELSE Exit1("fflush")
    /\ UNCHANGED << dvars, lines, li, ivs, lastz, wvars, mi, moff, out, fsvars >>

Worker(w) == Take(w) \/ WriteSlices(w) \/ RunCmd(w) \/ ReadPaf(w) \/ Unlink(w)

\* The steps of the main thread.
Main ==
    \/ CheckExecutable
    \/ SkipHeader
    \/ OpenFasta
    \/ ReadFastaRecord
    \/ FastaEnd
    \/ SkipShortLine
    \/ UnknownSequence
    \/ SkipInvalid
    \/ PushInterval
    \/ StartWorkers
    \/ MakeTmpFile
    \/ RunKtFor
    \/ JoinWorkers
    \/ MergeBlock
    \/ Finish

Next == Main \/ \E w \in Workers : Worker(w)

\* The main thread and every kt_for() worker are threads the OS keeps
\* scheduling; main is blocked in kt_for() until the workers are done.
Fairness == WF_vars(Main) /\ \A w \in Workers : WF_vars(Worker(w))

Spec == Init /\ [][Next]_vars /\ Fairness

-----------------------------------------------------------------------------
\* The genome coordinates of what lastz reports for interval j (its
\* slices aligned end to end): the interval itself.
Expected(j) ==
    [iv |-> j - 1, qlen |-> QLen(ivs[j].qsid), qs |-> ivs[j].qbeg, qe |-> ivs[j].qend,
     tlen |-> TLen(ivs[j].tsid), ts |-> ivs[j].tbeg, te |-> ivs[j].tend]

AllTmp == FoldLeft(LAMBDA acc, w : acc \o tmp[w], << >>, [p \in 1..NThreads |-> p - 1])

\* When kt_for() returns, the threads' streams hold exactly one record
\* per kept interval, in genome coordinates: every index was run once,
\* by one worker, and its records shifted by that interval's offsets.
TmpFilesExact ==
    phase \in {"merge", "exit0"} =>
        /\ Len(AllTmp) = Len(ivs)
        /\ { AllTmp[p] : p \in 1..Len(AllTmp) } = { Expected(j) : j \in DOMAIN ivs }

\* alnfill exits 0 only if, for every kept interval, one of the lastz
\* calls it was allowed exited normally with status 0.
SuccessMeansAligned ==
    phase = "exit0" => \A j \in DOMAIN ivs : \E n \in 1..LastzRetry : lastz[j - 1][n] = 0

\* Both dictionaries keep their hash map and their array in step: each
\* name has one id, ids are 0 .. n-1, even when a FASTA file repeats a
\* name (sd_put1 then reuses the id).
DictsWellFormed == SD!IdsDense(tdict) /\ SD!IdsDense(qdict)

\* sd_put() never stores an entry past the array it allocated: the
\* doubling happens before the store at index n.
DictsWithinCapacity == SD!WithinCapacity(tdict) /\ SD!WithinCapacity(qdict)

\* alnfill leaves the work directory as it found it when it exits 0:
\* every template main() made is unlinked, and every slice file and lastz
\* output a worker created for an interval is unlinked before the worker
\* takes its next index, on every interleaving of the workers.
CleanOnSuccess == phase = "exit0" => disk = {}

\* Every slice lastz_fill() writes lies inside the sequence stored for
\* its name: fwrite() reads FwriteCount(qbeg, qend) bytes from
\* s[sid].seq + qbeg, and main()'s range test compares with s[sid].len,
\* with flanks read from the line and not with 0 and qbeg.
SliceInSequence ==
    \A j \in DOMAIN ivs :
        LET iv == ivs[j]
        IN /\ 0 <= iv.qbeg /\ iv.qbeg + FwriteCount(iv.qbeg, iv.qend) <= qdict.s[iv.qsid + 1].seq
           /\ 0 <= iv.tbeg /\ iv.tbeg + FwriteCount(iv.tbeg, iv.tend) <= tdict.s[iv.tsid + 1].seq

\* alnfill always ends, by exit(0) or exit(1): no step of main waits on
\* a worker that never finishes, and the copy loop stops on a short read.
Terminates == <>(phase \in {"exit0", "exit1"})

\* On exit 0, stdout holds every thread's records, thread by thread: the
\* copy loop reads each stream from its start to its end in PUSH_BLOCK
\* blocks, including a stream that ends exactly on a block boundary.
MergedOutputExact == phase = "exit0" => out = AllTmp

\* A lastz command that fails on one call but would succeed on the next
\* does not abort the run: the harness retries external commands (spec
\* section 7).
RetriedOnFailure ==
    fatal = "lastz" =>
        \E w \in Workers : /\ wpc[w] = "run"
                           /\ \A n \in 1..2 : lastz[cur[w]][n] # 0
=============================================================================
