# TLA+ models of alnfill / alngap

This directory holds TLA+ models of the gap finder `alngap` (`src/alngap.c`).
It also models the re-alignment harness `alnfill` (`src/alnfill.c`). All models are checked
with TLC. Every definition is translated from the C source.
`PROJECT.json` maps each definition to the lines it models, lists the runs and
the mutants that show each property can fail, and records findings and hazards.

## 1. The system

`alngap` reads PAF alignment records and writes candidate gap boxes.
`alnfill` re-aligns each box with lastz.

| Component | Source | State | Operations |
|---|---|---|---|
| RangeSet | alngap.c:96-174 | a kvec of `range_t {beg,end}` per sequence | `overlap`, `find_last_small`, `find_first_large`, `rangeset_overlap`, `rangeset_add` |
| AlignmentStore | alngap.c:62-94, paf.h | a growable array of `aln_t`, two `sdict_t` | `read_pafs` (per PAF line: `sd_put` of both names, push one record) |
| ReciprocalBestFilter | alngap.c:176-253 | the array, one rangeset per query and per target sequence, `n_rec` | qsort by `mlen` (MORDER); per record: two overlaps, the test, then two adds or a tombstone; compaction |
| GroupPartitioner | alngap.c:255-289, 409-435 | `ranges` (offset<<32 \| length), `m` (largest group) | qsort by RORDER, one pass cutting the array into (query,target) runs |
| GapCandidateGenerator | alngap.c:322-380 | per thread: `abufs[tid]` (group plus 2 sentinels), `gbufs[tid]` (boxes) | sentinels, anchor loop with two window walks, dist test, box clipping |
| SpatialDominanceFilter | alngap.c:291-301, 382-394, rtree.h | an R-tree per group | qsort by area (AORDER); per box: `rtree_exist_node_inside`, then `rtree_insert` |
| ParallelScheduler / output | alngap.c:318-320, 396-407, 436-464 | `print_mutex`, `b_stats[4]`, stdout | `kt_for(n_threads, gap_core, …)`, locked flush of a group's kept boxes |
| alngap main | alngap.c:471-609 | options | parse, read, optional filter, `align_gaps`, flush |
| alnfill harness | alnfill.c | intervals, per-thread file names, temp fds and commands | parse and validate intervals, `kt_for(lastz_fill)`, `run_system_cmd` with retry, merge of the temp files |
| Sequence dictionary | sdict.c | hash from name to dense id, names, lengths | `sd_put`, `sd_get`, loaders |
| Utilities | misc.c, misc.h | none | MAX/MIN, timing, I/O helpers |

**How the parts interact.** `main` calls `read_pafs`, then
`reciprocal_best_aligns` (unless `-a` is given), then `align_gaps`. The filter
queries and updates the rangesets in place. Rejected records get `mlen = 0` in
place, and a compaction pass removes them. `align_gaps` sorts the survivors,
cuts them into groups and hands the group indices to `kt_for`. `kt_for` runs
`gap_core` on `n_threads` workers. A worker uses only its own `tid`-indexed
buffers. The workers share stdout and `b_stats`, both behind `print_mutex`.

**What is hard.**

- Rangeset indices: the boundary indices are computed by one call and used by
  the next.
- An out-of-bounds read in `rangeset_add`.
- 64-bit coordinates passed to `int` parameters.
- Two unstable qsorts. Each is followed by an order-dependent greedy loop.
- Early-stopping window walks that rely on the sort order and on the
  sentinels.
- Concurrency: shared output and counters, per-thread scratch buffers sized
  once from the largest group, per-thread temp files in `alnfill`.
- A retry loop in `alnfill` that never retries, and fatal exits between
  steps.

**What makes each part correct.**

- RangeSet: the ranges stay sorted, disjoint and non-adjacent. `overlap`
  counts exactly the covered bases. Inserting adds exactly the interval.
- Filter: its output is the greedy coverage selection in score order.
- Candidate generator: it finds every pair in the window.
- Dominance filter: it keeps exactly the minimal boxes.
- Partitioner: its groups are maximal, homogeneous and cover the array, and
  the scratch buffers are large enough.
- Scheduler: every group is processed exactly once. Output lines of
  different groups do not interleave. The counters equal the sums over the
  printed boxes.
- Dictionary: one id per name, ids dense, entries within the allocation.
  The length it reports belongs to the sequence it stores.
- Harness: a successful run leaves no scratch file behind.

## 2. Modules

| Module | Models | State / actions ↔ code |
|---|---|---|
| `AlngapOptions` | `parse_num` and the int64-to-`int` conversion | `ParseNum` (`(int64_t)(x + .499)` on a decimal in thousandths, with `TruncDiv` for C's truncating division), `ToInt` (low `IntBits` bits, two's complement) |
| `RangeSetOps` | the rangeset functions, as pure operators | `LastSmallLoop`/`FirstLargeLoop` keep `low`, `high`, `res` of the binary searches; `RangesetOverlap` returns `o`, `b`, `e`; `RangesetAdd` is the widen + memmove + store of `rangeset_add`, with the value read from `a[-1]` as parameter `stray` |
| `CoverSet` | the abstract rangeset: a set of covered bases | `cover`, and `added`, the interval of the last add; `Add(beg,end)` records `<<beg, end>>` and adds exactly `beg..end-1` |
| `RangeSet` | one rangeset driven as the filter drives it | `spans`, and the history variable `req` (the interval the last insert was given); `Insert` = `rangeset_overlap` then `rangeset_add` with the returned indices (alngap.c:222, 227); refines `CoverSet` under `cover <- Covered(spans)`, `added <- req` |
| `ReciprocalBest` | `read_pafs` + `reciprocal_best_aligns` | `qdicts`/`tdicts` the two `sdict_t` (through `SequenceDict`'s `SdPut`), `alns` the array, `qspan`/`tspan` the rangesets, `i` the loop index, `nrec` = `n_rec`, `sorted` a history of the array after qsort; actions `ReadPaf` (both `sd_put` calls, then the push), `SortByMatch` (any order qsort may leave; allocates one rangeset per dictionary entry), `SelectAln` (one loop iteration), `Compact` |
| `GapCore` | `gap_core` for one group | `alns` = `abufs[tid]`, `gaps` = `gbufs[tid]`, `a1` the anchor index, `k` the dominance-loop index, `tree` the R-tree, `out` the printed boxes; `MinGap`/`MaxGap` are `main`'s `(int) parse_num` of the `-l`/`-m` arguments `LArg`/`MArg`; actions `Load` (memcpy, sentinels), `ScanAnchor` (one anchor with both window walks), `ScanDone` (early return or area sort), `FilterBox`, `Emit` |
| `Pipeline` | `alngap`'s `main` (`-a`, `-f`) and the first half of `align_gaps` | `ReciprocalBest`'s state (instantiated with the `max_cov` that `main` computes), `do_rba`, `stage`, `ranges`, the loop indices `gi`/`gj` and `m`; actions `ReadPaf`, `Filter`, `SkipFilter` (`-a`), `AlignGaps` (empty return, RORDER qsort in any allowed order), `PartitionStep` (one loop iteration), `PartitionEnd` (last push, `m`, hand-over) |
| `GapWorkers` | `kt_for(n_threads, gap_core, …)` | per worker: `wpc`, `next` (kt_for's next index), `cur`, `abuf`/`gbuf` (its `tid` buffers, reused from group to group), `k`; shared: `lock` (`print_mutex`), `out` (stdout), `bstats` (`b_stats`); actions `Take` (copy and sentinels, gaps reset), `Scan`, `Filter` (area sort + R-tree loop, using `GapCore`'s operators), `Lock`, `LoadStats` (the head of one iteration of the output loop: skip a dropped box, or the loads of the `+=` on `b_stats`), `PrintLine` (the stores of the `+=` and the `fprintf`), `Unlock`; per worker `ld` holds what its `+=` loaded |
| `GroupPrinter` | what the pool promises (abstract) | `printed` (groups printed), `aout` (stdout); `PrintGroup(g)` appends all lines of `g` at once, in any order; weak fairness on `Next` |
| `SequenceDict` | `sdict.c`: `sd_init`, `sd_put`, `sd_put1`, `sd_get` | a dictionary value `[n, m, s, h]`: entries, capacity, array, hash map; `SdPut` returns the new dictionary and the id; `Grow` is the doubling before the store |
| `Harness` | `alnfill`'s `main` and `lastz_fill` | `phase` of main, `tfa`/`qfa`/`fi`/`tdict`/`qdict` for the two `make_sdict_from_fa` loops (`OpenFasta`, `ReadFastaRecord`, `FastaEnd`), `lines`/`li`/`ivs` for the interval loop, `lastz` (per interval, what its system() calls return), per worker `wpc`, `nxt`, `cur`, `retry`, `tmp` (`tmpfds[tid]`), the merge loop's `mi`/`moff`, `out`, `fatal`, main's temp-file loop index `ti` and `disk`, the scratch files in the work directory (templates, the two slices and the lastz output of each worker); `ParseInterval` is `parse_interval` over a line's words, with `StrToll` for `strtoll`; `FwriteCount` is the `size_t` count `fwrite` receives; actions `CheckExecutable`, `SkipHeader`, `OpenFasta`, `ReadFastaRecord`, `FastaEnd`, `SkipShortLine`, `UnknownSequence`, `SkipInvalid`, `PushInterval`, `StartWorkers`, `MakeTmpFile` (one `mkstemp`/`fdopen` per thread), `RunKtFor`, `Take`, `WriteSlices`, `RunCmd`, `ReadPaf`, `Unlink`, `JoinWorkers`, `MergeBlock`, `Finish` (the `fflush(stdout)` may fail: exit 1) |

Each MC module (`MC_RangeSet`, `MC_ReciprocalBest`, `MC_GapCore`, `MC_Pipeline`,
`MC_GapWorkers`, `MC_Harness`) defines the inputs of its model for TLC.

Modelling choices:

- **Unstable qsort.** All three qsorts are modelled as a choice among every
  ordering the comparator allows (`MOrderPerms`, `ROrderPerms`, `AreaSorts`).
  The properties therefore hold whatever order qsort leaves tied elements in.
- **`int` coordinates.** Conversion to `int` is `ToInt`: keep the low
  `IntBits` bits, read as two's complement (gcc's behaviour). The runs use a
  small `IntBits`. A coordinate at or past `2^(IntBits-1)` is the scale
  model of a position at or past `2^31`.
- **Out-of-bounds read.** `a[-1]` in `rangeset_add` is undefined behaviour.
  Its value is a choice from `StrayEnd`. On glibc x86-64 the word before a
  heap block is the chunk size, whose high half (`range_t.end`) is 0 for any
  block under 4 GiB. The passing runs therefore use `StrayEnd = {0}`. Section 3 says what any
  other value does.
- **R-tree.** `rtree.c` is not in the repository. The R-tree is a set of
  rectangles, and `rtree_exist_node_inside` is its documented contract: some
  stored rectangle lies within the query, bounds inclusive
  (`ExistInside`). This is the contract stated in `rtree.h`.
- **kt_for.** `kthread.c` is not in the repository either. It is modelled
  from the spec as static round-robin: worker `w` runs indices `w, w+n, …`
  with `tid = w`. The same shape is used in `GapWorkers` and `Harness`.
- **Numbers as thousandths.** `-f`, `-l` and `-m` are constants in
  thousandths. `ParseNum` is `parse_num` on such a decimal:
  `(int64_t)(x + .499)`. `main` stores `-l` and `-m` in `int`s, so
  `GapCore`'s `MinGap`/`MaxGap` apply `ToInt` to the parsed value, while
  the reference (`CandidateRef`) uses the parsed numbers themselves. The
  K/M/G suffixes only scale the number and are left out.
- **Work directory.** `disk` holds the scratch files by kind and worker:
  the `mkstemp` template of each thread, the two slice files and the lastz
  output. A failed `mkstemp`, `fwrite`/`fclose`, `system` or `unlink` may
  leave any prefix of what that step creates or removes.
- **Granularity.** In `GapWorkers`, a worker's scan and its dominance filter
  touch only its own buffers, so each is one step. The flush is one step per
  line, under the lock, so other workers can interleave with it.
- **External programs and files.** `lastz` is modelled as returning one
  record that aligns the two slices end to end, in slice coordinates
  (`LastzHits`, spec-modelled). What `system()` returns is fixed per interval
  in `Init`, from `SysStatus`. Every file operation whose failure is fatal
  may fail, chosen from `IOOutcomes`.
- **`fread` on a write-only stream.** The temp streams are opened with
  `fdopen(fd, "w")` on the `O_RDWR` descriptor of `mkstemp`, and the
  merge loop `fread`s them. What that returns depends on the C library;
  the constant `DirectRead` selects it. glibc (`DirectRead = TRUE`) tests
  read access only when it refills the buffer, and serves the 1 MiB
  request straight from the descriptor with `read(2)`, so the records
  arrive. musl and BSD stdio (`DirectRead = FALSE`) read nothing.
- **`b_stats +=`.** Each `+=` is a load and a store (`LoadStats`, then
  `PrintLine`), so what the mutex protects is visible in the model.
- **Interval lines.** A line of an interval file is its whitespace-separated
  words (all strings) and whether it starts with a blank. `ParseInterval`
  counts up to 10 fields and converts the numeric ones with `StrToll`, which,
  like `strtoll` without an end-pointer test, gives 0 for a word that is not a
  number. `Decimals` is the table of decimal words of `-NumBound..NumBound`.
  A `#` line is skipped (`SkipHeader`).
- **`fwrite` counts.** `fwrite` takes a `size_t`: a negative `qend - qbeg`
  wraps to a huge count. `FwriteCount` models it as `MaxSeqLen + 1`, more
  than any sequence holds.
- **PAF records.** `paf.c` is not in the repository. A PAF line enters as a
  `paf_rec_t` (names, lengths, coordinates, matches) from `PafPool`.
- **Dictionaries.** A FASTA file is a sequence of `[name, len]` records.
  A sequence is represented by its length, which is all that the slicing
  reads. The initial capacity 16 of `sd_init` is a constant. The runs use 2,
  so the doubling happens with three names. `MaxSeqLen` 10 stands for
  `UINT32_MAX`.
- **History variable.** `ReciprocalBest` keeps the last rangesets after the
  code frees them, and keeps `sorted`. Both are history used only by the
  properties.

## 3. Runs

| Run | Checks | Shows |
|---|---|---|
| `rangeset` (pass) | `SpansWellFormed`, `OverlapExact`, `SearchesAgree`, `CoverRefinement` | Coordinates 0..8, every interval, any number of inserts (all 256 reachable rangesets). The ranges stay sorted, disjoint and non-adjacent. `rangeset_overlap` counts exactly the covered bases of any interval. Both binary searches equal their reference. The rangeset refines `CoverSet`: each insert adds exactly the bases of the interval it was given. 13,314 states. |
| `rba_int_width` (violation) | `GreedySelection` | Take [0,3) and then [1,4) with mlen 3 and a 3-bit `int`. The coordinate 4 wraps to -4, so the overlap is 0. Both records are kept, although they overlap by 2 > 1.5. |
| `gap_core` (pass) | `CandidatesComplete`, `DominanceMinimal` | Every RORDER-sorted group of 1-3 alignments (8-base sequences), with `-l 1 -m 3 -e 1` passed through `parse_num` and a 4-bit `int`. The scan yields exactly the spec's boxes. The printed boxes are exactly the minimal candidates, each once. |
| `pipeline` (pass) | `GroupsPartition`, `ScratchFits`, `FilterUsesFraction` | With and without `-a`, up to 4 PAF records from 15 collinear records on 3 pairs, names put into the dictionaries in first-seen order: the groups tile the RORDER-sorted array, one pair each, no pair split, sorted by query start. Every group plus its two sentinels fits the `m+2` scratch array. With the default `-f`, the filter's output equals the greedy coverage selection of spec §4.2, computed on point sets, in the order qsort produced. 615,831 states. |
| `pipeline_f_arg` (violation) | `FilterUsesFraction` | With `-f 0.5`, `main` stores `(int) parse_num("0.5") = 0`. The filter then rejects a record the spec's 0.5 keeps. |
| `pipeline_stale_len` (violation) | `SentinelsBoundGroups` | Two records on (a,x): [0,2) with lengths 4 and 5, then [3,5) declaring lengths 6 and 7. `sd_put` keeps 4 and 5, `read_pafs` checks no coordinate, so the end sentinel `gap_core` places at 4 lies inside the group, against spec §7, which skips a record outside the sequence. |
| `gap_workers` (pass) | `StatsMatchOutput`, `AtomicPrinting` | 2 workers, 3 groups drawn from 4 shapes: one box, two boxes, a dominated box, and no box (early return). `b_stats` equal the sums over the printed lines: with each `+=` a load and a store, no update is lost because every worker holds `print_mutex` over its output loop. The pool refines `GroupPrinter`: a group is finished when its worker leaves `gap_core`, and the abstract stdout is the lines of finished groups. So each group's lines reach stdout in one piece, they are exactly its minimal boxes, each once (although buffers are reused), and every group is eventually printed. 15,027 states. |
| `harness` (pass) | `TmpFilesExact`, `SuccessMeansAligned`, `DictsWellFormed`, `DictsWithinCapacity`, `SliceInSequence`, `CleanOnSuccess`, `MergedOutputExact`, `Terminates` | 2 threads; two interval files. One holds a 5-field line, three valid lines, an out-of-range line and a 7-field line; the other a `#` header, a valid line and an unknown sequence. lastz exits 0 or is killed (status 9), and file operations may fail. When `kt_for` returns, the temp streams hold one shifted record per kept interval. Exit 0 implies that every lastz run succeeded. The target FASTA repeats a name with the same sequence; the query FASTA grows the dictionary past its capacity (or holds a sequence that is too long). Both dictionaries keep one id per name, with dense ids, inside their allocation. Every slice, of the count `fwrite` receives, lies inside its stored sequence. Exit 0 leaves no scratch file in the work directory. With glibc stdio, exit 0 means stdout holds every thread's records, thread by thread. Whatever fails, alnfill always reaches `exit(0)` or `exit(1)`. 657,472 states. |
| `harness_malformed` (violation) | `SliceInSequence` | The line `q 5 x t 1 4` has six fields; `strtoll("x")` is 0, so qend = 0 < qbeg = 5. The range test at `alnfill.c:418` passes, and `fwrite` gets the count -5 as a `size_t`: a read far past the sequence. |
| `harness_merge` (violation) | `MergedOutputExact` | With musl or BSD stdio (`DirectRead = FALSE`), the merge `fread`s streams opened by `fdopen(fd, "w")` and reads nothing, so `alnfill` exits 0 with empty stdout. On glibc the same code works (run `harness`): the finding is a portability bug. |
| `harness_dupname` (violation) | `SliceInSequence` | The target FASTA holds `t` with 10 bases, then `t` again with 6. The dictionary keeps length 10 and the 6-base sequence. The interval t:7-9 passes the range test and is sliced past the end. |
| `harness_retry` (violation) | `RetriedOnFailure` | Statuses ⟨256, 0⟩: lastz fails once and would succeed on a second call. `run_system_cmd(cmd, 1)` never retries, so `alnfill` exits 1. |

**Findings.** `PROJECT.json` records seven violations:

- `rba_int_width`, `harness_merge` (on musl/BSD only), `harness_dupname`
  and `harness_malformed` are code bugs.
- `pipeline_f_arg`, `pipeline_stale_len` and `harness_retry` are
  disagreements with the spec.

A record with mlen 0 is accepted by the filter (overlap 0 ≤ 0) and added
to the coverage before the compaction drops it. This is not reported:
such records sort last, so their coverage meets only other mlen-0 records,
and the effect is limited to the statistics on stderr.

One further bug is not checked by any run:

- `rangeset_add` reads `a[-1]` when inserting before every range
  (`alngap.c:168`). On glibc the word read is 0, and the passing run
  `rangeset` uses that value. Any other value widens the new range over
  its successors. Setting `StrayEnd = {6}` in `MC_RangeSet.cfg` shows this:
  [0,1) inserted before [2,3) is stored as [0,6).

**Bounds.**

- Coordinates 0..8 allow up to four separate ranges. That is enough for an
  insert that merges several ranges, abuts ranges on either side, or lands
  before all or after all ranges.
- Four records with three sequence pairs (`rba_int_width`, `pipeline`) produce every way two or three
  intervals overlap, on either genome alone or on both.
- Groups of three alignments plus the two sentinels give five anchors. Some
  boxes nest and some are duplicates.
- In `pipeline`, up to four records on three pairs give one, two or three groups,
  groups of length 1 to 3, and a largest group in any position (the last
  group is measured after the loop).
- In `gap_workers`, 3 groups on 2 workers make worker 0 reuse its buffers,
  and both workers compete for the lock with non-empty groups.
- In `harness`, three query names against an initial capacity of 2 make
  `sd_put` grow the array once. The repeated target name takes the
  "present" path of `kh_put`.
- In `harness`, 3 kept intervals on 2 threads make one worker run two
  intervals into the same stream. Every interval has `qbeg ≠ tbeg`, so a
  swapped shift is visible.

**Mutants.** Each property has a mutant in `PROJECT.json`: an operator
defined just before the one it replaces. TLC finds each mutant's violation.

- `end <= val` in `find_last_small`
- `res = 0` in `find_last_small`
- `res = n-1` in `find_first_large`
- no left widening in `rangeset_add`
- target overlap not tested (`FilterUsesFraction`)
- `<=` in the window walk
- equal rectangle not counted as inside
- RORDER comparing `abpos` before `bread`
- `m` not updated for the last group
- the output loop entered without the mutex (`StatsMatchOutput` loses an
  update; `AtomicPrinting` interleaves two groups)
- the copy loop continued only while `fread` returns more than
  `PUSH_BLOCK` (`MergedOutputExact`)
- the absent flag of `kh_put` ignored
- the lastz output left in place by `lastz_fill`'s unlinks
  (`CleanOnSuccess`)
- the array grown only when `n > m`
- the range test without the end comparisons
- query and target offsets swapped in `paf_parse1`
- a worker that never leaves `kt_for`'s loop once its indices run out
  (`Terminates`)
- a signal-killed lastz taken for success (the `WEXITSTATUS` test of
  `check_executable`)

## 4. Fairness

`AtomicPrinting` (run `gap_workers`) is one of two liveness properties. It holds
under weak fairness of each worker: `kt_for` threads are OS threads that
keep being scheduled while they can run, and `kt_for` waits for all of
them. The abstract `GroupPrinter` has weak fairness on its `Next`, so the
refinement also says that every group is eventually printed.
`CoverRefinement` is a refinement with no fairness: `CoverSet` says only
what an add may do.

The other models stop: `alngap` and `alnfill` end by returning or by
`exit(1)`. Their passing runs therefore set `CHECK_DEADLOCK FALSE`. The
`rangeset` run never stops, because an insert is always enabled.

`Terminates` (run `harness`) says that alnfill always ends in `exit(0)` or
`exit(1)`. `Harness` has weak fairness on `Main`, the steps of the main
thread, and on each `Worker(w)`, for the same reason: they are OS threads,
and main blocks in `kt_for` until every worker has returned. Failures are
chosen once per step, and a retry is bounded, so no fairness on outcomes is
needed. No other fairness is assumed.

## 5. Not modelled, and why

- PAF text parsing (`paf.c` is not in the repository). Records enter as
  `paf_rec_t` values.
- The splitting of an interval line into words on blanks and tabs. A line
  enters as its words; what `parse_interval` does with them is modelled.
- Logging, `coverage_summary` (statistics on stderr), timing and memory
  accounting. The `i % 10000` progress message of `lastz_fill`.
- The format of output lines: a printed box is a record.
- Options that only set a constant of a model: `-e` (an `atoi`), `-t`
  (the worker count; `kthread.c` is not in the repository, so what
  `kt_for` does with `-t 0` cannot be modelled), `-w`, `-z`; and `-o`,
  `-h`, `-V`. The K/M/G suffixes of `parse_num`.
- Allocation failure. It is fatal and exits, as the spec says.
- In `sdict.c`: `sd_destroy` (frees memory only). Also `sd_hash`,
  `make_sdict_from_index`, `make_sdict_from_gfa` and `sd_stats`/`nl_stats`,
  which neither program calls. Allocation failure in `sd_put`'s `realloc`
  is not modelled.
- `misc.c`: timing, memory accounting, string helpers and a line reader.
  None of them holds state that a property depends on.

## 6. Plan

1. Done: `RangeSetOps`, `CoverSet`, `RangeSet`, `ReciprocalBest`,
   `GapCore`, `Pipeline`, `GapWorkers` with its refinement of
   `GroupPrinter`, `SequenceDict` composed into `Harness`, `AlngapOptions` for `-l`/`-m`/`-f`, the work directory of
   `alnfill`.
2. Done: `Harness` liveness (`Terminates`).
3. A finer `Harness` merge that models `PushBlock` greater than one record,
   with block boundaries inside a thread's stream.
4. Done: `read_pafs` through `SequenceDict` (ids in first-seen order) and
   the sentinel lengths (`SentinelsBoundGroups`, a violation when a
   name recurs with a longer length); `parse_interval`.
