---------------------------- MODULE SequenceDict ----------------------------
(***************************************************************************)
(* sdict.c: the sequence dictionary.  A dictionary holds n entries in an  *)
(* array s of capacity m and a hash map h from name to index.  An entry   *)
(* keeps the name, the length given to sd_put() and the length of the     *)
(* sequence stored by sd_put1() (NoSeq when none was stored).  The        *)
(* operators return the new dictionary, and the id where the C function   *)
(* returns one.                                                            *)
(***************************************************************************)
EXTENDS Integers, Sequences, Functions, TLC

CONSTANTS
    InitCap,    \* the capacity sd_init() allocates (16)
    NotFound,   \* UINT32_MAX
    NoSeq,      \* s->seq = 0
    NullName    \* a NULL name pointer

\* sd_init(): no entries, capacity 16, an empty hash map.
SdInit == [n |-> 0, m |-> InitCap, s |-> << >>, h |-> [x \in {} |-> 0]]

\* Mutant of Grow: the array is grown only once n exceeds m.
GrowLate(d) == IF d.n > d.m THEN (IF d.m # 0 THEN 2 * d.m ELSE 16) ELSE d.m

\* The capacity before a new entry is stored at index n: doubled when full.
Grow(d) == IF d.n = d.m THEN (IF d.m # 0 THEN 2 * d.m ELSE 16) ELSE d.m

\* Mutant of SdPut: the absent flag of kh_put is ignored, every put
\* makes a new entry and rebinds the name.
SdPutAlwaysNew(d, name, len) ==
    IF name = NullName THEN [d |-> d, id |-> NotFound]
    ELSE [d  |-> [n |-> d.n + 1, m |-> Grow(d),
                  s |-> Append(d.s, [name |-> name, len |-> len, seq |-> NoSeq]),
                  h |-> (name :> d.n) @@ d.h],
          id |-> d.n]

\* sd_put(d, name, len): the id of name, a new entry (id n) when kh_put
\* reports the name absent.
SdPut(d, name, len) ==
    IF name = NullName THEN [d |-> d, id |-> NotFound]
    ELSE IF name \in DOMAIN d.h THEN [d |-> d, id |-> d.h[name]]
    ELSE [d  |-> [n |-> d.n + 1, m |-> Grow(d),
                  s |-> Append(d.s, [name |-> name, len |-> len, seq |-> NoSeq]),
                  h |-> d.h @@ (name :> d.n)],
          id |-> d.n]

\* sd_put1(d, name, seq, len): sd_put, then the sequence stored at the id,
\* whether the entry is new or not.
SdPut1(d, name, seqlen, len) ==
    LET r == SdPut(d, name, len)
    IN [r.d EXCEPT !.s[r.id + 1].seq = seqlen]

\* sd_get(d, name): the id, or UINT32_MAX.
SdGet(d, name) == IF name \in DOMAIN d.h THEN d.h[name] ELSE NotFound

-----------------------------------------------------------------------------
\* The hash map and the array agree: ids are 0 .. n-1, the entry at id i
\* carries the name mapped to i, so no name has two ids.
IdsDense(d) ==
    /\ Len(d.s) = d.n
    /\ IsInjective(d.h) /\ Range(d.h) = 0..(d.n - 1)
    /\ \A x \in DOMAIN d.h : d.s[d.h[x] + 1].name = x

\* Every entry stored lies inside the allocated array.
WithinCapacity(d) == d.n <= d.m
=============================================================================
