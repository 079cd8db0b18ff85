------------------------------ MODULE MC_Pipeline ------------------------------
EXTENDS Pipeline

\* A PAF record on queries of length 4 and targets of length 5, the target
\* interval one base right of the query interval, mlen its length.
Paf(qn, tn, iv) ==
    [qn |-> qn, ql |-> 4, qs |-> iv[1], qe |-> iv[2],
     tn |-> tn, tl |-> 5, ts |-> iv[1] + 1, te |-> iv[2] + 1, ml |-> iv[2] - iv[1]]

\* Records on the pairs (a,x), (a,y) and (b,x): records of one query on
\* two targets interleave by query start, so a sort that does not compare
\* the target id first would split a pair.
MCPafPool ==
    { Paf(pr[1], pr[2], iv) :
        iv \in { <<0, 2>>, <<1, 3>>, <<2, 4>> },
        pr \in { <<"a", "x">>, <<"a", "y">>, <<"b", "x">> } }

\* Two records on (a,x), each inside the lengths it declares: the second,
\* from another PAF file, declares a longer a and x and lies past the
\* lengths of the first.
MCStalePool ==
    { Paf("a", "x", <<0, 2>>),
      [Paf("a", "x", <<3, 5>>) EXCEPT !.ql = 6, !.tl = 7] }

\* The pool of the filter's checks (MC_ReciprocalBest): five intervals on
\* each pair, nested, shifted by one and adjacent, many tying on mlen.
MCRBPool ==
    { Paf(pr[1], pr[2], iv) :
        iv \in { <<0, 2>>, <<1, 3>>, <<2, 4>>, <<0, 3>>, <<1, 4>> },
        pr \in { <<"a", "x">>, <<"a", "y">>, <<"b", "x">> } }
=============================================================================
