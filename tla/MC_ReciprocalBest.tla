------------------------- MODULE MC_ReciprocalBest -------------------------
EXTENDS ReciprocalBest

\* Collinear records (same interval on both genomes, mlen equal to the
\* length) on three sequence pairs: (a,x), (a,y) and (b,x), so two records
\* can share the query but not the target, or the target but not the
\* query.  The intervals of length 2 and 3 inside 0..4 overlap each other
\* in every way (nested, shifted by one, adjacent); many records tie.
MCIntervals == { <<0, 2>>, <<1, 3>>, <<2, 4>>, <<0, 3>>, <<1, 4>> }

MCPafPool ==
    { [qn |-> pr[1], ql |-> 4, qs |-> iv[1], qe |-> iv[2],
       tn |-> pr[2], tl |-> 4, ts |-> iv[1], te |-> iv[2], ml |-> iv[2] - iv[1]] :
         iv \in MCIntervals, pr \in { <<"a", "x">>, <<"a", "y">>, <<"b", "x">> } }

=============================================================================
