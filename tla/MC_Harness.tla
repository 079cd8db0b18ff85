------------------------------ MODULE MC_Harness ------------------------------
EXTENDS Harness

\* A line of the interval file: no leading blank, and its words.
Line(ws) == [lead |-> FALSE, words |-> ws]

Rec(n, l) == [name |-> n, len |-> l]

\* The target FASTA repeats "t" with the same sequence; the query FASTA
\* has three names, one more than the scaled initial capacity of 2, and a
\* second query file holds a sequence past the (scaled) UINT32_MAX.
MCTFastas == { << Rec("t", 10), Rec("t", 10) >> }
MCQFastas == { << Rec("q", 10), Rec("r", 4), Rec("s", 4) >>, << Rec("q", 11) >> }

\* A target FASTA that repeats "t" with a shorter sequence.
MCShortTFastas == { << Rec("t", 10), Rec("t", 6) >> }

\* A line of five words, three valid intervals (query and target offsets
\* differ), one running past the query end and one whose flank starts
\* before 0.
GoodFile ==
    << Line(<< "q", "0", "3", "t", "5" >>),
       Line(<< "q", "2", "5", "t", "1", "4" >>),
       Line(<< "q", "7", "12", "t", "1", "4" >>),
       Line(<< "q", "6", "8", "t", "7", "9" >>),
       Line(<< "q", "0", "2", "t", "0", "2", "1" >>),
       Line(<< "q", "0", "3", "t", "5", "8" >>) >>

\* A header, a valid interval, then one on a query the FASTA file does
\* not hold.
UnknownFile ==
    << Line(<< "#", "qname" >>),
       Line(<< "q", "2", "5", "t", "1", "4" >>),
       Line(<< "x", "2", "5", "t", "1", "4" >>) >>

MCInputFiles == { GoodFile, UnknownFile }

\* An interval file whose line has a query end that is not a number.
MCMalformedFiles == { << Line(<< "q", "5", "x", "t", "1", "4" >>) >> }
=============================================================================
