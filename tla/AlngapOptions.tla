--------------------------- MODULE AlngapOptions ---------------------------
(***************************************************************************)
(* The numeric conversions of alngap.c: parse_num() on the arguments of   *)
(* -l, -m and -f, and the conversion of an int64 value to a C int, which  *)
(* main() applies to the parsed options and reciprocal_best_aligns() to   *)
(* the coordinates it hands to the rangeset functions.                    *)
(***************************************************************************)
EXTENDS Integers

CONSTANT IntBits   \* width of a C int: 32 in the program, a few bits in the runs

ASSUME IntBits \in Nat \ {0}

\* An int64 value converted to int: gcc keeps the low IntBits bits, read
\* as two's complement.
ToInt(x) ==
    LET m == 2^IntBits
        r == x % m
    IN IF r >= m \div 2 THEN r - m ELSE r

\* Integer division as C does it: the quotient truncated toward zero.
TruncDiv(a, b) == IF a >= 0 THEN a \div b ELSE -((-a) \div b)

\* parse_num() on a decimal without a K/M/G suffix, given in thousandths:
\* strtod, then (int64_t)(x + .499).
ParseNum(x) == TruncDiv(x + 499, 1000)
=============================================================================
