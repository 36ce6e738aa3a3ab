------------------------------ MODULE MCTexts -------------------------------
(***************************************************************************)
(* Values at the edges of the conversions.                                 *)
(***************************************************************************)
EXTENDS Texts

\* Nanoseconds around the powers of ten, around halves, with zeroes inside, and at both ends.
MCNanoseconds ==
    {n \in UNION {c - 11 .. c + 11 : c \in {10^k : k \in 1 .. 9}
                                           \cup {500000000, 100200300, 999999500, 123456785}} :
         n \in 0 .. 999999999}

MCIndexes == {0, 9, 10, 15, 16, 255, 256, 2147483647}

\* Numbers around the powers of sixteen.
MCNumbers == UNION {{16^k - 1, 16^k, 16^k + 10} : k \in 0 .. 7} \cup {2147483647}

MCBytes == {0, 9, 10, 15, 16, 159, 160, 255}

MCByteStrings == UpTo(MCBytes, 3)

\* The integers on both sides of every threshold of vintEncode, the small ones here.
Small == {0, 1, 239, 240, 241, 242, 255, 256, 495, 496, 497, 2286, 2287, 2288, 2289,
          65535, 65536, 67822, 67823, 67824, 67825, 16777215}

\* 2^(8n), the integers just below it and above it, and 2^(8n) + 256, whose low bytes are
\* in the other order; n being 3 to 7. And 2^64 - 1.
Large == UNION {{[i \in 1 .. 8 |-> IF i = 8 - n THEN 1 ELSE 0],
                 [i \in 1 .. 8 |-> IF i = 8 - n \/ i = 8 THEN 1 ELSE 0],
                 [i \in 1 .. 8 |-> IF i = 8 - n \/ i = 7 THEN 1 ELSE 0],
                 [i \in 1 .. 8 |-> IF i > 8 - n THEN 255 ELSE 0]} : n \in 3 .. 7}
             \cup {[i \in 1 .. 8 |-> 255]}

MCWords == {FromLow24(v) : v \in Small} \cup Large
=============================================================================
