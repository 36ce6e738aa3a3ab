------------------------------ MODULE Timestamp -----------------------------
(***************************************************************************)
(* formatTimestamp (util.cpp), on the nanoseconds: they are printed as a   *)
(* fraction of a second with eight digits, the digit before the point is   *)
(* erased and then the zeroes at the end.                                  *)
(***************************************************************************)
EXTENDS Integers, Sequences

Point == 10     \* not a digit

Precision == 8

\* What one of a digit behind the point is worth, in hundred-millionths of a second.
Worth == <<10000000, 1000000, 100000, 10000, 1000, 100, 10, 1>>

\* The text of units hundred-millionths of a second; the seconds have one digit.
Fixed(units) ==
    <<units \div (10 * Worth[1]), Point>> \o [i \in 1 .. Precision |-> (units \div Worth[i]) % 10]

\* double(ns)/1000000000 to eight digits: halves are rounded to where the double lies.
Rounded(ns) == {n \in {ns \div 10, ns \div 10 + 1} : 10 * n - ns \in -5 .. 5}

\* Where the loop from the end stops: at a digit that is not 0, or at the first character.
zeroItr(frac) ==
    CHOOSE n \in DOMAIN frac :
        /\ n = 1 \/ frac[n] # 0
        /\ \A i \in n + 1 .. Len(frac) : frac[i] = 0

\* Mutant of eraseZeroes: the iterator is not moved behind the last digit to keep.
eraseZeroesFromIterator(frac) == SubSeq(frac, 1, zeroItr(frac) - 1)

eraseZeroes(frac) == SubSeq(frac, 1, zeroItr(frac))

\* The fractions that may be printed; without nanoseconds there is none.
formatTimestamp(ns) ==
    IF ns = 0 THEN {<<>>} ELSE {eraseZeroes(Tail(Fixed(n))) : n \in Rounded(ns)}
=============================================================================
