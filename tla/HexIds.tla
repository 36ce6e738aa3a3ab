------------------------------- MODULE HexIds -------------------------------
(***************************************************************************)
(* The texts of makeInodeID, makeDiskMapID, bytesAsString (util.cpp) and   *)
(* Filesystem::fsIDAsString (tsk.cpp): numbers that go to a stringstream   *)
(* one by one.  The stream keeps its base and its fill character, but      *)
(* forgets its width with the next number.                                 *)
(***************************************************************************)
EXTENDS Integers, SequencesExt

Blank == 16     \* not a digit

INODE    == 1
DISK_MAP == 2

SetWidth(n) == <<"width", n>>
SetFill     == <<"fill", 0>>
SetHex      == <<"base", 16>>
Put(n)      == <<"put", n>>

makeInodeID(volIndex, inum) ==
    <<SetWidth(2), SetFill, SetHex, Put(INODE), SetWidth(2 * 4), SetFill, SetHex, Put(volIndex),
      SetWidth(2 * 8), SetFill, SetHex, Put(inum)>>

\* std::hex only once: the second number relies on it.
makeDiskMapID(offset) ==
    <<SetWidth(2), SetFill, SetHex, Put(DISK_MAP), SetWidth(2 * 8), SetFill, Put(offset)>>

bytesAsString(bytes) ==
    FlattenSeq([i \in 1 .. Len(bytes) |-> <<SetWidth(2), SetFill, SetHex, Put(bytes[i])>>])

\* Mutant of fsIDAsString: nothing is said of the base.
fsIDAsStringDecimal(bytes) == [i \in 1 .. Len(bytes) |-> Put(bytes[i])]

fsIDAsString(bytes) ==
    <<SetHex>> \o FlattenSeq([i \in 1 .. Len(bytes) |-> <<SetHex, Put(bytes[i])>>])

-----------------------------------------------------------------------------
\* A stream as it is constructed.
Fresh == [base |-> 10, fill |-> Blank, width |-> 0, buf |-> <<>>]

\* The digits of n, without zeroes in front.
Digits(n, base) ==
    LET digits[m \in 0 .. n] == IF m < base THEN <<m>> ELSE Append(digits[m \div base], m % base)
    IN  digits[n]

Padded(s, n) ==
    LET digits == Digits(n, s.base)
    IN  [i \in 1 .. s.width - Len(digits) |-> s.fill] \o digits

\* Mutant of Insert: the base does not outlive the number.
InsertDroppingBase(s, n) == [s EXCEPT !.buf = @ \o Padded(s, n), !.width = 0, !.base = 10]

Insert(s, n) == [s EXCEPT !.buf = @ \o Padded(s, n), !.width = 0]

Apply(s, item) ==
    CASE item[1] = "width" -> [s EXCEPT !.width = item[2]]
      [] item[1] = "fill"  -> [s EXCEPT !.fill = item[2]]
      [] item[1] = "base"  -> [s EXCEPT !.base = item[2]]
      [] item[1] = "put"   -> Insert(s, item[2])

\* buf.str() in the end.
str(items) ==
    LET stream[n \in 0 .. Len(items)] == IF n = 0 THEN Fresh ELSE Apply(stream[n - 1], items[n])
    IN  stream[Len(items)].buf
=============================================================================
