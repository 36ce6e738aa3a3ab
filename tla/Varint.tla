------------------------------- MODULE Varint -------------------------------
(***************************************************************************)
(* The variable-length integers of util.cpp, out of which every identifier *)
(* fsrip emits is built.                                                   *)
(*                                                                         *)
(* A uint64_t is a Word: its eight bytes, the most significant first, so   *)
(* that the whole 64-bit range is modelled exactly.  An encoding is the    *)
(* sequence of bytes that vintEncode leaves in its buffer.                 *)
(***************************************************************************)
EXTENDS Integers, Sequences

Byte == 0 .. 255

Word == [1 .. 8 -> Byte]

MAX_VINT_SIZE == 9

(***************************************************************************)
(* The value of the three low bytes, which is the value of the whole word  *)
(* when the word fits in three bytes.                                      *)
(***************************************************************************)
Low24(w) == 65536 * w[6] + 256 * w[7] + w[8]

\* w < 256^n
Fits(w, n) == \A i \in 1 .. 8 : i <= 8 - n => w[i] = 0

\* v < 2^24, as a Word.
FromLow24(v) == <<0, 0, 0, 0, 0, v \div 65536, (v \div 256) % 256, v % 256>>

\* An unsigned int, v modulo 2^32, passed where a uint64_t is expected.
FromUint32(v) == <<0, 0, 0, 0, (v \div 16777216) % 256, (v \div 65536) % 256,
                   (v \div 256) % 256, v % 256>>

\* (uint32_t) -1, what unsigned arithmetic makes of 0 - 1.
Uint32Max == <<0, 0, 0, 0, 255, 255, 255, 255>>

\* Mutant of BigEndian: the least significant byte first.
LittleEndian(w, n) ==
    [i \in 1 .. n + 1 |-> IF i = 1 THEN 247 + n ELSE w[10 - i]]

(***************************************************************************)
(* writeBigEndian<n> after a lead byte that tells n.                       *)
(***************************************************************************)
BigEndian(w, n) ==
    [i \in 1 .. n + 1 |-> IF i = 1 THEN 247 + n ELSE w[7 - n + i]]

\* The fewest bytes, of the three or more that an encoding stores, for w.
Width(w) ==
    CASE Fits(w, 3) -> 3
      [] Fits(w, 4) /\ ~Fits(w, 3) -> 4
      [] Fits(w, 5) /\ ~Fits(w, 4) -> 5
      [] Fits(w, 6) /\ ~Fits(w, 5) -> 6
      [] Fits(w, 7) /\ ~Fits(w, 6) -> 7
      [] ~Fits(w, 7) -> 8

VintEncode(w) ==
    LET v == Low24(w)
    IN  IF      Fits(w, 3) /\ v < 241   THEN <<v>>
        ELSE IF Fits(w, 3) /\ v < 2288  THEN <<(v - 240) \div 256 + 241, (v - 240) % 256>>
        ELSE IF Fits(w, 3) /\ v < 67824 THEN <<249, (v - 2288) \div 256, (v - 2288) % 256>>
        ELSE BigEndian(w, Width(w))

\* Mutant of VintDecode: the bias of the two-byte form is forgotten.
VintDecodeUnbiased(buf) ==
    LET lead == buf[1]
    IN  IF      lead < 241 THEN [val |-> FromLow24(lead), len |-> 1]
        ELSE IF lead < 249 THEN [val |-> FromLow24(256 * (lead - 241) + buf[2]), len |-> 2]
        ELSE IF lead = 249 THEN [val |-> FromLow24(2288 + 256 * buf[2] + buf[3]), len |-> 3]
        ELSE [val |-> [i \in 1 .. 8 |-> IF i <= 255 - lead THEN 0 ELSE buf[i - 254 + lead]],
              len |-> lead - 246]

(***************************************************************************)
(* vintDecode reads the length off the first byte of buf, and never looks  *)
(* further than that.                                                      *)
(***************************************************************************)
VintDecode(buf) ==
    LET lead == buf[1]
    IN  IF      lead < 241 THEN [val |-> FromLow24(lead), len |-> 1]
        ELSE IF lead < 249 THEN [val |-> FromLow24(256 * (lead - 241) + buf[2] + 240), len |-> 2]
        ELSE IF lead = 249 THEN [val |-> FromLow24(2288 + 256 * buf[2] + buf[3]), len |-> 3]
        ELSE [val |-> [i \in 1 .. 8 |-> IF i <= 255 - lead THEN 0 ELSE buf[i - 254 + lead]],
              len |-> lead - 246]
=============================================================================
