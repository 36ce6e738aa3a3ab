--------------------------- MODULE Varint_proofs ----------------------------
(***************************************************************************)
(* vintDecode undoes vintEncode, for all 2^64 integers and whatever bytes  *)
(* follow the encoding; so no two integers have the same encoding.  Before *)
(* that, induction over the natural numbers, which the other modules of    *)
(* proofs use too: for a set in place of a predicate, as a set that is not *)
(* all of the numbers lacks a least one.                                   *)
(***************************************************************************)
EXTENDS Varint, WellFoundedInduction, TLAPS

\* A set of numbers that has any has a least one.
LEMMA Least ==
    ASSUME NEW T \in SUBSET Nat, T # {}
    PROVE  \E x \in T : \A y \in T : x <= y
<1> DEFINE R == OpToRel(<, Nat)
<1>1. IsWellFoundedOn(R, Nat)
  BY NatLessThanWellFounded
<1>2. \A a, b \in Nat : a < b => <<a, b>> \in R
  BY DEF OpToRel
<1> HIDE DEF R
<1>3. PICK x \in T : \A y \in T : <<y, x>> \notin R
  BY <1>1, WFMin
<1>4. ASSUME NEW y \in T  PROVE x <= y
  <2>1. x \in Nat /\ y \in Nat /\ <<y, x>> \notin R
    BY <1>3
  <2> HIDE <1>3
  <2>2. ~(y < x)
    BY <1>2, <2>1
  <2> QED  BY <2>1, <2>2
<1> QED  BY <1>4

\* A set that has 0, and with a number the next one, has all of them.
LEMMA SetInduction ==
    ASSUME NEW S, 0 \in S, \A n \in Nat : n \in S => n + 1 \in S
    PROVE  Nat \subseteq S
<1> DEFINE T == Nat \ S
<1> SUFFICES ASSUME T # {}  PROVE FALSE
  OBVIOUS
<1>1. PICK x \in T : \A y \in T : x <= y
  BY Least
<1>2. x # 0 /\ x - 1 \in Nat /\ x - 1 \notin T
  BY <1>1
<1> QED  BY <1>1, <1>2

-----------------------------------------------------------------------------
\* A byte is an integer within bounds.
LEMMA ByteRange == \A b : b \in Byte <=> b \in Int /\ 0 <= b /\ b <= 255
  BY DEF Byte

\* A word is determined by its eight bytes.
LEMMA WordsEqual ==
    ASSUME NEW a \in Word, NEW b \in Word,
           a[1] = b[1], a[2] = b[2], a[3] = b[3], a[4] = b[4],
           a[5] = b[5], a[6] = b[6], a[7] = b[7], a[8] = b[8]
    PROVE  a = b
  <1>1. \A i \in 1 .. 8 : a[i] = b[i]
    <2>1. ASSUME NEW i \in 1 .. 8
          PROVE  i = 1 \/ i = 2 \/ i = 3 \/ i = 4 \/ i = 5 \/ i = 6 \/ i = 7 \/ i = 8
      OBVIOUS
    <2> QED BY <2>1
  <1>2. a = [i \in 1 .. 8 |-> a[i]] /\ b = [i \in 1 .. 8 |-> b[i]]
    BY DEF Word
  <1> QED BY <1>1, <1>2

LEMMA FromLow24Word ==
    ASSUME NEW v \in Nat, v < 16777216
    PROVE  /\ FromLow24(v) \in Word
           /\ Low24(FromLow24(v)) = v
           /\ Fits(FromLow24(v), 3)
  <1>1. v \div 65536 \in Byte
    BY ByteRange
  <1>2. (v \div 256) % 256 \in Byte /\ v % 256 \in Byte
    BY ByteRange
  <1>3. 65536 * (v \div 65536) + 256 * ((v \div 256) % 256) + (v % 256) = v
    OBVIOUS
  <1>4. FromLow24(v) \in Word
    <2> DEFINE hi == v \div 65536  mid == (v \div 256) % 256  lo == v % 256
    <2>1. 0 \in Byte /\ hi \in Byte /\ mid \in Byte /\ lo \in Byte
      BY <1>1, <1>2, ByteRange
    <2>2. FromLow24(v) = <<0, 0, 0, 0, 0, hi, mid, lo>>
      BY DEF FromLow24
    <2> HIDE DEF hi, mid, lo
    <2> QED BY <2>1, <2>2 DEF Word
  <1>5. Low24(FromLow24(v)) = v
    BY <1>3 DEF FromLow24, Low24
  <1>6. Fits(FromLow24(v), 3)
    BY DEF FromLow24, Fits
  <1> QED BY <1>4, <1>5, <1>6

\* A word of three bytes is what its value converts to.
LEMMA Low24Inverse ==
    ASSUME NEW w \in Word, Fits(w, 3)
    PROVE  /\ Low24(w) \in Nat /\ Low24(w) < 16777216
           /\ FromLow24(Low24(w)) = w
  <1>1. w[6] \in Byte /\ w[7] \in Byte /\ w[8] \in Byte
    BY DEF Word
  <1>2. Low24(w) \in Nat /\ Low24(w) < 16777216
    BY <1>1, ByteRange DEF Low24
  <1>3. /\ Low24(w) \div 65536 = w[6]
        /\ (Low24(w) \div 256) % 256 = w[7]
        /\ Low24(w) % 256 = w[8]
    <2>1. ASSUME NEW a \in Int, 0 <= a, a <= 255, NEW b \in Int, 0 <= b, b <= 255,
                 NEW c \in Int, 0 <= c, c <= 255
          PROVE  /\ (65536 * a + 256 * b + c) \div 65536 = a
                 /\ ((65536 * a + 256 * b + c) \div 256) % 256 = b
                 /\ (65536 * a + 256 * b + c) % 256 = c
      BY <2>1
    <2>2. /\ w[6] \in Int /\ 0 <= w[6] /\ w[6] <= 255
          /\ w[7] \in Int /\ 0 <= w[7] /\ w[7] <= 255
          /\ w[8] \in Int /\ 0 <= w[8] /\ w[8] <= 255
      BY <1>1, ByteRange
    <2>3. PICK a \in Int, b \in Int, c \in Int : a = w[6] /\ b = w[7] /\ c = w[8]
      BY <2>2
    <2>4. Low24(w) = 65536 * a + 256 * b + c
      BY <2>3 DEF Low24
    <2>5. 0 <= a /\ a <= 255 /\ 0 <= b /\ b <= 255 /\ 0 <= c /\ c <= 255
      BY <2>2, <2>3
    <2>6. /\ (65536 * a + 256 * b + c) \div 65536 = a
          /\ ((65536 * a + 256 * b + c) \div 256) % 256 = b
          /\ (65536 * a + 256 * b + c) % 256 = c
      BY <2>1, <2>5
    <2> QED BY <2>3, <2>4, <2>6
  <1>4. w[1] = 0 /\ w[2] = 0 /\ w[3] = 0 /\ w[4] = 0 /\ w[5] = 0
    BY DEF Fits
  <1>5. FromLow24(Low24(w)) \in Word
    BY <1>2, FromLow24Word
  <1>6. LET u == FromLow24(Low24(w))
        IN  /\ u[1] = 0 /\ u[2] = 0 /\ u[3] = 0 /\ u[4] = 0 /\ u[5] = 0
            /\ u[6] = w[6] /\ u[7] = w[7] /\ u[8] = w[8]
    BY <1>3 DEF FromLow24
  <1> QED BY <1>2, <1>4, <1>5, <1>6, WordsEqual

LEMMA WidthRange ==
    ASSUME NEW w \in Word
    PROVE  Width(w) \in 3 .. 8 /\ Fits(w, Width(w))
  <1>1. Fits(w, 8)
    BY DEF Fits
  <1>2. \A n \in 3 .. 7 : Fits(w, n) => Fits(w, n + 1)
    BY DEF Fits
  <1>3. /\ Fits(w, 3) => Fits(w, 4)
        /\ Fits(w, 4) => Fits(w, 5)
        /\ Fits(w, 5) => Fits(w, 6)
        /\ Fits(w, 6) => Fits(w, 7)
    BY <1>2
  <1> QED BY <1>1, <1>3 DEF Width

(***************************************************************************)
(* The form and the length of an encoding.                                 *)
(***************************************************************************)
LEMMA EncodingTyped ==
    ASSUME NEW w \in Word
    PROVE  /\ VintEncode(w) \in Seq(Byte)
           /\ Len(VintEncode(w)) \in 1 .. MAX_VINT_SIZE
  <1> DEFINE v == Low24(w)
  <1>1. Fits(w, 3) => v \in Nat /\ v < 16777216
    BY Low24Inverse
  <1> HIDE DEF v
  <1>2. CASE Fits(w, 3) /\ v < 241
    <2>1. VintEncode(w) = <<v>>
      BY <1>1, <1>2 DEF VintEncode, v
    <2>2. v \in Byte
      BY <1>1, <1>2, ByteRange
    <2> QED BY <2>1, <2>2 DEF MAX_VINT_SIZE
  <1>3. CASE Fits(w, 3) /\ 241 <= v /\ v < 2288
    <2>1. VintEncode(w) = <<(v - 240) \div 256 + 241, (v - 240) % 256>>
      BY <1>1, <1>3 DEF VintEncode, v
    <2>2. (v - 240) \div 256 + 241 \in Byte /\ (v - 240) % 256 \in Byte
      BY <1>1, <1>3, ByteRange
    <2> QED BY <2>1, <2>2 DEF MAX_VINT_SIZE
  <1>4. CASE Fits(w, 3) /\ 2288 <= v /\ v < 67824
    <2>1. VintEncode(w) = <<249, (v - 2288) \div 256, (v - 2288) % 256>>
      BY <1>1, <1>4 DEF VintEncode, v
    <2>2. 249 \in Byte /\ (v - 2288) \div 256 \in Byte /\ (v - 2288) % 256 \in Byte
      BY <1>1, <1>4, ByteRange
    <2> QED BY <2>1, <2>2 DEF MAX_VINT_SIZE
  <1>5. CASE ~(Fits(w, 3) /\ v < 67824)
    <2>1. PICK n \in 3 .. 8 : n = Width(w)
      BY WidthRange
    <2>2. VintEncode(w) = BigEndian(w, n)
      BY <1>1, <1>5, <2>1 DEF VintEncode, v
    <2>3. \A i \in 1 .. n + 1 : (IF i = 1 THEN 247 + n ELSE w[7 - n + i]) \in Byte
      BY <2>1, ByteRange DEF Word
    <2>4. BigEndian(w, n) \in Seq(Byte) /\ Len(BigEndian(w, n)) = n + 1
      BY <2>1, <2>3 DEF BigEndian
    <2> QED BY <2>1, <2>2, <2>4 DEF MAX_VINT_SIZE
  <1> QED BY <1>1, <1>2, <1>3, <1>4, <1>5

(***************************************************************************)
(* The bytes of an encoding, then those of rest.                           *)
(***************************************************************************)
LEMMA Prefix ==
    ASSUME NEW s \in Seq(Byte), NEW rest \in Seq(Byte), NEW i \in 1 .. Len(s)
    PROVE  (s \o rest)[i] = s[i]
  OBVIOUS

LEMMA HighAndLow ==
    ASSUME NEW n \in Nat
    PROVE  /\ n \div 256 \in Nat
           /\ n % 256 \in Nat
           /\ 256 * (n \div 256) + (n % 256) = n
           /\ n < 2048 => n \div 256 < 8
  OBVIOUS

\* Decoding an encoding, with anything behind it, gives the integer and its length.
THEOREM RoundTrip ==
    ASSUME NEW w \in Word, NEW rest \in Seq(Byte)
    PROVE  VintDecode(VintEncode(w) \o rest) = [val |-> w, len |-> Len(VintEncode(w))]
  <1> DEFINE v == Low24(w)
             s == VintEncode(w)
             buf == s \o rest
  <1>1. Fits(w, 3) => v \in Nat /\ v < 16777216 /\ FromLow24(v) = w
    BY Low24Inverse
  <1>2. s \in Seq(Byte) /\ Len(s) \in 1 .. 9
    BY EncodingTyped DEF MAX_VINT_SIZE
  <1>3. \A i \in 1 .. Len(s) : buf[i] = s[i]
    BY <1>2, Prefix
  <1> HIDE DEF v
  <1>4. CASE Fits(w, 3) /\ v < 241
    <2>1. s = <<v>>
      BY <1>1, <1>4 DEF VintEncode, v
    <2>2. Len(s) = 1 /\ buf[1] = v
      BY <1>3, <2>1
    <2> HIDE DEF buf, s
    <2>3. VintDecode(buf) = [val |-> FromLow24(v), len |-> 1]
      BY <1>1, <1>4, <2>2 DEF VintDecode
    <2> QED BY <1>1, <1>4, <2>2, <2>3 DEF buf, s
  <1>5. CASE Fits(w, 3) /\ 241 <= v /\ v < 2288
    <2> DEFINE x == (v - 240) \div 256
               y == (v - 240) % 256
    <2>1. s = <<x + 241, y>>
      BY <1>1, <1>5 DEF VintEncode, v
    <2>2. Len(s) = 2 /\ buf[1] = x + 241 /\ buf[2] = y
      BY <1>3, <2>1
    <2>3. x \in Nat /\ x + 241 < 249 /\ y \in Nat /\ 256 * x + y + 240 = v
      <3>1. v - 240 \in Nat /\ v - 240 < 2048
        BY <1>1, <1>5
      <3>2. x \in Nat /\ x < 8 /\ y \in Nat /\ 256 * x + y = v - 240
        BY <3>1, HighAndLow
      <3> HIDE DEF x, y
      <3> QED BY <1>1, <1>5, <3>2
    <2> HIDE DEF buf, s, x, y
    <2>4. VintDecode(buf) = [val |-> FromLow24(256 * (x + 241 - 241) + y + 240), len |-> 2]
      BY <2>2, <2>3 DEF VintDecode
    <2>5. 256 * (x + 241 - 241) + y + 240 = v
      BY <2>3
    <2> QED BY <1>1, <1>5, <2>2, <2>4, <2>5 DEF buf, s
  <1>6. CASE Fits(w, 3) /\ 2288 <= v /\ v < 67824
    <2> DEFINE x == (v - 2288) \div 256
               y == (v - 2288) % 256
    <2>1. s = <<249, x, y>>
      BY <1>1, <1>6, SMTT(30) DEF VintEncode, v
    <2>2. Len(s) = 3 /\ buf[1] = 249 /\ buf[2] = x /\ buf[3] = y
      BY <1>3, <2>1
    <2>3. x \in Nat /\ y \in Nat /\ 2288 + 256 * x + y = v
      <3>1. PICK m \in Nat : m = v - 2288
        BY <1>1, <1>6
      <3>2. x \in Nat /\ y \in Nat /\ 256 * x + y = m
        BY <3>1, HighAndLow
      <3> HIDE DEF x, y
      <3> QED BY <1>1, <1>6, <3>1, <3>2
    <2> HIDE DEF buf, s, x, y
    <2>4. VintDecode(buf) = [val |-> FromLow24(2288 + 256 * x + y), len |-> 3]
      BY <2>2, <2>3 DEF VintDecode
    <2> QED BY <1>1, <1>6, <2>2, <2>3, <2>4 DEF buf, s
  <1>7. CASE ~(Fits(w, 3) /\ v < 67824)
    <2>1. PICK n \in 3 .. 8 : n = Width(w) /\ Fits(w, n)
      BY WidthRange
    <2>2. s = BigEndian(w, n)
      BY <1>1, <1>7, <2>1 DEF VintEncode, v
    <2>3. Len(s) = n + 1 /\ s[1] = 247 + n /\ \A i \in 2 .. n + 1 : s[i] = w[7 - n + i]
      BY <1>2, <2>1, <2>2 DEF BigEndian
    <2>4. buf[1] = 247 + n /\ \A i \in 2 .. n + 1 : buf[i] = w[7 - n + i]
      BY <1>3, <2>1, <2>3
    <2> HIDE DEF buf, s
    <2>5. \A i \in 1 .. 8 : (IF i <= 255 - (247 + n) THEN 0 ELSE buf[i - 254 + (247 + n)]) = w[i]
      <3> SUFFICES ASSUME NEW i \in 1 .. 8
                   PROVE  (IF i <= 255 - (247 + n) THEN 0 ELSE buf[i - 254 + (247 + n)]) = w[i]
        OBVIOUS
      <3>1. CASE i <= 8 - n
        BY <2>1, <3>1 DEF Fits
      <3>2. CASE i > 8 - n
        <4>1. PICK j \in 2 .. n + 1 : j = i - 7 + n
          BY <2>1, <3>2
        <4>2. buf[j] = w[7 - n + j] /\ 7 - n + j = i
          BY <2>1, <2>4, <4>1
        <4> QED BY <2>1, <3>2, <4>1, <4>2, SMTT(30)
      <3> QED BY <2>1, <3>1, <3>2
    <2>6. w = [i \in 1 .. 8 |-> w[i]]
      BY DEF Word
    <2>7. [i \in 1 .. 8 |-> IF i <= 255 - (247 + n) THEN 0 ELSE buf[i - 254 + (247 + n)]] = w
      BY <2>5, <2>6
    <2>8. 247 + n - 246 = Len(s)
      BY <2>1, <2>3
    <2>9. ~(247 + n < 241) /\ ~(247 + n < 249) /\ 247 + n # 249
      BY <2>1
    <2>10. VintDecode(buf) = [val |-> [i \in 1 .. 8 |-> IF i <= 255 - (247 + n) THEN 0
                                                      ELSE buf[i - 254 + (247 + n)]],
                              len |-> 247 + n - 246]
      BY <2>4, <2>9 DEF VintDecode
    <2>11. VintDecode(buf) = [val |-> w, len |-> Len(s)]
      BY <2>7, <2>8, <2>10, Zenon
    <2> QED BY <2>11 DEF buf, s
  <1> QED BY <1>1, <1>4, <1>5, <1>6, <1>7

\* An encoding is the encoding of one integer only.
THEOREM EncodeInjective ==
    ASSUME NEW a \in Word, NEW b \in Word, VintEncode(a) = VintEncode(b)
    PROVE  a = b
  <1>1. <<>> \in Seq(Byte)
    OBVIOUS
  <1>2. /\ VintDecode(VintEncode(a) \o <<>>) = [val |-> a, len |-> Len(VintEncode(a))]
        /\ VintDecode(VintEncode(b) \o <<>>) = [val |-> b, len |-> Len(VintEncode(b))]
    BY <1>1, RoundTrip, Zenon
  <1> QED BY <1>2

(***************************************************************************)
(* Counts and levels are unsigned int: what they convert to.               *)
(***************************************************************************)
LEMMA FromUint32Word ==
    ASSUME NEW v \in Nat
    PROVE  FromUint32(v) \in Word
  <1> DEFINE a == (v \div 16777216) % 256
             b == (v \div 65536) % 256
             c == (v \div 256) % 256
             d == v % 256
  <1>1. 0 \in Byte /\ a \in Byte /\ b \in Byte /\ c \in Byte /\ d \in Byte
    BY ByteRange
  <1>2. FromUint32(v) = <<0, 0, 0, 0, a, b, c, d>>
    BY DEF FromUint32
  <1> HIDE DEF a, b, c, d
  <1> QED BY <1>1, <1>2 DEF Word

LEMMA FromUint32Injective ==
    ASSUME NEW v \in Nat, v < 2147483647, NEW u \in Nat, u < 2147483647,
           FromUint32(v) = FromUint32(u)
    PROVE  v = u
  <1>1. /\ v \div 16777216 = u \div 16777216
        /\ (v \div 65536) % 256 = (u \div 65536) % 256
        /\ (v \div 256) % 256 = (u \div 256) % 256
        /\ v % 256 = u % 256
    BY DEF FromUint32
  <1>2. ASSUME NEW x \in Nat, x < 2147483647
        PROVE  x = 16777216 * (x \div 16777216) + 65536 * ((x \div 65536) % 256)
                       + 256 * ((x \div 256) % 256) + (x % 256)
    BY <1>2
  <1> QED BY <1>1, <1>2

\* The children of a directory get encodings of their own, up to 2^31 of them.
THEOREM ChildCodesDiffer ==
    ASSUME NEW v \in Nat, v < 2147483647, NEW u \in Nat, u < 2147483647,
           VintEncode(FromUint32(v)) = VintEncode(FromUint32(u))
    PROVE  v = u
  BY FromUint32Word, FromUint32Injective, EncodeInjective
=============================================================================
