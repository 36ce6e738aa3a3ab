---------------------------- MODULE Texts_proofs ----------------------------
(***************************************************************************)
(* What the integers of identifiers become, the fractions of times, the    *)
(* ids in hex, and the lines, for all values: encodings sort as their      *)
(* integers do, an identifier is that of one sequence of integers, a       *)
(* fraction reads back, an id reads back by position, and every line of    *)
(* the walk is JSON as long as no name needs an escape.                    *)
(***************************************************************************)
EXTENDS Texts, JsonText_proofs

-----------------------------------------------------------------------------
(***************************************************************************)
(* The order of byte strings.                                              *)
(***************************************************************************)
\* s and t agree up to n, and s is less behind it.
LessBehind(s, t, n) ==
    /\ n < Len(t)
    /\ \A i \in 1 .. n : s[i] = t[i]
    /\ n = Len(s) \/ s[n + 1] < t[n + 1]

LEMMA BeforeBehind ==
    ASSUME NEW s \in Seq(Byte), NEW t \in Seq(Byte)
    PROVE  Before(s, t) <=> \E n \in 0 .. Len(s) : LessBehind(s, t, n)
  BY Zenon DEF Before, LessBehind

LEMMA BytesAreIntegers ==
    ASSUME NEW s \in Seq(Byte), NEW i \in 1 .. Len(s)
    PROVE  s[i] \in Int
  BY ByteRange

LEMMA BeforeAsymmetric ==
    ASSUME NEW s \in Seq(Byte), NEW t \in Seq(Byte), Before(s, t)
    PROVE  ~Before(t, s)
  <1> SUFFICES ASSUME Before(t, s)  PROVE FALSE
    OBVIOUS
  <1>1. PICK n \in 0 .. Len(s) : LessBehind(s, t, n)
    BY BeforeBehind
  <1>2. PICK m \in 0 .. Len(t) : LessBehind(t, s, m)
    BY BeforeBehind
  <1>3. /\ n \in Nat /\ m \in Nat /\ n <= Len(s) /\ m <= Len(t) /\ n < Len(t) /\ m < Len(s)
        /\ Len(s) \in Nat /\ Len(t) \in Nat
    BY <1>1, <1>2 DEF LessBehind
  <1>4. \A i \in 1 .. Len(s) : s[i] \in Int
    BY BytesAreIntegers
  <1>5. \A i \in 1 .. Len(t) : t[i] \in Int
    BY BytesAreIntegers
  <1>6. CASE n < m
    <2>1. n + 1 \in 1 .. m /\ n + 1 \in 1 .. Len(s) /\ n # Len(s)
      BY <1>3, <1>6
    <2>2. t[n + 1] = s[n + 1] /\ s[n + 1] < t[n + 1]
      BY <1>1, <1>2, <2>1 DEF LessBehind
    <2> QED BY <1>4, <2>1, <2>2
  <1>7. CASE m < n
    <2>1. m + 1 \in 1 .. n /\ m + 1 \in 1 .. Len(t) /\ m # Len(t)
      BY <1>3, <1>7
    <2>2. t[m + 1] = s[m + 1] /\ t[m + 1] < s[m + 1]
      BY <1>1, <1>2, <2>1 DEF LessBehind
    <2> QED BY <1>5, <2>1, <2>2
  <1>8. CASE n = m
    <2>1. n # Len(s) /\ m # Len(t) /\ n + 1 \in 1 .. Len(s) /\ n + 1 \in 1 .. Len(t)
      BY <1>3, <1>8
    <2>2. s[n + 1] < t[n + 1] /\ t[n + 1] < s[n + 1]
      BY <1>1, <1>2, <1>8, <2>1 DEF LessBehind
    <2> QED BY <1>4, <1>5, <2>1, <2>2
  <1> QED BY <1>3, <1>6, <1>7, <1>8

\* The first byte decides.
LEMMA FirstByteLess ==
    ASSUME NEW s \in Seq(Byte), NEW t \in Seq(Byte), Len(t) > 0, s[1] < t[1]
    PROVE  Before(s, t)
  <1>1. LessBehind(s, t, 0)
    BY DEF LessBehind
  <1> QED BY <1>1, BeforeBehind

\* It does not, and the second byte decides.
LEMMA SecondByteLess ==
    ASSUME NEW s \in Seq(Byte), NEW t \in Seq(Byte), Len(s) > 1, Len(t) > 1,
           s[1] = t[1], s[2] < t[2]
    PROVE  Before(s, t)
  <1>1. LessBehind(s, t, 1) /\ 1 \in 0 .. Len(s)
    BY DEF LessBehind
  <1> QED BY <1>1, BeforeBehind

LEMMA ThirdByteLess ==
    ASSUME NEW s \in Seq(Byte), NEW t \in Seq(Byte), Len(s) > 2, Len(t) > 2,
           s[1] = t[1], s[2] = t[2], s[3] < t[3]
    PROVE  Before(s, t)
  <1>1. LessBehind(s, t, 2) /\ 2 \in 0 .. Len(s)
    BY DEF LessBehind
  <1> QED BY <1>1, BeforeBehind

-----------------------------------------------------------------------------
(***************************************************************************)
(* The order of words, which is that of the integers.                      *)
(***************************************************************************)
\* v and w differ first at p, where v is less.
LessAt(v, w, p) == v[p] < w[p] /\ \A i \in 1 .. 8 : i < p => v[i] = w[i]

LEMMA WordBytes ==
    ASSUME NEW w \in Word
    PROVE  /\ w \in Seq(Byte) /\ Len(w) = 8
           /\ \A i \in 1 .. 8 : w[i] \in Int /\ 0 <= w[i] /\ w[i] <= 255
  <1>1. \A i \in 1 .. 8 : w[i] \in Byte
    BY DEF Word
  <1>2. w = [i \in 1 .. 8 |-> w[i]]
    BY DEF Word
  <1>3. w \in Seq(Byte) /\ Len(w) = 8
    BY <1>1, <1>2
  <1> QED BY <1>1, <1>3, ByteRange

LEMMA BeforeAtByte ==
    ASSUME NEW v \in Word, NEW w \in Word
    PROVE  Before(v, w) <=> \E p \in 1 .. 8 : LessAt(v, w, p)
  <1>1. /\ v \in Seq(Byte) /\ Len(v) = 8
        /\ w \in Seq(Byte) /\ Len(w) = 8
    BY WordBytes
  <1>2. ASSUME NEW n \in 0 .. 8, LessBehind(v, w, n)
        PROVE  LessAt(v, w, n + 1) /\ n + 1 \in 1 .. 8
    BY <1>1, <1>2 DEF LessBehind, LessAt
  <1>3. ASSUME NEW p \in 1 .. 8, LessAt(v, w, p)
        PROVE  LessBehind(v, w, p - 1) /\ p - 1 \in 0 .. 8
    BY <1>1, <1>3 DEF LessBehind, LessAt
  <1>4. Before(v, w) <=> \E n \in 0 .. 8 : LessBehind(v, w, n)
    BY <1>1, BeforeBehind
  <1> QED BY <1>2, <1>3, <1>4

\* Of two different words one comes before the other.
LEMMA WordsCompare ==
    ASSUME NEW v \in Word, NEW w \in Word, v # w
    PROVE  Before(v, w) \/ Before(w, v)
  <1> DEFINE D == {i \in 1 .. 8 : v[i] # w[i]}
  <1>1. D # {}
    BY WordsEqual
  <1>2. D \in SUBSET Nat
    OBVIOUS
  <1>3. PICK p \in D : \A i \in D : p <= i
    BY <1>1, <1>2, Least
  <1>4. /\ \A i \in 1 .. 8 : v[i] \in Int
        /\ \A i \in 1 .. 8 : w[i] \in Int
    BY WordBytes
  <1>5. p \in 1 .. 8 /\ v[p] # w[p] /\ \A i \in 1 .. 8 : i < p => v[i] = w[i]
    BY <1>3
  <1> HIDE DEF D
  <1>6. LessAt(v, w, p) \/ LessAt(w, v, p)
    BY <1>4, <1>5 DEF LessAt
  <1> QED BY <1>5, <1>6, BeforeAtByte

LEMMA LessFits ==
    ASSUME NEW v \in Word, NEW w \in Word, NEW p \in 1 .. 8, LessAt(v, w, p),
           NEW n \in 1 .. 8, Fits(w, n)
    PROVE  p > 8 - n /\ Fits(v, n)
  <1>1. \A i \in 1 .. 8 : v[i] \in Int /\ 0 <= v[i]
    BY WordBytes
  <1>2. p > 8 - n
    <2> SUFFICES ASSUME p <= 8 - n  PROVE FALSE
      OBVIOUS
    <2>1. w[p] = 0
      BY DEF Fits
    <2> QED BY <1>1, <2>1 DEF LessAt
  <1>3. ASSUME NEW i \in 1 .. 8, i <= 8 - n
        PROVE  v[i] = 0
    <2>1. w[i] = 0
      BY <1>3 DEF Fits
    <2>2. i < p
      BY <1>2, <1>3
    <2> QED BY <2>1, <2>2 DEF LessAt
  <1> QED BY <1>2, <1>3 DEF Fits

LEMMA LeastWidth ==
    ASSUME NEW w \in Word, NEW n \in 3 .. 8, Fits(w, n)
    PROVE  Width(w) <= n
  <1>1. \A m \in 3 .. 7 : Fits(w, m) => Fits(w, m + 1)
    BY DEF Fits
  <1>2. /\ Fits(w, 3) => Fits(w, 4)
        /\ Fits(w, 4) => Fits(w, 5)
        /\ Fits(w, 5) => Fits(w, 6)
        /\ Fits(w, 6) => Fits(w, 7)
    BY <1>1
  <1>3. n = 3 \/ n = 4 \/ n = 5 \/ n = 6 \/ n = 7 \/ n = 8
    OBVIOUS
  <1> QED BY <1>2, <1>3 DEF Width

LEMMA LessValue ==
    ASSUME NEW v \in Word, NEW w \in Word, NEW p \in 1 .. 8, LessAt(v, w, p), Fits(w, 3)
    PROVE  Low24(v) < Low24(w)
  <1>1. p = 6 \/ p = 7 \/ p = 8
    <2>1. p > 5
      BY LessFits
    <2> QED BY <2>1
  <1>2. /\ \A i \in 1 .. 8 : v[i] \in Int /\ 0 <= v[i] /\ v[i] <= 255
        /\ \A i \in 1 .. 8 : w[i] \in Int /\ 0 <= w[i] /\ w[i] <= 255
    BY WordBytes
  <1>3. PICK a \in Int, b \in Int, c \in Int : a = v[6] /\ b = v[7] /\ c = v[8]
    BY <1>2
  <1>4. PICK x \in Int, y \in Int, z \in Int : x = w[6] /\ y = w[7] /\ z = w[8]
    BY <1>2
  <1>5. /\ 0 <= a /\ a <= 255 /\ 0 <= b /\ b <= 255 /\ 0 <= c /\ c <= 255
        /\ 0 <= x /\ x <= 255 /\ 0 <= y /\ y <= 255 /\ 0 <= z /\ z <= 255
    BY <1>2, <1>3, <1>4
  <1>6. a < x \/ (a = x /\ b < y) \/ (a = x /\ b = y /\ c < z)
    BY <1>1, <1>3, <1>4 DEF LessAt
  <1>7. 65536 * a + 256 * b + c < 65536 * x + 256 * y + z
    BY <1>5, <1>6
  <1> QED BY <1>3, <1>4, <1>7 DEF Low24

-----------------------------------------------------------------------------
(***************************************************************************)
(* The forms of an encoding.                                               *)
(***************************************************************************)
Short(w) == Fits(w, 3) /\ Low24(w) < 67824

\* Division with a remainder, as the forms of two and three bytes do.
LEMMA QuotientsCompare ==
    ASSUME NEW x \in Nat, NEW y \in Nat, x < y
    PROVE  /\ x \div 256 \in Nat /\ y \div 256 \in Nat /\ x % 256 \in Nat /\ y % 256 \in Nat
           /\ \/ x \div 256 < y \div 256
              \/ x \div 256 = y \div 256 /\ x % 256 < y % 256
  OBVIOUS

LEMMA OneByte ==
    ASSUME NEW w \in Word, Fits(w, 3), Low24(w) < 241
    PROVE  VintEncode(w)[1] = Low24(w)
  BY DEF VintEncode

LEMMA TwoBytes ==
    ASSUME NEW w \in Word, Fits(w, 3), NEW v \in Nat, v = Low24(w), 241 <= v, v < 2288
    PROVE  /\ Len(VintEncode(w)) = 2
           /\ VintEncode(w)[1] = (v - 240) \div 256 + 241
           /\ VintEncode(w)[2] = (v - 240) % 256
  <1>1. VintEncode(w) = <<(v - 240) \div 256 + 241, (v - 240) % 256>>
    BY DEF VintEncode
  <1> QED BY <1>1

LEMMA ThreeBytes ==
    ASSUME NEW w \in Word, Fits(w, 3), NEW v \in Nat, v = Low24(w), 2288 <= v, v < 67824
    PROVE  /\ Len(VintEncode(w)) = 3
           /\ VintEncode(w)[1] = 249
           /\ VintEncode(w)[2] = (v - 2288) \div 256
           /\ VintEncode(w)[3] = (v - 2288) % 256
  <1>1. VintEncode(w) = <<249, (v - 2288) \div 256, (v - 2288) % 256>>
    BY DEF VintEncode
  <1> QED BY <1>1

\* s is the lead byte for n bytes and the n low bytes of w.
LongAs(s, w, n) ==
    Len(s) = n + 1 /\ s[1] = 247 + n /\ \A i \in 2 .. n + 1 : s[i] = w[7 - n + i]

LEMMA LongForm ==
    ASSUME NEW w \in Word, ~Short(w), NEW n \in 3 .. 8, n = Width(w)
    PROVE  LongAs(VintEncode(w), w, n)
  <1>1. Fits(w, 3) => Low24(w) \in Nat
    BY Low24Inverse
  <1>2. VintEncode(w) = BigEndian(w, n)
    BY <1>1 DEF VintEncode, Short
  <1> QED BY <1>2 DEF BigEndian, LongAs

\* The lead byte tells the short forms from the long ones.
LEMMA ShortLead ==
    ASSUME NEW w \in Word, Short(w)
    PROVE  VintEncode(w)[1] \in Int /\ VintEncode(w)[1] <= 249
  <1>1. PICK v \in Nat : v = Low24(w)
    BY Low24Inverse DEF Short
  <1>2. CASE v < 241
    BY <1>1, <1>2, OneByte DEF Short
  <1>3. CASE 241 <= v /\ v < 2288
    <2>1. v - 240 \in Nat /\ v - 240 < 2048
      BY <1>3
    <2>2. (v - 240) \div 256 \in Nat /\ (v - 240) \div 256 < 8
      BY <2>1, HighAndLow
    <2>3. VintEncode(w)[1] = (v - 240) \div 256 + 241
      BY <1>1, <1>3, TwoBytes DEF Short
    <2> QED BY <2>2, <2>3
  <1>4. CASE 2288 <= v
    BY <1>1, <1>4, ThreeBytes DEF Short
  <1> QED BY <1>2, <1>3, <1>4

LEMMA EncodingBytes ==
    ASSUME NEW w \in Word
    PROVE  VintEncode(w) \in Seq(Byte) /\ Len(VintEncode(w)) > 0
  <1>1. VintEncode(w) \in Seq(Byte) /\ Len(VintEncode(w)) \in 1 .. 9
    BY EncodingTyped DEF MAX_VINT_SIZE
  <1>2. \A n \in 1 .. 9 : n > 0
    OBVIOUS
  <1> QED BY <1>1, <1>2, Zenon

\* The order of two short forms is that of their values.
LEMMA ShortFormsCompare ==
    ASSUME NEW v \in Word, NEW w \in Word, Short(v), Short(w), Low24(v) < Low24(w)
    PROVE  Before(VintEncode(v), VintEncode(w))
  <1> DEFINE s == VintEncode(v)
             t == VintEncode(w)
  <1>1. s \in Seq(Byte) /\ Len(s) > 0 /\ t \in Seq(Byte) /\ Len(t) > 0
    BY EncodingBytes
  <1>2. PICK x \in Nat, y \in Nat : x = Low24(v) /\ y = Low24(w)
    BY Low24Inverse DEF Short
  <1>3. x < y /\ y < 67824 /\ Fits(v, 3) /\ Fits(w, 3)
    BY <1>2 DEF Short
  <1>4. CASE x < 241
    <2>1. s[1] = x
      BY <1>2, <1>3, <1>4, OneByte
    <2>2. CASE y < 241
      <3>1. t[1] = y
        BY <1>2, <1>3, <2>2, OneByte
      <3> QED BY <1>1, <1>3, <2>1, <3>1, FirstByteLess
    <2>3. CASE 241 <= y /\ y < 2288
      <3>1. t[1] = (y - 240) \div 256 + 241
        BY <1>2, <1>3, <2>3, TwoBytes
      <3>2. (y - 240) \div 256 \in Nat
        BY <2>3, HighAndLow
      <3> QED BY <1>1, <1>4, <2>1, <3>1, <3>2, FirstByteLess
    <2>4. CASE 2288 <= y
      <3>1. t[1] = 249
        BY <1>2, <1>3, <2>4, ThreeBytes
      <3> QED BY <1>1, <1>4, <2>1, <3>1, FirstByteLess
    <2> QED BY <2>2, <2>3, <2>4
  <1>5. CASE 241 <= x /\ x < 2288
    <2>1. Len(s) = 2 /\ s[1] = (x - 240) \div 256 + 241 /\ s[2] = (x - 240) % 256
      BY <1>2, <1>3, <1>5, TwoBytes
    <2>2. PICK a \in Nat : a = x - 240 /\ a < 2048
      BY <1>5
    <2>3. CASE y < 2288
      <3>1. Len(t) = 2 /\ t[1] = (y - 240) \div 256 + 241 /\ t[2] = (y - 240) % 256
        BY <1>2, <1>3, <1>5, <2>3, TwoBytes
      <3>2. PICK b \in Nat : b = y - 240 /\ a < b
        BY <1>3, <1>5, <2>2
      <3>3. a \div 256 < b \div 256 \/ (a \div 256 = b \div 256 /\ a % 256 < b % 256)
        BY <3>2, QuotientsCompare
      <3>4. s[1] < t[1] \/ (s[1] = t[1] /\ s[2] < t[2])
        <4>1. a \div 256 \in Nat /\ b \div 256 \in Nat
          BY HighAndLow
        <4>2. s[1] = a \div 256 + 241 /\ t[1] = b \div 256 + 241 /\ s[2] = a % 256 /\ t[2] = b % 256
          BY <2>1, <2>2, <3>1, <3>2
        <4> HIDE DEF s, t
        <4> QED BY <3>3, <4>1, <4>2
      <3> HIDE DEF s, t
      <3>5. Len(s) > 1 /\ Len(t) > 1
        BY <2>1, <3>1
      <3>6. Before(s, t)
        BY <1>1, <3>4, <3>5, FirstByteLess, SecondByteLess
      <3> QED BY <3>6 DEF s, t
    <2>4. CASE 2288 <= y
      <3>1. t[1] = 249
        BY <1>2, <1>3, <2>4, ThreeBytes
      <3>2. a \div 256 \in Nat /\ a \div 256 < 8
        BY <2>2, HighAndLow
      <3>3. s[1] < t[1]
        BY <2>1, <2>2, <3>1, <3>2
      <3> QED BY <1>1, <3>3, FirstByteLess
    <2> QED BY <2>3, <2>4
  <1>6. CASE 2288 <= x
    <2>1. PICK a \in Nat, b \in Nat : a = x - 2288 /\ b = y - 2288 /\ a < b
      BY <1>3, <1>6
    <2>2. Len(s) = 3 /\ s[1] = 249 /\ s[2] = a \div 256 /\ s[3] = a % 256
      BY <1>2, <1>3, <1>6, <2>1, ThreeBytes
    <2>3. Len(t) = 3 /\ t[1] = 249 /\ t[2] = b \div 256 /\ t[3] = b % 256
      BY <1>2, <1>3, <1>6, <2>1, ThreeBytes
    <2>4. a \div 256 < b \div 256 \/ (a \div 256 = b \div 256 /\ a % 256 < b % 256)
      BY <2>1, QuotientsCompare
    <2> HIDE DEF s, t
    <2>5. Len(s) > 2 /\ Len(t) > 2 /\ s[1] = t[1] /\ (s[2] < t[2] \/ (s[2] = t[2] /\ s[3] < t[3]))
      BY <2>2, <2>3, <2>4
    <2>6. Before(s, t)
      BY <1>1, <2>5, SecondByteLess, ThirdByteLess
    <2> QED BY <2>6 DEF s, t
  <1> QED BY <1>4, <1>5, <1>6

\* Two long forms of one length have their integers' bytes in the integers' order.
LEMMA LongFormsCompare ==
    ASSUME NEW v \in Word, NEW w \in Word, ~Short(v), ~Short(w), NEW p \in 1 .. 8, LessAt(v, w, p)
    PROVE  Before(VintEncode(v), VintEncode(w))
  <1> DEFINE s == VintEncode(v)
             t == VintEncode(w)
  <1>1. s \in Seq(Byte) /\ Len(s) > 0 /\ t \in Seq(Byte) /\ Len(t) > 0
    BY EncodingBytes
  <1>2. PICK m \in 3 .. 8, n \in 3 .. 8 : m = Width(v) /\ n = Width(w)
    BY WidthRange
  <1>3. Fits(w, n)
    BY <1>2, WidthRange
  <1>4. p > 8 - n /\ Fits(v, n)
    BY <1>2, <1>3, LessFits
  <1>5. m <= n
    BY <1>2, <1>4, LeastWidth
  <1>6. Len(s) = m + 1 /\ s[1] = 247 + m /\ \A i \in 2 .. m + 1 : s[i] = v[7 - m + i]
    <2>1. LongAs(s, v, m)
      BY <1>2, LongForm
    <2> QED BY <2>1 DEF LongAs
  <1>7. Len(t) = n + 1 /\ t[1] = 247 + n /\ \A i \in 2 .. n + 1 : t[i] = w[7 - n + i]
    <2>1. LongAs(t, w, n)
      BY <1>2, LongForm
    <2> QED BY <2>1 DEF LongAs
  <1> HIDE DEF s, t
  <1>8. CASE m < n
    <2>1. s[1] < t[1]
      BY <1>6, <1>7, <1>8
    <2>2. Before(s, t)
      BY <1>1, <2>1, FirstByteLess
    <2> QED BY <2>2 DEF s, t
  <1>9. CASE m = n
    <2>1. PICK q \in Nat : q = p - 8 + n
      BY <1>4
    <2>2. q \in 1 .. n /\ q + 1 \in 2 .. n + 1 /\ 7 - n + (q + 1) = p
      BY <1>4, <2>1
    <2>3. s[q + 1] = v[p] /\ t[q + 1] = w[p]
      BY <1>6, <1>7, <1>9, <2>2
    <2>4. ASSUME NEW i \in 1 .. q
          PROVE  s[i] = t[i]
      <3>1. CASE i = 1
        BY <1>6, <1>7, <1>9, <3>1
      <3>2. CASE i # 1
        <4>1. PICK at \in 1 .. 8 : at = 7 - n + i /\ at < p
          BY <2>1, <2>2, <3>2
        <4>2. i \in 2 .. n + 1
          BY <2>2, <3>2
        <4>3. s[i] = v[at] /\ t[i] = w[at]
          BY <1>6, <1>7, <1>9, <4>1, <4>2
        <4> QED BY <4>1, <4>3 DEF LessAt
      <3> QED BY <3>1, <3>2
    <2>5. LessBehind(s, t, q)
      BY <1>7, <2>2, <2>3, <2>4 DEF LessBehind, LessAt
    <2>6. q \in 0 .. Len(s)
      BY <1>6, <1>9, <2>2
    <2>7. Before(s, t)
      BY <1>1, <2>5, <2>6, BeforeBehind
    <2> QED BY <2>7 DEF s, t
  <1> QED BY <1>5, <1>8, <1>9

LEMMA EncodingsKeepOrder ==
    ASSUME NEW v \in Word, NEW w \in Word, Before(v, w)
    PROVE  Before(VintEncode(v), VintEncode(w))
  <1>1. PICK p \in 1 .. 8 : LessAt(v, w, p)
    BY BeforeAtByte
  <1>2. CASE Short(w)
    <2>1. Fits(w, 3) /\ Fits(v, 3)
      BY <1>1, <1>2, LessFits DEF Short
    <2>2. Low24(v) < Low24(w)
      BY <1>1, <2>1, LessValue
    <2>3. Low24(v) \in Nat /\ Low24(w) \in Nat
      BY <2>1, Low24Inverse
    <2>4. Short(v)
      BY <1>2, <2>1, <2>2, <2>3 DEF Short
    <2> QED BY <1>2, <2>2, <2>4, ShortFormsCompare
  <1>3. CASE ~Short(w) /\ Short(v)
    <2>1. PICK n \in 3 .. 8 : n = Width(w)
      BY WidthRange
    <2>2. VintEncode(w)[1] = 247 + n
      BY <1>3, <2>1, LongForm DEF LongAs
    <2>3. VintEncode(v)[1] < VintEncode(w)[1]
      BY <1>3, <2>2, ShortLead
    <2> QED BY <2>3, EncodingBytes, FirstByteLess
  <1>4. CASE ~Short(w) /\ ~Short(v)
    BY <1>1, <1>4, LongFormsCompare
  <1> QED BY <1>2, <1>3, <1>4

\* Encodings, as byte strings, sort as the integers do that vintEncode is given: for all
\* pairs of 64-bit integers.
THEOREM EncodingsSort ==
    ASSUME NEW v \in Word, NEW w \in Word
    PROVE  Before(v, w) <=> Before(VintEncode(v), VintEncode(w))
  <1>1. ASSUME Before(VintEncode(v), VintEncode(w)), ~Before(v, w)
        PROVE  FALSE
    <2>1. VintEncode(v) \in Seq(Byte) /\ VintEncode(w) \in Seq(Byte)
      BY EncodingBytes
    <2>2. v # w
      BY <1>1, <2>1, BeforeAsymmetric
    <2>3. Before(w, v)
      BY <1>1, <2>2, WordsCompare
    <2>4. Before(VintEncode(w), VintEncode(v))
      BY <2>3, EncodingsKeepOrder
    <2> QED BY <1>1, <2>1, <2>4, BeforeAsymmetric
  <1> QED BY <1>1, EncodingsKeepOrder

-----------------------------------------------------------------------------
(***************************************************************************)
(* An identifier grows by one encoding after the other.                    *)
(***************************************************************************)
Joins(ret, words, N) ==
    ret = [n \in 0 .. N |-> IF n = 0 THEN <<>> ELSE ret[n - 1] \o VintEncode(words[n])]

LEMMA JoinsExtend ==
    ASSUME NEW ret, NEW words, NEW N \in Nat, Joins(ret, words, N)
    PROVE  \E g : Joins(g, words, N + 1)
  <1> DEFINE G(x, n) == x \o VintEncode(words[n])
  <1>1. ret = [n \in 0 .. N |-> IF n = 0 THEN <<>> ELSE G(ret[n - 1], n)]
    BY Zenon DEF Joins
  <1> HIDE DEF G
  <1> DEFINE g == [n \in 0 .. N + 1 |-> IF n = N + 1 THEN G(ret[N], N + 1) ELSE ret[n]]
  <1>2. g = [n \in 0 .. N + 1 |-> IF n = 0 THEN <<>> ELSE G(g[n - 1], n)]
    <2>1. ASSUME NEW n \in 0 .. N + 1
          PROVE  g[n] = IF n = 0 THEN <<>> ELSE G(g[n - 1], n)
      <3>1. CASE n = N + 1
        <4>1. n # 0 /\ n - 1 = N /\ N \in 0 .. N + 1 /\ N # N + 1
          BY <3>1
        <4> QED BY <3>1, <4>1
      <3>2. CASE n = 0
        BY <1>1, <3>2
      <3>3. CASE n # N + 1 /\ n # 0
        <4>1. n \in 0 .. N /\ n - 1 \in 0 .. N + 1 /\ n - 1 # N + 1
          BY <3>3
        <4>2. g[n] = ret[n] /\ g[n - 1] = ret[n - 1]
          BY <3>3, <4>1
        <4>3. ret[n] = G(ret[n - 1], n)
          BY <1>1, <3>3, <4>1
        <4> QED BY <3>3, <4>2, <4>3
      <3> QED BY <3>1, <3>2, <3>3
    <2> QED BY <2>1
  <1> HIDE DEF g
  <1>3. Joins(g, words, N + 1)
    BY <1>2, Zenon DEF G, Joins
  <1> QED BY <1>3

LEMMA JoinsExist ==
    ASSUME NEW words, NEW N \in Nat
    PROVE  \E ret : Joins(ret, words, N)
  <1> DEFINE S == {n \in Nat : \E ret : Joins(ret, words, n)}
  <1>1. 0 \in S
    <2>1. Joins([n \in 0 .. 0 |-> <<>>], words, 0)
      BY DEF Joins
    <2> QED BY <2>1
  <1>2. ASSUME NEW n \in Nat, n \in S
        PROVE  n + 1 \in S
    <2>1. PICK ret : Joins(ret, words, n)
      BY <1>2
    <2>2. \E g : Joins(g, words, n + 1)
      BY <2>1, JoinsExtend
    <2> QED BY <2>2
  <1> HIDE DEF S
  <1>3. Nat \subseteq S
    BY <1>1, <1>2, SetInduction
  <1> QED BY <1>3 DEF S

\* ret[n] is the identifier of the first n words.
Grows(ret, words) ==
    /\ ret[0] = <<>>
    /\ \A n \in 1 .. Len(words) : ret[n] = ret[n - 1] \o VintEncode(words[n])

LEMMA IdentifierGrows ==
    ASSUME NEW words \in Seq(Word)
    PROVE  \E ret : Grows(ret, words) /\ Identifier(words) = ret[Len(words)]
  <1> DEFINE N == Len(words)
             ret == CHOOSE g : Joins(g, words, N)
  <1>1. Identifier(words) = ret[N]
    BY Zenon DEF Identifier, Joins
  <1>2. Joins(ret, words, N)
    <2>1. N \in Nat
      OBVIOUS
    <2> QED BY <2>1, JoinsExist, Zenon
  <1> HIDE DEF ret
  <1>3. ret[0] = <<>> /\ \A n \in 1 .. N : ret[n] = ret[n - 1] \o VintEncode(words[n])
    <2>1. 0 \in 0 .. N /\ \A n \in 1 .. N : n \in 0 .. N /\ n # 0
      OBVIOUS
    <2> QED BY <1>2, <2>1, Zenon DEF Joins
  <1>4. Grows(ret, words)
    BY <1>3, Zenon DEF Grows
  <1> QED BY <1>1, <1>4

LEMMA GrowthTyped ==
    ASSUME NEW words \in Seq(Word), NEW ret, Grows(ret, words)
    PROVE  \A n \in 0 .. Len(words) : ret[n] \in Seq(Byte) /\ n <= Len(ret[n])
  <1> DEFINE S == {n \in Nat : n <= Len(words) => ret[n] \in Seq(Byte) /\ n <= Len(ret[n])}
  <1>1. 0 \in S
    <2>1. ret[0] = <<>>
      BY DEF Grows
    <2>2. <<>> \in Seq(Byte) /\ 0 <= Len(<<>>)
      OBVIOUS
    <2> QED BY <2>1, <2>2
  <1>2. ASSUME NEW n \in Nat, n \in S
        PROVE  n + 1 \in S
    <2> SUFFICES ASSUME n + 1 <= Len(words)
                 PROVE  ret[n + 1] \in Seq(Byte) /\ n + 1 <= Len(ret[n + 1])
      OBVIOUS
    <2>1. ret[n] \in Seq(Byte) /\ n <= Len(ret[n])
      BY <1>2
    <2>2. n + 1 \in 1 .. Len(words) /\ words[n + 1] \in Word /\ (n + 1) - 1 = n
      OBVIOUS
    <2>3. PICK e : e = VintEncode(words[n + 1]) /\ e \in Seq(Byte) /\ Len(e) > 0
      BY <2>2, EncodingBytes
    <2>4. PICK r : r = ret[n] /\ r \in Seq(Byte) /\ n <= Len(r)
      BY <2>1
    <2>5. ret[n + 1] = r \o e
      BY <2>2, <2>3, <2>4, Zenon DEF Grows
    <2>6. r \o e \in Seq(Byte) /\ n + 1 <= Len(r \o e)
      <3>1. r \o e \in Seq(Byte) /\ Len(r \o e) = Len(r) + Len(e)
        BY <2>3, <2>4
      <3>2. Len(r) \in Nat /\ Len(e) \in Nat
        BY <2>3, <2>4
      <3>3. \A x, y \in Nat : n <= x /\ y > 0 => n + 1 <= x + y
        OBVIOUS
      <3>4. n + 1 <= Len(r) + Len(e)
        BY <2>3, <2>4, <3>2, <3>3, Zenon
      <3> QED BY <3>1, <3>4, Zenon
    <2> QED BY <2>5, <2>6, Zenon
  <1> HIDE DEF S
  <1>3. Nat \subseteq S
    BY <1>1, <1>2, SetInduction
  <1> QED BY <1>3 DEF S

\* What is behind the first n words.
Rest(ret, N, n) == SubSeq(ret[N], Len(ret[n]) + 1, Len(ret[N]))

\* a is the beginning of b.
Begins(a, b) == Len(a) <= Len(b) /\ \A i \in 1 .. Len(a) : a[i] = b[i]

LEMMA GrowthKeeps ==
    ASSUME NEW words \in Seq(Word), NEW ret, Grows(ret, words),
           NEW n \in 0 .. Len(words), NEW m \in 0 .. Len(words), n <= m
    PROVE  Begins(ret[n], ret[m])
  <1> DEFINE S == {k \in Nat : n + k <= Len(words) => Begins(ret[n], ret[n + k])}
  <1>0. \A k \in 0 .. Len(words) : ret[k] \in Seq(Byte)
    BY GrowthTyped
  <1>1. 0 \in S
    <2>1. ret[n] \in Seq(Byte) /\ n + 0 = n
      BY <1>0
    <2> QED BY <2>1 DEF Begins
  <1>2. ASSUME NEW k \in Nat, k \in S
        PROVE  k + 1 \in S
    <2> SUFFICES ASSUME n + (k + 1) <= Len(words)
                 PROVE  Begins(ret[n], ret[n + (k + 1)])
      OBVIOUS
    <2>1. PICK q \in 1 .. Len(words) : q = n + (k + 1)
      OBVIOUS
    <2>2. q - 1 = n + k /\ q - 1 \in 0 .. Len(words)
      BY <2>1
    <2>3. Begins(ret[n], ret[q - 1])
      BY <1>2, <2>1, <2>2
    <2>4. words[q] \in Word
      OBVIOUS
    <2>5. PICK e : e = VintEncode(words[q]) /\ e \in Seq(Byte)
      BY <2>4, EncodingBytes
    <2>6. PICK a, b : a = ret[n] /\ b = ret[q - 1]
      OBVIOUS
    <2>7. ret[q] = b \o e
      BY <2>5, <2>6 DEF Grows
    <2>8. a \in Seq(Byte) /\ b \in Seq(Byte) /\ Begins(a, b)
      BY <1>0, <2>2, <2>3, <2>6
    <2>9. Begins(a, b \o e)
      BY <2>5, <2>8 DEF Begins
    <2> QED BY <2>1, <2>6, <2>7, <2>9
  <1> HIDE DEF S
  <1>3. Nat \subseteq S
    BY <1>1, <1>2, SetInduction
  <1>4. m - n \in Nat /\ n + (m - n) = m
    OBVIOUS
  <1>5. n + (m - n) <= Len(words) => Begins(ret[n], ret[n + (m - n)])
    BY <1>3, <1>4 DEF S
  <1> QED BY <1>4, <1>5

\* The bytes behind the first a of them: those of e, then the bytes behind e.
LEMMA SplitRest ==
    ASSUME NEW a \in Seq(Byte), NEW e \in Seq(Byte), NEW t \in Seq(Byte), Begins(a \o e, t)
    PROVE  SubSeq(t, Len(a) + 1, Len(t)) = e \o SubSeq(t, Len(a \o e) + 1, Len(t))
  <1> DEFINE l == Len(t)  x == Len(a)  y == Len(e)
             u == SubSeq(t, x + 1, l)
             r == SubSeq(t, (x + y) + 1, l)
  <1>1. /\ x \in Nat /\ y \in Nat /\ l \in Nat /\ Len(a \o e) = x + y /\ x + y <= l
        /\ Len(e) = y
    BY DEF Begins
  <1>2. \A i \in 1 .. y : t[x + i] = e[i]
    <2> SUFFICES ASSUME NEW i \in 1 .. y  PROVE t[x + i] = e[i]
      OBVIOUS
    <2>1. x + i \in 1 .. Len(a \o e) /\ (a \o e)[x + i] = e[i]
      BY <1>1
    <2> QED BY <2>1 DEF Begins
  <1>3. /\ u \in Seq(Byte) /\ Len(u) = l - x
        /\ \A i \in 1 .. l - x : u[i] = t[x + i]
    <2>1. x + 1 \in 1 .. l + 1
      BY <1>1
    <2> QED BY <1>1, <2>1
  <1>4. /\ r \in Seq(Byte) /\ Len(r) = l - (x + y)
        /\ \A i \in 1 .. l - (x + y) : r[i] = t[(x + y) + i]
    <2>1. (x + y) + 1 \in 1 .. l + 1
      BY <1>1
    <2> QED BY <1>1, <2>1
  <1> HIDE DEF u, r, l, x, y
  <1>5. e \o r \in Seq(Byte) /\ Len(e \o r) = l - x
    <2>1. e \o r \in Seq(Byte) /\ Len(e \o r) = Len(e) + Len(r)
      BY <1>4, ConcatProperties, Zenon
    <2>2. Len(e) + Len(r) = l - x
      BY <1>1, <1>4
    <2> QED BY <2>1, <2>2, Zenon
  <1>6. ASSUME NEW i \in 1 .. l - x
        PROVE  u[i] = (e \o r)[i]
    <2>1. CASE i <= y
      <3>1. i \in 1 .. Len(e) /\ i \in 1 .. y
        BY <1>1, <2>1
      <3>2. (e \o r)[i] = e[i]
        BY <1>4, <3>1
      <3> QED BY <1>2, <1>3, <3>1, <3>2, Zenon
    <2>2. CASE i > y
      <3>1. (e \o r)[i] = r[i - y] /\ i - y \in 1 .. l - (x + y)
        BY <1>1, <1>4, <2>2
      <3>2. (x + y) + (i - y) = x + i
        BY <1>1
      <3> QED BY <1>3, <1>4, <3>1, <3>2, Zenon
    <2>3. i <= y \/ i > y
      BY <1>1
    <2> QED BY <2>1, <2>2, <2>3
  <1>7. u = e \o r
    BY <1>3, <1>5, <1>6, SeqEqual
  <1> QED BY <1>1, <1>7 DEF u, r, l, x, y

-----------------------------------------------------------------------------
(***************************************************************************)
(* Reading an identifier: each turn takes the next word off the rest.      *)
(***************************************************************************)
Turn(n, N) == IF n < N THEN n ELSE N

\* What is read and what is left after n turns.
ReadState(ret, words, n) ==
    [rest |-> Rest(ret, Len(words), Turn(n, Len(words))),
     vals |-> SubSeq(words, 1, Turn(n, Len(words)))]

LEMMA RestGrows ==
    ASSUME NEW words \in Seq(Word), NEW ret, Grows(ret, words), NEW n \in Nat, n < Len(words)
    PROVE  /\ words[n + 1] \in Word
           /\ Rest(ret, Len(words), n + 1) \in Seq(Byte)
           /\ Rest(ret, Len(words), n) = VintEncode(words[n + 1]) \o Rest(ret, Len(words), n + 1)
  <1> DEFINE N == Len(words)
  <1>1. /\ n \in 0 .. N /\ n + 1 \in 1 .. N /\ n + 1 \in 0 .. N /\ N \in 0 .. N
        /\ (n + 1) - 1 = n /\ n + 1 <= N /\ words[n + 1] \in Word
    OBVIOUS
  <1>2. PICK a \in Seq(Byte), b \in Seq(Byte), t \in Seq(Byte) :
            a = ret[n] /\ b = ret[n + 1] /\ t = ret[N]
    BY <1>1, GrowthTyped, Zenon
  <1>3. PICK e \in Seq(Byte) : e = VintEncode(words[n + 1])
    BY <1>1, EncodingBytes, Zenon
  <1>4. b = a \o e
    BY <1>1, <1>2, <1>3, Zenon DEF Grows
  <1>5. Begins(a \o e, t)
    BY <1>1, <1>2, <1>4, GrowthKeeps, Zenon
  <1>6. SubSeq(t, Len(a) + 1, Len(t)) = e \o SubSeq(t, Len(a \o e) + 1, Len(t))
    BY <1>5, SplitRest, Zenon
  <1>7. /\ Rest(ret, N, n) = SubSeq(t, Len(a) + 1, Len(t))
        /\ Rest(ret, N, n + 1) = SubSeq(t, Len(a \o e) + 1, Len(t))
    BY <1>2, <1>4, Zenon DEF Rest
  <1>8. SubSeq(t, Len(a \o e) + 1, Len(t)) \in Seq(Byte)
    <2>1. Len(a \o e) \in Nat /\ Len(t) \in Nat
      OBVIOUS
    <2>2. PICK x \in Nat : x = Len(a \o e)
      BY <2>1
    <2>3. SubSeq(t, x + 1, Len(t)) \in Seq(Byte)
      BY <2>1
    <2> QED BY <2>2, <2>3, Zenon
  <1> QED BY <1>1, <1>3, <1>6, <1>7, <1>8, Zenon

LEMMA RestEnds ==
    ASSUME NEW words \in Seq(Word), NEW ret, Grows(ret, words)
    PROVE  Rest(ret, Len(words), Len(words)) = <<>>
  <1>1. Len(words) \in 0 .. Len(words)
    OBVIOUS
  <1>2. PICK t \in Seq(Byte) : t = ret[Len(words)]
    BY <1>1, GrowthTyped
  <1>3. SubSeq(t, Len(t) + 1, Len(t)) = <<>>
    OBVIOUS
  <1> QED BY <1>2, <1>3, Zenon DEF Rest

LEMMA FirstsGrow ==
    ASSUME NEW words \in Seq(Word), NEW n \in Nat, n < Len(words)
    PROVE  Append(SubSeq(words, 1, n), words[n + 1]) = SubSeq(words, 1, n + 1)
  OBVIOUS

\* Behind e is what follows e.
LEMMA DropEncoding ==
    ASSUME NEW e \in Seq(Byte), NEW r \in Seq(Byte)
    PROVE  SubSeq(e \o r, Len(e) + 1, Len(e \o r)) = r
  <1>1. /\ Len(e \o r) = Len(e) + Len(r) /\ Len(e) \in Nat /\ Len(r) \in Nat
        /\ e \o r \in Seq(Byte)
    OBVIOUS
  <1> DEFINE d == e \o r
             u == SubSeq(d, Len(e) + 1, Len(d))
  <1>2. \A i \in 1 .. Len(r) : d[Len(e) + i] = r[i]
    BY <1>1
  <1>3. d \in Seq(Byte) /\ Len(d) = Len(e) + Len(r)
    BY <1>1
  <1> HIDE DEF d
  <1>4. Len(e) + 1 \in 1 .. Len(d) + 1
    BY <1>1, <1>3
  <1>5. u \in Seq(Byte) /\ Len(u) = Len(r) /\ \A i \in 1 .. Len(r) : u[i] = d[Len(e) + i]
    BY <1>1, <1>3, <1>4
  <1> HIDE DEF u
  <1>6. u = r
    BY <1>2, <1>5, SeqEqual
  <1> QED BY <1>6 DEF u, d

LEMMA ReadOne ==
    ASSUME NEW words \in Seq(Word), NEW ret, Grows(ret, words), NEW n \in Nat
    PROVE  ReadVarint(ReadState(ret, words, n)) = ReadState(ret, words, n + 1)
  <1> DEFINE N == Len(words)
  <1>1. CASE n < N
    <2>1. Turn(n, N) = n /\ Turn(n + 1, N) = n + 1
      BY <1>1 DEF Turn
    <2>2. PICK r : r = Rest(ret, N, n + 1)
      OBVIOUS
    <2>3. PICK w, e : w = words[n + 1] /\ e = VintEncode(w)
      OBVIOUS
    <2>4. w \in Word /\ r \in Seq(Byte) /\ Rest(ret, N, n) = e \o r
      BY <1>1, <2>2, <2>3, RestGrows
    <2>5. e \in Seq(Byte) /\ Len(e) > 0
      BY <2>3, <2>4, EncodingBytes
    <2>6. VintDecode(e \o r) = [val |-> w, len |-> Len(e)]
      BY <2>3, <2>4, RoundTrip, Zenon
    <2>7. e \o r # <<>>
      BY <2>4, <2>5
    <2>8. SubSeq(e \o r, Len(e) + 1, Len(e \o r)) = r
      BY <2>4, <2>5, DropEncoding
    <2>9. Append(SubSeq(words, 1, n), w) = SubSeq(words, 1, n + 1)
      BY <1>1, <2>3, FirstsGrow
    <2>10. PICK f : f = SubSeq(words, 1, n)
      OBVIOUS
    <2>11. PICK b : b = e \o r
      OBVIOUS
    <2>12. ReadState(ret, words, n) = [rest |-> b, vals |-> f]
      BY <2>1, <2>4, <2>10, <2>11, Zenon DEF ReadState
    <2>13. ReadState(ret, words, n + 1) = [rest |-> r, vals |-> Append(f, w)]
      BY <2>1, <2>2, <2>9, <2>10, Zenon DEF ReadState
    <2>14. PICK s : s = [rest |-> b, vals |-> f]
      OBVIOUS
    <2>15. s.rest = b /\ s.vals = f
      BY <2>14
    <2>16. PICK d : d = VintDecode(s.rest)
      OBVIOUS
    <2>17. d.val = w /\ d.len = Len(e)
      <3>1. d = [val |-> w, len |-> Len(e)]
        BY <2>6, <2>11, <2>15, <2>16, Zenon
      <3> QED BY <3>1
    <2>18. ReadVarint(s) = [rest |-> SubSeq(b, d.len + 1, Len(b)), vals |-> Append(f, d.val)]
      BY <2>7, <2>11, <2>15, <2>16, Zenon DEF ReadVarint
    <2>19. ReadVarint(s) = [rest |-> r, vals |-> Append(f, w)]
      BY <2>8, <2>11, <2>17, <2>18, Zenon
    <2> QED BY <2>12, <2>13, <2>14, <2>19, Zenon
  <1>2. CASE ~(n < N)
    <2>1. Turn(n, N) = N /\ Turn(n + 1, N) = N
      BY <1>2 DEF Turn
    <2>2. ReadState(ret, words, n) = ReadState(ret, words, n + 1)
      BY <2>1, Zenon DEF ReadState
    <2>3. PICK s : s = ReadState(ret, words, n)
      OBVIOUS
    <2>4. s.rest = <<>>
      BY <2>1, <2>3, RestEnds DEF ReadState
    <2>5. ReadVarint(s) = s
      BY <2>4, Zenon DEF ReadVarint
    <2> QED BY <2>2, <2>3, <2>5, Zenon
  <1> QED BY <1>1, <1>2

ReadsBytes(after, bytes) ==
    after = [n \in 0 .. Len(bytes) |->
                IF n = 0 THEN [rest |-> bytes, vals |-> <<>>] ELSE ReadVarint(after[n - 1])]

\* What is read from an identifier are the integers that were appended to it, whatever
\* integers of 64 bits they are, and however many.
THEOREM IdentifierReadsBack ==
    ASSUME NEW words \in Seq(Word)
    PROVE  ReadVarints(Identifier(words)) = words
  <1> DEFINE N == Len(words)
  <1>1. PICK ret : Grows(ret, words) /\ Identifier(words) = ret[N]
    BY IdentifierGrows
  <1>2. PICK bytes : bytes = Identifier(words)
    OBVIOUS
  <1>3. bytes \in Seq(Byte) /\ Len(bytes) \in Nat /\ N \in Nat /\ N <= Len(bytes)
    <2>1. N \in 0 .. N /\ N \in Nat
      OBVIOUS
    <2>2. ret[N] \in Seq(Byte) /\ N <= Len(ret[N])
      BY <1>1, <2>1, GrowthTyped
    <2>3. bytes \in Seq(Byte) /\ N <= Len(bytes)
      BY <1>1, <1>2, <2>2, Zenon
    <2>4. Len(bytes) \in Nat
      BY <2>3
    <2> QED BY <2>1, <2>3, <2>4
  <1> DEFINE S(n) == ReadState(ret, words, n)
             L == Len(bytes)
  <1>4. S(0) = [rest |-> bytes, vals |-> <<>>]
    <2>1. Turn(0, N) = 0
      BY <1>3 DEF Turn
    <2>2. SubSeq(words, 1, 0) = <<>>
      OBVIOUS
    <2>3. Rest(ret, N, 0) = bytes
      <3>1. Rest(ret, N, 0) = SubSeq(bytes, Len(<<>>) + 1, Len(bytes))
        BY <1>1, <1>2, Zenon DEF Rest, Grows
      <3>2. SubSeq(bytes, Len(<<>>) + 1, Len(bytes)) = bytes
        BY <1>3
      <3> QED BY <3>1, <3>2, Zenon
    <2> QED BY <2>1, <2>2, <2>3, Zenon DEF ReadState
  <1>5. \A n \in Nat : ReadVarint(S(n)) = S(n + 1)
    BY <1>1, ReadOne, Zenon
  <1>6. S(L).vals = words
    <2>1. Turn(L, N) = N
      BY <1>3 DEF Turn
    <2>2. SubSeq(words, 1, N) = words
      OBVIOUS
    <2>3. S(L).vals = SubSeq(words, 1, Turn(L, N))
      BY DEF ReadState
    <2> QED BY <2>1, <2>2, <2>3, Zenon
  <1> HIDE DEF S, N, L
  <1> DEFINE after == CHOOSE g : ReadsBytes(g, bytes)
  <1>7. ReadVarints(bytes) = after[L].vals
    BY Zenon DEF ReadVarints, ReadsBytes, L
  <1>8. ReadsBytes(after, bytes)
    <2> DEFINE f == [n \in 0 .. L |-> S(n)]
    <2>1. ASSUME NEW n \in 0 .. L
          PROVE  f[n] = IF n = 0 THEN [rest |-> bytes, vals |-> <<>>] ELSE ReadVarint(f[n - 1])
      <3>1. CASE n = 0
        BY <1>4, <3>1
      <3>2. CASE n # 0
        <4>1. PICK m \in Nat : m = n - 1 /\ m + 1 = n /\ m \in 0 .. L
          BY <1>3, <3>2 DEF L
        <4>2. f[n] = S(m + 1) /\ f[m] = S(m)
          BY <4>1, Zenon
        <4> QED BY <1>5, <3>2, <4>1, <4>2, Zenon
      <3> QED BY <3>1, <3>2
    <2>2. f = [n \in 0 .. L |-> IF n = 0 THEN [rest |-> bytes, vals |-> <<>>] ELSE ReadVarint(f[n - 1])]
      BY <2>1, Zenon
    <2> HIDE DEF f
    <2>3. ReadsBytes(f, bytes)
      BY <2>2, Zenon DEF ReadsBytes, L
    <2> QED BY <2>3, Zenon
  <1> HIDE DEF after
  <1>9. /\ 0 \in 0 .. L => after[0] = [rest |-> bytes, vals |-> <<>>]
        /\ \A n \in 0 .. L : n # 0 => after[n] = ReadVarint(after[n - 1])
    BY <1>8, Zenon DEF ReadsBytes, L
  <1> DEFINE I == {n \in Nat : n <= L => after[n] = S(n)}
  <1>10. 0 \in I
    <2>1. 0 \in 0 .. L
      BY <1>3 DEF L
    <2>2. after[0] = S(0)
      BY <1>4, <1>9, <2>1, Zenon
    <2> QED BY <2>2
  <1>11. ASSUME NEW n \in Nat, n \in I
         PROVE  n + 1 \in I
    <2> SUFFICES ASSUME n + 1 <= L  PROVE after[n + 1] = S(n + 1)
      OBVIOUS
    <2>1. n + 1 \in 0 .. L /\ n + 1 # 0 /\ (n + 1) - 1 = n /\ n <= L
      BY <1>3 DEF L
    <2>2. after[n] = S(n)
      BY <1>11, <2>1
    <2> QED BY <1>5, <1>9, <2>1, <2>2, Zenon
  <1> HIDE DEF I
  <1>12. Nat \subseteq I
    BY <1>10, <1>11, SetInduction
  <1>13. after[L] = S(L)
    <2>1. L \in Nat /\ L <= L
      BY <1>3 DEF L
    <2> QED BY <1>12, <2>1 DEF I
  <1> QED BY <1>2, <1>6, <1>7, <1>13, Zenon

\* So two sequences of integers never make the same identifier.
THEOREM IdentifiersDiffer ==
    ASSUME NEW a \in Seq(Word), NEW b \in Seq(Word), Identifier(a) = Identifier(b)
    PROVE  a = b
  <1>1. ReadVarints(Identifier(a)) = a /\ ReadVarints(Identifier(b)) = b
    BY IdentifierReadsBack
  <1> QED BY <1>1, Zenon

-----------------------------------------------------------------------------
(***************************************************************************)
(* The digits of a fraction.                                               *)
(***************************************************************************)
\* The i-th digit behind the point, and the value of the first i digits.
DigitOf(n, i) == (n \div Worth[i]) % 10

ValueOf(n, i) == IF i = 0 THEN 0 ELSE n \div Worth[i]

LEMMA EightDigits == \A i \in 1 .. 8 : i = 1 \/ i = 2 \/ i = 3 \/ i = 4 \/ i = 5 \/ i = 6 \/ i = 7 \/ i = 8
  OBVIOUS

LEMMA WorthsAre ==
    /\ Worth[1] = 10000000 /\ Worth[2] = 1000000 /\ Worth[3] = 100000 /\ Worth[4] = 10000
    /\ Worth[5] = 1000 /\ Worth[6] = 100 /\ Worth[7] = 10 /\ Worth[8] = 1
  BY SMT DEF Worth

\* The numbers that eight digits have.
Digits8(n) == n \in Nat /\ n < 100000000

LEMMA DigitsTyped ==
    ASSUME NEW n \in Nat, NEW i \in 1 .. 8
    PROVE  DigitOf(n, i) \in 0 .. 9
  <1>1. \A m \in Nat : m % 10 \in 0 .. 9
    OBVIOUS
  <1>2. n \div Worth[i] \in Nat
    BY EightDigits, WorthsAre, SMT
  <1> QED BY <1>1, <1>2, Zenon DEF DigitOf

\* Another digit is worth a tenth of the one before it.
LEMMA NextDigit ==
    ASSUME NEW n, Digits8(n), NEW i \in 1 .. 8
    PROVE  ValueOf(n, i) = 10 * ValueOf(n, i - 1) + DigitOf(n, i)
  <1>1. /\ n \div 10000000 = 10 * 0 + ((n \div 10000000) % 10)
        /\ n \div 1000000 = 10 * (n \div 10000000) + ((n \div 1000000) % 10)
        /\ n \div 100000 = 10 * (n \div 1000000) + ((n \div 100000) % 10)
        /\ n \div 10000 = 10 * (n \div 100000) + ((n \div 10000) % 10)
        /\ n \div 1000 = 10 * (n \div 10000) + ((n \div 1000) % 10)
        /\ n \div 100 = 10 * (n \div 1000) + ((n \div 100) % 10)
        /\ n \div 10 = 10 * (n \div 100) + ((n \div 10) % 10)
        /\ n \div 1 = 10 * (n \div 10) + ((n \div 1) % 10)
    BY SMT DEF Digits8
  <1>2. ValueOf(n, 1) = 10 * ValueOf(n, 0) + DigitOf(n, 1)
    BY <1>1, WorthsAre, SMT DEF ValueOf, DigitOf
  <1>3. ValueOf(n, 2) = 10 * ValueOf(n, 1) + DigitOf(n, 2)
    BY <1>1, WorthsAre, SMT DEF ValueOf, DigitOf
  <1>4. ValueOf(n, 3) = 10 * ValueOf(n, 2) + DigitOf(n, 3)
    BY <1>1, WorthsAre, SMT DEF ValueOf, DigitOf
  <1>5. ValueOf(n, 4) = 10 * ValueOf(n, 3) + DigitOf(n, 4)
    BY <1>1, WorthsAre, SMT DEF ValueOf, DigitOf
  <1>6. ValueOf(n, 5) = 10 * ValueOf(n, 4) + DigitOf(n, 5)
    BY <1>1, WorthsAre, SMT DEF ValueOf, DigitOf
  <1>7. ValueOf(n, 6) = 10 * ValueOf(n, 5) + DigitOf(n, 6)
    BY <1>1, WorthsAre, SMT DEF ValueOf, DigitOf
  <1>8. ValueOf(n, 7) = 10 * ValueOf(n, 6) + DigitOf(n, 7)
    BY <1>1, WorthsAre, SMT DEF ValueOf, DigitOf
  <1>9. ValueOf(n, 8) = 10 * ValueOf(n, 7) + DigitOf(n, 8)
    BY <1>1, WorthsAre, SMT DEF ValueOf, DigitOf
  <1> HIDE <1>1
  <1> QED BY <1>2, <1>3, <1>4, <1>5, <1>6, <1>7, <1>8, <1>9, EightDigits

LEMMA AllDigits ==
    ASSUME NEW n, Digits8(n)
    PROVE  ValueOf(n, 0) = 0 /\ ValueOf(n, 8) = n
  <1>1. n \div 1 = n
    BY SMT DEF Digits8
  <1>2. ValueOf(n, 8) = n
    BY <1>1, WorthsAre, SMT DEF ValueOf
  <1>3. ValueOf(n, 0) = 0
    BY DEF ValueOf
  <1> QED BY <1>2, <1>3

\* A number whose digits are all zero is zero.
LEMMA SomeDigit ==
    ASSUME NEW n, Digits8(n), n # 0
    PROVE  \E i \in 1 .. 8 : DigitOf(n, i) # 0
  <1> SUFFICES ASSUME \A i \in 1 .. 8 : DigitOf(n, i) = 0
               PROVE  FALSE
    OBVIOUS
  <1> DEFINE S == {i \in Nat : i <= 8 => ValueOf(n, i) = 0}
  <1>1. 0 \in S
    BY DEF ValueOf
  <1>2. ASSUME NEW i \in Nat, i \in S
        PROVE  i + 1 \in S
    <2> SUFFICES ASSUME i + 1 <= 8  PROVE ValueOf(n, i + 1) = 0
      OBVIOUS
    <2>1. i + 1 \in 1 .. 8 /\ (i + 1) - 1 = i /\ i <= 8
      OBVIOUS
    <2>2. ValueOf(n, i) = 0
      BY <1>2, <2>1
    <2>3. ValueOf(n, i + 1) = 10 * ValueOf(n, (i + 1) - 1) + DigitOf(n, i + 1)
      BY <2>1, NextDigit, Zenon
    <2>4. DigitOf(n, i + 1) = 0
      BY <2>1
    <2>5. ValueOf(n, i + 1) = 10 * 0 + 0
      BY <2>1, <2>2, <2>3, <2>4, Zenon
    <2> QED BY <2>5
  <1> HIDE DEF S
  <1>3. Nat \subseteq S
    BY <1>1, <1>2, SetInduction
  <1>4. ValueOf(n, 8) = 0
    BY <1>3 DEF S
  <1>5. ValueOf(n, 8) = n
    BY AllDigits
  <1> QED BY <1>4, <1>5

\* A digit or the point.
Character == 0 .. 10

LEMMA CharacterRange == \A c : c \in Character <=> c \in Int /\ 0 <= c /\ c <= 10
  BY DEF Character

\* t is the point and the digits of n up to the last that is not zero.
FractionText(t, n) ==
    /\ Len(t) \in 2 .. 9 /\ t \in Seq(Character) /\ t[1] = Point /\ t[Len(t)] # 0
    /\ \A i \in 1 .. 8 : i < Len(t) => t[i + 1] = DigitOf(n, i)
    /\ \A i \in 1 .. 8 : ~(i < Len(t)) => DigitOf(n, i) = 0

LEMMA FractionTextIs ==
    ASSUME NEW n, Digits8(n), n # 0
    PROVE  FractionText(eraseZeroes(Tail(Fixed(n))), n)
  <1> DEFINE digits == [i \in 1 .. 8 |-> DigitOf(n, i)]
             frac == Tail(Fixed(n))
  <1>0. n \in Nat
    BY SMT DEF Digits8
  <1>1. \A i \in 1 .. 8 : DigitOf(n, i) \in 0 .. 9
    BY <1>0, DigitsTyped
  <1>2. PICK d \in Seq(Character) : d = digits /\ Len(d) = 8 /\ \A i \in 1 .. 8 : d[i] = DigitOf(n, i)
    <2>1. \A i \in 1 .. 8 : DigitOf(n, i) \in Character
      BY <1>1, CharacterRange
    <2>2. digits \in Seq(Character)
      BY <2>1
    <2>3. Len(digits) = 8
      OBVIOUS
    <2>4. \A i \in 1 .. 8 : digits[i] = DigitOf(n, i)
      OBVIOUS
    <2> QED BY <2>2, <2>3, <2>4, Zenon
  <1>3. PICK c \in Nat : Fixed(n) = <<c, Point>> \o d
    <2>1. n \div (10 * Worth[1]) \in Nat
      BY <1>0, WorthsAre, SMT
    <2>2. Fixed(n) = <<n \div (10 * Worth[1]), Point>> \o digits
      BY Zenon DEF Fixed, DigitOf, Precision
    <2> QED BY <1>2, <2>1, <2>2, Zenon
  <1>4. PICK f \in Seq(Character) : /\ f = frac /\ Len(f) = 9 /\ f[1] = Point
                                  /\ \A i \in 1 .. 8 : f[i + 1] = DigitOf(n, i)
    <2>1. Tail(<<c, Point>> \o d) = <<Point>> \o d
      BY <1>2 DEF Point
    <2>2. <<Point>> \o d \in Seq(Character)
      <3>1. Point \in Character
        BY CharacterRange DEF Point
      <3>2. <<Point>> \in Seq(Character)
        BY <3>1
      <3> QED BY <3>2
    <2>3. Len(<<Point>> \o d) = 9 /\ (<<Point>> \o d)[1] = Point
      BY <1>2 DEF Point
    <2>4. \A i \in 1 .. 8 : (<<Point>> \o d)[i + 1] = DigitOf(n, i)
      BY <1>2 DEF Point
    <2> QED BY <1>3, <2>1, <2>2, <2>3, <2>4, Zenon
  <1> HIDE DEF frac, digits
  <1> DEFINE Stops(z) == /\ z = 1 \/ f[z] # 0
                         /\ \A i \in z + 1 .. Len(f) : f[i] = 0
  <1>5. \E z \in DOMAIN f : Stops(z)
    <2> DEFINE T == {k \in Nat : \E i \in 1 .. 8 : k = 8 - i /\ DigitOf(n, i) # 0}
    <2>1. T # {} /\ T \in SUBSET Nat
      <3>1. PICK i \in 1 .. 8 : DigitOf(n, i) # 0
        BY SomeDigit
      <3>2. 8 - i \in T
        BY <3>1
      <3> QED BY <3>2
    <2>2. PICK k \in T : \A y \in T : k <= y
      BY <2>1, Least
    <2>3. PICK i \in 1 .. 8 : k = 8 - i /\ DigitOf(n, i) # 0
      BY <2>2
    <2>4. \A q \in 1 .. 8 : q > i => DigitOf(n, q) = 0
      <3> SUFFICES ASSUME NEW q \in 1 .. 8, q > i, DigitOf(n, q) # 0
                   PROVE  FALSE
        OBVIOUS
      <3>1. 8 - q \in T
        OBVIOUS
      <3>2. k <= 8 - q
        BY <2>2, <3>1
      <3> QED BY <2>3, <3>2
    <2> HIDE DEF T
    <2>5. i + 1 \in DOMAIN f /\ f[i + 1] # 0
      BY <1>4, <2>3
    <2>6. ASSUME NEW q \in (i + 1) + 1 .. Len(f)
          PROVE  f[q] = 0
      <3>1. PICK m \in 1 .. 8 : q = m + 1 /\ m > i
        <4>1. q - 1 \in 1 .. 8 /\ q = (q - 1) + 1 /\ q - 1 > i
          BY <1>4
        <4> QED BY <4>1
      <3> QED BY <1>4, <2>4, <3>1
    <2>7. Stops(i + 1)
      BY <2>5, <2>6
    <2> QED BY <2>5, <2>7
  <1>6. zeroItr(f) \in DOMAIN f /\ Stops(zeroItr(f))
    BY <1>5, Zenon DEF zeroItr
  <1>7. PICK z \in 1 .. 9 : z = zeroItr(f) /\ Stops(z)
    BY <1>4, <1>6
  <1>8. z # 1
    <2> SUFFICES ASSUME z = 1  PROVE FALSE
      OBVIOUS
    <2>1. PICK i \in 1 .. 8 : DigitOf(n, i) # 0
      BY SomeDigit
    <2>2. i + 1 \in z + 1 .. Len(f)
      BY <1>4
    <2>3. f[i + 1] = 0
      BY <1>7, <2>2
    <2> QED BY <1>4, <2>1, <2>3
  <1>9. PICK t : t = SubSeq(f, 1, z)
    OBVIOUS
  <1>10. /\ t \in Seq(Character) /\ Len(t) = z
         /\ \A i \in 1 .. z : t[i] = f[i]
    <2>1. Len(f) = 9
      BY <1>4
    <2>2. SubSeq(f, 1, z) \in Seq(Character)
      <3>1. \A i \in 1 .. z : f[i] \in Character
        <4>1. \A i \in 1 .. z : i \in 1 .. Len(f)
          BY <2>1
        <4> QED BY <4>1, ElementOfSeq, Zenon
      <3>2. 1 \in Int /\ z \in Int
        OBVIOUS
      <3> QED BY <3>1, <3>2, SubSeqProperties, Zenon
    <2>3. Len(SubSeq(f, 1, z)) = z /\ \A i \in 1 .. z : SubSeq(f, 1, z)[i] = f[i]
      BY <2>1, SMT
    <2> QED BY <1>9, <2>2, <2>3, Zenon
  <1>11. FractionText(t, n)
    <2>1. Len(t) \in 2 .. 9 /\ t[1] = Point /\ t[Len(t)] # 0
      <3>1. z \in 2 .. 9 /\ 1 \in 1 .. z /\ z \in 1 .. z
        BY <1>8
      <3>2. f[z] # 0
        BY <1>7, <1>8
      <3> QED BY <1>4, <1>10, <3>1, <3>2, Zenon
    <2>2. ASSUME NEW i \in 1 .. 8, i < Len(t)
          PROVE  t[i + 1] = DigitOf(n, i)
      BY <1>4, <1>10, <2>2
    <2>3. ASSUME NEW i \in 1 .. 8, ~(i < Len(t))
          PROVE  DigitOf(n, i) = 0
      <3>1. i + 1 \in z + 1 .. Len(f)
        BY <1>4, <1>10, <2>3
      <3>2. f[i + 1] = 0
        BY <1>7, <3>1
      <3> QED BY <1>4, <3>2
    <2> QED BY <1>10, <2>1, <2>2, <2>3 DEF FractionText
  <1>12. eraseZeroes(Tail(Fixed(n))) = t
    BY <1>4, <1>7, <1>9, Zenon DEF eraseZeroes, frac
  <1> QED BY <1>11, <1>12, Zenon

-----------------------------------------------------------------------------
(***************************************************************************)
(* What a line says once a field has been converted.                       *)
(***************************************************************************)
\* The value of n digits, as ReadUnits counts it, of a fraction t.
Counts(units, t) ==
    units = [n \in 0 .. Precision |->
                IF n = 0 THEN 0 ELSE 10 * units[n - 1] + (IF n < Len(t) THEN t[n + 1] ELSE 0)]

LEMMA FractionCounted ==
    ASSUME NEW t, NEW n, Digits8(n), FractionText(t, n)
    PROVE  (CHOOSE units : Counts(units, t))[Precision] = n
  <1>1. \A i \in 1 .. 8 : (IF i < Len(t) THEN t[i + 1] ELSE 0) = DigitOf(n, i)
    BY Zenon DEF FractionText
  <1>2. 0 .. Precision = 0 .. 8
    BY DEF Precision
  <1>3. Counts([i \in 0 .. 8 |-> ValueOf(n, i)], t)
    <2> DEFINE f == [i \in 0 .. 8 |-> ValueOf(n, i)]
    <2>1. ASSUME NEW i \in 0 .. 8
          PROVE  f[i] = IF i = 0 THEN 0 ELSE 10 * f[i - 1] + (IF i < Len(t) THEN t[i + 1] ELSE 0)
      <3>1. CASE i = 0
        BY <3>1 DEF ValueOf
      <3>2. CASE i # 0
        <4>1. i \in 1 .. 8 /\ i - 1 \in 0 .. 8
          BY <3>2
        <4>2. f[i] = 10 * ValueOf(n, i - 1) + DigitOf(n, i)
          BY <4>1, NextDigit, Zenon
        <4>3. f[i - 1] = ValueOf(n, i - 1)
          BY <4>1, Zenon
        <4> QED BY <1>1, <3>2, <4>1, <4>2, <4>3, Zenon
      <3> QED BY <3>1, <3>2
    <2>2. f = [i \in 0 .. 8 |-> IF i = 0 THEN 0
                                ELSE 10 * f[i - 1] + (IF i < Len(t) THEN t[i + 1] ELSE 0)]
      BY <2>1, Zenon
    <2> HIDE DEF f
    <2>3. Counts(f, t)
      BY <1>2, <2>2, Zenon DEF Counts
    <2> QED BY <2>3 DEF f
  <1> DEFINE units == CHOOSE u : Counts(u, t)
  <1>4. Counts(units, t)
    BY <1>3, Zenon
  <1> HIDE DEF units
  <1>5. \A i \in 0 .. 8 : units[i] = IF i = 0 THEN 0
                                     ELSE 10 * units[i - 1] + (IF i < Len(t) THEN t[i + 1] ELSE 0)
    BY <1>2, <1>4, Zenon DEF Counts
  <1> DEFINE S == {i \in Nat : i <= 8 => units[i] = ValueOf(n, i)}
  <1>6. 0 \in S
    <2>1. 0 \in 0 .. 8
      OBVIOUS
    <2>2. units[0] = 0
      BY <1>5, <2>1, Zenon
    <2> QED BY <2>2 DEF ValueOf
  <1>7. ASSUME NEW i \in Nat, i \in S
        PROVE  i + 1 \in S
    <2> SUFFICES ASSUME i + 1 <= 8  PROVE units[i + 1] = ValueOf(n, i + 1)
      OBVIOUS
    <2>1. i + 1 \in 0 .. 8 /\ i + 1 \in 1 .. 8 /\ i + 1 # 0 /\ (i + 1) - 1 = i /\ i <= 8
      OBVIOUS
    <2>2. units[i] = ValueOf(n, i)
      BY <1>7, <2>1
    <2>3. units[i + 1] = 10 * ValueOf(n, i) + DigitOf(n, i + 1)
      BY <1>1, <1>5, <2>1, <2>2, Zenon
    <2>4. ValueOf(n, i + 1) = 10 * ValueOf(n, (i + 1) - 1) + DigitOf(n, i + 1)
      BY <2>1, NextDigit, Zenon
    <2> QED BY <2>1, <2>3, <2>4, Zenon
  <1> HIDE DEF S
  <1>8. Nat \subseteq S
    BY <1>6, <1>7, SetInduction
  <1>9. units[8] = ValueOf(n, 8)
    BY <1>8 DEF S
  <1>10. units[8] = n
    BY <1>9, AllDigits, Zenon
  <1> QED BY <1>10 DEF units, Precision

\* The nanoseconds that print as a fraction other than nothing.
Between(ns) == ns > 5 /\ ns < 999999995

\* The fraction of a time is the text of a number of eight digits at most ten nanoseconds'
\* half away.
LEMMA FractionPrinted ==
    ASSUME NEW ns \in Nat, Between(ns), NEW t \in formatTimestamp(ns)
    PROVE  \E n : Digits8(n) /\ n # 0 /\ 10 * n - ns \in -5 .. 5 /\ FractionText(t, n)
  <1>1. ns # 0
    BY SMT DEF Between
  <1>2. PICK n \in Rounded(ns) : t = eraseZeroes(Tail(Fixed(n)))
    BY <1>1, Zenon DEF formatTimestamp
  <1>3. n \in Int /\ 10 * n - ns \in -5 .. 5
    BY <1>2, SMT DEF Rounded
  <1>4. Digits8(n) /\ n # 0
    BY <1>3, SMT DEF Digits8, Between
  <1>5. FractionText(t, n)
    BY <1>2, <1>4, FractionTextIs, Zenon
  <1> QED BY <1>3, <1>4, <1>5, Zenon

LEMMA FractionFits ==
    ASSUME NEW t, NEW n, Digits8(n), FractionText(t, n)
    PROVE  /\ Head(t) = Point
           /\ Point \notin {Tail(t)[i] : i \in DOMAIN Tail(t)}
           /\ t[Len(t)] \in 1 .. 9
  <1>0. n \in Nat
    BY SMT DEF Digits8
  <1>1. /\ t \in Seq(Character) /\ Len(t) \in 2 .. 9 /\ t[1] = Point /\ t[Len(t)] # 0
        /\ \A i \in 1 .. 8 : i < Len(t) => t[i + 1] = DigitOf(n, i)
    BY Zenon DEF FractionText
  <1>2. \A i \in 1 .. 8 : i < Len(t) => t[i + 1] \in 0 .. 9
    BY <1>0, <1>1, DigitsTyped, Zenon
  <1>3. Head(t) = Point
    BY <1>1
  <1>4. DOMAIN Tail(t) = 1 .. Len(t) - 1 /\ \A i \in 1 .. Len(t) - 1 : Tail(t)[i] = t[i + 1]
    BY <1>1
  <1>5. ASSUME NEW i \in DOMAIN Tail(t)
        PROVE  Tail(t)[i] # Point
    <2>1. i \in 1 .. Len(t) - 1 /\ i \in 1 .. 8 /\ i < Len(t)
      <3>1. i \in 1 .. Len(t) - 1
        BY <1>4, Zenon
      <3>2. PICK l \in 2 .. 9 : l = Len(t)
        BY <1>1, Zenon
      <3>3. i \in 1 .. l - 1
        BY <3>1, <3>2, Zenon
      <3>4. i \in 1 .. 8 /\ i < l
        BY <3>3
      <3> QED BY <3>1, <3>2, <3>4, Zenon
    <2>2. Tail(t)[i] = t[i + 1] /\ t[i + 1] \in 0 .. 9
      BY <1>2, <1>4, <2>1, Zenon
    <2>3. Point \notin 0 .. 9
      BY DEF Point
    <2> QED BY <2>2, <2>3, Zenon
  <1>6. t[Len(t)] \in 1 .. 9
    <2>1. PICK i \in 1 .. 8 : i + 1 = Len(t)
      <3>1. Len(t) - 1 \in 1 .. 8 /\ (Len(t) - 1) + 1 = Len(t)
        BY <1>1
      <3> QED BY <3>1
    <2>2. t[i + 1] \in 0 .. 9 /\ t[i + 1] # 0
      <3>1. i < Len(t)
        BY <2>1
      <3> QED BY <1>1, <1>2, <2>1, <3>1, Zenon
    <2>3. t[i + 1] \in 1 .. 9
      BY <2>2
    <2> QED BY <2>1, <2>3, Zenon
  <1> QED BY <1>3, <1>5, <1>6, Zenon

-----------------------------------------------------------------------------
(***************************************************************************)
(* Hexadecimal ids: the digits of a number, and what a stringstream makes  *)
(* of them.                                                                *)
(***************************************************************************)
Hex == 0 .. 15

\* f is the recursive function of Digits in hex, for the numbers up to N.
DigitsOf(f, N) ==
    f = [m \in 0 .. N |-> IF m < 16 THEN <<m>> ELSE Append(f[m \div 16], m % 16)]

LEMMA DigitsExtend ==
    ASSUME NEW N \in Nat, NEW f, DigitsOf(f, N)
    PROVE  \E g : DigitsOf(g, N + 1)
  <1> DEFINE g == [m \in 0 .. N + 1 |->
                      IF m = N + 1 THEN (IF m < 16 THEN <<m>> ELSE Append(f[m \div 16], m % 16)) ELSE f[m]]
             F(m) == IF m < 16 THEN <<m>> ELSE Append(g[m \div 16], m % 16)
             E(m) == IF m < 16 THEN <<m>> ELSE Append(f[m \div 16], m % 16)
  <1>1. ASSUME NEW m \in 0 .. N + 1
        PROVE  g[m] = F(m)
    <2>1. m >= 16 => m \div 16 \in 0 .. N + 1 /\ m \div 16 # N + 1
      OBVIOUS
    <2>2. m >= 16 => g[m \div 16] = f[m \div 16]
      BY <2>1
    <2>3. ~(m < 16) => m >= 16
      OBVIOUS
    <2>4. g[m] = E(m)
      <3>1. CASE m = N + 1
        BY <3>1
      <3>2. CASE m # N + 1
        <4>1. m \in 0 .. N
          BY <3>2
        <4>2. f = [k \in 0 .. N |-> E(k)]
          BY Zenon DEF DigitsOf
        <4>3. g[m] = f[m]
          BY <3>2
        <4> HIDE DEF E, g
        <4>4. f[m] = E(m)
          BY <4>1, <4>2
        <4> QED BY <4>3, <4>4
      <3> QED BY <3>1, <3>2
    <2> HIDE DEF g
    <2> QED BY <2>2, <2>3, <2>4, Zenon
  <1>2. g = [m \in 0 .. N + 1 |-> g[m]]
    OBVIOUS
  <1> HIDE DEF g
  <1>3. g = [m \in 0 .. N + 1 |-> F(m)]
    <2> HIDE DEF F
    <2> QED BY <1>1, <1>2
  <1>4. DigitsOf(g, N + 1)
    BY <1>3, Zenon DEF DigitsOf
  <1> QED BY <1>4, Zenon

LEMMA DigitsExist ==
    ASSUME NEW N \in Nat
    PROVE  \E f : DigitsOf(f, N)
  <1> DEFINE S == {n \in Nat : \E f : DigitsOf(f, n)}
  <1>1. 0 \in S
    <2> DEFINE f == [m \in 0 .. 0 |-> <<m>>]
               F(m) == IF m < 16 THEN <<m>> ELSE Append(f[m \div 16], m % 16)
    <2>1. \A m \in 0 .. 0 : F(m) = <<m>>
      OBVIOUS
    <2> HIDE DEF F
    <2>2. f = [m \in 0 .. 0 |-> F(m)]
      BY <2>1
    <2>3. DigitsOf(f, 0)
      <3> HIDE DEF f
      <3> QED BY <2>2, Zenon DEF DigitsOf, F
    <2>4. \E g : DigitsOf(g, 0)
      <3> HIDE DEF f
      <3> QED BY <2>3, Zenon
    <2> QED BY <2>4
  <1>2. ASSUME NEW n \in Nat, n \in S
        PROVE  n + 1 \in S
    <2>1. PICK f : DigitsOf(f, n)
      BY <1>2
    <2>2. \E g : DigitsOf(g, n + 1)
      BY <2>1, DigitsExtend
    <2> QED BY <2>2
  <1> HIDE DEF S
  <1>3. Nat \subseteq S
    BY <1>1, <1>2, SetInduction
  <1> QED BY <1>3 DEF S

LEMMA DigitsIs ==
    ASSUME NEW n \in Nat
    PROVE  \E f : DigitsOf(f, n) /\ Digits(n, 16) = f[n]
  <1> DEFINE r == CHOOSE f : f = [m \in 0 .. n |->
                                      IF m < 16 THEN <<m>> ELSE Append(f[m \div 16], m % 16)]
  <1>1. Digits(n, 16) = r[n]
    BY Zenon DEF Digits
  <1>2. \E f : DigitsOf(f, n)
    BY DigitsExist
  <1>3. DigitsOf(r, n)
    BY <1>2, Zenon DEF DigitsOf
  <1> HIDE DEF r
  <1> QED BY <1>1, <1>3, Zenon

LEMMA DigitsTurn ==
    ASSUME NEW N \in Nat, NEW f, DigitsOf(f, N), NEW m \in 0 .. N
    PROVE  /\ m < 16 => f[m] = <<m>>
           /\ m >= 16 => f[m] = Append(f[m \div 16], m % 16)
  <1> DEFINE F(k) == IF k < 16 THEN <<k>> ELSE Append(f[k \div 16], k % 16)
  <1>1. f = [k \in 0 .. N |-> F(k)]
    BY Zenon DEF DigitsOf
  <1> HIDE DEF F
  <1>2. f[m] = F(m)
    BY <1>1
  <1>3. m >= 16 => ~(m < 16)
    OBVIOUS
  <1> QED BY <1>2, <1>3, Zenon DEF F

-----------------------------------------------------------------------------
\* v counts up the digits of p.
Valued(v, p) == v[0] = 0 /\ \A i \in 1 .. Len(p) : v[i] = 16 * v[i - 1] + p[i]

\* p is the number n in hex, in w digits.
Numeral(p, w, n) ==
    /\ p \in Seq(Hex) /\ Len(p) = w
    /\ \E v \in [Nat -> Nat] : Valued(v, p) /\ v[w] = n

LEMMA NumeralOne ==
    ASSUME NEW d \in Hex
    PROVE  Numeral(<<d>>, 1, d)
  <1> DEFINE v == [i \in Nat |-> IF i = 0 THEN 0 ELSE d]
  <1>1. d \in Nat
    BY DEF Hex
  <1>2. v \in [Nat -> Nat] /\ v[0] = 0 /\ v[1] = d
    BY <1>1
  <1> HIDE DEF v
  <1>3. <<d>> \in Seq(Hex) /\ Len(<<d>>) = 1 /\ <<d>>[1] = d
    OBVIOUS
  <1>4. \A i \in 1 .. 1 : v[i] = 16 * v[i - 1] + <<d>>[i]
    BY <1>1, <1>2
  <1>5. Valued(v, <<d>>)
    BY <1>2, <1>3, <1>4, Zenon DEF Valued
  <1> QED BY <1>2, <1>3, <1>5, Zenon DEF Numeral

LEMMA NumeralNext ==
    ASSUME NEW w \in Nat, NEW n \in Nat, NEW p, Numeral(p, w, n), NEW d \in Hex
    PROVE  Numeral(Append(p, d), w + 1, 16 * n + d)
  <1>1. PICK v \in [Nat -> Nat] : Valued(v, p) /\ v[w] = n
    BY Zenon DEF Numeral
  <1>2. p \in Seq(Hex) /\ Len(p) = w /\ d \in Nat
    BY DEF Numeral, Hex
  <1> DEFINE q == Append(p, d)
             u == [i \in Nat |-> IF i = w + 1 THEN 16 * n + d ELSE v[i]]
  <1>3. q \in Seq(Hex) /\ Len(q) = w + 1 /\ q[w + 1] = d /\ \A i \in 1 .. w : q[i] = p[i]
    <2>1. p \in Seq(Hex) /\ d \in Hex
      BY <1>2
    <2>2. /\ Append(p, d) \in Seq(Hex) /\ Len(Append(p, d)) = Len(p) + 1
          /\ \A i \in 1 .. Len(p) : Append(p, d)[i] = p[i]
          /\ Append(p, d)[Len(p) + 1] = d
      BY <2>1, AppendProperties
    <2> QED BY <1>2, <2>2, Zenon
  <1>4. u \in [Nat -> Nat] /\ u[w + 1] = 16 * n + d /\ \A i \in 0 .. w : u[i] = v[i]
    <2>1. 16 * n + d \in Nat /\ w + 1 \in Nat /\ \A i \in 0 .. w : i \in Nat /\ i # w + 1
      BY <1>2
    <2>2. \A i \in Nat : u[i] \in Nat
      BY <2>1
    <2>3. u \in [Nat -> Nat]
      BY <2>2
    <2> QED BY <2>1, <2>3, Zenon
  <1>5. v[0] = 0 /\ \A i \in 1 .. w : v[i] = 16 * v[i - 1] + p[i]
    BY <1>1, <1>2, Zenon DEF Valued
  <1> HIDE DEF q, u
  <1>6. u[0] = 0
    BY <1>4, <1>5
  <1>7. ASSUME NEW i \in 1 .. w + 1
        PROVE  u[i] = 16 * u[i - 1] + q[i]
    <2>1. CASE i = w + 1
      <3>1. i - 1 = w /\ w \in 0 .. w
        BY <2>1
      <3>2. u[i - 1] = n
        BY <1>1, <1>4, <3>1
      <3> QED BY <1>3, <1>4, <2>1, <3>2
    <2>2. CASE i # w + 1
      <3>1. i \in 1 .. w /\ i \in 0 .. w /\ i - 1 \in 0 .. w
        BY <2>2
      <3>2. u[i] = v[i] /\ u[i - 1] = v[i - 1] /\ q[i] = p[i]
        BY <1>3, <1>4, <3>1
      <3>3. v[i] = 16 * v[i - 1] + p[i]
        BY <1>5, <3>1
      <3> QED BY <3>2, <3>3
    <2> QED BY <2>1, <2>2
  <1>8. Valued(u, q)
    BY <1>3, <1>6, <1>7, Zenon DEF Valued
  <1>9. Numeral(q, w + 1, 16 * n + d)
    BY <1>3, <1>4, <1>8, Zenon DEF Numeral
  <1> QED BY <1>9 DEF q

\* Zeroes in front change nothing.
LEMMA NumeralPadded ==
    ASSUME NEW w \in Nat, NEW n \in Nat, NEW p, Numeral(p, w, n), NEW z \in Nat
    PROVE  Numeral([i \in 1 .. z |-> 0] \o p, z + w, n)
  <1>1. PICK v \in [Nat -> Nat] : Valued(v, p) /\ v[w] = n
    BY Zenon DEF Numeral
  <1>2. p \in Seq(Hex) /\ Len(p) = w
    BY DEF Numeral
  <1>3. PICK o : o = [i \in 1 .. z |-> 0]
    OBVIOUS
  <1>4. o \in Seq(Hex) /\ Len(o) = z /\ \A i \in 1 .. z : o[i] = 0
    BY <1>3 DEF Hex
  <1> DEFINE q == o \o p
             u == [i \in Nat |-> IF i <= z THEN 0 ELSE v[i - z]]
  <1>5. /\ q \in Seq(Hex) /\ Len(q) = z + w
        /\ \A i \in 1 .. z : q[i] = 0
        /\ \A i \in z + 1 .. z + w : q[i] = p[i - z]
    <2>1. /\ o \o p \in Seq(Hex) /\ Len(o \o p) = z + w
          /\ \A i \in 1 .. z + w : (o \o p)[i] = IF i <= z THEN o[i] ELSE p[i - z]
      BY <1>2, <1>4, ConcatProperties, Zenon
    <2>2. \A i \in 1 .. z : i \in 1 .. z + w /\ i <= z
      OBVIOUS
    <2>3. \A i \in z + 1 .. z + w : i \in 1 .. z + w /\ ~(i <= z)
      OBVIOUS
    <2> QED BY <1>4, <2>1, <2>2, <2>3, Zenon
  <1>6. \A i \in 1 .. w : v[i] = 16 * v[i - 1] + p[i]
    BY <1>1, <1>2, Zenon DEF Valued
  <1>7. v[0] = 0
    BY <1>1, Zenon DEF Valued
  <1>8. ASSUME NEW i \in Nat  PROVE u[i] \in Nat
    <2>1. CASE i <= z
      BY <2>1
    <2>2. CASE i > z
      <3>1. i - z \in Nat
        BY <2>2
      <3> QED BY <2>2, <3>1
    <2> QED BY <2>1, <2>2
  <1>9. u \in [Nat -> Nat]
    BY <1>8
  <1>10. (\A i \in 0 .. z : u[i] = 0) /\ (\A i \in Nat : i > z => u[i] = v[i - z])
    OBVIOUS
  <1> HIDE DEF q, u
  <1>11. ASSUME NEW i \in 1 .. z + w
         PROVE  u[i] = 16 * u[i - 1] + q[i]
    <2>1. CASE i <= z
      <3>1. i \in 0 .. z /\ i - 1 \in 0 .. z /\ i \in 1 .. z
        BY <2>1
      <3>2. u[i] = 0 /\ u[i - 1] = 0
        BY <1>10, <3>1, Zenon
      <3>3. q[i] = 0
        BY <1>5, <3>1, Zenon
      <3> QED BY <3>2, <3>3
    <2>2. CASE i > z
      <3>1. i - z \in 1 .. w /\ i \in z + 1 .. z + w /\ i \in Nat /\ (i - z) - 1 = (i - 1) - z
        BY <2>2
      <3>2. u[i] = v[i - z] /\ q[i] = p[i - z]
        BY <1>5, <1>10, <2>2, <3>1
      <3>3. u[i - 1] = v[(i - z) - 1]
        <4>1. CASE i - 1 = z
          <5>1. (i - z) - 1 = 0 /\ i - 1 \in 0 .. z
            BY <4>1
          <5> QED BY <1>7, <1>10, <5>1
        <4>2. CASE i - 1 # z
          <5>1. i - 1 \in Nat /\ i - 1 > z
            BY <2>2, <4>2
          <5> QED BY <1>10, <3>1, <5>1
        <4> QED BY <4>1, <4>2
      <3>4. v[i - z] = 16 * v[(i - z) - 1] + p[i - z]
        BY <1>6, <3>1
      <3> QED BY <3>2, <3>3, <3>4
    <2> QED BY <2>1, <2>2
  <1>12. u[0] = 0
    <2>1. 0 \in 0 .. z
      OBVIOUS
    <2> QED BY <1>10, <2>1
  <1>13. Valued(u, q)
    BY <1>5, <1>11, <1>12, Zenon DEF Valued
  <1>14. u[z + w] = n
    <2>1. CASE w = 0
      <3>1. z + w \in 0 .. z
        BY <2>1
      <3>2. n = 0
        BY <1>1, <1>7, <2>1
      <3> QED BY <1>10, <3>1, <3>2
    <2>2. CASE w # 0
      <3>1. z + w \in Nat /\ z + w > z /\ (z + w) - z = w
        BY <2>2
      <3> QED BY <1>1, <1>10, <3>1
    <2> QED BY <2>1, <2>2
  <1>15. Numeral(q, z + w, n)
    BY <1>5, <1>9, <1>13, <1>14, Zenon DEF Numeral
  <1> QED BY <1>3, <1>15 DEF q
-----------------------------------------------------------------------------
\* The digits of the numbers below b are at most w; f is the recursive function of Digits.
DigitsFit(f, N, b, w) ==
    \A m \in 0 .. N : m < b => \E k \in 1 .. w : Numeral(f[m], k, m)

LEMMA OneDigit ==
    ASSUME NEW N \in Nat, NEW f, DigitsOf(f, N)
    PROVE  DigitsFit(f, N, 16, 1)
  <1> SUFFICES ASSUME NEW m \in 0 .. N, m < 16
               PROVE  \E k \in 1 .. 1 : Numeral(f[m], k, m)
    BY Zenon DEF DigitsFit
  <1>1. m \in Hex /\ 1 \in 1 .. 1
    BY DEF Hex
  <1>2. f[m] = <<m>>
    BY DigitsTurn
  <1>3. Numeral(f[m], 1, m)
    BY <1>1, <1>2, NumeralOne, Zenon
  <1> QED BY <1>1, <1>3, Zenon

LEMMA NextDigitFits ==
    ASSUME NEW N \in Nat, NEW f, DigitsOf(f, N), NEW b \in Nat, NEW w \in Nat \ {0},
           DigitsFit(f, N, b, w), NEW c, c = 16 * b, NEW x, x = w + 1
    PROVE  DigitsFit(f, N, c, x)
  <1> SUFFICES ASSUME NEW m \in 0 .. N, m < c
               PROVE  \E k \in 1 .. x : Numeral(f[m], k, m)
    BY Zenon DEF DigitsFit
  <1>1. CASE m < 16
    <2>1. PICK k \in 1 .. 1 : Numeral(f[m], k, m)
      BY <1>1, OneDigit, Zenon DEF DigitsFit
    <2>2. k \in 1 .. x
      OBVIOUS
    <2> QED BY <2>1, <2>2, Zenon
  <1>2. CASE m >= 16
    <2>1. PICK q, d : q = m \div 16 /\ d = m % 16
      OBVIOUS
    <2>2. /\ q \in Nat /\ q \in 0 .. N /\ q < b
          /\ d \in Hex /\ 16 * q + d = m
      BY <2>1 DEF Hex
    <2>3. PICK k \in 1 .. w : Numeral(f[q], k, q)
      BY <2>2, Zenon DEF DigitsFit
    <2>4. k \in Nat /\ k + 1 \in 1 .. x
      OBVIOUS
    <2>5. Numeral(Append(f[q], d), k + 1, 16 * q + d)
      BY <2>2, <2>3, <2>4, NumeralNext, Zenon
    <2>6. f[m] = Append(f[q], d)
      BY <1>2, <2>1, DigitsTurn
    <2>7. Numeral(f[m], k + 1, m)
      BY <2>2, <2>5, <2>6, Zenon
    <2> QED BY <2>4, <2>7, Zenon
  <1> QED BY <1>1, <1>2

\* What the 8 digits of a volume's index hold, and the 16 of an inode's number.
TwoTo32 == 65536 * 65536
TwoTo64 == TwoTo32 * TwoTo32

LEMMA WidthsFit ==
    ASSUME NEW N \in Nat, NEW f, DigitsOf(f, N)
    PROVE  /\ DigitsFit(f, N, 256, 2)
           /\ DigitsFit(f, N, TwoTo32, 8)
           /\ DigitsFit(f, N, TwoTo64, 16)
  <1>1. DigitsFit(f, N, 16, 1)
    BY OneDigit
  <1>2. DigitsFit(f, N, 256, 2)
    BY <1>1, NextDigitFits
  <1>3. DigitsFit(f, N, 4096, 3)
    BY <1>2, NextDigitFits
  <1>4. DigitsFit(f, N, 65536, 4)
    BY <1>3, NextDigitFits
  <1>5. DigitsFit(f, N, 1048576, 5)
    BY <1>4, NextDigitFits
  <1>6. DigitsFit(f, N, 16777216, 6)
    BY <1>5, NextDigitFits
  <1>7. DigitsFit(f, N, 268435456, 7)
    BY <1>6, NextDigitFits
  <1>8. DigitsFit(f, N, TwoTo32, 8)
    BY <1>7, NextDigitFits, SMT DEF TwoTo32
  <1>9. DigitsFit(f, N, 68719476736, 9)
    BY <1>8, NextDigitFits, SMT DEF TwoTo32
  <1>10. DigitsFit(f, N, 1099511627776, 10)
    BY <1>9, NextDigitFits
  <1>11. DigitsFit(f, N, 17592186044416, 11)
    BY <1>10, NextDigitFits
  <1>12. DigitsFit(f, N, 281474976710656, 12)
    BY <1>11, NextDigitFits
  <1>13. DigitsFit(f, N, 4503599627370496, 13)
    BY <1>12, NextDigitFits
  <1>14. DigitsFit(f, N, 72057594037927936, 14)
    BY <1>13, NextDigitFits
  <1>15. DigitsFit(f, N, 1152921504606846976, 15)
    BY <1>14, NextDigitFits
  <1>16. DigitsFit(f, N, TwoTo64, 16)
    <2>1. TwoTo32 = 4294967296
      BY SMT DEF TwoTo32
    <2>2. TwoTo64 = 16 * 1152921504606846976
      BY <2>1, SMT DEF TwoTo64
    <2>3. PICK b \in Nat : b = 1152921504606846976
      OBVIOUS
    <2>4. PICK c : c = TwoTo64
      OBVIOUS
    <2>5. c = 16 * b /\ DigitsFit(f, N, b, 15)
      BY <1>15, <2>2, <2>3, <2>4
    <2>6. DigitsFit(f, N, c, 16)
      BY <2>5, NextDigitFits
    <2> QED BY <2>4, <2>6
  <1> QED BY <1>2, <1>8, <1>16

\* A stream between two numbers.
Stream(base, fill, width, buf_) == [base |-> base, fill |-> fill, width |-> width, buf |-> buf_]

\* The numbers below b have w digits where a stream pads them with zeroes to that width.
WidthHolds(w, b) ==
    \A n \in Nat : n < b => \A u : Numeral(Padded(Stream(16, 0, w, u), n), w, n)

LEMMA WidthFits ==
    ASSUME NEW w \in Nat, NEW b,
           \A N \in Nat : \A f : DigitsOf(f, N) => DigitsFit(f, N, b, w)
    PROVE  WidthHolds(w, b)
  <1> SUFFICES ASSUME NEW n \in Nat, n < b, NEW u
               PROVE  Numeral(Padded(Stream(16, 0, w, u), n), w, n)
    BY Zenon DEF WidthHolds
  <1>1. PICK f : DigitsOf(f, n) /\ Digits(n, 16) = f[n]
    BY DigitsIs
  <1>2. PICK d : d = Digits(n, 16)
    OBVIOUS
  <1>3. n \in 0 .. n
    OBVIOUS
  <1>4. DigitsFit(f, n, b, w)
    BY <1>1, Zenon
  <1>5. PICK k \in 1 .. w : Numeral(d, k, n)
    BY <1>1, <1>2, <1>3, <1>4, Zenon DEF DigitsFit
  <1>6. Len(d) = k
    BY <1>5, Zenon DEF Numeral
  <1>7. PICK z \in Nat : z = w - k /\ z + k = w
    <2>1. w - k \in Nat /\ (w - k) + k = w
      OBVIOUS
    <2> QED BY <2>1
  <1>8. k \in Nat
    OBVIOUS
  <1>9. Numeral([i \in 1 .. z |-> 0] \o d, z + k, n)
    BY <1>5, <1>8, NumeralPadded, Zenon
  <1>10. PICK s : s = Stream(16, 0, w, u)
    OBVIOUS
  <1>11. s.base = 16 /\ s.fill = 0 /\ s.width = w
    BY <1>10 DEF Stream
  <1>12. Padded(s, n) = [i \in 1 .. s.width - Len(d) |-> s.fill] \o d
    BY <1>2, <1>11, Zenon DEF Padded
  <1>13. Padded(s, n) = [i \in 1 .. z |-> 0] \o d
    BY <1>6, <1>7, <1>11, <1>12, Zenon
  <1> QED BY <1>7, <1>9, <1>10, <1>13, Zenon

LEMMA WidthsHold ==
    WidthHolds(2, 256) /\ WidthHolds(8, TwoTo32) /\ WidthHolds(16, TwoTo64)
  <1>1. 2 \in Nat /\ 8 \in Nat /\ 16 \in Nat
    OBVIOUS
  <1>2. WidthHolds(2, 256)
    BY <1>1, WidthsFit, WidthFits, Zenon
  <1>3. WidthHolds(8, TwoTo32)
    BY <1>1, WidthsFit, WidthFits, Zenon
  <1>4. WidthHolds(16, TwoTo64)
    BY <1>1, WidthsFit, WidthFits, Zenon
  <1> QED BY <1>2, <1>3, <1>4
-----------------------------------------------------------------------------
\* f is the stream behind each of the first N items.
StreamUpTo(f, items, N) ==
    f = [n \in 0 .. N |-> IF n = 0 THEN Fresh ELSE Apply(f[n - 1], items[n])]

\* f is the stream behind each item.
Streams(f, items) == f[0] = Fresh /\ \A n \in 1 .. Len(items) : f[n] = Apply(f[n - 1], items[n])

LEMMA StreamExtends ==
    ASSUME NEW items, NEW N \in Nat, NEW f, StreamUpTo(f, items, N)
    PROVE  \E g : StreamUpTo(g, items, N + 1)
  <1> DEFINE g == [n \in 0 .. N + 1 |-> IF n = N + 1 THEN Apply(f[n - 1], items[n]) ELSE f[n]]
             F(n) == IF n = 0 THEN Fresh ELSE Apply(g[n - 1], items[n])
             E(n) == IF n = 0 THEN Fresh ELSE Apply(f[n - 1], items[n])
  <1>1. ASSUME NEW n \in 0 .. N + 1
        PROVE  g[n] = F(n)
    <2>1. n # 0 => n - 1 \in 0 .. N + 1 /\ n - 1 # N + 1
      OBVIOUS
    <2>2. n # 0 => g[n - 1] = f[n - 1]
      BY <2>1
    <2>3. g[n] = E(n)
      <3>1. CASE n = N + 1
        <4>1. n # 0
          BY <3>1
        <4> QED BY <3>1, <4>1
      <3>2. CASE n # N + 1
        <4>1. n \in 0 .. N
          BY <3>2
        <4>2. f = [k \in 0 .. N |-> E(k)]
          BY Zenon DEF StreamUpTo
        <4>3. g[n] = f[n]
          BY <3>2
        <4> HIDE DEF E, g
        <4>4. f[n] = E(n)
          BY <4>1, <4>2
        <4> QED BY <4>3, <4>4
      <3> QED BY <3>1, <3>2
    <2> HIDE DEF g
    <2> QED BY <2>2, <2>3, Zenon
  <1>2. g = [n \in 0 .. N + 1 |-> g[n]]
    OBVIOUS
  <1> HIDE DEF g
  <1>3. g = [n \in 0 .. N + 1 |-> F(n)]
    <2> HIDE DEF F
    <2> QED BY <1>1, <1>2
  <1>4. StreamUpTo(g, items, N + 1)
    BY <1>3, Zenon DEF StreamUpTo
  <1> QED BY <1>4, Zenon

LEMMA StreamExists ==
    ASSUME NEW items, NEW N \in Nat
    PROVE  \E f : StreamUpTo(f, items, N)
  <1> DEFINE S == {n \in Nat : \E f : StreamUpTo(f, items, n)}
  <1>1. 0 \in S
    <2> DEFINE f == [n \in 0 .. 0 |-> Fresh]
               F(n) == IF n = 0 THEN Fresh ELSE Apply(f[n - 1], items[n])
    <2>1. \A n \in 0 .. 0 : F(n) = Fresh
      OBVIOUS
    <2> HIDE DEF F
    <2>2. f = [n \in 0 .. 0 |-> F(n)]
      BY <2>1
    <2>3. StreamUpTo(f, items, 0)
      <3> HIDE DEF f
      <3> QED BY <2>2, Zenon DEF StreamUpTo, F
    <2>4. \E g : StreamUpTo(g, items, 0)
      <3> HIDE DEF f
      <3> QED BY <2>3, Zenon
    <2> QED BY <2>4
  <1>2. ASSUME NEW n \in Nat, n \in S
        PROVE  n + 1 \in S
    <2>1. PICK f : StreamUpTo(f, items, n)
      BY <1>2
    <2>2. \E g : StreamUpTo(g, items, n + 1)
      BY <2>1, StreamExtends
    <2> QED BY <2>2
  <1> HIDE DEF S
  <1>3. Nat \subseteq S
    BY <1>1, <1>2, SetInduction
  <1> QED BY <1>3 DEF S

LEMMA StreamIs ==
    ASSUME NEW items, IsText(items)
    PROVE  \E f : Streams(f, items) /\ str(items) = f[Len(items)].buf
  <1> DEFINE N == Len(items)
             r == CHOOSE f : f = [n \in 0 .. N |->
                                      IF n = 0 THEN Fresh ELSE Apply(f[n - 1], items[n])]
  <1>1. str(items) = r[N].buf
    BY Zenon DEF str
  <1>2. N \in Nat
    BY TextIs
  <1>3. \E f : StreamUpTo(f, items, N)
    BY <1>2, StreamExists
  <1>4. StreamUpTo(r, items, N)
    BY <1>3, Zenon DEF StreamUpTo
  <1> HIDE DEF r
  <1> DEFINE F(n) == IF n = 0 THEN Fresh ELSE Apply(r[n - 1], items[n])
  <1>5. r = [n \in 0 .. N |-> F(n)]
    BY <1>4, Zenon DEF StreamUpTo
  <1> HIDE DEF F, N
  <1>6. \A n \in 0 .. N : r[n] = F(n)
    BY <1>5
  <1>7. r[0] = F(0)
    BY <1>2, <1>6
  <1>8. \A n \in 1 .. N : n \in 0 .. N /\ n # 0
    BY <1>2
  <1>9. Streams(r, items)
    BY <1>6, <1>7, <1>8, Zenon DEF Streams, F, N
  <1> QED BY <1>1, <1>9, Zenon DEF N

\* What each item does.
LEMMA StreamFields ==
    ASSUME NEW base, NEW fill, NEW width, NEW u
    PROVE  /\ Stream(base, fill, width, u).base = base
           /\ Stream(base, fill, width, u).fill = fill
           /\ Stream(base, fill, width, u).width = width
           /\ Stream(base, fill, width, u).buf = u
  BY DEF Stream

LEMMA ApplyItem ==
    ASSUME NEW base, NEW fill, NEW width, NEW u, NEW n, NEW s, s = Stream(base, fill, width, u)
    PROVE  /\ Apply(s, SetWidth(n)) = Stream(base, fill, n, u)
           /\ Apply(s, SetFill) = Stream(base, 0, width, u)
           /\ Apply(s, SetHex) = Stream(16, fill, width, u)
           /\ Apply(s, Put(n)) = Stream(base, fill, 0, u \o Padded(s, n))
  <1>1. /\ SetWidth(n)[1] = "width" /\ SetWidth(n)[2] = n
        /\ SetFill[1] = "fill" /\ SetFill[2] = 0
        /\ SetHex[1] = "base" /\ SetHex[2] = 16
        /\ Put(n)[1] = "put" /\ Put(n)[2] = n
    BY DEF SetWidth, SetFill, SetHex, Put
  <1>2. /\ [s EXCEPT !.width = n] = Stream(base, fill, n, u)
        /\ [s EXCEPT !.fill = 0] = Stream(base, 0, width, u)
        /\ [s EXCEPT !.base = 16] = Stream(16, fill, width, u)
    BY DEF Stream
  <1>3. Insert(s, n) = Stream(base, fill, 0, u \o Padded(s, n))
    <2>1. PICK x : x = Padded(s, n)
      OBVIOUS
    <2>2. s.buf = u
      BY DEF Stream
    <2>3. PICK y : y = u \o x
      OBVIOUS
    <2>4. [s EXCEPT !.buf = y, !.width = 0] = Stream(base, fill, 0, y)
      <3>1. PICK t : t = [s EXCEPT !.buf = y]
        OBVIOUS
      <3>2. t = Stream(base, fill, width, y)
        BY <3>1 DEF Stream
      <3>3. [t EXCEPT !.width = 0] = Stream(base, fill, 0, y)
        BY <3>2 DEF Stream
      <3>4. [s EXCEPT !.buf = y, !.width = 0] = [t EXCEPT !.width = 0]
        BY <3>1
      <3> QED BY <3>3, <3>4
    <2>5. Insert(s, n) = [s EXCEPT !.buf = s.buf \o x, !.width = 0]
      BY <2>1, Zenon DEF Insert
    <2> QED BY <2>1, <2>2, <2>3, <2>4, <2>5, Zenon
  <1>4. Apply(s, SetWidth(n)) = [s EXCEPT !.width = n]
    BY <1>1 DEF Apply
  <1>5. Apply(s, SetFill) = [s EXCEPT !.fill = 0]
    BY <1>1 DEF Apply
  <1>6. Apply(s, SetHex) = [s EXCEPT !.base = 16]
    BY <1>1 DEF Apply
  <1>7. Apply(s, Put(n)) = Insert(s, n)
    BY <1>1 DEF Apply
  <1> QED BY <1>2, <1>3, <1>4, <1>5, <1>6, <1>7, Zenon

LEMMA FreshIs == Fresh = Stream(10, Blank, 0, <<>>)
  BY DEF Fresh, Stream

\* Four items that print a number in hex, whatever the base before.
LEMMA FourItems ==
    ASSUME NEW items, NEW f, Streams(f, items), NEW k \in Nat, Len(items) \in Nat, k + 4 <= Len(items),
           NEW base, NEW fill, NEW u, f[k] = Stream(base, fill, 0, u), NEW w, NEW n,
           items[k + 1] = SetWidth(w), items[k + 2] = SetFill, items[k + 3] = SetHex,
           items[k + 4] = Put(n)
    PROVE  f[k + 4] = Stream(16, 0, 0, u \o Padded(Stream(16, 0, w, u), n))
  <1>1. \A i \in 1 .. Len(items) : f[i] = Apply(f[i - 1], items[i])
    BY Zenon DEF Streams
  <1>2. /\ f[k + 1] = Apply(f[k], items[k + 1])
        /\ f[k + 2] = Apply(f[k + 1], items[k + 2])
        /\ f[k + 3] = Apply(f[k + 2], items[k + 3])
        /\ f[k + 4] = Apply(f[k + 3], items[k + 4])
    <2>1. /\ k + 1 \in 1 .. Len(items) /\ (k + 1) - 1 = k
          /\ k + 2 \in 1 .. Len(items) /\ (k + 2) - 1 = k + 1
          /\ k + 3 \in 1 .. Len(items) /\ (k + 3) - 1 = k + 2
          /\ k + 4 \in 1 .. Len(items) /\ (k + 4) - 1 = k + 3
      OBVIOUS
    <2> QED BY <1>1, <2>1
  <1>3. f[k + 1] = Stream(base, fill, w, u)
    BY <1>2, ApplyItem
  <1>4. f[k + 2] = Stream(base, 0, w, u)
    BY <1>2, <1>3, ApplyItem
  <1>5. f[k + 3] = Stream(16, 0, w, u)
    BY <1>2, <1>4, ApplyItem
  <1>6. f[k + 4] = Stream(16, 0, 0, u \o Padded(f[k + 3], n))
    BY <1>2, <1>5, ApplyItem
  <1> QED BY <1>5, <1>6, Zenon

\* Three that leave the base alone, and two that leave the width and the fill.
LEMMA ThreeItems ==
    ASSUME NEW items, NEW f, Streams(f, items), NEW k \in Nat, Len(items) \in Nat, k + 3 <= Len(items),
           NEW base, NEW fill, NEW u, f[k] = Stream(base, fill, 0, u), NEW w, NEW n,
           items[k + 1] = SetWidth(w), items[k + 2] = SetFill, items[k + 3] = Put(n)
    PROVE  f[k + 3] = Stream(base, 0, 0, u \o Padded(Stream(base, 0, w, u), n))
  <1>1. \A i \in 1 .. Len(items) : f[i] = Apply(f[i - 1], items[i])
    BY Zenon DEF Streams
  <1>2. /\ f[k + 1] = Apply(f[k], items[k + 1])
        /\ f[k + 2] = Apply(f[k + 1], items[k + 2])
        /\ f[k + 3] = Apply(f[k + 2], items[k + 3])
    <2>1. /\ k + 1 \in 1 .. Len(items) /\ (k + 1) - 1 = k
          /\ k + 2 \in 1 .. Len(items) /\ (k + 2) - 1 = k + 1
          /\ k + 3 \in 1 .. Len(items) /\ (k + 3) - 1 = k + 2
      OBVIOUS
    <2> QED BY <1>1, <2>1
  <1>3. f[k + 1] = Stream(base, fill, w, u)
    BY <1>2, ApplyItem
  <1>4. f[k + 2] = Stream(base, 0, w, u)
    BY <1>2, <1>3, ApplyItem
  <1>5. f[k + 3] = Stream(base, 0, 0, u \o Padded(f[k + 2], n))
    BY <1>2, <1>4, ApplyItem
  <1> QED BY <1>4, <1>5, Zenon

LEMMA TwoItems ==
    ASSUME NEW items, NEW f, Streams(f, items), NEW k \in Nat, Len(items) \in Nat, k + 2 <= Len(items),
           NEW base, NEW fill, NEW u, f[k] = Stream(base, fill, 0, u), NEW n,
           items[k + 1] = SetHex, items[k + 2] = Put(n)
    PROVE  f[k + 2] = Stream(16, fill, 0, u \o Padded(Stream(16, fill, 0, u), n))
  <1>1. \A i \in 1 .. Len(items) : f[i] = Apply(f[i - 1], items[i])
    BY Zenon DEF Streams
  <1>2. /\ f[k + 1] = Apply(f[k], items[k + 1])
        /\ f[k + 2] = Apply(f[k + 1], items[k + 2])
    <2>1. /\ k + 1 \in 1 .. Len(items) /\ (k + 1) - 1 = k
          /\ k + 2 \in 1 .. Len(items) /\ (k + 2) - 1 = k + 1
      OBVIOUS
    <2> QED BY <1>1, <2>1
  <1>3. f[k + 1] = Stream(16, fill, 0, u)
    BY <1>2, ApplyItem
  <1>4. f[k + 2] = Stream(16, fill, 0, u \o Padded(f[k + 1], n))
    BY <1>2, <1>3, ApplyItem
  <1> QED BY <1>3, <1>4, Zenon
-----------------------------------------------------------------------------

LEMMA InodeIdIs ==
    ASSUME NEW v \in Nat, v < TwoTo32, NEW n \in Nat, n < TwoTo64
    PROVE  \E p, q, r : /\ Numeral(p, 2, INODE) /\ Numeral(q, 8, v) /\ Numeral(r, 16, n)
                        /\ str(makeInodeID(v, n)) = ((<<>> \o p) \o q) \o r
  <1>1. PICK items : items = makeInodeID(v, n)
    OBVIOUS
  <1>2. PICK e : e = 2 * 4
    OBVIOUS
  <1>3. PICK h : h = 2 * 8
    OBVIOUS
  <1>4. e = 8 /\ h = 16
    BY <1>2, <1>3
  <1>5. items = <<SetWidth(2), SetFill, SetHex, Put(INODE), SetWidth(e), SetFill, SetHex, Put(v),
                  SetWidth(h), SetFill, SetHex, Put(n)>>
    BY <1>1, <1>2, <1>3, Zenon DEF makeInodeID
  <1>6. PICK a1, a2, a3, a4, b1, b4, c1, c4 :
            /\ a1 = SetWidth(2) /\ a2 = SetFill /\ a3 = SetHex /\ a4 = Put(INODE)
            /\ b1 = SetWidth(e) /\ b4 = Put(v) /\ c1 = SetWidth(h) /\ c4 = Put(n)
    BY Zenon
  <1>7. items = <<a1, a2, a3, a4, b1, a2, a3, b4, c1, a2, a3, c4>>
    BY <1>5, <1>6, Zenon
  <1>8. /\ items \in Seq({a1, a2, a3, a4, b1, b4, c1, c4}) /\ Len(items) = 12
        /\ items[0 + 1] = a1 /\ items[0 + 2] = a2 /\ items[0 + 3] = a3 /\ items[0 + 4] = a4
        /\ items[4 + 1] = b1 /\ items[4 + 2] = a2 /\ items[4 + 3] = a3 /\ items[4 + 4] = b4
        /\ items[8 + 1] = c1 /\ items[8 + 2] = a2 /\ items[8 + 3] = a3 /\ items[8 + 4] = c4
    BY <1>7
  <1>9. IsText(items)
    BY <1>8, Zenon DEF IsText
  <1>10. PICK f : Streams(f, items) /\ str(items) = f[Len(items)].buf
    BY <1>9, StreamIs
  <1>11. f[0] = Stream(10, Blank, 0, <<>>)
    BY <1>10, FreshIs, Zenon DEF Streams
  <1>12. /\ 0 \in Nat /\ 4 \in Nat /\ 8 \in Nat /\ 16 \in Nat /\ 2 \in Nat /\ Len(items) \in Nat
         /\ 0 + 4 = 4 /\ 4 + 4 = 8 /\ 8 + 4 = 12 /\ 4 <= Len(items) /\ 8 <= Len(items) /\ 12 <= Len(items)
         /\ INODE \in Nat /\ INODE < 256
    BY <1>8 DEF INODE
  <1>13. PICK p : Numeral(p, 2, INODE) /\ f[4] = Stream(16, 0, 0, <<>> \o p)
    <2> DEFINE o == <<>>
    <2>0. f[0] = Stream(10, Blank, 0, o)
      BY <1>11
    <2> HIDE DEF o
    <2>1. f[0 + 4] = Stream(16, 0, 0, o \o Padded(Stream(16, 0, 2, o), INODE))
      <3>1. 0 + 4 <= Len(items)
        BY <1>12
      <3>2. /\ items[0 + 1] = SetWidth(2) /\ items[0 + 2] = SetFill
            /\ items[0 + 3] = SetHex /\ items[0 + 4] = Put(INODE)
        BY <1>6, <1>8, Zenon
      <3> QED BY <1>10, <1>12, <2>0, <3>1, <3>2, FourItems
    <2>2. PICK p : p = Padded(Stream(16, 0, 2, o), INODE)
      OBVIOUS
    <2>3. Numeral(p, 2, INODE)
      BY <1>12, <2>2, WidthsHold, Zenon DEF WidthHolds
    <2> QED BY <1>12, <2>1, <2>2, <2>3, Zenon DEF o
  <1>14. PICK y : y = <<>> \o p
    OBVIOUS
  <1>15. PICK q : Numeral(q, 8, v) /\ f[8] = Stream(16, 0, 0, y \o q)
    <2>1. f[4 + 4] = Stream(16, 0, 0, y \o Padded(Stream(16, 0, e, y), v))
      <3>1. 4 + 4 <= Len(items) /\ f[4] = Stream(16, 0, 0, y)
        BY <1>12, <1>13, <1>14
      <3>2. /\ items[4 + 1] = SetWidth(e) /\ items[4 + 2] = SetFill
            /\ items[4 + 3] = SetHex /\ items[4 + 4] = Put(v)
        BY <1>6, <1>8, Zenon
      <3> QED BY <1>10, <1>12, <3>1, <3>2, FourItems
    <2>2. PICK q : q = Padded(Stream(16, 0, 8, y), v)
      OBVIOUS
    <2>3. Numeral(q, 8, v)
      BY <1>12, <2>2, WidthsHold, Zenon DEF WidthHolds
    <2> QED BY <1>4, <1>12, <2>1, <2>2, <2>3, Zenon
  <1>16. PICK z : z = y \o q
    OBVIOUS
  <1>17. PICK r : Numeral(r, 16, n) /\ f[12] = Stream(16, 0, 0, z \o r)
    <2>1. f[8 + 4] = Stream(16, 0, 0, z \o Padded(Stream(16, 0, h, z), n))
      <3>1. 8 + 4 <= Len(items) /\ f[8] = Stream(16, 0, 0, z)
        BY <1>12, <1>15, <1>16
      <3>2. /\ items[8 + 1] = SetWidth(h) /\ items[8 + 2] = SetFill
            /\ items[8 + 3] = SetHex /\ items[8 + 4] = Put(n)
        BY <1>6, <1>8, Zenon
      <3> QED BY <1>10, <1>12, <3>1, <3>2, FourItems
    <2>2. PICK r : r = Padded(Stream(16, 0, 16, z), n)
      OBVIOUS
    <2>3. Numeral(r, 16, n)
      BY <1>12, <2>2, WidthsHold, Zenon DEF WidthHolds
    <2> QED BY <1>4, <1>12, <2>1, <2>2, <2>3, Zenon
  <1>18. str(items) = z \o r
    <2>1. str(items) = f[12].buf
      BY <1>8, <1>10, Zenon
    <2> QED BY <1>17, <2>1 DEF Stream
  <1> QED BY <1>1, <1>13, <1>14, <1>15, <1>16, <1>17, <1>18, Zenon

LEMMA DiskIdIs ==
    ASSUME NEW n \in Nat, n < TwoTo64
    PROVE  \E p, q : /\ Numeral(p, 2, DISK_MAP) /\ Numeral(q, 16, n)
                     /\ str(makeDiskMapID(n)) = (<<>> \o p) \o q
  <1>1. PICK items : items = makeDiskMapID(n)
    OBVIOUS
  <1>2. PICK h : h = 2 * 8
    OBVIOUS
  <1>3. h = 16
    BY <1>2
  <1>4. items = <<SetWidth(2), SetFill, SetHex, Put(DISK_MAP), SetWidth(h), SetFill, Put(n)>>
    BY <1>1, <1>2, Zenon DEF makeDiskMapID
  <1>5. PICK a1, a2, a3, a4, b1, b3 :
            /\ a1 = SetWidth(2) /\ a2 = SetFill /\ a3 = SetHex /\ a4 = Put(DISK_MAP)
            /\ b1 = SetWidth(h) /\ b3 = Put(n)
    BY Zenon
  <1>6. items = <<a1, a2, a3, a4, b1, a2, b3>>
    BY <1>4, <1>5, Zenon
  <1>7. /\ items \in Seq({a1, a2, a3, a4, b1, b3}) /\ Len(items) = 7
        /\ items[0 + 1] = a1 /\ items[0 + 2] = a2 /\ items[0 + 3] = a3 /\ items[0 + 4] = a4
        /\ items[4 + 1] = b1 /\ items[4 + 2] = a2 /\ items[4 + 3] = b3
    BY <1>6
  <1>8. IsText(items)
    BY <1>7, Zenon DEF IsText
  <1>9. PICK f : Streams(f, items) /\ str(items) = f[Len(items)].buf
    BY <1>8, StreamIs
  <1>10. f[0] = Stream(10, Blank, 0, <<>>)
    BY <1>9, FreshIs, Zenon DEF Streams
  <1>11. /\ 0 \in Nat /\ 4 \in Nat /\ 16 \in Nat /\ 2 \in Nat /\ Len(items) \in Nat
         /\ 0 + 4 = 4 /\ 4 + 3 = 7 /\ 4 <= Len(items) /\ 7 <= Len(items)
         /\ DISK_MAP \in Nat /\ DISK_MAP < 256
    BY <1>7 DEF DISK_MAP
  <1>12. PICK p : Numeral(p, 2, DISK_MAP) /\ f[4] = Stream(16, 0, 0, <<>> \o p)
    <2> DEFINE o == <<>>
    <2>0. f[0] = Stream(10, Blank, 0, o)
      BY <1>10
    <2> HIDE DEF o
    <2>1. f[0 + 4] = Stream(16, 0, 0, o \o Padded(Stream(16, 0, 2, o), DISK_MAP))
      <3>1. 0 + 4 <= Len(items)
        BY <1>11
      <3>2. /\ items[0 + 1] = SetWidth(2) /\ items[0 + 2] = SetFill
            /\ items[0 + 3] = SetHex /\ items[0 + 4] = Put(DISK_MAP)
        BY <1>5, <1>7, Zenon
      <3> QED BY <1>9, <1>11, <2>0, <3>1, <3>2, FourItems
    <2>2. PICK p : p = Padded(Stream(16, 0, 2, o), DISK_MAP)
      OBVIOUS
    <2>3. Numeral(p, 2, DISK_MAP)
      BY <1>11, <2>2, WidthsHold, Zenon DEF WidthHolds
    <2> QED BY <1>11, <2>1, <2>2, <2>3, Zenon DEF o
  <1>13. PICK y : y = <<>> \o p
    OBVIOUS
  <1>14. PICK q : Numeral(q, 16, n) /\ f[7] = Stream(16, 0, 0, y \o q)
    <2>1. f[4 + 3] = Stream(16, 0, 0, y \o Padded(Stream(16, 0, h, y), n))
      <3>1. 4 + 3 <= Len(items) /\ f[4] = Stream(16, 0, 0, y)
        BY <1>11, <1>12, <1>13
      <3>2. items[4 + 1] = SetWidth(h) /\ items[4 + 2] = SetFill /\ items[4 + 3] = Put(n)
        BY <1>5, <1>7, Zenon
      <3> QED BY <1>9, <1>11, <3>1, <3>2, ThreeItems
    <2>2. PICK q : q = Padded(Stream(16, 0, 16, y), n)
      OBVIOUS
    <2>3. Numeral(q, 16, n)
      BY <1>11, <2>2, WidthsHold, Zenon DEF WidthHolds
    <2> QED BY <1>3, <1>11, <2>1, <2>2, <2>3, Zenon
  <1>15. str(items) = y \o q
    <2>1. str(items) = f[7].buf
      BY <1>7, <1>9, Zenon
    <2> QED BY <1>14, <2>1 DEF Stream
  <1> QED BY <1>1, <1>12, <1>13, <1>14, <1>15, Zenon
-----------------------------------------------------------------------------
\* g is the recursive function of At.
Tally(g, a, b) == g = [k \in a - 1 .. b |-> IF k < a THEN 0 ELSE 16 * g[k - 1] + text[k]]

LEMMA TallyIs ==
    ASSUME NEW p, NEW w \in Nat, NEW n, NEW v \in [Nat -> Nat], Valued(v, p), v[w] = n, Len(p) = w,
           NEW a \in Nat \ {0}, NEW b, b = a - 1 + w, \A i \in 1 .. w : text[a - 1 + i] = p[i]
    PROVE  \E g : Tally(g, a, b)
  <1> DEFINE g == [k \in a - 1 .. b |-> v[k - (a - 1)]]
             F(k) == IF k < a THEN 0 ELSE 16 * g[k - 1] + text[k]
  <1>1. v[0] = 0 /\ \A i \in 1 .. w : v[i] = 16 * v[i - 1] + p[i]
    BY Zenon DEF Valued
  <1>2. ASSUME NEW k \in a - 1 .. b
        PROVE  v[k - (a - 1)] = F(k)
    <2>1. CASE k < a
      <3>1. k - (a - 1) = 0
        BY <2>1
      <3> QED BY <1>1, <2>1, <3>1
    <2>2. CASE ~(k < a)
      <3>1. PICK i : i = k - (a - 1)
        OBVIOUS
      <3>2. i \in 1 .. w /\ a - 1 + i = k /\ k - 1 \in a - 1 .. b /\ (k - 1) - (a - 1) = i - 1
        BY <2>2, <3>1
      <3>3. v[i] = 16 * v[i - 1] + p[i] /\ text[k] = p[i]
        BY <1>1, <3>2
      <3>4. g[k - 1] = v[i - 1]
        BY <3>2
      <3> HIDE DEF g
      <3>5. F(k) = 16 * g[k - 1] + text[k]
        BY <2>2, Zenon
      <3> QED BY <3>1, <3>3, <3>4, <3>5, Zenon
    <2> QED BY <2>1, <2>2
  <1> HIDE DEF F
  <1>3. g = [k \in a - 1 .. b |-> F(k)]
    BY <1>2
  <1>4. Tally(g, a, b)
    <2> HIDE DEF g
    <2> QED BY <1>3, Zenon DEF Tally, F
  <1> HIDE DEF g
  <1> QED BY <1>4, Zenon

\* Digits of a number in the text of a field read back as the number.
\* p stands in the text from a on, and ends at b.
Spelled(p, w, a, b) == b = a - 1 + w /\ \A i \in 1 .. w : text[a - 1 + i] = p[i]

LEMMA NumberAt ==
    ASSUME NEW p, NEW w \in Nat, NEW n, Numeral(p, w, n), NEW a \in Nat \ {0}, NEW b,
           Spelled(p, w, a, b)
    PROVE  At(a, b) = n
  <1>0. b = a - 1 + w /\ \A i \in 1 .. w : text[a - 1 + i] = p[i]
    BY DEF Spelled
  <1>1. PICK v \in [Nat -> Nat] : Valued(v, p) /\ v[w] = n
    BY Zenon DEF Numeral
  <1>2. Len(p) = w
    BY Zenon DEF Numeral
  <1>3. \E g : Tally(g, a, b)
    BY <1>0, <1>1, <1>2, TallyIs
  <1> DEFINE r == CHOOSE g : g = [k \in a - 1 .. b |-> IF k < a THEN 0 ELSE 16 * g[k - 1] + text[k]]
  <1>4. At(a, b) = r[b]
    BY Zenon DEF At
  <1>5. Tally(r, a, b)
    BY <1>3, Zenon DEF Tally
  <1> HIDE DEF r
  <1> DEFINE F(k) == IF k < a THEN 0 ELSE 16 * r[k - 1] + text[k]
             S == {i \in Nat : i <= w => r[a - 1 + i] = v[i]}
  <1>6. r = [k \in a - 1 .. b |-> F(k)]
    BY <1>5, Zenon DEF Tally
  <1> HIDE DEF F
  <1>7. \A k \in a - 1 .. b : r[k] = F(k)
    BY <1>6
  <1>8. v[0] = 0 /\ \A i \in 1 .. w : v[i] = 16 * v[i - 1] + p[i]
    BY <1>1, <1>2, Zenon DEF Valued
  <1>9. 0 \in S
    <2>1. PICK k : k = a - 1 + 0
      OBVIOUS
    <2>2. k \in a - 1 .. b /\ k < a
      BY <1>0, <2>1
    <2>3. r[k] = 0
      BY <1>7, <2>2, Zenon DEF F
    <2> QED BY <1>8, <2>1, <2>3
  <1>10. ASSUME NEW i \in Nat, i \in S
         PROVE  i + 1 \in S
    <2>1. CASE i + 1 <= w
      <3>1. PICK k : k = a - 1 + (i + 1)
        OBVIOUS
      <3>2. /\ k \in a - 1 .. b /\ ~(k < a) /\ k - 1 = a - 1 + i /\ i <= w
            /\ i + 1 \in 1 .. w /\ (i + 1) - 1 = i
        BY <1>0, <2>1, <3>1
      <3>3. r[k - 1] = v[i]
        BY <1>10, <3>2
      <3>4. r[k] = 16 * r[k - 1] + text[k]
        BY <1>7, <3>2, Zenon DEF F
      <3>5. text[k] = p[i + 1]
        BY <1>0, <3>1, <3>2
      <3>6. v[i + 1] = 16 * v[i] + p[i + 1]
        BY <1>8, <3>2
      <3>7. r[k] = v[i + 1]
        BY <3>3, <3>4, <3>5, <3>6, Zenon
      <3> QED BY <3>1, <3>7
    <2> QED BY <2>1
  <1> HIDE DEF S
  <1>11. Nat \subseteq S
    BY <1>9, <1>10, SetInduction
  <1>12. r[a - 1 + w] = v[w]
    <2>1. w \in S
      BY <1>11
    <2> QED BY <2>1 DEF S
  <1> QED BY <1>0, <1>1, <1>4, <1>12
-----------------------------------------------------------------------------
\* t is the first n of the texts s, one after the other: text i ends at at[i].
Pieces(t, s, at, n) ==
    /\ IsText(t) /\ Len(t) = at[n]
    /\ \A i \in 0 .. n : at[i] \in Nat /\ at[i] <= at[n]
    /\ \A i \in 1 .. n : \A k \in 1 .. Len(s[i]) : t[at[i - 1] + k] = s[i][k]

LEMMA PiecesJoin ==
    ASSUME NEW t, NEW s, NEW at, NEW n \in Nat, Pieces(t, s, at, n),
           NEW m, m = n + 1, IsText(s[m]), at[m] = at[n] + Len(s[m]),
           \A i \in 1 .. m : IsText(s[i]) /\ at[i] = at[i - 1] + Len(s[i])
    PROVE  Pieces(t \o s[m], s, at, m)
  <1>1. PICK x : x = s[m]
    OBVIOUS
  <1>2. /\ IsText(t \o x) /\ Len(t) \in Nat /\ Len(x) \in Nat
        /\ Len(t \o x) = Len(t) + Len(x)
        /\ \A k \in 1 .. Len(t) : (t \o x)[k] = t[k]
        /\ \A k \in Len(t) + 1 .. Len(t) + Len(x) : (t \o x)[k] = x[k - Len(t)]
    <2>1. IsText(t) /\ IsText(x)
      BY <1>1, Zenon DEF Pieces
    <2> QED BY <2>1, TextJoin
  <1>3. /\ Len(t) = at[n]
        /\ \A i \in 0 .. n : at[i] \in Nat /\ at[i] <= at[n]
        /\ \A i \in 1 .. n : \A k \in 1 .. Len(s[i]) : t[at[i - 1] + k] = s[i][k]
    BY Zenon DEF Pieces
  <1>4. at[m] = Len(t) + Len(x) /\ at[n] <= at[m] /\ at[m] \in Nat
    BY <1>1, <1>2, <1>3
  <1>5. \A i \in 0 .. m : at[i] \in Nat /\ at[i] <= at[m]
    <2> TAKE i \in 0 .. m
    <2>1. CASE i = m
      BY <1>4, <2>1
    <2>2. CASE i # m
      <3>1. i \in 0 .. n
        BY <2>2
      <3>2. at[i] \in Nat /\ at[i] <= at[n] /\ at[n] \in Nat
        BY <1>3, <3>1
      <3> QED BY <1>4, <3>2
    <2> QED BY <2>1, <2>2
  <1>6. ASSUME NEW i \in 1 .. m, NEW k \in 1 .. Len(s[i])
        PROVE  (t \o x)[at[i - 1] + k] = s[i][k]
    <2>1. CASE i = m
      <3>1. i - 1 = n /\ at[n] = Len(t)
        BY <1>3, <2>1
      <3>2. PICK y : y = at[i - 1] + k
        OBVIOUS
      <3>3. k \in 1 .. Len(x)
        BY <1>1, <2>1
      <3>4. y \in Len(t) + 1 .. Len(t) + Len(x) /\ y - Len(t) = k
        BY <1>2, <3>1, <3>2, <3>3
      <3>5. (t \o x)[y] = x[k]
        BY <1>2, <3>4
      <3> QED BY <1>1, <2>1, <3>2, <3>5, Zenon
    <2>2. CASE i # m
      <3>1. i \in 1 .. n /\ i - 1 \in 0 .. n /\ i \in 0 .. n
        BY <2>2
      <3>2. PICK y : y = at[i - 1] + k
        OBVIOUS
      <3>3. at[i - 1] \in Nat /\ at[i] <= at[n] /\ at[i] \in Nat /\ at[n] \in Nat
        BY <1>3, <3>1
      <3>4. at[i] = at[i - 1] + Len(s[i]) /\ Len(s[i]) \in Nat
        <4>1. IsText(s[i])
          OBVIOUS
        <4> QED BY <4>1, TextIs
      <3>5. y \in 1 .. Len(t)
        <4>1. PICK b, c, d, l : b = at[i - 1] /\ c = at[i] /\ d = at[n] /\ l = Len(s[i])
          OBVIOUS
        <4>2. b \in Nat /\ c \in Nat /\ d \in Nat /\ l \in Nat /\ c <= d /\ c = b + l /\ k \in 1 .. l
          BY <3>3, <3>4, <4>1
        <4>3. y = b + k /\ Len(t) = d
          BY <1>3, <3>2, <4>1
        <4> QED BY <4>2, <4>3
      <3>6. (t \o x)[y] = t[y]
        BY <1>2, <3>5, Zenon
      <3>7. t[y] = s[i][k]
        BY <1>3, <3>1, <3>2, Zenon
      <3> QED BY <3>2, <3>6, <3>7, Zenon
    <2> QED BY <2>1, <2>2
  <1>7. Len(t \o x) = at[m]
    BY <1>2, <1>4
  <1>8. Pieces(t \o x, s, at, m)
    BY <1>2, <1>5, <1>6, <1>7, Zenon DEF Pieces
  <1> QED BY <1>1, <1>8, Zenon

\* Where the texts are in what FlattenSeq makes of them.
LEMMA FlatPieces ==
    ASSUME NEW s, IsText(s), NEW at, at[0] = 0,
           \A i \in 1 .. Len(s) : IsText(s[i]) /\ at[i] = at[i - 1] + Len(s[i])
    PROVE  Pieces(FlattenSeq(s), s, at, Len(s))
  <1>1. PICK N \in Nat : N = Len(s)
    BY TextIs
  <1>2. PICK f : /\ Len(s) = 0 => FlattenSeq(s) = <<>>
                 /\ Len(s) # 0 => FlattenSeq(s) = f[Len(s)]
                 /\ \A i \in 1 .. Len(s) : f[i] = IF i = 1 THEN s[i] ELSE f[i - 1] \o s[i]
    BY FlattenTurns
  <1>3. Pieces(<<>>, s, at, 0)
    <2>1. Len(<<>>) = 0 /\ 1 .. 0 = {} /\ \A i \in 0 .. 0 : i = 0
      OBVIOUS
    <2>2. 0 \in Nat /\ 0 <= 0
      OBVIOUS
    <2>3. IsText(<<>>)
      BY TextOne
    <2>4. \A i \in 0 .. 0 : at[i] \in Nat /\ at[i] <= at[0]
      BY <2>1, <2>2, Zenon
    <2> QED BY <2>1, <2>3, <2>4, Zenon DEF Pieces
  <1>4. CASE N = 0
    BY <1>1, <1>2, <1>3, <1>4
  <1> DEFINE S == {n \in Nat : n + 1 <= N => Pieces(f[n + 1], s, at, n + 1)}
  <1>5. CASE N # 0
    <2>1. 0 \in S
      <3>1. 1 \in 1 .. N /\ 1 \in 1 .. 1 /\ 1 - 1 = 0 /\ 0 + 1 = 1
        BY <1>5
      <3>2. f[1] = s[1] /\ IsText(s[1]) /\ at[1] = at[0] + Len(s[1])
        BY <1>1, <1>2, <3>1
      <3>3. \A i \in 1 .. 1 : IsText(s[i]) /\ at[i] = at[i - 1] + Len(s[i])
        BY <3>2
      <3>4. Pieces(<<>> \o s[1], s, at, 1)
        BY <1>3, <3>1, <3>2, <3>3, PiecesJoin
      <3>5. <<>> \o s[1] = s[1]
        <4>1. PICK x : x = s[1]
          OBVIOUS
        <4>2. PICK T : x \in Seq(T)
          BY <3>2, <4>1, Zenon DEF IsText
        <4>3. <<>> \o x = x
          BY <4>2
        <4> QED BY <4>1, <4>3
      <3>6. Pieces(f[1], s, at, 1)
        BY <3>2, <3>4, <3>5, Zenon
      <3> QED BY <3>6
    <2>2. ASSUME NEW n \in Nat, n \in S
          PROVE  n + 1 \in S
      <3>1. CASE (n + 1) + 1 <= N
        <4>1. PICK k, m : k = n + 1 /\ m = k + 1
          OBVIOUS
        <4>2. /\ k \in Nat /\ k <= N /\ m \in 1 .. N /\ m # 1 /\ m - 1 = k
              /\ \A i \in 1 .. m : i \in 1 .. N
          BY <3>1, <4>1
        <4>3. Pieces(f[k], s, at, k)
          BY <2>2, <4>1, <4>2
        <4>4. IsText(s[m]) /\ at[m] = at[k] + Len(s[m])
          BY <1>1, <4>2
        <4>5. \A i \in 1 .. m : IsText(s[i]) /\ at[i] = at[i - 1] + Len(s[i])
          BY <1>1, <4>2
        <4>6. Pieces(f[k] \o s[m], s, at, m)
          BY <4>1, <4>2, <4>3, <4>4, <4>5, PiecesJoin
        <4>7. f[m] = f[k] \o s[m]
          BY <1>1, <1>2, <4>2
        <4>8. Pieces(f[m], s, at, m)
          BY <4>6, <4>7, Zenon
        <4> QED BY <4>1, <4>8
      <3> QED BY <3>1
    <2> HIDE DEF S
    <2>3. Nat \subseteq S
      BY <2>1, <2>2, SetInduction
    <2>4. PICK n \in Nat : n + 1 = N
      <3>1. N - 1 \in Nat /\ (N - 1) + 1 = N
        BY <1>5
      <3> QED BY <3>1
    <2>5. Pieces(f[N], s, at, N)
      <3>1. n \in S
        BY <2>3
      <3> QED BY <2>4, <3>1 DEF S
    <2> QED BY <1>1, <1>2, <1>5, <2>5, Zenon
  <1> QED BY <1>4, <1>5
-----------------------------------------------------------------------------

\* u is the first n bytes, two digits each.
TwoDigits(u, bytes, n) ==
    /\ u \in Seq(Hex) /\ Len(u) = 2 * n
    /\ \A i \in 1 .. n : u[2 * i - 1] = bytes[i] \div 16 /\ u[2 * i] = bytes[i] % 16

LEMMA TwoDigitsNext ==
    ASSUME NEW bytes, NEW n \in Nat, NEW u, TwoDigits(u, bytes, n), NEW m, m = n + 1,
           NEW d, NEW e, d \in Hex, e \in Hex, d = bytes[m] \div 16, e = bytes[m] % 16
    PROVE  TwoDigits(u \o <<d, e>>, bytes, m)
  <1>1. PICK x : x = <<d, e>>
    OBVIOUS
  <1>2. x \in Seq(Hex) /\ Len(x) = 2 /\ x[1] = d /\ x[2] = e
    BY <1>1
  <1>3. /\ u \in Seq(Hex) /\ Len(u) = 2 * n
        /\ \A i \in 1 .. n : u[2 * i - 1] = bytes[i] \div 16 /\ u[2 * i] = bytes[i] % 16
    BY Zenon DEF TwoDigits
  <1>4. PICK y : y = u \o x
    OBVIOUS
  <1>5. /\ y \in Seq(Hex) /\ Len(y) = Len(u) + Len(x)
        /\ \A k \in 1 .. Len(u) + Len(x) : y[k] = IF k <= Len(u) THEN u[k] ELSE x[k - Len(u)]
    BY <1>2, <1>3, <1>4, ConcatProperties, Zenon
  <1>6. \A k \in 1 .. 2 * n + 2 : y[k] = IF k <= 2 * n THEN u[k] ELSE x[k - 2 * n]
    BY <1>2, <1>3, <1>5
  <1>7. Len(y) = 2 * m
    BY <1>2, <1>3, <1>5
  <1>8. ASSUME NEW i \in 1 .. m
        PROVE  y[2 * i - 1] = bytes[i] \div 16 /\ y[2 * i] = bytes[i] % 16
    <2>1. PICK l, k : l = 2 * i - 1 /\ k = 2 * i
      OBVIOUS
    <2>2. l \in 1 .. 2 * n + 2 /\ k \in 1 .. 2 * n + 2
      BY <2>1
    <2>3. CASE i = m
      <3>1. ~(l <= 2 * n) /\ ~(k <= 2 * n) /\ l - 2 * n = 1 /\ k - 2 * n = 2
        <4>1. l = 2 * n + 1 /\ k = 2 * n + 2
          BY <2>1, <2>3
        <4> QED BY <4>1
      <3>2. y[l] = x[1] /\ y[k] = x[2]
        BY <1>6, <2>2, <3>1
      <3> QED BY <1>2, <2>1, <2>3, <3>2, Zenon
    <2>4. CASE i # m
      <3>1. l <= 2 * n /\ k <= 2 * n /\ i \in 1 .. n
        BY <2>1, <2>4
      <3>2. y[l] = u[l] /\ y[k] = u[k]
        BY <1>6, <2>2, <3>1
      <3> QED BY <1>3, <2>1, <3>1, <3>2, Zenon
    <2> QED BY <2>3, <2>4
  <1>9. TwoDigits(y, bytes, m)
    BY <1>5, <1>7, <1>8, Zenon DEF TwoDigits
  <1> QED BY <1>1, <1>4, <1>9

LEMMA TwoOnes ==
    ASSUME NEW d, NEW e
    PROVE  <<d>> \o <<e>> = <<d, e>> /\ Append(<<d>>, e) = <<d, e>>
  <1>1. PICK S : S = {d, e}
    OBVIOUS
  <1>2. PICK x, y : x = <<d>> /\ y = <<e>>
    OBVIOUS
  <1>3. x \in Seq(S) /\ y \in Seq(S) /\ Len(x) = 1 /\ Len(y) = 1 /\ x[1] = d /\ y[1] = e /\ e \in S
    BY <1>1, <1>2
  <1>4. PICK q, a : q = x \o y /\ a = Append(x, e)
    OBVIOUS
  <1>5. /\ q \in Seq(S) /\ Len(q) = Len(x) + Len(y)
        /\ \A k \in 1 .. Len(x) + Len(y) : q[k] = IF k <= Len(x) THEN x[k] ELSE y[k - Len(x)]
    BY <1>3, <1>4, ConcatProperties
  <1>6. a \in Seq(S) /\ Len(a) = Len(x) + 1 /\ a[Len(x) + 1] = e /\ \A k \in 1 .. Len(x) : a[k] = x[k]
    <2>1. /\ Append(x, e) \in Seq(S) /\ Len(Append(x, e)) = Len(x) + 1
          /\ Append(x, e)[Len(x) + 1] = e /\ \A k \in 1 .. Len(x) : Append(x, e)[k] = x[k]
      <3>1. x \in Seq(S) /\ e \in S
        BY <1>3
      <3> HIDE <1>1, <1>2, <1>3, <1>4, <1>5
      <3> QED BY <3>1, AppendProperties
    <2> QED BY <1>4, <2>1, Zenon
  <1>7. Len(q) = 2 /\ q[1] = d /\ q[2] = e
    BY <1>3, <1>5
  <1>8. Len(a) = 2 /\ a[1] = d /\ a[2] = e
    BY <1>3, <1>6
  <1>9. PICK t : t = <<d, e>>
    OBVIOUS
  <1>10. t \in Seq(S) /\ Len(t) = 2 /\ t[1] = d /\ t[2] = e
    BY <1>1, <1>9
  <1>11. q = t
    BY <1>5, <1>7, <1>10, SeqEqual
  <1>12. a = t
    BY <1>6, <1>8, <1>10, SeqEqual
  <1> QED BY <1>2, <1>4, <1>9, <1>11, <1>12, Zenon

LEMMA NoDigits ==
    ASSUME NEW bytes
    PROVE  TwoDigits(<<>>, bytes, 0)
  <1>1. /\ <<>> \in Seq(Hex) /\ Len(<<>>) = 2 * 0 /\ 1 .. 0 = {}
    OBVIOUS
  <1> QED BY <1>1, Zenon DEF TwoDigits

\* The digits of a byte.
LEMMA ByteDigits ==
    ASSUME NEW b \in 0 .. 255
    PROVE  /\ b \div 16 \in Hex /\ b % 16 \in Hex
           /\ b < 16 => Digits(b, 16) = <<b>> /\ b \div 16 = 0 /\ b % 16 = b
           /\ b >= 16 => Digits(b, 16) = <<b \div 16, b % 16>>
  <1>1. b \in Nat /\ b \in 0 .. b
    OBVIOUS
  <1>2. PICK f : DigitsOf(f, b) /\ Digits(b, 16) = f[b]
    BY <1>1, DigitsIs
  <1>3. PICK d, e : d = b \div 16 /\ e = b % 16
    OBVIOUS
  <1>4. d \in Hex /\ e \in Hex /\ d \in 0 .. b /\ d < 16 /\ (b < 16 => d = 0 /\ e = b)
    BY <1>3 DEF Hex
  <1>5. b < 16 => f[b] = <<b>>
    BY <1>1, <1>2, DigitsTurn
  <1>6. f[d] = <<d>>
    BY <1>1, <1>2, <1>4, DigitsTurn
  <1>7. b >= 16 => f[b] = Append(f[d], e)
    BY <1>1, <1>2, <1>3, DigitsTurn
  <1>8. Append(<<d>>, e) = <<d, e>>
    BY TwoOnes, Zenon
  <1> QED BY <1>2, <1>3, <1>4, <1>5, <1>6, <1>7, <1>8, Zenon

\* o fills what the digits x leave of a width.
Fills(o, fill, width, x) == o = [i \in 1 .. width - Len(x) |-> fill]

LEMMA DigitsPadded ==
    ASSUME NEW fill, NEW width, NEW u, NEW n, NEW o, Fills(o, fill, width, Digits(n, 16))
    PROVE  Padded(Stream(16, fill, width, u), n) = o \o Digits(n, 16)
  <1>1. PICK s : s = Stream(16, fill, width, u)
    OBVIOUS
  <1>2. s.base = 16 /\ s.fill = fill /\ s.width = width
    BY <1>1 DEF Stream
  <1>3. Padded(s, n) = [i \in 1 .. s.width - Len(Digits(n, s.base)) |-> s.fill] \o Digits(n, s.base)
    BY Zenon DEF Padded
  <1> QED BY <1>1, <1>2, <1>3, Zenon DEF Fills

LEMMA BytePadded ==
    ASSUME NEW b \in 0 .. 255, NEW u, NEW fill
    PROVE  /\ Padded(Stream(16, 0, 2, u), b) = <<b \div 16, b % 16>>
           /\ Padded(Stream(16, fill, 0, u), b) = Digits(b, 16)
  <1>1. PICK d, e, x : d = b \div 16 /\ e = b % 16 /\ x = Digits(b, 16)
    OBVIOUS
  <1>2. /\ d \in Hex /\ e \in Hex
        /\ b < 16 => x = <<b>> /\ d = 0 /\ e = b
        /\ b >= 16 => x = <<d, e>>
    BY <1>1, ByteDigits, Zenon
  <1>3. PICK o : o = [i \in 1 .. 2 - Len(x) |-> 0]
    OBVIOUS
  <1>4. PICK z : z = [i \in 1 .. 0 - Len(x) |-> fill]
    OBVIOUS
  <1>5. Padded(Stream(16, 0, 2, u), b) = o \o x
    <2>1. Fills(o, 0, 2, Digits(b, 16))
      BY <1>1, <1>3, Zenon DEF Fills
    <2>2. Padded(Stream(16, 0, 2, u), b) = o \o Digits(b, 16)
      BY <2>1, DigitsPadded, Zenon
    <2> QED BY <1>1, <2>2, Zenon
  <1>6. Padded(Stream(16, fill, 0, u), b) = z \o x
    <2>1. Fills(z, fill, 0, Digits(b, 16))
      BY <1>1, <1>4, Zenon DEF Fills
    <2>2. Padded(Stream(16, fill, 0, u), b) = z \o Digits(b, 16)
      BY <2>1, DigitsPadded, Zenon
    <2> QED BY <1>1, <2>2, Zenon
  <1>7. CASE b < 16
    <2>1. x = <<e>> /\ Len(x) = 1 /\ d = 0
      BY <1>2, <1>7
    <2>2. o = <<0>>
      <3>1. 2 - Len(x) = 1
        BY <2>1
      <3>2. o = [i \in 1 .. 1 |-> 0]
        BY <1>3, <3>1, Zenon
      <3> QED BY <3>2
    <2>3. <<0>> \o <<e>> = <<0, e>>
      BY TwoOnes, Zenon
    <2>4. z = <<>>
      <3>1. 1 .. 0 - Len(x) = {}
        BY <2>1
      <3>2. z = [i \in {} |-> fill]
        BY <1>4, <3>1, Zenon
      <3> QED BY <3>2
    <2>5. <<>> \o <<e>> = <<e>>
      OBVIOUS
    <2>6. Padded(Stream(16, 0, 2, u), b) = <<d, e>>
      BY <1>5, <2>1, <2>2, <2>3, Zenon
    <2>7. Padded(Stream(16, fill, 0, u), b) = x
      BY <1>6, <2>1, <2>4, <2>5, Zenon
    <2> QED BY <1>1, <2>6, <2>7, Zenon
  <1>8. CASE b >= 16
    <2>1. x = <<d, e>> /\ Len(x) = 2
      BY <1>2, <1>8
    <2>2. 1 .. 2 - Len(x) = {} /\ 1 .. 0 - Len(x) = {}
      BY <2>1
    <2>3. o = [i \in {} |-> 0] /\ z = [i \in {} |-> fill]
      BY <1>3, <1>4, <2>2, Zenon
    <2>4. o = <<>> /\ z = <<>>
      BY <2>3
    <2>5. <<>> \o <<d, e>> = <<d, e>>
      OBVIOUS
    <2>6. Padded(Stream(16, 0, 2, u), b) = <<d, e>>
      BY <1>5, <2>1, <2>4, <2>5, Zenon
    <2>7. Padded(Stream(16, fill, 0, u), b) = x
      BY <1>6, <2>1, <2>4, <2>5, Zenon
    <2> QED BY <1>1, <2>6, <2>7, Zenon
  <1> QED BY <1>7, <1>8
-----------------------------------------------------------------------------

LEMMA FunctionIsText ==
    ASSUME NEW N \in Nat, NEW s, s = [i \in 1 .. N |-> s[i]]
    PROVE  IsText(s) /\ Len(s) = N
  <1>1. PICK S : S = {s[i] : i \in 1 .. N}
    OBVIOUS
  <1>2. \A i \in 1 .. N : s[i] \in S
    BY <1>1
  <1>3. s \in Seq(S) /\ Len(s) = N
    BY <1>2, FunctionIsSeq
  <1> QED BY <1>3, Zenon DEF IsText

LEMMA TupleIsText ==
    ASSUME NEW a, NEW b, NEW c, NEW d
    PROVE  /\ IsText(<<a, b, c, d>>) /\ Len(<<a, b, c, d>>) = 4
           /\ <<a, b, c, d>>[1] = a /\ <<a, b, c, d>>[2] = b
           /\ <<a, b, c, d>>[3] = c /\ <<a, b, c, d>>[4] = d
           /\ IsText(<<a, b>>) /\ Len(<<a, b>>) = 2
           /\ <<a, b>>[1] = a /\ <<a, b>>[2] = b
  <1>1. <<a, b, c, d>> \in Seq({a, b, c, d}) /\ <<a, b>> \in Seq({a, b})
    OBVIOUS
  <1>2. IsText(<<a, b, c, d>>) /\ IsText(<<a, b>>)
    BY <1>1, Zenon DEF IsText
  <1> QED BY <1>2

\* The items that print the bytes, four for each.
LEMMA ByteItems ==
    ASSUME NEW N \in Nat, NEW bytes \in Seq(0 .. 255), Len(bytes) = N
    PROVE  LET items == bytesAsString(bytes)
           IN  /\ IsText(items) /\ Len(items) = 4 * N
               /\ \A i \in 1 .. N : /\ items[4 * (i - 1) + 1] = SetWidth(2)
                                    /\ items[4 * (i - 1) + 2] = SetFill
                                    /\ items[4 * (i - 1) + 3] = SetHex
                                    /\ items[4 * (i - 1) + 4] = Put(bytes[i])
  <1>1. PICK s : s = [i \in 1 .. Len(bytes) |-> <<SetWidth(2), SetFill, SetHex, Put(bytes[i])>>]
    OBVIOUS
  <1>2. bytesAsString(bytes) = FlattenSeq(s)
    BY <1>1, Zenon DEF bytesAsString
  <1>3. /\ s = [i \in 1 .. N |-> s[i]]
        /\ \A i \in 1 .. N : s[i] = <<SetWidth(2), SetFill, SetHex, Put(bytes[i])>>
    BY <1>1
  <1>4. IsText(s) /\ Len(s) = N
    BY <1>3, FunctionIsText, Zenon
  <1>5. \A i \in 1 .. N : /\ IsText(s[i]) /\ Len(s[i]) = 4
                          /\ s[i][1] = SetWidth(2) /\ s[i][2] = SetFill
                          /\ s[i][3] = SetHex /\ s[i][4] = Put(bytes[i])
    <2> TAKE i \in 1 .. N
    <2>1. PICK a, b, c, d : a = SetWidth(2) /\ b = SetFill /\ c = SetHex /\ d = Put(bytes[i])
      BY Zenon
    <2>2. s[i] = <<a, b, c, d>>
      BY <1>3, <2>1, Zenon
    <2>3. PICK x : x = <<a, b, c, d>>
      OBVIOUS
    <2>4. IsText(x) /\ Len(x) = 4 /\ x[1] = a /\ x[2] = b /\ x[3] = c /\ x[4] = d
      BY <2>3, TupleIsText
    <2> QED BY <2>1, <2>2, <2>3, <2>4, Zenon
  <1>6. PICK at : at = [i \in Nat |-> 4 * i]
    OBVIOUS
  <1>7. at[0] = 0 /\ \A i \in 1 .. N : at[i] = at[i - 1] + 4 /\ at[i - 1] = 4 * (i - 1)
    <2>1. \A i \in 1 .. N : i \in Nat /\ i - 1 \in Nat
      OBVIOUS
    <2>2. \A i \in Nat : at[i] = 4 * i
      BY <1>6
    <2>3. at[0] = 0
      BY <2>2
    <2>4. ASSUME NEW i \in 1 .. N
          PROVE  at[i] = at[i - 1] + 4 /\ at[i - 1] = 4 * (i - 1)
      <3>1. at[i] = 4 * i /\ at[i - 1] = 4 * (i - 1)
        BY <2>1, <2>2, Zenon
      <3> QED BY <3>1
    <2> QED BY <2>3, <2>4
  <1>8. \A i \in 1 .. Len(s) : IsText(s[i]) /\ at[i] = at[i - 1] + Len(s[i])
    BY <1>4, <1>5, <1>7, Zenon
  <1>9. PICK items : items = FlattenSeq(s)
    OBVIOUS
  <1>10. Pieces(items, s, at, N)
    BY <1>4, <1>7, <1>8, <1>9, FlatPieces, Zenon
  <1>11. /\ IsText(items) /\ Len(items) = at[N]
         /\ \A i \in 1 .. N : \A k \in 1 .. Len(s[i]) : items[at[i - 1] + k] = s[i][k]
    BY <1>10, Zenon DEF Pieces
  <1>12. ASSUME NEW i \in 1 .. N
         PROVE  /\ items[4 * (i - 1) + 1] = SetWidth(2)
                /\ items[4 * (i - 1) + 2] = SetFill
                /\ items[4 * (i - 1) + 3] = SetHex
                /\ items[4 * (i - 1) + 4] = Put(bytes[i])
    <2>1. 1 \in 1 .. 4 /\ 2 \in 1 .. 4 /\ 3 \in 1 .. 4 /\ 4 \in 1 .. 4
      OBVIOUS
    <2>2. \A k \in 1 .. 4 : items[4 * (i - 1) + k] = s[i][k]
      <3>1. Len(s[i]) = 4 /\ at[i - 1] = 4 * (i - 1)
        BY <1>5, <1>7, Zenon
      <3>2. \A k \in 1 .. Len(s[i]) : items[at[i - 1] + k] = s[i][k]
        BY <1>11, Zenon
      <3> QED BY <3>1, <3>2
    <2> QED BY <1>5, <2>1, <2>2, Zenon
  <1>13. Len(items) = 4 * N
    BY <1>6, <1>11
  <1> QED BY <1>2, <1>9, <1>11, <1>12, <1>13, Zenon

\* The bytes of an id are printed in twos.
LEMMA BytesAre ==
    ASSUME NEW N \in Nat, NEW bytes \in Seq(0 .. 255), Len(bytes) = N
    PROVE  TwoDigits(str(bytesAsString(bytes)), bytes, N)
  <1>1. PICK items : items = bytesAsString(bytes)
    OBVIOUS
  <1>2. /\ IsText(items) /\ Len(items) = 4 * N
        /\ \A i \in 1 .. N : /\ items[4 * (i - 1) + 1] = SetWidth(2)
                             /\ items[4 * (i - 1) + 2] = SetFill
                             /\ items[4 * (i - 1) + 3] = SetHex
                             /\ items[4 * (i - 1) + 4] = Put(bytes[i])
    BY <1>1, ByteItems, Zenon
  <1>3. PICK f : Streams(f, items) /\ str(items) = f[Len(items)].buf
    BY <1>2, StreamIs
  <1> DEFINE Done_(n) == \E base, fill, u : f[4 * n] = Stream(base, fill, 0, u) /\ TwoDigits(u, bytes, n)
             S == {n \in Nat : n <= N => Done_(n)}
  <1>4. 0 \in S
    <2>1. f[0] = Stream(10, Blank, 0, <<>>)
      BY <1>3, FreshIs, Zenon DEF Streams
    <2>2. 4 * 0 = 0 /\ 0 \in Nat
      OBVIOUS
    <2>3. f[4 * 0] = Stream(10, Blank, 0, <<>>)
      BY <2>1, <2>2
    <2>4. Done_(0)
      BY <2>3, NoDigits, Zenon
    <2> QED BY <2>2, <2>4
  <1>5. ASSUME NEW n \in Nat, n \in S
        PROVE  n + 1 \in S
    <2>1. CASE n + 1 <= N
      <3>1. PICK m, k : m = n + 1 /\ k = 4 * n
        OBVIOUS
      <3>2. /\ m \in 1 .. N /\ m - 1 = n /\ n <= N /\ k \in Nat /\ 4 * m = k + 4
            /\ Len(items) \in Nat /\ k + 4 <= Len(items)
        BY <1>2, <2>1, <3>1
      <3>3. Done_(n)
        BY <1>5, <3>2
      <3>4. PICK base, fill, u : f[k] = Stream(base, fill, 0, u) /\ TwoDigits(u, bytes, n)
        BY <3>1, <3>3, Zenon
      <3>5. PICK b : b = bytes[m]
        OBVIOUS
      <3>6. b \in 0 .. 255
        <4>1. m \in 1 .. Len(bytes)
          BY <3>2
        <4> QED BY <3>5, <4>1, ElementOfSeq
      <3>7. /\ items[k + 1] = SetWidth(2) /\ items[k + 2] = SetFill
            /\ items[k + 3] = SetHex /\ items[k + 4] = Put(b)
        BY <1>2, <3>1, <3>2, <3>5, Zenon
      <3>8. f[k + 4] = Stream(16, 0, 0, u \o Padded(Stream(16, 0, 2, u), b))
        BY <1>3, <3>2, <3>4, <3>7, FourItems
      <3>9. PICK d, e : d = b \div 16 /\ e = b % 16
        OBVIOUS
      <3>10. d \in Hex /\ e \in Hex /\ Padded(Stream(16, 0, 2, u), b) = <<d, e>>
        BY <3>6, <3>9, ByteDigits, BytePadded, Zenon
      <3>11. TwoDigits(u \o <<d, e>>, bytes, m)
        BY <3>1, <3>4, <3>5, <3>9, <3>10, TwoDigitsNext
      <3>12. f[4 * m] = Stream(16, 0, 0, u \o <<d, e>>)
        BY <3>2, <3>8, <3>10, Zenon
      <3>13. Done_(m)
        BY <3>11, <3>12, Zenon
      <3> QED BY <3>1, <3>13
    <2> QED BY <2>1
  <1> HIDE DEF S
  <1>6. Nat \subseteq S
    BY <1>4, <1>5, SetInduction
  <1>7. Done_(N)
    <2>1. N \in S
      BY <1>6
    <2> QED BY <2>1 DEF S
  <1>8. PICK base, fill, u : f[Len(items)] = Stream(base, fill, 0, u) /\ TwoDigits(u, bytes, N)
    BY <1>2, <1>7, Zenon
  <1>9. str(items) = u
    BY <1>3, <1>8 DEF Stream
  <1> QED BY <1>1, <1>8, <1>9, Zenon

\* u is the first n bytes, each in as few digits as it needs.
FewDigits(u, bytes, n) ==
    /\ u \in Seq(Hex) /\ Len(u) <= 2 * n
    /\ (\A i \in 1 .. n : bytes[i] >= 16) => TwoDigits(u, bytes, n)
    /\ (\E i \in 1 .. n : bytes[i] < 16) => Len(u) < 2 * n

LEMMA FewDigitsNext ==
    ASSUME NEW bytes, NEW n \in Nat, NEW u, FewDigits(u, bytes, n), NEW m, m = n + 1,
           NEW b \in 0 .. 255, b = bytes[m]
    PROVE  FewDigits(u \o Digits(b, 16), bytes, m)
  <1>1. PICK x : x = Digits(b, 16)
    OBVIOUS
  <1>2. PICK d, e : d = b \div 16 /\ e = b % 16
    OBVIOUS
  <1>3. /\ d \in Hex /\ e \in Hex
        /\ b < 16 => x = <<b>> /\ e = b
        /\ b >= 16 => x = <<d, e>>
    BY <1>1, <1>2, ByteDigits, Zenon
  <1>4. x \in Seq(Hex) /\ (b < 16 => Len(x) = 1) /\ (b >= 16 => Len(x) = 2)
    <2>1. <<e>> \in Seq(Hex) /\ Len(<<e>>) = 1 /\ <<d, e>> \in Seq(Hex) /\ Len(<<d, e>>) = 2
      BY <1>3
    <2>2. b < 16 \/ b >= 16
      OBVIOUS
    <2>3. b < 16 => x = <<e>>
      BY <1>3, Zenon
    <2> QED BY <1>3, <2>1, <2>2, <2>3, Zenon
  <1>5. PICK y : y = u \o x
    OBVIOUS
  <1>6. u \in Seq(Hex) /\ Len(u) <= 2 * n
    BY Zenon DEF FewDigits
  <1>7. y \in Seq(Hex) /\ Len(y) = Len(u) + Len(x) /\ Len(u) \in Nat
    BY <1>4, <1>5, <1>6, ConcatProperties
  <1>8. \A i \in 1 .. n : i \in 1 .. m
    OBVIOUS
  <1>9. m \in 1 .. m
    OBVIOUS
  <1>10. CASE b < 16
    <2>1. Len(y) < 2 * m /\ Len(y) <= 2 * m
      <3>1. Len(x) = 1
        BY <1>4, <1>10, Zenon
      <3>2. PICK l, k : l = Len(u) /\ k = Len(y)
        OBVIOUS
      <3>3. k = l + 1 /\ l \in Nat /\ l <= 2 * n
        BY <1>6, <1>7, <3>1, <3>2
      <3>4. k < 2 * m /\ k <= 2 * m
        BY <3>3
      <3> QED BY <3>2, <3>4
    <2>2. ~(b >= 16)
      BY <1>10
    <2>3. ~(\A i \in 1 .. m : bytes[i] >= 16)
      BY <1>9, <2>2
    <2>4. FewDigits(y, bytes, m)
      BY <1>7, <2>1, <2>3, Zenon DEF FewDigits
    <2> QED BY <1>1, <1>5, <2>4, Zenon
  <1>11. CASE b >= 16
    <2>1. Len(y) <= 2 * m /\ Len(y) = Len(u) + 2
      <3>1. Len(x) = 2
        BY <1>4, <1>11, Zenon
      <3>2. PICK l, k : l = Len(u) /\ k = Len(y)
        OBVIOUS
      <3>3. k = l + 2 /\ l \in Nat /\ l <= 2 * n
        BY <1>6, <1>7, <3>1, <3>2
      <3>4. k <= 2 * m
        BY <3>3
      <3> QED BY <3>2, <3>3, <3>4
    <2>2. ASSUME \A i \in 1 .. m : bytes[i] >= 16
          PROVE  TwoDigits(y, bytes, m)
      <3>1. TwoDigits(u, bytes, n)
        BY <1>8, <2>2, Zenon DEF FewDigits
      <3>2. TwoDigits(u \o <<d, e>>, bytes, m)
        BY <1>2, <1>3, <3>1, TwoDigitsNext
      <3> QED BY <1>3, <1>5, <1>11, <3>2, Zenon
    <2>3. ASSUME NEW i \in 1 .. m, bytes[i] < 16
          PROVE  Len(y) < 2 * m
      <3>1. i # m
        BY <1>11, <2>3
      <3>2. i \in 1 .. n
        BY <3>1
      <3>3. Len(u) < 2 * n
        BY <2>3, <3>2, Zenon DEF FewDigits
      <3> QED BY <1>7, <2>1, <3>3
    <2>4. FewDigits(y, bytes, m)
      BY <1>7, <2>1, <2>2, <2>3, Zenon DEF FewDigits
    <2> QED BY <1>1, <1>5, <2>4, Zenon
  <1> QED BY <1>10, <1>11

\* The items that fsIDAsString prints behind the first, two for each byte.
LEMMA FsItems ==
    ASSUME NEW N \in Nat, NEW bytes \in Seq(0 .. 255), Len(bytes) = N
    PROVE  LET items == fsIDAsString(bytes)
           IN  /\ IsText(items) /\ Len(items) = 2 * N + 1 /\ items[1] = SetHex
               /\ \A i \in 1 .. N : /\ items[(2 * (i - 1) + 1) + 1] = SetHex
                                    /\ items[(2 * (i - 1) + 1) + 2] = Put(bytes[i])
  <1>1. PICK s : s = [i \in 1 .. Len(bytes) |-> <<SetHex, Put(bytes[i])>>]
    OBVIOUS
  <1>2. PICK h, fl : h = <<SetHex>> /\ fl = FlattenSeq(s)
    BY Zenon
  <1>3. fsIDAsString(bytes) = h \o fl
    BY <1>1, <1>2, Zenon DEF fsIDAsString
  <1>4. s = [i \in 1 .. N |-> s[i]] /\ \A i \in 1 .. N : s[i] = <<SetHex, Put(bytes[i])>>
    BY <1>1
  <1>5. IsText(s) /\ Len(s) = N
    BY <1>4, FunctionIsText, Zenon
  <1>6. \A i \in 1 .. N : IsText(s[i]) /\ Len(s[i]) = 2 /\ s[i][1] = SetHex /\ s[i][2] = Put(bytes[i])
    <2> TAKE i \in 1 .. N
    <2>1. PICK a, b : a = SetHex /\ b = Put(bytes[i])
      BY Zenon
    <2>2. s[i] = <<a, b>>
      BY <1>4, <2>1, Zenon
    <2>3. PICK x : x = <<a, b>>
      OBVIOUS
    <2>4. IsText(x) /\ Len(x) = 2 /\ x[1] = a /\ x[2] = b
      BY <2>3, TupleIsText
    <2> QED BY <2>1, <2>2, <2>3, <2>4, Zenon
  <1>7. PICK at : at = [i \in Nat |-> 2 * i]
    OBVIOUS
  <1>8. at[0] = 0 /\ \A i \in 1 .. N : at[i] = at[i - 1] + 2 /\ at[i - 1] = 2 * (i - 1)
    <2>1. \A i \in 1 .. N : i \in Nat /\ i - 1 \in Nat
      OBVIOUS
    <2>2. \A i \in Nat : at[i] = 2 * i
      BY <1>7
    <2>3. at[0] = 0
      BY <2>2
    <2>4. ASSUME NEW i \in 1 .. N
          PROVE  at[i] = at[i - 1] + 2 /\ at[i - 1] = 2 * (i - 1)
      <3>1. at[i] = 2 * i /\ at[i - 1] = 2 * (i - 1)
        BY <2>1, <2>2, Zenon
      <3> QED BY <3>1
    <2> QED BY <2>3, <2>4
  <1>9. \A i \in 1 .. Len(s) : IsText(s[i]) /\ at[i] = at[i - 1] + Len(s[i])
    BY <1>5, <1>6, <1>8, Zenon
  <1>10. Pieces(fl, s, at, N)
    BY <1>2, <1>5, <1>8, <1>9, FlatPieces, Zenon
  <1>11. /\ IsText(fl) /\ Len(fl) = at[N]
         /\ \A i \in 1 .. N : \A k \in 1 .. Len(s[i]) : fl[at[i - 1] + k] = s[i][k]
    BY <1>10, Zenon DEF Pieces
  <1>12. Len(fl) = 2 * N
    BY <1>7, <1>11
  <1>13. IsText(h) /\ Len(h) = 1 /\ h[1] = SetHex
    BY <1>2, TextOne
  <1>14. PICK items : items = h \o fl
    OBVIOUS
  <1>15. /\ IsText(items) /\ Len(items) = 2 * N + 1 /\ items[1] = SetHex
         /\ \A k \in 1 .. 2 * N : items[k + 1] = fl[k]
    <2>1. /\ IsText(items) /\ Len(items) = Len(h) + Len(fl)
          /\ \A n \in 1 .. Len(h) : items[n] = h[n]
          /\ \A n \in Len(h) + 1 .. Len(h) + Len(fl) : items[n] = fl[n - Len(h)]
      <3>1. IsText(fl) /\ IsText(h)
        BY <1>11, <1>13
      <3> QED BY <1>14, <3>1, TextJoin
    <2>2. items[1] = SetHex
      BY <1>13, <2>1
    <2>3. ASSUME NEW k \in 1 .. 2 * N
          PROVE  items[k + 1] = fl[k]
      <3>1. PICK n : n = k + 1
        OBVIOUS
      <3>2. n \in Len(h) + 1 .. Len(h) + Len(fl) /\ n - Len(h) = k
        BY <1>12, <1>13, <3>1
      <3> QED BY <2>1, <3>1, <3>2
    <2>4. Len(items) = 2 * N + 1
      BY <1>12, <1>13, <2>1
    <2> QED BY <2>1, <2>2, <2>3, <2>4
  <1>16. ASSUME NEW i \in 1 .. N
         PROVE  /\ items[(2 * (i - 1) + 1) + 1] = SetHex
                /\ items[(2 * (i - 1) + 1) + 2] = Put(bytes[i])
    <2>1. PICK k, l : k = 2 * (i - 1) + 1 /\ l = 2 * (i - 1) + 2
      OBVIOUS
    <2>2. /\ k \in 1 .. 2 * N /\ l \in 1 .. 2 * N
          /\ k + 1 = (2 * (i - 1) + 1) + 1 /\ l + 1 = (2 * (i - 1) + 1) + 2
      BY <2>1
    <2>3. fl[k] = s[i][1] /\ fl[l] = s[i][2]
      <3>1. Len(s[i]) = 2 /\ at[i - 1] = 2 * (i - 1)
        BY <1>6, <1>8, Zenon
      <3>2. \A n \in 1 .. Len(s[i]) : fl[at[i - 1] + n] = s[i][n]
        BY <1>11, Zenon
      <3>3. 1 \in 1 .. 2 /\ 2 \in 1 .. 2
        OBVIOUS
      <3> QED BY <2>1, <3>1, <3>2, <3>3, Zenon
    <2>4. items[k + 1] = fl[k] /\ items[l + 1] = fl[l]
      BY <1>15, <2>2, Zenon
    <2>5. s[i][1] = SetHex /\ s[i][2] = Put(bytes[i])
      BY <1>6, Zenon
    <2> QED BY <2>2, <2>3, <2>4, <2>5, Zenon
  <1> QED BY <1>3, <1>14, <1>15, <1>16, Zenon

LEMMA FsIdIs ==
    ASSUME NEW N \in Nat, NEW bytes \in Seq(0 .. 255), Len(bytes) = N
    PROVE  FewDigits(str(fsIDAsString(bytes)), bytes, N)
  <1>1. PICK items : items = fsIDAsString(bytes)
    OBVIOUS
  <1>2. /\ IsText(items) /\ Len(items) = 2 * N + 1 /\ items[1] = SetHex
        /\ \A i \in 1 .. N : /\ items[(2 * (i - 1) + 1) + 1] = SetHex
                             /\ items[(2 * (i - 1) + 1) + 2] = Put(bytes[i])
    BY <1>1, FsItems, Zenon
  <1>3. PICK f : Streams(f, items) /\ str(items) = f[Len(items)].buf
    BY <1>2, StreamIs
  <1> DEFINE Done_(n) == \E u : f[2 * n + 1] = Stream(16, Blank, 0, u) /\ FewDigits(u, bytes, n)
             S == {n \in Nat : n <= N => Done_(n)}
  <1>4. 0 \in S
    <2>1. f[0] = Stream(10, Blank, 0, <<>>)
      BY <1>3, FreshIs, Zenon DEF Streams
    <2>2. 1 \in 1 .. Len(items) /\ 1 - 1 = 0 /\ 2 * 0 + 1 = 1
      BY <1>2
    <2>3. f[1] = Apply(f[0], SetHex)
      BY <1>2, <1>3, <2>2, Zenon DEF Streams
    <2>4. f[1] = Stream(16, Blank, 0, <<>>)
      <3>1. PICK o : o = <<>>
        OBVIOUS
      <3>2. f[0] = Stream(10, Blank, 0, o)
        BY <2>1, <3>1, Zenon
      <3>3. Apply(f[0], SetHex) = Stream(16, Blank, 0, o)
        <4>1. PICK s, c : s = f[0] /\ c = Blank
          OBVIOUS
        <4>2. s = Stream(10, c, 0, o)
          BY <3>2, <4>1, Zenon
        <4>3. Apply(s, SetHex) = Stream(16, c, 0, o) /\ Apply(s, SetWidth(c)) = Stream(10, c, c, o)
          BY <4>2, ApplyItem
        <4> QED BY <4>1, <4>3, Zenon
      <3> QED BY <2>3, <3>1, <3>3, Zenon
    <2>5. FewDigits(<<>>, bytes, 0)
      <3>1. <<>> \in Seq(Hex) /\ Len(<<>>) <= 2 * 0 /\ 1 .. 0 = {}
        OBVIOUS
      <3> QED BY <3>1, NoDigits, Zenon DEF FewDigits
    <2>6. Done_(0)
      BY <2>2, <2>4, <2>5, Zenon
    <2> QED BY <2>6
  <1>5. ASSUME NEW n \in Nat, n \in S
        PROVE  n + 1 \in S
    <2>1. CASE n + 1 <= N
      <3>1. PICK m, k : m = n + 1 /\ k = 2 * n + 1
        OBVIOUS
      <3>2. /\ m \in 1 .. N /\ m - 1 = n /\ n <= N /\ k \in Nat /\ 2 * m + 1 = k + 2
            /\ Len(items) \in Nat /\ k + 2 <= Len(items)
        BY <1>2, <2>1, <3>1
      <3>3. Done_(n)
        BY <1>5, <3>2
      <3>4. PICK u : f[k] = Stream(16, Blank, 0, u) /\ FewDigits(u, bytes, n)
        BY <3>1, <3>3, Zenon
      <3>5. PICK b : b = bytes[m]
        OBVIOUS
      <3>6. b \in 0 .. 255
        <4>1. m \in 1 .. Len(bytes)
          BY <3>2
        <4> QED BY <3>5, <4>1, ElementOfSeq
      <3>7. items[k + 1] = SetHex /\ items[k + 2] = Put(b)
        BY <1>2, <3>1, <3>2, <3>5, Zenon
      <3>8. f[k + 2] = Stream(16, Blank, 0, u \o Padded(Stream(16, Blank, 0, u), b))
        BY <1>3, <3>2, <3>4, <3>7, TwoItems
      <3>9. Padded(Stream(16, Blank, 0, u), b) = Digits(b, 16)
        BY <3>6, BytePadded, Zenon
      <3>10. FewDigits(u \o Digits(b, 16), bytes, m)
        BY <3>1, <3>4, <3>5, <3>6, FewDigitsNext
      <3>11. f[2 * m + 1] = Stream(16, Blank, 0, u \o Digits(b, 16))
        BY <3>2, <3>8, <3>9, Zenon
      <3>12. Done_(m)
        BY <3>10, <3>11, Zenon
      <3> QED BY <3>1, <3>12
    <2> QED BY <2>1
  <1> HIDE DEF S
  <1>6. Nat \subseteq S
    BY <1>4, <1>5, SetInduction
  <1>7. Done_(N)
    <2>1. N \in S
      BY <1>6
    <2> QED BY <2>1 DEF S
  <1>8. PICK u : f[Len(items)] = Stream(16, Blank, 0, u) /\ FewDigits(u, bytes, N)
    BY <1>2, <1>7, Zenon
  <1>9. str(items) = u
    BY <1>3, <1>8 DEF Stream
  <1> QED BY <1>1, <1>8, <1>9, Zenon

LEMMA TwoDigitsSame ==
    ASSUME NEW bytes, NEW N \in Nat, NEW u, TwoDigits(u, bytes, N), NEW v, TwoDigits(v, bytes, N)
    PROVE  u = v
  <1>1. /\ u \in Seq(Hex) /\ v \in Seq(Hex) /\ Len(u) = 2 * N /\ Len(v) = 2 * N
        /\ \A i \in 1 .. N : u[2 * i - 1] = v[2 * i - 1] /\ u[2 * i] = v[2 * i]
    BY Zenon DEF TwoDigits
  <1>2. ASSUME NEW k \in 1 .. Len(u)
        PROVE  u[k] = v[k]
    <2>1. PICK i \in 1 .. N : k = 2 * i - 1 \/ k = 2 * i
      <3>1. k \in 1 .. 2 * N
        BY <1>1
      <3>2. PICK i : i = (k + 1) \div 2
        OBVIOUS
      <3>3. i \in 1 .. N /\ (k = 2 * i - 1 \/ k = 2 * i)
        BY <3>1, <3>2
      <3> QED BY <3>3
    <2> QED BY <1>1, <2>1, Zenon
  <1> QED BY <1>1, <1>2, SeqEqual

\* The two texts of a file system's id are the same exactly if each byte has two digits.
LEMMA FsIdsSame ==
    ASSUME NEW bytes \in Seq(0 .. 255)
    PROVE  str(fsIDAsString(bytes)) = str(bytesAsString(bytes))
               <=> \A i \in 1 .. Len(bytes) : bytes[i] >= 16
  <1>1. PICK N \in Nat : N = Len(bytes)
    OBVIOUS
  <1>2. PICK u, v : u = str(fsIDAsString(bytes)) /\ v = str(bytesAsString(bytes))
    OBVIOUS
  <1>3. FewDigits(u, bytes, N)
    BY <1>1, <1>2, FsIdIs
  <1>4. TwoDigits(v, bytes, N)
    BY <1>1, <1>2, BytesAre
  <1>5. CASE \A i \in 1 .. N : bytes[i] >= 16
    <2>1. TwoDigits(u, bytes, N)
      BY <1>3, <1>5, Zenon DEF FewDigits
    <2>2. u = v
      BY <1>4, <2>1, TwoDigitsSame, Zenon
    <2> QED BY <1>1, <1>2, <1>5, <2>2, Zenon
  <1>6. CASE ~(\A i \in 1 .. N : bytes[i] >= 16)
    <2>1. PICK i \in 1 .. N : ~(bytes[i] >= 16)
      BY <1>6
    <2>2. bytes[i] < 16
      <3>1. i \in 1 .. Len(bytes)
        BY <1>1
      <3>2. PICK b : b = bytes[i]
        OBVIOUS
      <3>3. b \in 0 .. 255
        BY <3>1, <3>2, ElementOfSeq
      <3> QED BY <2>1, <3>2, <3>3
    <2>3. Len(u) < 2 * N /\ u \in Seq(Hex)
      BY <1>3, <2>2, Zenon DEF FewDigits
    <2>4. Len(v) = 2 * N
      BY <1>4, Zenon DEF TwoDigits
    <2>5. u # v
      <3>1. Len(u) \in Nat
        BY <2>3
      <3>2. Len(u) # Len(v)
        BY <2>3, <2>4, <3>1
      <3> QED BY <3>2
    <2> QED BY <1>1, <1>2, <1>6, <2>5, Zenon
  <1> QED BY <1>5, <1>6

-----------------------------------------------------------------------------
\* How the fields of the ids read back.
ReadsInode(v, n) ==
    /\ Len(text) = 26 /\ At(1, 2) = INODE /\ At(3, 10) = v /\ At(11, 26) = n
    /\ text \in Seq(Hex)
ReadsDisk(n) == Len(text) = 18 /\ At(1, 2) = DISK_MAP /\ At(3, 18) = n /\ text \in Seq(Hex)
ReadsInTwos(bytes) ==
    /\ Len(text) = 2 * Len(bytes) /\ \A i \in 1 .. Len(bytes) : At(2 * i - 1, 2 * i) = bytes[i]
    /\ text \in Seq(Hex)

\* A text of l digits.
HexText(x, l) == x \in Seq(Hex) /\ Len(x) = l

\* z is x, of l digits, and behind it y, of m digits.
Joined(z, x, l, y, m) ==
    /\ z = x \o y /\ \A i \in 1 .. l : z[i] = x[i]
    /\ \A i \in 1 .. m : z[l + i] = y[i]

LEMMA JoinHex ==
    ASSUME NEW l \in Nat, NEW m \in Nat, NEW x, HexText(x, l), NEW y, HexText(y, m)
    PROVE  \E z : HexText(z, l + m) /\ Joined(z, x, l, y, m)
  <1>1. x \in Seq(Hex) /\ Len(x) = l /\ y \in Seq(Hex) /\ Len(y) = m
    BY Zenon DEF HexText
  <1>2. PICK z : z = x \o y
    OBVIOUS
  <1>3. /\ z \in Seq(Hex) /\ Len(z) = Len(x) + Len(y)
        /\ \A i \in 1 .. Len(x) + Len(y) : z[i] = IF i <= Len(x) THEN x[i] ELSE y[i - Len(x)]
    BY <1>1, <1>2, ConcatProperties, Zenon
  <1>4. \A i \in 1 .. l + m : z[i] = IF i <= l THEN x[i] ELSE y[i - l]
    BY <1>1, <1>3, Zenon
  <1>5. \A i \in 1 .. l : i \in 1 .. l + m /\ i <= l
    OBVIOUS
  <1>6. \A i \in 1 .. m : l + i \in 1 .. l + m /\ ~(l + i <= l) /\ (l + i) - l = i
    OBVIOUS
  <1>7. \A i \in 1 .. l : z[i] = x[i]
    BY <1>4, <1>5, Zenon
  <1>8. \A i \in 1 .. m : z[l + i] = y[i]
    BY <1>4, <1>6, Zenon
  <1>9. HexText(z, l + m)
    BY <1>1, <1>3, Zenon DEF HexText
  <1> QED BY <1>2, <1>7, <1>8, <1>9, Zenon DEF Joined

LEMMA InodeRead ==
    ASSUME NEW v \in Nat, v < TwoTo32, NEW n \in Nat, n < TwoTo64, text = str(makeInodeID(v, n))
    PROVE  ReadsInode(v, n)
  <1>1. PICK p, q, r : /\ Numeral(p, 2, INODE) /\ Numeral(q, 8, v) /\ Numeral(r, 16, n)
                       /\ str(makeInodeID(v, n)) = ((<<>> \o p) \o q) \o r
    BY InodeIdIs, Zenon
  <1>2. HexText(p, 2) /\ HexText(q, 8) /\ HexText(r, 16)
    BY <1>1, Zenon DEF Numeral, HexText
  <1>3. <<>> \o p = p
    BY <1>2 DEF HexText
  <1>4. /\ 2 \in Nat /\ 8 \in Nat /\ 10 \in Nat /\ 16 \in Nat /\ 2 + 8 = 10 /\ 10 + 16 = 26
        /\ 1 \in Nat \ {0} /\ 3 \in Nat \ {0} /\ 11 \in Nat \ {0}
    OBVIOUS
  <1>5. PICK y : HexText(y, 10) /\ Joined(y, p, 2, q, 8)
    <2>1. \E y : HexText(y, 2 + 8) /\ Joined(y, p, 2, q, 8)
      BY <1>2, <1>4, JoinHex, Zenon
    <2> QED BY <1>4, <2>1, Zenon
  <1>6. PICK z : HexText(z, 26) /\ Joined(z, y, 10, r, 16)
    <2>1. \E z : HexText(z, 10 + 16) /\ Joined(z, y, 10, r, 16)
      BY <1>2, <1>4, <1>5, JoinHex, Zenon
    <2> QED BY <1>4, <2>1, Zenon
  <1>7. text = z
    BY <1>1, <1>3, <1>5, <1>6, Zenon DEF Joined
  <1>8. Spelled(p, 2, 1, 2)
    <2>1. ASSUME NEW i \in 1 .. 2  PROVE text[1 - 1 + i] = p[i]
      <3>1. 1 - 1 + i = i /\ i \in 1 .. 10
        OBVIOUS
      <3> QED BY <1>5, <1>6, <1>7, <3>1, Zenon DEF Joined
    <2>2. 2 = 1 - 1 + 2
      OBVIOUS
    <2> QED BY <2>1, <2>2, Zenon DEF Spelled
  <1>9. Spelled(q, 8, 3, 10)
    <2>1. ASSUME NEW i \in 1 .. 8  PROVE text[3 - 1 + i] = q[i]
      <3>1. 3 - 1 + i = 2 + i /\ 2 + i \in 1 .. 10
        OBVIOUS
      <3> QED BY <1>5, <1>6, <1>7, <3>1, Zenon DEF Joined
    <2>2. 10 = 3 - 1 + 8
      OBVIOUS
    <2> QED BY <2>1, <2>2, Zenon DEF Spelled
  <1>10. Spelled(r, 16, 11, 26)
    <2>1. ASSUME NEW i \in 1 .. 16  PROVE text[11 - 1 + i] = r[i]
      <3>1. 11 - 1 + i = 10 + i
        OBVIOUS
      <3> QED BY <1>6, <1>7, <3>1, Zenon DEF Joined
    <2>2. 26 = 11 - 1 + 16
      OBVIOUS
    <2> QED BY <2>1, <2>2, Zenon DEF Spelled
  <1>11. At(1, 2) = INODE
    BY <1>1, <1>4, <1>8, NumberAt, Zenon
  <1>12. At(3, 10) = v
    BY <1>1, <1>4, <1>9, NumberAt, Zenon
  <1>13. At(11, 26) = n
    BY <1>1, <1>4, <1>10, NumberAt, Zenon
  <1> QED BY <1>6, <1>7, <1>11, <1>12, <1>13, Zenon DEF ReadsInode, HexText

LEMMA DiskRead ==
    ASSUME NEW n \in Nat, n < TwoTo64, text = str(makeDiskMapID(n))
    PROVE  ReadsDisk(n)
  <1>1. PICK p, r : /\ Numeral(p, 2, DISK_MAP) /\ Numeral(r, 16, n)
                    /\ str(makeDiskMapID(n)) = (<<>> \o p) \o r
    BY DiskIdIs, Zenon
  <1>2. HexText(p, 2) /\ HexText(r, 16)
    BY <1>1, Zenon DEF Numeral, HexText
  <1>3. <<>> \o p = p
    BY <1>2 DEF HexText
  <1>4. /\ 2 \in Nat /\ 16 \in Nat /\ 2 + 16 = 18 /\ 1 \in Nat \ {0} /\ 3 \in Nat \ {0}
    OBVIOUS
  <1>5. PICK z : HexText(z, 18) /\ Joined(z, p, 2, r, 16)
    <2>1. \E z : HexText(z, 2 + 16) /\ Joined(z, p, 2, r, 16)
      BY <1>2, <1>4, JoinHex, Zenon
    <2> QED BY <1>4, <2>1, Zenon
  <1>6. text = z
    BY <1>1, <1>3, <1>5, Zenon DEF Joined
  <1>7. Spelled(p, 2, 1, 2)
    <2>1. ASSUME NEW i \in 1 .. 2  PROVE text[1 - 1 + i] = p[i]
      <3>1. 1 - 1 + i = i
        OBVIOUS
      <3> QED BY <1>5, <1>6, <3>1, Zenon DEF Joined
    <2>2. 2 = 1 - 1 + 2
      OBVIOUS
    <2> QED BY <2>1, <2>2, Zenon DEF Spelled
  <1>8. Spelled(r, 16, 3, 18)
    <2>1. ASSUME NEW i \in 1 .. 16  PROVE text[3 - 1 + i] = r[i]
      <3>1. 3 - 1 + i = 2 + i
        OBVIOUS
      <3> QED BY <1>5, <1>6, <3>1, Zenon DEF Joined
    <2>2. 18 = 3 - 1 + 16
      OBVIOUS
    <2> QED BY <2>1, <2>2, Zenon DEF Spelled
  <1>9. At(1, 2) = DISK_MAP
    BY <1>1, <1>4, <1>7, NumberAt, Zenon
  <1>10. At(3, 18) = n
    <2>1. Numeral(r, 16, n) /\ 16 \in Nat /\ 3 \in Nat \ {0}
      BY <1>1, <1>4, Zenon
    <2> QED BY <1>8, <2>1, NumberAt, Zenon
  <1> QED BY <1>5, <1>6, <1>9, <1>10, Zenon DEF ReadsDisk, HexText

LEMMA BytesRead ==
    ASSUME NEW bytes \in Seq(0 .. 255), text = str(bytesAsString(bytes))
    PROVE  ReadsInTwos(bytes)
  <1>1. PICK N \in Nat : N = Len(bytes)
    OBVIOUS
  <1>2. TwoDigits(text, bytes, N)
    BY <1>1, BytesAre
  <1>3. ASSUME NEW i \in 1 .. N
        PROVE  At(2 * i - 1, 2 * i) = bytes[i]
    <2>1. PICK a, c, b : a = 2 * i - 1 /\ c = 2 * i /\ b = bytes[i]
      OBVIOUS
    <2>2. PICK d, e : d = b \div 16 /\ e = b % 16
      OBVIOUS
    <2>3. b \in 0 .. 255
      <3>1. i \in 1 .. Len(bytes)
        BY <1>1
      <3> QED BY <2>1, <3>1, ElementOfSeq
    <2>4. d \in Hex /\ e \in Hex
      BY <2>2, <2>3, ByteDigits, Zenon
    <2>5. text[a] = d /\ text[c] = e
      BY <1>2, <2>1, <2>2, Zenon DEF TwoDigits
    <2>6. Numeral(<<d, e>>, 2, b)
      <3>1. Numeral(<<d>>, 1, d)
        BY <2>4, NumeralOne, Zenon
      <3>2. 1 \in Nat /\ d \in Nat /\ 1 + 1 = 2 /\ 16 * d + e = b
        BY <2>2, <2>3
      <3>3. Numeral(Append(<<d>>, e), 1 + 1, 16 * d + e)
        BY <2>4, <3>1, <3>2, NumeralNext, Zenon
      <3>4. Append(<<d>>, e) = <<d, e>>
        BY TwoOnes, Zenon
      <3> QED BY <3>2, <3>3, <3>4, Zenon
    <2>7. PICK p : p = <<d, e>>
      OBVIOUS
    <2>8. p[1] = d /\ p[2] = e
      BY <2>7
    <2>9. \A k \in 1 .. 2 : text[a - 1 + k] = p[k]
      <3>1. a - 1 + 1 = a /\ a - 1 + 2 = c /\ \A k \in 1 .. 2 : k = 1 \/ k = 2
        BY <2>1
      <3> QED BY <2>5, <2>8, <3>1, Zenon
    <2>10. a \in Nat \ {0} /\ c = a - 1 + 2 /\ 2 \in Nat
      BY <2>1
    <2>11. Spelled(p, 2, a, c)
      BY <2>9, <2>10, Zenon DEF Spelled
    <2>12. Numeral(p, 2, b)
      BY <2>6, <2>7, Zenon
    <2>13. At(a, c) = b
      BY <2>10, <2>11, <2>12, NumberAt, Zenon
    <2> QED BY <2>1, <2>13, Zenon
  <1>4. text \in Seq(Hex) /\ Len(text) = 2 * N
    BY <1>2, Zenon DEF TwoDigits
  <1> QED BY <1>1, <1>3, <1>4, Zenon DEF ReadsInTwos

-----------------------------------------------------------------------------
\* A field that has been converted is one of the program's, and its text is the field's.
FieldInv ==
    \/ field[1] = "time" /\ field[2] \in Nat /\ text \in formatTimestamp(field[2])
    \/ field[1] = "id" /\ field[2] \in Seq(Word) /\ text = Identifier(field[2])
    \/ /\ field[1] = "inode" /\ field[2] \in Indexes /\ field[3] \in Numbers
       /\ text = str(makeInodeID(field[2], field[3]))
    \/ field[1] = "disk" /\ field[2] \in Numbers /\ text = str(makeDiskMapID(field[2]))
    \/ field[1] = "bytes" /\ field[2] \in ByteStrings /\ text = str(bytesAsString(field[2]))
    \/ field[1] = "fsID" /\ field[2] \in ByteStrings /\ text = str(fsIDAsString(field[2]))
    \/ field[1] \in {"none", "flags", "types"}

LEMMA FieldsTyped ==
    /\ \A ns \in Nanoseconds : ns \in Nat
    /\ \A words \in UpTo(Words, 2) : words \in Seq(Word)
  <1>1. \A ns \in Nanoseconds : ns \in Nat
    BY TextsAssumption, SMT
  <1>2. Words \subseteq Word
    BY TextsAssumption, SMT
  <1>3. ASSUME NEW m \in Nat, NEW words \in [1 .. m -> Words]
        PROVE  words \in Seq(Word)
    <2>1. words \in [1 .. m -> Word]
      BY <1>2, <1>3
    <2>2. words = [i \in 1 .. m |-> words[i]] /\ \A i \in 1 .. m : words[i] \in Word
      BY <2>1
    <2> QED BY <2>2
  <1>4. \A words \in UpTo(Words, 2) : \E m \in Nat : words \in [1 .. m -> Words]
    <2>1. \A m \in 0 .. 2 : m \in Nat
      OBVIOUS
    <2> QED BY <2>1, Zenon DEF UpTo
  <1> QED BY <1>1, <1>3, <1>4, Zenon

LEMMA AlwaysField == TextsSpec => []FieldInv
  <1>1. TextsInit => FieldInv
    <2>1. TextsInit => field[1] = "none"
      BY DEF TextsInit
    <2>2. "none" \in {"none", "flags", "types"}
      OBVIOUS
    <2> QED BY <2>1, <2>2, Zenon DEF FieldInv
  <1>2. FieldInv /\ [Convert \/ Lines]_<<vars, fieldVars>> => FieldInv'
    <2> SUFFICES ASSUME FieldInv, [Convert \/ Lines]_<<vars, fieldVars>>
                 PROVE  FieldInv'
      OBVIOUS
    <2>1. CASE field' = field /\ text' = text
      BY <2>1, Zenon DEF FieldInv
    <2>2. CASE Convert
      <3>1. CASE FormatTimestamp
        <4>1. PICK ns \in Nanoseconds : field' = <<"time", ns>> /\ text' \in formatTimestamp(ns)
          BY <3>1, Zenon DEF FormatTimestamp
        <4>2. field'[1] = "time" /\ field'[2] = ns
          BY <4>1
        <4>3. ns \in Nat
          BY FieldsTyped, Zenon
        <4> QED BY <4>1, <4>2, <4>3, Zenon DEF FieldInv
      <3>2. CASE AppendVarints
        <4>1. PICK words \in UpTo(Words, 2) : field' = <<"id", words>> /\ text' = Identifier(words)
          BY <3>2, Zenon DEF AppendVarints
        <4>2. field'[1] = "id" /\ field'[2] = words
          BY <4>1
        <4>3. words \in Seq(Word)
          BY FieldsTyped, Zenon
        <4> QED BY <4>1, <4>2, <4>3, Zenon DEF FieldInv
      <3>3. CASE FormatFlags \/ FormatTypes
        <4>1. field'[1] \in {"none", "flags", "types"}
          <5>1. CASE FormatFlags
            BY <5>1 DEF FormatFlags
          <5>2. CASE FormatTypes
            BY <5>2 DEF FormatTypes
          <5> QED BY <3>3, <5>1, <5>2
        <4> QED BY <4>1, Zenon DEF FieldInv
      <3>4. CASE MakeId
        <4>1. CASE \E v \in Indexes, n \in Numbers :
                      field' = <<"inode", v, n>> /\ text' = str(makeInodeID(v, n))
          <5>1. PICK v \in Indexes, n \in Numbers :
                    field' = <<"inode", v, n>> /\ text' = str(makeInodeID(v, n))
            BY <4>1, Zenon
          <5>2. field'[1] = "inode" /\ field'[2] = v /\ field'[3] = n
            BY <5>1
          <5> QED BY <5>1, <5>2, Zenon DEF FieldInv
        <4>2. CASE \E n \in Numbers : field' = <<"disk", n>> /\ text' = str(makeDiskMapID(n))
          <5>1. PICK n \in Numbers : field' = <<"disk", n>> /\ text' = str(makeDiskMapID(n))
            BY <4>2, Zenon
          <5>2. field'[1] = "disk" /\ field'[2] = n
            BY <5>1
          <5> QED BY <5>1, <5>2, Zenon DEF FieldInv
        <4> QED BY <3>4, <4>1, <4>2, Zenon DEF MakeId
      <3>5. CASE FormatBytes
        <4>1. PICK bytes \in ByteStrings :
                  \/ field' = <<"bytes", bytes>> /\ text' = str(bytesAsString(bytes))
                  \/ field' = <<"fsID", bytes>> /\ text' = str(fsIDAsString(bytes))
          BY <3>5, Zenon DEF FormatBytes
        <4>2. CASE field' = <<"bytes", bytes>> /\ text' = str(bytesAsString(bytes))
          <5>1. field'[1] = "bytes" /\ field'[2] = bytes
            BY <4>2
          <5> QED BY <4>2, <5>1, Zenon DEF FieldInv
        <4>3. CASE field' = <<"fsID", bytes>> /\ text' = str(fsIDAsString(bytes))
          <5>1. field'[1] = "fsID" /\ field'[2] = bytes
            BY <4>3
          <5> QED BY <4>3, <5>1, Zenon DEF FieldInv
        <4> QED BY <4>1, <4>2, <4>3
      <3> QED BY <2>2, <3>1, <3>2, <3>3, <3>4, <3>5, Zenon DEF Convert
    <2>3. CASE Lines
      BY <2>1, <2>3, Zenon DEF Lines, fieldVars
    <2>4. CASE UNCHANGED <<vars, fieldVars>>
      BY <2>1, <2>4, Zenon DEF fieldVars
    <2> QED BY <2>2, <2>3, <2>4, Zenon
  <1> QED BY <1>1, <1>2, PTL DEF TextsSpec

LEMMA IdsTyped ==
    /\ \A v \in Indexes : v \in Nat
    /\ \A n \in Numbers : n \in Nat
    /\ \A bytes \in ByteStrings : bytes \in Seq(0 .. 255)
  BY TextsAssumption

\* The widths of the integers that are printed: volIndex is a uint32_t, inode numbers and
\* offsets are uint64_t (util.cpp).
NumbersFit == (\A v \in Indexes : v < TwoTo32) /\ \A n \in Numbers : n < TwoTo64

\* An id reads back by position as what it was made of, whatever the volume index, the inode
\* number, the offset and the bytes: makeInodeID, makeDiskMapID and bytesAsString never spill
\* over the width they set, and print all of them in hex with zeroes in front.
THEOREM IdsAlwaysReadBack ==
    ASSUME NumbersFit
    PROVE  TextsSpec => []IdsReadBack
  <1>1. FieldInv => IdsReadBack
    <2> SUFFICES ASSUME FieldInv PROVE IdsReadBack
      OBVIOUS
    <2>1. CASE field[1] = "inode"
      <3>1. PICK v, n : v = field[2] /\ n = field[3]
        OBVIOUS
      <3>2. v \in Indexes /\ n \in Numbers /\ text = str(makeInodeID(v, n))
        BY <2>1, <3>1 DEF FieldInv
      <3>3. v \in Nat /\ n \in Nat /\ v < TwoTo32 /\ n < TwoTo64
        BY <3>2, IdsTyped, Zenon DEF NumbersFit
      <3>4. ReadsInode(v, n)
        BY <3>2, <3>3, InodeRead, Zenon
      <3>5. field[1] # "disk" /\ field[1] # "bytes"
        BY <2>1
      <3> QED BY <3>1, <3>4, <3>5, Zenon DEF IdsReadBack, ReadsInode, Hex
    <2>2. CASE field[1] = "disk"
      <3>1. PICK n : n = field[2]
        OBVIOUS
      <3>2. n \in Numbers /\ text = str(makeDiskMapID(n))
        BY <2>2, <3>1 DEF FieldInv
      <3>3. n \in Nat /\ n < TwoTo64
        BY <3>2, IdsTyped, Zenon DEF NumbersFit
      <3>4. ReadsDisk(n)
        BY <3>2, <3>3, DiskRead, Zenon
      <3>5. field[1] # "inode" /\ field[1] # "bytes"
        BY <2>2
      <3> QED BY <3>1, <3>4, <3>5, Zenon DEF IdsReadBack, ReadsDisk, Hex
    <2>3. CASE field[1] = "bytes"
      <3>1. PICK bytes : bytes = field[2]
        OBVIOUS
      <3>2. bytes \in ByteStrings /\ text = str(bytesAsString(bytes))
        BY <2>3, <3>1 DEF FieldInv
      <3>3. bytes \in Seq(0 .. 255)
        BY <3>2, IdsTyped, Zenon
      <3>4. ReadsInTwos(bytes)
        BY <3>2, <3>3, BytesRead, Zenon
      <3>5. field[1] # "inode" /\ field[1] # "disk"
        BY <2>3
      <3>6. DOMAIN bytes = 1 .. Len(bytes)
        BY <3>3
      <3> QED BY <3>1, <3>4, <3>5, <3>6, Zenon DEF IdsReadBack, ReadsInTwos, Hex
    <2>4. CASE field[1] \notin {"inode", "disk", "bytes"}
      BY <2>4, Zenon DEF IdsReadBack
    <2> QED BY <2>1, <2>2, <2>3, <2>4
  <1> QED BY <1>1, AlwaysField, PTL

\* The overview and the records print the same id of a file system exactly if none of its
\* bytes is less than 16 (Filesystem::fsIDAsString, bytesAsString), whatever the id.
THEOREM FsIdsAlwaysAgree == TextsSpec => []FsIdsAgree
  <1>1. FieldInv => FsIdsAgree
    <2> SUFFICES ASSUME FieldInv, field[1] = "fsID"
                 PROVE  text = str(bytesAsString(field[2])) <=> \A i \in DOMAIN field[2] : field[2][i] >= 16
      BY Zenon DEF FsIdsAgree
    <2>1. PICK bytes : bytes = field[2]
      OBVIOUS
    <2>2. bytes \in ByteStrings /\ text = str(fsIDAsString(bytes))
      BY <2>1 DEF FieldInv
    <2>3. bytes \in Seq(0 .. 255)
      BY <2>2, IdsTyped, Zenon
    <2>4. DOMAIN bytes = 1 .. Len(bytes)
      BY <2>3
    <2> QED BY <2>1, <2>2, <2>3, <2>4, FsIdsSame, Zenon
  <1> QED BY <1>1, AlwaysField, PTL

\* Encodings sort as their integers do (vintEncode), whichever Words there are.
THEOREM OrderAlwaysPreserved == TextsSpec => []OrderPreserved
  <1>1. FieldInv => OrderPreserved
    <2> SUFFICES ASSUME FieldInv, field[1] = "id",
                        NEW v \in {field[2][i] : i \in DOMAIN field[2]},
                        NEW w \in {field[2][i] : i \in DOMAIN field[2]}
                 PROVE  Before(v, w) <=> Before(VintEncode(v), VintEncode(w))
      BY Zenon DEF OrderPreserved
    <2>1. PICK words \in Seq(Word) : words = field[2]
      BY DEF FieldInv
    <2>2. \A i \in DOMAIN words : words[i] \in Word
      BY <2>1
    <2>3. v \in Word /\ w \in Word
      BY <2>1, <2>2, Zenon
    <2> QED BY <2>3, EncodingsSort, Zenon
  <1> QED BY <1>1, AlwaysField, PTL

\* Identifiers are read back as the integers appended to them (appendVarint, vintDecode).
THEOREM VarintsAlwaysReadBack == TextsSpec => []VarintsReadBack
  <1>1. FieldInv => VarintsReadBack
    <2> SUFFICES ASSUME FieldInv, field[1] = "id"
                 PROVE  ReadVarints(text) = field[2]
      BY Zenon DEF VarintsReadBack
    <2>1. PICK words \in Seq(Word) : words = field[2] /\ text = Identifier(words)
      BY DEF FieldInv
    <2> QED BY <2>1, IdentifierReadsBack, Zenon
  <1> QED BY <1>1, AlwaysField, PTL

\* The fraction of a second in a time (formatTimestamp) reads back as its nanoseconds to the
\* nearest ten, for each number of nanoseconds that rounds neither to nothing nor to a second.
THEOREM FractionAlwaysReadsBack == TextsSpec => []FractionReadsBack
  <1>1. FieldInv => FractionReadsBack
    <2> SUFFICES ASSUME FieldInv, field[1] = "time", Between(field[2])
                 PROVE  /\ Head(text) = Point
                        /\ Point \notin {Tail(text)[i] : i \in DOMAIN Tail(text)}
                        /\ 10 * ReadUnits - field[2] \in -5 .. 5
                        /\ text[Len(text)] \in 1 .. 9
      BY SMT DEF FractionReadsBack, Between
    <2>1. field[2] \in Nat /\ text \in formatTimestamp(field[2])
      BY DEF FieldInv
    <2>2. PICK n : /\ Digits8(n) /\ n # 0 /\ 10 * n - field[2] \in -5 .. 5
                   /\ FractionText(text, n)
      BY <2>1, FractionPrinted, Zenon
    <2>3. ReadUnits = (CHOOSE units : Counts(units, text))[Precision]
      BY Zenon DEF ReadUnits, Counts
    <2>4. ReadUnits = n
      BY <2>2, <2>3, FractionCounted, Zenon
    <2>5. /\ Head(text) = Point
          /\ Point \notin {Tail(text)[i] : i \in DOMAIN Tail(text)}
          /\ text[Len(text)] \in 1 .. 9
      BY <2>2, FractionFits, Zenon
    <2> QED BY <2>2, <2>4, <2>5, Zenon
  <1> QED BY <1>1, AlwaysField, PTL

-----------------------------------------------------------------------------
(***************************************************************************)
(* The lines are JSON: the members that are printed in a row, first.       *)
(***************************************************************************)
LEMMA IdsStart ==
    Starts(plainPairs(<<"id", "parent", "children">>, TRUE), {"id", "parent", "children"})
  <1>1. Distinct(<<"id", "parent", "children">>, {"id", "parent", "children"})
    BY DEF Distinct
  <1>2. PlainAll({"id", "parent", "children"})
    BY Zenon DEF PlainAll, Plain, Marks
  <1> QED BY <1>1, <1>2, ListStarts, Zenon

LEMMA FsStart ==
    Starts(plainPairs(
                    <<"byteOffset", "blockSize", "fsID", "volName", "volIndex">>,
                    TRUE),
                    {"byteOffset", "blockSize", "fsID", "volName", "volIndex"})
  <1>1. Distinct(
                    <<"byteOffset", "blockSize", "fsID", "volName", "volIndex">>,
                    {"byteOffset", "blockSize", "fsID", "volName", "volIndex"})
    BY DEF Distinct
  <1>2. PlainAll({"byteOffset", "blockSize", "fsID", "volName", "volIndex"})
    BY Zenon DEF PlainAll, Plain, Marks
  <1> QED BY <1>1, <1>2, ListStarts, Zenon

LEMMA NameStart ==
    Starts(plainPairs(<<"flags", "meta_addr", "meta_seq">>, TRUE), {"flags", "meta_addr", "meta_seq"})
  <1>1. Distinct(<<"flags", "meta_addr", "meta_seq">>, {"flags", "meta_addr", "meta_seq"})
    BY DEF Distinct
  <1>2. PlainAll({"flags", "meta_addr", "meta_seq"})
    BY Zenon DEF PlainAll, Plain, Marks
  <1> QED BY <1>1, <1>2, ListStarts, Zenon

LEMMA ParentAdds ==
    Adds(plainPairs(<<"par_addr", "par_seq">>, FALSE), {"par_addr", "par_seq"})
  <1>1. Distinct(<<"par_addr", "par_seq">>, {"par_addr", "par_seq"})
    BY DEF Distinct
  <1>2. PlainAll({"par_addr", "par_seq"})
    BY Zenon DEF PlainAll, Plain, Marks
  <1> QED BY <1>1, <1>2, ListAdds, Zenon

LEMMA TypeAdds ==
    Adds(plainPairs(<<"type">>, FALSE), {"type"})
  <1>1. Distinct(<<"type">>, {"type"})
    BY DEF Distinct
  <1>2. PlainAll({"type"})
    BY Zenon DEF PlainAll, Plain, Marks
  <1> QED BY <1>1, <1>2, ListAdds, Zenon

LEMMA MetaStart ==
    Starts(plainPairs(
                    <<"addr", "accessed", "content_len", "created", "metadata", "flags", "gid">>,
                    TRUE),
                    {"addr", "accessed", "content_len", "created", "metadata", "flags", "gid"})
  <1>1. Distinct(
                    <<"addr", "accessed", "content_len", "created", "metadata", "flags", "gid">>,
                    {"addr", "accessed", "content_len", "created", "metadata", "flags", "gid"})
    BY DEF Distinct
  <1>2. PlainAll({"addr", "accessed", "content_len", "created", "metadata", "flags", "gid"})
    BY Zenon DEF PlainAll, Plain, Marks
  <1> QED BY <1>1, <1>2, ListStarts, Zenon

LEMMA DeletedAdds ==
    Adds(plainPairs(<<"dtime">>, FALSE), {"dtime"})
  <1>1. Distinct(<<"dtime">>, {"dtime"})
    BY DEF Distinct
  <1>2. PlainAll({"dtime"})
    BY Zenon DEF PlainAll, Plain, Marks
  <1> QED BY <1>1, <1>2, ListAdds, Zenon

LEMMA BackupAdds ==
    Adds(plainPairs(<<"bkup_time">>, FALSE), {"bkup_time"})
  <1>1. Distinct(<<"bkup_time">>, {"bkup_time"})
    BY DEF Distinct
  <1>2. PlainAll({"bkup_time"})
    BY Zenon DEF PlainAll, Plain, Marks
  <1> QED BY <1>1, <1>2, ListAdds, Zenon

LEMMA MetaAdds ==
    Adds(plainPairs(
                    <<"mode", "modified", "nlink", "seq", "size", "type", "uid">>,
                    FALSE),
                    {"mode", "modified", "nlink", "seq", "size", "type", "uid"})
  <1>1. Distinct(
                    <<"mode", "modified", "nlink", "seq", "size", "type", "uid">>,
                    {"mode", "modified", "nlink", "seq", "size", "type", "uid"})
    BY DEF Distinct
  <1>2. PlainAll({"mode", "modified", "nlink", "seq", "size", "type", "uid"})
    BY Zenon DEF PlainAll, Plain, Marks
  <1> QED BY <1>1, <1>2, ListAdds, Zenon

LEMMA LinkAdds ==
    Adds(plainPairs(<<"__link">>, FALSE), {"__link"})
  <1>1. Distinct(<<"__link">>, {"__link"})
    BY DEF Distinct
  <1>2. PlainAll({"__link"})
    BY Zenon DEF PlainAll, Plain, Marks
  <1> QED BY <1>1, <1>2, ListAdds, Zenon

LEMMA RunStart ==
    Starts(plainPairs(<<"addr", "flags", "len", "offset">>, TRUE), {"addr", "flags", "len", "offset"})
  <1>1. Distinct(<<"addr", "flags", "len", "offset">>, {"addr", "flags", "len", "offset"})
    BY DEF Distinct
  <1>2. PlainAll({"addr", "flags", "len", "offset"})
    BY Zenon DEF PlainAll, Plain, Marks
  <1> QED BY <1>1, <1>2, ListStarts, Zenon

LEMMA AttrStart ==
    Starts(plainPairs(<<"flags", "id">>, TRUE), {"flags", "id"})
  <1>1. Distinct(<<"flags", "id">>, {"flags", "id"})
    BY DEF Distinct
  <1>2. PlainAll({"flags", "id"})
    BY Zenon DEF PlainAll, Plain, Marks
  <1> QED BY <1>1, <1>2, ListStarts, Zenon

LEMMA AttrAdds ==
    Adds(plainPairs(
                    <<"size", "type", "rd_buf_size", "nrd_allocsize", "nrd_compsize",
                      "nrd_initsize", "nrd_skiplen">>,
                    FALSE),
                    {"size", "type", "rd_buf_size", "nrd_allocsize", "nrd_compsize",
                      "nrd_initsize", "nrd_skiplen"})
  <1>1. Distinct(
                    <<"size", "type", "rd_buf_size", "nrd_allocsize", "nrd_compsize",
                      "nrd_initsize", "nrd_skiplen">>,
                    {"size", "type", "rd_buf_size", "nrd_allocsize", "nrd_compsize",
                      "nrd_initsize", "nrd_skiplen"})
    BY DEF Distinct
  <1>2. PlainAll({"size", "type", "rd_buf_size", "nrd_allocsize", "nrd_compsize",
                  "nrd_initsize", "nrd_skiplen"})
    BY Zenon DEF PlainAll, Plain, Marks
  <1> QED BY <1>1, <1>2, ListAdds, Zenon

LEMMA BytesAdds ==
    Adds(plainPairs(<<"rd_buf">>, FALSE), {"rd_buf"})
  <1>1. Distinct(<<"rd_buf">>, {"rd_buf"})
    BY DEF Distinct
  <1>2. PlainAll({"rd_buf"})
    BY Zenon DEF PlainAll, Plain, Marks
  <1> QED BY <1>1, <1>2, ListAdds, Zenon

LEMMA OwnerStart ==
    Starts(plainPairs(
                    <<"vol", "inum", "attrId", "s", "drbeg", "fo">>,
                    TRUE),
                    {"vol", "inum", "attrId", "s", "drbeg", "fo"})
  <1>1. Distinct(
                    <<"vol", "inum", "attrId", "s", "drbeg", "fo">>,
                    {"vol", "inum", "attrId", "s", "drbeg", "fo"})
    BY DEF Distinct
  <1>2. PlainAll({"vol", "inum", "attrId", "s", "drbeg", "fo"})
    BY Zenon DEF PlainAll, Plain, Marks
  <1> QED BY <1>1, <1>2, ListStarts, Zenon

LEMMA IdStart ==
    Starts(plainPairs(<<"id">>, TRUE), {"id"})
  <1>1. Distinct(<<"id">>, {"id"})
    BY DEF Distinct
  <1>2. PlainAll({"id"})
    BY Zenon DEF PlainAll, Plain, Marks
  <1> QED BY <1>1, <1>2, ListStarts, Zenon

LEMMA SegmentStart ==
    Starts(plainPairs(<<"b", "l">>, TRUE), {"b", "l"})
  <1>1. Distinct(<<"b", "l">>, {"b", "l"})
    BY DEF Distinct
  <1>2. PlainAll({"b", "l"})
    BY Zenon DEF PlainAll, Plain, Marks
  <1> QED BY <1>1, <1>2, ListStarts, Zenon

LEMMA InodeAttrStart ==
    Starts(plainPairs(
                    <<"id", "type", "size", "slack_size", "resident", "resident_data">>,
                    TRUE),
                    {"id", "type", "size", "slack_size", "resident", "resident_data"})
  <1>1. Distinct(
                    <<"id", "type", "size", "slack_size", "resident", "resident_data">>,
                    {"id", "type", "size", "slack_size", "resident", "resident_data"})
    BY DEF Distinct
  <1>2. PlainAll({"id", "type", "size", "slack_size", "resident", "resident_data"})
    BY Zenon DEF PlainAll, Plain, Marks
  <1> QED BY <1>1, <1>2, ListStarts, Zenon

LEMMA ExtentStart ==
    Starts(plainPairs(<<"fo", "start", "end">>, TRUE), {"fo", "start", "end"})
  <1>1. Distinct(<<"fo", "start", "end">>, {"fo", "start", "end"})
    BY DEF Distinct
  <1>2. PlainAll({"fo", "start", "end"})
    BY Zenon DEF PlainAll, Plain, Marks
  <1> QED BY <1>1, <1>2, ListStarts, Zenon

\* The names that come as keys of single members.
LEMMA KeysArePlain ==
    PlainAll({"t", "fsmd", "fs", "path", "name", "shrt_name", "meta", "link", "attrs", "nrd_runs",
              "i", "f", "hardlinks", "attrData", "runs", "slack_runs"})
  BY Zenon DEF PlainAll, Plain, Marks

-----------------------------------------------------------------------------
(***************************************************************************)
(* What is open in a record: InT is the object of "t", InFsmd that of      *)
(* "fsmd", AttrsIn that of "meta".                                         *)
(***************************************************************************)
IdKeys   == {"id", "parent", "children"}
FsmdKeys == {"fs", "path", "name", "meta"}
MetaKeys == {"addr", "accessed", "content_len", "created", "metadata", "flags", "gid", "link", "dtime",
             "bkup_time", "mode", "modified", "nlink", "seq", "size", "type", "uid", "attrs"}

InT     == Objects(Doc, IdKeys \cup {"t"})
InFsmd  == Objects(InT, {"fsmd"})
AttrsIn == Objects(Objects(InFsmd, FsmdKeys), MetaKeys)

LEMMA RecordOpens ==
    Opens(Doc) /\ Opens(InT) /\ Opens(InFsmd) /\ Opens(Objects(InFsmd, FsmdKeys)) /\ Opens(AttrsIn)
  <1>1. Opens(Doc)
    BY BeginWants, Zenon DEF Doc
  <1>2. Opens(InT)
    BY <1>1, OpensWithin, Zenon DEF InT
  <1>3. Opens(InFsmd)
    BY <1>2, OpensWithin, Zenon DEF InFsmd
  <1>4. Opens(Objects(InFsmd, FsmdKeys))
    BY <1>3, OpensWithin, Zenon
  <1>5. Opens(AttrsIn)
    BY <1>4, OpensWithin, Zenon DEF AttrsIn
  <1> QED BY <1>1, <1>2, <1>3, <1>4, <1>5, Zenon

LEMMA LeadsSeven ==
    ASSUME NEW S, NEW T, NEW U, NEW p, NEW q, NEW u, NEW v, NEW x, NEW y, NEW z,
           Leads(S, <<p, q, u, v>>, T), Leads(T, <<x, y, z>>, U)
    PROVE  Leads(S, <<p, q, u, v, x, y, z>>, U)
  <1>1. <<p, q, u, v, x, y, z>> = <<p, q, u, v>> \o <<x, y, z>>
    BY SplitSeven
  <1>2. Leads(S, <<p, q, u, v>> \o <<x, y, z>>, U)
    BY LeadsJoin, Zenon
  <1> QED BY <1>1, <1>2, Zenon

LEMMA LeadsNextFive ==
    ASSUME NEW S, NEW T, NEW U, NEW p, NEW q, NEW u, NEW v, NEW x,
           Leads(S, <<p>>, T), Leads(T, <<q, u, v, x>>, U)
    PROVE  Leads(S, <<p, q, u, v, x>>, U)
  <1>1. <<p, q, u, v, x>> = <<p>> \o <<q, u, v, x>>
    BY SplitNext
  <1>2. Leads(S, <<p>> \o <<q, u, v, x>>, U)
    BY LeadsJoin, Zenon
  <1> QED BY <1>1, <1>2, Zenon

\* A key and an object behind it, in an object that has just begun.
LEMMA LeadsInnerTwice ==
    ASSUME NEW O, Opens(O), NEW K, NEW k, Plain(k), k \notin K, NEW l, Plain(l)
    PROVE  Leads(InObject(O, K), <<",", k, ":", "{", l, ":", "{">>,
                 NewObject(Objects(Objects(O, K \cup {k}), {l})))
  <1>1. Leads(InObject(O, K), <<",", k, ":", "{">>, NewObject(Objects(O, K \cup {k})))
    BY LeadsNextInner, Zenon
  <1>2. Opens(Objects(O, K \cup {k}))
    BY OpensWithin, Zenon
  <1>3. Leads(NewObject(Objects(O, K \cup {k})), <<l, ":", "{">>,
              NewObject(Objects(Objects(O, K \cup {k}), {l})))
    BY <1>2, LeadsFirstInner, Zenon
  <1> QED BY <1>1, <1>3, LeadsSeven, Zenon

LEMMA FileLeads ==
    ASSUME NEW path, path = "plain"
    PROVE  Leads({Begin}, fileText(path), InObject(InFsmd, {"fs", "path"}))
  <1> DEFINE t1 == <<"{">>
             t2 == t1 \o plainPairs(<<"id", "parent", "children">>, TRUE)
             t3 == t2 \o <<",", "t", ":", "{", "fsmd", ":", "{">>
             t4 == t3 \o <<"fs", ":", "{">>
             t5 == t4 \o plainPairs(<<"byteOffset", "blockSize", "fsID", "volName", "volIndex">>, TRUE)
             t6 == t5 \o <<"}">>
             t7 == t6 \o pair("path", j(path), FALSE)
  <1>1. Opens(Doc) /\ Opens(InT) /\ Opens(InFsmd)
    BY RecordOpens, Zenon
  <1>2. Plain("t") /\ Plain("fsmd") /\ Plain("fs") /\ Plain("path")
    BY KeysArePlain, Zenon DEF PlainAll
  <1>3. Leads({Begin}, t1, NewObject(Doc))
    BY DocStart, Zenon
  <1>4. Leads({Begin}, t2, InObject(Doc, IdKeys))
    BY <1>1, <1>3, IdsStart, LeadsStarts, Zenon DEF IdKeys
  <1>5. Leads({Begin}, t3, NewObject(InFsmd))
    <2>1. "t" \notin IdKeys
      BY Zenon DEF IdKeys
    <2>2. PICK inner : inner = <<",", "t", ":", "{", "fsmd", ":", "{">>
      OBVIOUS
    <2>3. Leads(InObject(Doc, IdKeys), inner, NewObject(InFsmd))
      BY <1>1, <1>2, <2>1, <2>2, LeadsInnerTwice, Zenon DEF InFsmd, InT
    <2>4. Leads({Begin}, t2 \o inner, NewObject(InFsmd))
      BY <1>4, <2>3, LeadsJoin, Zenon
    <2> QED BY <2>2, <2>4, Zenon
  <1>6. Leads({Begin}, t4, NewObject(Objects(InFsmd, {"fs"})))
    <2>1. Leads(NewObject(InFsmd), <<"fs", ":", "{">>, NewObject(Objects(InFsmd, {"fs"})))
      BY <1>1, <1>2, LeadsFirstInner, Zenon
    <2> QED BY <1>5, <2>1, LeadsJoin, Zenon
  <1>7. Leads({Begin}, t5, InObject(Objects(InFsmd, {"fs"}),
                                    {"byteOffset", "blockSize", "fsID", "volName", "volIndex"}))
    <2>1. Opens(Objects(InFsmd, {"fs"}))
      BY <1>1, OpensWithin, Zenon
    <2> QED BY <1>6, <2>1, FsStart, LeadsStarts, Zenon
  <1>8. Leads({Begin}, t6, InObject(InFsmd, {"fs"}))
    BY <1>1, <1>7, LeadsUp, LeadsJoin, Zenon
  <1>9. Leads({Begin}, t7, InObject(InFsmd, {"fs"} \cup {"path"}))
    <2>1. Adds(pair("path", j(path), FALSE), {"path"})
      BY <1>2, StringValue, PairAdds, Zenon
    <2>2. Apart({"fs"}, {"path"})
      BY Zenon DEF Apart
    <2> QED BY <1>1, <1>8, <2>1, <2>2, LeadsAdds, Zenon
  <1>10. {"fs"} \cup {"path"} = {"fs", "path"}
    BY Zenon
  <1> QED BY <1>9, <1>10, Zenon DEF fileText

LEMMA NameAdds ==
    ASSUME NEW name, name = "plain", NEW shortName, shortName = "plain"
    PROVE  Adds(nameText(name, shortName), {"name"})
  <1>1. Plain("name") /\ Plain("shrt_name")
    BY KeysArePlain, Zenon DEF PlainAll
  <1>2. ASSUME NEW O, NEW L, Opens(O), Apart(L, {"name"})
        PROVE  Leads(InObject(O, L), nameText(name, shortName), InObject(O, L \cup {"name"}))
    <2> DEFINE P == Objects(O, L \cup {"name"})
               K1 == {"flags", "meta_addr", "meta_seq"}
               K2 == K1 \cup {"name"}
               K3 == K2 \cup {"par_addr", "par_seq"}
               K4 == K3 \cup {"shrt_name"}
               K5 == K4 \cup {"type"}
               t1 == <<",", "name", ":", "{">>
               t2 == t1 \o plainPairs(<<"flags", "meta_addr", "meta_seq">>, TRUE)
               t3 == t2 \o pair("name", j(name), FALSE)
               t4 == t3 \o plainPairs(<<"par_addr", "par_seq">>, FALSE)
               t5 == t4 \o pair("shrt_name", j(shortName), FALSE)
               t6 == t5 \o plainPairs(<<"type">>, FALSE)
               t7 == t6 \o <<"}">>
    <2>1. Opens(P)
      BY <1>2, OpensWithin, Zenon
    <2>2. /\ Apart(K1, {"name"}) /\ Apart(K2, {"par_addr", "par_seq"}) /\ Apart(K3, {"shrt_name"})
          /\ Apart(K4, {"type"})
      BY Zenon DEF Apart
    <2>3. /\ Adds(pair("name", j(name), FALSE), {"name"})
          /\ Adds(pair("shrt_name", j(shortName), FALSE), {"shrt_name"})
      BY <1>1, StringValue, PairAdds, Zenon
    <2> HIDE DEF K1, K2, K3, K4, K5, P
    <2>4. Leads(InObject(O, L), t1, NewObject(P))
      <3>1. "name" \notin L
        BY <1>2, Zenon DEF Apart
      <3> QED BY <1>1, <1>2, <3>1, LeadsNextInner, Zenon DEF P
    <2>5. Leads(InObject(O, L), t2, InObject(P, K1))
      BY <2>1, <2>4, NameStart, LeadsStarts, Zenon DEF K1
    <2>6. Leads(InObject(O, L), t3, InObject(P, K2))
      BY <2>1, <2>2, <2>3, <2>5, LeadsAdds, Zenon DEF K2
    <2>7. Leads(InObject(O, L), t4, InObject(P, K3))
      BY <2>1, <2>2, <2>6, ParentAdds, LeadsAdds, Zenon DEF K3
    <2>8. Leads(InObject(O, L), t5, InObject(P, K4))
      BY <2>1, <2>2, <2>3, <2>7, LeadsAdds, Zenon DEF K4
    <2>9. Leads(InObject(O, L), t6, InObject(P, K5))
      BY <2>1, <2>2, <2>8, TypeAdds, LeadsAdds, Zenon DEF K5
    <2>10. Leads(InObject(O, L), t7, InObject(O, L \cup {"name"}))
      <3>1. Leads(InObject(P, K5), <<"}">>, InObject(O, L \cup {"name"}))
        BY <1>2, LeadsUp, Zenon DEF P
      <3> QED BY <2>9, <3>1, LeadsJoin, Zenon
    <2> QED BY <2>10, Zenon DEF nameText
  <1> QED BY <1>2, Zenon DEF Adds

\* metaText up to the attributes.
LEMMA MetaLeads ==
    ASSUME NEW link, link = <<>> \/ link[1] = "plain",
           NEW fsTimes, fsTimes \in {<<>>, <<"dtime">>, <<"bkup_time">>}
    PROVE  Leads(InObject(InFsmd, {"fs", "path", "name"}), metaText(link, fsTimes), NewArray(AttrsIn))
  <1> DEFINE P == Objects(InFsmd, {"fs", "path", "name"} \cup {"meta"})
             K1 == {"addr", "accessed", "content_len", "created", "metadata", "flags", "gid"}
             K2 == K1 \cup {"link"}
             K3 == K2 \cup {"dtime", "bkup_time"}
             K4 == K3 \cup {"mode", "modified", "nlink", "seq", "size", "type", "uid"}
             linkText == IF link = <<>> THEN <<>> ELSE pair("link", j(link[1]), FALSE)
             t1 == <<",", "meta", ":", "{">>
             t2 == t1 \o plainPairs(<<"addr", "accessed", "content_len", "created", "metadata",
                                      "flags", "gid">>, TRUE)
             t3 == t2 \o linkText
             t4 == t3 \o plainPairs(fsTimes, FALSE)
             t5 == t4 \o plainPairs(<<"mode", "modified", "nlink", "seq", "size", "type", "uid">>, FALSE)
             t6 == t5 \o <<",", "attrs", ":", "[">>
             S == InObject(InFsmd, {"fs", "path", "name"})
  <1>1. Opens(InFsmd) /\ Opens(P)
    BY RecordOpens, OpensWithin, Zenon
  <1>2. Plain("meta") /\ Plain("link") /\ Plain("attrs")
    BY KeysArePlain, Zenon DEF PlainAll
  <1>3. /\ Apart(K1, {"link"}) /\ Apart(K2, {"dtime", "bkup_time"})
        /\ Apart(K3, {"mode", "modified", "nlink", "seq", "size", "type", "uid"})
        /\ "attrs" \notin K4
    BY Zenon DEF Apart
  <1>4. Adds(linkText, {"link"})
    <2>1. CASE link = <<>>
      BY <2>1, NothingAdds, Zenon
    <2>2. CASE link # <<>>
      BY <1>2, <2>2, StringValue, PairAdds, Zenon
    <2> QED BY <2>1, <2>2, Zenon
  <1>5. Adds(plainPairs(fsTimes, FALSE), {"dtime", "bkup_time"})
    <2>1. CASE fsTimes = <<>>
      BY <2>1, NoNamesAdd, Zenon
    <2>2. CASE fsTimes = <<"dtime">>
      <3>1. {"dtime"} \subseteq {"dtime", "bkup_time"}
        BY Zenon
      <3> QED BY <2>2, <3>1, DeletedAdds, AddsWider, Zenon
    <2>3. CASE fsTimes = <<"bkup_time">>
      <3>1. {"bkup_time"} \subseteq {"dtime", "bkup_time"}
        BY Zenon
      <3> QED BY <2>3, <3>1, BackupAdds, AddsWider, Zenon
    <2> QED BY <2>1, <2>2, <2>3, Zenon
  <1>6. Objects(P, K4 \cup {"attrs"}) = AttrsIn
    <2>1. {"fs", "path", "name"} \cup {"meta"} = FsmdKeys
      BY Zenon DEF FsmdKeys
    <2>2. K4 \cup {"attrs"} = MetaKeys
      BY Zenon DEF MetaKeys
    <2> QED BY <2>1, <2>2, Zenon DEF AttrsIn
  <1> HIDE DEF K1, K2, K3, K4, P, linkText
  <1>7. Leads(S, t1, NewObject(P))
    <2>1. "meta" \notin {"fs", "path", "name"}
      BY Zenon
    <2> QED BY <1>1, <1>2, <2>1, LeadsNextInner, Zenon DEF P
  <1> HIDE DEF S
  <1>8. Leads(S, t2, InObject(P, K1))
    BY <1>1, <1>7, MetaStart, LeadsStarts, Zenon DEF K1
  <1>9. Leads(S, t3, InObject(P, K2))
    BY <1>1, <1>3, <1>4, <1>8, LeadsAdds, Zenon DEF K2
  <1>10. Leads(S, t4, InObject(P, K3))
    BY <1>1, <1>3, <1>5, <1>9, LeadsAdds, Zenon DEF K3
  <1>11. Leads(S, t5, InObject(P, K4))
    BY <1>1, <1>3, <1>10, MetaAdds, LeadsAdds, Zenon DEF K4
  <1>12. Leads(S, t6, NewArray(Objects(P, K4 \cup {"attrs"})))
    <2>1. Leads(InObject(P, K4), <<",", "attrs", ":", "[">>, NewArray(Objects(P, K4 \cup {"attrs"})))
      BY <1>1, <1>2, <1>3, LeadsNextInner, Zenon
    <2> QED BY <1>11, <2>1, LeadsJoin, Zenon
  <1> QED BY <1>6, <1>12, Zenon DEF metaText, linkText, S

\* The two ends of a record.
LEMMA EndLeads ==
    /\ Leads(NewArray(AttrsIn) \cup InArray(AttrsIn), metaEnd, Done(Doc))
    /\ \A K : Leads(InObject(InFsmd, K), noMetaEnd, Done(Doc))
  <1> DEFINE Meta == Objects(InFsmd, FsmdKeys)
             S == NewArray(AttrsIn) \cup InArray(AttrsIn)
  <1>1. Opens(Doc) /\ Opens(InT) /\ Opens(InFsmd) /\ Opens(Meta)
    BY RecordOpens, Zenon
  <1> HIDE DEF Meta
  <1>2. Leads(S, <<"]">>, InObject(Meta, MetaKeys))
    BY <1>1, LeadsUpArray, Zenon DEF AttrsIn, Meta
  <1> HIDE DEF S
  <1>3. Leads(InObject(Meta, MetaKeys), <<"}">>, InObject(InFsmd, FsmdKeys))
    BY <1>1, LeadsUp, Zenon DEF Meta
  <1>4. \A K : Leads(InObject(InFsmd, K), <<"}">>, InObject(InT, {"fsmd"}))
    BY <1>1, LeadsUp, Zenon DEF InFsmd
  <1>5. \A K : Leads(InObject(InT, K), <<"}">>, InObject(Doc, IdKeys \cup {"t"}))
    BY <1>1, LeadsUp, Zenon DEF InT
  <1>6. Leads(InObject(Doc, IdKeys \cup {"t"}), <<"}">>, Done(Doc))
    BY <1>1, LeadsObjectEnd, Zenon
  <1>7. Leads(S, metaEnd, Done(Doc))
    <2>1. Leads(S, <<"]", "}">>, InObject(InFsmd, FsmdKeys))
      BY <1>2, <1>3, LeadsTwo, Zenon
    <2>2. Leads(S, <<"]", "}", "}">>, InObject(InT, {"fsmd"}))
      BY <1>4, <2>1, LeadsThree, Zenon
    <2>3. Leads(S, <<"]", "}", "}">> \o plainPairs(<<"__link">>, FALSE), InObject(InT, {"fsmd"} \cup {"__link"}))
      <3>1. Apart({"fsmd"}, {"__link"})
        BY Zenon DEF Apart
      <3> QED BY <1>1, <2>2, <3>1, LinkAdds, LeadsAdds, Zenon
    <2>4. Leads(InObject(InT, {"fsmd"} \cup {"__link"}), <<"}", "}">>, Done(Doc))
      <3>1. Leads(InObject(InT, {"fsmd"} \cup {"__link"}), <<"}">>, InObject(Doc, IdKeys \cup {"t"}))
        BY <1>5, Zenon
      <3> QED BY <1>6, <3>1, LeadsTwo, Zenon
    <2>5. Leads(S, (<<"]", "}", "}">> \o plainPairs(<<"__link">>, FALSE)) \o <<"}", "}">>, Done(Doc))
      BY <2>3, <2>4, LeadsJoin, Zenon
    <2> QED BY <2>5, Zenon DEF metaEnd
  <1>8. ASSUME NEW K
        PROVE  Leads(InObject(InFsmd, K), noMetaEnd, Done(Doc))
    <2>1. Leads(InObject(InFsmd, K), <<"}">>, InObject(InT, {"fsmd"}))
      BY <1>4, Zenon
    <2>2. Leads(InObject(InT, {"fsmd"}), <<"}">>, InObject(Doc, IdKeys \cup {"t"}))
      BY <1>5, Zenon
    <2>3. Leads(InObject(InFsmd, K), <<"}", "}">>, InObject(Doc, IdKeys \cup {"t"}))
      BY <2>1, <2>2, LeadsTwo, Zenon
    <2>4. Leads(InObject(InFsmd, K), <<"}", "}", "}">>, Done(Doc))
      BY <1>6, <2>3, LeadsThree, Zenon
    <2> QED BY <2>4, Zenon DEF noMetaEnd
  <1> QED BY <1>7, <1>8, Zenon DEF S

LEMMA RunValue == IsValue(runText)
  BY RunStart, ObjectValue, Zenon DEF runText

\* The runs of an attribute that are printed.
Printed(runs) == Cardinality({i \in DOMAIN runs : runs[i] # "filler"})

LEMMA PrintedIs ==
    ASSUME NEW n \in Nat, NEW runs, DOMAIN runs = 1 .. n
    PROVE  Printed(runs) \in Nat
  <1>1. IsFiniteSet(1 .. n)
    BY FS_Interval
  <1>2. {i \in DOMAIN runs : runs[i] # "filler"} \subseteq 1 .. n
    BY Zenon
  <1>3. IsFiniteSet({i \in DOMAIN runs : runs[i] # "filler"})
    BY <1>1, <1>2, FS_Subset, Zenon
  <1> QED BY <1>3, FS_CardinalityType, Zenon DEF Printed

LEMMA AttrValue ==
    ASSUME NEW name, name = "plain", NEW resident, NEW nonres, NEW n \in Nat,
           NEW runs, DOMAIN runs = 1 .. n
    PROVE  IsValue(attrText(name, resident, nonres, runs))
  <1> DEFINE texts == <<"[">> \o writeSequence([i \in 1 .. Printed(runs) |-> runText]) \o <<"]">>
             bytes == IF resident THEN plainPairs(<<"rd_buf">>, FALSE) ELSE <<>>
             nrd == IF nonres THEN pair("nrd_runs", texts, FALSE) ELSE <<>>
             K1 == {"flags", "id"}
             K2 == K1 \cup {"name"}
             K3 == K2 \cup {"size", "type", "rd_buf_size", "nrd_allocsize", "nrd_compsize",
                            "nrd_initsize", "nrd_skiplen"}
             K4 == K3 \cup {"rd_buf"}
             K5 == K4 \cup {"nrd_runs"}
             t1 == plainPairs(<<"flags", "id">>, TRUE)
             t2 == <<"{">> \o t1
             t3 == t2 \o pair("name", j(name), FALSE)
             t4 == t3 \o plainPairs(<<"size", "type", "rd_buf_size", "nrd_allocsize", "nrd_compsize",
                                      "nrd_initsize", "nrd_skiplen">>, FALSE)
             t5 == t4 \o bytes
             t6 == t5 \o nrd
             t7 == t6 \o <<"}">>
  <1>1. Plain("name") /\ Plain("nrd_runs")
    BY KeysArePlain, Zenon DEF PlainAll
  <1>2. /\ Apart(K1, {"name"})
        /\ Apart(K2, {"size", "type", "rd_buf_size", "nrd_allocsize", "nrd_compsize",
                      "nrd_initsize", "nrd_skiplen"})
        /\ Apart(K3, {"rd_buf"}) /\ Apart(K4, {"nrd_runs"})
    BY Zenon DEF Apart
  <1>3. Adds(bytes, {"rd_buf"})
    BY BytesAdds, NothingAdds, Zenon
  <1>4. Adds(nrd, {"nrd_runs"})
    <2>1. Printed(runs) \in Nat
      BY PrintedIs, Zenon
    <2>2. IsValue(texts)
      BY <2>1, RunValue, SameValue, Zenon
    <2> HIDE DEF texts
    <2>3. Adds(pair("nrd_runs", texts, FALSE), {"nrd_runs"})
      BY <1>1, <2>2, PairAdds, Zenon
    <2> QED BY <2>3, NothingAdds, Zenon
  <1>5. Adds(pair("name", j(name), FALSE), {"name"})
    BY <1>1, StringValue, PairAdds, Zenon
  <1>6. attrText(name, resident, nonres, runs) = t7
    BY Zenon DEF attrText, Printed
  <1> HIDE DEF K1, K2, K3, K4, K5, bytes, nrd, texts
  <1>7. ASSUME NEW O, Opens(O)
        PROVE  Leads(Wanting(O), t7, Done(O))
    <2> DEFINE W == Wanting(O)
    <2>1. Leads(W, <<"{">>, NewObject(O))
      BY LeadsValue, Zenon
    <2> HIDE DEF W
    <2>2. Leads(W, t2, InObject(O, K1))
      BY <1>7, <2>1, AttrStart, LeadsStarts, Zenon DEF K1
    <2>3. Leads(W, t3, InObject(O, K2))
      BY <1>2, <1>5, <1>7, <2>2, LeadsAdds, Zenon DEF K2
    <2>4. Leads(W, t4, InObject(O, K3))
      BY <1>2, <1>7, <2>3, AttrAdds, LeadsAdds, Zenon DEF K3
    <2>5. Leads(W, t5, InObject(O, K4))
      BY <1>2, <1>3, <1>7, <2>4, LeadsAdds, Zenon DEF K4
    <2>6. Leads(W, t6, InObject(O, K5))
      BY <1>2, <1>4, <1>7, <2>5, LeadsAdds, Zenon DEF K5
    <2>7. Leads(InObject(O, K5), <<"}">>, Done(O))
      BY <1>7, LeadsObjectEnd, Zenon
    <2>8. Leads(W, t7, Done(O))
      BY <2>6, <2>7, LeadsJoin, Zenon
    <2> QED BY <2>8, Zenon DEF W
  <1> QED BY <1>6, <1>7, Zenon DEF IsValue

-----------------------------------------------------------------------------
(***************************************************************************)
(* The maps.                                                               *)
(***************************************************************************)
LEMMA DiskMapLeads ==
    ASSUME NEW n \in Nat
    PROVE  Leads({Begin}, diskMapLine(n), Done(Doc))
  <1> DEFINE owner == <<"{">> \o plainPairs(<<"vol", "inum", "attrId", "s", "drbeg", "fo">>, TRUE) \o <<"}">>
             T == Objects(Doc, {"id"} \cup {"t"})
             I == Objects(T, {"i"})
             F == Objects(I, {"b", "l"} \cup {"f"})
             t1 == <<"{">>
             t2 == t1 \o plainPairs(<<"id">>, TRUE)
             t3 == t2 \o <<",", "t", ":", "{", "i", ":", "{">>
             t4 == t3 \o plainPairs(<<"b", "l">>, TRUE)
             t5 == t4 \o <<",", "f", ":", "[">>
             t6 == t5 \o writeSequence([i \in 1 .. n |-> owner])
             t7 == t6 \o <<"]", "}", "}", "}">>
  <1>1. Opens(Doc) /\ Opens(T) /\ Opens(I) /\ Opens(F)
    <2>1. Opens(Doc)
      BY RecordOpens, Zenon
    <2>2. Opens(T)
      BY <2>1, OpensWithin, Zenon
    <2>3. Opens(I)
      BY <2>2, OpensWithin, Zenon
    <2> QED BY <2>1, <2>2, <2>3, OpensWithin, Zenon
  <1>2. Plain("t") /\ Plain("i") /\ Plain("f") /\ "t" \notin {"id"} /\ "f" \notin {"b", "l"}
    BY KeysArePlain, Zenon DEF PlainAll
  <1>3. IsValue(owner)
    BY OwnerStart, ObjectValue, Zenon
  <1>4. diskMapLine(n) = t7
    BY Zenon DEF diskMapLine
  <1> HIDE DEF owner
  <1>5. Leads({Begin}, t1, NewObject(Doc))
    BY DocStart, Zenon
  <1>6. Leads({Begin}, t2, InObject(Doc, {"id"}))
    BY <1>1, <1>5, IdStart, LeadsStarts, Zenon
  <1>7. PICK inner : inner = <<",", "t", ":", "{", "i", ":", "{">>
    OBVIOUS
  <1> HIDE DEF T, I, F
  <1>8. Leads({Begin}, t2 \o inner, NewObject(I))
    <2>1. Leads(InObject(Doc, {"id"}), inner, NewObject(I))
      BY <1>1, <1>2, <1>7, LeadsInnerTwice, Zenon DEF T, I
    <2> QED BY <1>6, <2>1, LeadsJoin, Zenon
  <1>9. Leads({Begin}, t3, NewObject(I))
    BY <1>7, <1>8, Zenon
  <1> HIDE DEF t3
  <1>10. Leads({Begin}, t4, InObject(I, {"b", "l"}))
    BY <1>1, <1>9, SegmentStart, LeadsStarts, Zenon
  <1>11. Leads({Begin}, t5, NewArray(F))
    <2>1. Leads(InObject(I, {"b", "l"}), <<",", "f", ":", "[">>, NewArray(F))
      BY <1>1, <1>2, LeadsNextInner, Zenon DEF F
    <2> QED BY <1>10, <2>1, LeadsJoin, Zenon
  <1>12. Leads({Begin}, t6, NewArray(F) \cup InArray(F))
    <2>1. Leads(NewArray(F), writeSequence([i \in 1 .. n |-> owner]), NewArray(F) \cup InArray(F))
      BY <1>1, <1>3, SameValue, Zenon
    <2> QED BY <1>11, <2>1, LeadsJoin, Zenon
  <1>13. Leads(NewArray(F) \cup InArray(F), <<"]", "}", "}", "}">>, Done(Doc))
    <2>1. Leads(NewArray(F) \cup InArray(F), <<"]">>, InObject(I, {"b", "l"} \cup {"f"}))
      BY <1>1, LeadsUpArray, Zenon DEF F
    <2>2. Leads(InObject(I, {"b", "l"} \cup {"f"}), <<"}">>, InObject(T, {"i"}))
      BY <1>1, LeadsUp, Zenon DEF I
    <2>3. Leads(InObject(T, {"i"}), <<"}">>, InObject(Doc, {"id"} \cup {"t"}))
      BY <1>1, LeadsUp, Zenon DEF T
    <2>4. Leads(InObject(Doc, {"id"} \cup {"t"}), <<"}">>, Done(Doc))
      BY <1>1, LeadsObjectEnd, Zenon
    <2>5. Leads(NewArray(F) \cup InArray(F), <<"]", "}">>, InObject(T, {"i"}))
      BY <2>1, <2>2, LeadsTwo, Zenon
    <2>6. Leads(NewArray(F) \cup InArray(F), <<"]", "}", "}">>, InObject(Doc, {"id"} \cup {"t"}))
      BY <2>3, <2>5, LeadsThree, Zenon
    <2> QED BY <2>4, <2>6, LeadsFour, Zenon
  <1>14. Leads({Begin}, t7, Done(Doc))
    BY <1>12, <1>13, LeadsJoin, Zenon
  <1> QED BY <1>4, <1>14, Zenon DEF t3

\* The runs of the data, or of the slack, of an attribute in the inode map.
Extents(m) ==
    <<"[">> \o writeSequence([i \in 1 .. m |->
                   <<"{">> \o plainPairs(<<"fo", "start", "end">>, TRUE) \o <<"}">>]) \o <<"]">>

LEMMA ExtentsValue ==
    ASSUME NEW m \in Nat
    PROVE  IsValue(Extents(m))
  <1>1. IsValue(<<"{">> \o plainPairs(<<"fo", "start", "end">>, TRUE) \o <<"}">>)
    BY ExtentStart, ObjectValue, Zenon
  <1> QED BY <1>1, SameValue, Zenon DEF Extents

InodeAttr(a) ==
    <<"{">> \o plainPairs(<<"id", "type", "size", "slack_size", "resident", "resident_data">>, TRUE)
        \o pair("runs", Extents(a[1]), FALSE) \o pair("slack_runs", Extents(a[2]), FALSE) \o <<"}">>

LEMMA InodeAttrValue ==
    ASSUME NEW a, a[1] \in Nat, a[2] \in Nat
    PROVE  IsValue(InodeAttr(a))
  <1> DEFINE K1 == {"id", "type", "size", "slack_size", "resident", "resident_data"}
             K2 == K1 \cup {"runs"}
             K3 == K2 \cup {"slack_runs"}
             t2 == <<"{">> \o plainPairs(<<"id", "type", "size", "slack_size", "resident",
                                           "resident_data">>, TRUE)
             t3 == t2 \o pair("runs", Extents(a[1]), FALSE)
             t4 == t3 \o pair("slack_runs", Extents(a[2]), FALSE)
             t5 == t4 \o <<"}">>
  <1>1. Plain("runs") /\ Plain("slack_runs")
    BY KeysArePlain, Zenon DEF PlainAll
  <1>2. /\ Adds(pair("runs", Extents(a[1]), FALSE), {"runs"})
        /\ Adds(pair("slack_runs", Extents(a[2]), FALSE), {"slack_runs"})
    BY <1>1, ExtentsValue, PairAdds, Zenon
  <1>3. Apart(K1, {"runs"}) /\ Apart(K2, {"slack_runs"})
    BY Zenon DEF Apart
  <1> HIDE DEF K1, K2, K3
  <1>4. ASSUME NEW O, Opens(O)
        PROVE  Leads(Wanting(O), t5, Done(O))
    <2> DEFINE W == Wanting(O)
    <2>1. Leads(W, <<"{">>, NewObject(O))
      BY LeadsValue, Zenon
    <2> HIDE DEF W
    <2>2. Leads(W, t2, InObject(O, K1))
      BY <1>4, <2>1, InodeAttrStart, LeadsStarts, Zenon DEF K1
    <2>3. Leads(W, t3, InObject(O, K2))
      BY <1>2, <1>3, <1>4, <2>2, LeadsAdds, Zenon DEF K2
    <2>4. Leads(W, t4, InObject(O, K3))
      BY <1>2, <1>3, <1>4, <2>3, LeadsAdds, Zenon DEF K3
    <2>5. Leads(InObject(O, K3), <<"}">>, Done(O))
      BY <1>4, LeadsObjectEnd, Zenon
    <2>6. Leads(W, t5, Done(O))
      BY <2>4, <2>5, LeadsJoin, Zenon
    <2> QED BY <2>6, Zenon DEF W
  <1> QED BY <1>4, Zenon DEF IsValue, InodeAttr

LEMMA InodeMapLeads ==
    ASSUME NEW n \in Nat, NEW m \in Nat, NEW attrs, Len(attrs) = m,
           \A i \in 1 .. m : attrs[i][1] \in Nat /\ attrs[i][2] \in Nat
    PROVE  Leads({Begin}, inodeMapLine(n, attrs), Done(Doc))
  <1> DEFINE T == Objects(Doc, {"id"} \cup {"t"})
             L == Objects(T, {"hardlinks"})
             A == Objects(T, {"hardlinks"} \cup {"attrData"})
             texts == [i \in 1 .. Len(attrs) |-> InodeAttr(attrs[i])]
             t1 == <<"{">>
             t2 == t1 \o plainPairs(<<"id">>, TRUE)
             t3 == t2 \o <<",", "t", ":", "{", "hardlinks", ":", "[">>
             t4 == t3 \o writeSequence([i \in 1 .. n |-> <<"val">>])
             t5 == t4 \o <<"]", ",", "attrData", ":", "[">>
             t6 == t5 \o writeSequence(texts)
             t7 == t6 \o <<"]", "}", "}">>
  <1>1. Opens(Doc) /\ Opens(T) /\ Opens(L) /\ Opens(A)
    <2>1. Opens(Doc)
      BY RecordOpens, Zenon
    <2>2. Opens(T)
      BY <2>1, OpensWithin, Zenon
    <2> QED BY <2>1, <2>2, OpensWithin, Zenon
  <1>2. /\ Plain("t") /\ Plain("hardlinks") /\ Plain("attrData")
        /\ "t" \notin {"id"} /\ "attrData" \notin {"hardlinks"}
    BY KeysArePlain, Zenon DEF PlainAll
  <1>3. /\ texts = [i \in 1 .. m |-> texts[i]]
        /\ \A i \in 1 .. m : IsValue(texts[i])
    <2>1. \A i \in 1 .. m : texts[i] = InodeAttr(attrs[i])
      OBVIOUS
    <2>2. \A i \in 1 .. m : IsValue(texts[i])
      BY <2>1, InodeAttrValue, Zenon
    <2>3. texts = [i \in 1 .. m |-> texts[i]]
      OBVIOUS
    <2> QED BY <2>2, <2>3, Zenon
  <1>4. inodeMapLine(n, attrs) = t7
    BY Zenon DEF inodeMapLine, InodeAttr, Extents
  <1> HIDE DEF texts
  <1>5. Leads({Begin}, t1, NewObject(Doc))
    BY DocStart, Zenon
  <1>6. Leads({Begin}, t2, InObject(Doc, {"id"}))
    BY <1>1, <1>5, IdStart, LeadsStarts, Zenon
  <1>7. PICK inner : inner = <<",", "t", ":", "{", "hardlinks", ":", "[">>
    OBVIOUS
  <1> HIDE DEF T, L, A
  <1>8. Leads({Begin}, t2 \o inner, NewArray(L))
    <2>1. Leads(InObject(Doc, {"id"}), <<",", "t", ":", "{">>, NewObject(T))
      BY <1>1, <1>2, LeadsNextInner, Zenon DEF T
    <2>2. Leads(NewObject(T), <<"hardlinks", ":", "[">>, NewArray(L))
      BY <1>1, <1>2, LeadsFirstInner, Zenon DEF L
    <2>3. Leads(InObject(Doc, {"id"}), inner, NewArray(L))
      BY <1>7, <2>1, <2>2, LeadsSeven, Zenon
    <2> QED BY <1>6, <2>3, LeadsJoin, Zenon
  <1>9. Leads({Begin}, t3, NewArray(L))
    BY <1>7, <1>8, Zenon
  <1> HIDE DEF t3
  <1>10. Leads({Begin}, t4, NewArray(L) \cup InArray(L))
    <2>1. Leads(NewArray(L), writeSequence([i \in 1 .. n |-> <<"val">>]), NewArray(L) \cup InArray(L))
      BY <1>1, ValValue, SameValue, Zenon
    <2> QED BY <1>9, <2>1, LeadsJoin, Zenon
  <1>11. Leads({Begin}, t5, NewArray(A))
    <2>1. Leads(NewArray(L) \cup InArray(L), <<"]">>, InObject(T, {"hardlinks"}))
      BY <1>1, LeadsUpArray, Zenon DEF L
    <2>2. Leads(InObject(T, {"hardlinks"}), <<",", "attrData", ":", "[">>, NewArray(A))
      BY <1>1, <1>2, LeadsNextInner, Zenon DEF A
    <2>3. PICK data : data = <<"]", ",", "attrData", ":", "[">>
      OBVIOUS
    <2>4. Leads(NewArray(L) \cup InArray(L), data, NewArray(A))
      BY <2>1, <2>2, <2>3, LeadsNextFive, Zenon
    <2>5. Leads({Begin}, t4 \o data, NewArray(A))
      BY <1>10, <2>4, LeadsJoin, Zenon
    <2> QED BY <2>3, <2>5, Zenon
  <1>12. Leads({Begin}, t6, NewArray(A) \cup InArray(A))
    <2>1. Leads(NewArray(A), writeSequence(texts), NewArray(A) \cup InArray(A))
      BY <1>1, <1>3, FunctionLeads, Zenon
    <2> QED BY <1>11, <2>1, LeadsJoin, Zenon
  <1>13. Leads(NewArray(A) \cup InArray(A), <<"]", "}", "}">>, Done(Doc))
    <2>1. Leads(NewArray(A) \cup InArray(A), <<"]">>, InObject(T, {"hardlinks"} \cup {"attrData"}))
      BY <1>1, LeadsUpArray, Zenon DEF A
    <2>2. Leads(InObject(T, {"hardlinks"} \cup {"attrData"}), <<"}">>, InObject(Doc, {"id"} \cup {"t"}))
      BY <1>1, LeadsUp, Zenon DEF T
    <2>3. Leads(InObject(Doc, {"id"} \cup {"t"}), <<"}">>, Done(Doc))
      BY <1>1, LeadsObjectEnd, Zenon
    <2>4. Leads(NewArray(A) \cup InArray(A), <<"]", "}">>, InObject(Doc, {"id"} \cup {"t"}))
      BY <2>1, <2>2, LeadsTwo, Zenon
    <2> QED BY <2>3, <2>4, LeadsThree, Zenon
  <1>14. Leads({Begin}, t7, Done(Doc))
    BY <1>12, <1>13, LeadsJoin, Zenon
  <1> QED BY <1>4, <1>14, Zenon DEF t3, texts

-----------------------------------------------------------------------------
(***************************************************************************)
(* The behavior.                                                           *)
(***************************************************************************)
\* The buffer always holds the beginning of a record: up to the attributes, where the comma
\* that is due is known from lastAttr alone, or all of it.
LineInv ==
    /\ pc = "attrs" => Leads({Begin}, buf, IF lastAttr THEN InArray(AttrsIn) ELSE NewArray(AttrsIn))
    /\ pc = "end" => Leads({Begin}, buf, Done(Doc))
    /\ line # <<>> => Leads({Begin}, line, Done(Doc))

LEMMA AtMostOne ==
    ASSUME NEW S, NEW x \in UpTo(S, 1)
    PROVE  x = <<>> \/ x[1] \in S
  <1>1. PICK m \in 0 .. 1 : x \in [1 .. m -> S]
    BY Zenon DEF UpTo
  <1>2. CASE m = 0
    BY <1>1, <1>2
  <1>3. CASE m = 1
    BY <1>1, <1>3
  <1> QED BY <1>2, <1>3

LEMMA UpToDomain ==
    ASSUME NEW S, NEW N \in Nat, NEW x \in UpTo(S, N)
    PROVE  \E m \in Nat : x \in [1 .. m -> S] /\ DOMAIN x = 1 .. m /\ Len(x) = m
  <1>1. PICK m \in 0 .. N : x \in [1 .. m -> S]
    BY Zenon DEF UpTo
  <1>2. m \in Nat /\ DOMAIN x = 1 .. m /\ Len(x) = m
    BY <1>1
  <1> QED BY <1>1, <1>2, Zenon

LEMMA PlainStrings ==
    ASSUME Names \subseteq {"plain"}, NEW x \in Names
    PROVE  x = "plain"
  OBVIOUS

LEMMA WriteFileLeads ==
    ASSUME Names \subseteq {"plain"}, LineInv, WriteFile
    PROVE  LineInv'
  <1> DEFINE More(name) == IF name = <<>> THEN <<>> ELSE nameText(name[1][1], name[1][2])
  <1>1. PICK path \in Names, name \in UpTo(Names \X Names, 1) :
           \/ buf' = (fileText(path) \o More(name)) \o noMetaEnd /\ pc' = "end"
           \/ /\ \E link \in UpTo(Names, 1), fsTimes \in {<<>>, <<"dtime">>, <<"bkup_time">>} :
                    buf' = (fileText(path) \o More(name)) \o metaText(link, fsTimes)
              /\ pc' = "attrs"
    BY Zenon DEF WriteFile
  <1>2. lastAttr' = FALSE /\ line' = <<>>
    BY Zenon DEF WriteFile
  <1>3. Leads({Begin}, fileText(path), InObject(InFsmd, {"fs", "path"}))
    BY PlainStrings, FileLeads, Zenon
  <1>4. Adds(More(name), {"name"})
    <2>1. CASE name = <<>>
      BY <2>1, NothingAdds, Zenon
    <2>2. CASE name # <<>>
      <3>1. name[1] \in Names \X Names
        BY <2>2, AtMostOne, Zenon
      <3>2. name[1][1] \in Names /\ name[1][2] \in Names
        BY <3>1
      <3> QED BY <2>2, <3>2, PlainStrings, NameAdds, Zenon
    <2> QED BY <2>1, <2>2, Zenon
  <1> HIDE DEF More
  <1>5. Leads({Begin}, fileText(path) \o More(name), InObject(InFsmd, {"fs", "path", "name"}))
    <2>1. Apart({"fs", "path"}, {"name"})
      BY Zenon DEF Apart
    <2>2. Leads({Begin}, fileText(path) \o More(name), InObject(InFsmd, {"fs", "path"} \cup {"name"}))
      BY <1>3, <1>4, <2>1, RecordOpens, LeadsAdds, Zenon
    <2>3. {"fs", "path"} \cup {"name"} = {"fs", "path", "name"}
      BY Zenon
    <2> QED BY <2>2, <2>3, Zenon
  <1>6. PICK start : start = fileText(path) \o More(name)
    OBVIOUS
  <1>7. Leads({Begin}, start, InObject(InFsmd, {"fs", "path", "name"}))
    BY <1>5, <1>6, Zenon
  <1>8. CASE buf' = start \o noMetaEnd /\ pc' = "end"
    <2>1. Leads({Begin}, buf', Done(Doc))
      BY <1>7, <1>8, EndLeads, LeadsJoin, Zenon
    <2>2. pc' # "attrs"
      BY <1>8, Zenon
    <2> QED BY <1>2, <2>1, <2>2, Zenon DEF LineInv
  <1>9. CASE /\ \E link \in UpTo(Names, 1), fsTimes \in {<<>>, <<"dtime">>, <<"bkup_time">>} :
                  buf' = start \o metaText(link, fsTimes)
             /\ pc' = "attrs"
    <2>1. PICK link \in UpTo(Names, 1), fsTimes \in {<<>>, <<"dtime">>, <<"bkup_time">>} :
             buf' = start \o metaText(link, fsTimes)
      BY <1>9, Zenon
    <2>2. link = <<>> \/ link[1] = "plain"
      BY AtMostOne, PlainStrings, Zenon
    <2>3. Leads(InObject(InFsmd, {"fs", "path", "name"}), metaText(link, fsTimes), NewArray(AttrsIn))
      BY <2>2, MetaLeads, Zenon
    <2>4. Leads({Begin}, buf', NewArray(AttrsIn))
      BY <1>7, <2>1, <2>3, LeadsJoin, Zenon
    <2>5. pc' # "end"
      BY <1>9, Zenon
    <2> QED BY <1>2, <2>4, <2>5, Zenon DEF LineInv
  <1> QED BY <1>1, <1>6, <1>8, <1>9, Zenon

LEMMA WriteAttrLeads ==
    ASSUME Names \subseteq {"plain"}, LineInv, WriteAttr
    PROVE  LineInv'
  <1>1. pc = "attrs" /\ pc' = "attrs" /\ line' = <<>>
    BY Zenon DEF WriteAttr
  <1>2. Leads({Begin}, buf, IF lastAttr THEN InArray(AttrsIn) ELSE NewArray(AttrsIn))
    BY <1>1, Zenon DEF LineInv
  <1>3. pc' # "end"
    BY <1>1, Zenon
  <1>4. CASE UNCHANGED <<buf, lastAttr>>
    <2>1. buf' = buf /\ lastAttr' = lastAttr
      BY <1>4
    <2> QED BY <1>1, <1>2, <1>3, <2>1, Zenon DEF LineInv
  <1>5. CASE /\ \E name \in Names, resident, nonres \in BOOLEAN, runs \in UpTo({"data", "filler"}, MaxRuns) :
                  buf' = (buf \o Separator) \o attrText(name, resident, nonres, runs)
             /\ lastAttr' = TRUE
    <2>1. PICK name \in Names, resident \in BOOLEAN, nonres \in BOOLEAN, runs \in UpTo({"data", "filler"}, MaxRuns) :
             buf' = (buf \o Separator) \o attrText(name, resident, nonres, runs)
      BY <1>5, Zenon
    <2>2. IsValue(attrText(name, resident, nonres, runs))
      <3>1. MaxRuns \in Nat
        BY LinesAssumption, Zenon
      <3>2. PICK m \in Nat : DOMAIN runs = 1 .. m
        BY <3>1, UpToDomain, Zenon
      <3> QED BY <3>2, PlainStrings, AttrValue, Zenon
    <2>3. Opens(AttrsIn) /\ Opens(Arrays(AttrsIn))
      BY RecordOpens, OpensWithin, Zenon
    <2>4. Leads({Begin}, buf \o Separator, Wanting(Arrays(AttrsIn)))
      <3>1. CASE lastAttr
        <4>1. Leads(InArray(AttrsIn), <<",">>, Wanting(Arrays(AttrsIn)))
          BY <2>3, LeadsArrayEnd, Zenon
        <4>2. Leads({Begin}, buf, InArray(AttrsIn)) /\ Separator = <<",">>
          BY <1>2, <3>1, Zenon DEF Separator
        <4> QED BY <4>1, <4>2, LeadsJoin, Zenon
      <3>2. CASE ~lastAttr
        <4>1. Leads(NewArray(AttrsIn), <<>>, Wanting(Arrays(AttrsIn)))
          BY <2>3, DoneWithin, LeadsNone, Zenon
        <4>2. Leads({Begin}, buf, NewArray(AttrsIn)) /\ Separator = <<>>
          BY <1>2, <3>2, Zenon DEF Separator
        <4> QED BY <4>1, <4>2, LeadsJoin, Zenon
      <3> QED BY <3>1, <3>2, Zenon
    <2>5. Leads(Wanting(Arrays(AttrsIn)), attrText(name, resident, nonres, runs), InArray(AttrsIn))
      <3>1. Leads(Wanting(Arrays(AttrsIn)), attrText(name, resident, nonres, runs), Done(Arrays(AttrsIn)))
        BY <2>2, <2>3, Zenon DEF IsValue
      <3>2. Done(Arrays(AttrsIn)) \subseteq InArray(AttrsIn)
        BY <2>3, DoneWithin, Zenon
      <3> QED BY <3>1, <3>2, LeadsWider, Zenon
    <2>6. Leads({Begin}, buf', InArray(AttrsIn))
      BY <2>1, <2>4, <2>5, LeadsJoin, Zenon
    <2> QED BY <1>1, <1>3, <1>5, <2>6, Zenon DEF LineInv
  <1> QED BY <1>4, <1>5, Zenon DEF WriteAttr

LEMMA MapsLead ==
    /\ DiskMapLine => Leads({Begin}, line', Done(Doc)) /\ pc' = "maps"
    /\ InodeMapLine => Leads({Begin}, line', Done(Doc)) /\ pc' = "maps"
  <1>0. MaxRuns \in Nat /\ MaxAttrs \in Nat
    BY LinesAssumption, Zenon
  <1>1. ASSUME DiskMapLine
        PROVE  Leads({Begin}, line', Done(Doc)) /\ pc' = "maps"
    <2>1. PICK n \in 1 .. MaxRuns : line' = diskMapLine(n)
      BY <1>1, Zenon DEF DiskMapLine
    <2>2. n \in Nat
      BY <1>0, <2>1
    <2>3. pc' = "maps"
      BY <1>1, Zenon DEF DiskMapLine
    <2> QED BY <2>1, <2>2, <2>3, DiskMapLeads, Zenon
  <1>2. ASSUME InodeMapLine
        PROVE  Leads({Begin}, line', Done(Doc)) /\ pc' = "maps"
    <2>1. PICK n \in 0 .. MaxRuns, attrs \in UpTo((0 .. MaxRuns) \X (0 .. MaxRuns), MaxAttrs) :
             line' = inodeMapLine(n, attrs)
      BY <1>2, Zenon DEF InodeMapLine
    <2>2. n \in Nat
      BY <1>0, <2>1
    <2> DEFINE Pairs == (0 .. MaxRuns) \X (0 .. MaxRuns)
    <2> HIDE DEF Pairs
    <2>3. PICK m \in Nat : attrs \in [1 .. m -> Pairs] /\ Len(attrs) = m
      <3>1. attrs \in UpTo(Pairs, MaxAttrs)
        BY Zenon DEF Pairs
      <3> QED BY <1>0, <3>1, UpToDomain, Zenon
    <2>4. ASSUME NEW i \in 1 .. m
          PROVE  attrs[i][1] \in Nat /\ attrs[i][2] \in Nat
      <3>1. attrs[i] \in (0 .. MaxRuns) \X (0 .. MaxRuns)
        BY <2>3, Zenon DEF Pairs
      <3> QED BY <1>0, <3>1
    <2>5. pc' = "maps"
      BY <1>2, Zenon DEF InodeMapLine
    <2> QED BY <2>1, <2>2, <2>3, <2>4, <2>5, InodeMapLeads, Zenon
  <1> QED BY <1>1, <1>2, Zenon

LEMMA LineStep ==
    ASSUME Names \subseteq {"plain"}, LineInv, Next
    PROVE  LineInv'
  <1>1. CASE WriteFile
    BY <1>1, WriteFileLeads, Zenon
  <1>2. CASE WriteAttr
    BY <1>2, WriteAttrLeads, Zenon
  <1>3. CASE EndMeta
    <2>1. /\ pc = "attrs" /\ buf' = buf \o metaEnd /\ pc' = "end" /\ line' = <<>>
      BY <1>3, Zenon DEF EndMeta
    <2>2. Leads({Begin}, buf, NewArray(AttrsIn) \cup InArray(AttrsIn))
      <3>1. Leads({Begin}, buf, IF lastAttr THEN InArray(AttrsIn) ELSE NewArray(AttrsIn))
        BY <2>1, Zenon DEF LineInv
      <3>2. (IF lastAttr THEN InArray(AttrsIn) ELSE NewArray(AttrsIn))
                \subseteq NewArray(AttrsIn) \cup InArray(AttrsIn)
        BY Zenon
      <3> QED BY <3>1, <3>2, LeadsWider, Zenon
    <2>3. Leads({Begin}, buf', Done(Doc))
      BY <2>1, <2>2, EndLeads, LeadsJoin, Zenon
    <2>4. pc' # "attrs"
      BY <2>1, Zenon
    <2> QED BY <2>1, <2>3, <2>4, Zenon DEF LineInv
  <1>4. CASE WriteLine
    <2>1. pc = "end" /\ line' = buf /\ pc' = "idle"
      BY <1>4, Zenon DEF WriteLine
    <2>2. Leads({Begin}, line', Done(Doc))
      BY <2>1, Zenon DEF LineInv
    <2>3. pc' # "attrs" /\ pc' # "end"
      BY <2>1, Zenon
    <2> QED BY <2>2, <2>3, Zenon DEF LineInv
  <1>5. CASE Throw \/ StartMaps
    <2>1. line' = <<>> /\ pc' \in {"idle", "maps"}
      BY <1>5, Zenon DEF Throw, StartMaps
    <2>2. pc' # "attrs" /\ pc' # "end"
      BY <2>1, Zenon
    <2> QED BY <2>1, <2>2, Zenon DEF LineInv
  <1>6. CASE DiskMapLine \/ InodeMapLine
    <2>1. Leads({Begin}, line', Done(Doc)) /\ pc' = "maps"
      BY <1>6, MapsLead, Zenon
    <2>2. pc' # "attrs" /\ pc' # "end"
      BY <2>1, Zenon
    <2> QED BY <2>1, <2>2, Zenon DEF LineInv
  <1> QED BY <1>1, <1>2, <1>3, <1>4, <1>5, <1>6, Zenon DEF Next

LEMMA LineStays ==
    ASSUME LineInv, UNCHANGED vars
    PROVE  LineInv'
  <1>1. pc' = pc /\ buf' = buf /\ lastAttr' = lastAttr /\ line' = line
    BY Zenon DEF vars
  <1> QED BY <1>1, Zenon DEF LineInv

\* Every line of the three outputs of dumpfs is one JSON object in which no member is there
\* twice: whichever of the fields of a record are left out, whichever attributes are in use
\* and whichever runs are printed, and for any number of them (writeFile, writeMetaRecord,
\* writeAttr, outputDiskMap, outputInodeMap).  That is so as long as no name, path or link has
\* a character in it that JSON escapes, which j does not do.
THEOREM EveryLineIsJson ==
    ASSUME Names \subseteq {"plain"}
    PROVE  TextsSpec => []LinesAreJson
  <1>1. TextsInit => LineInv
    <2>1. ASSUME TextsInit
          PROVE  LineInv
      <3>1. pc = "idle" /\ line = <<>>
        BY <2>1, Zenon DEF TextsInit, Init
      <3>2. pc # "attrs" /\ pc # "end"
        BY <3>1, Zenon
      <3> QED BY <3>1, <3>2, Zenon DEF LineInv
    <2> QED BY <2>1
  <1>2. LineInv /\ [Convert \/ Lines]_<<vars, fieldVars>> => LineInv'
    <2>1. ASSUME LineInv, Convert
          PROVE  LineInv'
      BY <2>1, LineStays, Zenon DEF Convert
    <2>2. ASSUME LineInv, Lines
          PROVE  LineInv'
      BY <2>2, LineStep, Zenon DEF Lines
    <2>3. ASSUME LineInv, UNCHANGED <<vars, fieldVars>>
          PROVE  LineInv'
      <3>1. UNCHANGED vars
        BY <2>3, Zenon
      <3> QED BY <2>3, <3>1, LineStays, Zenon
    <2> QED BY <2>1, <2>2, <2>3, Zenon
  <1>3. LineInv => LinesAreJson
    BY ValueIsJson, Zenon DEF LineInv, LinesAreJson, Doc
  <1> QED BY <1>1, <1>2, <1>3, PTL DEF TextsSpec
=============================================================================
