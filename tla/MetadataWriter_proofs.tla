----------------------- MODULE MetadataWriter_proofs ------------------------
(***************************************************************************)
(* The type invariant of the metadata writer, for all images and entries,  *)
(* and before it why the identifiers of the first walk are distinct, as    *)
(* far as one call of setCurDir goes.                                      *)
(***************************************************************************)
EXTENDS WriterProperties, Varint_proofs, SequenceTheorems

(***************************************************************************)
(* Why the identifiers of the first walk are distinct, as far as one call  *)
(* of setCurDir goes.                                                      *)
(*                                                                         *)
(* The counts of the open directories, from the root to the current one,   *)
(* are a position in the tree.  A record's id spells the position at which *)
(* it was made; setCurDir moves on to a position that no id made so far    *)
(* spells, because all of them are left behind in depth-first order.       *)
(***************************************************************************)

Code(c) == VintEncode(FromUint32(c))

\* Below it, a count less one fits a signed 32-bit integer.
CountLimit == 2147483648

\* The id of the child that writeFile makes of the directory on top.
IdOfChild(dirs) == id(newChild(back(dirs), <<>>))

DistinctPaths(dirs) == \A i, j \in 1 .. Len(dirs) : dirs[i].path = dirs[j].path => i = j

\* Every directory but the root is the last child so far of the one below it.
Chain(dirs) ==
    \A i \in 1 .. Len(dirs) :
        /\ dirs[i].level = IF i <= 2 THEN 0 ELSE i - 2
        /\ Len(dirs[i].bareID) = i - 1
        /\ \A m \in 1 .. i - 1 : dirs[i].bareID[m] = Code(dirs[m].count - 1)
        /\ i < Len(dirs) => dirs[i].count > 0

\* x leads through the last children so far of the m lowest directories.
Follows(x, dirs, m) ==
    \A j \in 1 .. m : dirs[j].count > 0 /\ x[j + 2] = Code(dirs[j].count - 1)

\* x turns off, at the m-th directory, into an earlier child.
TurnsOff(x, dirs, m) ==
    /\ Follows(x, dirs, m - 1)
    /\ Len(x) >= m + 2
    /\ \E c \in Nat : c < dirs[m].count - 1 /\ x[m + 2] = Code(c)

\* In depth-first order, x is the position of dirs or before it; x is before it.
Reached(x, dirs) ==
    \/ \E m \in 1 .. Len(dirs) : TurnsOff(x, dirs, m)
    \/ Len(x) - 2 \in 1 .. Len(dirs) /\ Follows(x, dirs, Len(x) - 2)

Passed(x, dirs) ==
    \/ \E m \in 1 .. Len(dirs) : TurnsOff(x, dirs, m)
    \/ Len(x) - 2 \in 1 .. Len(dirs) - 1 /\ Follows(x, dirs, Len(x) - 2)

-----------------------------------------------------------------------------
(***************************************************************************)
(* Types.                                                                  *)
(***************************************************************************)
LEMMA DirInfoFields ==
    ASSUME NEW d \in DirInfos
    PROVE  d.path \in Path /\ d.bareID \in BareId /\ d.level \in Nat /\ d.count \in Nat
  BY DEF DirInfos

LEMMA CodeTyped ==
    ASSUME NEW c \in Nat
    PROVE  Code(c) \in Codeword
  BY FromUint32Word, EncodingTyped DEF Code, Codeword

LEMMA Uint32MaxTyped == VintEncode(Uint32Max) \in Codeword
  <1>1. 0 \in Byte /\ 255 \in Byte
    BY ByteRange
  <1>2. Uint32Max \in Word
    BY <1>1 DEF Uint32Max, Word
  <1> QED BY <1>2, EncodingTyped DEF Codeword

\* The child of a directory is a directory.
LEMMA NewChildTyped ==
    ASSUME NEW d \in DirInfos, NEW p \in Path
    PROVE  /\ newChild(d, p) \in DirInfos
           /\ newChild(d, p).path = p
           /\ newChild(d, p).count = 0
           /\ newChild(d, p).level = IF d.bareID = <<>> THEN 0 ELSE d.level + 1
           /\ \E v \in Codeword : newChild(d, p).bareID = Append(d.bareID, v)
           /\ d.count > 0 => newChild(d, p).bareID = Append(d.bareID, Code(d.count - 1))
  <1>1. d.bareID \in Seq(Codeword) /\ d.level \in Nat /\ d.count \in Nat
    BY DEF DirInfos, BareId
  <1>2. d.count > 0 => Code(d.count - 1) \in Codeword
    BY <1>1, CodeTyped
  <1>3. \E v \in Codeword : newChild(d, p).bareID = Append(d.bareID, v)
    BY <1>1, <1>2, Uint32MaxTyped DEF newChild, appendVarint, Code
  <1>4. newChild(d, p).bareID \in BareId
    BY <1>1, <1>3 DEF BareId
  <1>5. newChild(d, p).level \in Nat
    BY <1>1 DEF newChild, childLevel
  <1> QED BY <1>1, <1>3, <1>4, <1>5 DEF newChild, appendVarint, childLevel, Code, DirInfos

LEMMA BehindTwo ==
    ASSUME NEW p \in Seq(Codeword), Len(p) = 2, NEW b \in Seq(Codeword)
    PROVE  /\ p \o b \in Seq(Codeword) /\ Len(p \o b) = Len(b) + 2
           /\ \A m \in 1 .. Len(b) : (p \o b)[m + 2] = b[m]
  <1>1. /\ p \o b \in Seq(Codeword)
        /\ Len(p \o b) = Len(p) + Len(b)
        /\ \A i \in 1 .. Len(p) + Len(b) :
              (p \o b)[i] = IF i <= Len(p) THEN p[i] ELSE b[i - Len(p)]
    BY ConcatProperties, Zenon
  <1> DEFINE pb == p \o b
  <1> HIDE DEF pb
  <1>2. ASSUME NEW m \in 1 .. Len(b)
        PROVE  pb[m + 2] = b[m]
    <2>1. m + 2 \in 1 .. Len(p) + Len(b) /\ ~(m + 2 <= Len(p)) /\ m + 2 - Len(p) = m
      OBVIOUS
    <2> QED BY <1>1, <2>1 DEF pb
  <1> QED BY <1>1, <1>2 DEF pb

LEMMA IdTyped ==
    ASSUME NEW d \in DirInfos
    PROVE  /\ id(d) \in BareId
           /\ Len(id(d)) = Len(d.bareID) + 2
           /\ \A m \in 1 .. Len(d.bareID) : id(d)[m + 2] = d.bareID[m]
  <1>1. d.bareID \in Seq(Codeword) /\ d.level \in Nat
    BY DEF DirInfos, BareId
  <1>2. Code(FILE) \in Codeword /\ Code(d.level) \in Codeword
    BY <1>1, CodeTyped DEF FILE
  <1> DEFINE prefix == Append(Append(<<>>, Code(FILE)), Code(d.level))
  <1>3. id(d) = prefix \o d.bareID
    BY DEF id, appendVarint, Code
  <1>4. prefix \in Seq(Codeword) /\ Len(prefix) = 2
    BY <1>2
  <1> HIDE DEF prefix
  <1> QED BY <1>1, <1>3, <1>4, BehindTwo DEF BareId

\* The string for a record type, a level and a bare id: an id or a key.
Spelling(l, b) == appendVarint(appendVarint(<<>>, FILE), l) \o b

LEMMA TypeAndLevel ==
    ASSUME NEW l \in Nat, NEW b \in BareId
    PROVE  /\ Len(Spelling(l, b)) = Len(b) + 2
           /\ Spelling(l, b)[1] = Code(0) /\ Spelling(l, b)[2] = Code(l)
           /\ \A m \in 1 .. Len(b) : Spelling(l, b)[m + 2] = b[m]
  <1> DEFINE prefix == Append(Append(<<>>, Code(0)), Code(l))
             x == prefix \o b
  <1>1. Spelling(l, b) = x
    BY DEF Spelling, appendVarint, Code, FILE
  <1>2. Code(0) \in Codeword /\ Code(l) \in Codeword /\ b \in Seq(Codeword)
    BY CodeTyped DEF BareId
  <1>3. prefix \in Seq(Codeword) /\ Len(prefix) = 2 /\ prefix[1] = Code(0) /\ prefix[2] = Code(l)
    BY <1>2
  <1> HIDE DEF prefix
  <1>4. Len(x) = Len(b) + 2 /\ \A m \in 1 .. Len(b) : x[m + 2] = b[m]
    BY <1>2, <1>3, BehindTwo
  <1>5. \A i \in 1 .. 2 : x[i] = prefix[i]
    <2>1. \A i \in 1 .. Len(prefix) + Len(b) :
              x[i] = IF i <= Len(prefix) THEN prefix[i] ELSE b[i - Len(prefix)]
      BY <1>2, <1>3, ConcatProperties
    <2>2. ASSUME NEW i \in 1 .. 2
          PROVE  i \in 1 .. Len(prefix) + Len(b) /\ i <= Len(prefix)
      BY <1>2, <1>3, <2>2
    <2> HIDE DEF x
    <2> QED BY <2>1, <2>2
  <1> HIDE DEF x
  <1> QED BY <1>1, <1>3, <1>4, <1>5

LEMMA SpellingTyped ==
    ASSUME NEW l \in Nat, NEW b \in BareId
    PROVE  Spelling(l, b) \in BareId
  <1> DEFINE prefix == Append(Append(<<>>, Code(FILE)), Code(l))
  <1>1. Code(FILE) \in Codeword /\ Code(l) \in Codeword /\ b \in Seq(Codeword)
    BY CodeTyped DEF FILE, BareId
  <1>2. Spelling(l, b) = prefix \o b
    BY DEF Spelling, appendVarint, Code
  <1>3. prefix \in Seq(Codeword)
    BY <1>1
  <1> HIDE DEF prefix
  <1> QED BY <1>1, <1>2, <1>3, ConcatProperties, Zenon DEF BareId

LEMMA SpellingInjective ==
    ASSUME NEW k \in Nat, NEW b \in BareId, NEW l \in Nat, NEW c \in BareId,
           Spelling(k, b) = Spelling(l, c)
    PROVE  b = c
  <1>1. b \in Seq(Codeword) /\ c \in Seq(Codeword) /\ Len(b) \in Nat /\ Len(c) \in Nat
    BY DEF BareId
  <1> DEFINE x == Spelling(k, b)
  <1>2. Len(x) = Len(b) + 2 /\ \A m \in 1 .. Len(b) : x[m + 2] = b[m]
    BY TypeAndLevel
  <1>3. Len(x) = Len(c) + 2 /\ \A m \in 1 .. Len(c) : x[m + 2] = c[m]
    <2>1. x = Spelling(l, c)
      OBVIOUS
    <2> HIDE DEF x
    <2> QED BY <2>1, TypeAndLevel
  <1> HIDE DEF x
  <1>4. Len(b) = Len(c) /\ \A m \in 1 .. Len(b) : b[m] = c[m]
    BY <1>1, <1>2, <1>3, SMTT(30)
  <1> QED BY <1>1, <1>4

\* A prefix of an id that covers type and level spells a prefix of the bare id.
LEMMA SpellingPrefix ==
    ASSUME NEW l \in Nat, NEW b \in BareId, NEW k \in 0 .. Len(b)
    PROVE  SubSeq(Spelling(l, b), 1, k + 2) = Spelling(l, SubSeq(b, 1, k))
  <1>1. b \in Seq(Codeword) /\ Len(b) \in Nat /\ SubSeq(b, 1, k) \in BareId
    BY DEF BareId
  <1> DEFINE x == Spelling(l, b)
             y == Spelling(l, SubSeq(b, 1, k))
  <1>2. Len(SubSeq(b, 1, k)) = k /\ \A m \in 1 .. k : SubSeq(b, 1, k)[m] = b[m]
    BY <1>1
  <1>3. /\ x \in BareId /\ Len(x) = Len(b) + 2 /\ x[1] = Code(0) /\ x[2] = Code(l)
        /\ \A m \in 1 .. Len(b) : x[m + 2] = b[m]
    BY SpellingTyped, TypeAndLevel
  <1>4. /\ y \in BareId /\ Len(y) = k + 2 /\ y[1] = Code(0) /\ y[2] = Code(l)
        /\ \A m \in 1 .. k : y[m + 2] = b[m]
    <2> DEFINE c == SubSeq(b, 1, k)
    <2>1. c \in BareId /\ Len(c) = k /\ \A m \in 1 .. k : c[m] = b[m]
      BY <1>1, <1>2
    <2> HIDE DEF c
    <2>2. /\ Spelling(l, c) \in BareId /\ Len(Spelling(l, c)) = k + 2
          /\ Spelling(l, c)[1] = Code(0) /\ Spelling(l, c)[2] = Code(l)
          /\ \A m \in 1 .. k : Spelling(l, c)[m + 2] = c[m]
      BY <2>1, SpellingTyped, TypeAndLevel
    <2>3. y = Spelling(l, c)
      BY DEF c
    <2> HIDE DEF y
    <2> QED BY <2>1, <2>2, <2>3
  <1> HIDE DEF x, y
  <1>5. ASSUME NEW i \in 1 .. k + 2
        PROVE  x[i] = y[i]
    <2>1. CASE i = 1 \/ i = 2
      BY <1>3, <1>4, <2>1
    <2>2. CASE i > 2
      <3>1. i - 2 \in 1 .. k /\ i - 2 \in 1 .. Len(b) /\ (i - 2) + 2 = i
        BY <1>1, <2>2
      <3> QED BY <1>3, <1>4, <3>1
    <2> QED BY <2>1, <2>2
  <1>6. x \in Seq(Codeword) /\ y \in Seq(Codeword) /\ k + 2 <= Len(x)
    BY <1>1, <1>3, <1>4 DEF BareId
  <1>7. SubSeq(x, 1, k + 2) = y
    BY <1>4, <1>5, <1>6
  <1> QED BY <1>7 DEF x, y

-----------------------------------------------------------------------------
(***************************************************************************)
(* Coming back to the i-th directory of the stack, and counting an entry.  *)
(***************************************************************************)
LEMMA IncCountTyped ==
    ASSUME NEW d \in DirInfos
    PROVE  /\ incCount(d) \in DirInfos
           /\ incCount(d).count = d.count + 1
           /\ incCount(d).path = d.path
           /\ incCount(d).level = d.level
           /\ incCount(d).bareID = d.bareID
  BY DEF DirInfos, incCount

Uncover(dirs, i) == incBack(SubSeq(dirs, 1, i))

\* E is dirs uncovered down to i, with one more entry counted.
Uncovered(dirs, E, i) ==
    /\ Len(E) = i
    /\ \A j \in 1 .. i - 1 : E[j] = dirs[j]
    /\ E[i].count  = dirs[i].count + 1
    /\ E[i].path   = dirs[i].path
    /\ E[i].level  = dirs[i].level
    /\ E[i].bareID = dirs[i].bareID

LEMMA UncoverShape ==
    ASSUME NEW D \in Seq(DirInfos), NEW i \in 1 .. Len(D)
    PROVE  Uncover(D, i) \in Seq(DirInfos) /\ Uncovered(D, Uncover(D, i), i)
  <1> DEFINE S == SubSeq(D, 1, i)
             E == Uncover(D, i)
  <1>1. S \in Seq(DirInfos) /\ Len(S) = i /\ \A j \in 1 .. i : S[j] = D[j]
    OBVIOUS
  <1>2. D[i] \in DirInfos
    OBVIOUS
  <1>3. /\ incCount(D[i]) \in DirInfos
        /\ incCount(D[i]).count = D[i].count + 1
        /\ incCount(D[i]).path = D[i].path
        /\ incCount(D[i]).level = D[i].level
        /\ incCount(D[i]).bareID = D[i].bareID
    BY <1>2, IncCountTyped
  <1> HIDE DEF S
  <1>4. E = [S EXCEPT ![i] = incCount(S[i])]
    <2>1. E = incBack(S)
      BY DEF S, Uncover
    <2> QED BY <1>1, <2>1 DEF incBack
  <1>5. E \in Seq(DirInfos) /\ Len(E) = i
    BY <1>1, <1>3, <1>4
  <1>6. \A j \in 1 .. i : E[j] = IF j = i THEN incCount(D[i]) ELSE D[j]
    BY <1>1, <1>4
  <1> HIDE DEF E
  <1>7. /\ \A j \in 1 .. i - 1 : E[j] = D[j]
        /\ E[i] = incCount(D[i])
    BY <1>6
  <1>8. Uncovered(D, E, i)
    BY <1>3, <1>5, <1>7 DEF Uncovered
  <1> QED BY <1>5, <1>8 DEF E

LEMMA UncoverChain ==
    ASSUME NEW D \in Seq(DirInfos), NEW E \in Seq(DirInfos), NEW i \in 1 .. Len(D),
           Uncovered(D, E, i)
    PROVE  /\ DistinctPaths(D) => DistinctPaths(E)
           /\ Chain(D) => Chain(E)
  <1>1. Len(E) = i /\ i <= Len(D)
    BY DEF Uncovered
  <1>2. \A j \in 1 .. i : /\ E[j].path = D[j].path
                          /\ E[j].level = D[j].level
                          /\ E[j].bareID = D[j].bareID
    BY DEF Uncovered
  <1>3. \A j \in 1 .. i : j < i => E[j].count = D[j].count
    BY DEF Uncovered
  <1>4. DistinctPaths(D) => DistinctPaths(E)
    BY <1>1, <1>2 DEF DistinctPaths
  <1>5. ASSUME Chain(D), NEW j \in 1 .. Len(E)
        PROVE  /\ E[j].level = IF j <= 2 THEN 0 ELSE j - 2
               /\ Len(E[j].bareID) = j - 1
               /\ \A m \in 1 .. j - 1 : E[j].bareID[m] = Code(E[m].count - 1)
               /\ j < Len(E) => E[j].count > 0
    <2>1. j \in 1 .. i /\ j \in 1 .. Len(D) /\ (j < i => j < Len(D))
      BY <1>1
    <2>2. /\ D[j].level = IF j <= 2 THEN 0 ELSE j - 2
          /\ Len(D[j].bareID) = j - 1
          /\ \A m \in 1 .. j - 1 : D[j].bareID[m] = Code(D[m].count - 1)
          /\ j < i => D[j].count > 0
      BY <1>5, <2>1 DEF Chain
    <2>3. \A m \in 1 .. j - 1 : E[m].count = D[m].count
      BY <1>3, <2>1
    <2>4. \A m \in 1 .. j - 1 : E[j].bareID[m] = Code(E[m].count - 1)
      <3> SUFFICES ASSUME NEW m \in 1 .. j - 1
                   PROVE  E[j].bareID[m] = Code(E[m].count - 1)
        OBVIOUS
      <3>1. D[j].bareID[m] = Code(D[m].count - 1) /\ E[m].count = D[m].count
        BY <2>2, <2>3
      <3>2. E[j].bareID = D[j].bareID
        BY <1>2, <2>1
      <3> QED BY <3>1, <3>2
    <2>5. j < Len(E) => E[j].count > 0
      BY <1>1, <1>3, <2>1, <2>2
    <2> QED BY <1>2, <2>1, <2>2, <2>4, <2>5
  <1>6. Chain(D) => Chain(E)
    BY <1>5 DEF Chain
  <1> QED BY <1>4, <1>6

\* What was reached is left behind.
LEMMA UncoverPasses ==
    ASSUME NEW D \in Seq(DirInfos), NEW E \in Seq(DirInfos), NEW i \in 1 .. Len(D),
           Uncovered(D, E, i), NEW x \in BareId, Reached(x, D)
    PROVE  Passed(x, E)
  <1>1. Len(E) = i /\ E[i].count = D[i].count + 1
    BY DEF Uncovered
  <1>2. \A j \in 1 .. i - 1 : E[j].count = D[j].count
    BY DEF Uncovered
  <1>3. Len(x) \in Nat /\ \A j \in 1 .. Len(D) : D[j].count \in Nat
    <2>1. \A j \in 1 .. Len(D) : D[j] \in DirInfos
      OBVIOUS
    <2>2. Len(x) \in Nat
      BY DEF BareId
    <2> QED BY <2>1, <2>2, DirInfoFields
  <1>4. ASSUME NEW m \in Nat, m < i, Follows(x, D, m)
        PROVE  Follows(x, E, m)
    BY <1>2, <1>4, SMTT(30) DEF Follows
  <1>5. ASSUME Len(x) >= i + 2, Follows(x, D, i)
        PROVE  TurnsOff(x, E, i)
    <2>1. D[i].count > 0 /\ x[i + 2] = Code(D[i].count - 1)
      BY <1>5 DEF Follows
    <2>2. D[i].count - 1 \in Nat /\ D[i].count - 1 < E[i].count - 1
      BY <1>1, <1>3, <2>1
    <2>3. Follows(x, D, i - 1) /\ i - 1 \in Nat
      BY <1>5 DEF Follows
    <2>4. Follows(x, E, i - 1)
      BY <1>4, <2>3
    <2> QED BY <1>5, <2>1, <2>2, <2>4 DEF TurnsOff
  <1>6. ASSUME NEW m \in 1 .. Len(D), TurnsOff(x, D, m)
        PROVE  \E n \in 1 .. i : TurnsOff(x, E, n)
    <2>1. PICK c \in Nat : c < D[m].count - 1 /\ x[m + 2] = Code(c)
      BY <1>6 DEF TurnsOff
    <2>2. Follows(x, D, m - 1) /\ Len(x) >= m + 2 /\ m - 1 \in Nat
      BY <1>6 DEF TurnsOff
    <2>3. CASE m <= i
      <3>1. c < E[m].count - 1
        <4>1. c \in Nat /\ c < D[m].count - 1 /\ D[m].count \in Nat
          BY <1>3, <2>1
        <4>2. E[m].count = D[m].count \/ E[m].count = D[m].count + 1
          BY <1>1, <1>2, <2>3
        <4> QED BY <4>1, <4>2
      <3>2. Follows(x, E, m - 1)
        BY <1>4, <2>2, <2>3
      <3> QED BY <2>1, <2>2, <2>3, <3>1, <3>2 DEF TurnsOff
    <2>4. CASE m > i
      <3>1. Len(x) >= i + 2
        BY <1>3, <2>2, <2>4
      <3>2. Follows(x, D, i)
        BY <2>2, <2>4 DEF Follows
      <3> QED BY <1>5, <3>1, <3>2
    <2> QED BY <2>3, <2>4
  <1>7. ASSUME Len(x) - 2 \in 1 .. Len(D), Follows(x, D, Len(x) - 2)
        PROVE  Passed(x, E)
    <2>1. CASE Len(x) - 2 < i
      <3>1. Follows(x, E, Len(x) - 2)
        BY <1>4, <1>7, <2>1
      <3> QED BY <1>1, <1>7, <2>1, <3>1 DEF Passed
    <2>2. CASE Len(x) - 2 >= i
      <3>1. Len(x) >= i + 2
        BY <1>3, <2>2
      <3>2. Follows(x, D, i)
        BY <1>3, <1>7, <2>2 DEF Follows
      <3>3. TurnsOff(x, E, i)
        BY <1>5, <3>1, <3>2
      <3> QED BY <1>1, <3>3 DEF Passed
    <2> QED BY <1>3, <2>1, <2>2
  <1>8. CASE \E m \in 1 .. Len(D) : TurnsOff(x, D, m)
    BY <1>1, <1>6, <1>8 DEF Passed
  <1> QED BY <1>7, <1>8 DEF Reached

-----------------------------------------------------------------------------
(***************************************************************************)
(* Going into the directory that the last entry counted announced.         *)
(***************************************************************************)

\* E is dirs with directory p, the last child of the one on top, put on top.
Pushed(dirs, E, p) ==
    LET n == Len(dirs)
    IN  /\ Len(E) = n + 1
        /\ \A j \in 1 .. n : E[j] = dirs[j]
        /\ E[n + 1].path = p
        /\ E[n + 1].count = 0
        /\ E[n + 1].level = IF dirs[n].bareID = <<>> THEN 0 ELSE dirs[n].level + 1
        /\ \E v \in Codeword : E[n + 1].bareID = Append(dirs[n].bareID, v)
        /\ dirs[n].count > 0 =>
               E[n + 1].bareID = Append(dirs[n].bareID, Code(dirs[n].count - 1))

LEMMA PushShape ==
    ASSUME NEW D \in Seq(DirInfos), Len(D) > 0, NEW p \in Path
    PROVE  /\ Append(D, newChild(back(D), p)) \in Seq(DirInfos)
           /\ Pushed(D, Append(D, newChild(back(D), p)), p)
  <1>1. D[Len(D)] \in DirInfos /\ back(D) = D[Len(D)]
    BY DEF back
  <1> DEFINE c == newChild(back(D), p)
             d == D[Len(D)]
             E == Append(D, c)
  <1>2. /\ c \in DirInfos /\ c.path = p /\ c.count = 0
        /\ c.level = IF d.bareID = <<>> THEN 0 ELSE d.level + 1
        /\ \E v \in Codeword : c.bareID = Append(d.bareID, v)
        /\ d.count > 0 => c.bareID = Append(d.bareID, Code(d.count - 1))
    <2>1. d \in DirInfos /\ c = newChild(d, p)
      BY <1>1
    <2> HIDE DEF c, d
    <2> QED BY <2>1, NewChildTyped, Zenon
  <1> HIDE DEF c
  <1>3. /\ E \in Seq(DirInfos) /\ Len(E) = Len(D) + 1
        /\ \A j \in 1 .. Len(D) : E[j] = D[j]
        /\ E[Len(D) + 1] = c
    BY <1>2
  <1> HIDE DEF E
  <1>4. Pushed(D, E, p)
    BY <1>2, <1>3 DEF Pushed
  <1> QED BY <1>3, <1>4 DEF E, c

LEMMA ChainAt ==
    ASSUME NEW D \in Seq(DirInfos), Chain(D), NEW j \in 1 .. Len(D)
    PROVE  /\ D[j].level = IF j <= 2 THEN 0 ELSE j - 2
           /\ Len(D[j].bareID) = j - 1
           /\ \A m \in 1 .. j - 1 : D[j].bareID[m] = Code(D[m].count - 1)
           /\ j < Len(D) => D[j].count > 0
  BY DEF Chain

LEMMA PushChain ==
    ASSUME NEW D \in Seq(DirInfos), NEW E \in Seq(DirInfos), Len(D) > 0, NEW p,
           Pushed(D, E, p), Chain(D), D[Len(D)].count > 0
    PROVE  Chain(E)
  <1> DEFINE n == Len(D)
             d == D[n]
             c == E[n + 1]
  <1>1. n \in Nat /\ n \in 1 .. n /\ Len(E) = n + 1
    BY DEF Pushed
  <1>2. \A j \in 1 .. n : E[j] = D[j]
    BY DEF Pushed
  <1>3. d \in DirInfos
    BY <1>1
  <1>4. d.bareID \in Seq(Codeword) /\ d.level \in Nat /\ d.count \in Nat /\ d.count - 1 \in Nat
    BY <1>3, DirInfoFields DEF BareId
  <1>5. /\ d.level = IF n <= 2 THEN 0 ELSE n - 2
        /\ Len(d.bareID) = n - 1
        /\ \A m \in 1 .. n - 1 : d.bareID[m] = Code(D[m].count - 1)
    BY <1>1 DEF Chain
  <1>6. /\ c.level = IF d.bareID = <<>> THEN 0 ELSE d.level + 1
        /\ c.bareID = Append(d.bareID, Code(d.count - 1))
    BY DEF Pushed
  <1>7. c.level = IF n + 1 <= 2 THEN 0 ELSE n + 1 - 2
    <2>1. d.bareID = <<>> <=> Len(d.bareID) = 0
      BY <1>4, EmptySeq
    <2>2. d.bareID = <<>> <=> n = 1
      BY <1>1, <1>5, <2>1
    <2> QED BY <1>1, <1>5, <1>6, <2>2
  <1>8. Code(d.count - 1) \in Codeword
    BY <1>4, CodeTyped
  <1>9. /\ Len(c.bareID) = n
        /\ \A m \in 1 .. n : c.bareID[m] = Code(D[m].count - 1)
    <2> DEFINE b == d.bareID
               v == Code(d.count - 1)
    <2>1. Len(b) = n - 1 /\ b \in Seq(Codeword) /\ v \in Codeword /\ c.bareID = Append(b, v)
      BY <1>4, <1>5, <1>6, <1>8
    <2> HIDE DEF b, v
    <2>2. /\ Len(Append(b, v)) = n
          /\ \A m \in 1 .. n : Append(b, v)[m] = IF m = n THEN v ELSE b[m]
      BY <1>1, <2>1
    <2>3. \A m \in 1 .. n - 1 : b[m] = Code(D[m].count - 1)
      BY <1>5 DEF b
    <2>4. v = Code(D[n].count - 1)
      BY DEF v
    <2> QED BY <1>1, <2>1, <2>2, <2>3, <2>4
  <1> HIDE DEF c, d, n
  <1>10. ASSUME NEW j \in 1 .. Len(E)
         PROVE  /\ E[j].level = IF j <= 2 THEN 0 ELSE j - 2
                /\ Len(E[j].bareID) = j - 1
                /\ \A m \in 1 .. j - 1 : E[j].bareID[m] = Code(E[m].count - 1)
                /\ j < Len(E) => E[j].count > 0
    <2>1. CASE j = n + 1
      <3>1. E[j] = c /\ j - 1 = n /\ ~(j < Len(E))
        BY <1>1, <2>1 DEF c
      <3>2. c.level = IF j <= 2 THEN 0 ELSE j - 2
        BY <1>1, <1>7, <2>1
      <3>3. \A m \in 1 .. j - 1 : c.bareID[m] = Code(E[m].count - 1)
        BY <1>2, <1>9, <3>1
      <3> QED BY <1>9, <3>1, <3>2, <3>3
    <2>2. CASE j \in 1 .. n
      <3>1. /\ D[j].level = IF j <= 2 THEN 0 ELSE j - 2
            /\ Len(D[j].bareID) = j - 1
            /\ \A m \in 1 .. j - 1 : D[j].bareID[m] = Code(D[m].count - 1)
            /\ j < n => D[j].count > 0
        <4>1. j \in 1 .. Len(D)
          BY <2>2 DEF n
        <4> QED BY <4>1, ChainAt DEF n
      <3>2. \A m \in 1 .. j : E[m] = D[m]
        BY <1>1, <1>2, <2>2
      <3>3. D[n].count > 0
        BY DEF n
      <3> QED BY <1>1, <2>2, <3>1, <3>2, <3>3
    <2> QED BY <1>1, <2>1, <2>2
  <1> QED BY <1>10 DEF Chain

LEMMA PushReached ==
    ASSUME NEW D \in Seq(DirInfos), NEW E \in Seq(DirInfos), NEW p, Pushed(D, E, p),
           NEW x \in BareId, Reached(x, D)
    PROVE  Reached(x, E)
  <1>1. Len(E) = Len(D) + 1 /\ \A j \in 1 .. Len(D) : E[j] = D[j]
    BY DEF Pushed
  <1>2. ASSUME NEW m \in 0 .. Len(D), Follows(x, D, m)
        PROVE  Follows(x, E, m)
    BY <1>1, <1>2 DEF Follows
  <1>3. ASSUME NEW m \in 1 .. Len(D), TurnsOff(x, D, m)
        PROVE  TurnsOff(x, E, m) /\ m \in 1 .. Len(E)
    BY <1>1, <1>2, <1>3 DEF TurnsOff
  <1>4. ASSUME Len(x) - 2 \in 1 .. Len(D), Follows(x, D, Len(x) - 2)
        PROVE  Len(x) - 2 \in 1 .. Len(E) /\ Follows(x, E, Len(x) - 2)
    BY <1>1, <1>2, <1>4
  <1> QED BY <1>3, <1>4 DEF Reached

LEMMA PushDistinct ==
    ASSUME NEW D \in Seq(DirInfos), NEW E \in Seq(DirInfos), NEW p, Pushed(D, E, p),
           DistinctPaths(D), \A i \in 1 .. Len(D) : D[i].path # p
    PROVE  DistinctPaths(E)
  <1>1. Len(E) = Len(D) + 1 /\ E[Len(D) + 1].path = p
    BY DEF Pushed
  <1>2. \A j \in 1 .. Len(D) : E[j].path = D[j].path
    BY DEF Pushed
  <1>3. ASSUME NEW i \in 1 .. Len(E), NEW j \in 1 .. Len(E), E[i].path = E[j].path
        PROVE  i = j
    <2>1. CASE i \in 1 .. Len(D) /\ j \in 1 .. Len(D)
      BY <1>2, <1>3, <2>1 DEF DistinctPaths
    <2>2. CASE i = Len(D) + 1 \/ j = Len(D) + 1
      BY <1>1, <1>2, <1>3, <2>2
    <2> QED BY <1>1, <2>1, <2>2
  <1> QED BY <1>3 DEF DistinctPaths

-----------------------------------------------------------------------------
(***************************************************************************)
(* setCurDir does one or the other.                                        *)
(***************************************************************************)
LEMMA SetCurDirCases ==
    ASSUME NEW D \in Seq(DirInfos), Len(D) > 0, DistinctPaths(D), NEW p \in Path
    PROVE  /\ setCurDir(D, p) \in Seq(DirInfos)
           /\ \/ \E i \in 1 .. Len(D) : D[i].path = p /\ Uncovered(D, setCurDir(D, p), i)
              \/ /\ \A i \in 1 .. Len(D) : D[i].path # p
                 /\ \E F \in Seq(DirInfos) : /\ Pushed(D, F, p)
                                             /\ Uncovered(F, setCurDir(D, p), Len(F))
  <1>1. CASE \A i \in 1 .. Len(D) : D[i].path # p
    <2> DEFINE F == Append(D, newChild(back(D), p))
    <2>1. F \in Seq(DirInfos) /\ Pushed(D, F, p)
      BY PushShape
    <2>2. Holding(D, p) = {}
      BY <1>1 DEF Holding
    <2>3. setCurDir(D, p) = incBack(F)
      BY <2>2 DEF setCurDir, enterDir
    <2> HIDE DEF F
    <2>4. Len(F) \in 1 .. Len(F) /\ SubSeq(F, 1, Len(F)) = F
      <3>1. Len(F) = Len(D) + 1
        BY <2>1 DEF Pushed
      <3> QED BY <2>1, <3>1
    <2>5. setCurDir(D, p) = Uncover(F, Len(F))
      BY <2>3, <2>4, Zenon DEF Uncover
    <2> QED BY <1>1, <2>1, <2>4, <2>5, UncoverShape
  <1>2. ASSUME NEW i \in 1 .. Len(D), D[i].path = p
        PROVE  setCurDir(D, p) \in Seq(DirInfos) /\ Uncovered(D, setCurDir(D, p), i)
    <2>1. \A j \in Holding(D, p) : j = i
      BY <1>2 DEF Holding, DistinctPaths
    <2>2. i \in Holding(D, p) /\ \A j \in Holding(D, p) : j <= i
      BY <1>2, <2>1 DEF Holding
    <2>3. i = CHOOSE j \in Holding(D, p) : \A k \in Holding(D, p) : k <= j
      BY <2>1, <2>2, Zenon
    <2>4. enterDir(D, p) = SubSeq(D, 1, i)
      BY <2>2, <2>3, Zenon DEF enterDir
    <2>5. setCurDir(D, p) = Uncover(D, i)
      BY <2>4 DEF setCurDir, Uncover
    <2> QED BY <2>5, UncoverShape
  <1> QED BY <1>1, <1>2

\* setCurDir keeps the stack a stack: it holds each directory once, and the current one,
\* of which an entry has been counted, is on top.
THEOREM SetCurDirTyped ==
    ASSUME NEW D \in Seq(DirInfos), Len(D) > 0, DistinctPaths(D), NEW p \in Path
    PROVE  /\ setCurDir(D, p) \in Seq(DirInfos)
           /\ Len(setCurDir(D, p)) > 0
           /\ DistinctPaths(setCurDir(D, p))
           /\ setCurDir(D, p)[1].path = D[1].path
           /\ setCurDir(D, p)[Len(setCurDir(D, p))].path = p
           /\ setCurDir(D, p)[Len(setCurDir(D, p))].count > 0
  <1>1. PICK E \in Seq(DirInfos) : E = setCurDir(D, p)
    BY SetCurDirCases
  <1>2. ASSUME NEW i \in 1 .. Len(D), D[i].path = p, Uncovered(D, E, i)
        PROVE  /\ Len(E) > 0 /\ DistinctPaths(E) /\ E[1].path = D[1].path
               /\ E[Len(E)].path = p /\ E[Len(E)].count > 0
    <2>1. D[i].count \in Nat
      BY DirInfoFields
    <2>2. DistinctPaths(E)
      BY <1>2, UncoverChain
    <2> QED BY <1>2, <2>1, <2>2 DEF Uncovered
  <1>3. ASSUME \A i \in 1 .. Len(D) : D[i].path # p,
               NEW F \in Seq(DirInfos), Pushed(D, F, p), Uncovered(F, E, Len(F))
        PROVE  /\ Len(E) > 0 /\ DistinctPaths(E) /\ E[1].path = D[1].path
               /\ E[Len(E)].path = p /\ E[Len(E)].count > 0
    <2>1. DistinctPaths(F)
      BY <1>3, PushDistinct
    <2>2. Len(F) = Len(D) + 1 /\ F[1] = D[1] /\ F[Len(F)].path = p /\ F[Len(F)].count = 0
      BY <1>3 DEF Pushed
    <2>3. Len(F) \in 1 .. Len(F)
      BY <2>2
    <2>4. DistinctPaths(E)
      BY <1>3, <2>1, <2>3, UncoverChain
    <2> QED BY <1>3, <2>2, <2>4 DEF Uncovered
  <1> QED BY <1>1, <1>2, <1>3, SetCurDirCases

\* No count grows by more than the entry counted.
THEOREM SetCurDirCounts ==
    ASSUME NEW D \in Seq(DirInfos), Len(D) > 0, DistinctPaths(D), NEW p \in Path,
           NEW N \in Nat, \A i \in 1 .. Len(D) : D[i].count <= N
    PROVE  \A i \in 1 .. Len(setCurDir(D, p)) : setCurDir(D, p)[i].count <= N + 1
  <1>1. PICK E \in Seq(DirInfos) : E = setCurDir(D, p)
    BY SetCurDirCases
  <1>2. ASSUME NEW F \in Seq(DirInfos), NEW i \in 1 .. Len(F), Uncovered(F, E, i),
               \A j \in 1 .. Len(F) : F[j].count <= N
        PROVE  \A j \in 1 .. Len(E) : E[j].count <= N + 1
    <2>1. \A j \in 1 .. Len(F) : F[j] \in DirInfos
      OBVIOUS
    <2>2. \A j \in 1 .. Len(F) : F[j].count \in Nat
      BY <2>1, DirInfoFields
    <2> QED BY <1>2, <2>2, SMTT(30) DEF Uncovered
  <1>3. ASSUME NEW F \in Seq(DirInfos), Pushed(D, F, p)
        PROVE  Len(F) \in 1 .. Len(F) /\ \A j \in 1 .. Len(F) : F[j].count <= N
    BY <1>3 DEF Pushed
  <1>4. \A j \in 1 .. Len(E) : E[j].count <= N + 1
    BY <1>1, <1>2, <1>3, SetCurDirCases
  <1> QED BY <1>1, <1>4

\* setCurDir moves on to a position that nothing reached before has.
THEOREM SetCurDirAdvances ==
    ASSUME NEW D \in Seq(DirInfos), Len(D) > 0, DistinctPaths(D), NEW p \in Path, Chain(D),
           D[Len(D)].count > 0 \/ \E i \in 1 .. Len(D) : D[i].path = p
    PROVE  /\ Chain(setCurDir(D, p))
           /\ \A x \in BareId : Reached(x, D) => Passed(x, setCurDir(D, p))
  <1>1. PICK E \in Seq(DirInfos) : E = setCurDir(D, p)
    BY SetCurDirCases
  <1>2. ASSUME NEW i \in 1 .. Len(D), Uncovered(D, E, i)
        PROVE  Chain(E) /\ \A x \in BareId : Reached(x, D) => Passed(x, E)
    BY <1>2, UncoverChain, UncoverPasses
  <1>3. ASSUME \A i \in 1 .. Len(D) : D[i].path # p,
               NEW F \in Seq(DirInfos), Pushed(D, F, p), Uncovered(F, E, Len(F))
        PROVE  Chain(E) /\ \A x \in BareId : Reached(x, D) => Passed(x, E)
    <2>1. Chain(F)
      BY <1>3, PushChain
    <2>2. Len(F) \in 1 .. Len(F)
      BY <1>3 DEF Pushed
    <2>3. Chain(E)
      BY <1>3, <2>1, <2>2, UncoverChain
    <2>4. \A x \in BareId : Reached(x, D) => Reached(x, F)
      BY <1>3, PushReached
    <2>5. \A x \in BareId : Reached(x, F) => Passed(x, E)
      BY <1>3, <2>2, UncoverPasses
    <2> QED BY <2>3, <2>4, <2>5
  <1> QED BY <1>1, <1>2, <1>3, SetCurDirCases

-----------------------------------------------------------------------------
(***************************************************************************)
(* The id made at a position spells it.                                    *)
(***************************************************************************)
THEOREM IdSpellsPosition ==
    ASSUME NEW D \in Seq(DirInfos), Len(D) > 0, Chain(D), D[Len(D)].count > 0
    PROVE  /\ IdOfChild(D) \in BareId
           /\ Len(IdOfChild(D)) = Len(D) + 2
           /\ Follows(IdOfChild(D), D, Len(D))
           /\ Reached(IdOfChild(D), D)
  <1> DEFINE n == Len(D)
             c == newChild(back(D), <<>>)
             x == IdOfChild(D)
  <1>1. <<>> \in Path
    BY DEF Path
  <1>2. PICK E \in Seq(DirInfos) : E = Append(D, c) /\ Pushed(D, E, <<>>)
    BY <1>1, PushShape, Zenon
  <1>3. Chain(E) /\ Len(E) = n + 1 /\ \A j \in 1 .. n : E[j] = D[j]
    <2>1. Chain(E)
      BY <1>2, PushChain, Zenon
    <2>2. Len(E) = n + 1 /\ \A j \in 1 .. n : E[j] = D[j]
      BY <1>2, Zenon DEF Pushed
    <2> QED BY <2>1, <2>2
  <1>4. c \in DirInfos
    <2>1. back(D) \in DirInfos
      BY DEF back
    <2> QED BY <1>1, <2>1, NewChildTyped
  <1> HIDE DEF c
  <1>5. E[n + 1] = c
    BY <1>2, <1>4
  <1>6. Len(c.bareID) = n /\ \A m \in 1 .. n : c.bareID[m] = Code(D[m].count - 1)
    <2>1. PICK k \in 1 .. Len(E) : k = n + 1
      BY <1>3
    <2>2. /\ Len(E[k].bareID) = k - 1
          /\ \A m \in 1 .. k - 1 : E[k].bareID[m] = Code(E[m].count - 1)
      BY <1>3, ChainAt
    <2>3. k - 1 = n
      BY <2>1
    <2> QED BY <1>3, <1>5, <2>1, <2>2, <2>3
  <1>7. /\ x \in BareId /\ Len(x) = n + 2
        /\ \A m \in 1 .. n : x[m + 2] = Code(D[m].count - 1)
    <2>1. x = id(c)
      BY DEF IdOfChild, c
    <2> HIDE DEF x
    <2> QED BY <1>4, <1>6, <2>1, IdTyped
  <1>8. \A j \in 1 .. n : D[j].count > 0
    BY ChainAt
  <1> HIDE DEF x
  <1>9. Follows(x, D, n)
    BY <1>7, <1>8 DEF Follows
  <1>10. Reached(x, D)
    <2>1. Len(x) - 2 = n /\ n \in 1 .. Len(D)
      BY <1>7
    <2> QED BY <1>9, <2>1 DEF Reached
  <1> QED BY <1>7, <1>9, <1>10 DEF x

\* So it is none of the ids made before.
THEOREM PassedDiffers ==
    ASSUME NEW D \in Seq(DirInfos), \A i \in 1 .. Len(D) : D[i].count < CountLimit,
           NEW x, Len(x) = Len(D) + 2, Follows(x, D, Len(D)),
           NEW y, Passed(y, D)
    PROVE  x # y
  <1>1. ASSUME NEW m \in 1 .. Len(D), TurnsOff(y, D, m)
        PROVE  x # y
    <2>1. PICK c \in Nat : c < D[m].count - 1 /\ y[m + 2] = Code(c)
      BY <1>1 DEF TurnsOff
    <2>2. D[m].count \in Nat /\ D[m].count < 2147483648
      BY DirInfoFields DEF CountLimit
    <2>3. D[m].count > 0 /\ x[m + 2] = Code(D[m].count - 1)
      BY DEF Follows
    <2>4. Code(c) # Code(D[m].count - 1)
      BY <2>1, <2>2, <2>3, ChildCodesDiffer DEF Code
    <2> QED BY <2>1, <2>3, <2>4
  <1>2. CASE Len(y) - 2 \in 1 .. Len(D) - 1
    BY <1>2
  <1> QED BY <1>1, <1>2 DEF Passed

-----------------------------------------------------------------------------
(***************************************************************************)
(* The type invariant is inductive together with how the walk counts its   *)
(* volumes, and with the stack holding no directory twice: without that,   *)
(* which of the copies setCurDir uncovers would matter.                    *)
(***************************************************************************)
ControlTyped ==
    /\ pc \in {"open", "walk", "vol", "fs", "flush", "fragment", "maps", "inodes",
               "done", "failed", "crashed"}
    /\ img \in Images /\ UCMode \in UCModes /\ MaxUnallocatedBlockSize \in Nat
    /\ vol \in Nat /\ cur \in Path /\ subdir \in Path
    /\ Part \in {"null", "wild", "set"}
    /\ VolName \in Path
    /\ IF img.vols = <<>> THEN NumVols = 0 ELSE NumVols = vol /\ vol <= Len(img.vols)

FlagTyped == InUnallocated \in BOOLEAN

RangesTyped ==
    /\ PartBeg \in 0 .. img.size /\ PartEnd \in 0 .. img.size
    /\ FSBeg \in 0 .. img.size /\ FSEnd \in 0 .. img.size

TreeTyped ==
    /\ Dirs \in Seq(DirInfos) /\ Len(Dirs) > 0
    /\ DistinctPaths(Dirs) /\ Dirs[1].path = <<>>
    /\ NumRootEntries \in [0 .. Len(img.vols) -> Nat]

ResultsTyped ==
    /\ NumFiles \in Nat
    /\ \E S : Out \in Seq(S)
    /\ \A n \in DOMAIN Out : Out[n].id \in BareId /\ Out[n].path \in Path

TypeInv == ControlTyped /\ FlagTyped /\ RangesTyped /\ TreeTyped /\ ResultsTyped

\* What writeFile does to the records, in the directory on top of dirs.
Wrote(dirs) ==
    /\ NumFiles' = NumFiles + 1
    /\ \/ Out' = Out
       \/ \E r : Out' = Append(Out, r) /\ r.id = IdOfChild(dirs) /\ r.path = back(dirs).path

LEMMA WriteFileEffect ==
    ASSUME NEW ctx, NEW dirs, NEW f, writeFile(ctx, dirs, f)
    PROVE  Wrote(dirs)
  <1> DEFINE rec == Record(ctx, back(dirs), f)
  <1>1. NumFiles' = NumFiles + 1 /\ (Out' = Append(Out, rec) \/ Out' = Out)
    BY Zenon DEF writeFile
  <1>2. rec.id = IdOfChild(dirs) /\ rec.path = back(dirs).path
    BY DEF Record, IdOfChild
  <1> HIDE DEF rec
  <1> QED BY <1>1, <1>2, Zenon DEF Wrote

LEMMA OneMoreRecord ==
    ASSUME NEW S, NEW s \in Seq(S), NEW r
    PROVE  /\ \E T : Append(s, r) \in Seq(T)
           /\ DOMAIN Append(s, r) = DOMAIN s \cup {Len(s) + 1}
           /\ \A n \in DOMAIN s : Append(s, r)[n] = s[n]
           /\ Append(s, r)[Len(s) + 1] = r
           /\ DOMAIN s = 1 .. Len(s) /\ Len(s) \in Nat
  <1> DEFINE T == S \cup {r}
  <1>1. s \in Seq(T) /\ r \in T
    OBVIOUS
  <1> HIDE DEF T
  <1>2. Append(s, r) \in Seq(T)
    BY <1>1
  <1>3. /\ DOMAIN Append(s, r) = DOMAIN s \cup {Len(s) + 1}
        /\ \A n \in DOMAIN s : Append(s, r)[n] = s[n]
        /\ Append(s, r)[Len(s) + 1] = r
        /\ DOMAIN s = 1 .. Len(s) /\ Len(s) \in Nat
    BY <1>1
  <1> QED BY <1>2, <1>3

LEMMA ImageFacts ==
    ASSUME img \in Images
    PROVE  /\ img.size \in Nat /\ img.sectorSize \in Nat
           /\ img.vols \in Seq(VolumeType) /\ Len(img.vols) \in Nat
           /\ \A k \in 1 .. Len(img.vols) : /\ img.vols[k].start \in Nat
                                            /\ img.vols[k].len \in Nat
                                            /\ PartName(img.vols[k]) \in Name
  <1>1. /\ img.size \in Nat /\ img.sectorSize \in Nat
        /\ img.vols \in Seq(VolumeType) /\ Len(img.vols) \in Nat
    BY ImagesAssumption
  <1>2. ASSUME NEW v \in VolumeType
        PROVE  v.start \in Nat /\ v.len \in Nat /\ PartName(v) \in Name
    <2>1. /\ v.flag \in {"alloc", "meta", "unused"}
          /\ v.table \in Nat /\ v.slot \in Nat /\ v.start \in Nat /\ v.len \in Nat
      BY DEF VolumeType
    <2>2. <<v.table, v.slot>> \in Seq(Nat) /\ <<v.start>> \in Seq(Nat)
      BY <2>1
    <2>3. \/ PartName(v) = <<"part", <<v.table, v.slot>>>>
          \/ PartName(v) = <<"meta-part", <<v.start>>>>
          \/ PartName(v) = <<"unused", <<v.start>>>>
      BY <2>1, Zenon DEF PartName
    <2>4. \A t \in STRING, q \in Seq(Nat) : <<t, q>> \in Name
      BY DEF Name
    <2>5. "part" \in STRING /\ "meta-part" \in STRING /\ "unused" \in STRING
      BY TextsAssumption
    <2>6. PartName(v) \in Name
      BY <2>2, <2>3, <2>4, <2>5, Zenon
    <2> QED BY <2>1, <2>6
  <1> QED BY <1>1, <1>2

\* Whether the walk has met an error is known.
ErredTyped == erred \in BOOLEAN

LEMMA TypeInvTypeOK == TypeInv /\ ErredTyped => TypeOK
  <1> SUFFICES ASSUME TypeInv, ErredTyped
               PROVE  TypeOK
    OBVIOUS
  <1>1. Dirs # <<>>
    BY DEF TypeInv, TreeTyped
  <1>2. NumVols \in 0 .. Len(img.vols)
    BY ImageFacts DEF TypeInv, ControlTyped
  <1>3. InUnallocated \in BOOLEAN
    BY DEF TypeInv, FlagTyped
  <1> QED BY <1>1, <1>2, <1>3, Zenon
          DEF TypeInv, ErredTyped, ControlTyped, RangesTyped, TreeTyped, ResultsTyped, TypeOK

LEMMA InitTyped == Init => TypeInv
  <1> SUFFICES ASSUME Init
               PROVE  TypeInv
    OBVIOUS
  <1>1. <<>> \in Path /\ <<>> \in Seq(Nat) /\ <<>> \in BareId
    BY DEF Path, BareId
  <1>2. MaxUnallocatedBlockSize \in Nat
    BY WordAssumption DEF Init, NoLimit
  <1>3. ControlTyped
    <2>1. /\ pc = "open" /\ img \in Images /\ UCMode \in UCModes
          /\ vol = 0 /\ cur = <<>> /\ subdir = <<>> /\ NumVols = 0 /\ VolName = <<>>
      BY DEF Init, NoEntry
    <2>2. Part \in {"null", "wild"}
      BY DEF Init
    <2>3. Len(img.vols) \in Nat
      BY <2>1, ImageFacts
    <2> QED BY <1>1, <1>2, <2>1, <2>2, <2>3 DEF ControlTyped
  <1>4. RangesTyped
    BY ImageFacts DEF Init, RangesTyped
  <1>5. DummyRoot \in DirInfos /\ DummyRoot.path = <<>>
    BY <1>1 DEF DummyRoot, DirInfos
  <1>6. Dirs \in Seq(DirInfos) /\ Len(Dirs) = 1 /\ Dirs[1] = DummyRoot
    BY <1>5 DEF Init
  <1>7. TreeTyped
    <2>1. NumRootEntries \in [0 .. Len(img.vols) -> Nat]
      BY DEF Init
    <2> QED BY <1>5, <1>6, <2>1 DEF TreeTyped, DistinctPaths
  <1>8. ResultsTyped
    <2>1. Out \in Seq({}) /\ DOMAIN Out = {}
      BY DEF Init
    <2> QED BY <2>1 DEF ResultsTyped, Init
  <1>9. FlagTyped
    BY DEF Init, FlagTyped
  <1> QED BY <1>3, <1>4, <1>7, <1>8, <1>9 DEF TypeInv

-----------------------------------------------------------------------------
(***************************************************************************)
(* Writing a record, and processFile.                                      *)
(***************************************************************************)
LEMMA WriteTyped ==
    ASSUME ResultsTyped, NEW E \in Seq(DirInfos), Len(E) > 0, Wrote(E)
    PROVE  ResultsTyped'
  <1>1. back(E) \in DirInfos
    BY DEF back
  <1>2. IdOfChild(E) \in BareId /\ back(E).path \in Path
    <2>1. <<>> \in Path
      BY DEF Path
    <2>2. newChild(back(E), <<>>) \in DirInfos
      BY <1>1, <2>1, NewChildTyped
    <2> QED BY <1>1, <2>2, IdTyped, DirInfoFields DEF IdOfChild
  <1>3. NumFiles' \in Nat
    BY DEF ResultsTyped, Wrote
  <1>4. CASE Out' = Out
    BY <1>3, <1>4 DEF ResultsTyped
  <1>5. ASSUME NEW r, Out' = Append(Out, r), r.id = IdOfChild(E), r.path = back(E).path
        PROVE  ResultsTyped'
    <2>1. PICK S : Out \in Seq(S)
      BY DEF ResultsTyped
    <2>2. /\ \E T : Append(Out, r) \in Seq(T)
          /\ DOMAIN Append(Out, r) = DOMAIN Out \cup {Len(Out) + 1}
          /\ \A n \in DOMAIN Out : Append(Out, r)[n] = Out[n]
          /\ Append(Out, r)[Len(Out) + 1] = r
          /\ DOMAIN Out = 1 .. Len(Out) /\ Len(Out) \in Nat
      BY <2>1, OneMoreRecord, ZenonT(60)
    <2>3. /\ \E T : Out' \in Seq(T)
          /\ DOMAIN Out' = DOMAIN Out \cup {Len(Out) + 1}
          /\ \A n \in DOMAIN Out : Out'[n] = Out[n]
          /\ Out'[Len(Out) + 1] = r
      BY <1>5, <2>2, Zenon
    <2>4. \A n \in DOMAIN Out' : Out'[n].id \in BareId /\ Out'[n].path \in Path
      BY <1>2, <1>5, <2>3 DEF ResultsTyped
    <2> QED BY <1>3, <2>3, <2>4 DEF ResultsTyped
  <1> QED BY <1>4, <1>5 DEF Wrote

\* processFile, in a stack like dirs, leaves a stack.
LEMMA ProcessFileTyped ==
    ASSUME TypeInv, img' = img, NEW D \in Seq(DirInfos), Len(D) > 0, DistinctPaths(D),
           D[1].path = <<>>, NEW ctx, NEW p \in Path, NEW f, processFile(D, ctx, p, f)
    PROVE  TreeTyped' /\ ResultsTyped'
  <1> DEFINE q == VolName \o p
             E == setCurDir(D, q)
  <1>1. q \in Path
    BY DEF TypeInv, ControlTyped, Path
  <1> HIDE DEF q
  <1>2. /\ E \in Seq(DirInfos) /\ Len(E) > 0 /\ DistinctPaths(E)
        /\ E[1].path = <<>>
    BY <1>1, SetCurDirTyped
  <1>3. Dirs' = E /\ NumRootEntries' = RootEntries(NumVols, VolName, q, E) /\ writeFile(ctx, E, f)
    BY DEF processFile, q
  <1> HIDE DEF E
  <1>4. NumRootEntries' \in [0 .. Len(img'.vols) -> Nat]
    <2>1. NumRootEntries \in [0 .. Len(img.vols) -> Nat]
      BY DEF TypeInv, TreeTyped
    <2>2. back(E).count \in Nat
      BY <1>2, DirInfoFields DEF back
    <2> QED BY <1>3, <2>1, <2>2 DEF RootEntries
  <1>5. TreeTyped'
    BY <1>2, <1>3, <1>4 DEF TreeTyped
  <1>6. Wrote(E)
    BY <1>3, WriteFileEffect
  <1>7. ResultsTyped'
    BY <1>2, <1>6, WriteTyped DEF TypeInv
  <1> QED BY <1>5, <1>7

-----------------------------------------------------------------------------
(***************************************************************************)
(* Every step keeps the types.                                             *)
(***************************************************************************)

\* Most of the actions move the walk on and write nothing.
LEMMA QuietTyped ==
    ASSUME TypeInv, UNCHANGED <<img, UCMode, MaxUnallocatedBlockSize, PartBeg, PartEnd, FSBeg,
                                FSEnd, Dirs, NumRootEntries, NumFiles, Out>>
    PROVE  RangesTyped' /\ TreeTyped' /\ ResultsTyped'
  <1>1. RangesTyped'
    BY DEF TypeInv, RangesTyped
  <1>2. TreeTyped'
    BY DEF TypeInv, TreeTyped
  <1>3. ResultsTyped'
    BY DEF TypeInv, ResultsTyped
  <1> QED BY <1>1, <1>2, <1>3

\* A byte range is clipped to the image.
LEMMA MinMax ==
    ASSUME NEW a \in Nat, NEW b \in Nat
    PROVE  AtMost(a, b) \in 0 .. b
  BY DEF AtMost

LEMMA StartTyped ==
    ASSUME TypeInv, Start, UNCHANGED <<img, UCMode, MaxUnallocatedBlockSize, cur, subdir, Part,
                                       VolName, FSBeg, FSEnd>>
    PROVE  ControlTyped' /\ RangesTyped'
  <1>1. ControlTyped'
    BY ImageFacts DEF TypeInv, ControlTyped, Start
  <1>2. RangesTyped'
    BY ImageFacts DEF TypeInv, ControlTyped, RangesTyped, Start
  <1> QED BY <1>1, <1>2

LEMMA OpenImageTyped == TypeInv /\ OpenImage => TypeInv'
  <1> SUFFICES ASSUME TypeInv, OpenImage
               PROVE  TypeInv'
    OBVIOUS
  <1>1. RangesTyped' /\ TreeTyped' /\ ResultsTyped' /\ ControlTyped'
    <2>1. CASE Start /\ UNCHANGED <<cur, subdir, Part, VolName>>
      BY <2>1, StartTyped DEF OpenImage, args, fileSys, tree, results, TypeInv, TreeTyped,
                              ResultsTyped
    <2>2. CASE pc' = "failed" /\ UNCHANGED <<walk, volume>>
      <3>1. ControlTyped'
        BY <2>2 DEF OpenImage, args, walk, volume, TypeInv, ControlTyped
      <3> QED BY <2>2, <3>1, QuietTyped DEF OpenImage, args, volume, fileSys, tree, results
    <2> QED BY <2>1, <2>2 DEF OpenImage
  <1>2. FlagTyped'
    BY DEF OpenImage, TypeInv, FlagTyped
  <1> QED BY <1>1, <1>2 DEF TypeInv

\* filterVol's stack: the root, and on top of it the volume.
LEMMA VolumeStack ==
    ASSUME TypeInv, NEW D \in Seq(DirInfos), Len(D) = 1, DistinctPaths(D), D[1].path = <<>>,
           NEW v \in Name
    PROVE  /\ Append(D, newChild(back(D), <<v>>)) \in Seq(DirInfos)
           /\ Pushed(D, Append(D, newChild(back(D), <<v>>)), <<v>>)
           /\ DistinctPaths(Append(D, newChild(back(D), <<v>>)))
           /\ Append(D, newChild(back(D), <<v>>))[1].path = <<>>
  <1>1. PICK p \in Path : p = <<v>>
    <2>1. <<v>> \in Path
      BY DEF Path
    <2> QED BY <2>1, Zenon
  <1>2. p # <<>> /\ Len(D) > 0
    BY <1>1
  <1>3. PICK E \in Seq(DirInfos) : E = Append(D, newChild(back(D), p)) /\ Pushed(D, E, p)
    BY <1>2, PushShape, Zenon
  <1>4. \A i \in 1 .. Len(D) : D[i].path # p
    BY <1>2
  <1>5. DistinctPaths(E)
    BY <1>3, <1>4, PushDistinct
  <1>6. E[1] = D[1]
    BY <1>3 DEF Pushed
  <1> QED BY <1>1, <1>3, <1>5, <1>6, Zenon

\* Dirs.resize(1).
LEMMA RootStack ==
    ASSUME TypeInv
    PROVE  /\ SubSeq(Dirs, 1, 1) \in Seq(DirInfos) /\ Len(SubSeq(Dirs, 1, 1)) = 1
           /\ SubSeq(Dirs, 1, 1)[1] = Dirs[1] /\ Dirs[1].path = <<>>
           /\ DistinctPaths(SubSeq(Dirs, 1, 1))
  <1>1. PICK R \in Seq(DirInfos) : R = SubSeq(Dirs, 1, 1) /\ Len(R) = 1 /\ R[1] = Dirs[1]
    BY DEF TypeInv, TreeTyped
  <1>2. DistinctPaths(R)
    BY <1>1 DEF DistinctPaths
  <1>3. Dirs[1].path = <<>>
    BY DEF TypeInv, TreeTyped
  <1> QED BY <1>1, <1>2, <1>3

\* setCurDir("") with only the root on the stack counts an entry of the root.
LEMMA RootCounted ==
    ASSUME NEW R \in Seq(DirInfos), Len(R) = 1, R[1].path = <<>>, DistinctPaths(R)
    PROVE  /\ setCurDir(R, <<>>) \in Seq(DirInfos) /\ Uncovered(R, setCurDir(R, <<>>), 1)
           /\ DistinctPaths(setCurDir(R, <<>>))
           /\ Len(setCurDir(R, <<>>)) = 1 /\ setCurDir(R, <<>>)[1].path = <<>>
  <1>1. PICK p \in Path : p = <<>>
    <2>1. <<>> \in Path
      BY DEF Path
    <2> QED BY <2>1, Zenon
  <1>2. Len(R) > 0
    OBVIOUS
  <1> DEFINE E == setCurDir(R, p)
  <1>3. E \in Seq(DirInfos) /\ Uncovered(R, E, 1)
    <2>1. ~ \A i \in 1 .. Len(R) : R[i].path # p
      BY <1>1
    <2>2. E \in Seq(DirInfos) /\ \E i \in 1 .. Len(R) : Uncovered(R, E, i)
      BY <1>2, <2>1, SetCurDirCases, Zenon
    <2> HIDE DEF E
    <2> QED BY <2>2
  <1> HIDE DEF E
  <1>4. DistinctPaths(E)
    BY <1>3, UncoverChain
  <1>5. Len(E) = 1 /\ E[1].path = <<>>
    BY <1>3 DEF Uncovered
  <1> QED BY <1>1, <1>3, <1>4, <1>5 DEF E

LEMMA FilterVolTyped == TypeInv /\ FilterVol => TypeInv'
  <1> SUFFICES ASSUME TypeInv, FilterVol
               PROVE  TypeInv'
    OBVIOUS
  <1> DEFINE v    == img.vols[vol + 1]
             root == SubSeq(Dirs, 1, 1)
             ds   == IF InUnallocated THEN root ELSE setCurDir(root, <<>>)
             E    == Append(ds, newChild(back(ds), <<PartName(v)>>))
  <1>1. /\ img \in Images /\ img' = img /\ UCMode' = UCMode
        /\ MaxUnallocatedBlockSize' = MaxUnallocatedBlockSize
        /\ vol < Len(img.vols) /\ vol' = vol + 1 /\ NumVols' = NumVols + 1
        /\ Part' = "set" /\ pc' = "vol" /\ UNCHANGED <<cur, subdir, InUnallocated, NumRootEntries>>
        /\ VolName' = <<PartName(v)>> /\ Dirs' = E
        /\ PartBeg' = AtMost((v.start * img.sectorSize) % U64, img.size)
        /\ PartEnd' = AtMost((v.start * v.len * img.sectorSize) % U64, img.size)
    BY Zenon DEF FilterVol, args, TypeInv, ControlTyped
  <1>2. /\ v.start \in Nat /\ v.len \in Nat /\ PartName(v) \in Name
        /\ img.size \in Nat /\ img.sectorSize \in Nat
    <2>1. vol + 1 \in 1 .. Len(img.vols)
      BY <1>1, ImageFacts DEF TypeInv, ControlTyped
    <2> QED BY <1>1, <2>1, ImageFacts
  <1>3. root \in Seq(DirInfos) /\ Len(root) = 1 /\ root[1].path = <<>> /\ DistinctPaths(root)
    BY RootStack
  <1>4. ds \in Seq(DirInfos) /\ Len(ds) = 1 /\ ds[1].path = <<>> /\ DistinctPaths(ds)
    <2> HIDE DEF root
    <2> QED BY <1>3, RootCounted, Zenon
  <1>5. \/ InUnallocated /\ UNCHANGED <<FSBeg, FSEnd, NumFiles, Out>>
        \/ ~InUnallocated /\ FSBeg' = 0 /\ FSEnd' = img.size /\ Wrote(ds)
    <2>1. CASE InUnallocated
      BY <2>1 DEF FilterVol, fileSys, results
    <2>2. CASE ~InUnallocated
      <3>1. \E ctx, f : writeFile(ctx, ds, f)
        BY <2>2, Zenon DEF FilterVol
      <3>2. Wrote(ds)
        BY <3>1, WriteFileEffect
      <3>3. FSBeg' = 0 /\ FSEnd' = img.size
        BY <2>2, Zenon DEF FilterVol
      <3> QED BY <2>2, <3>2, <3>3
    <2> QED BY <2>1, <2>2
  <1> HIDE DEF v, root, ds
  <1>6. TreeTyped'
    <2>1. E \in Seq(DirInfos) /\ Pushed(ds, E, <<PartName(v)>>) /\ DistinctPaths(E) /\ E[1].path = <<>>
      BY <1>2, <1>4, VolumeStack
    <2> HIDE DEF E
    <2>2. Len(E) > 0
      BY <1>4, <2>1 DEF Pushed
    <2> QED BY <1>1, <2>1, <2>2 DEF TreeTyped, TypeInv
  <1>7. ControlTyped'
    <2>1. <<PartName(v)>> \in Path
      BY <1>2 DEF Path
    <2>2. img.vols # <<>>
      BY <1>1 DEF TypeInv, ControlTyped
    <2>3. NumVols = vol /\ vol \in Nat /\ vol + 1 <= Len(img.vols)
      BY <1>1, <2>2, ImageFacts DEF TypeInv, ControlTyped
    <2> QED BY <1>1, <2>1, <2>2, <2>3 DEF TypeInv, ControlTyped
  <1>8. RangesTyped'
    <2>1. /\ (v.start * img.sectorSize) % U64 \in Nat
          /\ (v.start * v.len * img.sectorSize) % U64 \in Nat
      <3>1. v.start * img.sectorSize \in Nat /\ v.start * v.len * img.sectorSize \in Nat
        BY <1>2
      <3>2. \A n \in Nat : n % U64 \in Nat
        BY WordAssumption
      <3> QED BY <3>1, <3>2
    <2>2. PartBeg' \in 0 .. img.size /\ PartEnd' \in 0 .. img.size
      BY <1>1, <1>2, <2>1, MinMax
    <2>3. FSBeg' \in 0 .. img.size /\ FSEnd' \in 0 .. img.size
      BY <1>2, <1>5 DEF TypeInv, RangesTyped
    <2> QED BY <1>1, <2>2, <2>3 DEF RangesTyped
  <1>9. ResultsTyped'
    <2>1. CASE UNCHANGED <<NumFiles, Out>>
      BY <2>1 DEF TypeInv, ResultsTyped
    <2>2. CASE Wrote(ds)
      BY <1>4, <2>2, WriteTyped, SMTT(30) DEF TypeInv
    <2> QED BY <1>5, <2>1, <2>2
  <1>10. FlagTyped'
    BY <1>1 DEF TypeInv, FlagTyped
  <1> QED BY <1>6, <1>7, <1>8, <1>9, <1>10 DEF TypeInv

-----------------------------------------------------------------------------
\* The steps that only move the control on: no record, no count, no range changes.
QuietStep ==
    /\ UNCHANGED <<img, UCMode, MaxUnallocatedBlockSize, PartBeg, PartEnd, FSBeg, FSEnd,
                   Dirs, NumRootEntries, NumFiles, Out, cur, subdir, Part, NumVols, VolName,
                   InUnallocated>>
    /\ pc' \in {pc, "walk", "flush", "fragment", "maps", "inodes", "done", "failed", "crashed"}
    /\ vol' = vol \/ (img.vols = <<>> /\ vol' = 1)

LEMMA QuietStepTyped == TypeInv /\ QuietStep => TypeInv'
  <1> SUFFICES ASSUME TypeInv, QuietStep
               PROVE  TypeInv'
    OBVIOUS
  <1>1. RangesTyped' /\ TreeTyped' /\ ResultsTyped'
    BY QuietTyped DEF QuietStep
  <1>2. ControlTyped'
    BY DEF TypeInv, ControlTyped, QuietStep
  <1>3. FlagTyped'
    BY DEF TypeInv, FlagTyped, QuietStep
  <1> QED BY <1>1, <1>2, <1>3 DEF TypeInv

LEMMA NextExtentQuiet == NextExtent => pc' \in {"walk", "flush"}
  BY DEF NextExtent

LEMMA QuietActions ==
    /\ NoFilesystem => QuietStep
    /\ WildPart => QuietStep
    /\ EndFs => QuietStep
    /\ WalkError => QuietStep
    /\ NextFragment => QuietStep
    /\ FragmentDone => QuietStep
    /\ WalkFailed => QuietStep
    /\ FinishWalk => QuietStep
    /\ OutputDiskMap => QuietStep
    /\ OutputInodeMap => QuietStep
    /\ UNCHANGED vars => QuietStep
  <1> USE DEF QuietStep, args, walk, volume, fileSys, tree, results, flush, mapFiles
  <1>1. NoFilesystem => QuietStep
    BY DEF NoFilesystem
  <1>2. WildPart => QuietStep
    BY DEF WildPart
  <1>3. EndFs => QuietStep
    BY DEF EndFs
  <1>4. NextFragment => QuietStep
    BY NextExtentQuiet DEF NextFragment
  <1>5. FragmentDone => QuietStep
    BY NextExtentQuiet DEF FragmentDone
  <1>6. WalkFailed => QuietStep
    BY DEF WalkFailed
  <1>7. FinishWalk => QuietStep
    BY DEF FinishWalk
  <1>8. OutputDiskMap => QuietStep
    BY DEF OutputDiskMap
  <1>9. OutputInodeMap => QuietStep
    BY DEF OutputInodeMap
  <1>10. UNCHANGED vars => QuietStep
    BY DEF vars
  <1>11. WalkError => QuietStep
    BY DEF WalkError
  <1> QED BY <1>1, <1>2, <1>3, <1>4, <1>5, <1>6, <1>7, <1>8, <1>9, <1>10, <1>11

LEMMA StartUnallocatedTyped == TypeInv /\ StartUnallocated => TypeInv'
  <1> SUFFICES ASSUME TypeInv, StartUnallocated
               PROVE  TypeInv'
    OBVIOUS
  <1> USE DEF StartUnallocated, args, fileSys, tree, results
  <1>1. ControlTyped' /\ RangesTyped'
    BY StartTyped
  <1>2. TreeTyped'
    BY DEF TypeInv, TreeTyped
  <1>3. ResultsTyped'
    BY DEF TypeInv, ResultsTyped
  <1>4. FlagTyped'
    BY DEF FlagTyped
  <1> QED BY <1>1, <1>2, <1>3, <1>4 DEF TypeInv

\* setFsInfo gives the file system the range of its partition.
LEMMA SetFsInfoTyped ==
    ASSUME TypeInv, setFsInfo, UNCHANGED <<args, volume>>
    PROVE  /\ RangesTyped' /\ (vol' = vol \/ (img.vols = <<>> /\ vol' = 1))
           /\ img' = img /\ UCMode' = UCMode
           /\ MaxUnallocatedBlockSize' = MaxUnallocatedBlockSize
           /\ Part' = Part /\ NumVols' = NumVols /\ VolName' = VolName
  <1>1. /\ FSBeg' = PartBeg /\ FSEnd' = PartEnd /\ PartBeg' = PartBeg /\ PartEnd' = PartEnd
        /\ img' = img
    BY DEF setFsInfo, volume, args
  <1>2. RangesTyped'
    BY <1>1 DEF TypeInv, RangesTyped
  <1>3. vol' = vol \/ (img.vols = <<>> /\ vol' = 1)
    BY DEF setFsInfo
  <1> QED BY <1>1, <1>2, <1>3 DEF volume, args

LEMMA FilterFsTyped == TypeInv /\ FilterFs => TypeInv'
  <1> SUFFICES ASSUME TypeInv, FilterFs
               PROVE  TypeInv'
    OBVIOUS
  <1>1. /\ RangesTyped' /\ (vol' = vol \/ (img.vols = <<>> /\ vol' = 1))
        /\ img' = img /\ UCMode' = UCMode
        /\ MaxUnallocatedBlockSize' = MaxUnallocatedBlockSize
        /\ Part' = Part /\ NumVols' = NumVols /\ VolName' = VolName
    BY SetFsInfoTyped DEF FilterFs
  <1>2. TreeTyped'
    BY <1>1 DEF FilterFs, tree, TypeInv, TreeTyped
  <1>3. ResultsTyped'
    BY DEF FilterFs, TypeInv, ResultsTyped
  <1>4. ControlTyped'
    <2>1. cur' \in Path /\ subdir' \in Path /\ pc' = "fs"
      BY DEF FilterFs, NoEntry, Path
    <2> QED BY <1>1, <2>1 DEF TypeInv, ControlTyped
  <1>5. FlagTyped'
    BY DEF FilterFs, TypeInv, FlagTyped
  <1> QED BY <1>1, <1>2, <1>3, <1>4, <1>5 DEF TypeInv

\* The second walk goes on counting in the root directory where the first one stopped.
LEMMA RecountTyped ==
    ASSUME TypeInv, NEW n \in Nat
    PROVE  /\ [Dirs EXCEPT ![Len(Dirs)].count = @ + n] \in Seq(DirInfos)
           /\ Len([Dirs EXCEPT ![Len(Dirs)].count = @ + n]) > 0
           /\ DistinctPaths([Dirs EXCEPT ![Len(Dirs)].count = @ + n])
           /\ [Dirs EXCEPT ![Len(Dirs)].count = @ + n][1].path = <<>>
  <1>1. /\ Dirs \in Seq(DirInfos) /\ Len(Dirs) \in 1 .. Len(Dirs) /\ Dirs[Len(Dirs)] \in DirInfos
        /\ DistinctPaths(Dirs) /\ Dirs[1].path = <<>>
    BY DEF TypeInv, TreeTyped
  <1> DEFINE d == [Dirs[Len(Dirs)] EXCEPT !.count = @ + n]
             E == [Dirs EXCEPT ![Len(Dirs)] = d]
  <1>2. d \in DirInfos /\ d.path = Dirs[Len(Dirs)].path
    BY <1>1 DEF DirInfos
  <1>3. E = [Dirs EXCEPT ![Len(Dirs)].count = @ + n]
    OBVIOUS
  <1> HIDE DEF d
  <1>4. E \in Seq(DirInfos) /\ Len(E) = Len(Dirs)
    BY <1>1, <1>2
  <1>5. \A i \in 1 .. Len(Dirs) : E[i].path = Dirs[i].path
    BY <1>1, <1>2
  <1> HIDE DEF E
  <1>6. DistinctPaths(E) /\ E[1].path = <<>> /\ Len(E) > 0
    BY <1>1, <1>4, <1>5 DEF DistinctPaths
  <1> QED BY <1>3, <1>4, <1>6

LEMMA FilterFsUnallocatedTyped == TypeInv /\ FilterFsUnallocated => TypeInv'
  <1> SUFFICES ASSUME TypeInv, FilterFsUnallocated
               PROVE  TypeInv'
    OBVIOUS
  <1>1. /\ RangesTyped' /\ (vol' = vol \/ (img.vols = <<>> /\ vol' = 1))
        /\ img' = img /\ UCMode' = UCMode
        /\ MaxUnallocatedBlockSize' = MaxUnallocatedBlockSize
        /\ Part' = Part /\ NumVols' = NumVols /\ VolName' = VolName
    BY SetFsInfoTyped DEF FilterFsUnallocated
  <1>2. /\ pc' = "flush" /\ UNCHANGED <<cur, subdir, InUnallocated>>
    BY DEF FilterFsUnallocated
  <1>3. NumRootEntries[NumVols] \in Nat
    <2>1. NumVols \in 0 .. Len(img.vols)
      BY ImageFacts DEF TypeInv, ControlTyped
    <2> QED BY <2>1 DEF TypeInv, TreeTyped
  <1> DEFINE D == [Dirs EXCEPT ![Len(Dirs)].count = @ + NumRootEntries[NumVols]]
  <1>4. D \in Seq(DirInfos) /\ Len(D) > 0 /\ DistinctPaths(D) /\ D[1].path = <<>>
    BY <1>3, RecountTyped
  <1>5. \E ctx : processFile(D, ctx, <<>>, UnallocatedFolder)
    BY Zenon DEF FilterFsUnallocated
  <1> HIDE DEF D
  <1>6. <<>> \in Path
    BY DEF Path
  <1>7. TreeTyped' /\ ResultsTyped'
    BY <1>1, <1>4, <1>5, <1>6, ProcessFileTyped
  <1>8. ControlTyped'
    BY <1>1, <1>2 DEF TypeInv, ControlTyped
  <1>9. FlagTyped'
    BY <1>2 DEF TypeInv, FlagTyped
  <1> QED BY <1>1, <1>7, <1>8, <1>9 DEF TypeInv

LEMMA NextPathsTyped == TypeInv => NextPaths \subseteq Path
  <1> SUFFICES ASSUME TypeInv, NEW p \in NextPaths
               PROVE  p \in Path
    OBVIOUS
  <1>1. cur \in Path /\ subdir \in Path
    BY DEF TypeInv, ControlTyped
  <1>2. CASE p = subdir
    BY <1>1, <1>2
  <1>3. ASSUME NEW n \in 0 .. Len(cur), p = SubSeq(cur, 1, n)
        PROVE  p \in Path
    BY <1>1, <1>3 DEF Path
  <1> QED BY <1>2, <1>3 DEF NextPaths

LEMMA ProcessFileActionTyped == TypeInv /\ ProcessFile => TypeInv'
  <1> SUFFICES ASSUME TypeInv, ProcessFile
               PROVE  TypeInv'
    OBVIOUS
  <1>1. PICK f \in Entries, path \in NextPaths :
            /\ processFile(Dirs, Context(Fs, <<FSBeg, FSEnd>>, AllocatedRuns), path, f)
            /\ cur' = path
            /\ subdir' = IF f.type = "dir" THEN Append(path, f.name) ELSE NoEntry
    BY Zenon DEF ProcessFile
  <1>2. /\ img' = img /\ UCMode' = UCMode /\ MaxUnallocatedBlockSize' = MaxUnallocatedBlockSize
        /\ pc' = pc /\ vol' = vol /\ Part' = Part /\ NumVols' = NumVols /\ VolName' = VolName
        /\ InUnallocated' = InUnallocated
        /\ UNCHANGED <<PartBeg, PartEnd, FSBeg, FSEnd>>
    BY DEF ProcessFile, args, volume, fileSys
  <1>3. path \in Path
    BY NextPathsTyped
  <1>4. subdir' \in Path
    <2>1. f.name \in Name
      BY EntriesAssumption
    <2>2. Append(path, f.name) \in Path /\ NoEntry \in Path
      BY <1>3, <2>1 DEF Path, NoEntry
    <2> QED BY <1>1, <2>2
  <1>5. TreeTyped' /\ ResultsTyped'
    <2>1. Dirs \in Seq(DirInfos) /\ Len(Dirs) > 0 /\ DistinctPaths(Dirs) /\ Dirs[1].path = <<>>
      BY DEF TypeInv, TreeTyped
    <2> QED BY <1>1, <1>2, <1>3, <2>1, ProcessFileTyped
  <1>6. ControlTyped'
    BY <1>1, <1>2, <1>3, <1>4 DEF TypeInv, ControlTyped
  <1>7. FlagTyped' /\ RangesTyped'
    BY <1>2 DEF TypeInv, FlagTyped, RangesTyped
  <1> QED BY <1>5, <1>6, <1>7 DEF TypeInv

LEMMA EmitTyped ==
    ASSUME TypeInv, img' = img, NEW run, emitUnallocated(run)
    PROVE  TreeTyped' /\ ResultsTyped'
  <1>1. <<Unallocated>> \in Path
    <2>1. "$Unallocated" \in STRING /\ <<>> \in Seq(Nat)
      BY TextsAssumption
    <2>2. Unallocated \in Name
      BY <2>1, Zenon DEF Unallocated, PlainName, Name
    <2> QED BY <2>2 DEF Path
  <1>2. Dirs \in Seq(DirInfos) /\ Len(Dirs) > 0 /\ DistinctPaths(Dirs) /\ Dirs[1].path = <<>>
    BY DEF TypeInv, TreeTyped
  <1>3. \E ctx, f : processFile(Dirs, ctx, <<Unallocated>>, f)
    BY Zenon DEF emitUnallocated
  <1> QED BY <1>1, <1>2, <1>3, ProcessFileTyped

LEMMA FragmentTyped == TypeInv /\ (FragmentBlock \/ FragmentPiece) => TypeInv'
  <1> SUFFICES ASSUME TypeInv, FragmentBlock \/ FragmentPiece
               PROVE  TypeInv'
    OBVIOUS
  <1>1. \E run : emitUnallocated(run)
    BY Zenon DEF FragmentBlock, FragmentPiece
  <1>2. /\ img' = img /\ UCMode' = UCMode /\ MaxUnallocatedBlockSize' = MaxUnallocatedBlockSize
        /\ pc' = pc /\ UNCHANGED <<vol, cur, subdir, Part, NumVols, VolName, InUnallocated>>
        /\ UNCHANGED <<PartBeg, PartEnd, FSBeg, FSEnd>>
    BY DEF FragmentBlock, FragmentPiece, args, walk, volume, fileSys
  <1>3. TreeTyped' /\ ResultsTyped'
    BY <1>1, <1>2, EmitTyped
  <1>4. ControlTyped'
    BY <1>2 DEF TypeInv, ControlTyped
  <1>5. FlagTyped' /\ RangesTyped'
    BY <1>2 DEF TypeInv, FlagTyped, RangesTyped
  <1> QED BY <1>3, <1>4, <1>5 DEF TypeInv

LEMMA NextTyped == TypeInv /\ [Next]_vars => TypeInv'
  <1> SUFFICES ASSUME TypeInv, [Next]_vars
               PROVE  TypeInv'
    OBVIOUS
  <1>1. CASE NoFilesystem \/ WildPart \/ EndFs \/ WalkError \/ NextFragment \/ FragmentDone
             \/ WalkFailed \/ FinishWalk \/ OutputDiskMap \/ OutputInodeMap \/ UNCHANGED vars
    BY <1>1, QuietActions, QuietStepTyped
  <1>2. CASE OpenImage
    BY <1>2, OpenImageTyped
  <1>3. CASE FilterVol
    BY <1>3, FilterVolTyped
  <1>4. CASE FilterFs
    BY <1>4, FilterFsTyped
  <1>5. CASE FilterFsUnallocated
    BY <1>5, FilterFsUnallocatedTyped
  <1>6. CASE ProcessFile
    BY <1>6, ProcessFileActionTyped
  <1>7. CASE FragmentBlock \/ FragmentPiece
    BY <1>7, FragmentTyped
  <1>8. CASE StartUnallocated
    BY <1>8, StartUnallocatedTyped
  <1>9. CASE Terminated
    BY <1>1, <1>9, QuietActions, QuietStepTyped DEF Terminated
  <1> QED BY <1>1, <1>2, <1>3, <1>4, <1>5, <1>6, <1>7, <1>8, <1>9 DEF Next

LEMMA AlwaysTyped == Spec => []TypeInv
  <1>1. Init => TypeInv
    BY InitTyped
  <1>2. TypeInv /\ [Next]_vars => TypeInv'
    BY NextTyped
  <1> QED BY <1>1, <1>2, PTL DEF Spec

\* Errors are forgotten where a walk starts and noted where it meets one, nowhere else.
LEMMA ErredSteps == [Next]_vars => Start \/ WalkError \/ erred' = erred
  <1>1. CASE UNCHANGED vars
    BY <1>1 DEF vars, walk
  <1>2. ASSUME Next
        PROVE  Start \/ WalkError \/ erred' = erred
    BY <1>2 DEF Next, OpenImage, FilterVol, NoFilesystem, FilterFs, WildPart, FilterFsUnallocated,
                ProcessFile, EndFs, NextFragment, FragmentBlock, FragmentPiece, FragmentDone,
                WalkFailed, StartUnallocated, FinishWalk, OutputDiskMap, OutputInodeMap,
                Terminated, vars, walk
  <1> QED BY <1>1, <1>2

LEMMA AlwaysErred == Spec => []ErredTyped
  <1>1. Init => ErredTyped
    BY DEF Init, ErredTyped
  <1>2. ErredTyped /\ [Next]_vars => ErredTyped'
    BY ErredSteps DEF ErredTyped, Start, WalkError
  <1> QED BY <1>1, <1>2, PTL DEF Spec

\* The type invariant holds for all images, entries and arguments: in particular the byte
\* ranges stay inside the image, there is always a directory to count in, and the volume
\* index stays inside NumRootEntries.
THEOREM TypeCorrect == Spec => []TypeOK
  <1>1. TypeInv /\ ErredTyped => TypeOK
    BY TypeInvTypeOK
  <1> QED BY <1>1, AlwaysTyped, AlwaysErred, PTL
=============================================================================
