--------------------------- MODULE JsonText_proofs ---------------------------
(***************************************************************************)
(* How the texts of JsonText read: what each token does to the state of    *)
(* the grammar, and from that objects, sequences and members of any        *)
(* length; and how often a token is in them.                               *)
(***************************************************************************)
EXTENDS JsonText, Varint_proofs, SequenceTheorems, FiniteSetTheorems

\* A function on the first numbers is a sequence.
LEMMA FunctionIsSeq ==
    ASSUME NEW S, NEW N \in Nat, NEW s, s = [n \in 1 .. N |-> s[n]], \A n \in 1 .. N : s[n] \in S
    PROVE  s \in Seq(S) /\ Len(s) = N
<1>1. s \in [1 .. N -> S]
  BY Zenon
<1> QED  BY <1>1

\* f is the recursive function of FlattenSeq, for the first n of the sequences s.
Flattens(f, s, n) == f = [i \in 1 .. n |-> IF i = 1 THEN s[i] ELSE f[i - 1] \o s[i]]

LEMMA FlattenExtends ==
    ASSUME NEW s, NEW n \in Nat, NEW f, Flattens(f, s, n)
    PROVE  \E g : Flattens(g, s, n + 1)
<1> DEFINE g == [i \in 1 .. n + 1 |->
                    IF i = n + 1 THEN (IF i = 1 THEN s[i] ELSE f[i - 1] \o s[i]) ELSE f[i]]
           F(i) == IF i = 1 THEN s[i] ELSE g[i - 1] \o s[i]
<1>1. ASSUME NEW i \in 1 .. n + 1  PROVE g[i] = F(i)
  <2>1. CASE i = n + 1
    <3>1. i # 1 => i - 1 \in 1 .. n + 1 /\ i - 1 # n + 1
      BY <2>1
    <3>2. i # 1 => g[i - 1] = f[i - 1]
      BY <3>1
    <3> QED  BY <2>1, <3>2
  <2>2. CASE i # n + 1
    <3>1. i \in 1 .. n /\ (i # 1 => i - 1 \in 1 .. n + 1 /\ i - 1 # n + 1)
      BY <2>2
    <3>2. i # 1 => g[i - 1] = f[i - 1]
      BY <3>1
    <3>3. f[i] = IF i = 1 THEN s[i] ELSE f[i - 1] \o s[i]
      BY <3>1 DEF Flattens
    <3>4. g[i] = f[i]
      BY <2>2
    <3> QED  BY <3>2, <3>3, <3>4
  <2> QED  BY <2>1, <2>2
<1>2. g = [i \in 1 .. n + 1 |-> g[i]]
  OBVIOUS
<1>3. g = [i \in 1 .. n + 1 |-> F(i)]
  BY <1>1, <1>2
<1>4. Flattens(g, s, n + 1)
  BY <1>3 DEF Flattens
<1> QED  BY <1>4

LEMMA FlattenExists ==
    ASSUME NEW s, NEW N \in Nat
    PROVE  \E f : Flattens(f, s, N)
<1> DEFINE S == {n \in Nat : \E f : Flattens(f, s, n)}
<1>1. 0 \in S
  <2>1. Flattens([i \in 1 .. 0 |-> 0], s, 0)
    BY DEF Flattens
  <2> QED  BY <2>1
<1>2. ASSUME NEW n \in Nat, n \in S  PROVE n + 1 \in S
  <2>1. PICK f : Flattens(f, s, n)
    BY <1>2
  <2>2. \E g : Flattens(g, s, n + 1)
    BY <2>1, FlattenExtends
  <2> QED  BY <2>2
<1> HIDE DEF S
<1>3. Nat \subseteq S
  BY <1>1, <1>2, SetInduction
<1> QED  BY <1>3 DEF S

-----------------------------------------------------------------------------
(***************************************************************************)
(* Reading a text, one token after the other.                              *)
(***************************************************************************)
IsText(text) == \E S : text \in Seq(S)

LEMMA TextIs ==
    ASSUME NEW text, IsText(text)
    PROVE  /\ Len(text) \in Nat
           /\ DOMAIN text = 1 .. Len(text)
  <1>1. PICK S : text \in Seq(S)
    BY DEF IsText
  <1> QED BY <1>1

LEMMA TextOne ==
    ASSUME NEW x
    PROVE  IsText(<<x>>) /\ IsText(<<>>)
  <1>1. <<x>> \in Seq({x}) /\ <<>> \in Seq({x})
    OBVIOUS
  <1> QED BY <1>1, Zenon DEF IsText

LEMMA TextJoin ==
    ASSUME NEW a, IsText(a), NEW b, IsText(b)
    PROVE  /\ IsText(a \o b) /\ Len(a) \in Nat /\ Len(b) \in Nat
           /\ Len(a \o b) = Len(a) + Len(b)
           /\ \A n \in 1 .. Len(a) : (a \o b)[n] = a[n]
           /\ \A n \in Len(a) + 1 .. Len(a) + Len(b) : (a \o b)[n] = b[n - Len(a)]
  <1>1. PICK S : a \in Seq(S)
    BY DEF IsText
  <1>2. PICK T : b \in Seq(T)
    BY DEF IsText
  <1>3. PICK U : U = S \cup T
    OBVIOUS
  <1>4. a \in Seq(U) /\ b \in Seq(U)
    BY <1>1, <1>2, <1>3
  <1>5. /\ a \o b \in Seq(U) /\ Len(a) \in Nat /\ Len(b) \in Nat
        /\ Len(a \o b) = Len(a) + Len(b)
        /\ \A n \in 1 .. Len(a) : (a \o b)[n] = a[n]
        /\ \A n \in Len(a) + 1 .. Len(a) + Len(b) : (a \o b)[n] = b[n - Len(a)]
    BY <1>4
  <1> QED BY <1>5, Zenon DEF IsText

\* read is the state after each token of text.
Runs(read, s, text) ==
    read = [n \in 0 .. Len(text) |-> IF n = 0 THEN s ELSE AfterToken(read[n - 1], text[n])]

\* The tokens of text take state s to t.
Reads(s, text, t) == \E read : Runs(read, s, text) /\ read[Len(text)] = t

LEMMA RunsTurns ==
    ASSUME NEW s, NEW text, IsText(text), NEW read, Runs(read, s, text)
    PROVE  /\ read[0] = s
           /\ \A n \in 1 .. Len(text) : read[n] = AfterToken(read[n - 1], text[n])
  <1> DEFINE F(n) == IF n = 0 THEN s ELSE AfterToken(read[n - 1], text[n])
  <1>0. Len(text) \in Nat
    BY TextIs
  <1>1. read = [n \in 0 .. Len(text) |-> F(n)]
    BY Zenon DEF Runs
  <1> HIDE DEF F
  <1>2. \A n \in 0 .. Len(text) : read[n] = F(n)
    BY <1>1
  <1>3. read[0] = F(0)
    BY <1>0, <1>2
  <1>4. ASSUME NEW n \in 1 .. Len(text)
        PROVE  read[n] = AfterToken(read[n - 1], text[n])
    <2>1. n \in 0 .. Len(text) /\ n # 0
      OBVIOUS
    <2> QED BY <1>2, <2>1, Zenon DEF F
  <1> QED BY <1>3, <1>4, Zenon DEF F

\* There is one way to read a text.
LEMMA RunsUnique ==
    ASSUME NEW s, NEW text, IsText(text), NEW f, Runs(f, s, text), NEW g, Runs(g, s, text)
    PROVE  f[Len(text)] = g[Len(text)]
  <1> DEFINE S == {n \in Nat : n <= Len(text) => f[n] = g[n]}
  <1>1. /\ f[0] = s /\ g[0] = s
        /\ \A n \in 1 .. Len(text) : f[n] = AfterToken(f[n - 1], text[n])
        /\ \A n \in 1 .. Len(text) : g[n] = AfterToken(g[n - 1], text[n])
        /\ Len(text) \in Nat
    BY RunsTurns, TextIs
  <1>2. 0 \in S
    BY <1>1
  <1>3. ASSUME NEW n \in Nat, n \in S
        PROVE  n + 1 \in S
    <2>1. CASE n + 1 <= Len(text)
      <3>1. n + 1 \in 1 .. Len(text) /\ (n + 1) - 1 = n /\ n <= Len(text)
        BY <2>1
      <3>2. f[n] = g[n]
        BY <1>3, <3>1
      <3>3. f[n + 1] = AfterToken(f[n], text[n + 1]) /\ g[n + 1] = AfterToken(g[n], text[n + 1])
        BY <1>1, <3>1
      <3>4. f[n + 1] = g[n + 1]
        BY <3>2, <3>3, Zenon
      <3> QED BY <3>4
    <2> QED BY <2>1
  <1> HIDE DEF S
  <1>4. Nat \subseteq S
    BY <1>2, <1>3, SetInduction
  <1> QED BY <1>4 DEF S

\* g is the recursive function of ReadPart.
RunsPart(g, s, text, a, b) ==
    g = [n \in a .. b |-> IF n = a THEN s ELSE AfterToken(g[n - 1], text[n])]

LEMMA RunsPartUnique ==
    ASSUME NEW s, NEW text, NEW a \in Nat, NEW b \in Nat, a <= b,
           NEW f, RunsPart(f, s, text, a, b), NEW g, RunsPart(g, s, text, a, b)
    PROVE  f[b] = g[b]
  <1> DEFINE S == {n \in Nat : a + n <= b => f[a + n] = g[a + n]}
             F(n) == IF n = a THEN s ELSE AfterToken(f[n - 1], text[n])
             G(n) == IF n = a THEN s ELSE AfterToken(g[n - 1], text[n])
  <1>1. f = [n \in a .. b |-> F(n)] /\ g = [n \in a .. b |-> G(n)]
    BY Zenon DEF RunsPart
  <1> HIDE DEF F, G
  <1>2. \A n \in a .. b : f[n] = F(n) /\ g[n] = G(n)
    BY <1>1
  <1>3. 0 \in S
    <2>1. a \in a .. b /\ a + 0 = a
      OBVIOUS
    <2>2. f[a] = F(a) /\ g[a] = G(a)
      BY <1>2, <2>1
    <2>3. F(a) = s /\ G(a) = s
      BY Zenon DEF F, G
    <2> QED BY <2>1, <2>2, <2>3
  <1>4. ASSUME NEW n \in Nat, n \in S
        PROVE  n + 1 \in S
    <2>1. CASE a + (n + 1) <= b
      <3>1. PICK m : m = a + (n + 1)
        OBVIOUS
      <3>2. m \in a .. b /\ m # a /\ m - 1 = a + n /\ a + n <= b
        BY <2>1, <3>1
      <3>3. f[m - 1] = g[m - 1]
        BY <1>4, <3>2
      <3>4. f[m] = F(m) /\ g[m] = G(m)
        BY <1>2, <3>2
      <3>5. F(m) = G(m)
        BY <3>2, <3>3, Zenon DEF F, G
      <3>6. f[m] = g[m]
        BY <3>4, <3>5
      <3> QED BY <3>1, <3>6
    <2> QED BY <2>1
  <1> HIDE DEF S
  <1>5. Nat \subseteq S
    BY <1>3, <1>4, SetInduction
  <1>6. PICK d \in Nat : b = a + d
    <2>1. b - a \in Nat /\ b = a + (b - a)
      OBVIOUS
    <2> QED BY <2>1
  <1>7. d \in S
    BY <1>5
  <1> QED BY <1>6, <1>7 DEF S

\* A part of a text takes the state in front of it to the one behind it.
LEMMA PartIs ==
    ASSUME NEW s, NEW text, IsText(text), NEW read, Runs(read, s, text),
           NEW a \in Nat, NEW b \in Nat, a <= b, b <= Len(text)
    PROVE  ReadPart(read[a], text, a, b) = read[b]
  <1> DEFINE x == read[a]
             g == [n \in a .. b |-> read[n]]
             r == CHOOSE f : f = [n \in a .. b |->
                                      IF n = a THEN x ELSE AfterToken(f[n - 1], text[n])]
  <1>1. /\ read[0] = s
        /\ \A n \in 1 .. Len(text) : read[n] = AfterToken(read[n - 1], text[n])
        /\ Len(text) \in Nat
    BY RunsTurns, TextIs
  <1>2. RunsPart(g, x, text, a, b)
    <2> DEFINE F(n) == IF n = a THEN x ELSE AfterToken(g[n - 1], text[n])
    <2>1. ASSUME NEW n \in a .. b
          PROVE  read[n] = F(n)
      <3>1. CASE n = a
        BY <3>1
      <3>2. CASE n # a
        <4>1. n \in 1 .. Len(text) /\ n - 1 \in a .. b
          BY <3>2, <1>1
        <4>2. g[n - 1] = read[n - 1]
          BY <4>1
        <4>3. read[n] = AfterToken(read[n - 1], text[n])
          BY <1>1, <4>1
        <4> HIDE DEF g
        <4>4. F(n) = AfterToken(g[n - 1], text[n])
          BY <3>2, Zenon
        <4> QED BY <4>2, <4>3, <4>4, Zenon
      <3> QED BY <3>1, <3>2
    <2> HIDE DEF F
    <2>2. g = [n \in a .. b |-> F(n)]
      BY <2>1
    <2> HIDE DEF g
    <2> QED BY <2>2, Zenon DEF RunsPart, F
  <1>3. g[b] = read[b]
    OBVIOUS
  <1> HIDE DEF g
  <1>4. ReadPart(x, text, a, b) = r[b]
    BY Zenon DEF ReadPart
  <1>5. r = [n \in a .. b |-> IF n = a THEN x ELSE AfterToken(r[n - 1], text[n])]
    BY <1>2, Zenon DEF RunsPart
  <1>6. RunsPart(r, x, text, a, b)
    BY <1>5, Zenon DEF RunsPart
  <1> HIDE DEF r
  <1>7. r[b] = g[b]
    BY <1>2, <1>6, RunsPartUnique
  <1> QED BY <1>3, <1>4, <1>7

LEMMA PartEnds ==
    ASSUME NEW text, IsText(text), NEW k \in Nat
    PROVE  /\ PartEnd(text, k) \in Nat /\ PartEnd(text, k) <= Len(text)
           /\ PartEnd(text, 0) = 0
           /\ k # 0 => k - 1 \in Nat /\ PartEnd(text, k - 1) \in Nat
                       /\ PartEnd(text, k - 1) <= PartEnd(text, k)
           /\ (Len(text) + 19) \div 20 \in Nat
           /\ PartEnd(text, (Len(text) + 19) \div 20) = Len(text)
  <1>1. PICK N : N = Len(text)
    OBVIOUS
  <1>2. N \in Nat
    BY <1>1, TextIs
  <1>3. PICK q : q = (N + 19) \div 20
    OBVIOUS
  <1>4. q \in Nat /\ 20 * q >= N
    BY <1>2, <1>3
  <1> QED BY <1>1, <1>2, <1>3, <1>4 DEF PartEnd

\* What a choice from one member is.
LEMMA OnlyChoice ==
    ASSUME NEW s, NEW text, NEW a, NEW b
    PROVE  (CHOOSE t \in {ReadPart(known, text, a, b) : known \in {s}} : TRUE)
               = ReadPart(s, text, a, b)
  <1>1. PICK S : S = {ReadPart(known, text, a, b) : known \in {s}}
    OBVIOUS
  <1>2. \A t : t \in S <=> t = ReadPart(s, text, a, b)
    BY <1>1
  <1>3. (CHOOSE t \in S : TRUE) \in S
    BY <1>2, Zenon
  <1>4. (CHOOSE t \in S : TRUE) = ReadPart(s, text, a, b)
    BY <1>2, <1>3, Zenon
  <1> QED BY <1>1, <1>4, Zenon

\* g is the recursive function of Read, which takes part k next.
RunsParts(g, s, text) ==
    g = [k \in 0 .. (Len(text) + 19) \div 20 |->
            IF k = 0 THEN s
            ELSE CHOOSE t \in {ReadPart(known, text, PartEnd(text, k - 1), PartEnd(text, k)) :
                                   known \in {g[k - 1]}} : TRUE]

LEMMA PartsTurns ==
    ASSUME NEW s, NEW text, IsText(text), NEW g, RunsParts(g, s, text)
    PROVE  /\ g[0] = s
           /\ \A k \in 1 .. (Len(text) + 19) \div 20 :
                  g[k] = ReadPart(g[k - 1], text, PartEnd(text, k - 1), PartEnd(text, k))
  <1> DEFINE F(k) == IF k = 0 THEN s
                     ELSE CHOOSE t \in {ReadPart(known, text, PartEnd(text, k - 1), PartEnd(text, k)) :
                                            known \in {g[k - 1]}} : TRUE
  <1>1. PICK q : q = (Len(text) + 19) \div 20
    OBVIOUS
  <1>2. q \in Nat
    BY <1>1, PartEnds
  <1>3. g = [k \in 0 .. q |-> F(k)]
    BY <1>1, Zenon DEF RunsParts
  <1> HIDE DEF F
  <1>4. \A k \in 0 .. q : g[k] = F(k)
    BY <1>3
  <1>5. g[0] = F(0)
    BY <1>2, <1>4
  <1>6. ASSUME NEW k \in 1 .. q
        PROVE  g[k] = ReadPart(g[k - 1], text, PartEnd(text, k - 1), PartEnd(text, k))
    <2>1. k \in 0 .. q /\ k # 0
      OBVIOUS
    <2>2. F(k) = ReadPart(g[k - 1], text, PartEnd(text, k - 1), PartEnd(text, k))
      BY <2>1, OnlyChoice, Zenon DEF F
    <2> QED BY <1>4, <2>1, <2>2, Zenon
  <1>7. F(0) = s
    BY Zenon DEF F
  <1> QED BY <1>1, <1>5, <1>6, <1>7, Zenon

LEMMA ReadsIs ==
    ASSUME NEW s, NEW text, IsText(text), NEW t, Reads(s, text, t)
    PROVE  Read(s, text) = t
  <1> DEFINE q == (Len(text) + 19) \div 20
             r == CHOOSE f : f = [k \in 0 .. q |->
                      IF k = 0 THEN s
                      ELSE CHOOSE u \in {ReadPart(known, text, PartEnd(text, k - 1), PartEnd(text, k)) :
                                             known \in {f[k - 1]}} : TRUE]
  <1>1. PICK read : Runs(read, s, text) /\ read[Len(text)] = t
    BY DEF Reads
  <1> DEFINE g == [k \in 0 .. q |-> read[PartEnd(text, k)]]
  <1>2. read[0] = s
    BY <1>1, RunsTurns
  <1>3. q \in Nat /\ PartEnd(text, q) = Len(text)
    BY PartEnds
  <1>4. RunsParts(g, s, text)
    <2> DEFINE F(k) == IF k = 0 THEN s
                       ELSE CHOOSE u \in {ReadPart(known, text, PartEnd(text, k - 1), PartEnd(text, k)) :
                                              known \in {g[k - 1]}} : TRUE
    <2>1. ASSUME NEW k \in 0 .. q
          PROVE  read[PartEnd(text, k)] = F(k)
      <3>1. CASE k = 0
        <4>1. PartEnd(text, 0) = 0
          BY PartEnds
        <4> QED BY <3>1, <4>1, <1>2, Zenon
      <3>2. CASE k # 0
        <4>1. k \in Nat /\ k - 1 \in 0 .. q
          BY <3>2, <1>3
        <4>2. PICK a, b : a = PartEnd(text, k - 1) /\ b = PartEnd(text, k)
          OBVIOUS
        <4>3. a \in Nat /\ b \in Nat /\ a <= b /\ b <= Len(text)
          BY <3>2, <4>1, <4>2, PartEnds
        <4>4. ReadPart(read[a], text, a, b) = read[b]
          BY <1>1, <4>3, PartIs
        <4>5. g[k - 1] = read[a]
          BY <4>1, <4>2
        <4> HIDE DEF g, q
        <4>6. F(k) = ReadPart(g[k - 1], text, a, b)
          BY <3>2, <4>2, OnlyChoice, Zenon
        <4> QED BY <4>2, <4>4, <4>5, <4>6, Zenon
      <3> QED BY <3>1, <3>2
    <2> HIDE DEF F, q
    <2>2. g = [k \in 0 .. q |-> F(k)]
      BY <2>1
    <2> HIDE DEF g
    <2> QED BY <2>2, Zenon DEF RunsParts, F, q
  <1> HIDE DEF g
  <1>5. Read(s, text) = r[q]
    BY Zenon DEF Read
  <1>6. RunsParts(r, s, text)
    <2>1. \E f : RunsParts(f, s, text)
      BY <1>4, Zenon
    <2> QED BY <2>1, Zenon DEF RunsParts
  <1> HIDE DEF r
  <1> DEFINE S == {k \in Nat : k <= q => r[k] = read[PartEnd(text, k)]}
  <1>7. /\ r[0] = s
        /\ \A k \in 1 .. q : r[k] = ReadPart(r[k - 1], text, PartEnd(text, k - 1), PartEnd(text, k))
    BY <1>6, PartsTurns
  <1> HIDE DEF q
  <1>8. 0 \in S
    <2>1. PartEnd(text, 0) = 0
      BY PartEnds
    <2> QED BY <2>1, <1>2, <1>7
  <1>9. ASSUME NEW k \in Nat, k \in S
        PROVE  k + 1 \in S
    <2>1. CASE k + 1 <= q
      <3>1. k + 1 \in 1 .. q /\ (k + 1) - 1 = k /\ k <= q /\ k + 1 \in Nat /\ k + 1 # 0
        BY <2>1, <1>3
      <3>2. PICK a, b : a = PartEnd(text, k) /\ b = PartEnd(text, k + 1)
        OBVIOUS
      <3>3. a \in Nat /\ b \in Nat /\ a <= b /\ b <= Len(text)
        <4>1. PICK m \in Nat : m = k + 1
          BY <3>1
        <4>2. /\ PartEnd(text, m) \in Nat /\ PartEnd(text, m) <= Len(text)
              /\ PartEnd(text, m - 1) \in Nat /\ PartEnd(text, m - 1) <= PartEnd(text, m)
          BY <4>1, <3>1, PartEnds
        <4>3. m - 1 = k
          BY <4>1
        <4> QED BY <3>2, <4>1, <4>2, <4>3
      <3>4. ReadPart(read[a], text, a, b) = read[b]
        BY <1>1, <3>3, PartIs
      <3>5. r[k] = read[a]
        BY <1>9, <3>1, <3>2
      <3>6. r[k + 1] = ReadPart(r[k], text, a, b)
        BY <1>7, <3>1, <3>2, Zenon
      <3>7. r[k + 1] = read[b]
        BY <3>4, <3>5, <3>6, Zenon
      <3> QED BY <3>2, <3>7
    <2> QED BY <2>1
  <1> HIDE DEF S
  <1>10. Nat \subseteq S
    BY <1>8, <1>9, SetInduction
  <1>11. r[q] = read[Len(text)]
    <2>1. q \in S
      BY <1>3, <1>10
    <2> QED BY <2>1, <1>3 DEF S
  <1> QED BY <1>1, <1>5, <1>11, Zenon

LEMMA ReadsNone ==
    ASSUME NEW s
    PROVE  Reads(s, <<>>, s)
  <1> DEFINE read == [n \in 0 .. 0 |-> s]
  <1>1. Runs(read, s, <<>>)
    <2>1. Len(<<>>) = 0
      OBVIOUS
    <2> DEFINE F(n) == IF n = 0 THEN s ELSE AfterToken(read[n - 1], <<>>[n])
    <2>2. \A n \in 0 .. 0 : F(n) = s
      OBVIOUS
    <2> HIDE DEF F
    <2>3. read = [n \in 0 .. 0 |-> F(n)]
      BY <2>2
    <2> QED BY <2>1, <2>3 DEF Runs, F
  <1>2. read[Len(<<>>)] = s
    OBVIOUS
  <1> QED BY <1>1, <1>2, Zenon DEF Reads

LEMMA ReadsOne ==
    ASSUME NEW s, NEW x
    PROVE  Reads(s, <<x>>, AfterToken(s, x))
  <1> DEFINE read == [n \in 0 .. 1 |-> IF n = 0 THEN s ELSE AfterToken(s, x)]
  <1>1. Runs(read, s, <<x>>)
    <2>1. Len(<<x>>) = 1 /\ <<x>>[1] = x
      OBVIOUS
    <2> DEFINE F(n) == IF n = 0 THEN s ELSE AfterToken(read[n - 1], <<x>>[n])
    <2>2. F(0) = s
      OBVIOUS
    <2>3. F(1) = AfterToken(s, x)
      <3>1. F(1) = AfterToken(read[0], x)
        OBVIOUS
      <3>2. read[0] = s
        OBVIOUS
      <3> HIDE DEF F, read
      <3> QED BY <3>1, <3>2, Zenon
    <2> HIDE DEF F
    <2>4. \A n \in 0 .. 1 : read[n] = F(n)
      BY <2>2, <2>3
    <2>5. read = [n \in 0 .. 1 |-> F(n)]
      BY <2>4
    <2> HIDE DEF read
    <2>6. read = [n \in 0 .. Len(<<x>>) |-> F(n)]
      BY <2>1, <2>5, Zenon
    <2> QED BY <2>6, Zenon DEF Runs, F
  <1>2. read[Len(<<x>>)] = AfterToken(s, x)
    OBVIOUS
  <1> QED BY <1>1, <1>2, Zenon DEF Reads

\* One text after the other.
LEMMA ReadsJoin ==
    ASSUME NEW s, NEW a, IsText(a), NEW t, Reads(s, a, t),
           NEW b, IsText(b), NEW u, Reads(t, b, u)
    PROVE  Reads(s, a \o b, u)
  <1> DEFINE A == Len(a)
             B == Len(b)
             text == a \o b
  <1>1. PICK f : Runs(f, s, a) /\ f[A] = t
    BY DEF Reads
  <1>2. PICK g : Runs(g, t, b) /\ g[B] = u
    BY DEF Reads
  <1>3. /\ f[0] = s
        /\ \A n \in 1 .. A : f[n] = AfterToken(f[n - 1], a[n])
    <2>1. Runs(f, s, a)
      BY <1>1, Zenon
    <2> QED BY <2>1, RunsTurns
  <1>4. /\ g[0] = t
        /\ \A n \in 1 .. B : g[n] = AfterToken(g[n - 1], b[n])
    <2>1. Runs(g, t, b)
      BY <1>2, Zenon
    <2> QED BY <2>1, RunsTurns
  <1>5. /\ A \in Nat /\ B \in Nat /\ Len(text) = A + B
        /\ \A n \in 1 .. A : text[n] = a[n]
        /\ \A n \in A + 1 .. A + B : text[n] = b[n - A]
    BY TextJoin
  <1> HIDE DEF text, A, B
  <1> DEFINE h == [n \in 0 .. A + B |-> IF n <= A THEN f[n] ELSE g[n - A]]
             F(n) == IF n = 0 THEN s ELSE AfterToken(h[n - 1], text[n])
  <1>6. ASSUME NEW n \in 0 .. A + B
        PROVE  h[n] = F(n)
    <2>1. CASE n = 0
      <3>1. h[0] = f[0]
        BY <1>5
      <3> QED BY <1>3, <2>1, <3>1
    <2>2. CASE n \in 1 .. A
      <3>1. h[n] = f[n] /\ h[n - 1] = f[n - 1]
        BY <1>5, <2>2
      <3>2. h[n] = AfterToken(h[n - 1], text[n])
        BY <1>3, <1>5, <2>2, <3>1
      <3>3. n # 0
        BY <2>2, <1>5
      <3> QED BY <3>2, <3>3
    <2>3. CASE n \in A + 1 .. A + B
      <3>1. n - A \in 1 .. B /\ n # 0 /\ n - 1 \in 0 .. A + B /\ ~(n <= A)
        BY <1>5, <2>3
      <3>2. h[n] = g[n - A]
        BY <3>1
      <3>3. h[n - 1] = g[(n - A) - 1]
        <4>1. CASE n = A + 1
          <5>1. n - 1 = A /\ (n - A) - 1 = 0
            BY <1>5, <4>1
          <5>2. h[n - 1] = f[A]
            BY <1>5, <5>1
          <5> QED BY <1>1, <1>4, <5>1, <5>2
        <4>2. CASE n # A + 1
          <5>1. ~(n - 1 <= A) /\ (n - 1) - A = (n - A) - 1
            BY <1>5, <2>3, <4>2
          <5> QED BY <3>1, <5>1
        <4> QED BY <4>1, <4>2
      <3>4. text[n] = b[n - A]
        BY <1>5, <2>3
      <3>5. g[n - A] = AfterToken(g[(n - A) - 1], b[n - A])
        BY <1>4, <3>1
      <3>6. h[n] = AfterToken(h[n - 1], text[n])
        BY <3>2, <3>3, <3>4, <3>5, Zenon
      <3> QED BY <3>1, <3>6
    <2> QED BY <1>5, <2>1, <2>2, <2>3
  <1>7. h[A + B] = u
    <2>1. CASE B = 0
      BY <1>1, <1>2, <1>4, <1>5, <2>1
    <2>2. CASE B # 0
      BY <1>2, <1>5, <2>2
    <2> QED BY <2>1, <2>2
  <1> HIDE DEF F
  <1>8. h = [n \in 0 .. A + B |-> F(n)]
    BY <1>6
  <1> HIDE DEF h
  <1>9. h = [n \in 0 .. Len(text) |-> F(n)]
    BY <1>5, <1>8, Zenon
  <1>10. Runs(h, s, text)
    BY <1>9, Zenon DEF Runs, F
  <1>11. h[Len(text)] = u
    BY <1>5, <1>7, Zenon
  <1> QED BY <1>10, <1>11, Zenon DEF Reads, text
-----------------------------------------------------------------------------
(***************************************************************************)
(* What each token does.  o is what is open outside of the object or array *)
(* at hand, keys are the members that the object has.                      *)
(***************************************************************************)
State(open, want) == [open |-> open, want |-> want]

Frame(kind, keys) == [kind |-> kind, keys |-> keys]

Within(o, kind, keys) == Append(o, Frame(kind, keys))

Object(o, keys) == Within(o, "{", keys)

Array(o) == Within(o, "[", {})

Plain(k) == k \notin Marks \cup {"val", "junk"}

LEMMA FrameIs ==
    ASSUME NEW f, NEW kind, NEW keys, f = Frame(kind, keys)
    PROVE  f.kind = kind /\ f.keys = keys
  BY DEF Frame

WithKeys(f, keys) == [f EXCEPT !.keys = keys]

LEMMA FrameMore ==
    ASSUME NEW kind, NEW keys, NEW x
    PROVE  WithKeys(Frame(kind, keys), x) = Frame(kind, x)
  BY SMT DEF Frame, WithKeys

LEMMA WithinIs ==
    ASSUME NEW o, IsText(o), NEW kind, NEW keys
    PROVE  /\ IsText(Within(o, kind, keys))
           /\ Within(o, kind, keys) # <<>>
           /\ Last(Within(o, kind, keys)) = Frame(kind, keys)
           /\ Front(Within(o, kind, keys)) = o
  <1> DEFINE f == Frame(kind, keys)
             w == Append(o, f)
  <1>0. PICK S : o \in Seq(S)
    BY DEF IsText
  <1> HIDE DEF f
  <1>1. PICK U : U = S \cup {f}
    OBVIOUS
  <1>2. /\ o \in Seq(U) /\ w \in Seq(U) /\ Len(w) = Len(o) + 1 /\ w[Len(w)] = f
        /\ \A i \in 1 .. Len(o) : w[i] = o[i]
        /\ Len(o) \in Nat
    BY <1>0, <1>1
  <1>3. Within(o, kind, keys) = w
    BY Zenon DEF Within, f
  <1> HIDE DEF w
  <1>4. w # <<>>
    BY <1>2
  <1>5. Last(w) = f
    BY <1>2 DEF Last
  <1>6. Front(w) = o
    <2>1. Front(w) = SubSeq(w, 1, Len(w) - 1)
      BY DEF Front
    <2>2. SubSeq(w, 1, Len(o)) = o
      BY <1>2
    <2> QED BY <1>2, <2>1, <2>2
  <1> QED BY <1>2, <1>3, <1>4, <1>5, <1>6, Zenon DEF f, IsText

LEMMA ObjectIs ==
    ASSUME NEW o, IsText(o), NEW keys
    PROVE  /\ IsText(Object(o, keys))
           /\ Complete(Object(o, keys)) = State(Object(o, keys), "next")
           /\ Last(Object(o, keys)).kind = "{" /\ Last(Object(o, keys)).keys = keys
           /\ Front(Object(o, keys)) = o
  <1>1. /\ IsText(Object(o, keys)) /\ Object(o, keys) # <<>>
        /\ Last(Object(o, keys)) = Frame("{", keys)
        /\ Front(Object(o, keys)) = o
    BY WithinIs, Zenon DEF Object
  <1>2. Complete(Object(o, keys)) = State(Object(o, keys), "next")
    BY <1>1, Zenon DEF Complete, State
  <1>3. Last(Object(o, keys)).kind = "{" /\ Last(Object(o, keys)).keys = keys
    BY <1>1, FrameIs, Zenon
  <1> QED BY <1>1, <1>2, <1>3, Zenon

LEMMA ArrayIs ==
    ASSUME NEW o, IsText(o)
    PROVE  /\ IsText(Array(o))
           /\ Complete(Array(o)) = State(Array(o), "next")
           /\ Last(Array(o)).kind = "["
           /\ Front(Array(o)) = o
  <1>1. /\ IsText(Array(o)) /\ Array(o) # <<>>
        /\ Last(Array(o)) = Frame("[", {})
        /\ Front(Array(o)) = o
    BY WithinIs, Zenon DEF Array
  <1>2. Complete(Array(o)) = State(Array(o), "next")
    BY <1>1, Zenon DEF Complete, State
  <1>3. Last(Array(o)).kind = "["
    BY <1>1, FrameIs, Zenon
  <1> QED BY <1>1, <1>2, <1>3, Zenon

LEMMA StateIs ==
    ASSUME NEW o, NEW w, NEW s, s = State(o, w)
    PROVE  s.open = o /\ s.want = w
  BY DEF State

LEMMA StateWants ==
    ASSUME NEW o, NEW w, NEW s, s = State(o, w), NEW x
    PROVE  [s EXCEPT !.want = x] = State(o, x)
  BY DEF State

LEMMA ValueSteps ==
    ASSUME NEW o, NEW w \in {"value", "first value"}
    PROVE  /\ AfterToken(State(o, w), "{") = State(Object(o, {}), "first key")
           /\ AfterToken(State(o, w), "[") = State(Array(o), "first value")
           /\ AfterToken(State(o, w), "val") = Complete(o)
  <1>1. PICK s : s = State(o, w)
    OBVIOUS
  <1>2. s.open = o /\ s.want \in {"value", "first value"}
    <2>1. s.open = o /\ s.want = w
      BY <1>1, StateIs, Zenon
    <2> QED BY <2>1, Zenon
  <1>3. AfterToken(s, "{") = [open |-> Append(o, [kind |-> "{", keys |-> {}]), want |-> "first key"]
    BY <1>2, Zenon DEF AfterToken
  <1>4. AfterToken(s, "[") = [open |-> Append(o, [kind |-> "[", keys |-> {}]), want |-> "first value"]
    BY <1>2, Zenon DEF AfterToken
  <1>5. AfterToken(s, "val") = Complete(o)
    BY <1>2, Zenon DEF AfterToken
  <1> QED BY <1>1, <1>3, <1>4, <1>5, Zenon DEF State, Object, Array, Within, Frame

\* The name of a member.
Unused(k, keys) == k \notin keys

NameWanted == {"key", "first key"}

LEMMA KeyStep ==
    ASSUME NEW o, IsText(o), NEW keys, NEW w \in NameWanted,
           NEW k, Plain(k), Unused(k, keys)
    PROVE  AfterToken(State(Object(o, keys), w), k) = State(Object(o, keys \cup {k}), "member")
  <1>1. PICK b : b = Object(o, keys)
    OBVIOUS
  <1>2. Last(b) = Frame("{", keys) /\ Front(b) = o
    BY <1>1, WithinIs, Zenon DEF Object
  <1>3. PICK top : top = Last(b)
    OBVIOUS
  <1>4. top.keys = keys /\ top = Frame("{", keys)
    BY <1>2, <1>3, FrameIs, Zenon
  <1>5. [top EXCEPT !.keys = @ \cup {k}] = Frame("{", keys \cup {k})
    <2>3. PICK more : more = top.keys \cup {k}
      OBVIOUS
    <2>4. WithKeys(top, more) = Frame("{", more)
      <3>1. WithKeys(Frame("{", keys), more) = Frame("{", more)
        BY FrameMore, Zenon
      <3> QED BY <1>4, <3>1, Zenon
    <2>5. more = keys \cup {k}
      BY <1>4, <2>3, Zenon
    <2>6. [top EXCEPT !.keys = @ \cup {k}] = WithKeys(top, more)
      BY <2>3, Zenon DEF WithKeys
    <2> QED BY <2>4, <2>5, <2>6, Zenon
  <1>6. k \notin Marks \cup {"val", "junk"} /\ k \notin keys /\ k # "}"
    BY Zenon DEF Plain, Marks, Unused
  <1>7. PICK s : s = State(b, w)
    OBVIOUS
  <1>8. s.open = b /\ s.want \in {"key", "first key"}
    <2>1. s.open = b /\ s.want = w
      BY <1>7, StateIs, Zenon
    <2> QED BY <2>1, Zenon DEF NameWanted
  <1>9. AfterToken(s, k) = [open |-> Append(o, [top EXCEPT !.keys = @ \cup {k}]), want |-> "member"]
    <2>1. CASE s.want = "key"
      BY <1>2, <1>3, <1>4, <1>6, <1>8, <2>1, Zenon DEF AfterToken
    <2>2. CASE s.want = "first key"
      BY <1>2, <1>3, <1>4, <1>6, <1>8, <2>2, Zenon DEF AfterToken
    <2> QED BY <1>8, <2>1, <2>2, Zenon
  <1> QED BY <1>1, <1>5, <1>7, <1>9, Zenon DEF State, Object, Within

LEMMA FirstKeyStep ==
    ASSUME NEW o, IsText(o), NEW k, Plain(k)
    PROVE  AfterToken(State(Object(o, {}), "first key"), k) = State(Object(o, {} \cup {k}), "member")
  <1>1. PICK keys : keys = {}
    OBVIOUS
  <1>2. PICK w : w = "first key"
    OBVIOUS
  <1>3. Unused(k, keys) /\ w \in NameWanted
    BY <1>1, <1>2, Zenon DEF Unused, NameWanted
  <1>4. AfterToken(State(Object(o, keys), w), k) = State(Object(o, keys \cup {k}), "member")
    BY <1>3, KeyStep
  <1> QED BY <1>1, <1>2, <1>4, Zenon

LEMMA NextKeyStep ==
    ASSUME NEW o, IsText(o), NEW keys, NEW k, Plain(k), k \notin keys
    PROVE  AfterToken(State(Object(o, keys), "key"), k) = State(Object(o, keys \cup {k}), "member")
  <1>1. PICK w : w = "key"
    OBVIOUS
  <1>2. Unused(k, keys) /\ w \in NameWanted
    BY <1>1, Zenon DEF Unused, NameWanted
  <1>3. AfterToken(State(Object(o, keys), w), k) = State(Object(o, keys \cup {k}), "member")
    BY <1>2, KeyStep
  <1> QED BY <1>1, <1>3, Zenon

LEMMA ColonStep ==
    ASSUME NEW o
    PROVE  AfterToken(State(o, "member"), ":") = State(o, "value")
  <1>1. PICK s : s = State(o, "member")
    OBVIOUS
  <1>2. s.open = o /\ s.want = "member" /\ [s EXCEPT !.want = "value"] = State(o, "value")
    BY <1>1, StateIs, StateWants, Zenon
  <1>3. AfterToken(s, ":") = [s EXCEPT !.want = "value"]
    BY <1>2, Zenon DEF AfterToken, Marks
  <1> QED BY <1>1, <1>2, <1>3, Zenon

\* Commas and ends.
LEMMA ObjectComma ==
    ASSUME NEW o, IsText(o), NEW keys, NEW w \in {"next", "member"}
    PROVE  AfterToken(State(Object(o, keys), w), ",") = State(Object(o, keys), "key")
  <1>1. PICK b : b = Object(o, keys)
    OBVIOUS
  <1>2. Last(b).kind = "{"
    BY <1>1, ObjectIs, Zenon
  <1>3. PICK s : s = State(b, w)
    OBVIOUS
  <1>4. /\ s.open = b /\ s.want \in {"next", "member"}
        /\ [s EXCEPT !.want = "key"] = State(b, "key")
    <2>1. s.open = b /\ s.want = w
      BY <1>3, StateIs, Zenon
    <2>2. [s EXCEPT !.want = "key"] = State(b, "key")
      BY <1>3, StateWants, Zenon
    <2> QED BY <2>1, <2>2, Zenon
  <1>5. PICK key : key = IF Last(b).kind = "{" THEN "key" ELSE "value"
    OBVIOUS
  <1>6. key = "key"
    BY <1>2, <1>5, Zenon
  <1>7. AfterToken(s, ",") = [s EXCEPT !.want = key]
    BY <1>4, <1>5, Zenon DEF AfterToken
  <1> QED BY <1>1, <1>3, <1>4, <1>6, <1>7, Zenon

LEMMA EmptyObjectEnd ==
    ASSUME NEW s, NEW o, s.open = o, NEW top, top = Last(o), NEW outer, outer = Front(o),
           top.kind = "{", s.want = "first key"
    PROVE  AfterToken(s, "}") = Complete(outer)
  <1>1. "}" \in Marks
    BY Zenon DEF Marks
  <1> QED BY <1>1, Zenon DEF AfterToken

LEMMA ObjectEnd ==
    ASSUME NEW o, IsText(o), NEW keys,
           NEW w \in {"next", "member", "first key"}
    PROVE  AfterToken(State(Object(o, keys), w), "}") = Complete(o)
  <1>1. PICK b : b = Object(o, keys)
    OBVIOUS
  <1>2. Last(b).kind = "{" /\ Front(b) = o
    BY <1>1, ObjectIs, Zenon
  <1>3. PICK top : top = Last(b)
    OBVIOUS
  <1>4. PICK s : s = State(b, w)
    OBVIOUS
  <1>5. s.open = b /\ s.want \in {"next", "member", "first key"}
    <2>1. s.open = b /\ s.want = w
      BY <1>4, StateIs, Zenon
    <2> QED BY <2>1, Zenon
  <1>6. AfterToken(s, "}") = Complete(o)
    <2>1. CASE s.want = "next"
      BY <1>2, <1>3, <1>5, <2>1, Zenon DEF AfterToken
    <2>2. CASE s.want = "member"
      BY <1>2, <1>3, <1>5, <2>2, Zenon DEF AfterToken
    <2>3. CASE s.want = "first key"
      BY <1>2, <1>3, <1>5, <2>3, EmptyObjectEnd, Zenon
    <2> QED BY <1>5, <2>1, <2>2, <2>3, Zenon
  <1> QED BY <1>1, <1>4, <1>6, Zenon

LEMMA ArrayComma ==
    ASSUME NEW o, IsText(o)
    PROVE  AfterToken(State(Array(o), "next"), ",") = State(Array(o), "value")
  <1>1. PICK b : b = Array(o)
    OBVIOUS
  <1>2. Last(b).kind = "["
    BY <1>1, ArrayIs, Zenon
  <1>3. PICK top : top = Last(b)
    OBVIOUS
  <1>4. PICK s : s = State(b, "next")
    OBVIOUS
  <1>5. s.open = b /\ s.want = "next" /\ [s EXCEPT !.want = "value"] = State(b, "value")
    BY <1>4, StateIs, StateWants, Zenon
  <1>6. AfterToken(s, ",") = [s EXCEPT !.want = "value"]
    BY <1>2, <1>3, <1>5, Zenon DEF AfterToken
  <1> QED BY <1>1, <1>4, <1>5, <1>6, Zenon

LEMMA ArrayEnd ==
    ASSUME NEW o, IsText(o), NEW w \in {"next", "first value"}
    PROVE  AfterToken(State(Array(o), w), "]") = Complete(o)
  <1>1. PICK b : b = Array(o)
    OBVIOUS
  <1>2. Last(b).kind = "[" /\ Front(b) = o
    BY <1>1, ArrayIs, Zenon
  <1>3. PICK top : top = Last(b)
    OBVIOUS
  <1>4. PICK s : s = State(b, w)
    OBVIOUS
  <1>5. s.open = b /\ s.want \in {"next", "first value"}
    <2>1. s.open = b /\ s.want = w
      BY <1>4, StateIs, Zenon
    <2> QED BY <2>1, Zenon
  <1>6. AfterToken(s, "]") = Complete(o)
    <2>1. CASE s.want = "next"
      BY <1>2, <1>3, <1>5, <2>1, Zenon DEF AfterToken
    <2>2. CASE s.want = "first value"
      BY <1>2, <1>3, <1>5, <2>2, Zenon DEF AfterToken
    <2> QED BY <1>5, <2>1, <2>2, Zenon
  <1> QED BY <1>1, <1>4, <1>6, Zenon
\* What FlattenSeq makes of texts: its recursive function, without the recursion.
LEMMA FlattenTurns ==
    ASSUME NEW s, IsText(s)
    PROVE  \E f : /\ Len(s) = 0 => FlattenSeq(s) = <<>>
                  /\ Len(s) # 0 => FlattenSeq(s) = f[Len(s)]
                  /\ \A i \in 1 .. Len(s) : f[i] = IF i = 1 THEN s[i] ELSE f[i - 1] \o s[i]
  <1> DEFINE fl == CHOOSE f : f = [i \in 1 .. Len(s) |-> IF i = 1 THEN s[i] ELSE f[i - 1] \o s[i]]
  <1>1. Len(s) \in Nat
    BY TextIs
  <1>2. CASE Len(s) = 0
    <2>1. s = <<>>
      <3>1. PICK S : s \in Seq(S)
        BY DEF IsText
      <3> QED BY <1>2, <3>1
    <2>2. FlattenSeq(s) = <<>>
      BY <1>2, <2>1, Zenon DEF FlattenSeq
    <2>3. 1 .. Len(s) = {}
      BY <1>2
    <2> QED BY <1>2, <2>2, <2>3, Zenon
  <1>3. CASE Len(s) # 0
    <2>1. FlattenSeq(s) = fl[Len(s)]
      BY <1>3 DEF FlattenSeq
    <2>2. \E f : f = [i \in 1 .. Len(s) |-> IF i = 1 THEN s[i] ELSE f[i - 1] \o s[i]]
      BY <1>1, FlattenExists DEF Flattens
    <2>3. fl = [i \in 1 .. Len(s) |-> IF i = 1 THEN s[i] ELSE fl[i - 1] \o s[i]]
      BY <2>2
    <2> HIDE DEF fl
    <2>4. Flattens(fl, s, Len(s))
      BY <2>3 DEF Flattens
    <2>5. \A i \in 1 .. Len(s) : fl[i] = IF i = 1 THEN s[i] ELSE fl[i - 1] \o s[i]
      BY <2>4 DEF Flattens
    <2> QED BY <1>3, <2>1, <2>5, Zenon
  <1> QED BY <1>2, <1>3, Zenon

-----------------------------------------------------------------------------
(***************************************************************************)
(* Texts that lead from one of some states to one of others.               *)
(***************************************************************************)
Leads(S, text, T) == IsText(text) /\ \A s \in S : \E t \in T : Reads(s, text, t)

LEMMA LeadsNone ==
    ASSUME NEW S, NEW T, S \subseteq T
    PROVE  Leads(S, <<>>, T)
  <1>1. IsText(<<>>)
    BY TextOne, Zenon
  <1>2. ASSUME NEW s \in S
        PROVE  \E t \in T : Reads(s, <<>>, t)
    BY ReadsNone, Zenon
  <1> QED BY <1>1, <1>2, Zenon DEF Leads

LEMMA LeadsOne ==
    ASSUME NEW S, NEW T, NEW x, \A s \in S : AfterToken(s, x) \in T
    PROVE  Leads(S, <<x>>, T)
  <1>1. IsText(<<x>>)
    BY TextOne, Zenon
  <1>2. ASSUME NEW s \in S
        PROVE  \E t \in T : Reads(s, <<x>>, t)
    BY ReadsOne, Zenon
  <1> QED BY <1>1, <1>2, Zenon DEF Leads

LEMMA LeadsJoin ==
    ASSUME NEW S, NEW T, NEW U, NEW a, NEW b, Leads(S, a, T), Leads(T, b, U)
    PROVE  Leads(S, a \o b, U)
  <1>1. IsText(a) /\ IsText(b)
    BY Zenon DEF Leads
  <1>2. IsText(a \o b)
    BY <1>1, TextJoin, Zenon
  <1>3. ASSUME NEW s \in S
        PROVE  \E u \in U : Reads(s, a \o b, u)
    <2>1. PICK t \in T : Reads(s, a, t)
      BY Zenon DEF Leads
    <2>2. PICK u \in U : Reads(t, b, u)
      BY Zenon DEF Leads
    <2> QED BY <1>1, <2>1, <2>2, ReadsJoin, Zenon
  <1> QED BY <1>2, <1>3, Zenon DEF Leads

LEMMA LeadsWider ==
    ASSUME NEW S, NEW T, NEW text, Leads(S, text, T), NEW S2, S2 \subseteq S,
           NEW T2, T \subseteq T2
    PROVE  Leads(S2, text, T2)
  BY Zenon DEF Leads

\* A tuple is its first elements, and the others behind them.
LEMMA Split ==
    ASSUME NEW U, NEW t \in Seq(U), NEW a \in Seq(U), NEW b \in Seq(U),
           Len(t) = Len(a) + Len(b),
           \A i \in 1 .. Len(a) : t[i] = a[i],
           \A i \in 1 .. Len(b) : t[Len(a) + i] = b[i]
    PROVE  t = a \o b
  <1> DEFINE c == a \o b
  <1>1. /\ c \in Seq(U) /\ Len(a) \in Nat /\ Len(b) \in Nat /\ Len(c) = Len(a) + Len(b)
        /\ \A i \in 1 .. Len(a) : c[i] = a[i]
        /\ \A i \in Len(a) + 1 .. Len(a) + Len(b) : c[i] = b[i - Len(a)]
    OBVIOUS
  <1> HIDE DEF c
  <1>2. ASSUME NEW i \in 1 .. Len(t)
        PROVE  t[i] = c[i]
    <2>1. CASE i <= Len(a)
      BY <1>1, <2>1
    <2>2. CASE ~(i <= Len(a))
      <3>1. i - Len(a) \in 1 .. Len(b) /\ Len(a) + (i - Len(a)) = i
        BY <1>1, <2>2
      <3>2. t[i] = b[i - Len(a)]
        BY <3>1
      <3> QED BY <1>1, <2>2, <3>2
    <2> QED BY <2>1, <2>2
  <1>3. t = c
    BY <1>1, <1>2, SeqEqual
  <1> QED BY <1>3 DEF c

LEMMA SplitTwo ==
    ASSUME NEW p, NEW q
    PROVE  <<p, q>> = <<p>> \o <<q>>
  <1> DEFINE U == {p, q}
  <1>1. PICK s, a, b : s = <<p, q>> /\ a = <<p>> /\ b = <<q>>
    OBVIOUS
  <1>2. /\ s \in Seq(U) /\ a \in Seq(U) /\ b \in Seq(U)
        /\ Len(s) = 2 /\ Len(a) = 1 /\ Len(b) = 1
        /\ s[1] = p /\ s[2] = q
        /\ a[1] = p
        /\ b[1] = q
    BY <1>1
  <1>3. Len(s) = Len(a) + Len(b)
    BY <1>2
  <1>4. \A i \in 1 .. Len(a) : s[i] = a[i]
    BY <1>2
  <1>5. \A i \in 1 .. Len(b) : s[Len(a) + i] = b[i]
    BY <1>2
  <1>6. s = a \o b
    BY <1>2, <1>3, <1>4, <1>5, Split
  <1> QED BY <1>1, <1>6, Zenon

LEMMA SplitThree ==
    ASSUME NEW p, NEW q, NEW u
    PROVE  <<p, q, u>> = <<p, q>> \o <<u>>
  <1> DEFINE U == {p, q, u}
  <1>1. PICK s, a, b : s = <<p, q, u>> /\ a = <<p, q>> /\ b = <<u>>
    OBVIOUS
  <1>2. /\ s \in Seq(U) /\ a \in Seq(U) /\ b \in Seq(U)
        /\ Len(s) = 3 /\ Len(a) = 2 /\ Len(b) = 1
        /\ s[1] = p /\ s[2] = q /\ s[3] = u
        /\ a[1] = p /\ a[2] = q
        /\ b[1] = u
    BY <1>1
  <1>3. Len(s) = Len(a) + Len(b)
    BY <1>2
  <1>4. \A i \in 1 .. Len(a) : s[i] = a[i]
    BY <1>2
  <1>5. \A i \in 1 .. Len(b) : s[Len(a) + i] = b[i]
    BY <1>2
  <1>6. s = a \o b
    BY <1>2, <1>3, <1>4, <1>5, Split
  <1> QED BY <1>1, <1>6, Zenon

LEMMA SplitFour ==
    ASSUME NEW p, NEW q, NEW u, NEW v
    PROVE  <<p, q, u, v>> = <<p, q, u>> \o <<v>>
  <1> DEFINE U == {p, q, u, v}
  <1>1. PICK s, a, b : s = <<p, q, u, v>> /\ a = <<p, q, u>> /\ b = <<v>>
    OBVIOUS
  <1>2. /\ s \in Seq(U) /\ a \in Seq(U) /\ b \in Seq(U)
        /\ Len(s) = 4 /\ Len(a) = 3 /\ Len(b) = 1
        /\ s[1] = p /\ s[2] = q /\ s[3] = u /\ s[4] = v
        /\ a[1] = p /\ a[2] = q /\ a[3] = u
        /\ b[1] = v
    BY <1>1
  <1>3. Len(s) = Len(a) + Len(b)
    BY <1>2
  <1>4. \A i \in 1 .. Len(a) : s[i] = a[i]
    BY <1>2
  <1>5. \A i \in 1 .. Len(b) : s[Len(a) + i] = b[i]
    BY <1>2
  <1>6. s = a \o b
    BY <1>2, <1>3, <1>4, <1>5, Split
  <1> QED BY <1>1, <1>6, Zenon

LEMMA SplitFirst ==
    ASSUME NEW p, NEW q, NEW u, NEW v
    PROVE  <<p, q, u, v>> = <<p>> \o <<q, u, v>>
  <1> DEFINE U == {p, q, u, v}
  <1>1. PICK s, a, b : s = <<p, q, u, v>> /\ a = <<p>> /\ b = <<q, u, v>>
    OBVIOUS
  <1>2. /\ s \in Seq(U) /\ a \in Seq(U) /\ b \in Seq(U)
        /\ Len(s) = 4 /\ Len(a) = 1 /\ Len(b) = 3
        /\ s[1] = p /\ s[2] = q /\ s[3] = u /\ s[4] = v
        /\ a[1] = p
        /\ b[1] = q /\ b[2] = u /\ b[3] = v
    BY <1>1
  <1>3. Len(s) = Len(a) + Len(b)
    BY <1>2
  <1>4. \A i \in 1 .. Len(a) : s[i] = a[i]
    BY <1>2
  <1>5. \A i \in 1 .. Len(b) : s[Len(a) + i] = b[i]
    BY <1>2
  <1>6. s = a \o b
    BY <1>2, <1>3, <1>4, <1>5, Split
  <1> QED BY <1>1, <1>6, Zenon

LEMMA SplitNext ==
    ASSUME NEW p, NEW q, NEW u, NEW v, NEW x
    PROVE  <<p, q, u, v, x>> = <<p>> \o <<q, u, v, x>>
  <1> DEFINE U == {p, q, u, v, x}
  <1>1. PICK s, a, b : s = <<p, q, u, v, x>> /\ a = <<p>> /\ b = <<q, u, v, x>>
    OBVIOUS
  <1>2. /\ s \in Seq(U) /\ a \in Seq(U) /\ b \in Seq(U)
        /\ Len(s) = 5 /\ Len(a) = 1 /\ Len(b) = 4
        /\ s[1] = p /\ s[2] = q /\ s[3] = u /\ s[4] = v /\ s[5] = x
        /\ a[1] = p
        /\ b[1] = q /\ b[2] = u /\ b[3] = v /\ b[4] = x
    BY <1>1
  <1>3. Len(s) = Len(a) + Len(b)
    BY <1>2
  <1>4. \A i \in 1 .. Len(a) : s[i] = a[i]
    BY <1>2
  <1>5. \A i \in 1 .. Len(b) : s[Len(a) + i] = b[i]
    BY <1>2
  <1>6. s = a \o b
    BY <1>2, <1>3, <1>4, <1>5, Split
  <1> QED BY <1>1, <1>6, Zenon

LEMMA SplitSeven ==
    ASSUME NEW p, NEW q, NEW u, NEW v, NEW x, NEW y, NEW z
    PROVE  <<p, q, u, v, x, y, z>> = <<p, q, u, v>> \o <<x, y, z>>
  <1> DEFINE U == {p, q, u, v, x, y, z}
  <1>1. PICK s, a, b : s = <<p, q, u, v, x, y, z>> /\ a = <<p, q, u, v>> /\ b = <<x, y, z>>
    OBVIOUS
  <1>2. /\ s \in Seq(U) /\ a \in Seq(U) /\ b \in Seq(U)
        /\ Len(s) = 7 /\ Len(a) = 4 /\ Len(b) = 3
        /\ s[1] = p /\ s[2] = q /\ s[3] = u /\ s[4] = v /\ s[5] = x /\ s[6] = y /\ s[7] = z
        /\ a[1] = p /\ a[2] = q /\ a[3] = u /\ a[4] = v
        /\ b[1] = x /\ b[2] = y /\ b[3] = z
    BY <1>1
  <1>3. Len(s) = Len(a) + Len(b)
    BY <1>2
  <1>4. \A i \in 1 .. Len(a) : s[i] = a[i]
    BY <1>2
  <1>5. \A i \in 1 .. Len(b) : s[Len(a) + i] = b[i]
    BY <1>2
  <1>6. s = a \o b
    BY <1>2, <1>3, <1>4, <1>5, Split
  <1> QED BY <1>1, <1>6, Zenon

LEMMA LeadsTwo ==
    ASSUME NEW S, NEW T, NEW U, NEW x, NEW y, Leads(S, <<x>>, T), Leads(T, <<y>>, U)
    PROVE  Leads(S, <<x, y>>, U)
  <1>1. <<x, y>> = <<x>> \o <<y>>
    BY SplitTwo, Zenon
  <1> QED BY <1>1, LeadsJoin, Zenon

LEMMA LeadsThree ==
    ASSUME NEW S, NEW T, NEW U, NEW x, NEW y, NEW z, Leads(S, <<x, y>>, T), Leads(T, <<z>>, U)
    PROVE  Leads(S, <<x, y, z>>, U)
  <1>1. <<x, y, z>> = <<x, y>> \o <<z>>
    BY SplitThree, Zenon
  <1> QED BY <1>1, LeadsJoin, Zenon

LEMMA LeadsFour ==
    ASSUME NEW S, NEW T, NEW U, NEW x, NEW y, NEW z, NEW u,
           Leads(S, <<x, y, z>>, T), Leads(T, <<u>>, U)
    PROVE  Leads(S, <<x, y, z, u>>, U)
  <1>1. <<x, y, z, u>> = <<x, y, z>> \o <<u>>
    BY SplitFour, Zenon
  <1> QED BY <1>1, LeadsJoin, Zenon

\* The texts s, one after the other, lead from one set of Q to the next.
LEMMA LeadsFlat ==
    ASSUME NEW s, IsText(s), NEW Q, \A i \in 1 .. Len(s) : Leads(Q[i - 1], s[i], Q[i])
    PROVE  Leads(Q[0], FlattenSeq(s), Q[Len(s)])
  <1> DEFINE N == Len(s)
  <1>1. N \in Nat
    BY TextIs
  <1>2. PICK fl : /\ Len(s) = 0 => FlattenSeq(s) = <<>>
                  /\ Len(s) # 0 => FlattenSeq(s) = fl[N]
                  /\ \A i \in 1 .. N : fl[i] = IF i = 1 THEN s[i] ELSE fl[i - 1] \o s[i]
    BY FlattenTurns, Zenon
  <1> DEFINE S == {n \in Nat : n \in 1 .. N => Leads(Q[0], fl[n], Q[n])}
  <1>3. 0 \in S
    OBVIOUS
  <1>4. ASSUME NEW n \in Nat, n \in S
        PROVE  n + 1 \in S
    <2>1. CASE n + 1 \in 1 .. N
      <3>1. Leads(Q[n], s[n + 1], Q[n + 1])
        <4>1. PICK i : i = n + 1
          OBVIOUS
        <4>2. i \in 1 .. N /\ i - 1 = n
          BY <2>1, <4>1
        <4> QED BY <4>1, <4>2
      <3>2. CASE n = 0
        <4>1. fl[n + 1] = s[n + 1]
          BY <1>2, <2>1, <3>2
        <4> QED BY <3>1, <3>2, <4>1
      <3>3. CASE n # 0
        <4>1. n \in 1 .. N /\ n + 1 # 1 /\ (n + 1) - 1 = n
          BY <1>1, <2>1, <3>3
        <4>2. fl[n + 1] = fl[n] \o s[n + 1]
          BY <1>2, <2>1, <4>1
        <4>3. Leads(Q[0], fl[n], Q[n])
          BY <1>4, <4>1
        <4>4. Leads(Q[0], fl[n + 1], Q[n + 1])
          BY <3>1, <4>2, <4>3, LeadsJoin, Zenon
        <4> QED BY <4>4
      <3> QED BY <3>2, <3>3
    <2> QED BY <2>1
  <1> HIDE DEF S
  <1>5. Nat \subseteq S
    BY <1>3, <1>4, SetInduction
  <1>6. CASE N = 0
    <2>1. Leads(Q[0], <<>>, Q[0])
      BY LeadsNone, Zenon
    <2> QED BY <1>2, <1>6, <2>1, Zenon
  <1>7. CASE N # 0
    <2>1. Leads(Q[0], fl[N], Q[N])
      BY <1>1, <1>5, <1>7 DEF S
    <2> QED BY <1>2, <1>7, <2>1, Zenon
  <1> QED BY <1>6, <1>7, Zenon

-----------------------------------------------------------------------------
(***************************************************************************)
(* Objects and arrays.  O are the things that may be open outside of them, *)
(* and K the members that an object may have.                              *)
(***************************************************************************)
Opens(O) == \A o \in O : IsText(o)

Objects(O, K) == UNION {{Object(o, keys) : keys \in SUBSET K} : o \in O}
Arrays(O)     == {Array(o) : o \in O}

Wanting(O)     == {State(o, "value") : o \in O} \cup {State(o, "first value") : o \in O}
Done(O)        == {Complete(o) : o \in O}
NewObject(O)   == {State(Object(o, {}), "first key") : o \in O}
Naming(O, K)   == {State(b, "key") : b \in Objects(O, K)}
Named(O, K)    == {State(b, "member") : b \in Objects(O, K)}
InObject(O, K) == {State(b, "next") : b \in Objects(O, K)} \cup Named(O, K)
NewArray(O)    == {State(a, "first value") : a \in Arrays(O)}
InArray(O)     == {State(a, "next") : a \in Arrays(O)}

LEMMA ObjectsHave ==
    ASSUME NEW O, NEW K, NEW b \in Objects(O, K)
    PROVE  \E o \in O : \E keys \in SUBSET K : b = Object(o, keys)
  BY Zenon DEF Objects

LEMMA ObjectsTake ==
    ASSUME NEW O, NEW K, NEW o \in O, NEW keys \in SUBSET K
    PROVE  Object(o, keys) \in Objects(O, K)
  <1>1. Object(o, keys) \in {Object(o, ks) : ks \in SUBSET K}
    BY Zenon
  <1> QED BY <1>1, Zenon DEF Objects

LEMMA OpensWithin ==
    ASSUME NEW O, Opens(O), NEW K
    PROVE  Opens(Objects(O, K)) /\ Opens(Arrays(O))
  <1>1. ASSUME NEW b \in Objects(O, K)
        PROVE  IsText(b)
    <2>1. PICK o \in O, keys \in SUBSET K : b = Object(o, keys)
      BY ObjectsHave
    <2> QED BY <2>1, ObjectIs, Zenon DEF Opens
  <1>2. ASSUME NEW a \in Arrays(O)
        PROVE  IsText(a)
    BY ArrayIs, Zenon DEF Arrays, Opens
  <1> QED BY <1>1, <1>2, Zenon DEF Opens

LEMMA ObjectsWider ==
    ASSUME NEW O, NEW K, NEW L, K \subseteq L
    PROVE  Objects(O, K) \subseteq Objects(O, L) /\ InObject(O, K) \subseteq InObject(O, L)
  <1>1. ASSUME NEW b \in Objects(O, K)
        PROVE  b \in Objects(O, L)
    <2>1. PICK o \in O, keys \in SUBSET K : b = Object(o, keys)
      BY ObjectsHave
    <2>2. keys \in SUBSET L
      BY Zenon
    <2> QED BY <2>1, <2>2, ObjectsTake, Zenon
  <1> QED BY <1>1, Zenon DEF InObject, Named

\* Where a value has been complete within something, that goes on.
LEMMA DoneWithin ==
    ASSUME NEW O, Opens(O), NEW K
    PROVE  /\ Done(Objects(O, K)) \subseteq InObject(O, K)
           /\ Named(O, K) \subseteq InObject(O, K)
           /\ Done(Arrays(O)) \subseteq InArray(O)
           /\ NewArray(O) \subseteq Wanting(Arrays(O))
  <1>1. ASSUME NEW b \in Objects(O, K)
        PROVE  Complete(b) = State(b, "next")
    <2>1. PICK o \in O, keys \in SUBSET K : b = Object(o, keys)
      BY ObjectsHave
    <2> QED BY <2>1, ObjectIs, Zenon DEF Opens
  <1>2. ASSUME NEW a \in Arrays(O)
        PROVE  Complete(a) = State(a, "next")
    BY ArrayIs, Zenon DEF Arrays, Opens
  <1>3. Done(Objects(O, K)) \subseteq InObject(O, K)
    BY <1>1, Zenon DEF Done, InObject
  <1>4. Done(Arrays(O)) \subseteq InArray(O)
    BY <1>2, Zenon DEF Done, InArray
  <1> QED BY <1>3, <1>4, Zenon DEF InObject, NewArray, Wanting

\* The beginnings of values.
LEMMA LeadsValue ==
    ASSUME NEW O
    PROVE  /\ Leads(Wanting(O), <<"{">>, NewObject(O))
           /\ Leads(Wanting(O), <<"[">>, NewArray(O))
           /\ Leads(Wanting(O), <<"val">>, Done(O))
  <1>1. ASSUME NEW s \in Wanting(O)
        PROVE  \E o \in O : /\ AfterToken(s, "{") = State(Object(o, {}), "first key")
                            /\ AfterToken(s, "[") = State(Array(o), "first value")
                            /\ AfterToken(s, "val") = Complete(o)
    <2>1. CASE \E o \in O : s = State(o, "value")
      BY <2>1, ValueSteps, Zenon
    <2>2. CASE \E o \in O : s = State(o, "first value")
      BY <2>2, ValueSteps, Zenon
    <2> QED BY <2>1, <2>2, Zenon DEF Wanting
  <1>2. Leads(Wanting(O), <<"{">>, NewObject(O))
    <2>1. \A s \in Wanting(O) : AfterToken(s, "{") \in NewObject(O)
      BY <1>1, Zenon DEF NewObject
    <2> QED BY <2>1, LeadsOne, Zenon
  <1>3. Leads(Wanting(O), <<"[">>, NewArray(O))
    <2>1. \A s \in Wanting(O) : AfterToken(s, "[") \in NewArray(O)
      BY <1>1, Zenon DEF NewArray, Arrays
    <2> QED BY <2>1, LeadsOne, Zenon
  <1>4. Leads(Wanting(O), <<"val">>, Done(O))
    <2>1. \A s \in Wanting(O) : AfterToken(s, "val") \in Done(O)
      BY <1>1, Zenon DEF Done
    <2> QED BY <2>1, LeadsOne, Zenon
  <1> QED BY <1>2, <1>3, <1>4, Zenon

LEMMA LeadsFirstName ==
    ASSUME NEW O, Opens(O), NEW k, Plain(k)
    PROVE  Leads(NewObject(O), <<k>>, Named(O, {k}))
  <1>1. ASSUME NEW o \in O
        PROVE  AfterToken(State(Object(o, {}), "first key"), k) \in Named(O, {k})
    <2>1. IsText(o)
      BY Zenon DEF Opens
    <2>2. AfterToken(State(Object(o, {}), "first key"), k) = State(Object(o, {} \cup {k}), "member")
      BY <2>1, FirstKeyStep, Zenon
    <2>3. {} \cup {k} \in SUBSET {k}
      BY Zenon
    <2>4. Object(o, {} \cup {k}) \in Objects(O, {k})
      BY <2>3, ObjectsTake, Zenon
    <2> QED BY <2>2, <2>4, Zenon DEF Named
  <1>2. \A s \in NewObject(O) : AfterToken(s, k) \in Named(O, {k})
    BY <1>1, Zenon DEF NewObject
  <1> QED BY <1>2, LeadsOne, Zenon

LEMMA LeadsComma ==
    ASSUME NEW O, Opens(O), NEW K
    PROVE  Leads(InObject(O, K), <<",">>, Naming(O, K))
  <1>1. ASSUME NEW b \in Objects(O, K)
        PROVE  /\ AfterToken(State(b, "next"), ",") = State(b, "key")
               /\ AfterToken(State(b, "member"), ",") = State(b, "key")
    <2>1. PICK o \in O, keys \in SUBSET K : b = Object(o, keys)
      BY ObjectsHave
    <2>2. IsText(o)
      BY Zenon DEF Opens
    <2> QED BY <2>1, <2>2, ObjectComma, Zenon
  <1>2. \A s \in InObject(O, K) : AfterToken(s, ",") \in Naming(O, K)
    BY <1>1, Zenon DEF InObject, Named, Naming
  <1> QED BY <1>2, LeadsOne, Zenon

LEMMA LeadsName ==
    ASSUME NEW O, Opens(O), NEW K, NEW k, Plain(k), k \notin K
    PROVE  Leads(Naming(O, K), <<k>>, Named(O, K \cup {k}))
  <1>1. ASSUME NEW b \in Objects(O, K)
        PROVE  AfterToken(State(b, "key"), k) \in Named(O, K \cup {k})
    <2>1. PICK o \in O, keys \in SUBSET K : b = Object(o, keys)
      BY ObjectsHave
    <2>2. IsText(o) /\ k \notin keys
      BY Zenon DEF Opens
    <2>3. AfterToken(State(Object(o, keys), "key"), k) = State(Object(o, keys \cup {k}), "member")
      BY <2>2, NextKeyStep, Zenon
    <2>4. keys \cup {k} \in SUBSET (K \cup {k})
      BY Zenon
    <2>5. Object(o, keys \cup {k}) \in Objects(O, K \cup {k})
      BY <2>4, ObjectsTake, Zenon
    <2> QED BY <2>1, <2>3, <2>5, Zenon DEF Named
  <1>2. \A s \in Naming(O, K) : AfterToken(s, k) \in Named(O, K \cup {k})
    BY <1>1, Zenon DEF Naming
  <1> QED BY <1>2, LeadsOne, Zenon

LEMMA LeadsNextName ==
    ASSUME NEW O, Opens(O), NEW K, NEW k, Plain(k), k \notin K
    PROVE  Leads(InObject(O, K), <<",", k>>, Named(O, K \cup {k}))
  <1>1. Leads(InObject(O, K), <<",">>, Naming(O, K))
    BY LeadsComma, Zenon
  <1>2. Leads(Naming(O, K), <<k>>, Named(O, K \cup {k}))
    BY LeadsName, Zenon
  <1> QED BY <1>1, <1>2, LeadsTwo, Zenon

LEMMA LeadsColon ==
    ASSUME NEW O, NEW K
    PROVE  Leads(Named(O, K), <<":">>, Wanting(Objects(O, K)))
  <1>1. \A s \in Named(O, K) : AfterToken(s, ":") \in Wanting(Objects(O, K))
    BY ColonStep, Zenon DEF Named, Wanting
  <1> QED BY <1>1, LeadsOne, Zenon

LEMMA LeadsFirstMember ==
    ASSUME NEW O, Opens(O), NEW k, Plain(k)
    PROVE  Leads(NewObject(O), <<k, ":">>, Wanting(Objects(O, {k})))
  <1>1. Leads(NewObject(O), <<k>>, Named(O, {k}))
    BY LeadsFirstName, Zenon
  <1>2. Leads(Named(O, {k}), <<":">>, Wanting(Objects(O, {k})))
    BY LeadsColon, Zenon
  <1> QED BY <1>1, <1>2, LeadsTwo, Zenon

LEMMA LeadsNextMember ==
    ASSUME NEW O, Opens(O), NEW K, NEW k, Plain(k), k \notin K
    PROVE  Leads(InObject(O, K), <<",", k, ":">>, Wanting(Objects(O, K \cup {k})))
  <1>1. Leads(InObject(O, K), <<",", k>>, Named(O, K \cup {k}))
    BY LeadsNextName, Zenon
  <1>2. Leads(Named(O, K \cup {k}), <<":">>, Wanting(Objects(O, K \cup {k})))
    BY LeadsColon, Zenon
  <1> QED BY <1>1, <1>2, LeadsThree, Zenon

LEMMA LeadsObjectEnd ==
    ASSUME NEW O, Opens(O), NEW K
    PROVE  /\ Leads(InObject(O, K), <<"}">>, Done(O))
           /\ Leads(NewObject(O), <<"}">>, Done(O))
  <1>1. ASSUME NEW b \in Objects(O, K)
        PROVE  /\ AfterToken(State(b, "next"), "}") \in Done(O)
               /\ AfterToken(State(b, "member"), "}") \in Done(O)
    <2>1. PICK o \in O, keys \in SUBSET K : b = Object(o, keys)
      BY ObjectsHave
    <2>2. IsText(o)
      BY Zenon DEF Opens
    <2> QED BY <2>1, <2>2, ObjectEnd, Zenon DEF Done
  <1>2. \A s \in InObject(O, K) : AfterToken(s, "}") \in Done(O)
    BY <1>1, Zenon DEF InObject, Named
  <1>3. \A s \in NewObject(O) : AfterToken(s, "}") \in Done(O)
    BY ObjectEnd, Zenon DEF NewObject, Done, Opens
  <1> QED BY <1>2, <1>3, LeadsOne, Zenon

LEMMA LeadsArrayEnd ==
    ASSUME NEW O, Opens(O)
    PROVE  /\ Leads(NewArray(O) \cup InArray(O), <<"]">>, Done(O))
           /\ Leads(InArray(O), <<",">>, Wanting(Arrays(O)))
  <1>1. \A s \in NewArray(O) \cup InArray(O) : AfterToken(s, "]") \in Done(O)
    BY ArrayEnd, Zenon DEF NewArray, InArray, Arrays, Done, Opens
  <1>2. ASSUME NEW a \in Arrays(O)
        PROVE  AfterToken(State(a, "next"), ",") \in Wanting(Arrays(O))
    <2>1. PICK o \in O : a = Array(o)
      BY Zenon DEF Arrays
    <2>2. IsText(o)
      BY Zenon DEF Opens
    <2>3. AfterToken(State(Array(o), "next"), ",") = State(Array(o), "value")
      BY <2>2, ArrayComma, Zenon
    <2> QED BY <2>1, <2>3, Zenon DEF Wanting
  <1>3. \A s \in InArray(O) : AfterToken(s, ",") \in Wanting(Arrays(O))
    BY <1>2, Zenon DEF InArray
  <1> QED BY <1>1, <1>3, LeadsOne, Zenon

-----------------------------------------------------------------------------
(***************************************************************************)
(* Values, and texts that add members to an object.                        *)
(***************************************************************************)
IsValue(text) == \A O : Opens(O) => Leads(Wanting(O), text, Done(O))

Apart(K, L) == K \cap L = {}

\* Further members, of names K.
Adds(text, K) ==
    \A O, L : Opens(O) /\ Apart(L, K) => Leads(InObject(O, L), text, InObject(O, L \cup K))

\* The first members of an object.
Starts(text, K) == \A O : Opens(O) => Leads(NewObject(O), text, InObject(O, K))

LEMMA ValValue == IsValue(<<"val">>)
  BY LeadsValue, Zenon DEF IsValue

LEMMA NothingAdds ==
    ASSUME NEW K
    PROVE  Adds(<<>>, K)
  <1>1. ASSUME NEW O, NEW L
        PROVE  Leads(InObject(O, L), <<>>, InObject(O, L \cup K))
    <2>1. L \subseteq L \cup K
      BY Zenon
    <2>2. InObject(O, L) \subseteq InObject(O, L \cup K)
      BY <2>1, ObjectsWider, Zenon
    <2> QED BY <2>2, LeadsNone, Zenon
  <1> QED BY <1>1, Zenon DEF Adds

LEMMA AddsWider ==
    ASSUME NEW text, NEW K, Adds(text, K), NEW M, K \subseteq M
    PROVE  Adds(text, M)
  <1>1. ASSUME NEW O, NEW L, Opens(O), Apart(L, M)
        PROVE  Leads(InObject(O, L), text, InObject(O, L \cup M))
    <2>1. Apart(L, K)
      BY <1>1, Zenon DEF Apart
    <2>2. Leads(InObject(O, L), text, InObject(O, L \cup K))
      BY <1>1, <2>1, Zenon DEF Adds
    <2>3. L \cup K \subseteq L \cup M
      BY Zenon
    <2>4. InObject(O, L \cup K) \subseteq InObject(O, L \cup M)
      BY <2>3, ObjectsWider, Zenon
    <2> QED BY <2>2, <2>4, LeadsWider, Zenon
  <1> QED BY <1>1, Zenon DEF Adds

\* Members behind what leads into an object.
LEMMA LeadsAdds ==
    ASSUME NEW O, Opens(O), NEW S, NEW a, NEW K, Leads(S, a, InObject(O, K)),
           NEW b, NEW L, Adds(b, L), Apart(K, L)
    PROVE  Leads(S, a \o b, InObject(O, K \cup L))
  <1>1. Leads(InObject(O, K), b, InObject(O, K \cup L))
    BY Zenon DEF Adds
  <1> QED BY <1>1, LeadsJoin, Zenon

\* The same where the members start an object.
LEMMA StartsAdds ==
    ASSUME NEW a, NEW K, Starts(a, K), NEW b, NEW L, Adds(b, L), Apart(K, L)
    PROVE  Starts(a \o b, K \cup L)
  <1>1. ASSUME NEW O, Opens(O)
        PROVE  Leads(NewObject(O), a \o b, InObject(O, K \cup L))
    <2>1. Leads(NewObject(O), a, InObject(O, K))
      BY <1>1, Zenon DEF Starts
    <2> QED BY <1>1, <2>1, LeadsAdds, Zenon
  <1> QED BY <1>1, Zenon DEF Starts

LEMMA LeadsStarts ==
    ASSUME NEW O, Opens(O), NEW S, NEW a, Leads(S, a, NewObject(O)), NEW b, NEW K, Starts(b, K)
    PROVE  Leads(S, a \o b, InObject(O, K))
  <1>1. Leads(NewObject(O), b, InObject(O, K))
    BY Zenon DEF Starts
  <1> QED BY <1>1, LeadsJoin, Zenon

\* The end of an object in one.
LEMMA LeadsUp ==
    ASSUME NEW O, Opens(O), NEW K, NEW L
    PROVE  Leads(InObject(Objects(O, K), L), <<"}">>, InObject(O, K))
  <1>1. Opens(Objects(O, K))
    BY OpensWithin, Zenon
  <1>2. Leads(InObject(Objects(O, K), L), <<"}">>, Done(Objects(O, K)))
    BY <1>1, LeadsObjectEnd, Zenon
  <1>3. Done(Objects(O, K)) \subseteq InObject(O, K)
    BY DoneWithin, Zenon
  <1> QED BY <1>2, <1>3, LeadsWider, Zenon

\* The end of an array in an object.
LEMMA LeadsUpArray ==
    ASSUME NEW O, Opens(O), NEW K
    PROVE  Leads(NewArray(Objects(O, K)) \cup InArray(Objects(O, K)), <<"]">>, InObject(O, K))
  <1>1. Opens(Objects(O, K))
    BY OpensWithin, Zenon
  <1>2. Leads(NewArray(Objects(O, K)) \cup InArray(Objects(O, K)), <<"]">>, Done(Objects(O, K)))
    BY <1>1, LeadsArrayEnd, Zenon
  <1>3. Done(Objects(O, K)) \subseteq InObject(O, K)
    BY DoneWithin, Zenon
  <1> QED BY <1>2, <1>3, LeadsWider, Zenon

\* A member that is an object or an array.
LEMMA LeadsFirstInner ==
    ASSUME NEW O, Opens(O), NEW k, Plain(k)
    PROVE  /\ Leads(NewObject(O), <<k, ":", "{">>, NewObject(Objects(O, {k})))
           /\ Leads(NewObject(O), <<k, ":", "[">>, NewArray(Objects(O, {k})))
  <1>1. Leads(NewObject(O), <<k, ":">>, Wanting(Objects(O, {k})))
    BY LeadsFirstMember, Zenon
  <1>2. /\ Leads(Wanting(Objects(O, {k})), <<"{">>, NewObject(Objects(O, {k})))
        /\ Leads(Wanting(Objects(O, {k})), <<"[">>, NewArray(Objects(O, {k})))
    BY LeadsValue, Zenon
  <1>3. Leads(NewObject(O), <<k, ":", "{">>, NewObject(Objects(O, {k})))
    BY <1>1, <1>2, LeadsThree, Zenon
  <1>4. Leads(NewObject(O), <<k, ":", "[">>, NewArray(Objects(O, {k})))
    BY <1>1, <1>2, LeadsThree, Zenon
  <1> QED BY <1>3, <1>4, Zenon

LEMMA LeadsNextInner ==
    ASSUME NEW O, Opens(O), NEW K, NEW k, Plain(k), k \notin K
    PROVE  /\ Leads(InObject(O, K), <<",", k, ":", "{">>, NewObject(Objects(O, K \cup {k})))
           /\ Leads(InObject(O, K), <<",", k, ":", "[">>, NewArray(Objects(O, K \cup {k})))
  <1>1. Leads(InObject(O, K), <<",", k, ":">>, Wanting(Objects(O, K \cup {k})))
    BY LeadsNextMember, Zenon
  <1>2. /\ Leads(Wanting(Objects(O, K \cup {k})), <<"{">>, NewObject(Objects(O, K \cup {k})))
        /\ Leads(Wanting(Objects(O, K \cup {k})), <<"[">>, NewArray(Objects(O, K \cup {k})))
    BY LeadsValue, Zenon
  <1>3. Leads(InObject(O, K), <<",", k, ":", "{">>, NewObject(Objects(O, K \cup {k})))
    BY <1>1, <1>2, LeadsFour, Zenon
  <1>4. Leads(InObject(O, K), <<",", k, ":", "[">>, NewArray(Objects(O, K \cup {k})))
    BY <1>1, <1>2, LeadsFour, Zenon
  <1> QED BY <1>3, <1>4, Zenon

\* A whole object is a value, a whole array too.
LEMMA ObjectValue ==
    ASSUME NEW text, NEW K, Starts(text, K)
    PROVE  IsValue(<<"{">> \o text \o <<"}">>)
  <1>1. ASSUME NEW O, Opens(O)
        PROVE  Leads(Wanting(O), <<"{">> \o text \o <<"}">>, Done(O))
    <2>1. Leads(Wanting(O), <<"{">>, NewObject(O))
      BY LeadsValue, Zenon
    <2>2. Leads(Wanting(O), <<"{">> \o text, InObject(O, K))
      BY <1>1, <2>1, LeadsStarts, Zenon
    <2>3. Leads(InObject(O, K), <<"}">>, Done(O))
      BY <1>1, LeadsObjectEnd, Zenon
    <2> QED BY <2>2, <2>3, LeadsJoin, Zenon
  <1> QED BY <1>1, Zenon DEF IsValue

LEMMA ArrayValue ==
    ASSUME NEW text, \A O : Opens(O) => Leads(NewArray(O), text, NewArray(O) \cup InArray(O))
    PROVE  IsValue(<<"[">> \o text \o <<"]">>)
  <1>1. ASSUME NEW O, Opens(O)
        PROVE  Leads(Wanting(O), <<"[">> \o text \o <<"]">>, Done(O))
    <2>1. Leads(Wanting(O), <<"[">>, NewArray(O))
      BY LeadsValue, Zenon
    <2>2. Leads(NewArray(O), text, NewArray(O) \cup InArray(O))
      BY <1>1, Zenon
    <2>3. Leads(Wanting(O), <<"[">> \o text, NewArray(O) \cup InArray(O))
      BY <2>1, <2>2, LeadsJoin, Zenon
    <2>4. Leads(NewArray(O) \cup InArray(O), <<"]">>, Done(O))
      BY <1>1, LeadsArrayEnd, Zenon
    <2> QED BY <2>3, <2>4, LeadsJoin, Zenon
  <1> QED BY <1>1, Zenon DEF IsValue

\* A member that is a value.
LEMMA PairAdds ==
    ASSUME NEW k, Plain(k), NEW val, IsValue(val)
    PROVE  Adds(pair(k, val, FALSE), {k})
  <1>1. pair(k, val, FALSE) = <<",">> \o <<k, ":">> \o val
    BY Zenon DEF pair
  <1>2. ASSUME NEW O, NEW L, Opens(O), Apart(L, {k})
        PROVE  Leads(InObject(O, L), <<",">> \o <<k, ":">> \o val, InObject(O, L \cup {k}))
    <2>1. k \notin L
      BY <1>2, Zenon DEF Apart
    <2>2. Leads(InObject(O, L), <<",">>, Naming(O, L))
      BY <1>2, LeadsComma, Zenon
    <2>3. Leads(Naming(O, L), <<k, ":">>, Wanting(Objects(O, L \cup {k})))
      <3>1. Leads(Naming(O, L), <<k>>, Named(O, L \cup {k}))
        BY <1>2, <2>1, LeadsName, Zenon
      <3>2. Leads(Named(O, L \cup {k}), <<":">>, Wanting(Objects(O, L \cup {k})))
        BY LeadsColon, Zenon
      <3> QED BY <3>1, <3>2, LeadsTwo, Zenon
    <2>4. Leads(Wanting(Objects(O, L \cup {k})), val, Done(Objects(O, L \cup {k})))
      <3>1. Opens(Objects(O, L \cup {k}))
        BY <1>2, OpensWithin, Zenon
      <3> QED BY <3>1, Zenon DEF IsValue
    <2>5. Done(Objects(O, L \cup {k})) \subseteq InObject(O, L \cup {k})
      BY <1>2, DoneWithin, Zenon
    <2>6. Leads(Wanting(Objects(O, L \cup {k})), val, InObject(O, L \cup {k}))
      BY <2>4, <2>5, LeadsWider, Zenon
    <2>7. Leads(InObject(O, L), <<",">> \o <<k, ":">>, Wanting(Objects(O, L \cup {k})))
      BY <2>2, <2>3, LeadsJoin, Zenon
    <2> QED BY <2>6, <2>7, LeadsJoin, Zenon
  <1> QED BY <1>1, <1>2, Zenon DEF Adds

-----------------------------------------------------------------------------
(***************************************************************************)
(* Sequences of members, and of values.                                    *)
(***************************************************************************)
\* The first i of the names.
FirstNames(keys, i) == {keys[m] : m \in 1 .. i}

PlainNames(keys) ==
    /\ IsText(keys)
    /\ \A i \in 1 .. Len(keys) : Plain(keys[i]) /\ keys[i] \notin FirstNames(keys, i - 1)

LEMMA FirstNamesGrow ==
    ASSUME NEW keys, NEW i \in Nat \ {0}
    PROVE  FirstNames(keys, i) = FirstNames(keys, i - 1) \cup {keys[i]}
  BY DEF FirstNames

LEMMA FirstNamesNone ==
    ASSUME NEW keys
    PROVE  FirstNames(keys, 0) = {}
  BY DEF FirstNames

\* Sequences of texts.
LEMMA TextsAre ==
    ASSUME NEW N \in Nat, NEW s, s = [i \in 1 .. N |-> s[i]]
    PROVE  IsText(s) /\ Len(s) = N
  <1> DEFINE S == {s[i] : i \in 1 .. N}
  <1>1. \A i \in 1 .. N : s[i] \in S
    OBVIOUS
  <1> HIDE DEF S
  <1>2. s \in Seq(S) /\ Len(s) = N
    BY <1>1, FunctionIsSeq
  <1> QED BY <1>2, Zenon DEF IsText

\* The names with a comma before each, and before the first as first says.
Item(keys, first, i) == IF first /\ i = 1 THEN <<keys[i]>> ELSE <<",", keys[i]>>

LEMMA PlainPairsAre ==
    ASSUME NEW keys, IsText(keys), NEW first
    PROVE  \E s : /\ IsText(s) /\ Len(s) = Len(keys)
                  /\ plainPairs(keys, first) = FlattenSeq(s)
                  /\ \A i \in 1 .. Len(keys) : s[i] = Item(keys, first, i)
  <1> DEFINE N == Len(keys)
             s == [i \in 1 .. N |-> Item(keys, first, i)]
  <1>1. N \in Nat
    BY TextIs, Zenon
  <1>2. plainPairs(keys, first) = FlattenSeq(s)
    BY Zenon DEF plainPairs, Item
  <1>3. \A i \in 1 .. N : s[i] = Item(keys, first, i)
    BY Zenon
  <1>4. s = [i \in 1 .. N |-> s[i]]
    BY Zenon
  <1> HIDE DEF s, N
  <1>5. IsText(s) /\ Len(s) = N
    BY <1>1, <1>4, TextsAre, Zenon
  <1> QED BY <1>2, <1>3, <1>5, Zenon DEF N

LEMMA PlainPairsAdd ==
    ASSUME NEW keys, PlainNames(keys)
    PROVE  Adds(plainPairs(keys, FALSE), FirstNames(keys, Len(keys)))
  <1>0. IsText(keys) /\ Len(keys) \in Nat
    BY TextIs, Zenon DEF PlainNames
  <1>1. PICK s : /\ IsText(s) /\ Len(s) = Len(keys)
                 /\ plainPairs(keys, FALSE) = FlattenSeq(s)
                 /\ \A i \in 1 .. Len(keys) : s[i] = Item(keys, FALSE, i)
    BY <1>0, PlainPairsAre, Zenon
  <1>2. ASSUME NEW O, NEW L, Opens(O), Apart(L, FirstNames(keys, Len(keys)))
        PROVE  Leads(InObject(O, L), FlattenSeq(s), InObject(O, L \cup FirstNames(keys, Len(keys))))
    <2> DEFINE G(i) == InObject(O, L \cup FirstNames(keys, i))
               Q == [i \in 0 .. Len(s) |-> G(i)]
    <2>1. ASSUME NEW i \in 1 .. Len(keys)
          PROVE  Leads(G(i - 1), s[i], G(i))
      <3>1. Plain(keys[i]) /\ keys[i] \notin FirstNames(keys, i - 1)
        BY Zenon DEF PlainNames
      <3>2. keys[i] \notin L
        <4>1. keys[i] \in FirstNames(keys, Len(keys))
          BY Zenon DEF FirstNames
        <4> QED BY <1>2, <4>1, Zenon DEF Apart
      <3>3. s[i] = <<",", keys[i]>>
        BY <1>1, Zenon DEF Item
      <3>4. Leads(G(i - 1), <<",", keys[i]>>, Named(O, (L \cup FirstNames(keys, i - 1)) \cup {keys[i]}))
        <4>1. keys[i] \notin L \cup FirstNames(keys, i - 1)
          BY <3>1, <3>2, Zenon
        <4> QED BY <1>2, <3>1, <4>1, LeadsNextName, Zenon
      <3>5. (L \cup FirstNames(keys, i - 1)) \cup {keys[i]} = L \cup FirstNames(keys, i)
        <4>1. i \in Nat \ {0}
          OBVIOUS
        <4>2. FirstNames(keys, i) = FirstNames(keys, i - 1) \cup {keys[i]}
          BY <4>1, FirstNamesGrow, Zenon
        <4> QED BY <4>2, Zenon
      <3>6. Named(O, L \cup FirstNames(keys, i)) \subseteq G(i)
        BY <1>2, DoneWithin, Zenon
      <3>7. Leads(G(i - 1), <<",", keys[i]>>, Named(O, L \cup FirstNames(keys, i)))
        BY <3>4, <3>5, Zenon
      <3>8. Leads(G(i - 1), <<",", keys[i]>>, G(i))
        BY <3>6, <3>7, LeadsWider, Zenon
      <3> QED BY <3>3, <3>8, Zenon
    <2>2. G(0) = InObject(O, L)
      <3>1. L \cup FirstNames(keys, 0) = L
        BY FirstNamesNone, Zenon
      <3> QED BY <3>1, Zenon
    <2> HIDE DEF G
    <2>3. \A i \in 1 .. Len(s) : Q[i - 1] = G(i - 1) /\ Q[i] = G(i)
      BY <1>0, <1>1
    <2>4. Q[0] = G(0) /\ Q[Len(s)] = G(Len(s))
      BY <1>0, <1>1
    <2> HIDE DEF Q
    <2>5. \A i \in 1 .. Len(s) : Leads(Q[i - 1], s[i], Q[i])
      BY <1>1, <2>1, <2>3, Zenon
    <2>6. Leads(Q[0], FlattenSeq(s), Q[Len(s)])
      BY <1>1, <2>5, LeadsFlat, Zenon
    <2> QED BY <1>1, <2>2, <2>4, <2>6, Zenon DEF G
  <1> QED BY <1>1, <1>2, Zenon DEF Adds

LEMMA PlainPairsStart ==
    ASSUME NEW keys, PlainNames(keys), Len(keys) # 0
    PROVE  Starts(plainPairs(keys, TRUE), FirstNames(keys, Len(keys)))
  <1>0. IsText(keys) /\ Len(keys) \in Nat
    BY TextIs, Zenon DEF PlainNames
  <1>1. PICK s : /\ IsText(s) /\ Len(s) = Len(keys)
                 /\ plainPairs(keys, TRUE) = FlattenSeq(s)
                 /\ \A i \in 1 .. Len(keys) : s[i] = Item(keys, TRUE, i)
    BY <1>0, PlainPairsAre, Zenon
  <1>2. ASSUME NEW O, Opens(O)
        PROVE  Leads(NewObject(O), FlattenSeq(s), InObject(O, FirstNames(keys, Len(keys))))
    <2> DEFINE G(i) == IF i = 0 THEN NewObject(O) ELSE InObject(O, FirstNames(keys, i))
               Q == [i \in 0 .. Len(s) |-> G(i)]
    <2>1. ASSUME NEW i \in 1 .. Len(keys)
          PROVE  Leads(G(i - 1), s[i], G(i))
      <3>1. Plain(keys[i]) /\ keys[i] \notin FirstNames(keys, i - 1)
        BY Zenon DEF PlainNames
      <3>2. i \in Nat \ {0} /\ i # 0
        OBVIOUS
      <3>3. FirstNames(keys, i) = FirstNames(keys, i - 1) \cup {keys[i]}
        BY <3>2, FirstNamesGrow, Zenon
      <3>4. G(i) = InObject(O, FirstNames(keys, i))
        BY <3>2, Zenon
      <3>5. Named(O, FirstNames(keys, i)) \subseteq G(i)
        BY <1>2, <3>4, DoneWithin, Zenon
      <3>6. CASE i = 1
        <4>1. i - 1 = 0
          BY <3>6
        <4>2. FirstNames(keys, i - 1) = {}
          BY <4>1, FirstNamesNone, Zenon
        <4>3. FirstNames(keys, i) = {keys[i]}
          BY <3>3, <4>2, Zenon
        <4>4. s[i] = <<keys[i]>> /\ G(i - 1) = NewObject(O)
          BY <1>1, <3>6, <4>1, Zenon DEF Item
        <4>5. Leads(NewObject(O), <<keys[i]>>, Named(O, {keys[i]}))
          BY <1>2, <3>1, LeadsFirstName, Zenon
        <4>6. Leads(NewObject(O), <<keys[i]>>, Named(O, FirstNames(keys, i)))
          BY <4>3, <4>5, Zenon
        <4>7. Leads(NewObject(O), <<keys[i]>>, G(i))
          BY <3>5, <4>6, LeadsWider, Zenon
        <4> QED BY <4>4, <4>7, Zenon
      <3>7. CASE i # 1
        <4>1. i - 1 # 0
          BY <3>7
        <4>2. s[i] = <<",", keys[i]>> /\ G(i - 1) = InObject(O, FirstNames(keys, i - 1))
          BY <1>1, <3>7, <4>1, Zenon DEF Item
        <4>3. Leads(InObject(O, FirstNames(keys, i - 1)), <<",", keys[i]>>,
                    Named(O, FirstNames(keys, i - 1) \cup {keys[i]}))
          BY <1>2, <3>1, LeadsNextName, Zenon
        <4>4. Leads(InObject(O, FirstNames(keys, i - 1)), <<",", keys[i]>>, Named(O, FirstNames(keys, i)))
          BY <3>3, <4>3, Zenon
        <4>5. Leads(InObject(O, FirstNames(keys, i - 1)), <<",", keys[i]>>, G(i))
          BY <3>5, <4>4, LeadsWider, Zenon
        <4> QED BY <4>2, <4>5, Zenon
      <3> QED BY <3>6, <3>7, Zenon
    <2>2. G(0) = NewObject(O) /\ G(Len(keys)) = InObject(O, FirstNames(keys, Len(keys)))
      BY Zenon
    <2> HIDE DEF G
    <2>3. \A i \in 1 .. Len(s) : Q[i - 1] = G(i - 1) /\ Q[i] = G(i)
      BY <1>0, <1>1
    <2>4. Q[0] = G(0) /\ Q[Len(s)] = G(Len(s))
      BY <1>0, <1>1
    <2> HIDE DEF Q
    <2>5. \A i \in 1 .. Len(s) : Leads(Q[i - 1], s[i], Q[i])
      BY <1>1, <2>1, <2>3, Zenon
    <2>6. Leads(Q[0], FlattenSeq(s), Q[Len(s)])
      BY <1>1, <2>5, LeadsFlat, Zenon
    <2> QED BY <1>1, <2>2, <2>4, <2>6, Zenon
  <1> QED BY <1>1, <1>2, Zenon DEF Starts

\* The names of keys are different ones, all in U.
Distinct(keys, U) ==
    /\ keys \in Seq(U) /\ Len(keys) # 0
    /\ \A i, m \in 1 .. Len(keys) : keys[i] = keys[m] => i = m

PlainAll(U) == \A k \in U : Plain(k)

LEMMA DistinctNames ==
    ASSUME NEW keys, NEW U, Distinct(keys, U), PlainAll(U)
    PROVE  PlainNames(keys) /\ FirstNames(keys, Len(keys)) \subseteq U /\ Len(keys) # 0
  <1>0. keys \in Seq(U) /\ Len(keys) \in Nat /\ IsText(keys) /\ Len(keys) # 0
    BY DEF Distinct, IsText
  <1>1. ASSUME NEW i \in 1 .. Len(keys)
        PROVE  Plain(keys[i]) /\ keys[i] \in U
    <2>1. keys[i] \in U
      BY <1>0
    <2> QED BY <2>1, Zenon DEF PlainAll
  <1>2. ASSUME NEW i \in 1 .. Len(keys)
        PROVE  keys[i] \notin FirstNames(keys, i - 1)
    <2>1. ASSUME NEW m \in 1 .. i - 1
          PROVE  keys[m] # keys[i]
      <3>1. m \in 1 .. Len(keys) /\ m # i
        BY <1>0
      <3> QED BY <3>1 DEF Distinct
    <2> QED BY <2>1, Zenon DEF FirstNames
  <1>3. PlainNames(keys)
    BY <1>0, <1>1, <1>2, Zenon DEF PlainNames
  <1>4. FirstNames(keys, Len(keys)) \subseteq U
    BY <1>1, Zenon DEF FirstNames
  <1> QED BY <1>0, <1>3, <1>4, Zenon

LEMMA ListAdds ==
    ASSUME NEW keys, NEW U, Distinct(keys, U), PlainAll(U)
    PROVE  Adds(plainPairs(keys, FALSE), U)
  <1>1. PlainNames(keys) /\ FirstNames(keys, Len(keys)) \subseteq U
    BY DistinctNames, Zenon
  <1>2. Adds(plainPairs(keys, FALSE), FirstNames(keys, Len(keys)))
    BY <1>1, PlainPairsAdd, Zenon
  <1> QED BY <1>1, <1>2, AddsWider, Zenon

LEMMA ListStarts ==
    ASSUME NEW keys, NEW U, Distinct(keys, U), PlainAll(U)
    PROVE  Starts(plainPairs(keys, TRUE), U)
  <1>1. PlainNames(keys) /\ FirstNames(keys, Len(keys)) \subseteq U /\ Len(keys) # 0
    BY DistinctNames, Zenon
  <1>2. Starts(plainPairs(keys, TRUE), FirstNames(keys, Len(keys)))
    BY <1>1, PlainPairsStart, Zenon
  <1>3. ASSUME NEW O, Opens(O)
        PROVE  Leads(NewObject(O), plainPairs(keys, TRUE), InObject(O, U))
    <2>1. Leads(NewObject(O), plainPairs(keys, TRUE), InObject(O, FirstNames(keys, Len(keys))))
      BY <1>2, <1>3, Zenon DEF Starts
    <2>2. InObject(O, FirstNames(keys, Len(keys))) \subseteq InObject(O, U)
      BY <1>1, ObjectsWider, Zenon
    <2> QED BY <2>1, <2>2, LeadsWider, Zenon
  <1> QED BY <1>3, Zenon DEF Starts

\* No names at all.
LEMMA NoNamesAdd ==
    ASSUME NEW K
    PROVE  Adds(plainPairs(<<>>, FALSE), K)
  <1>1. PlainNames(<<>>) /\ Len(<<>>) = 0
    <2>1. IsText(<<>>)
      BY TextOne, Zenon
    <2>2. Len(<<>>) = 0 /\ 1 .. Len(<<>>) = {}
      OBVIOUS
    <2> QED BY <2>1, <2>2, Zenon DEF PlainNames
  <1>2. FirstNames(<<>>, Len(<<>>)) \subseteq K
    <2>1. FirstNames(<<>>, 0) = {}
      BY FirstNamesNone, Zenon
    <2> QED BY <1>1, <2>1, Zenon
  <1>3. Adds(plainPairs(<<>>, FALSE), FirstNames(<<>>, Len(<<>>)))
    BY <1>1, PlainPairsAdd, Zenon
  <1> QED BY <1>2, <1>3, AddsWider, Zenon

\* The values, with a comma before each but the first.
Element(texts, i) == (IF i = 1 THEN <<>> ELSE <<",">>) \o texts[i]

LEMMA SequenceIs ==
    ASSUME NEW texts, IsText(texts)
    PROVE  \E s : /\ IsText(s) /\ Len(s) = Len(texts)
                  /\ writeSequence(texts) = FlattenSeq(s)
                  /\ \A i \in 1 .. Len(texts) : s[i] = Element(texts, i)
  <1> DEFINE N == Len(texts)
             s == [i \in 1 .. N |-> Element(texts, i)]
  <1>1. N \in Nat
    BY TextIs, Zenon
  <1>2. writeSequence(texts) = FlattenSeq(s)
    BY Zenon DEF writeSequence, Element
  <1>3. \A i \in 1 .. N : s[i] = Element(texts, i)
    BY Zenon
  <1>4. s = [i \in 1 .. N |-> s[i]]
    BY Zenon
  <1> HIDE DEF s, N
  <1>5. IsText(s) /\ Len(s) = N
    BY <1>1, <1>4, TextsAre, Zenon
  <1> QED BY <1>2, <1>3, <1>5, Zenon DEF N

\* The rest of an array.
LEMMA SequenceLeads ==
    ASSUME NEW texts, IsText(texts), \A i \in 1 .. Len(texts) : IsValue(texts[i]),
           NEW O, Opens(O)
    PROVE  Leads(NewArray(O), writeSequence(texts), NewArray(O) \cup InArray(O))
  <1>0. Len(texts) \in Nat
    BY TextIs, Zenon
  <1>1. PICK s : /\ IsText(s) /\ Len(s) = Len(texts)
                 /\ writeSequence(texts) = FlattenSeq(s)
                 /\ \A i \in 1 .. Len(texts) : s[i] = Element(texts, i)
    BY SequenceIs, Zenon
  <1> DEFINE G(i) == IF i = 0 THEN NewArray(O) ELSE InArray(O)
             Q == [i \in 0 .. Len(s) |-> G(i)]
  <1>2. /\ Done(Arrays(O)) \subseteq InArray(O)
        /\ NewArray(O) \subseteq Wanting(Arrays(O))
        /\ Opens(Arrays(O))
    BY DoneWithin, OpensWithin, Zenon
  <1>3. ASSUME NEW i \in 1 .. Len(texts)
        PROVE  Leads(G(i - 1), s[i], G(i))
    <2>1. i # 0
      OBVIOUS
    <2>2. Leads(Wanting(Arrays(O)), texts[i], InArray(O))
      <3>1. IsValue(texts[i])
        BY Zenon
      <3>2. Leads(Wanting(Arrays(O)), texts[i], Done(Arrays(O)))
        BY <1>2, <3>1, Zenon DEF IsValue
      <3> QED BY <1>2, <3>2, LeadsWider, Zenon
    <2>3. CASE i = 1
      <3>1. i - 1 = 0
        BY <2>3
      <3>2. s[i] = <<>> \o texts[i] /\ G(i - 1) = NewArray(O) /\ G(i) = InArray(O)
        BY <1>1, <2>1, <2>3, <3>1, Zenon DEF Element
      <3>3. Leads(NewArray(O), <<>>, Wanting(Arrays(O)))
        BY <1>2, LeadsNone, Zenon
      <3>4. Leads(NewArray(O), <<>> \o texts[i], InArray(O))
        BY <2>2, <3>3, LeadsJoin, Zenon
      <3> QED BY <3>2, <3>4, Zenon
    <2>4. CASE i # 1
      <3>1. i - 1 # 0
        BY <2>4
      <3>2. s[i] = <<",">> \o texts[i] /\ G(i - 1) = InArray(O) /\ G(i) = InArray(O)
        BY <1>1, <2>1, <2>4, <3>1, Zenon DEF Element
      <3>3. Leads(InArray(O), <<",">>, Wanting(Arrays(O)))
        BY LeadsArrayEnd, Zenon
      <3>4. Leads(InArray(O), <<",">> \o texts[i], InArray(O))
        BY <2>2, <3>3, LeadsJoin, Zenon
      <3> QED BY <3>2, <3>4, Zenon
    <2> QED BY <2>3, <2>4, Zenon
  <1>4. G(0) = NewArray(O) /\ G(Len(texts)) \subseteq NewArray(O) \cup InArray(O)
    BY Zenon
  <1> HIDE DEF G
  <1>5. \A i \in 1 .. Len(s) : Q[i - 1] = G(i - 1) /\ Q[i] = G(i)
    BY <1>0, <1>1
  <1>6. Q[0] = G(0) /\ Q[Len(s)] = G(Len(s))
    BY <1>0, <1>1
  <1> HIDE DEF Q
  <1>7. \A i \in 1 .. Len(s) : Leads(Q[i - 1], s[i], Q[i])
    BY <1>1, <1>3, <1>5, Zenon
  <1>8. Leads(Q[0], FlattenSeq(s), Q[Len(s)])
    BY <1>1, <1>7, LeadsFlat, Zenon
  <1>9. Leads(NewArray(O), FlattenSeq(s), G(Len(texts)))
    BY <1>1, <1>4, <1>6, <1>8, Zenon
  <1> QED BY <1>1, <1>4, <1>9, LeadsWider, Zenon

\* An array of values.
LEMMA SequenceValue ==
    ASSUME NEW texts, IsText(texts), \A i \in 1 .. Len(texts) : IsValue(texts[i])
    PROVE  IsValue(<<"[">> \o writeSequence(texts) \o <<"]">>)
  <1>1. ASSUME NEW O, Opens(O)
        PROVE  Leads(NewArray(O), writeSequence(texts), NewArray(O) \cup InArray(O))
    BY <1>1, SequenceLeads, Zenon
  <1> QED BY <1>1, ArrayValue, Zenon

\* Functions on the first numbers that yield values.
LEMMA FunctionLeads ==
    ASSUME NEW N \in Nat, NEW f, f = [i \in 1 .. N |-> f[i]], \A i \in 1 .. N : IsValue(f[i]),
           NEW O, Opens(O)
    PROVE  Leads(NewArray(O), writeSequence(f), NewArray(O) \cup InArray(O))
  <1>1. IsText(f) /\ Len(f) = N
    BY TextsAre, Zenon
  <1>2. \A i \in 1 .. Len(f) : IsValue(f[i])
    BY <1>1, Zenon
  <1> QED BY <1>1, <1>2, SequenceLeads, Zenon

LEMMA FunctionValue ==
    ASSUME NEW N \in Nat, NEW f, f = [i \in 1 .. N |-> f[i]], \A i \in 1 .. N : IsValue(f[i])
    PROVE  IsValue(<<"[">> \o writeSequence(f) \o <<"]">>)
  <1>1. IsText(f) /\ Len(f) = N
    BY TextsAre, Zenon
  <1>2. \A i \in 1 .. Len(f) : IsValue(f[i])
    BY <1>1, Zenon
  <1> QED BY <1>1, <1>2, SequenceValue, Zenon

\* The same value n times.
LEMMA SameValue ==
    ASSUME NEW n \in Nat, NEW x, IsValue(x)
    PROVE  /\ IsValue(<<"[">> \o writeSequence([i \in 1 .. n |-> x]) \o <<"]">>)
           /\ \A O : Opens(O) => Leads(NewArray(O), writeSequence([i \in 1 .. n |-> x]),
                                       NewArray(O) \cup InArray(O))
  <1>1. PICK f : f = [i \in 1 .. n |-> x]
    OBVIOUS
  <1>2. f = [i \in 1 .. n |-> f[i]] /\ \A i \in 1 .. n : f[i] = x
    BY <1>1
  <1>3. \A i \in 1 .. n : IsValue(f[i])
    BY <1>2, Zenon
  <1>4. IsValue(<<"[">> \o writeSequence(f) \o <<"]">>)
    BY <1>2, <1>3, FunctionValue, Zenon
  <1>5. \A O : Opens(O) => Leads(NewArray(O), writeSequence(f), NewArray(O) \cup InArray(O))
    BY <1>2, <1>3, FunctionLeads, Zenon
  <1> QED BY <1>1, <1>4, <1>5, Zenon

\* A text that is a value on its own is JSON.
LEMMA ValueIsJson ==
    ASSUME NEW text, Leads({Begin}, text, Done({<<>>}))
    PROVE  IsJson(text)
  <1>1. PICK t \in Done({<<>>}) : Reads(Begin, text, t)
    BY Zenon DEF Leads
  <1>2. Read(Begin, text) = t
    BY <1>1, ReadsIs, Zenon DEF Leads
  <1>3. t = Complete(<<>>)
    BY Zenon DEF Done
  <1>4. Complete(<<>>) = State(<<>>, "end")
    BY Zenon DEF Complete, State
  <1>5. t.want = "end"
    BY <1>3, <1>4, StateIs, Zenon
  <1> QED BY <1>2, <1>5, Zenon DEF IsJson

LEMMA BeginWants ==
    /\ Opens({<<>>})
    /\ {Begin} \subseteq Wanting({<<>>})
  <1>1. Opens({<<>>})
    BY TextOne, Zenon DEF Opens
  <1>2. Begin = State(<<>>, "value")
    BY Zenon DEF Begin, State
  <1> QED BY <1>1, <1>2, Zenon DEF Wanting

\* Outside of a document nothing is open.
Doc == {<<>>}

LEMMA DocStart == Leads({Begin}, <<"{">>, NewObject(Doc))
  <1>1. Leads(Wanting(Doc), <<"{">>, NewObject(Doc))
    BY LeadsValue, Zenon
  <1>2. {Begin} \subseteq Wanting(Doc)
    BY BeginWants, Zenon DEF Doc
  <1> QED BY <1>1, <1>2, LeadsWider, Zenon

\* What j makes of a string that needs no escape.
LEMMA StringValue ==
    ASSUME NEW x, x = "plain"
    PROVE  IsValue(j(x))
  <1>1. j(x) = <<"val">>
    BY Zenon DEF j
  <1> QED BY <1>1, ValValue, Zenon

-----------------------------------------------------------------------------
(***************************************************************************)
(* How often a token is in a text.                                         *)
(***************************************************************************)
\* How often t is among the first n of s.
Occurs(s, t, n) == Cardinality({i \in 1 .. n : s[i] = t})

LEMMA OccursFinite ==
    ASSUME NEW s, NEW t, NEW n \in Nat
    PROVE  IsFiniteSet({i \in 1 .. n : s[i] = t}) /\ Occurs(s, t, n) \in Nat
  <1>1. IsFiniteSet(1 .. n)
    BY FS_Interval
  <1>2. {i \in 1 .. n : s[i] = t} \in SUBSET (1 .. n)
    BY Zenon
  <1>3. IsFiniteSet({i \in 1 .. n : s[i] = t})
    BY <1>1, <1>2, FS_Subset, Zenon
  <1> QED BY <1>3, FS_CardinalityType, Zenon DEF Occurs

LEMMA OccursNone ==
    ASSUME NEW s, NEW t
    PROVE  Occurs(s, t, 0) = 0
  <1>1. {i \in 1 .. 0 : s[i] = t} = {}
    OBVIOUS
  <1> QED BY <1>1, FS_EmptySet, Zenon DEF Occurs

LEMMA OccursNext ==
    ASSUME NEW s, NEW t, NEW n \in Nat
    PROVE  Occurs(s, t, n + 1) = IF s[n + 1] = t THEN Occurs(s, t, n) + 1 ELSE Occurs(s, t, n)
  <1> DEFINE A(m) == {i \in 1 .. m : s[i] = t}
  <1>1. IsFiniteSet(A(n))
    BY OccursFinite, Zenon
  <1>2. n + 1 \notin A(n)
    OBVIOUS
  <1>3. CASE s[n + 1] = t
    <2>1. A(n + 1) = A(n) \cup {n + 1}
      BY <1>3
    <2> HIDE DEF A
    <2>2. Cardinality(A(n) \cup {n + 1}) = Cardinality(A(n)) + 1
      BY <1>1, <1>2, FS_AddElement, Zenon
    <2>3. Cardinality(A(n + 1)) = Cardinality(A(n)) + 1
      BY <2>1, <2>2, Zenon
    <2> QED BY <1>3, <2>3, Zenon DEF Occurs, A
  <1>4. CASE s[n + 1] # t
    <2>1. A(n + 1) = A(n)
      BY <1>4
    <2> HIDE DEF A
    <2>2. Cardinality(A(n + 1)) = Cardinality(A(n))
      BY <2>1, Zenon
    <2> QED BY <1>4, <2>2, Zenon DEF Occurs, A
  <1> QED BY <1>3, <1>4, Zenon

Has(text, t, k) == IsText(text) /\ Occurs(text, t, Len(text)) = k

LEMMA HasNat ==
    ASSUME NEW text, NEW t, NEW k, Has(text, t, k)
    PROVE  k \in Nat
  BY TextIs, OccursFinite, Zenon DEF Has

LEMMA HasNone ==
    ASSUME NEW t
    PROVE  Has(<<>>, t, 0)
  <1>1. Len(<<>>) = 0
    OBVIOUS
  <1> QED BY <1>1, TextOne, OccursNone, Zenon DEF Has

LEMMA HasOne ==
    ASSUME NEW x, NEW t
    PROVE  Has(<<x>>, t, IF x = t THEN 1 ELSE 0)
  <1>1. PICK s : s = <<x>>
    OBVIOUS
  <1>2. IsText(s)
    BY <1>1, TextOne, Zenon
  <1>3. Len(s) = 1 /\ s[0 + 1] = x
    BY <1>1
  <1>4. Occurs(s, t, 0 + 1) = IF x = t THEN Occurs(s, t, 0) + 1 ELSE Occurs(s, t, 0)
    <2>1. 0 \in Nat
      OBVIOUS
    <2> QED BY <1>3, <2>1, OccursNext, Zenon
  <1>5. Occurs(s, t, 0) = 0
    BY OccursNone, Zenon
  <1>6. Occurs(s, t, Len(s)) = IF x = t THEN 1 ELSE 0
    BY <1>3, <1>4, <1>5
  <1> QED BY <1>1, <1>2, <1>6, Zenon DEF Has

LEMMA HasJoin ==
    ASSUME NEW a, NEW b, NEW t, NEW k, NEW l, Has(a, t, k), Has(b, t, l)
    PROVE  Has(a \o b, t, k + l)
  <1> DEFINE A == Len(a)
             B == Len(b)
             text == a \o b
  <1>1. IsText(a) /\ IsText(b)
    BY Zenon DEF Has
  <1>2. /\ IsText(text) /\ A \in Nat /\ B \in Nat /\ Len(text) = A + B
        /\ \A n \in 1 .. A : text[n] = a[n]
        /\ \A n \in A + 1 .. A + B : text[n] = b[n - A]
    BY <1>1, TextJoin
  <1>3. Occurs(a, t, A) = k /\ Occurs(b, t, B) = l
    BY Zenon DEF Has
  <1> HIDE DEF A, B, text
  <1>4. Occurs(text, t, A) = k
    <2>1. {i \in 1 .. A : text[i] = t} = {i \in 1 .. A : a[i] = t}
      BY <1>2
    <2> QED BY <1>3, <2>1, Zenon DEF Occurs
  <1> DEFINE S == {n \in Nat : n <= B => Occurs(text, t, A + n) = k + Occurs(b, t, n)}
  <1>5. 0 \in S
    <2>1. Occurs(b, t, 0) = 0 /\ k \in Nat
      BY OccursNone, HasNat, Zenon
    <2>2. A + 0 = A
      BY <1>2
    <2> QED BY <1>4, <2>1, <2>2
  <1>6. ASSUME NEW n \in Nat, n \in S
        PROVE  n + 1 \in S
    <2>1. CASE n + 1 <= B
      <3>1. /\ n <= B /\ A + n \in Nat /\ (A + n) + 1 = A + (n + 1)
            /\ A + (n + 1) \in A + 1 .. A + B /\ (A + (n + 1)) - A = n + 1
        BY <1>2, <2>1
      <3>2. text[A + (n + 1)] = b[n + 1]
        BY <1>2, <3>1
      <3>3. Occurs(text, t, A + n) = k + Occurs(b, t, n)
        BY <1>6, <3>1
      <3>4. Occurs(text, t, A + (n + 1)) = IF b[n + 1] = t THEN Occurs(text, t, A + n) + 1
                                                          ELSE Occurs(text, t, A + n)
        <4>1. Occurs(text, t, (A + n) + 1) = IF text[(A + n) + 1] = t THEN Occurs(text, t, A + n) + 1
                                                                      ELSE Occurs(text, t, A + n)
          <5>1. PICK m : m = A + n
            BY Zenon
          <5>2. m \in Nat
            BY <3>1, <5>1, Zenon
          <5>3. Occurs(text, t, m + 1) = IF text[m + 1] = t THEN Occurs(text, t, m) + 1 ELSE Occurs(text, t, m)
            BY <5>2, OccursNext, Zenon
          <5> QED BY <5>1, <5>3, Zenon
        <4> QED BY <3>1, <3>2, <4>1, Zenon
      <3>5. Occurs(b, t, n + 1) = IF b[n + 1] = t THEN Occurs(b, t, n) + 1 ELSE Occurs(b, t, n)
        BY OccursNext, Zenon
      <3>6. Occurs(b, t, n) \in Nat /\ k \in Nat
        BY OccursFinite, HasNat, Zenon
      <3>7. Occurs(text, t, A + (n + 1)) = k + Occurs(b, t, n + 1)
        BY <3>3, <3>4, <3>5, <3>6
      <3> QED BY <3>7
    <2> QED BY <2>1
  <1> HIDE DEF S
  <1>7. Nat \subseteq S
    BY <1>5, <1>6, SetInduction
  <1>8. Occurs(text, t, A + B) = k + Occurs(b, t, B)
    BY <1>2, <1>7 DEF S
  <1>9. Occurs(text, t, Len(text)) = k + l
    BY <1>2, <1>3, <1>8
  <1> QED BY <1>2, <1>9, Zenon DEF Has, text

\* Texts, one after the other: Q counts up to each of them.
LEMMA HasFlat ==
    ASSUME NEW s, IsText(s), NEW t, NEW Q, Q[0] = 0,
           \A i \in 1 .. Len(s) : \E k : Has(s[i], t, k) /\ Q[i] = Q[i - 1] + k
    PROVE  Has(FlattenSeq(s), t, Q[Len(s)])
  <1> DEFINE N == Len(s)
  <1>1. N \in Nat
    BY TextIs
  <1>2. PICK fl : /\ Len(s) = 0 => FlattenSeq(s) = <<>>
                  /\ Len(s) # 0 => FlattenSeq(s) = fl[N]
                  /\ \A i \in 1 .. N : fl[i] = IF i = 1 THEN s[i] ELSE fl[i - 1] \o s[i]
    BY FlattenTurns, Zenon
  <1> DEFINE S == {n \in Nat : n \in 1 .. N => Has(fl[n], t, Q[n])}
  <1>3. 0 \in S
    OBVIOUS
  <1>4. ASSUME NEW n \in Nat, n \in S
        PROVE  n + 1 \in S
    <2>1. CASE n + 1 \in 1 .. N
      <3>1. PICK k : Has(s[n + 1], t, k) /\ Q[n + 1] = Q[n] + k
        <4>1. PICK i : i = n + 1
          OBVIOUS
        <4>2. i \in 1 .. N /\ i - 1 = n
          BY <2>1, <4>1
        <4> QED BY <4>1, <4>2
      <3>2. CASE n = 0
        <4>1. fl[n + 1] = s[n + 1]
          BY <1>2, <2>1, <3>2
        <4>2. k \in Nat
          BY <3>1, HasNat, Zenon
        <4>3. Q[n + 1] = k
          BY <3>1, <3>2, <4>2
        <4>4. Has(fl[n + 1], t, Q[n + 1])
          BY <3>1, <4>1, <4>3, Zenon
        <4> QED BY <4>4
      <3>3. CASE n # 0
        <4>1. n \in 1 .. N /\ n + 1 # 1 /\ (n + 1) - 1 = n
          BY <1>1, <2>1, <3>3
        <4>2. fl[n + 1] = fl[n] \o s[n + 1]
          BY <1>2, <2>1, <4>1
        <4>3. Has(fl[n], t, Q[n])
          BY <1>4, <4>1
        <4>4. Has(fl[n + 1], t, Q[n + 1])
          <5>1. Has(fl[n] \o s[n + 1], t, Q[n] + k)
            BY <3>1, <4>3, HasJoin, Zenon
          <5> QED BY <3>1, <4>2, <5>1, Zenon
        <4> QED BY <4>4
      <3> QED BY <3>2, <3>3
    <2> QED BY <2>1
  <1> HIDE DEF S
  <1>5. Nat \subseteq S
    BY <1>3, <1>4, SetInduction
  <1>6. CASE N = 0
    BY <1>2, <1>6, HasNone, Zenon
  <1>7. CASE N # 0
    <2>1. Has(fl[N], t, Q[N])
      BY <1>1, <1>5, <1>7 DEF S
    <2> QED BY <1>2, <1>7, <2>1, Zenon
  <1> QED BY <1>6, <1>7, Zenon

\* A text without the token at all.
Lacks(text, t) == Has(text, t, 0)

LEMMA LacksOne ==
    ASSUME NEW x, NEW t, x # t
    PROVE  Lacks(<<x>>, t)
  BY HasOne, Zenon DEF Lacks

LEMMA LacksJoin ==
    ASSUME NEW a, NEW b, NEW t, Lacks(a, t), Lacks(b, t)
    PROVE  Lacks(a \o b, t)
  <1>1. Has(a \o b, t, 0 + 0)
    BY HasJoin, Zenon DEF Lacks
  <1>2. 0 + 0 = 0
    OBVIOUS
  <1> QED BY <1>1, <1>2, Zenon DEF Lacks

\* Tokens in front and behind that are other ones.
LEMMA HasLater ==
    ASSUME NEW a, NEW b, NEW t, NEW k, Lacks(a, t), Has(b, t, k)
    PROVE  Has(a \o b, t, k)
  <1>1. Has(a \o b, t, 0 + k)
    BY HasJoin, Zenon DEF Lacks
  <1>2. k \in Nat
    BY HasNat, Zenon
  <1>3. 0 + k = k
    BY <1>2
  <1> QED BY <1>1, <1>3, Zenon

LEMMA HasEarlier ==
    ASSUME NEW a, NEW b, NEW t, NEW k, Has(a, t, k), Lacks(b, t)
    PROVE  Has(a \o b, t, k)
  <1>1. Has(a \o b, t, k + 0)
    BY HasJoin, Zenon DEF Lacks
  <1>2. k \in Nat
    BY HasNat, Zenon
  <1>3. k + 0 = k
    BY <1>2
  <1> QED BY <1>1, <1>3, Zenon

LEMMA LacksFlat ==
    ASSUME NEW s, IsText(s), NEW t, \A i \in 1 .. Len(s) : Lacks(s[i], t)
    PROVE  Lacks(FlattenSeq(s), t)
  <1> DEFINE Q == [i \in 0 .. Len(s) |-> 0]
  <1>0. Len(s) \in Nat
    BY TextIs, Zenon
  <1>1. Q[0] = 0 /\ Q[Len(s)] = 0
    BY <1>0
  <1>2. \A i \in 1 .. Len(s) : Q[i] = Q[i - 1] + 0
    BY <1>0
  <1> HIDE DEF Q
  <1>3. \A i \in 1 .. Len(s) : \E k : Has(s[i], t, k) /\ Q[i] = Q[i - 1] + k
    BY <1>2, Zenon DEF Lacks
  <1>4. Has(FlattenSeq(s), t, Q[Len(s)])
    BY <1>1, <1>3, HasFlat, Zenon
  <1> QED BY <1>1, <1>4, Zenon DEF Lacks

LEMMA LacksTwo ==
    ASSUME NEW x, NEW y, NEW t, x # t, y # t
    PROVE  Lacks(<<x, y>>, t)
  BY LacksOne, LacksJoin, SplitTwo, Zenon

LEMMA DistinctIn ==
    ASSUME NEW keys, NEW U, Distinct(keys, U), NEW i \in 1 .. Len(keys)
    PROVE  keys[i] \in U
  BY DEF Distinct

LEMMA LacksPlainPairs ==
    ASSUME NEW keys, NEW U, Distinct(keys, U), NEW first, NEW t, t \notin U, t # ","
    PROVE  Lacks(plainPairs(keys, first), t)
  <1>0. IsText(keys)
    BY Zenon DEF Distinct, IsText
  <1>1. PICK s : /\ IsText(s) /\ Len(s) = Len(keys)
                 /\ plainPairs(keys, first) = FlattenSeq(s)
                 /\ \A i \in 1 .. Len(keys) : s[i] = Item(keys, first, i)
    BY <1>0, PlainPairsAre, Zenon
  <1>2. ASSUME NEW i \in 1 .. Len(keys)
        PROVE  Lacks(s[i], t)
    <2>1. keys[i] \in U
      BY DistinctIn, Zenon
    <2>2. keys[i] # t
      BY <2>1, Zenon
    <2>3. Lacks(<<keys[i]>>, t) /\ Lacks(<<",", keys[i]>>, t)
      BY <2>2, LacksOne, LacksTwo, Zenon
    <2> QED BY <1>1, <2>3, Zenon DEF Item
  <1> QED BY <1>1, <1>2, LacksFlat, Zenon

\* A sequence of values: Q counts in them.
LEMMA HasSequence ==
    ASSUME NEW N \in Nat, NEW f, f = [i \in 1 .. N |-> f[i]], NEW t, t # ",", NEW Q, Q[0] = 0,
           \A i \in 1 .. N : \E k : Has(f[i], t, k) /\ Q[i] = Q[i - 1] + k
    PROVE  Has(writeSequence(f), t, Q[N])
  <1>1. IsText(f) /\ Len(f) = N
    BY TextsAre, Zenon
  <1>2. PICK s : /\ IsText(s) /\ Len(s) = Len(f)
                 /\ writeSequence(f) = FlattenSeq(s)
                 /\ \A i \in 1 .. Len(f) : s[i] = Element(f, i)
    BY <1>1, SequenceIs, Zenon
  <1>3. ASSUME NEW i \in 1 .. N
        PROVE  \E k : Has(s[i], t, k) /\ Q[i] = Q[i - 1] + k
    <2>1. PICK k : Has(f[i], t, k) /\ Q[i] = Q[i - 1] + k
      BY Zenon
    <2>2. Lacks(<<>>, t) /\ Lacks(<<",">>, t)
      BY HasNone, LacksOne, Zenon DEF Lacks
    <2>3. Has(s[i], t, k)
      <3>1. CASE i = 1
        <4>1. s[i] = <<>> \o f[i]
          BY <1>1, <1>2, <3>1, Zenon DEF Element
        <4>2. Has(<<>> \o f[i], t, k)
          BY <2>1, <2>2, HasLater, Zenon
        <4> QED BY <4>1, <4>2, Zenon
      <3>2. CASE i # 1
        <4>1. s[i] = <<",">> \o f[i]
          BY <1>1, <1>2, <3>2, Zenon DEF Element
        <4>2. Has(<<",">> \o f[i], t, k)
          BY <2>1, <2>2, HasLater, Zenon
        <4> QED BY <4>1, <4>2, Zenon
      <3> QED BY <3>1, <3>2, Zenon
    <2> QED BY <2>1, <2>3, Zenon
  <1>4. Has(FlattenSeq(s), t, Q[Len(s)])
    <2>1. \A i \in 1 .. Len(s) : \E k : Has(s[i], t, k) /\ Q[i] = Q[i - 1] + k
      BY <1>1, <1>2, <1>3, Zenon
    <2> QED BY <1>2, <2>1, HasFlat, Zenon
  <1> QED BY <1>1, <1>2, <1>4, Zenon
=============================================================================
