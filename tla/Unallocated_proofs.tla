------------------------- MODULE Unallocated_proofs -------------------------
(***************************************************************************)
(* The unallocated entries of the second walk are blocks that no file has, *)
(* no two of them share a block, none is larger than the maximum, and      *)
(* together with the files they have every block; the second walk          *)
(* implements FreeBlocks.                                                  *)
(***************************************************************************)
EXTENDS MetadataWriter_proofs, SecondWalkBlocks

-----------------------------------------------------------------------------
(***************************************************************************)
(* What a file's runs do to the map of its file system.                    *)
(***************************************************************************)

\* A map of fs, up to byte end of the disk: behind the last byte of each allocated extent
\* a block begins.
Mapped(map, fs, end) ==
    /\ DOMAIN map \subseteq fs.offset .. end - 1
    /\ \A x \in DOMAIN map : x + 1 \notin DOMAIN map => AtBlock(fs, x + 1)

\* From map to new only bytes of P have changed, and only inode inum got any; none has lost
\* its owners.
Touches(map, new, inum, P) ==
    /\ DOMAIN map \subseteq DOMAIN new
    /\ \A x \in DOMAIN new : x \notin P => x \in DOMAIN map /\ new[x] = map[x]
    /\ \A x \in DOMAIN new : \A i \in new[x] :
           i.Inum = inum \/ (x \in DOMAIN map /\ i \in map[x])
    /\ \A x \in DOMAIN new : new[x] = {} => x \in DOMAIN map /\ map[x] = {}

LEMMA TouchesNothing ==
    ASSUME NEW map, NEW inum, NEW P
    PROVE  Touches(map, map, inum, P)
  BY DEF Touches

LEMMA TouchesTwice ==
    ASSUME NEW a, NEW b, NEW c, NEW inum, NEW P, Touches(a, b, inum, P), Touches(b, c, inum, P)
    PROVE  Touches(a, c, inum, P)
  BY Zenon DEF Touches

\* The bytes of the blocks from block on and before block end.
BytesFrom(fs, block, end) == fs.offset + block * fs.bs .. fs.offset + end * fs.bs - 1

LEMMA Products ==
    ASSUME NEW d \in Nat, NEW a \in Nat, NEW b \in Nat
    PROVE  /\ a * d \in Nat /\ b * d \in Nat /\ (a + b) * d = a * d + b * d
           /\ a <= b => a * d <= b * d
  <1>1. a * d \in Nat /\ b * d \in Nat /\ (a + b) * d = a * d + b * d
    OBVIOUS
  <1>2. ASSUME a <= b
        PROVE  a * d <= b * d
    <2>1. PICK c \in Nat : b = a + c
      <3>1. b - a \in Nat /\ b = a + (b - a)
        BY <1>2
      <3> QED BY <3>1
    <2>2. b * d = a * d + c * d /\ c * d \in Nat /\ a * d \in Nat
      BY <2>1
    <2> QED BY <2>2
  <1> QED BY <1>1, <1>2

\* The bytes from m on and before n that are inside a range.
Inside(m, n, fsBeg, fsEnd) == {x \in m .. n - 1 : fsBeg <= x /\ x < fsEnd}

Marked(map, new, addr, beg, end, fsBeg, fsEnd) ==
    \E offset, attrID, slack :
        new = markDataRun(map, <<fsBeg, fsEnd>>, beg, end, offset, addr, attrID, slack)

Covered(m, n, P) == m .. n - 1 \subseteq P

Extended(map, new, addr, P, beg, end, fsBeg, fsEnd) ==
    /\ Touches(map, new, addr, P)
    /\ DOMAIN new = DOMAIN map \cup Inside(beg, end, fsBeg, fsEnd)

\* markDataRun adds the part of the run that is inside the range.
LEMMA MarkDataRunDoes ==
    ASSUME NEW map, NEW fsBeg \in Int, NEW fsEnd \in Int, NEW beg \in Int, NEW end \in Int,
           NEW addr, NEW P, Covered(beg, end, P), NEW new,
           Marked(map, new, addr, beg, end, fsBeg, fsEnd)
    PROVE  Extended(map, new, addr, P, beg, end, fsBeg, fsEnd)
  <1>0. PICK offset, attrID, slack :
            new = markDataRun(map, <<fsBeg, fsEnd>>, beg, end, offset, addr, attrID, slack)
    BY DEF Marked
  <1> DEFINE b == AtLeast(beg, fsBeg)
             e == AtMost(end, fsEnd)
             info == [Inum |-> addr, AttrID |-> attrID, Slack |-> slack, DRBeg |-> b,
                      Offset |-> offset]
             added == Inside(beg, end, fsBeg, fsEnd)
  <1>1. b \in Int /\ e \in Int /\ b .. e - 1 = added /\ added \subseteq P
    BY DEF AtLeast, AtMost, Inside, Covered
  <1>2. new = IF b < e THEN AddInterval(map, b, e, info) ELSE map
    BY <1>0, Zenon DEF markDataRun
  <1>3. info.Inum = addr
    OBVIOUS
  <1> HIDE DEF b, e, info, added
  <1>4. CASE ~(b < e)
    <2>1. new = map /\ added = {}
      BY <1>1, <1>2, <1>4
    <2> QED BY <2>1, TouchesNothing DEF added, Extended
  <1>5. CASE b < e
    <2>1. new = [x \in DOMAIN map \cup added |->
                    (IF x \in DOMAIN map THEN map[x] ELSE {})
                        \cup (IF x \in added THEN {info} ELSE {})]
      BY <1>1, <1>2, <1>5, Zenon DEF AddInterval
    <2>2. DOMAIN new = DOMAIN map \cup added
      BY <2>1
    <2>3. ASSUME NEW x \in DOMAIN new
          PROVE  new[x] = (IF x \in DOMAIN map THEN map[x] ELSE {})
                              \cup (IF x \in added THEN {info} ELSE {})
      BY <2>1, <2>2, Zenon
    <2>4. ASSUME NEW x \in DOMAIN new, x \notin P
          PROVE  x \in DOMAIN map /\ new[x] = map[x]
      <3>1. x \notin added /\ x \in DOMAIN map
        BY <1>1, <2>2, <2>4
      <3> QED BY <2>3, <3>1
    <2>5. ASSUME NEW x \in DOMAIN new, NEW i \in new[x]
          PROVE  i.Inum = addr \/ (x \in DOMAIN map /\ i \in map[x])
      BY <1>3, <2>3, <2>5
    <2>6. ASSUME NEW x \in DOMAIN new, new[x] = {}
          PROVE  x \in DOMAIN map /\ map[x] = {}
      <3>1. x \notin added /\ x \in DOMAIN map
        BY <2>2, <2>3, <2>6
      <3> QED BY <2>3, <2>6, <3>1
    <2>7. Touches(map, new, addr, P)
      BY <2>2, <2>4, <2>5, <2>6, Zenon DEF Touches
    <2> QED BY <2>2, <2>7 DEF added, Extended
  <1> QED BY <1>4, <1>5

LEMMA FsFields ==
    ASSUME NEW fs \in FsType
    PROVE  fs.offset \in Nat /\ fs.bs \in Nat /\ fs.bs > 0 /\ fs.first \in Nat /\ fs.last \in Nat
  BY DEF FsType

LEMMA Boundary ==
    ASSUME NEW fs \in FsType, NEW b \in Nat
    PROVE  /\ fs.offset + b * fs.bs \in Nat
           /\ AtBlock(fs, fs.offset + b * fs.bs)
  <1>1. fs.offset \in Nat /\ fs.bs \in Nat /\ fs.bs > 0
    BY FsFields
  <1>2. PICK c \in Nat : c = b * fs.bs
    BY <1>1
  <1>3. b <= c
    <2>1. PICK d \in Nat : fs.bs = d + 1
      <3>1. fs.bs - 1 \in Nat /\ fs.bs = (fs.bs - 1) + 1
        BY <1>1
      <3> QED BY <3>1
    <2>2. c = b * d + b /\ b * d \in Nat
      BY <1>2, <2>1
    <2> QED BY <1>2, <2>2
  <1>4. b \in 0 .. fs.offset + c
    BY <1>1, <1>3
  <1> QED BY <1>1, <1>2, <1>4 DEF AtBlock

\* What a run adds to a map ends with a block.
LEMMA MappedMore ==
    ASSUME NEW fs \in FsType, NEW fsBeg \in Int, NEW fsEnd \in Nat, NEW map, NEW new,
           Mapped(map, fs, fsEnd), NEW beg \in Int, beg >= fs.offset,
           NEW block \in Nat, Within(fs, fsEnd, block),
           DOMAIN new = DOMAIN map \cup Inside(beg, fs.offset + block * fs.bs, fsBeg, fsEnd)
    PROVE  Mapped(new, fs, fsEnd)
  <1>1. PICK end \in Nat : end = fs.offset + block * fs.bs
    BY Boundary
  <1> DEFINE added == {x \in beg .. end - 1 : fsBeg <= x /\ x < fsEnd}
  <1>2. DOMAIN new = DOMAIN map \cup added
    BY <1>1 DEF Inside
  <1>3. fs.offset \in Nat
    BY FsFields
  <1>4. added \subseteq fs.offset .. fsEnd - 1
    BY <1>3
  <1>5. ASSUME NEW x \in DOMAIN new, x + 1 \notin DOMAIN new
        PROVE  AtBlock(fs, x + 1)
    <2>1. CASE x \in DOMAIN map
      BY <1>2, <1>5, <2>1 DEF Mapped
    <2>2. CASE x \in added
      <3>1. x \in Int /\ x < end /\ x < fsEnd /\ x + 1 \notin added /\ fsBeg <= x /\ beg <= x
        BY <1>2, <1>5, <2>2
      <3>2. x + 1 = end \/ (x + 1 = fsEnd /\ fsEnd < end)
        BY <3>1
      <3>3. CASE x + 1 = end
        BY <1>1, <3>3, Boundary
      <3>4. CASE x + 1 = fsEnd /\ fsEnd < end
        BY <1>1, <3>4 DEF Within
      <3> QED BY <3>2, <3>3, <3>4
    <2> QED BY <1>2, <1>5, <2>1, <2>2
  <1> HIDE DEF added
  <1> QED BY <1>2, <1>4, <1>5 DEF Mapped

\* The part of the loop's state that the next turn's arithmetic needs.
Offsets(s, a) ==
    /\ s.fo \in 0 .. mainSize(a) /\ s.skip \in Nat
    /\ DOMAIN s = {"fo", "slackFo", "skip", "map"}

LEMMA WriteRunDoes ==
    ASSUME NEW fs \in FsType, NEW fsBeg \in Int, NEW fsEnd \in Nat, NEW addr, NEW a \in AttrType,
           NEW s, Offsets(s, a), Mapped(s.map, fs, fsEnd),
           NEW run \in RunType, Within(fs, fsEnd, run.addr + run.len),
           NEW P, BytesFrom(fs, run.addr, run.addr + run.len) \subseteq P,
           NEW t, t = WriteRun(fs, <<fsBeg, fsEnd>>, addr, a, s, run)
    PROVE  Offsets(t, a) /\ Mapped(t.map, fs, fsEnd) /\ Touches(s.map, t.map, addr, P)
  <1> DEFINE range   == <<fsBeg, fsEnd>>
             runBeg  == run.addr * fs.bs + fs.offset
             runEnd  == runBeg + run.len * fs.bs
             toSkip  == AtMost(runEnd - runBeg, s.skip)
             beg     == runBeg + toSkip
             dataEnd == AtMost(beg + (mainSize(a) - s.fo), runEnd)
             stored  == run.flags = "none"
             data    == IF stored /\ beg < dataEnd
                        THEN markDataRun(s.map, range, beg, dataEnd, s.fo, addr, a.id, FALSE)
                        ELSE s.map
             slack   == IF stored /\ dataEnd < runEnd
                        THEN markDataRun(data, range, dataEnd, runEnd, s.slackFo, addr, a.id, TRUE)
                        ELSE data
  <1>1. run.addr \in Nat /\ run.len \in Nat /\ fs.bs \in Nat /\ fs.offset \in Nat
    BY FsFields DEF RunType
  <1>2. mainSize(a) \in Nat
    BY DEF mainSize, AttrType
  <1>3. /\ runBeg \in Nat /\ runEnd \in Nat /\ fs.offset <= runBeg /\ runBeg <= runEnd
        /\ runEnd = fs.offset + (run.addr + run.len) * fs.bs
        /\ runBeg = fs.offset + run.addr * fs.bs
    <2>1. /\ run.addr * fs.bs \in Nat /\ run.len * fs.bs \in Nat
          /\ (run.addr + run.len) * fs.bs = run.addr * fs.bs + run.len * fs.bs
      BY <1>1, Products
    <2> QED BY <1>1, <2>1
  <1>4. \/ run.flags = "filler" /\ t = s
        \/ beg < runEnd /\ t = [fo |-> s.fo + (dataEnd - beg),
                                slackFo |-> s.slackFo + (runEnd - dataEnd),
                                skip |-> s.skip - toSkip, map |-> slack]
        \/ ~(beg < runEnd) /\ t = [s EXCEPT !.skip = @ - toSkip]
    BY Zenon DEF WriteRun
  <1> HIDE DEF runBeg, runEnd
  <1>5. /\ toSkip \in Nat /\ toSkip <= s.skip /\ s.skip \in Nat
        /\ beg \in Nat /\ runBeg <= beg /\ beg <= runEnd
        /\ dataEnd \in Nat /\ beg <= dataEnd /\ dataEnd <= runEnd
        /\ s.fo + (dataEnd - beg) \in 0 .. mainSize(a)
    BY <1>2, <1>3 DEF AtMost, Offsets
  <1> HIDE DEF toSkip, beg, dataEnd, range, data, slack, stored
  <1>6. CASE t = s
    BY <1>6, TouchesNothing
  <1>7. CASE t = [s EXCEPT !.skip = @ - toSkip]
    <2>1. /\ t.fo = s.fo /\ t.map = s.map /\ t.skip = s.skip - toSkip
          /\ DOMAIN t = {"fo", "slackFo", "skip", "map"}
      BY <1>7 DEF Offsets
    <2>2. Offsets(t, a)
      BY <1>5, <2>1 DEF Offsets
    <2> QED BY <2>1, <2>2, TouchesNothing
  <1>8. CASE /\ beg < runEnd
             /\ t = [fo |-> s.fo + (dataEnd - beg), slackFo |-> s.slackFo + (runEnd - dataEnd),
                     skip |-> s.skip - toSkip, map |-> slack]
    <2>1. /\ t.fo = s.fo + (dataEnd - beg) /\ t.skip = s.skip - toSkip /\ t.map = slack
          /\ DOMAIN t = {"fo", "slackFo", "skip", "map"}
      BY <1>8
    <2>2. Offsets(t, a)
      BY <1>5, <2>1 DEF Offsets
    <2>3. beg .. runEnd - 1 \subseteq P
      BY <1>1, <1>3, <1>5 DEF BytesFrom
    <2>4. Covered(beg, dataEnd, P) /\ Covered(dataEnd, runEnd, P)
      BY <1>3, <1>5, <2>3 DEF Covered
    <2>5. /\ Touches(s.map, data, addr, P)
          /\ DOMAIN data = DOMAIN s.map \cup (IF stored THEN Inside(beg, dataEnd, fsBeg, fsEnd) ELSE {})
      <3>1. CASE stored /\ beg < dataEnd
        <4>1. Marked(s.map, data, addr, beg, dataEnd, fsBeg, fsEnd)
          BY <3>1, Zenon DEF range, data, Marked
        <4>2. beg \in Int /\ dataEnd \in Int /\ fsBeg \in Int /\ fsEnd \in Int
          BY <1>5
        <4>3. Extended(s.map, data, addr, P, beg, dataEnd, fsBeg, fsEnd)
          BY <2>4, <4>1, <4>2, MarkDataRunDoes, Zenon
        <4> QED BY <3>1, <4>3 DEF Extended
      <3>2. CASE stored /\ ~(beg < dataEnd)
        <4>1. data = s.map /\ Inside(beg, dataEnd, fsBeg, fsEnd) = {}
          BY <1>5, <3>2 DEF Inside, data
        <4> QED BY <3>2, <4>1, TouchesNothing
      <3>3. CASE ~stored
        BY <3>3, TouchesNothing DEF data
      <3> QED BY <3>1, <3>2, <3>3
    <2>6. /\ Touches(data, slack, addr, P)
          /\ DOMAIN slack = DOMAIN data \cup (IF stored THEN Inside(dataEnd, runEnd, fsBeg, fsEnd) ELSE {})
      <3>1. CASE stored /\ dataEnd < runEnd
        <4>1. Marked(data, slack, addr, dataEnd, runEnd, fsBeg, fsEnd)
          BY <3>1, Zenon DEF range, slack, Marked
        <4>2. dataEnd \in Int /\ runEnd \in Int /\ fsBeg \in Int /\ fsEnd \in Int
          BY <1>3, <1>5
        <4>3. Extended(data, slack, addr, P, dataEnd, runEnd, fsBeg, fsEnd)
          BY <2>4, <4>1, <4>2, MarkDataRunDoes, Zenon
        <4> QED BY <3>1, <4>3 DEF Extended
      <3>2. CASE stored /\ ~(dataEnd < runEnd)
        <4>1. slack = data /\ Inside(dataEnd, runEnd, fsBeg, fsEnd) = {}
          BY <1>3, <1>5, <3>2 DEF Inside, slack
        <4> QED BY <3>2, <4>1, TouchesNothing
      <3>3. CASE ~stored
        BY <3>3, TouchesNothing DEF slack
      <3> QED BY <3>1, <3>2, <3>3
    <2>7. Touches(s.map, slack, addr, P)
      BY <2>5, <2>6, TouchesTwice
    <2>8. DOMAIN slack = DOMAIN s.map \cup (IF stored THEN Inside(beg, runEnd, fsBeg, fsEnd) ELSE {})
      <3>1. Inside(beg, dataEnd, fsBeg, fsEnd) \cup Inside(dataEnd, runEnd, fsBeg, fsEnd) = Inside(beg, runEnd, fsBeg, fsEnd)
        BY <1>3, <1>5 DEF Inside
      <3> QED BY <2>5, <2>6, <3>1
    <2>9. Mapped(slack, fs, fsEnd)
      <3>1. CASE stored
        <4>1. DOMAIN slack = DOMAIN s.map \cup
                  Inside(beg, fs.offset + (run.addr + run.len) * fs.bs, fsBeg, fsEnd)
          BY <1>3, <2>8, <3>1, Zenon
        <4>2. beg \in Int /\ beg >= fs.offset /\ run.addr + run.len \in Nat
          BY <1>1, <1>3, <1>5
        <4> QED BY <4>1, <4>2, MappedMore
      <3>2. CASE ~stored
        <4>1. slack = data /\ data = s.map
          BY <3>2 DEF slack, data
        <4> QED BY <4>1
      <3> QED BY <3>1, <3>2
    <2> QED BY <2>1, <2>2, <2>7, <2>9
  <1> QED BY <1>4, <1>6, <1>7, <1>8

-----------------------------------------------------------------------------
(***************************************************************************)
(* The loops over runs and over attributes.                                *)
(***************************************************************************)

\* f has the states of the first N turns of writeAttr's loop.
Runs(f, fs, range, addr, a, s, N) ==
    f = [n \in 0 .. N |-> IF n = 0 THEN s ELSE WriteRun(fs, range, addr, a, f[n - 1], a.runs[n])]

LEMMA RunsExtend ==
    ASSUME NEW fs, NEW range, NEW addr, NEW a, NEW s, NEW N \in Nat, NEW f,
           Runs(f, fs, range, addr, a, s, N)
    PROVE  \E g : Runs(g, fs, range, addr, a, s, N + 1)
  <1> DEFINE G(x, n) == WriteRun(fs, range, addr, a, x, a.runs[n])
  <1>1. f = [n \in 0 .. N |-> IF n = 0 THEN s ELSE G(f[n - 1], n)]
    BY Zenon DEF Runs
  <1> HIDE DEF G
  <1> DEFINE g == [n \in 0 .. N + 1 |-> IF n = N + 1 THEN G(f[N], N + 1) ELSE f[n]]
  <1>2. g = [n \in 0 .. N + 1 |-> IF n = 0 THEN s ELSE G(g[n - 1], n)]
    <2>1. ASSUME NEW n \in 0 .. N + 1
          PROVE  g[n] = IF n = 0 THEN s ELSE G(g[n - 1], n)
      <3>1. CASE n = N + 1
        <4>1. n # 0 /\ n - 1 = N /\ N \in 0 .. N + 1 /\ N # N + 1
          BY <3>1
        <4> QED BY <3>1, <4>1
      <3>2. CASE n = 0
        BY <1>1, <3>2
      <3>3. CASE n # N + 1 /\ n # 0
        <4>1. n \in 0 .. N /\ n - 1 \in 0 .. N + 1 /\ n - 1 # N + 1
          BY <3>3
        <4>2. g[n] = f[n] /\ g[n - 1] = f[n - 1]
          BY <3>3, <4>1
        <4>3. f[n] = G(f[n - 1], n)
          BY <1>1, <3>3, <4>1
        <4> QED BY <3>3, <4>2, <4>3
      <3> QED BY <3>1, <3>2, <3>3
    <2> QED BY <2>1
  <1> HIDE DEF g
  <1>3. Runs(g, fs, range, addr, a, s, N + 1)
    BY <1>2, Zenon DEF G, Runs
  <1> QED BY <1>3

LEMMA RunsExist ==
    ASSUME NEW fs, NEW range, NEW addr, NEW a, NEW s, NEW N \in Nat
    PROVE  \E f : Runs(f, fs, range, addr, a, s, N)
  <1> DEFINE S == {n \in Nat : \E f : Runs(f, fs, range, addr, a, s, n)}
  <1>1. 0 \in S
    <2>1. Runs([n \in 0 .. 0 |-> s], fs, range, addr, a, s, 0)
      BY DEF Runs
    <2> QED BY <2>1
  <1>2. ASSUME NEW n \in Nat, n \in S
        PROVE  n + 1 \in S
    <2>1. PICK f : Runs(f, fs, range, addr, a, s, n)
      BY <1>2
    <2>2. \E g : Runs(g, fs, range, addr, a, s, n + 1)
      BY <2>1, RunsExtend
    <2> QED BY <2>2
  <1> HIDE DEF S
  <1>3. Nat \subseteq S
    BY <1>1, <1>2, SetInduction
  <1> QED BY <1>3 DEF S

RunsWithin(fs, end, a) ==
    \A r \in 1 .. Len(a.runs) : Within(fs, end, a.runs[r].addr + a.runs[r].len)

RunsCovered(fs, a, P) ==
    \A r \in 1 .. Len(a.runs) : BytesFrom(fs, a.runs[r].addr, a.runs[r].addr + a.runs[r].len) \subseteq P

\* What may become of a map: it stays one, and only bytes of P change hands.
Grows(map, new, fs, end, inum, P) == Mapped(new, fs, end) /\ Touches(map, new, inum, P)

LEMMA WriteRunsDoes ==
    ASSUME NEW fs \in FsType, NEW fsBeg \in Int, NEW fsEnd \in Nat, NEW addr, NEW a \in AttrType,
           NEW map, Mapped(map, fs, fsEnd), NEW P, RunsWithin(fs, fsEnd, a), RunsCovered(fs, a, P)
    PROVE  Grows(map, WriteRuns(fs, <<fsBeg, fsEnd>>, addr, a, map).map, fs, fsEnd, addr, P)
  <1> DEFINE range == <<fsBeg, fsEnd>>
             N     == Len(a.runs)
             s     == [fo |-> 0, slackFo |-> 0, skip |-> a.skiplen, map |-> map]
             f     == CHOOSE g : Runs(g, fs, range, addr, a, s, N)
  <1>1. N \in Nat /\ a.runs \in Seq(RunType) /\ a.skiplen \in Nat /\ mainSize(a) \in Nat
    BY DEF AttrType, mainSize
  <1>2. WriteRuns(fs, range, addr, a, map) = f[N]
    BY Zenon DEF WriteRuns, Runs
  <1>3. Runs(f, fs, range, addr, a, s, N)
    BY <1>1, RunsExist, Zenon
  <1>4. Offsets(s, a) /\ s.map = map
    BY <1>1 DEF Offsets
  <1> HIDE DEF f, N, s, range
  <1>5. f[0] = s /\ \A n \in 1 .. N : f[n] = WriteRun(fs, range, addr, a, f[n - 1], a.runs[n])
    <2>1. f = [n \in 0 .. N |-> IF n = 0 THEN s ELSE WriteRun(fs, range, addr, a, f[n - 1], a.runs[n])]
      BY <1>3, Zenon DEF Runs
    <2>2. 0 \in 0 .. N /\ \A n \in 1 .. N : n \in 0 .. N /\ n # 0
      BY <1>1
    <2> QED BY <2>1, <2>2, Zenon
  <1> DEFINE Good(t) == Offsets(t, a) /\ Grows(map, t.map, fs, fsEnd, addr, P)
             S == {n \in Nat : n <= N => Good(f[n])}
  <1>6. 0 \in S
    <2>1. Good(s)
      BY <1>4, TouchesNothing DEF Grows
    <2> QED BY <1>5, <2>1
  <1>7. ASSUME NEW n \in Nat, n \in S
        PROVE  n + 1 \in S
    <2> SUFFICES ASSUME n + 1 <= N
                 PROVE  Good(f[n + 1])
      OBVIOUS
    <2>1. n + 1 \in 1 .. N /\ n <= N /\ (n + 1) - 1 = n
      BY <1>1
    <2>2. Good(f[n])
      BY <1>7, <2>1
    <2>3. PICK run \in RunType : run = a.runs[n + 1]
      BY <1>1, <2>1 DEF N
    <2>4. f[n + 1] = WriteRun(fs, range, addr, a, f[n], run)
      BY <1>5, <2>1, <2>3
    <2>5. Within(fs, fsEnd, run.addr + run.len) /\ BytesFrom(fs, run.addr, run.addr + run.len) \subseteq P
      BY <2>1, <2>3 DEF RunsWithin, RunsCovered, N
    <2>6. Offsets(f[n], a) /\ Mapped(f[n].map, fs, fsEnd) /\ Touches(map, f[n].map, addr, P)
      BY <2>2 DEF Grows
    <2>7. Offsets(f[n + 1], a) /\ Mapped(f[n + 1].map, fs, fsEnd) /\ Touches(f[n].map, f[n + 1].map, addr, P)
      BY <2>4, <2>5, <2>6, WriteRunDoes DEF range
    <2>8. Touches(map, f[n + 1].map, addr, P)
      BY <2>6, <2>7, TouchesTwice
    <2> QED BY <2>7, <2>8 DEF Grows
  <1>8. N \in S
    <2> HIDE DEF S
    <2> QED BY <1>1, <1>6, <1>7, SetInduction
  <1> QED BY <1>1, <1>2, <1>8 DEF range

LEMMA WriteAttrDoes ==
    ASSUME NEW fs \in FsType, NEW fsBeg \in Int, NEW fsEnd \in Nat, NEW addr, NEW a \in AttrType,
           NEW s, Mapped(s.map, fs, fsEnd), NEW P, RunsWithin(fs, fsEnd, a), RunsCovered(fs, a, P)
    PROVE  Grows(s.map, writeAttr(fs, <<fsBeg, fsEnd>>, addr, s, a).map, fs, fsEnd, addr, P)
  <1> DEFINE w == WriteRuns(fs, <<fsBeg, fsEnd>>, addr, a, s.map)
             t == writeAttr(fs, <<fsBeg, fsEnd>>, addr, s, a)
  <1>1. t.map = w.map \/ t.map = s.map
    BY DEF writeAttr
  <1>2. Grows(s.map, w.map, fs, fsEnd, addr, P)
    BY WriteRunsDoes
  <1>3. Grows(s.map, s.map, fs, fsEnd, addr, P)
    BY TouchesNothing DEF Grows
  <1> HIDE DEF w, t
  <1>4. Grows(s.map, t.map, fs, fsEnd, addr, P)
    BY <1>1, <1>2, <1>3, Zenon
  <1> QED BY <1>4 DEF t

\* f has the states of the first N turns of writeMetaRecord's loop.
Attrs(f, fs, range, addr, attrs, s, N) ==
    f = [n \in 0 .. N |-> IF n = 0 THEN s ELSE writeAttr(fs, range, addr, f[n - 1], attrs[n])]

LEMMA AttrsExtend ==
    ASSUME NEW fs, NEW range, NEW addr, NEW attrs, NEW s, NEW N \in Nat, NEW f,
           Attrs(f, fs, range, addr, attrs, s, N)
    PROVE  \E g : Attrs(g, fs, range, addr, attrs, s, N + 1)
  <1> DEFINE G(x, n) == writeAttr(fs, range, addr, x, attrs[n])
  <1>1. f = [n \in 0 .. N |-> IF n = 0 THEN s ELSE G(f[n - 1], n)]
    BY Zenon DEF Attrs
  <1> HIDE DEF G
  <1> DEFINE g == [n \in 0 .. N + 1 |-> IF n = N + 1 THEN G(f[N], N + 1) ELSE f[n]]
  <1>2. g = [n \in 0 .. N + 1 |-> IF n = 0 THEN s ELSE G(g[n - 1], n)]
    <2>1. ASSUME NEW n \in 0 .. N + 1
          PROVE  g[n] = IF n = 0 THEN s ELSE G(g[n - 1], n)
      <3>1. CASE n = N + 1
        <4>1. n # 0 /\ n - 1 = N /\ N \in 0 .. N + 1 /\ N # N + 1
          BY <3>1
        <4> QED BY <3>1, <4>1
      <3>2. CASE n = 0
        BY <1>1, <3>2
      <3>3. CASE n # N + 1 /\ n # 0
        <4>1. n \in 0 .. N /\ n - 1 \in 0 .. N + 1 /\ n - 1 # N + 1
          BY <3>3
        <4>2. g[n] = f[n] /\ g[n - 1] = f[n - 1]
          BY <3>3, <4>1
        <4>3. f[n] = G(f[n - 1], n)
          BY <1>1, <3>3, <4>1
        <4> QED BY <3>3, <4>2, <4>3
      <3> QED BY <3>1, <3>2, <3>3
    <2> QED BY <2>1
  <1> HIDE DEF g
  <1>3. Attrs(g, fs, range, addr, attrs, s, N + 1)
    BY <1>2, Zenon DEF G, Attrs
  <1> QED BY <1>3

LEMMA AttrsExist ==
    ASSUME NEW fs, NEW range, NEW addr, NEW attrs, NEW s, NEW N \in Nat
    PROVE  \E f : Attrs(f, fs, range, addr, attrs, s, N)
  <1> DEFINE S == {n \in Nat : \E f : Attrs(f, fs, range, addr, attrs, s, n)}
  <1>1. 0 \in S
    <2>1. Attrs([n \in 0 .. 0 |-> s], fs, range, addr, attrs, s, 0)
      BY DEF Attrs
    <2> QED BY <2>1
  <1>2. ASSUME NEW n \in Nat, n \in S
        PROVE  n + 1 \in S
    <2>1. PICK f : Attrs(f, fs, range, addr, attrs, s, n)
      BY <1>2
    <2>2. \E g : Attrs(g, fs, range, addr, attrs, s, n + 1)
      BY <2>1, AttrsExtend
    <2> QED BY <2>2
  <1> HIDE DEF S
  <1>3. Nat \subseteq S
    BY <1>1, <1>2, SetInduction
  <1> QED BY <1>3 DEF S

LEMMA Members ==
    ASSUME NEW T, NEW q \in Seq(T)
    PROVE  Len(q) \in Nat /\ \A n \in 1 .. Len(q) : q[n] \in T
  OBVIOUS

AttrsWithin(fs, end, attrs) == \A n \in 1 .. Len(attrs) : RunsWithin(fs, end, attrs[n])

AttrsCovered(fs, attrs, P) == \A n \in 1 .. Len(attrs) : RunsCovered(fs, attrs[n], P)

LEMMA WriteAttrsDoes ==
    ASSUME NEW fs \in FsType, NEW fsBeg \in Int, NEW fsEnd \in Nat, NEW addr,
           NEW attrs \in Seq(AttrType), NEW s, Mapped(s.map, fs, fsEnd), NEW P,
           AttrsWithin(fs, fsEnd, attrs), AttrsCovered(fs, attrs, P)
    PROVE  Grows(s.map, writeAttrs(fs, <<fsBeg, fsEnd>>, addr, attrs, s).map, fs, fsEnd, addr, P)
  <1> DEFINE range == <<fsBeg, fsEnd>>
             N     == Len(attrs)
             f     == CHOOSE g : Attrs(g, fs, range, addr, attrs, s, N)
  <1>1. N \in Nat /\ \A n \in 1 .. N : attrs[n] \in AttrType
    BY Members, Zenon
  <1>2. writeAttrs(fs, range, addr, attrs, s) = f[N]
    BY Zenon DEF writeAttrs, Attrs
  <1>3. Attrs(f, fs, range, addr, attrs, s, N)
    BY <1>1, AttrsExist, Zenon
  <1> HIDE DEF f, N, range
  <1>4. f[0] = s /\ \A n \in 1 .. N : f[n] = writeAttr(fs, range, addr, f[n - 1], attrs[n])
    <2>1. f = [n \in 0 .. N |-> IF n = 0 THEN s ELSE writeAttr(fs, range, addr, f[n - 1], attrs[n])]
      BY <1>3, Zenon DEF Attrs
    <2>2. 0 \in 0 .. N /\ \A n \in 1 .. N : n \in 0 .. N /\ n # 0
      BY <1>1
    <2> QED BY <2>1, <2>2, Zenon
  <1> DEFINE Good(t) == Grows(s.map, t.map, fs, fsEnd, addr, P)
             S == {n \in Nat : n <= N => Good(f[n])}
  <1>5. 0 \in S
    <2>1. Good(s)
      BY TouchesNothing DEF Grows
    <2> QED BY <1>4, <2>1
  <1>6. ASSUME NEW n \in Nat, n \in S
        PROVE  n + 1 \in S
    <2> SUFFICES ASSUME n + 1 <= N
                 PROVE  Good(f[n + 1])
      OBVIOUS
    <2>1. n + 1 \in 1 .. N /\ n <= N /\ (n + 1) - 1 = n
      BY <1>1
    <2>2. Good(f[n])
      BY <1>6, <2>1
    <2>3. PICK a \in AttrType : a = attrs[n + 1]
      BY <1>1, <2>1
    <2>4. f[n + 1] = writeAttr(fs, range, addr, f[n], a)
      BY <1>4, <2>1, <2>3
    <2>5. RunsWithin(fs, fsEnd, a) /\ RunsCovered(fs, a, P)
      BY <2>1, <2>3 DEF AttrsWithin, AttrsCovered, N
    <2>6. Mapped(f[n].map, fs, fsEnd) /\ Touches(s.map, f[n].map, addr, P)
      BY <2>2 DEF Grows
    <2>7. Grows(f[n].map, f[n + 1].map, fs, fsEnd, addr, P)
      BY <2>4, <2>5, <2>6, WriteAttrDoes DEF range
    <2>8. Touches(s.map, f[n + 1].map, addr, P)
      BY <2>6, <2>7, TouchesTwice DEF Grows
    <2> QED BY <2>7, <2>8 DEF Grows
  <1>7. N \in S
    <2> HIDE DEF S
    <2> QED BY <1>1, <1>5, <1>6, SetInduction
  <1>8. Good(f[N])
    BY <1>1, <1>7
  <1> QED BY <1>2, <1>8 DEF range

-----------------------------------------------------------------------------
(***************************************************************************)
(* The attributes of a record.                                             *)
(***************************************************************************)

\* f has what is kept of the first N attributes.
Kept(f, attrs, N) ==
    f = [n \in 0 .. N |->
            IF n = 0 THEN <<>>
            ELSE IF attrs[n].inuse THEN Append(f[n - 1], attrs[n])
            ELSE f[n - 1]]

LEMMA KeptExtend ==
    ASSUME NEW attrs, NEW N \in Nat, NEW f, Kept(f, attrs, N)
    PROVE  \E g : Kept(g, attrs, N + 1)
  <1> DEFINE G(x, n) == IF attrs[n].inuse THEN Append(x, attrs[n]) ELSE x
  <1>1. f = [n \in 0 .. N |-> IF n = 0 THEN <<>> ELSE G(f[n - 1], n)]
    BY Zenon DEF Kept
  <1> HIDE DEF G
  <1> DEFINE g == [n \in 0 .. N + 1 |-> IF n = N + 1 THEN G(f[N], N + 1) ELSE f[n]]
  <1>2. g = [n \in 0 .. N + 1 |-> IF n = 0 THEN <<>> ELSE G(g[n - 1], n)]
    <2>1. ASSUME NEW n \in 0 .. N + 1
          PROVE  g[n] = IF n = 0 THEN <<>> ELSE G(g[n - 1], n)
      <3>1. CASE n = N + 1
        <4>1. n # 0 /\ n - 1 = N /\ N \in 0 .. N + 1 /\ N # N + 1
          BY <3>1
        <4> QED BY <3>1, <4>1
      <3>2. CASE n = 0
        BY <1>1, <3>2
      <3>3. CASE n # N + 1 /\ n # 0
        <4>1. n \in 0 .. N /\ n - 1 \in 0 .. N + 1 /\ n - 1 # N + 1
          BY <3>3
        <4>2. g[n] = f[n] /\ g[n - 1] = f[n - 1]
          BY <3>3, <4>1
        <4>3. f[n] = G(f[n - 1], n)
          BY <1>1, <3>3, <4>1
        <4> QED BY <3>3, <4>2, <4>3
      <3> QED BY <3>1, <3>2, <3>3
    <2> QED BY <2>1
  <1> HIDE DEF g
  <1>3. Kept(g, attrs, N + 1)
    BY <1>2, Zenon DEF G, Kept
  <1> QED BY <1>3

LEMMA KeptExists ==
    ASSUME NEW attrs, NEW N \in Nat
    PROVE  \E f : Kept(f, attrs, N)
  <1> DEFINE S == {n \in Nat : \E f : Kept(f, attrs, n)}
  <1>1. 0 \in S
    <2>1. Kept([n \in 0 .. 0 |-> <<>>], attrs, 0)
      BY DEF Kept
    <2> QED BY <2>1
  <1>2. ASSUME NEW n \in Nat, n \in S
        PROVE  n + 1 \in S
    <2>1. PICK f : Kept(f, attrs, n)
      BY <1>2
    <2>2. \E g : Kept(g, attrs, n + 1)
      BY <2>1, KeptExtend
    <2> QED BY <2>2
  <1> HIDE DEF S
  <1>3. Nat \subseteq S
    BY <1>1, <1>2, SetInduction
  <1> QED BY <1>3 DEF S

\* The members of s are among those of attrs.
PartOf(s, attrs) ==
    /\ s \in Seq(AttrType)
    /\ \A n \in 1 .. Len(s) : \E w \in 1 .. Len(attrs) : s[n] = attrs[w]

LEMMA PartAppend ==
    ASSUME NEW attrs \in Seq(AttrType), NEW s, PartOf(s, attrs), NEW w \in 1 .. Len(attrs)
    PROVE  PartOf(Append(s, attrs[w]), attrs)
  <1>1. attrs[w] \in AttrType /\ s \in Seq(AttrType)
    BY Members DEF PartOf
  <1>2. PICK a \in AttrType : a = attrs[w]
    BY <1>1
  <1>3. /\ Append(s, a) \in Seq(AttrType)
        /\ Len(Append(s, a)) = Len(s) + 1 /\ Len(s) \in Nat
        /\ Append(s, a)[Len(s) + 1] = a
        /\ \A n \in 1 .. Len(s) : Append(s, a)[n] = s[n]
    BY <1>1
  <1>4. ASSUME NEW n \in 1 .. Len(Append(s, a))
        PROVE  \E v \in 1 .. Len(attrs) : Append(s, a)[n] = attrs[v]
    <2>1. CASE n = Len(s) + 1
      BY <1>2, <1>3, <2>1
    <2>2. CASE n # Len(s) + 1
      <3>1. n \in 1 .. Len(s)
        BY <1>3, <2>2
      <3> QED BY <1>3, <3>1 DEF PartOf
    <2> QED BY <2>1, <2>2
  <1>5. PartOf(Append(s, a), attrs)
    BY <1>3, <1>4, Zenon DEF PartOf
  <1> QED BY <1>2, <1>5

\* The attributes in use are attributes.
LEMMA InUseParts ==
    ASSUME NEW f, HasMeta(f), f.meta.attrs \in Seq(AttrType)
    PROVE  PartOf(InUse(f), f.meta.attrs)
  <1> DEFINE attrs == f.meta.attrs
             N     == Len(attrs)
             kept  == CHOOSE g : Kept(g, attrs, N)
  <1>1. N \in Nat
    BY Members
  <1>2. InUse(f) = kept[N]
    BY Zenon DEF InUse, Kept
  <1>3. Kept(kept, attrs, N)
    BY <1>1, KeptExists, Zenon
  <1>4. attrs \in Seq(AttrType)
    OBVIOUS
  <1> HIDE DEF attrs, kept, N
  <1>5. /\ kept[0] = <<>>
        /\ \A n \in 1 .. N : kept[n] = IF attrs[n].inuse THEN Append(kept[n - 1], attrs[n])
                                       ELSE kept[n - 1]
    <2>1. kept = [n \in 0 .. N |-> IF n = 0 THEN <<>>
                                   ELSE IF attrs[n].inuse THEN Append(kept[n - 1], attrs[n])
                                   ELSE kept[n - 1]]
      BY <1>3, Zenon DEF Kept
    <2>2. 0 \in 0 .. N /\ \A n \in 1 .. N : n \in 0 .. N /\ n # 0
      BY <1>1
    <2> QED BY <2>1, <2>2, Zenon
  <1> DEFINE S == {n \in Nat : n <= N => PartOf(kept[n], attrs)}
  <1>6. 0 \in S
    <2>1. PartOf(<<>>, attrs)
      BY DEF PartOf
    <2> QED BY <1>5, <2>1
  <1>7. ASSUME NEW n \in Nat, n \in S
        PROVE  n + 1 \in S
    <2> SUFFICES ASSUME n + 1 <= N
                 PROVE  PartOf(kept[n + 1], attrs)
      OBVIOUS
    <2>1. n + 1 \in 1 .. N /\ n <= N /\ (n + 1) - 1 = n
      BY <1>1
    <2>2. PartOf(kept[n], attrs)
      BY <1>7, <2>1
    <2>3. PartOf(Append(kept[n], attrs[n + 1]), attrs)
      BY <1>4, <2>1, <2>2, PartAppend DEF N
    <2>4. kept[n + 1] = Append(kept[n], attrs[n + 1]) \/ kept[n + 1] = kept[n]
      BY <1>5, <2>1, Zenon
    <2> QED BY <2>2, <2>3, <2>4, Zenon
  <1>8. N \in S
    <2> HIDE DEF S
    <2> QED BY <1>1, <1>6, <1>7, SetInduction
  <1> QED BY <1>1, <1>2, <1>8 DEF attrs

\* A made-up file's only attribute is in use.
LEMMA InUseOne ==
    ASSUME NEW f, HasMeta(f), NEW a, f.meta.attrs = <<a>>, a.inuse
    PROVE  InUse(f) = <<a>>
  <1> DEFINE kept == CHOOSE g : Kept(g, f.meta.attrs, Len(f.meta.attrs))
  <1>1. Len(f.meta.attrs) = 1 /\ f.meta.attrs[1] = a
    OBVIOUS
  <1>2. InUse(f) = kept[1]
    BY <1>1, Zenon DEF InUse, Kept
  <1>3. Kept(kept, f.meta.attrs, 1)
    BY <1>1, KeptExists
  <1> HIDE DEF kept
  <1>4. kept[0] = <<>> /\ kept[1] = Append(kept[0], a)
    BY <1>1, <1>3 DEF Kept
  <1> QED BY <1>2, <1>4

-----------------------------------------------------------------------------
(***************************************************************************)
(* Where the walks are: names of files are not that of the folder, and the *)
(* file system at hand is that of the volume, as is its range.             *)
(***************************************************************************)
Clean(path) == \A i \in 1 .. Len(path) : path[i] # Unallocated

NamesClean == Clean(VolName) /\ Clean(cur) /\ Clean(subdir)

RangeInv ==
    /\ pc = "vol" => /\ img.vols # <<>> /\ vol > 0
                      /\ PartBeg = RangeStart(img, NumVols) /\ PartEnd = RangeEnd(img, NumVols)
    /\ img.vols = <<>> /\ pc \notin {"open", "failed"} =>
           PartBeg = RangeStart(img, 0) /\ PartEnd = RangeEnd(img, 0)

FsInv ==
    pc \in {"fs", "flush", "fragment"} =>
        /\ NumVols \in FsIndexes(img) /\ Fs = FsOf(img, NumVols)
        /\ FSBeg = RangeStart(img, NumVols) /\ FSEnd = RangeEnd(img, NumVols)
        /\ NumVols \in DOMAIN AllocatedRuns
        /\ InUnallocated <=> pc # "fs"

MaxInv ==
    IF UCMode = "fragment" THEN MaxUnallocatedBlockSize \in MaxUcBlocks
    ELSE MaxUnallocatedBlockSize = NoLimit

SettingInv == NamesClean /\ RangeInv /\ FsInv /\ MaxInv

LEMMA FsOfTyped ==
    ASSUME NEW i \in Images, NEW k \in FsIndexes(i)
    PROVE  /\ FsOf(i, k) \in FsType /\ RangeEnd(i, k) \in 0 .. i.size /\ i.size \in Nat
           /\ k \in Nat
  <1>1. /\ i.size \in Nat /\ i.vols \in Seq(VolumeType) /\ i.fs \in {NoFs} \cup FsType
        /\ i.sectorSize \in Nat
    BY ImagesAssumption
  <1>2. FsOf(i, k) # NoFs /\ k \in IF i.vols = <<>> THEN {0} ELSE DOMAIN i.vols
    BY DEF FsIndexes
  <1>3. CASE i.vols = <<>>
    BY <1>1, <1>2, <1>3 DEF FsOf, RangeEnd
  <1>4. CASE i.vols # <<>>
    <2>1. k \in 1 .. Len(i.vols)
      BY <1>1, <1>2, <1>4
    <2>2. PICK v \in VolumeType : v = i.vols[k]
      BY <1>1, <2>1
    <2>3. v.fs \in {NoFs} \cup FsType /\ v.start \in Nat /\ v.len \in Nat
      BY DEF VolumeType
    <2>4. PICK p \in Nat : p = (v.start * v.len * i.sectorSize) % U64
      <3>1. v.start * v.len * i.sectorSize \in Nat
        BY <1>1, <2>3
      <3> QED BY <3>1, WordAssumption
    <2>5. FsOf(i, k) = v.fs /\ RangeEnd(i, k) = AtMost(p, i.size)
      BY <1>4, <2>2, <2>4 DEF FsOf, RangeEnd
    <2>6. AtMost(p, i.size) \in 0 .. i.size
      BY <1>1, MinMax
    <2>7. FsOf(i, k) \in FsType /\ k \in Nat
      BY <1>2, <2>1, <2>3, <2>5
    <2> QED BY <1>1, <2>5, <2>6, <2>7
  <1> QED BY <1>3, <1>4

LEMMA CleanNames ==
    ASSUME NEW v \in VolumeType
    PROVE  Clean(<<PartName(v)>>)
  <1>1. v.flag \in {"alloc", "meta", "unused"}
    BY DEF VolumeType
  <1>2. \/ PartName(v) = <<"part", <<v.table, v.slot>>>>
        \/ PartName(v) = <<"meta-part", <<v.start>>>>
        \/ PartName(v) = <<"unused", <<v.start>>>>
    BY <1>1, Zenon DEF PartName
  <1>3. Unallocated = <<"$Unallocated", <<>>>>
    BY DEF Unallocated, PlainName
  <1>4. PartName(v) # Unallocated
    BY <1>2, <1>3
  <1> QED BY <1>4 DEF Clean

LEMMA CleanAppend ==
    ASSUME NEW path \in Path, Clean(path), NEW v \in Name, v # Unallocated
    PROVE  Clean(Append(path, v))
  BY DEF Clean, Path

LEMMA CleanPrefix ==
    ASSUME NEW path \in Path, Clean(path), NEW n \in 0 .. Len(path)
    PROVE  Clean(SubSeq(path, 1, n))
  BY DEF Clean, Path

LEMMA CleanJoin ==
    ASSUME NEW p \in Path, NEW q \in Path, Clean(p), Clean(q)
    PROVE  Clean(p \o q)
  <1>1. ASSUME NEW i \in 1 .. Len(p \o q)
        PROVE  (p \o q)[i] # Unallocated
    <2>1. Len(p \o q) = Len(p) + Len(q) /\ Len(p) \in Nat /\ Len(q) \in Nat
      BY DEF Path
    <2>2. CASE i <= Len(p)
      <3>1. (p \o q)[i] = p[i] /\ i \in 1 .. Len(p)
        BY <2>1, <2>2 DEF Path
      <3> QED BY <3>1 DEF Clean
    <2>3. CASE i > Len(p)
      <3>1. (p \o q)[i] = q[i - Len(p)] /\ i - Len(p) \in 1 .. Len(q)
        BY <2>1, <2>3 DEF Path
      <3> QED BY <3>1 DEF Clean
    <2> QED BY <2>1, <2>2, <2>3
  <1> QED BY <1>1 DEF Clean

LEMMA InitSetting == Init => SettingInv
  <1> SUFFICES ASSUME Init
               PROVE  SettingInv
    OBVIOUS
  <1>1. pc = "open" /\ VolName = <<>> /\ cur = <<>> /\ subdir = <<>>
    BY DEF Init, NoEntry
  <1>2. UCMode = "fragment" => MaxUnallocatedBlockSize \in MaxUcBlocks
    BY DEF Init
  <1>3. UCMode # "fragment" => MaxUnallocatedBlockSize = NoLimit
    BY DEF Init
  <1>4. Clean(<<>>)
    BY DEF Clean
  <1> QED BY <1>1, <1>2, <1>3, <1>4 DEF SettingInv, NamesClean, RangeInv, FsInv, MaxInv

\* Most steps leave the names and the file system as they are, and only add maps.
SameSetting ==
    /\ UNCHANGED <<args, volume, InUnallocated, fileSys>>
    /\ DOMAIN AllocatedRuns \subseteq DOMAIN AllocatedRuns'
    /\ pc' # "vol"
    /\ pc' \in {"fs", "flush", "fragment"} => pc \in {"fs", "flush", "fragment"} /\ (pc' = "fs" <=> pc = "fs")
    /\ pc \in {"open", "failed"} => pc' = "failed"

LEMMA SameSettingKept ==
    ASSUME SettingInv, SameSetting
    PROVE  (RangeInv /\ FsInv /\ MaxInv)'
  <1>1. /\ img' = img /\ UCMode' = UCMode /\ MaxUnallocatedBlockSize' = MaxUnallocatedBlockSize
        /\ NumVols' = NumVols /\ PartBeg' = PartBeg /\ PartEnd' = PartEnd
        /\ InUnallocated' = InUnallocated /\ Fs' = Fs /\ FSBeg' = FSBeg /\ FSEnd' = FSEnd
    BY DEF SameSetting, args, volume, fileSys
  <1>2. RangeInv'
    BY <1>1 DEF SettingInv, RangeInv, SameSetting
  <1>3. FsInv'
    BY <1>1 DEF SettingInv, FsInv, SameSetting
  <1>4. MaxInv'
    BY <1>1 DEF SettingInv, MaxInv
  <1> QED BY <1>2, <1>3, <1>4

LEMMA QuietSetting ==
    ASSUME SettingInv, SameSetting, UNCHANGED <<cur, subdir>>
    PROVE  SettingInv'
  <1>1. VolName' = VolName
    BY DEF SameSetting, volume
  <1>2. NamesClean'
    BY <1>1 DEF SettingInv, NamesClean
  <1> QED BY <1>2, SameSettingKept DEF SettingInv

LEMMA QuietKeepsSetting ==
    ASSUME TypeInv
    PROVE  /\ NoFilesystem => SameSetting /\ UNCHANGED <<cur, subdir>>
           /\ WildPart => SameSetting /\ UNCHANGED <<cur, subdir>>
           /\ EndFs => SameSetting /\ UNCHANGED <<cur, subdir>>
           /\ NextFragment => SameSetting /\ UNCHANGED <<cur, subdir>>
           /\ FragmentDone => SameSetting /\ UNCHANGED <<cur, subdir>>
           /\ WalkError => SameSetting /\ UNCHANGED <<cur, subdir>>
           /\ WalkFailed => SameSetting /\ UNCHANGED <<cur, subdir>>
           /\ FinishWalk => SameSetting /\ UNCHANGED <<cur, subdir>>
           /\ OutputDiskMap => SameSetting /\ UNCHANGED <<cur, subdir>>
           /\ OutputInodeMap => SameSetting /\ UNCHANGED <<cur, subdir>>
           /\ Terminated => pc \in {"done", "failed", "crashed"} /\ UNCHANGED vars
  <1> USE DEF SameSetting, args, walk, volume, fileSys, results
  <1>1. NoFilesystem => SameSetting /\ UNCHANGED <<cur, subdir>>
    BY DEF NoFilesystem, AtFs
  <1>2. WildPart => SameSetting /\ UNCHANGED <<cur, subdir>>
    BY DEF WildPart, AtFs
  <1>3. EndFs => SameSetting /\ UNCHANGED <<cur, subdir>>
    BY DEF EndFs
  <1>4. NextFragment => SameSetting /\ UNCHANGED <<cur, subdir>>
    BY DEF NextFragment, NextExtent
  <1>5. FragmentDone => SameSetting /\ UNCHANGED <<cur, subdir>>
    BY DEF FragmentDone, NextExtent
  <1>6. WalkFailed => SameSetting /\ UNCHANGED <<cur, subdir>>
    BY DEF WalkFailed, WalkOver
  <1>7. FinishWalk => SameSetting /\ UNCHANGED <<cur, subdir>>
    BY DEF FinishWalk, WalkOver
  <1>8. OutputDiskMap => SameSetting /\ UNCHANGED <<cur, subdir>>
    BY DEF OutputDiskMap
  <1>9. OutputInodeMap => SameSetting /\ UNCHANGED <<cur, subdir>>
    BY DEF OutputInodeMap
  <1>10. Terminated => pc \in {"done", "failed", "crashed"} /\ UNCHANGED vars
    BY DEF Terminated, Stopped
  <1>11. WalkError => SameSetting /\ UNCHANGED <<cur, subdir>>
    BY DEF WalkError
  <1> QED BY <1>1, <1>2, <1>3, <1>4, <1>5, <1>6, <1>7, <1>8, <1>9, <1>10, <1>11

-----------------------------------------------------------------------------
(***************************************************************************)
(* What writing a record does to the maps.                                 *)
(***************************************************************************)
OneMap(maps, new, key, map) ==
    /\ DOMAIN new = DOMAIN maps
    /\ \A k \in DOMAIN maps : k # key => new[k] = maps[k]
    /\ key \in DOMAIN maps => new[key] = map

LEMMA SameMaps ==
    ASSUME NEW maps, NEW key
    PROVE  OneMap(maps, maps, key, maps[key])
  BY DEF OneMap

LEMMA RecordMetaMaps ==
    ASSUME NEW ctx, NEW entryId, NEW f, NEW n, RecordMeta(ctx, entryId, f, n)
    PROVE  \E attrs :
               OneMap(ctx.maps, AllocatedRuns', ctx.key,
                      writeAttrs(ctx.fs, ctx.range, f.meta.addr, SubSeq(InUse(f), 1, n),
                                 [attrs |-> attrs, map |-> ctx.maps[ctx.key]]).map)
  <1> DEFINE attrs == inodeAt(ReverseMap, <<ctx.vol, f.meta.addr>>).Attrs
             w     == writeAttrs(ctx.fs, ctx.range, f.meta.addr, SubSeq(InUse(f), 1, n),
                                 [attrs |-> attrs, map |-> ctx.maps[ctx.key]])
  <1>1. AllocatedRuns' = [ctx.maps EXCEPT ![ctx.key] = w.map]
    BY Zenon DEF RecordMeta
  <1> HIDE DEF w
  <1>2. OneMap(ctx.maps, AllocatedRuns', ctx.key, w.map)
    BY <1>1 DEF OneMap
  <1> HIDE DEF attrs
  <1> QED BY <1>2, Zenon DEF w

LEMMA WriteFileMaps ==
    ASSUME NEW ctx, NEW dirs, NEW f, writeFile(ctx, dirs, f)
    PROVE  \/ OneMap(ctx.maps, AllocatedRuns', ctx.key, ctx.maps[ctx.key])
           \/ /\ HasMeta(f)
              /\ \E n \in 0 .. Len(InUse(f)) \cup {Len(InUse(f))} : \E attrs :
                     OneMap(ctx.maps, AllocatedRuns', ctx.key,
                            writeAttrs(ctx.fs, ctx.range, f.meta.addr, SubSeq(InUse(f), 1, n),
                                       [attrs |-> attrs, map |-> ctx.maps[ctx.key]]).map)
  <1> DEFINE rec == Record(ctx, back(dirs), f)
  <1>1. \/ AllocatedRuns' = ctx.maps
        \/ HasMeta(f) /\ \E n \in 0 .. Len(InUse(f)) : RecordMeta(ctx, rec.id, f, n)
        \/ HasMeta(f) /\ RecordMeta(ctx, rec.id, f, Len(InUse(f)))
    BY Zenon DEF writeFile
  <1> HIDE DEF rec
  <1>2. CASE AllocatedRuns' = ctx.maps
    BY <1>2, SameMaps
  <1>3. CASE HasMeta(f) /\ \E n \in 0 .. Len(InUse(f)) : RecordMeta(ctx, rec.id, f, n)
    <2>1. PICK n \in 0 .. Len(InUse(f)) : RecordMeta(ctx, rec.id, f, n)
      BY <1>3
    <2> QED BY <1>3, <2>1, RecordMetaMaps
  <1>4. CASE HasMeta(f) /\ RecordMeta(ctx, rec.id, f, Len(InUse(f)))
    <2>1. PICK n \in 0 .. Len(InUse(f)) \cup {Len(InUse(f))} : RecordMeta(ctx, rec.id, f, n)
      BY <1>4, Zenon
    <2> QED BY <1>4, <2>1, RecordMetaMaps
  <1> QED BY <1>1, <1>2, <1>3, <1>4

\* Whatever is written, one map at most changes, and only by runs that are inside of
\* blocks of its file system.
Grown(maps, new, key, fs, end, inum, P) ==
    \E map : OneMap(maps, new, key, map) /\ Grows(maps[key], map, fs, end, inum, P)

LEMMA PartWithin ==
    ASSUME NEW fs, NEW end, NEW P, NEW attrs \in Seq(AttrType), NEW s, PartOf(s, attrs),
           AttrsWithin(fs, end, attrs), AttrsCovered(fs, attrs, P),
           NEW n \in 0 .. Len(s) \cup {Len(s)}
    PROVE  /\ SubSeq(s, 1, n) \in Seq(AttrType)
           /\ AttrsWithin(fs, end, SubSeq(s, 1, n)) /\ AttrsCovered(fs, SubSeq(s, 1, n), P)
  <1>1. s \in Seq(AttrType) /\ n \in 0 .. Len(s)
    BY DEF PartOf
  <1>2. /\ SubSeq(s, 1, n) \in Seq(AttrType) /\ Len(SubSeq(s, 1, n)) = n
        /\ \A k \in 1 .. n : SubSeq(s, 1, n)[k] = s[k]
    BY <1>1
  <1>3. ASSUME NEW k \in 1 .. n
        PROVE  \E w \in 1 .. Len(attrs) : SubSeq(s, 1, n)[k] = attrs[w]
    <2>1. k \in 1 .. Len(s)
      BY <1>1
    <2> QED BY <1>2, <2>1 DEF PartOf
  <1>4. AttrsWithin(fs, end, SubSeq(s, 1, n))
    BY <1>2, <1>3, Zenon DEF AttrsWithin
  <1>5. AttrsCovered(fs, SubSeq(s, 1, n), P)
    BY <1>2, <1>3, Zenon DEF AttrsCovered
  <1> QED BY <1>2, <1>4, <1>5

LEMMA WriteFileGrows ==
    ASSUME NEW ctx, NEW dirs, NEW f, writeFile(ctx, dirs, f),
           NEW fs \in FsType, NEW beg \in Int, NEW end \in Nat, NEW P,
           ctx.fs = fs, ctx.range = <<beg, end>>, Mapped(ctx.maps[ctx.key], fs, end),
           HasMeta(f) => /\ f.meta.attrs \in Seq(AttrType)
                         /\ AttrsWithin(fs, end, f.meta.attrs) /\ AttrsCovered(fs, f.meta.attrs, P)
    PROVE  Grown(ctx.maps, AllocatedRuns', ctx.key, fs, end, f.meta.addr, P)
  <1> DEFINE old == ctx.maps[ctx.key]
  <1>1. CASE OneMap(ctx.maps, AllocatedRuns', ctx.key, old)
    <2>1. Grows(old, old, fs, end, f.meta.addr, P)
      BY TouchesNothing DEF Grows
    <2> QED BY <1>1, <2>1, Zenon DEF Grown
  <1>2. ASSUME HasMeta(f), NEW n \in 0 .. Len(InUse(f)) \cup {Len(InUse(f))}, NEW attrs,
               OneMap(ctx.maps, AllocatedRuns', ctx.key,
                      writeAttrs(ctx.fs, ctx.range, f.meta.addr, SubSeq(InUse(f), 1, n),
                                 [attrs |-> attrs, map |-> old]).map)
        PROVE  Grown(ctx.maps, AllocatedRuns', ctx.key, fs, end, f.meta.addr, P)
    <2>1. PartOf(InUse(f), f.meta.attrs)
      BY <1>2, InUseParts
    <2> DEFINE front == SubSeq(InUse(f), 1, n)
               s     == [attrs |-> attrs, map |-> old]
               map   == writeAttrs(fs, <<beg, end>>, f.meta.addr, front, s).map
    <2>2. front \in Seq(AttrType) /\ AttrsWithin(fs, end, front) /\ AttrsCovered(fs, front, P)
      BY <1>2, <2>1, PartWithin
    <2>3. s.map = old
      OBVIOUS
    <2>4. OneMap(ctx.maps, AllocatedRuns', ctx.key, map)
      BY <1>2, Zenon
    <2> HIDE DEF front, s
    <2>5. Grows(old, map, fs, end, f.meta.addr, P)
      BY <2>2, <2>3, WriteAttrsDoes
    <2> QED BY <2>4, <2>5, Zenon DEF Grown
  <1> HIDE DEF old
  <1>3. \/ OneMap(ctx.maps, AllocatedRuns', ctx.key, old)
        \/ /\ HasMeta(f)
           /\ \E n \in 0 .. Len(InUse(f)) \cup {Len(InUse(f))} : \E attrs :
                  OneMap(ctx.maps, AllocatedRuns', ctx.key,
                         writeAttrs(ctx.fs, ctx.range, f.meta.addr, SubSeq(InUse(f), 1, n),
                                    [attrs |-> attrs, map |-> old]).map)
    BY WriteFileMaps, Zenon DEF old
  <1> QED BY <1>1, <1>2, <1>3, Zenon

LEMMA WriteFileOneMap ==
    ASSUME NEW ctx, NEW dirs, NEW f, writeFile(ctx, dirs, f)
    PROVE  \E map : OneMap(ctx.maps, AllocatedRuns', ctx.key, map)
  BY WriteFileMaps, Zenon

LEMMA WithMapDomain ==
    ASSUME NEW k
    PROVE  /\ DOMAIN WithMap(k) = DOMAIN AllocatedRuns \cup {k}
           /\ \A x \in DOMAIN AllocatedRuns : WithMap(k)[x] = AllocatedRuns[x]
           /\ k \notin DOMAIN AllocatedRuns => WithMap(k)[k] = NoRuns
  BY DEF WithMap

-----------------------------------------------------------------------------
(***************************************************************************)
(* The steps that change the setting.                                      *)
(***************************************************************************)
LEMMA OpenImageSetting == TypeInv /\ SettingInv /\ OpenImage => SettingInv'
  <1> SUFFICES ASSUME TypeInv, SettingInv, OpenImage
               PROVE  SettingInv'
    OBVIOUS
  <1>1. /\ UNCHANGED <<cur, subdir, VolName, img, UCMode, MaxUnallocatedBlockSize>>
        /\ pc' = "failed" \/ (pc' = "walk" /\ PartBeg' = 0 /\ PartEnd' = img.size)
    BY DEF OpenImage, Start, walk, volume, args
  <1>2. NamesClean'
    BY <1>1 DEF SettingInv, NamesClean
  <1>3. RangeInv' /\ FsInv'
    BY <1>1 DEF RangeInv, FsInv, RangeStart, RangeEnd
  <1>4. MaxInv'
    BY <1>1 DEF SettingInv, MaxInv
  <1> QED BY <1>2, <1>3, <1>4 DEF SettingInv

LEMMA StartUnallocatedSetting == TypeInv /\ SettingInv /\ StartUnallocated => SettingInv'
  <1> SUFFICES ASSUME TypeInv, SettingInv, StartUnallocated
               PROVE  SettingInv'
    OBVIOUS
  <1>1. /\ UNCHANGED <<cur, subdir, VolName, img, UCMode, MaxUnallocatedBlockSize>>
        /\ pc' = "walk" /\ PartBeg' = 0 /\ PartEnd' = img.size
    BY DEF StartUnallocated, Start, args
  <1>2. NamesClean'
    BY <1>1 DEF SettingInv, NamesClean
  <1>3. RangeInv' /\ FsInv'
    BY <1>1 DEF RangeInv, FsInv, RangeStart, RangeEnd
  <1>4. MaxInv'
    BY <1>1 DEF SettingInv, MaxInv
  <1> QED BY <1>2, <1>3, <1>4 DEF SettingInv

LEMMA VolumeHere ==
    ASSUME TypeInv, vol < Len(img.vols)
    PROVE  /\ vol \in Nat /\ img.vols # <<>> /\ NumVols = vol
           /\ img.vols[vol + 1] \in VolumeType
  <1>1. img \in Images /\ vol \in Nat
    BY DEF TypeInv, ControlTyped
  <1>2. img.vols \in Seq(VolumeType) /\ Len(img.vols) \in Nat
    BY <1>1, ImageFacts
  <1>3. img.vols # <<>>
    BY <1>1, <1>2
  <1>4. NumVols = vol
    BY <1>3 DEF TypeInv, ControlTyped
  <1>5. vol + 1 \in 1 .. Len(img.vols)
    BY <1>1, <1>2
  <1> QED BY <1>1, <1>2, <1>3, <1>4, <1>5

LEMMA FilterVolSetting == TypeInv /\ SettingInv /\ FilterVol => SettingInv'
  <1> SUFFICES ASSUME TypeInv, SettingInv, FilterVol
               PROVE  SettingInv'
    OBVIOUS
  <1> DEFINE v == img.vols[vol + 1]
  <1>1. vol < Len(img.vols)
    BY DEF FilterVol
  <1>2. /\ pc' = "vol" /\ vol' = vol + 1 /\ NumVols' = NumVols + 1 /\ VolName' = <<PartName(v)>>
        /\ PartBeg' = AtMost((v.start * img.sectorSize) % U64, img.size)
        /\ PartEnd' = AtMost((v.start * v.len * img.sectorSize) % U64, img.size)
        /\ UNCHANGED <<cur, subdir, img, UCMode, MaxUnallocatedBlockSize>>
    BY Zenon DEF FilterVol, args
  <1>3. vol \in Nat /\ img.vols # <<>> /\ NumVols = vol /\ v \in VolumeType
    BY <1>1, VolumeHere
  <1>4. NamesClean'
    BY <1>2, <1>3, CleanNames DEF SettingInv, NamesClean
  <1>5. PartBeg' = RangeStart(img, vol + 1) /\ PartEnd' = RangeEnd(img, vol + 1)
    BY <1>2, <1>3, Zenon DEF RangeStart, RangeEnd
  <1>6. RangeInv'
    BY <1>2, <1>3, <1>5 DEF RangeInv
  <1>7. FsInv'
    BY <1>2 DEF FsInv
  <1>8. MaxInv'
    BY <1>2 DEF SettingInv, MaxInv
  <1> QED BY <1>4, <1>6, <1>7, <1>8 DEF SettingInv

\* The file system that filterFs is called with.
LEMMA FsHereIs ==
    ASSUME TypeInv, SettingInv, AtFs, FsHere # NoFs
    PROVE  /\ FsHere = FsOf(img, NumVols) /\ NumVols \in FsIndexes(img)
           /\ PartBeg = RangeStart(img, NumVols) /\ PartEnd = RangeEnd(img, NumVols)
           /\ img.vols = <<>> => vol = 0 /\ pc = "walk"
           /\ img.vols # <<>> => pc = "vol"
  <1>1. img \in Images /\ vol \in Nat /\ IF img.vols = <<>> THEN NumVols = 0 ELSE NumVols = vol /\ vol <= Len(img.vols)
    BY DEF TypeInv, ControlTyped
  <1>2. img.vols \in Seq(VolumeType) /\ Len(img.vols) \in Nat
    BY <1>1, ImageFacts
  <1>3. CASE pc = "vol"
    <2>1. /\ img.vols # <<>> /\ vol > 0
          /\ PartBeg = RangeStart(img, NumVols) /\ PartEnd = RangeEnd(img, NumVols)
      BY <1>3 DEF SettingInv, RangeInv
    <2>2. NumVols = vol /\ NumVols \in DOMAIN img.vols
      BY <1>1, <1>2, <2>1
    <2>3. FsHere = FsOf(img, NumVols)
      BY <2>1, <2>2, Zenon DEF FsHere, FsOf
    <2>4. NumVols \in FsIndexes(img)
      BY <2>1, <2>2, <2>3 DEF FsIndexes
    <2> QED BY <1>3, <2>1, <2>3, <2>4
  <1>4. CASE pc = "walk" /\ img.vols = <<>> /\ vol = 0
    <2>1. NumVols = 0 /\ PartBeg = RangeStart(img, 0) /\ PartEnd = RangeEnd(img, 0)
      BY <1>1, <1>4 DEF SettingInv, RangeInv
    <2>2. FsHere = FsOf(img, NumVols)
      BY <1>4, Zenon DEF FsHere, FsOf
    <2>3. NumVols \in FsIndexes(img)
      BY <1>4, <2>1, <2>2 DEF FsIndexes
    <2> QED BY <1>4, <2>1, <2>2, <2>3
  <1> QED BY <1>3, <1>4 DEF AtFs

\* Both walks set up a file system alike.
LEMMA SetFsInfoSetting ==
    ASSUME TypeInv, SettingInv, AtFs, FsHere # NoFs, setFsInfo, UNCHANGED <<args, volume>>,
           UNCHANGED InUnallocated,
           NumVols \in DOMAIN AllocatedRuns', pc' = IF InUnallocated THEN "flush" ELSE "fs"
    PROVE  (RangeInv /\ FsInv /\ MaxInv)'
  <1>1. /\ FsHere = FsOf(img, NumVols) /\ NumVols \in FsIndexes(img)
        /\ PartBeg = RangeStart(img, NumVols) /\ PartEnd = RangeEnd(img, NumVols)
        /\ img.vols = <<>> => vol = 0 /\ pc = "walk"
        /\ img.vols # <<>> => pc = "vol"
    BY FsHereIs
  <1>2. /\ img' = img /\ UCMode' = UCMode /\ MaxUnallocatedBlockSize' = MaxUnallocatedBlockSize
        /\ NumVols' = NumVols /\ PartBeg' = PartBeg /\ PartEnd' = PartEnd
    BY DEF args, volume
  <1>3. Fs' = FsHere /\ FSBeg' = PartBeg /\ FSEnd' = PartEnd
    BY DEF setFsInfo
  <1>4. RangeInv'
    BY <1>1, <1>2 DEF SettingInv, RangeInv
  <1>5. FsInv'
    BY <1>1, <1>2, <1>3 DEF FsInv, TypeInv, FlagTyped
  <1>6. MaxInv'
    BY <1>2 DEF SettingInv, MaxInv
  <1> QED BY <1>4, <1>5, <1>6

LEMMA FilterFsSetting == TypeInv /\ SettingInv /\ FilterFs => SettingInv'
  <1> SUFFICES ASSUME TypeInv, SettingInv, FilterFs
               PROVE  SettingInv'
    OBVIOUS
  <1>1. /\ AtFs /\ FsHere # NoFs /\ ~InUnallocated /\ setFsInfo
        /\ UNCHANGED <<args, volume>> /\ UNCHANGED InUnallocated
        /\ AllocatedRuns' = WithMap(NumVols) /\ pc' = "fs"
        /\ cur' = <<>> /\ subdir' = <<>>
    BY DEF FilterFs, NoEntry
  <1>2. NumVols \in DOMAIN AllocatedRuns'
    BY <1>1, WithMapDomain
  <1>3. VolName' = VolName
    BY <1>1 DEF volume
  <1>4. NamesClean'
    BY <1>1, <1>3 DEF SettingInv, NamesClean, Clean
  <1>5. (RangeInv /\ FsInv /\ MaxInv)'
    BY <1>1, <1>2, SetFsInfoSetting
  <1> QED BY <1>4, <1>5 DEF SettingInv

LEMMA FilterFsUnallocatedSetting == TypeInv /\ SettingInv /\ FilterFsUnallocated => SettingInv'
  <1> SUFFICES ASSUME TypeInv, SettingInv, FilterFsUnallocated
               PROVE  SettingInv'
    OBVIOUS
  <1> DEFINE ds  == [Dirs EXCEPT ![Len(Dirs)].count = @ + NumRootEntries[NumVols]]
             ctx == Context(FsHere, <<PartBeg, PartEnd>>, WithMap(NumVols))
  <1>1. /\ AtFs /\ FsHere # NoFs /\ InUnallocated /\ setFsInfo
        /\ UNCHANGED <<args, volume>> /\ UNCHANGED InUnallocated
        /\ processFile(ds, ctx, <<>>, UnallocatedFolder) /\ pc' = "flush"
        /\ UNCHANGED <<cur, subdir>>
    BY Zenon DEF FilterFsUnallocated
  <1>2. NumVols \in DOMAIN AllocatedRuns'
    <2>1. PICK dirs : writeFile(ctx, dirs, UnallocatedFolder)
      BY <1>1, Zenon DEF processFile
    <2>2. ctx.maps = WithMap(NumVols)
      BY DEF Context
    <2> HIDE DEF ctx
    <2>3. DOMAIN AllocatedRuns' = DOMAIN WithMap(NumVols)
      BY <2>1, <2>2, WriteFileOneMap DEF OneMap
    <2> QED BY <2>3, WithMapDomain
  <1>3. VolName' = VolName
    BY <1>1 DEF volume
  <1>4. NamesClean'
    BY <1>1, <1>3 DEF SettingInv, NamesClean
  <1>5. (RangeInv /\ FsInv /\ MaxInv)'
    BY <1>1, <1>2, SetFsInfoSetting
  <1> QED BY <1>4, <1>5 DEF SettingInv

LEMMA WriteSameDomain ==
    ASSUME NEW ds, NEW fs, NEW range, NEW path, NEW f,
           processFile(ds, Context(fs, range, AllocatedRuns), path, f)
    PROVE  DOMAIN AllocatedRuns' = DOMAIN AllocatedRuns
  <1> DEFINE ctx == Context(fs, range, AllocatedRuns)
  <1>1. PICK dirs : writeFile(ctx, dirs, f)
    BY Zenon DEF processFile
  <1>2. ctx.maps = AllocatedRuns
    BY DEF Context
  <1> HIDE DEF ctx
  <1> QED BY <1>1, <1>2, WriteFileOneMap DEF OneMap

LEMMA EmitSetting == TypeInv /\ SettingInv /\ (FragmentBlock \/ FragmentPiece) => SettingInv'
  <1> SUFFICES ASSUME TypeInv, SettingInv, FragmentBlock \/ FragmentPiece
               PROVE  SettingInv'
    OBVIOUS
  <1>1. PICK run : emitUnallocated(run)
    BY Zenon DEF FragmentBlock, FragmentPiece
  <1>2. DOMAIN AllocatedRuns' = DOMAIN AllocatedRuns
    BY <1>1, WriteSameDomain, Zenon DEF emitUnallocated
  <1>3. SameSetting /\ UNCHANGED <<cur, subdir>>
    BY <1>2 DEF FragmentBlock, FragmentPiece, SameSetting, walk
  <1> QED BY <1>3, QuietSetting

LEMMA NextPathsClean ==
    ASSUME TypeInv, SettingInv, NEW path \in NextPaths
    PROVE  path \in Path /\ Clean(path)
  <1>1. path \in Path
    BY NextPathsTyped
  <1>2. cur \in Path /\ Clean(cur) /\ Clean(subdir)
    BY DEF TypeInv, ControlTyped, SettingInv, NamesClean
  <1>3. path = subdir \/ \E n \in 0 .. Len(cur) : path = SubSeq(cur, 1, n)
    BY DEF NextPaths
  <1> QED BY <1>1, <1>2, <1>3, CleanPrefix

LEMMA ProcessFileSetting ==
    ASSUME NamesKept, TypeInv, SettingInv, ProcessFile
    PROVE  SettingInv'
  <1>1. PICK f \in Entries, path \in NextPaths :
            /\ processFile(Dirs, Context(Fs, <<FSBeg, FSEnd>>, AllocatedRuns), path, f)
            /\ cur' = path
            /\ subdir' = IF f.type = "dir" THEN Append(path, f.name) ELSE NoEntry
    BY Zenon DEF ProcessFile
  <1>2. path \in Path /\ Clean(path)
    BY NextPathsClean
  <1>3. f.name \in Name /\ f.name # Unallocated
    BY EntriesAssumption DEF NamesKept
  <1>4. Clean(Append(path, f.name)) /\ Clean(NoEntry)
    BY <1>2, <1>3, CleanAppend DEF Clean, NoEntry
  <1>5. DOMAIN AllocatedRuns' = DOMAIN AllocatedRuns
    BY <1>1, WriteSameDomain, Zenon
  <1>6. SameSetting
    BY <1>5 DEF ProcessFile, SameSetting
  <1>7. VolName' = VolName
    BY <1>6 DEF SameSetting, volume
  <1>8. NamesClean'
    BY <1>1, <1>2, <1>4, <1>7 DEF SettingInv, NamesClean
  <1> QED BY <1>6, <1>8, SameSettingKept DEF SettingInv

LEMMA NextSetting ==
    ASSUME NamesKept, TypeInv, SettingInv, [Next]_vars
    PROVE  SettingInv'
  <1>1. CASE NoFilesystem \/ WildPart \/ EndFs \/ WalkError \/ NextFragment \/ FragmentDone
             \/ WalkFailed \/ FinishWalk \/ OutputDiskMap \/ OutputInodeMap
    BY <1>1, QuietKeepsSetting, QuietSetting
  <1>2. CASE UNCHANGED vars
    BY <1>2 DEF vars, args, walk, volume, fileSys, results, SettingInv, NamesClean, RangeInv,
                FsInv, MaxInv
  <1>3. CASE Terminated
    <2>1. UNCHANGED vars
      BY <1>3 DEF Terminated
    <2> QED BY <1>2, <2>1
  <1>4. CASE OpenImage
    BY <1>4, OpenImageSetting
  <1>5. CASE FilterVol
    BY <1>5, FilterVolSetting
  <1>6. CASE FilterFs
    BY <1>6, FilterFsSetting
  <1>7. CASE FilterFsUnallocated
    BY <1>7, FilterFsUnallocatedSetting
  <1>8. CASE ProcessFile
    BY <1>8, ProcessFileSetting
  <1>9. CASE FragmentBlock \/ FragmentPiece
    BY <1>9, EmitSetting
  <1>10. CASE StartUnallocated
    BY <1>10, StartUnallocatedSetting
  <1> QED BY <1>1, <1>2, <1>3, <1>4, <1>5, <1>6, <1>7, <1>8, <1>9, <1>10 DEF Next

-----------------------------------------------------------------------------
(***************************************************************************)
(* The map of each file system ends its extents with blocks.               *)
(***************************************************************************)
MapsInv ==
    \A k \in DOMAIN AllocatedRuns :
        k \in FsIndexes(img) => Mapped(AllocatedRuns[k], FsOf(img, k), RangeEnd(img, k))

LEMMA EmptyMapped ==
    ASSUME NEW fs, NEW end
    PROVE  Mapped(NoRuns, fs, end)
  BY DEF Mapped, NoRuns

LEMMA WithMapMapped ==
    ASSUME MapsInv, NEW k, NEW x \in DOMAIN WithMap(k), x \in FsIndexes(img)
    PROVE  Mapped(WithMap(k)[x], FsOf(img, x), RangeEnd(img, x))
  <1>1. CASE x \in DOMAIN AllocatedRuns
    BY <1>1, WithMapDomain DEF MapsInv
  <1>2. CASE x \notin DOMAIN AllocatedRuns
    <2>1. x = k /\ WithMap(k)[x] = NoRuns
      BY <1>2, WithMapDomain
    <2> QED BY <2>1, EmptyMapped
  <1> QED BY <1>1, <1>2

LEMMA OneMapMapped ==
    ASSUME img' = img, NEW maps,
           \A k \in DOMAIN maps : k \in FsIndexes(img) => Mapped(maps[k], FsOf(img, k), RangeEnd(img, k)),
           NEW key, NEW map, OneMap(maps, AllocatedRuns', key, map),
           key \in FsIndexes(img) => Mapped(map, FsOf(img, key), RangeEnd(img, key))
    PROVE  MapsInv'
  <1>1. FsIndexes(img') = FsIndexes(img)
    OBVIOUS
  <1>2. ASSUME NEW k \in DOMAIN AllocatedRuns', k \in FsIndexes(img)
        PROVE  Mapped(AllocatedRuns'[k], FsOf(img, k), RangeEnd(img, k))
    <2>1. CASE k = key
      BY <1>2, <2>1, Zenon DEF OneMap
    <2>2. CASE k # key
      BY <1>2, <2>2, Zenon DEF OneMap
    <2> QED BY <2>1, <2>2
  <1> QED BY <1>2, Zenon DEF MapsInv

\* Data of volumes goes into a map of its own.
LEMMA FilterVolWrites ==
    ASSUME FilterVol
    PROVE  \/ AllocatedRuns' = AllocatedRuns
           \/ ~InUnallocated /\ \E map : OneMap(WithMap(0), AllocatedRuns', 0, map)
  <1> DEFINE v     == img.vols[vol + 1]
             k     == NumVols + 1
             root  == SubSeq(Dirs, 1, 1)
             ds    == IF InUnallocated THEN root ELSE setCurDir(root, <<>>)
             ctx   == [vol |-> k, fsIndex |-> 0, fs |-> ImageAsFs, range |-> <<0, img.size>>,
                       key |-> 0, maps |-> WithMap(0)]
  <1>1. UNCHANGED results \/ (~InUnallocated /\ writeFile(ctx, ds, VolumeEntry(v, k, img.sectorSize)))
    BY Zenon DEF FilterVol
  <1>2. ctx.maps = WithMap(0) /\ ctx.key = 0
    OBVIOUS
  <1> HIDE DEF ctx, ds, v, k
  <1>3. CASE UNCHANGED results
    BY <1>3 DEF results
  <1>4. CASE ~InUnallocated /\ writeFile(ctx, ds, VolumeEntry(v, k, img.sectorSize))
    <2>1. \E map : OneMap(ctx.maps, AllocatedRuns', ctx.key, map)
      BY <1>4, WriteFileOneMap
    <2> QED BY <1>2, <1>4, <2>1
  <1> QED BY <1>1, <1>3, <1>4

LEMMA NoFsZero ==
    ASSUME img \in Images, img.vols # <<>>
    PROVE  0 \notin FsIndexes(img) /\ FsIndexes(img) \subseteq 1 .. Len(img.vols)
  <1>1. img.vols \in Seq(VolumeType)
    BY ImageFacts
  <1>2. FsIndexes(img) \subseteq DOMAIN img.vols
    BY DEF FsIndexes
  <1> QED BY <1>1, <1>2

LEMMA FilterVolMaps ==
    ASSUME TypeInv, MapsInv, FilterVol
    PROVE  MapsInv'
  <1>1. img' = img
    BY DEF FilterVol, args
  <1>2. CASE AllocatedRuns' = AllocatedRuns
    BY <1>1, <1>2, Zenon DEF MapsInv
  <1>3. ASSUME NEW map, OneMap(WithMap(0), AllocatedRuns', 0, map)
        PROVE  MapsInv'
    <2>1. vol < Len(img.vols)
      BY DEF FilterVol
    <2>2. 0 \notin FsIndexes(img)
      BY <2>1, VolumeHere, NoFsZero DEF TypeInv, ControlTyped
    <2> QED BY <1>1, <1>3, <2>2, WithMapMapped, OneMapMapped
  <1> QED BY <1>2, <1>3, FilterVolWrites

LEMMA FilterFsMaps ==
    ASSUME MapsInv, FilterFs
    PROVE  MapsInv'
  <1>1. img' = img /\ AllocatedRuns' = WithMap(NumVols)
    BY DEF FilterFs, args
  <1> QED BY <1>1, WithMapMapped DEF MapsInv

\* The folder's record has no data.
LEMMA FolderMaps ==
    ASSUME FilterFsUnallocated
    PROVE  \E map : OneMap(WithMap(NumVols), AllocatedRuns', NumVols, map)
                        /\ map = WithMap(NumVols)[NumVols]
  <1> DEFINE ds  == [Dirs EXCEPT ![Len(Dirs)].count = @ + NumRootEntries[NumVols]]
             ctx == Context(FsHere, <<PartBeg, PartEnd>>, WithMap(NumVols))
  <1>1. processFile(ds, ctx, <<>>, UnallocatedFolder)
    BY Zenon DEF FilterFsUnallocated
  <1>2. PICK dirs : writeFile(ctx, dirs, UnallocatedFolder)
    BY <1>1, Zenon DEF processFile
  <1>3. ~HasMeta(UnallocatedFolder)
    BY DEF HasMeta, UnallocatedFolder
  <1>4. ctx.maps = WithMap(NumVols) /\ ctx.key = NumVols
    BY DEF Context
  <1> HIDE DEF ctx
  <1>5. OneMap(ctx.maps, AllocatedRuns', ctx.key, ctx.maps[ctx.key])
    BY <1>2, <1>3, WriteFileMaps, Zenon
  <1> QED BY <1>4, <1>5

LEMMA FilterFsUnallocatedMaps ==
    ASSUME MapsInv, FilterFsUnallocated
    PROVE  MapsInv'
  <1>1. img' = img
    BY DEF FilterFsUnallocated, args
  <1>2. PICK map : OneMap(WithMap(NumVols), AllocatedRuns', NumVols, map)
                       /\ map = WithMap(NumVols)[NumVols]
    BY FolderMaps
  <1>3. NumVols \in DOMAIN WithMap(NumVols)
    BY WithMapDomain
  <1> QED BY <1>1, <1>2, <1>3, WithMapMapped, OneMapMapped

\* The attributes of a file end with blocks.
LEMMA EntryWithin ==
    ASSUME BlocksWhole, img \in Images, NEW k \in FsIndexes(img), NEW f \in Entries, HasMeta(f)
    PROVE  /\ f.meta.attrs \in Seq(AttrType)
           /\ AttrsWithin(FsOf(img, k), RangeEnd(img, k), f.meta.attrs)
           /\ AttrsCovered(FsOf(img, k), f.meta.attrs, Int)
  <1>1. f.meta # NoMeta /\ f.meta \in MetaType
    BY EntriesAssumption DEF HasMeta
  <1>2. f.meta.attrs \in Seq(AttrType)
    BY <1>1 DEF MetaType
  <1>3. ASSUME NEW n \in 1 .. Len(f.meta.attrs)
        PROVE  RunsWithin(FsOf(img, k), RangeEnd(img, k), f.meta.attrs[n])
    <2>1. PICK a \in AttrType : a = f.meta.attrs[n]
      BY <1>2, Members
    <2>2. a.runs \in Seq(RunType)
      BY DEF AttrType
    <2>3. n \in DOMAIN f.meta.attrs
      BY <1>2
    <2>4. \A r \in 1 .. Len(a.runs) : r \in DOMAIN a.runs
      BY <2>2
    <2>5. \A r \in DOMAIN a.runs : Within(FsOf(img, k), RangeEnd(img, k), a.runs[r].addr + a.runs[r].len)
      BY <1>1, <2>1, <2>3, Zenon DEF BlocksWhole
    <2>6. RunsWithin(FsOf(img, k), RangeEnd(img, k), a)
      BY <2>4, <2>5, Zenon DEF RunsWithin
    <2> QED BY <2>1, <2>6
  <1>4. AttrsWithin(FsOf(img, k), RangeEnd(img, k), f.meta.attrs)
    BY <1>3, Zenon DEF AttrsWithin
  <1>5. AttrsCovered(FsOf(img, k), f.meta.attrs, Int)
    BY DEF AttrsCovered, RunsCovered, BytesFrom
  <1> QED BY <1>2, <1>4, <1>5

LEMMA FsAtHand ==
    ASSUME TypeInv, SettingInv, MapsInv, pc \in {"fs", "flush", "fragment"}
    PROVE  /\ img \in Images /\ NumVols \in FsIndexes(img) /\ NumVols \in Nat
           /\ Fs \in FsType /\ FSBeg \in Int /\ FSEnd \in Nat /\ FSEnd <= img.size /\ img.size \in Nat
           /\ Fs = FsOf(img, NumVols)
           /\ FSBeg = RangeStart(img, NumVols) /\ FSEnd = RangeEnd(img, NumVols)
           /\ NumVols \in DOMAIN AllocatedRuns
           /\ Mapped(AllocatedRuns[NumVols], Fs, FSEnd)
  <1>1. img \in Images /\ FSBeg \in 0 .. img.size
    BY DEF TypeInv, ControlTyped, RangesTyped
  <1>2. /\ NumVols \in FsIndexes(img) /\ Fs = FsOf(img, NumVols)
        /\ FSBeg = RangeStart(img, NumVols) /\ FSEnd = RangeEnd(img, NumVols)
        /\ NumVols \in DOMAIN AllocatedRuns
    BY DEF SettingInv, FsInv
  <1>3. /\ Fs \in FsType /\ FSEnd \in 0 .. img.size /\ img.size \in Nat /\ NumVols \in Nat
    BY <1>1, <1>2, FsOfTyped
  <1>4. Mapped(AllocatedRuns[NumVols], Fs, FSEnd)
    BY <1>2 DEF MapsInv
  <1> QED BY <1>1, <1>2, <1>3, <1>4

LEMMA ProcessFileMaps ==
    ASSUME BlocksWhole, TypeInv, SettingInv, MapsInv, ProcessFile
    PROVE  MapsInv'
  <1> DEFINE ctx == Context(Fs, <<FSBeg, FSEnd>>, AllocatedRuns)
  <1>1. PICK f \in Entries, path \in NextPaths : processFile(Dirs, ctx, path, f)
    BY Zenon DEF ProcessFile
  <1>2. PICK dirs : writeFile(ctx, dirs, f)
    BY <1>1, Zenon DEF processFile
  <1>3. ctx.fs = Fs /\ ctx.range = <<FSBeg, FSEnd>> /\ ctx.key = NumVols /\ ctx.maps = AllocatedRuns
    BY DEF Context
  <1> HIDE DEF ctx
  <1>4. pc = "fs" /\ img' = img
    BY DEF ProcessFile, args
  <1>5. /\ img \in Images /\ NumVols \in FsIndexes(img)
        /\ Fs \in FsType /\ FSBeg \in Int /\ FSEnd \in Nat
        /\ Fs = FsOf(img, NumVols) /\ FSEnd = RangeEnd(img, NumVols)
        /\ NumVols \in DOMAIN AllocatedRuns
        /\ Mapped(AllocatedRuns[NumVols], Fs, FSEnd)
    BY <1>4, FsAtHand
  <1>6. HasMeta(f) => /\ f.meta.attrs \in Seq(AttrType)
                      /\ AttrsWithin(Fs, FSEnd, f.meta.attrs) /\ AttrsCovered(Fs, f.meta.attrs, Int)
    BY <1>5, EntryWithin
  <1>7. Mapped(ctx.maps[ctx.key], Fs, FSEnd)
    BY <1>3, <1>5
  <1>8. Grown(ctx.maps, AllocatedRuns', ctx.key, Fs, FSEnd, f.meta.addr, Int)
    BY <1>2, <1>3, <1>5, <1>6, <1>7, WriteFileGrows
  <1>9. PICK map : /\ OneMap(AllocatedRuns, AllocatedRuns', NumVols, map)
                   /\ Mapped(map, Fs, FSEnd)
    BY <1>3, <1>8, Zenon DEF Grown, Grows
  <1>10. \A k \in DOMAIN AllocatedRuns :
             k \in FsIndexes(img) => Mapped(AllocatedRuns[k], FsOf(img, k), RangeEnd(img, k))
    BY DEF MapsInv
  <1> QED BY <1>4, <1>5, <1>9, <1>10, OneMapMapped

-----------------------------------------------------------------------------
(***************************************************************************)
(* Emitting an unallocated run.                                            *)
(***************************************************************************)
RunOf(r) == r.attrs[1].runs[1]

InFolder(r) == r.path # <<>> /\ r.path[Len(r.path)] = Unallocated

OfRun(r, run, k, fs) ==
    /\ InFolder(r) /\ r.volIndex = k /\ r.fs = fs
    /\ RunOf(r) = run /\ r.link = <<k, NoLimit - run.addr>>

RunBytesOf(fs, run) == BytesFrom(fs, run.addr, run.addr + run.len)

Emits(run) ==
    /\ \/ Faults /\ Out' = Out
       \/ \E r : Out' = Append(Out, r) /\ OfRun(r, run, NumVols, Fs)
    /\ Grown(AllocatedRuns, AllocatedRuns', NumVols, Fs, FSEnd, NoLimit - run.addr,
             RunBytesOf(Fs, run))

LEMMA EntryOfRun ==
    ASSUME NEW run \in RunType, NEW bs \in Nat, run.addr <= NoLimit, NEW f,
           f = UnallocatedEntry(run, bs), NEW a, a = DummyAttr(run, bs)
    PROVE  /\ HasMeta(f) /\ f.meta.attrs = <<a>> /\ InUse(f) = <<a>>
           /\ f.meta.addr = NoLimit - run.addr /\ a.runs = <<run>> /\ a \in AttrType
  <1>1. run.addr \in Nat /\ run.len \in Nat /\ run.flags \in {"none", "sparse", "filler"} /\ U64 \in Nat
    BY WordAssumption DEF RunType
  <1>2. run.len * bs \in Nat
    BY <1>1
  <1>3. a.runs = <<run>> /\ a.inuse
    BY DEF DummyAttr
  <1>4. a \in AttrType
    <2>1. <<run>> \in Seq(RunType)
      OBVIOUS
    <2> DEFINE size == run.len * bs
    <2>2. size \in Nat
      BY <1>2
    <2> HIDE DEF size
    <2>3. a = [id |-> 0, inuse |-> TRUE, res |-> FALSE, nonres |-> TRUE, comp |-> FALSE,
               initsize |-> size, allocsize |-> size, skiplen |-> 0, runs |-> <<run>>]
      BY Zenon DEF DummyAttr, size
    <2> QED BY <2>1, <2>2, <2>3 DEF AttrType
  <1>5. /\ f.meta = [addr |-> NoLimit - run.addr, used |-> TRUE, type |-> "virt", attrs |-> <<a>>]
        /\ f.alloc
    BY DEF UnallocatedEntry
  <1>6. f.meta.attrs = <<a>> /\ f.meta.addr = NoLimit - run.addr /\ f.meta.used
    BY <1>5
  <1>7. f.meta \in MetaType
    <2>1. NoLimit - run.addr \in Nat
      BY <1>1 DEF NoLimit
    <2>2. <<a>> \in Seq(AttrType)
      BY <1>4
    <2>3. "virt" \in STRING
      BY TextsAssumption
    <2> QED BY <1>5, <2>1, <2>2, <2>3 DEF MetaType
  <1>8. HasMeta(f)
    BY <1>5, <1>6, <1>7, EntriesAssumption DEF HasMeta
  <1>9. InUse(f) = <<a>>
    BY <1>3, <1>6, <1>8, InUseOne
  <1> QED BY <1>3, <1>4, <1>6, <1>8, <1>9

LEMMA EmitDoes ==
    ASSUME TypeInv, SettingInv, MapsInv, pc = "fragment",
           NEW run \in RunType, run.addr <= NoLimit, Within(Fs, FSEnd, run.addr + run.len),
           emitUnallocated(run)
    PROVE  Emits(run)
  <1> DEFINE f   == UnallocatedEntry(run, Fs.bs)
             a   == DummyAttr(run, Fs.bs)
             ctx == Context(Fs, <<FSBeg, FSEnd>>, AllocatedRuns)
             q   == VolName \o <<Unallocated>>
             ds  == setCurDir(Dirs, q)
             rec == Record(ctx, back(ds), f)
             P   == RunBytesOf(Fs, run)
  <1>1. /\ Fs \in FsType /\ FSBeg \in Int /\ FSEnd \in Nat
        /\ Mapped(AllocatedRuns[NumVols], Fs, FSEnd)
    BY FsAtHand
  <1>2. writeFile(ctx, ds, f)
    BY Zenon DEF emitUnallocated, processFile
  <1>3. ctx.fs = Fs /\ ctx.range = <<FSBeg, FSEnd>> /\ ctx.key = NumVols /\ ctx.maps = AllocatedRuns
        /\ ctx.fsIndex = NumVols /\ ctx.vol = NumVols
    BY DEF Context
  <1>4. Fs.bs \in Nat
    BY <1>1, FsFields
  <1>5. /\ HasMeta(f) /\ f.meta.attrs = <<a>> /\ InUse(f) = <<a>>
        /\ f.meta.addr = NoLimit - run.addr /\ a.runs = <<run>> /\ a \in AttrType
    BY <1>4, EntryOfRun
  <1>6. InFolder(back(ds))
    <2>1. Dirs \in Seq(DirInfos) /\ Len(Dirs) > 0 /\ DistinctPaths(Dirs)
      BY DEF TypeInv, TreeTyped
    <2>2. VolName \in Seq(Name) /\ Unallocated \in Name
      <3>1. "$Unallocated" \in STRING /\ <<>> \in Seq(Nat)
        BY TextsAssumption
      <3>2. Unallocated \in Name
        BY <3>1, Zenon DEF Unallocated, PlainName, Name
      <3> QED BY <3>2 DEF TypeInv, ControlTyped, Path
    <2>3. q \in Seq(Name) /\ q # <<>> /\ q[Len(q)] = Unallocated
      BY <2>2
    <2>4. q \in Path
      BY <2>3 DEF Path
    <2> HIDE DEF q
    <2>5. back(ds).path = q
      BY <2>1, <2>4, SetCurDirTyped, Zenon DEF back
    <2> QED BY <2>3, <2>5 DEF InFolder
  <1> HIDE DEF f, a, ctx, ds
  <1>7. OfRun(rec, run, NumVols, Fs)
    <2>1. /\ rec.path = back(ds).path /\ rec.volIndex = NumVols /\ rec.fs = Fs
          /\ rec.attrs = <<a>> /\ rec.link = <<NumVols, NoLimit - run.addr>>
      BY <1>3, <1>5 DEF Record
    <2>2. RunOf(rec) = run
      BY <1>5, <2>1 DEF RunOf
    <2> HIDE DEF rec
    <2>3. InFolder(rec)
      BY <1>6, <2>1 DEF InFolder
    <2> QED BY <2>1, <2>2, <2>3 DEF OfRun
  <1>8. (Faults /\ Out' = Out) \/ Out' = Append(Out, rec)
    BY <1>2, Zenon DEF writeFile
  <1>9. AttrsWithin(Fs, FSEnd, f.meta.attrs) /\ AttrsCovered(Fs, f.meta.attrs, P)
    <2>1. RunsWithin(Fs, FSEnd, a) /\ RunsCovered(Fs, a, P)
      <3>1. Len(a.runs) = 1 /\ a.runs[1] = run
        BY <1>5
      <3>2. \A r \in 1 .. Len(a.runs) : a.runs[r] = run
        BY <3>1
      <3>3. RunsWithin(Fs, FSEnd, a)
        BY <3>2, Zenon DEF RunsWithin
      <3>4. RunsCovered(Fs, a, P)
        BY <3>2, Zenon DEF RunsCovered, RunBytesOf
      <3> QED BY <3>3, <3>4
    <2>2. \A n \in 1 .. Len(f.meta.attrs) : f.meta.attrs[n] = a
      BY <1>5
    <2> HIDE DEF P
    <2> QED BY <2>1, <2>2, Zenon DEF AttrsWithin, AttrsCovered
  <1>10. f.meta.attrs \in Seq(AttrType)
    BY <1>5
  <1>11. Mapped(ctx.maps[ctx.key], Fs, FSEnd)
    BY <1>1, <1>3
  <1> HIDE DEF P, rec
  <1>12. Grown(ctx.maps, AllocatedRuns', ctx.key, Fs, FSEnd, f.meta.addr, P)
    BY <1>1, <1>2, <1>3, <1>9, <1>10, <1>11, WriteFileGrows
  <1>13. Grown(AllocatedRuns, AllocatedRuns', NumVols, Fs, FSEnd, NoLimit - run.addr, P)
    BY <1>3, <1>5, <1>12
  <1> QED BY <1>7, <1>8, <1>13, Zenon DEF Emits, P

-----------------------------------------------------------------------------
(***************************************************************************)
(* Blocks and bytes.                                                       *)
(***************************************************************************)
LEMMA Quotient ==
    ASSUME NEW x \in Nat, NEW d \in Nat, d > 0
    PROVE  /\ x \div d \in Nat
           /\ (x \div d) * d <= x
           /\ x < (x \div d) * d + d
  OBVIOUS

LEMMA Remainder ==
    ASSUME NEW x \in Nat, NEW d \in Nat, x < d
    PROVE  x % d = x
  OBVIOUS

\* If fewer blocks than b end before byte y, fewer than b are before it.
LEMMA Fewer ==
    ASSUME NEW d \in Nat, d > 0, NEW a \in Nat, NEW b \in Nat, a * d < b * d + d
    PROVE  a <= b
  <1> SUFFICES ASSUME b + 1 <= a
               PROVE  FALSE
    OBVIOUS
  <1>1. (b + 1) * d <= a * d /\ (b + 1) * d = b * d + 1 * d
    BY Products
  <1>2. a * d \in Nat /\ b * d \in Nat /\ (b + 1) * d \in Nat /\ 1 * d = d
    OBVIOUS
  <1> QED BY <1>1, <1>2

LEMMA BlockOfIs ==
    ASSUME Fs \in FsType, NEW x \in Nat, Fs.offset <= x, x < U64
    PROVE  /\ BlockOf(x) \in Nat
           /\ Fs.offset + BlockOf(x) * Fs.bs <= x
           /\ x < Fs.offset + BlockOf(x) * Fs.bs + Fs.bs
           /\ BlockOf(x) * Fs.bs \in Nat
  <1>1. /\ Fs.offset \in Nat /\ Fs.bs \in Nat /\ Fs.bs > 0 /\ U64 \in Nat
    BY FsFields, WordAssumption
  <1>2. PICK d \in Nat : d = x - Fs.offset
    BY <1>1
  <1>3. d % U64 = d
    BY <1>1, <1>2, Remainder
  <1>4. BlockOf(x) = d \div Fs.bs
    BY <1>2, <1>3, Zenon DEF BlockOf
  <1>5. PICK b : b = d \div Fs.bs
    OBVIOUS
  <1>6. b \in Nat /\ b * Fs.bs <= d /\ d < b * Fs.bs + Fs.bs
    BY <1>1, <1>5, Quotient
  <1>7. PICK p \in Nat : p = b * Fs.bs
    BY <1>1, <1>6
  <1>8. Fs.offset + p <= x /\ x < Fs.offset + p + Fs.bs
    BY <1>1, <1>2, <1>6, <1>7
  <1> QED BY <1>4, <1>5, <1>6, <1>7, <1>8

LEMMA BlockOfOrder ==
    ASSUME Fs \in FsType, NEW x \in Nat, NEW y \in Nat, Fs.offset <= x, x <= y, y < U64
    PROVE  BlockOf(x) <= BlockOf(y)
  <1>1. /\ Fs.offset \in Nat /\ Fs.bs \in Nat /\ Fs.bs > 0 /\ U64 \in Nat /\ x < U64 /\ Fs.offset <= y
    BY FsFields, WordAssumption
  <1>2. PICK a \in Nat : /\ a = BlockOf(x) /\ Fs.offset + a * Fs.bs <= x /\ a * Fs.bs \in Nat
    BY <1>1, BlockOfIs
  <1>3. PICK b \in Nat : b = BlockOf(y) /\ y < Fs.offset + b * Fs.bs + Fs.bs /\ b * Fs.bs \in Nat
    BY <1>1, BlockOfIs
  <1>4. a * Fs.bs < b * Fs.bs + Fs.bs
    BY <1>1, <1>2, <1>3
  <1> QED BY <1>1, <1>2, <1>3, <1>4, Fewer

LEMMA BlockOfBoundary ==
    ASSUME Fs \in FsType, NEW x \in Nat, AtBlock(Fs, x), x < U64
    PROVE  Fs.offset <= x /\ BlockOf(x) \in Nat /\ Fs.offset + BlockOf(x) * Fs.bs = x
  <1>1. /\ Fs.offset \in Nat /\ Fs.bs \in Nat /\ Fs.bs > 0 /\ U64 \in Nat
    BY FsFields, WordAssumption
  <1>2. PICK q \in Nat : x = Fs.offset + q * Fs.bs
    BY DEF AtBlock
  <1>3. q * Fs.bs \in Nat /\ Fs.offset <= x
    BY <1>1, <1>2
  <1>4. PICK b \in Nat : /\ b = BlockOf(x) /\ Fs.offset + b * Fs.bs <= x
                         /\ x < Fs.offset + b * Fs.bs + Fs.bs /\ b * Fs.bs \in Nat
    BY <1>1, <1>3, BlockOfIs
  <1>5. q * Fs.bs < b * Fs.bs + Fs.bs /\ b * Fs.bs < q * Fs.bs + Fs.bs
    BY <1>1, <1>2, <1>3, <1>4
  <1>6. q <= b /\ b <= q
    BY <1>1, <1>5, Fewer
  <1>7. q = b
    BY <1>6
  <1> QED BY <1>2, <1>3, <1>4, <1>7

\* A block that ends before byte end is inside the range, and so is each before it.
LEMMA WithinEarlier ==
    ASSUME NEW fs \in FsType, NEW end \in Nat, NEW b \in Nat, NEW c \in Nat, b <= c, Within(fs, end, c)
    PROVE  Within(fs, end, b)
  <1>1. fs.offset \in Nat /\ fs.bs \in Nat
    BY FsFields
  <1>2. b * fs.bs <= c * fs.bs /\ b * fs.bs \in Nat /\ c * fs.bs \in Nat
    BY <1>1, Products
  <1> QED BY <1>1, <1>2 DEF Within

-----------------------------------------------------------------------------
(***************************************************************************)
(* The loop over the extents of a map.                                     *)
(***************************************************************************)
LEMMA LowestIs ==
    ASSUME NEW S \in SUBSET Nat
    PROVE  \/ S = {} /\ Lowest(S) = EndIter
           \/ Lowest(S) \in S /\ \A y \in S : Lowest(S) <= y
  <1>1. CASE S = {}
    BY <1>1 DEF Lowest
  <1>2. CASE S # {}
    <2>1. \E x \in S : \A y \in S : x <= y
      BY <1>2, Least
    <2>2. Lowest(S) = CHOOSE x \in S : \A y \in S : x <= y
      BY <1>2, Zenon DEF Lowest
    <2> QED BY <2>1, <2>2, Zenon
  <1> QED BY <1>1, <1>2

\* A segment that starts at b ends at e.
Segment(map, b, e) ==
    /\ e > b
    /\ \A c \in b .. e - 1 : c \in DOMAIN map /\ map[c] = map[b]
    /\ e \in DOMAIN map => map[e] # map[b]

LEMMA SegmentEndIs ==
    ASSUME NEW end \in Nat, NEW map, DOMAIN map \subseteq 0 .. end - 1, NEW b \in DOMAIN map
    PROVE  /\ SegmentEnd(map, b) \in Nat /\ SegmentEnd(map, b) <= end
           /\ SegmentEnd(map, b) - 1 \in DOMAIN map
           /\ Segment(map, b, SegmentEnd(map, b))
  <1> DEFINE T == {e \in Nat : e > b /\ ~(e \in DOMAIN map /\ map[e] = map[b])}
             E == {c + 1 : c \in DOMAIN map}
  <1>1. b \in Nat /\ b < end /\ end \notin DOMAIN map
    OBVIOUS
  <1>2. end \in T /\ T \in SUBSET Nat
    BY <1>1
  <1>3. PICK e \in T : \A y \in T : e <= y
    BY <1>2, Least
  <1>4. e \in Nat /\ e > b
    BY <1>3
  <1>5. ASSUME NEW c \in b .. e - 1
        PROVE  c \in DOMAIN map /\ map[c] = map[b]
    <2>1. CASE c = b
      BY <2>1
    <2>2. CASE c # b
      <3>1. c \in Nat /\ c > b /\ ~(e <= c)
        BY <1>1, <1>4, <2>2
      <3>2. c \notin T
        BY <1>3, <3>1
      <3> QED BY <3>1, <3>2
    <2> QED BY <2>1, <2>2
  <1>6. e \in DOMAIN map => map[e] # map[b]
    BY <1>3
  <1>7. e - 1 \in b .. e - 1 /\ (e - 1) + 1 = e
    BY <1>1, <1>4
  <1>8. e \in E
    BY <1>5, <1>7
  <1>9. Segment(map, b, e)
    BY <1>4, <1>5, <1>6 DEF Segment
  <1> HIDE DEF T, E
  <1>10. SegmentEnd(map, b) = CHOOSE x \in E : Segment(map, b, x)
    BY Zenon DEF SegmentEnd, Segment, E
  <1>11. SegmentEnd(map, b) \in E /\ Segment(map, b, SegmentEnd(map, b))
    BY <1>8, <1>9, <1>10, Zenon
  <1>12. PICK c \in DOMAIN map : SegmentEnd(map, b) = c + 1
    BY <1>11, Zenon DEF E
  <1>13. c \in Nat /\ c < end
    OBVIOUS
  <1> QED BY <1>11, <1>12, <1>13

\* The lowest byte of an extent at or behind e starts a segment, if one before it ends at e.
LEMMA FirstBehind ==
    ASSUME NEW map, DOMAIN map \subseteq Nat, NEW e \in Nat,
           e \in DOMAIN map => e \in SegmentStarts(map),
           NEW x \in DOMAIN map, e <= x
    PROVE  \E y \in SegmentStarts(map) : e <= y /\ y <= x
  <1> DEFINE T == {y \in DOMAIN map : e <= y}
  <1>1. T \in SUBSET Nat /\ x \in T
    OBVIOUS
  <1>2. PICK y \in T : \A z \in T : y <= z
    BY <1>1, Least
  <1>3. y \in Nat /\ y \in DOMAIN map /\ e <= y /\ y <= x
    BY <1>1, <1>2
  <1>4. y \in SegmentStarts(map)
    <2>1. CASE y = e
      BY <1>3, <2>1
    <2>2. CASE y # e
      <3>1. y - 1 \in Nat /\ e <= y - 1 /\ ~(y <= y - 1)
        BY <1>3, <2>2
      <3>2. y - 1 \notin DOMAIN map
        BY <1>2, <3>1
      <3> QED BY <1>3, <3>2 DEF SegmentStarts
    <2> QED BY <2>1, <2>2
  <1> QED BY <1>3, <1>4

\* No byte of the map lies between byte s and the extent that the iterator is at.
Between(map, s, next) == \A x \in DOMAIN map : x >= s => next # EndIter /\ next <= x

LEMMA FirstExtent ==
    ASSUME NEW map, DOMAIN map \subseteq Nat, NEW n, n = Lowest(SegmentStarts(map)), NEW s
    PROVE  (n = EndIter \/ n \in DOMAIN map) /\ Between(map, s, n)
  <1> DEFINE S == SegmentStarts(map)
  <1>1. S \subseteq DOMAIN map /\ S \in SUBSET Nat
    BY DEF SegmentStarts
  <1>2. \/ S = {} /\ n = EndIter
        \/ n \in S /\ \A y \in S : n <= y
    BY <1>1, LowestIs
  <1>3. 0 \in DOMAIN map => 0 \in S
    <2>1. -1 \notin DOMAIN map /\ 0 - 1 = -1
      OBVIOUS
    <2> QED BY <2>1 DEF SegmentStarts
  <1> HIDE DEF S
  <1>4. ASSUME NEW x \in DOMAIN map
        PROVE  n # EndIter /\ n <= x
    <2>1. x \in Nat /\ 0 <= x
      OBVIOUS
    <2>2. PICK y \in S : y <= x
      BY <1>3, <2>1, FirstBehind DEF S
    <2>3. n \in S /\ n <= y /\ y \in Nat /\ n \in Nat
      BY <1>1, <1>2, <2>2
    <2> QED BY <2>1, <2>2, <2>3 DEF EndIter
  <1> QED BY <1>1, <1>2, <1>4 DEF Between

\* The segments behind the one that starts at b.
Later(map, b) == {s \in SegmentStarts(map) : s > b}

\* The map has bytes up to byte end, and the segment that starts at b ends at e, before n.
UpTo(map, end) == DOMAIN map \subseteq 0 .. end - 1

NextExtentIs(map, b, e, n) == e = SegmentEnd(map, b) /\ n = Lowest(Later(map, b))

LEMMA FollowingExtent ==
    ASSUME NEW fs, NEW end \in Nat, NEW map, UpTo(map, end), Mapped(map, fs, end),
           NEW b \in DOMAIN map, NEW e, NEW n, NextExtentIs(map, b, e, n)
    PROVE  /\ e \in Nat /\ b < e /\ e <= end
           /\ n = EndIter \/ (n \in DOMAIN map /\ e <= n)
           /\ Between(map, e, n)
           /\ AtBlock(fs, e) \/ n = e
  <1> DEFINE S == Later(map, b)
  <1>0. /\ DOMAIN map \subseteq 0 .. end - 1
        /\ e = SegmentEnd(map, b) /\ n = Lowest(S)
    BY Zenon DEF UpTo, NextExtentIs
  <1>1. /\ e \in Nat /\ e <= end /\ e - 1 \in DOMAIN map /\ Segment(map, b, e) /\ b \in Nat
    BY <1>0, SegmentEndIs
  <1>2. /\ e > b /\ (e \in DOMAIN map => map[e] # map[b])
        /\ \A c \in b .. e - 1 : c \in DOMAIN map /\ map[c] = map[b]
    BY <1>1 DEF Segment
  <1>3. S \subseteq DOMAIN map /\ S \in SUBSET Nat
    BY <1>0 DEF SegmentStarts, Later
  <1>4. ASSUME NEW s \in S
        PROVE  e <= s
    <2> SUFFICES ASSUME s < e
                 PROVE  FALSE
      BY <1>1, <1>3
    <2>1. s \in Nat /\ s > b /\ s - 1 \in b .. e - 1 /\ s \in b .. e - 1
      BY <1>1, <1>3, <1>4 DEF Later
    <2>2. map[s - 1] = map[b] /\ map[s] = map[b] /\ s - 1 \in DOMAIN map
      BY <1>2, <2>1
    <2> QED BY <1>4, <2>2 DEF SegmentStarts, Later
  <1>5. \/ S = {} /\ n = EndIter
        \/ n \in S /\ \A y \in S : n <= y
    BY <1>0, <1>3, LowestIs
  <1>6. e \in DOMAIN map => e \in SegmentStarts(map) /\ e \in S
    <2> SUFFICES ASSUME e \in DOMAIN map
                 PROVE  e \in SegmentStarts(map) /\ e \in S
      OBVIOUS
    <2>1. e - 1 \in b .. e - 1
      BY <1>1, <1>2
    <2>2. map[e - 1] # map[e]
      BY <1>2, <2>1
    <2>3. e \in SegmentStarts(map)
      BY <2>2 DEF SegmentStarts
    <2> QED BY <1>2, <2>3 DEF Later
  <1>7. ASSUME NEW x \in DOMAIN map, x >= e
        PROVE  n # EndIter /\ n <= x
    <2>1. DOMAIN map \subseteq Nat /\ x \in Nat
      BY <1>0
    <2>2. PICK y \in SegmentStarts(map) : e <= y /\ y <= x
      BY <1>1, <1>6, <1>7, <2>1, FirstBehind
    <2>3. y \in S
      BY <1>1, <1>2, <2>1, <2>2 DEF SegmentStarts, Later
    <2>4. n \in S /\ n <= y /\ y \in Nat /\ n \in Nat
      BY <1>3, <1>5, <2>3
    <2> QED BY <2>1, <2>2, <2>4 DEF EndIter
  <1>8. AtBlock(fs, e) \/ n = e
    <2>1. CASE e \in DOMAIN map
      <3>1. n \in S /\ n <= e /\ e <= n /\ n \in Nat
        BY <1>3, <1>4, <1>5, <1>6, <2>1
      <3> QED BY <1>1, <3>1
    <2>2. CASE e \notin DOMAIN map
      <3>1. (e - 1) + 1 = e
        BY <1>1
      <3> QED BY <1>1, <2>2, <3>1, Zenon DEF Mapped
    <2> QED BY <2>1, <2>2
  <1>9. n = EndIter \/ (n \in DOMAIN map /\ e <= n)
    BY <1>3, <1>4, <1>5
  <1> QED BY <1>1, <1>2, <1>7, <1>8, <1>9 DEF Between

-----------------------------------------------------------------------------
(***************************************************************************)
(* The records: the unallocated ones are in a folder of their own, in a    *)
(* volume the second walk has come to.                                     *)
(***************************************************************************)
Largest == IF UCMode = "block" THEN 1 ELSE MaxUnallocatedBlockSize

Emitted(r) ==
    /\ InUnallocated
    /\ r.volIndex \in FsIndexes(img) /\ r.volIndex <= NumVols
    /\ RunOf(r) \in RunType /\ RunOf(r).len <= Largest
    /\ OfRun(r, RunOf(r), r.volIndex, FsOf(img, r.volIndex))

RecordsInv == \A n \in DOMAIN Out : Clean(Out[n].path) \/ Emitted(Out[n])

LEMMA CleanNotInFolder ==
    ASSUME NEW path \in Path, Clean(path), path # <<>>
    PROVE  path[Len(path)] # Unallocated
  <1>1. Len(path) \in 1 .. Len(path)
    BY DEF Path
  <1> QED BY <1>1 DEF Clean

LEMMA AreEmitted ==
    ASSUME RecordsInv, ResultsTyped, NEW n \in UnallocatedRecords
    PROVE  n \in DOMAIN Out /\ Emitted(Out[n])
  <1>1. n \in DOMAIN Out /\ Out[n].path # <<>> /\ Out[n].path[Len(Out[n].path)] = Unallocated
    BY DEF UnallocatedRecords
  <1>2. Out[n].path \in Path
    BY <1>1 DEF ResultsTyped
  <1>3. ~Clean(Out[n].path)
    BY <1>1, <1>2, CleanNotInFolder, Zenon
  <1> QED BY <1>1, <1>3, Zenon DEF RecordsInv

\* Most steps leave the unallocated records as they are.
Calm ==
    /\ UnallocatedRecords' = UnallocatedRecords
    /\ \A n \in UnallocatedRecords : Out'[n] = Out[n]

LEMMA SameOutCalm ==
    ASSUME Out' = Out
    PROVE  Calm
  BY Zenon DEF Calm, UnallocatedRecords

\* A step further on in the same walk.
Onward ==
    /\ UNCHANGED args /\ InUnallocated' = InUnallocated
    /\ NumVols \in Nat /\ NumVols' \in Nat /\ NumVols <= NumVols'

LEMMA EmittedKept ==
    ASSUME img \in Images, Onward, NEW r, Emitted(r)
    PROVE  Emitted(r)'
  <1>1. img' = img /\ UCMode' = UCMode /\ MaxUnallocatedBlockSize' = MaxUnallocatedBlockSize
    BY DEF Onward, args
  <1>2. r.volIndex \in Nat
    BY FsOfTyped DEF Emitted
  <1>3. r.volIndex <= NumVols'
    BY <1>2 DEF Onward, Emitted
  <1> QED BY <1>1, <1>3 DEF Onward, Emitted, Largest

LEMMA SameOutRecords ==
    ASSUME img \in Images, Onward, RecordsInv, Out' = Out
    PROVE  RecordsInv'
  <1> SUFFICES ASSUME NEW n \in DOMAIN Out
               PROVE  (Clean(Out[n].path) \/ Emitted(Out[n]))'
    BY DEF RecordsInv
  <1>1. PICK r : r = Out[n]
    OBVIOUS
  <1>2. Out'[n] = r
    BY <1>1
  <1>3. Clean(r.path) \/ Emitted(r)
    BY <1>1 DEF RecordsInv
  <1>4. Emitted(r) => Emitted(r)'
    BY EmittedKept
  <1>5. Emitted(r)' => Emitted(Out[n])'
    BY <1>2 DEF Emitted, RunOf, OfRun, InFolder
  <1> QED BY <1>2, <1>3, <1>4, <1>5 DEF Clean

LEMMA OneMoreKept ==
    ASSUME img \in Images, Onward, RecordsInv, ResultsTyped, NEW r, Out' = Append(Out, r),
           Clean(r.path) \/ Emitted(r)'
    PROVE  RecordsInv'
  <1>1. PICK S : Out \in Seq(S)
    BY DEF ResultsTyped
  <1>2. /\ DOMAIN Out' = DOMAIN Out \cup {Len(Out) + 1}
        /\ \A n \in DOMAIN Out : Out'[n] = Out[n]
        /\ Out'[Len(Out) + 1] = r
    BY <1>1, OneMoreRecord
  <1> SUFFICES ASSUME NEW n \in DOMAIN Out'
               PROVE  (Clean(Out[n].path) \/ Emitted(Out[n]))'
    BY DEF RecordsInv
  <1>3. ASSUME NEW s, Out'[n] = s, Clean(s.path) \/ Emitted(s)'
        PROVE  (Clean(Out[n].path) \/ Emitted(Out[n]))'
    BY <1>3 DEF Emitted, RunOf, OfRun, InFolder, Clean
  <1>4. CASE n \in DOMAIN Out
    <2>1. PICK s : s = Out[n]
      OBVIOUS
    <2>2. Out'[n] = s
      BY <1>2, <1>4, <2>1
    <2>3. Clean(s.path) \/ Emitted(s)
      BY <1>4, <2>1, Zenon DEF RecordsInv
    <2>4. Emitted(s) => Emitted(s)'
      BY EmittedKept
    <2> QED BY <1>3, <2>2, <2>3, <2>4
  <1>5. CASE n = Len(Out) + 1
    BY <1>2, <1>3, <1>5
  <1> QED BY <1>2, <1>4, <1>5

\* Neither the records of files nor those of volumes or of the folder are in it.
LEMMA WroteClean ==
    ASSUME img \in Images, Onward, RecordsInv, ResultsTyped, NEW D, Wrote(D),
           NEW path \in Path, path = back(D).path, Clean(path)
    PROVE  Calm /\ RecordsInv'
  <1>1. CASE Out' = Out
    BY <1>1, SameOutCalm, SameOutRecords
  <1>2. CASE \E r : Out' = Append(Out, r) /\ r.path = back(D).path
    <2>1. PICK r : Out' = Append(Out, r) /\ r.path = path
      BY <1>2
    <2>2. RecordsInv'
      BY <2>1, OneMoreKept
    <2>3. PICK S : Out \in Seq(S)
      BY DEF ResultsTyped
    <2>4. /\ DOMAIN Out' = DOMAIN Out \cup {Len(Out) + 1}
          /\ \A n \in DOMAIN Out : Out'[n] = Out[n]
          /\ Out'[Len(Out) + 1] = r /\ DOMAIN Out = 1 .. Len(Out) /\ Len(Out) \in Nat
      BY <2>1, <2>3, OneMoreRecord
    <2>5. path = <<>> \/ path[Len(path)] # Unallocated
      BY CleanNotInFolder
    <2>6. UnallocatedRecords' = UnallocatedRecords
      <3>1. ASSUME NEW n \in DOMAIN Out'
            PROVE  n \in UnallocatedRecords' <=> n \in UnallocatedRecords
        <4>1. CASE n \in DOMAIN Out
          BY <2>4, <4>1, Zenon DEF UnallocatedRecords
        <4>2. CASE n = Len(Out) + 1
          <5>1. n \notin DOMAIN Out
            BY <2>4, <4>2
          <5>2. n \notin UnallocatedRecords
            BY <5>1, Zenon DEF UnallocatedRecords
          <5>3. Out'[n].path = path
            BY <2>1, <2>4, <4>2
          <5>4. n \notin UnallocatedRecords'
            BY <2>5, <5>3, Zenon DEF UnallocatedRecords
          <5> QED BY <5>2, <5>4
        <4> QED BY <2>4, <4>1, <4>2
      <3>2. UnallocatedRecords \subseteq DOMAIN Out /\ UnallocatedRecords' \subseteq DOMAIN Out'
        BY Zenon DEF UnallocatedRecords
      <3> QED BY <2>4, <3>1, <3>2, Zenon
    <2>7. \A n \in UnallocatedRecords : Out'[n] = Out[n]
      BY <2>4, Zenon DEF UnallocatedRecords
    <2> QED BY <2>2, <2>6, <2>7 DEF Calm
  <1> QED BY <1>1, <1>2 DEF Wrote

LEMMA InitRecords == Init => RecordsInv
  BY DEF Init, RecordsInv

LEMMA FirstWalkClean ==
    ASSUME ~InUnallocated, RecordsInv, ResultsTyped
    PROVE  UnallocatedRecords = {} /\ \A n \in DOMAIN Out : Clean(Out[n].path)
  <1>1. \A n \in DOMAIN Out : Clean(Out[n].path)
    BY DEF RecordsInv, Emitted
  <1>2. \A n \in UnallocatedRecords : FALSE
    BY AreEmitted DEF Emitted
  <1> QED BY <1>1, <1>2

\* filterFs is called once for each volume of the second walk.
Fresh == \A n \in UnallocatedRecords : Out[n].volIndex # NumVols

FreshInv ==
    /\ pc = "open" => ~InUnallocated
    /\ AtFs => Fresh
    /\ pc \in {"fs", "flush", "fragment"} /\ img.vols = <<>> => vol = 1

LEMMA InitFresh == Init => FreshInv
  <1>1. Init => pc = "open" /\ ~InUnallocated
    BY DEF Init
  <1> QED BY <1>1 DEF FreshInv, AtFs

LEMMA CalmFresh ==
    ASSUME Calm, Fresh, NumVols' = NumVols
    PROVE  Fresh'
  BY Zenon DEF Calm, Fresh

\* The steps that write nothing and stay in their volume.
Still ==
    /\ UNCHANGED <<args, NumVols, InUnallocated, Out>>
    /\ pc' # "open" /\ ~AtFs'
    /\ pc' \in {"fs", "flush", "fragment"} /\ img.vols = <<>> => vol' = 1

LEMMA StillKeeps ==
    ASSUME TypeInv, RecordsInv, Still
    PROVE  Calm /\ Onward /\ RecordsInv' /\ FreshInv'
  <1>1. NumVols \in Nat /\ img \in Images
    BY ImageFacts DEF TypeInv, ControlTyped
  <1>2. Onward
    BY <1>1 DEF Still, Onward
  <1>3. FreshInv'
    BY DEF Still, FreshInv, args
  <1> QED BY <1>1, <1>2, <1>3, SameOutCalm, SameOutRecords DEF Still

LEMMA StillSteps ==
    ASSUME TypeInv, SettingInv, FreshInv
    PROVE  /\ NoFilesystem => Still
           /\ WildPart => Still
           /\ EndFs => Still
           /\ NextFragment => Still
           /\ FragmentDone => Still
           /\ WalkFailed => Still
           /\ FinishWalk => Still
           /\ OutputDiskMap => Still
           /\ OutputInodeMap => Still
           /\ FilterFs => Still
           /\ WalkError => Still
  <1>1. NextExtent => pc' \in {"walk", "flush"}
    BY NextExtentQuiet
  <1>2. NoFilesystem => Still
    BY DEF NoFilesystem, Still, AtFs, args, volume, results
  <1>3. WildPart => Still
    BY DEF WildPart, Still, AtFs, args, volume, results
  <1>4. EndFs => Still
    BY DEF EndFs, Still, AtFs, args, volume, results, walk, FreshInv
  <1>5. NextFragment => Still
    BY <1>1, NextExtentQuiet DEF NextFragment, Still, AtFs, args, volume, results, walk, FreshInv
  <1>6. FragmentDone => Still
    BY <1>1 DEF FragmentDone, Still, AtFs, args, volume, results, walk, FreshInv
  <1>7. WalkFailed => Still
    BY DEF WalkFailed, Still, AtFs, args, volume, results
  <1>8. FinishWalk => Still
    BY DEF FinishWalk, Still, AtFs, args, volume, results
  <1>9. OutputDiskMap => Still
    BY DEF OutputDiskMap, Still, AtFs, args, volume
  <1>10. OutputInodeMap => Still
    BY DEF OutputInodeMap, Still, AtFs, args, volume, results
  <1>11. FilterFs => Still
    BY DEF FilterFs, setFsInfo, Still, AtFs, args, volume
  <1>12. WalkError => Still
    BY DEF WalkError, Still, AtFs, args, volume, results
  <1> QED BY <1>2, <1>3, <1>4, <1>5, <1>6, <1>7, <1>8, <1>9, <1>10, <1>11, <1>12

LEMMA OpenImageRecords ==
    ASSUME TypeInv, RecordsInv, FreshInv, OpenImage
    PROVE  UnallocatedRecords' = {} /\ RecordsInv' /\ FreshInv'
  <1>1. ~InUnallocated /\ ~InUnallocated' /\ Out' = Out /\ img' = img
    BY DEF OpenImage, FreshInv, results, args
  <1>2. pc' \in {"walk", "failed"}
    BY DEF OpenImage, Start
  <1>3. UnallocatedRecords = {} /\ \A n \in DOMAIN Out : Clean(Out[n].path)
    BY <1>1, FirstWalkClean DEF TypeInv
  <1>4. UnallocatedRecords' = {}
    BY <1>1, <1>3, Zenon DEF UnallocatedRecords
  <1>5. RecordsInv'
    BY <1>1, <1>3 DEF RecordsInv, Clean
  <1>6. Fresh'
    BY <1>4 DEF Fresh
  <1> QED BY <1>2, <1>4, <1>5, <1>6 DEF FreshInv

LEMMA StartUnallocatedRecords ==
    ASSUME TypeInv, RecordsInv, StartUnallocated
    PROVE  UnallocatedRecords' = {} /\ RecordsInv' /\ FreshInv'
  <1>1. ~InUnallocated /\ Out' = Out /\ img' = img /\ pc' = "walk"
    BY DEF StartUnallocated, results, args, Start
  <1>3. UnallocatedRecords = {} /\ \A n \in DOMAIN Out : Clean(Out[n].path)
    BY <1>1, FirstWalkClean DEF TypeInv
  <1>4. UnallocatedRecords' = {}
    BY <1>1, <1>3, Zenon DEF UnallocatedRecords
  <1>5. RecordsInv'
    BY <1>1, <1>3 DEF RecordsInv, Clean
  <1>6. Fresh'
    BY <1>4 DEF Fresh
  <1> QED BY <1>1, <1>4, <1>5, <1>6 DEF FreshInv

LEMMA FilterVolRecords ==
    ASSUME TypeInv, RecordsInv, FilterVol
    PROVE  Calm /\ Onward /\ RecordsInv' /\ FreshInv'
  <1> DEFINE root == SubSeq(Dirs, 1, 1)
             ds   == IF InUnallocated THEN root ELSE setCurDir(root, <<>>)
  <1>1. /\ UNCHANGED args /\ InUnallocated' = InUnallocated /\ img \in Images
        /\ vol < Len(img.vols) /\ NumVols' = NumVols + 1 /\ pc' = "vol"
    BY DEF FilterVol, TypeInv, ControlTyped
  <1>2. NumVols \in Nat
    BY <1>1, ImageFacts DEF TypeInv, ControlTyped
  <1>3. Onward
    BY <1>1, <1>2 DEF Onward
  <1>4. Out' = Out \/ Wrote(ds)
    <2>1. CASE InUnallocated
      BY <2>1 DEF FilterVol, results
    <2>2. CASE ~InUnallocated
      <3>1. \E ctx, f : writeFile(ctx, ds, f)
        BY <2>2, Zenon DEF FilterVol
      <3> QED BY <3>1, WriteFileEffect
    <2> QED BY <2>1, <2>2
  <1>5. back(ds).path = <<>>
    <2>1. root \in Seq(DirInfos) /\ Len(root) = 1 /\ root[1].path = <<>> /\ DistinctPaths(root)
      BY RootStack
    <2> HIDE DEF root
    <2>2. Len(ds) = 1 /\ ds[1].path = <<>>
      BY <2>1, RootCounted, Zenon
    <2> QED BY <2>2 DEF back
  <1>6. <<>> \in Path /\ Clean(<<>>)
    BY DEF Path, Clean
  <1> HIDE DEF ds
  <1>7. Calm /\ RecordsInv'
    <2>1. ResultsTyped
      BY DEF TypeInv
    <2> QED BY <1>1, <1>3, <1>4, <1>5, <1>6, <2>1, WroteClean, SameOutCalm, SameOutRecords
  <1>8. Fresh'
    <2> SUFFICES ASSUME NEW n \in UnallocatedRecords
                 PROVE  Out'[n].volIndex # NumVols'
      BY <1>7, Zenon DEF Fresh, Calm
    <2>1. Emitted(Out[n])
      BY AreEmitted DEF TypeInv
    <2>2. Out[n].volIndex <= NumVols /\ Out[n].volIndex \in Nat
      BY <1>1, <2>1, FsOfTyped DEF Emitted
    <2>3. Out[n].volIndex # NumVols'
      BY <1>1, <1>2, <2>2
    <2> QED BY <1>7, <2>3, Zenon DEF Calm
  <1>9. FreshInv'
    BY <1>1, <1>8 DEF FreshInv
  <1> QED BY <1>3, <1>7, <1>9

\* The second walk's folder is in the root directory of the volume.
LEMMA FilterFsUnallocatedRecords ==
    ASSUME TypeInv, SettingInv, RecordsInv, FreshInv, FilterFsUnallocated
    PROVE  Calm /\ Onward /\ RecordsInv' /\ FreshInv' /\ Fresh'
  <1> DEFINE D == [Dirs EXCEPT ![Len(Dirs)].count = @ + NumRootEntries[NumVols]]
             p == VolName \o <<>>
  <1>1. /\ UNCHANGED args /\ InUnallocated' = InUnallocated /\ img \in Images /\ pc' = "flush"
        /\ UNCHANGED volume /\ AtFs /\ setFsInfo
    BY DEF FilterFsUnallocated, TypeInv, ControlTyped
  <1>2. NumVols \in Nat /\ NumVols' = NumVols
    BY <1>1, ImageFacts DEF TypeInv, ControlTyped, volume
  <1>3. Onward
    BY <1>1, <1>2 DEF Onward
  <1>4. Wrote(setCurDir(D, p))
    <2>1. \E ctx, f : processFile(D, ctx, <<>>, f)
      BY Zenon DEF FilterFsUnallocated
    <2>2. \E ctx, f : writeFile(ctx, setCurDir(D, p), f)
      BY <2>1, Zenon DEF processFile
    <2> QED BY <2>2, WriteFileEffect
  <1>5. NumRootEntries[NumVols] \in Nat
    <2>1. NumVols \in 0 .. Len(img.vols)
      BY ImageFacts DEF TypeInv, ControlTyped
    <2> QED BY <2>1 DEF TypeInv, TreeTyped
  <1>6. D \in Seq(DirInfos) /\ Len(D) > 0 /\ DistinctPaths(D)
    BY <1>5, RecountTyped
  <1>7. p \in Path /\ Clean(p) /\ p = VolName
    <2>1. VolName \in Path /\ Clean(VolName)
      BY DEF TypeInv, ControlTyped, SettingInv, NamesClean
    <2>2. p = VolName
      BY <2>1 DEF Path
    <2> QED BY <2>1, <2>2
  <1> HIDE DEF D, p
  <1>8. back(setCurDir(D, p)).path = p
    BY <1>6, <1>7, SetCurDirTyped, Zenon DEF back
  <1>9. Calm /\ RecordsInv'
    <2>1. ResultsTyped
      BY DEF TypeInv
    <2> QED BY <1>1, <1>3, <1>4, <1>7, <1>8, <2>1, WroteClean
  <1>10. Fresh'
    BY <1>1, <1>2, <1>9, CalmFresh DEF FreshInv
  <1>11. FreshInv'
    <2>1. img' = img /\ (img.vols = <<>> => vol' = 1)
      BY <1>1 DEF setFsInfo, args
    <2> QED BY <1>1, <2>1 DEF FreshInv, AtFs
  <1> QED BY <1>3, <1>9, <1>10, <1>11

LEMMA ProcessFileRecords ==
    ASSUME TypeInv, SettingInv, RecordsInv, FreshInv, ProcessFile
    PROVE  Calm /\ Onward /\ RecordsInv' /\ FreshInv'
  <1>1. /\ UNCHANGED args /\ InUnallocated' = InUnallocated /\ img \in Images
        /\ pc = "fs" /\ pc' = "fs" /\ UNCHANGED volume /\ vol' = vol
    BY DEF ProcessFile, TypeInv, ControlTyped
  <1>2. NumVols \in Nat /\ NumVols' = NumVols
    BY <1>1, ImageFacts DEF TypeInv, ControlTyped, volume
  <1>3. Onward
    BY <1>1, <1>2 DEF Onward
  <1>4. PICK path \in NextPaths : \E ctx, f : processFile(Dirs, ctx, path, f)
    BY Zenon DEF ProcessFile
  <1>5. path \in Path /\ Clean(path)
    BY NextPathsClean
  <1>6. VolName \in Path /\ Clean(VolName)
    BY DEF TypeInv, ControlTyped, SettingInv, NamesClean
  <1>7. PICK p : p = VolName \o path
    OBVIOUS
  <1>8. p \in Path /\ Clean(p)
    <2>1. p \in Path
      BY <1>5, <1>6, <1>7 DEF Path
    <2> QED BY <1>5, <1>6, <1>7, <2>1, CleanJoin
  <1>9. Wrote(setCurDir(Dirs, p))
    <2>1. \E ctx, f : writeFile(ctx, setCurDir(Dirs, p), f)
      BY <1>4, <1>7, Zenon DEF processFile
    <2> QED BY <2>1, WriteFileEffect
  <1>10. back(setCurDir(Dirs, p)).path = p
    <2>1. Dirs \in Seq(DirInfos) /\ Len(Dirs) > 0 /\ DistinctPaths(Dirs)
      BY DEF TypeInv, TreeTyped
    <2> QED BY <1>8, <2>1, SetCurDirTyped, Zenon DEF back
  <1>11. Calm /\ RecordsInv'
    <2>1. ResultsTyped
      BY DEF TypeInv
    <2> QED BY <1>1, <1>3, <1>8, <1>9, <1>10, <2>1, WroteClean
  <1>12. FreshInv'
    BY <1>1 DEF FreshInv, AtFs, args
  <1> QED BY <1>3, <1>11, <1>12

-----------------------------------------------------------------------------
(***************************************************************************)
(* Whose the bytes of an unallocated entry are, and that entries are apart.*)
(***************************************************************************)

\* In the bytes of r's run a map has no inode but r's.
Owned(r, map) ==
    \A x \in DOMAIN map : x \in RunBytesOf(r.fs, RunOf(r)) =>
        \A i \in map[x] : <<r.volIndex, i.Inum>> = r.link

OwnInv == \A n \in UnallocatedRecords : Owned(Out[n], mapOf(Out[n].volIndex))

Before(q, r) == RunOf(q).addr + RunOf(q).len <= RunOf(r).addr

Apart(q, r) == q.volIndex # r.volIndex \/ Before(q, r) \/ Before(r, q)

ApartInv == \A m, n \in UnallocatedRecords : m # n => Apart(Out[m], Out[n])

SameMapOf == \A k \in FsIndexes(img) : mapOf(k)' = mapOf(k)

LEMMA CalmApart ==
    ASSUME Calm, ApartInv
    PROVE  ApartInv'
  <1> SUFFICES ASSUME NEW m \in UnallocatedRecords, NEW n \in UnallocatedRecords, m # n
               PROVE  Apart(Out[m], Out[n])'
    BY Zenon DEF Calm, ApartInv
  <1>1. Out'[m] = Out[m] /\ Out'[n] = Out[n]
    BY DEF Calm
  <1>2. Apart(Out[m], Out[n])
    BY Zenon DEF ApartInv
  <1> QED BY <1>1, <1>2, Zenon DEF Apart, Before, RunOf

LEMMA CalmOwn ==
    ASSUME Calm, OwnInv, RecordsInv, ResultsTyped, SameMapOf
    PROVE  OwnInv'
  <1> SUFFICES ASSUME NEW n \in UnallocatedRecords
               PROVE  Owned(Out[n], mapOf(Out[n].volIndex))'
    BY Zenon DEF Calm, OwnInv
  <1>1. PICK r : r = Out[n]
    OBVIOUS
  <1>2. Out'[n] = r
    BY <1>1 DEF Calm
  <1>3. r.volIndex \in FsIndexes(img)
    BY <1>1, AreEmitted DEF Emitted
  <1>4. PICK k : k = r.volIndex
    OBVIOUS
  <1>5. mapOf(k)' = mapOf(k)
    BY <1>3, <1>4 DEF SameMapOf
  <1>6. Owned(r, mapOf(k))
    BY <1>1, <1>4, Zenon DEF OwnInv
  <1>7. PICK map : map = mapOf(k)
    OBVIOUS
  <1>8. Owned(r, map) /\ mapOf(k)' = map
    BY <1>5, <1>6, <1>7, Zenon
  <1>9. mapOf(Out[n].volIndex)' = map
    BY <1>2, <1>4, <1>8, Zenon DEF mapOf
  <1> QED BY <1>2, <1>8, <1>9, Zenon DEF Owned, RunOf, RunBytesOf, BytesFrom

LEMMA NoneOwned ==
    ASSUME UnallocatedRecords' = {}
    PROVE  OwnInv' /\ ApartInv'
  BY DEF OwnInv, ApartInv

LEMMA SameRunsSameMap ==
    ASSUME AllocatedRuns' = AllocatedRuns
    PROVE  SameMapOf
  BY DEF SameMapOf, mapOf

LEMMA WithMapSameMap ==
    ASSUME NEW key, NEW map, OneMap(WithMap(key), AllocatedRuns', key, map), map = WithMap(key)[key]
    PROVE  SameMapOf
  <1> SUFFICES ASSUME NEW k
               PROVE  mapOf(k)' = mapOf(k)
    BY DEF SameMapOf
  <1>1. /\ DOMAIN AllocatedRuns' = DOMAIN AllocatedRuns \cup {key}
        /\ \A x \in DOMAIN AllocatedRuns' : AllocatedRuns'[x] = WithMap(key)[x]
    <2>1. DOMAIN AllocatedRuns' = DOMAIN WithMap(key)
      BY DEF OneMap
    <2>2. ASSUME NEW x \in DOMAIN AllocatedRuns'
          PROVE  AllocatedRuns'[x] = WithMap(key)[x]
      <3>1. CASE x = key
        BY <2>1, <2>2, <3>1 DEF OneMap
      <3>2. CASE x # key
        BY <2>1, <2>2, <3>2 DEF OneMap
      <3> QED BY <3>1, <3>2
    <2> QED BY <2>1, <2>2, WithMapDomain, Zenon
  <1>2. CASE k \in DOMAIN AllocatedRuns
    <2>1. AllocatedRuns'[k] = AllocatedRuns[k] /\ k \in DOMAIN AllocatedRuns'
      BY <1>1, <1>2, WithMapDomain
    <2> QED BY <1>2, <2>1, Zenon DEF mapOf
  <1>3. CASE k \notin DOMAIN AllocatedRuns /\ k = key
    <2>1. AllocatedRuns'[k] = NoRuns /\ k \in DOMAIN AllocatedRuns'
      BY <1>1, <1>3, WithMapDomain
    <2> QED BY <1>3, <2>1, Zenon DEF mapOf
  <1>4. CASE k \notin DOMAIN AllocatedRuns /\ k # key
    <2>1. k \notin DOMAIN AllocatedRuns'
      BY <1>1, <1>4
    <2> QED BY <1>4, <2>1, Zenon DEF mapOf
  <1> QED BY <1>2, <1>3, <1>4

LEMMA FilterFsSameMap ==
    ASSUME FilterFs
    PROVE  SameMapOf
  <1>1. AllocatedRuns' = WithMap(NumVols)
    BY DEF FilterFs
  <1>2. OneMap(WithMap(NumVols), AllocatedRuns', NumVols, WithMap(NumVols)[NumVols])
    BY <1>1, SameMaps, Zenon
  <1> QED BY <1>2, WithMapSameMap

\* Whether bytes are owned, and entries apart, changes with the entries only.
SafeInv == OwnInv /\ ApartInv

LEMMA InitSafe == Init => SafeInv
  <1> SUFFICES ASSUME Init
               PROVE  UnallocatedRecords = {}
    BY DEF SafeInv, OwnInv, ApartInv
  <1> QED BY DEF Init, UnallocatedRecords

LEMMA CalmSafe ==
    ASSUME TypeInv, RecordsInv, SafeInv, Calm, SameMapOf \/ UnallocatedRecords = {}
    PROVE  SafeInv'
  <1>1. CASE SameMapOf
    BY <1>1, CalmApart, CalmOwn DEF SafeInv, TypeInv
  <1>2. CASE UnallocatedRecords = {}
    BY <1>2, NoneOwned DEF SafeInv, Calm
  <1> QED BY <1>1, <1>2

-----------------------------------------------------------------------------
(***************************************************************************)
(* The gaps between the extents: the entries of the volume lie before the  *)
(* one at hand, and no byte in it is in the map.                           *)
(***************************************************************************)
Map == AllocatedRuns[NumVols]

\* The entries of the volume end at block b, or before it.
Behind(b) ==
    \A n \in UnallocatedRecords :
        Out[n].volIndex = NumVols => RunOf(Out[n]).addr + RunOf(Out[n]).len <= b

\* s may be where flushUnallocated goes on, before the extent at n.
Cursor(s, n) ==
    /\ s \in Nat /\ Fs.offset <= s /\ s < U64
    /\ n = EndIter \/ n \in DOMAIN Map
    /\ Between(Map, s, n)
    /\ AtBlock(Fs, s) \/ s = n
    /\ Behind(BlockOf(s)) /\ (n # EndIter => Behind(BlockOf(n)))

FlushInv == pc = "flush" => Cursor(start, nextFrag)

\* The bytes of blocks b up to end are not in the map.
Unmapped(map, fs, b, end) == \A x \in DOMAIN map : x \notin BytesFrom(fs, b, end)

\* The blocks that the loop goes on by do not wrap around.
Paced ==
    /\ maxBlocks \in Nat /\ 1 <= maxBlocks /\ maxBlocks <= MaxUnallocatedBlockSize
    /\ blkEnd + maxBlocks < U64 \/ blk + maxBlocks = blkEnd \/ blk >= blkEnd

FragmentInv ==
    pc = "fragment" =>
        /\ \/ nextFrag = EndIter /\ blkEnd = Fs.last
           \/ nextFrag \in DOMAIN Map /\ blkEnd = BlockOf(nextFrag)
        /\ blk \in Nat /\ blkEnd \in Nat /\ blkEnd < U64
        /\ Within(Fs, FSEnd, blkEnd)
        /\ Unmapped(Map, Fs, blk, blkEnd)
        /\ Behind(AtMost(blk, blkEnd))
        /\ UCMode = "block" => blk <= blkEnd
        /\ UCMode = "fragment" => Paced

LEMMA BehindCalm ==
    ASSUME Calm, NumVols' = NumVols, NEW b, Behind(b)
    PROVE  Behind(b)'
  <1> SUFFICES ASSUME NEW n \in UnallocatedRecords, Out'[n].volIndex = NumVols
               PROVE  RunOf(Out'[n]).addr + RunOf(Out'[n]).len <= b
    BY Zenon DEF Calm, Behind, RunOf
  <1>1. Out'[n] = Out[n]
    BY DEF Calm
  <1> QED BY <1>1, Zenon DEF Behind, RunOf

LEMMA BehindMore ==
    ASSUME RecordsInv, ResultsTyped, NEW b \in Int, NEW c \in Int, b <= c, Behind(b)
    PROVE  Behind(c)
  <1> SUFFICES ASSUME NEW n \in UnallocatedRecords, Out[n].volIndex = NumVols
               PROVE  RunOf(Out[n]).addr + RunOf(Out[n]).len <= c
    BY Zenon DEF Behind
  <1>1. RunOf(Out[n]) \in RunType
    BY AreEmitted, Zenon DEF Emitted
  <1>2. PICK run \in RunType : run = RunOf(Out[n])
    BY <1>1
  <1>3. run.addr \in Nat /\ run.len \in Nat /\ run.addr + run.len <= b
    <2>1. run.addr + run.len <= b
      BY <1>2, Zenon DEF Behind
    <2> QED BY <2>1 DEF RunType
  <1> QED BY <1>2, <1>3

LEMMA CursorKept ==
    ASSUME Calm, UNCHANGED <<Fs, NumVols, AllocatedRuns>>, NEW s, NEW n, Cursor(s, n)
    PROVE  Cursor(s, n)'
  <1>1. PICK b, c : b = BlockOf(s) /\ c = BlockOf(n)
    OBVIOUS
  <1>2. BlockOf(s)' = b /\ BlockOf(n)' = c
    BY <1>1 DEF BlockOf
  <1>3. Behind(b) /\ (n # EndIter => Behind(c))
    BY <1>1, Zenon DEF Cursor
  <1>4. Behind(b)' /\ (n # EndIter => Behind(c)')
    BY <1>3, BehindCalm
  <1>5. Behind(BlockOf(s))' /\ (n # EndIter => Behind(BlockOf(n))')
    BY <1>2, <1>4, Zenon DEF Behind
  <1>6. Map' = Map
    BY DEF Map
  <1> QED BY <1>5, <1>6, Zenon DEF Cursor, Between, AtBlock

LEMMA ImageAddressed ==
    ASSUME BytesAddressed, TypeInv, NEW k \in FsIndexes(img)
    PROVE  /\ img.size < U64 /\ U64 \in Nat
           /\ FsOf(img, k).offset + FsOf(img, k).first * FsOf(img, k).bs < U64
           /\ FsOf(img, k).offset + FsOf(img, k).last * FsOf(img, k).bs < U64
  <1>1. img \in Images
    BY DEF TypeInv, ControlTyped
  <1> QED BY <1>1, WordAssumption, Zenon DEF BytesAddressed

LEMMA MapFacts ==
    ASSUME BytesAddressed, TypeInv, SettingInv, MapsInv, pc \in {"flush", "fragment"}
    PROVE  /\ Fs \in FsType /\ Fs.offset \in Nat /\ FSEnd \in Nat /\ FSEnd < U64 /\ U64 \in Nat
           /\ Mapped(Map, Fs, FSEnd) /\ DOMAIN Map \subseteq 0 .. FSEnd - 1
           /\ \A x \in DOMAIN Map : x \in Nat /\ Fs.offset <= x /\ x < FSEnd /\ x < U64
  <1>1. /\ NumVols \in FsIndexes(img) /\ Fs \in FsType /\ FSEnd \in Nat /\ FSEnd <= img.size
        /\ img.size \in Nat /\ Mapped(Map, Fs, FSEnd)
    BY FsAtHand DEF Map
  <1>2. Fs.offset \in Nat
    BY <1>1, FsFields
  <1>3. FSEnd < U64 /\ U64 \in Nat
    BY <1>1, ImageAddressed
  <1>4. DOMAIN Map \subseteq Fs.offset .. FSEnd - 1
    BY <1>1 DEF Mapped
  <1> QED BY <1>1, <1>2, <1>3, <1>4

LEMMA NextExtentCursor ==
    ASSUME BytesAddressed, TypeInv, SettingInv, MapsInv, RecordsInv, pc \in {"flush", "fragment"},
           nextFrag \in DOMAIN Map, Behind(BlockOf(nextFrag)),
           NEW e, e = SegmentEnd(Map, nextFrag),
           NEW n, n = Lowest(Later(Map, nextFrag))
    PROVE  Cursor(e, n)
  <1>1. /\ Fs \in FsType /\ Fs.offset \in Nat /\ FSEnd \in Nat /\ FSEnd < U64 /\ U64 \in Nat
        /\ Mapped(Map, Fs, FSEnd) /\ DOMAIN Map \subseteq 0 .. FSEnd - 1
        /\ \A x \in DOMAIN Map : x \in Nat /\ Fs.offset <= x /\ x < FSEnd /\ x < U64
    BY MapFacts
  <1>2. PICK map : map = Map
    OBVIOUS
  <1>3. /\ e \in Nat /\ nextFrag < e /\ e <= FSEnd
        /\ n = EndIter \/ (n \in DOMAIN map /\ e <= n)
        /\ Between(map, e, n)
        /\ AtBlock(Fs, e) \/ n = e
    <2>1. /\ Mapped(map, Fs, FSEnd) /\ UpTo(map, FSEnd) /\ FSEnd \in Nat
          /\ nextFrag \in DOMAIN map /\ NextExtentIs(map, nextFrag, e, n)
      BY <1>1, <1>2 DEF UpTo, NextExtentIs
    <2> QED BY <2>1, FollowingExtent
  <1>4. nextFrag \in Nat /\ Fs.offset <= nextFrag
    BY <1>1
  <1>5. e < U64 /\ Fs.offset <= e /\ nextFrag <= e
    BY <1>1, <1>3, <1>4
  <1>6. /\ BlockOf(nextFrag) \in Int /\ BlockOf(e) \in Int /\ BlockOf(nextFrag) <= BlockOf(e)
    BY <1>1, <1>3, <1>4, <1>5, BlockOfIs, BlockOfOrder
  <1>7. ResultsTyped
    BY DEF TypeInv
  <1>8. Behind(BlockOf(e))
    BY <1>6, <1>7, BehindMore
  <1>9. n # EndIter => Behind(BlockOf(n))
    <2> SUFFICES ASSUME n # EndIter
                 PROVE  Behind(BlockOf(n))
      OBVIOUS
    <2>1. n \in DOMAIN map /\ e <= n
      BY <1>3
    <2>2. n \in Nat /\ n < U64
      BY <1>1, <1>2, <2>1
    <2>3. BlockOf(n) \in Int /\ BlockOf(e) <= BlockOf(n)
      BY <1>1, <1>3, <1>5, <2>1, <2>2, BlockOfIs, BlockOfOrder
    <2> QED BY <1>6, <1>7, <1>8, <2>3, BehindMore
  <1> QED BY <1>2, <1>3, <1>5, <1>8, <1>9 DEF Cursor

LEMMA NextExtentFlush ==
    ASSUME BytesAddressed, TypeInv, SettingInv, MapsInv, RecordsInv, pc \in {"flush", "fragment"},
           nextFrag = EndIter \/ (nextFrag \in DOMAIN Map /\ Behind(BlockOf(nextFrag))),
           NextExtent, Calm, UNCHANGED <<Fs, NumVols, AllocatedRuns>>
    PROVE  FlushInv' /\ FragmentInv'
  <1>1. CASE nextFrag = EndIter
    BY <1>1 DEF NextExtent, FlushInv, FragmentInv
  <1>2. CASE nextFrag # EndIter
    <2>1. PICK e, n : /\ e = SegmentEnd(Map, nextFrag)
                      /\ n = Lowest(Later(Map, nextFrag))
      OBVIOUS
    <2>2. Cursor(e, n)
      BY <1>2, <2>1, NextExtentCursor
    <2>3. pc' = "flush" /\ start' = e /\ nextFrag' = n
      BY <1>2, <2>1, Zenon DEF NextExtent, Map, Later
    <2>4. Cursor(e, n)'
      BY <2>2, CursorKept
    <2>5. Cursor(start, nextFrag)'
      BY <2>3, <2>4, Zenon DEF Cursor, Between, AtBlock, BlockOf, Behind
    <2> QED BY <2>3, <2>5 DEF FlushInv, FragmentInv
  <1> QED BY <1>1, <1>2

LEMMA TimesMore ==
    ASSUME NEW d \in Nat, d > 0, NEW b \in Nat
    PROVE  b * d \in Nat /\ b <= b * d
  <1>1. PICK c \in Nat : d = c + 1
    <2>1. d - 1 \in Nat /\ d = (d - 1) + 1
      OBVIOUS
    <2> QED BY <2>1
  <1>2. b * d = b * c + b /\ b * c \in Nat
    BY <1>1
  <1> QED BY <1>2

\* The gap that NextFragment finds is free, and whole blocks.
LEMMA GapFree ==
    ASSUME BytesAddressed, BlocksWhole, TypeInv, SettingInv, MapsInv, RecordsInv, FlushInv,
           pc = "flush", NEW b, b = BlockOf(start),
           NEW e, e = IF nextFrag = EndIter THEN Fs.last ELSE BlockOf(nextFrag), b < e
    PROVE  /\ nextFrag = EndIter \/ (nextFrag \in DOMAIN Map /\ e = BlockOf(nextFrag))
           /\ b \in Nat /\ e \in Nat /\ e < U64
           /\ Within(Fs, FSEnd, e) /\ Unmapped(Map, Fs, b, e) /\ Behind(b)
           /\ \/ nextFrag = EndIter /\ e = FsOf(img, NumVols).last
              \/ e < img.size
  <1>1. /\ Fs \in FsType /\ Fs.offset \in Nat /\ FSEnd \in Nat /\ FSEnd < U64 /\ U64 \in Nat
        /\ \A x \in DOMAIN Map : x \in Nat /\ Fs.offset <= x /\ x < FSEnd /\ x < U64
    BY MapFacts
  <1>2. /\ Fs.bs \in Nat /\ Fs.bs > 0 /\ Fs.last \in Nat
    BY <1>1, FsFields
  <1>3. Cursor(start, nextFrag)
    BY DEF FlushInv
  <1>4. /\ start \in Nat /\ Fs.offset <= start /\ start < U64
        /\ nextFrag = EndIter \/ nextFrag \in DOMAIN Map
        /\ Between(Map, start, nextFrag) /\ (AtBlock(Fs, start) \/ start = nextFrag)
        /\ Behind(b)
    BY <1>3 DEF Cursor
  <1>5. b \in Nat
    BY <1>1, <1>4, BlockOfIs
  <1>6. /\ img \in Images /\ NumVols \in FsIndexes(img) /\ Fs = FsOf(img, NumVols)
        /\ FSEnd = RangeEnd(img, NumVols) /\ FSEnd <= img.size /\ img.size \in Nat
    BY FsAtHand
  <1>7. CASE nextFrag = EndIter
    <2>1. e = Fs.last /\ e \in Nat
      BY <1>2, <1>7
    <2>2. PICK p \in Nat : p = e * Fs.bs
      BY <1>2, <2>1
    <2>3. Fs.offset + p < U64
      BY <1>6, <2>1, <2>2, ImageAddressed
    <2>4. e <= p
      BY <1>2, <2>1, <2>2, TimesMore
    <2>5. e < U64
      BY <1>1, <2>1, <2>3, <2>4
    <2>6. Within(Fs, FSEnd, e)
      BY <1>6, <2>1, Zenon DEF BlocksWhole
    <2>7. Unmapped(Map, Fs, b, e)
      <3>1. \A x \in DOMAIN Map : ~(x >= start)
        BY <1>4, <1>7 DEF Between
      <3>2. start # nextFrag
        BY <1>4, <1>7 DEF EndIter
      <3>3. Fs.offset + b * Fs.bs = start
        BY <1>1, <1>4, <3>2, BlockOfBoundary
      <3>4. \A x \in DOMAIN Map : x \notin BytesFrom(Fs, b, e)
        BY <3>1, <3>3 DEF BytesFrom
      <3> QED BY <3>4 DEF Unmapped
    <2> QED BY <1>4, <1>5, <1>6, <1>7, <2>1, <2>5, <2>6, <2>7
  <1>8. CASE nextFrag # EndIter
    <2>1. nextFrag \in DOMAIN Map /\ e = BlockOf(nextFrag)
      BY <1>4, <1>8
    <2>2. nextFrag \in Nat /\ Fs.offset <= nextFrag /\ nextFrag < FSEnd /\ nextFrag < U64
      BY <1>1, <2>1
    <2>3. e \in Nat /\ Fs.offset + e * Fs.bs <= nextFrag /\ e * Fs.bs \in Nat
      BY <1>1, <2>1, <2>2, BlockOfIs
    <2>4. PICK p \in Nat : p = e * Fs.bs
      BY <2>3
    <2>5. Fs.offset + p <= nextFrag
      BY <2>3, <2>4
    <2>6. e <= p
      BY <1>2, <2>3, <2>4, TimesMore
    <2>7. e < U64 /\ e < img.size
      BY <1>1, <1>6, <2>2, <2>3, <2>5, <2>6
    <2>8. Within(Fs, FSEnd, e)
      <3>1. Fs.offset + p <= FSEnd
        BY <1>1, <2>2, <2>5
      <3> QED BY <2>4, <3>1 DEF Within
    <2>9. Unmapped(Map, Fs, b, e)
      <3>1. start # nextFrag
        BY <1>5, <2>1, <2>3
      <3>2. Fs.offset + b * Fs.bs = start
        BY <1>1, <1>4, <3>1, BlockOfBoundary
      <3>3. ASSUME NEW x \in DOMAIN Map, x \in BytesFrom(Fs, b, e)
            PROVE  FALSE
        <4>1. x \in start .. Fs.offset + p - 1
          BY <2>4, <3>2, <3>3 DEF BytesFrom
        <4>2. x \in Int /\ x >= start /\ x < Fs.offset + p
          BY <1>1, <1>4, <4>1
        <4>3. nextFrag <= x
          BY <1>4, <4>2 DEF Between
        <4> QED BY <1>1, <2>2, <2>5, <4>2, <4>3
      <3> QED BY <3>3 DEF Unmapped
    <2> QED BY <1>4, <1>5, <2>1, <2>3, <2>7, <2>8, <2>9
  <1> QED BY <1>7, <1>8

LEMMA NextFragmentGaps ==
    ASSUME MaximumMeant, BytesAddressed, BlocksWhole, TypeInv, SettingInv, MapsInv, RecordsInv,
           FlushInv, Calm, NextFragment
    PROVE  FlushInv' /\ FragmentInv'
  <1>1. /\ pc = "flush" /\ UNCHANGED <<img, UCMode, MaxUnallocatedBlockSize>>
        /\ UNCHANGED <<Fs, FSEnd, NumVols, AllocatedRuns>>
    BY DEF NextFragment, args, volume, fileSys, results
  <1>2. PICK b, e : b = BlockOf(start) /\ e = IF nextFrag = EndIter THEN Fs.last ELSE BlockOf(nextFrag)
    OBVIOUS
  <1>3. CASE b < e /\ ~(b >= e)
    <2>1. /\ blk' = b /\ blkEnd' = e /\ pc' = "fragment" /\ nextFrag' = nextFrag
          /\ maxBlocks' = IF MaxUnallocatedBlockSize = NoLimit THEN e - b
                          ELSE MaxUnallocatedBlockSize
      BY <1>2, <1>3, Zenon DEF NextFragment
    <2>2. /\ nextFrag = EndIter \/ (nextFrag \in DOMAIN Map /\ e = BlockOf(nextFrag))
          /\ b \in Nat /\ e \in Nat /\ e < U64
          /\ Within(Fs, FSEnd, e) /\ Unmapped(Map, Fs, b, e) /\ Behind(b)
          /\ \/ nextFrag = EndIter /\ e = FsOf(img, NumVols).last
             \/ e < img.size
      BY <1>1, <1>2, <1>3, GapFree
    <2>3. UCMode = "fragment" => Paced'
      <3> SUFFICES ASSUME UCMode = "fragment"
                   PROVE  Paced'
        OBVIOUS
      <3>1. U64 \in Nat
        BY WordAssumption
      <3>2. MaxUnallocatedBlockSize \in Nat
        BY DEF TypeInv, ControlTyped
      <3>3. CASE MaxUnallocatedBlockSize = NoLimit
        <4>1. maxBlocks' = e - b
          BY <2>1, <3>3
        <4>2. e - b \in Nat /\ 1 <= e - b /\ e - b <= NoLimit /\ b + (e - b) = e
          BY <1>3, <2>2, <3>1 DEF NoLimit
        <4> QED BY <1>1, <2>1, <3>3, <4>1, <4>2 DEF Paced
      <3>4. CASE MaxUnallocatedBlockSize # NoLimit
        <4>1. maxBlocks' = MaxUnallocatedBlockSize
          BY <2>1, <3>4
        <4>2. MaxUnallocatedBlockSize \in MaxUcBlocks \ {NoLimit}
          BY <3>4 DEF SettingInv, MaxInv
        <4>3. /\ img \in Images /\ NumVols \in FsIndexes(img) /\ img.size \in Nat
              /\ FsOf(img, NumVols).last \in Nat
          BY <1>1, FsAtHand, FsFields
        <4>4. /\ MaxUnallocatedBlockSize > 0 /\ img.size + MaxUnallocatedBlockSize < U64
              /\ FsOf(img, NumVols).last + MaxUnallocatedBlockSize < U64
          BY <4>2, <4>3, Zenon DEF MaximumMeant
        <4>5. e + MaxUnallocatedBlockSize < U64
          BY <2>2, <3>1, <3>2, <4>3, <4>4
        <4> QED BY <1>1, <2>1, <3>2, <4>1, <4>4, <4>5 DEF Paced
      <3> QED BY <3>3, <3>4
    <2>4. AtMost(b, e) = b /\ b <= e
      BY <1>3, <2>2 DEF AtMost
    <2>5. Behind(AtMost(b, e))'
      <3>1. AtMost(b, e)' = b
        BY <2>4 DEF AtMost
      <3>2. Behind(b)'
        BY <1>1, <2>2, BehindCalm
      <3> QED BY <3>1, <3>2
    <2>6. Map' = Map /\ BlockOf(nextFrag)' = BlockOf(nextFrag)
      BY <1>1, <2>1 DEF Map, BlockOf
    <2>7. \/ nextFrag' = EndIter /\ blkEnd' = Fs'.last
          \/ nextFrag' \in DOMAIN Map' /\ blkEnd' = BlockOf(nextFrag)'
      BY <1>1, <1>2, <2>1, <2>2, <2>6
    <2>8. Within(Fs, FSEnd, blkEnd)' /\ Unmapped(Map, Fs, blk, blkEnd)' /\ Behind(AtMost(blk, blkEnd))'
      BY <1>1, <2>1, <2>2, <2>5, <2>6, Zenon DEF Within, AtBlock, Unmapped, BytesFrom, Behind
    <2> QED BY <1>1, <2>1, <2>2, <2>3, <2>4, <2>7, <2>8 DEF FlushInv, FragmentInv
  <1>4. CASE ~(b < e)
    <2>1. NextExtent
      BY <1>2, <1>4, Zenon DEF NextFragment
    <2>2. nextFrag = EndIter \/ (nextFrag \in DOMAIN Map /\ Behind(BlockOf(nextFrag)))
      BY <1>1 DEF FlushInv, Cursor
    <2> QED BY <1>1, <2>1, <2>2, NextExtentFlush
  <1>5. b \in Int /\ e \in Int
    <2>1. /\ Fs \in FsType /\ Fs.offset \in Nat
          /\ \A x \in DOMAIN Map : x \in Nat /\ Fs.offset <= x /\ x < FSEnd /\ x < U64
      BY <1>1, MapFacts
    <2>2. /\ start \in Nat /\ Fs.offset <= start /\ start < U64
          /\ nextFrag = EndIter \/ nextFrag \in DOMAIN Map
      BY <1>1 DEF FlushInv, Cursor
    <2>3. b \in Nat
      BY <1>2, <2>1, <2>2, BlockOfIs
    <2>4. Fs.last \in Nat
      BY <2>1, FsFields
    <2>5. nextFrag # EndIter => BlockOf(nextFrag) \in Nat
      BY <2>1, <2>2, BlockOfIs
    <2> QED BY <1>2, <2>3, <2>4, <2>5
  <1> QED BY <1>3, <1>4, <1>5

LEMMA FragmentDoneGaps ==
    ASSUME BytesAddressed, TypeInv, SettingInv, MapsInv, RecordsInv, FragmentInv, Calm, FragmentDone
    PROVE  FlushInv' /\ FragmentInv'
  <1>1. /\ pc = "fragment" /\ NextExtent /\ UNCHANGED <<Fs, NumVols, AllocatedRuns>>
        /\ IF UCMode = "block" THEN blk = blkEnd ELSE blk >= blkEnd
    BY DEF FragmentDone, volume, fileSys, results
  <1>2. /\ nextFrag = EndIter \/ (nextFrag \in DOMAIN Map /\ blkEnd = BlockOf(nextFrag))
        /\ blk \in Nat /\ blkEnd \in Nat /\ Behind(AtMost(blk, blkEnd))
    BY <1>1 DEF FragmentInv
  <1>3. AtMost(blk, blkEnd) = blkEnd
    BY <1>1, <1>2 DEF AtMost
  <1>4. Behind(blkEnd)
    BY <1>2, <1>3
  <1>5. nextFrag = EndIter \/ (nextFrag \in DOMAIN Map /\ Behind(BlockOf(nextFrag)))
    BY <1>2, <1>4
  <1> QED BY <1>1, <1>5, NextExtentFlush

LEMMA FilterFsUnallocatedGaps ==
    ASSUME BytesAddressed, TypeInv, SettingInv, SettingInv', MapsInv', Fresh', FilterFsUnallocated
    PROVE  FlushInv' /\ FragmentInv'
  <1>1. /\ pc' = "flush" /\ Fs' = FsHere /\ NumVols' = NumVols /\ img' = img
        /\ start' = FsHere.first * FsHere.bs + FsHere.offset
        /\ nextFrag' = Lowest(SegmentStarts(AllocatedRuns'[NumVols]))
        /\ AtFs /\ FsHere # NoFs
    BY DEF FilterFsUnallocated, setFsInfo, volume, args
  <1>2. PICK fs : fs = FsOf(img, NumVols)
    OBVIOUS
  <1>3. NumVols \in FsIndexes(img) /\ Fs' = fs /\ img \in Images
    BY <1>1, <1>2, FsHereIs DEF TypeInv, ControlTyped
  <1>4. /\ fs \in FsType /\ fs.offset \in Nat /\ fs.first \in Nat /\ fs.bs \in Nat
        /\ RangeEnd(img, NumVols) \in Nat
    BY <1>2, <1>3, FsOfTyped, FsFields
  <1>5. NumVols \in DOMAIN AllocatedRuns'
    BY <1>1 DEF SettingInv, FsInv
  <1>6. PICK map : map = AllocatedRuns'[NumVols]
    OBVIOUS
  <1>7. DOMAIN map \subseteq Nat
    <2>1. Mapped(map, fs, RangeEnd(img, NumVols))
      BY <1>1, <1>2, <1>3, <1>5, <1>6, Zenon DEF MapsInv, FsOf, RangeEnd, FsIndexes
    <2> QED BY <1>4, <2>1 DEF Mapped
  <1>8. PICK b, n : /\ b = fs.offset + fs.first * fs.bs
                    /\ n = Lowest(SegmentStarts(map))
    OBVIOUS
  <1>9. start' = b /\ nextFrag' = n
    BY <1>1, <1>3, <1>4, <1>6, <1>8
  <1>10. b \in Nat /\ AtBlock(fs, b) /\ fs.offset <= b /\ b < U64
    <2>1. b \in Nat /\ AtBlock(fs, b)
      BY <1>4, <1>8, Boundary
    <2>2. fs.offset <= b
      <3>1. fs.first * fs.bs \in Nat
        BY <1>4
      <3> QED BY <1>4, <1>8, <3>1
    <2>3. b < U64
      BY <1>2, <1>3, <1>8, ImageAddressed
    <2> QED BY <2>1, <2>2, <2>3
  <1>11. (n = EndIter \/ n \in DOMAIN map) /\ Between(map, b, n)
    BY <1>7, <1>8, FirstExtent
  <1>12. \A x : Behind(x)'
    BY Zenon DEF Fresh, Behind
  <1>13. Map' = map
    BY <1>1, <1>6 DEF Map
  <1>14. Cursor(start, nextFrag)'
    BY <1>3, <1>9, <1>10, <1>11, <1>12, <1>13, Zenon DEF Cursor, Between, AtBlock
  <1> QED BY <1>1, <1>14 DEF FlushInv, FragmentInv

-----------------------------------------------------------------------------
(***************************************************************************)
(* Emitting the blocks at hand.                                            *)
(***************************************************************************)

\* A run of the blocks that are left, from the first on.
AtHand(run) ==
    /\ run \in RunType /\ run.addr = blk /\ run.len > 0
    /\ blk + run.len <= blkEnd /\ run.len <= Largest

Emission(run) ==
    /\ pc = "fragment" /\ AtHand(run) /\ Emits(run)
    /\ UNCHANGED <<args, volume, InUnallocated, fileSys>>

LEMMA RunAtHand ==
    ASSUME FragmentInv, pc = "fragment", NEW run, AtHand(run)
    PROVE  /\ run.addr \in Nat /\ run.len \in Nat /\ blk \in Nat /\ blkEnd \in Nat
           /\ blk < blkEnd /\ Behind(blk) /\ run.addr = blk
           /\ Unmapped(Map, Fs, blk, blkEnd)
  <1>1. run.addr \in Nat /\ run.len \in Nat
    BY DEF AtHand, RunType
  <1>2. /\ blk \in Nat /\ blkEnd \in Nat /\ Behind(AtMost(blk, blkEnd))
        /\ Unmapped(Map, Fs, blk, blkEnd)
    BY DEF FragmentInv
  <1>3. blk < blkEnd
    BY <1>1, <1>2 DEF AtHand
  <1>4. AtMost(blk, blkEnd) = blk
    BY <1>2, <1>3 DEF AtMost
  <1> QED BY <1>1, <1>2, <1>3, <1>4 DEF AtHand

LEMMA EmissionRecordsInv ==
    ASSUME TypeInv, SettingInv, MapsInv, RecordsInv, NEW run, Emission(run)
    PROVE  RecordsInv'
  <1>1. /\ pc = "fragment" /\ UNCHANGED <<args, volume, InUnallocated, fileSys>>
        /\ run \in RunType /\ run.len <= Largest
    BY DEF Emission, AtHand
  <1>2. /\ img \in Images /\ NumVols \in FsIndexes(img) /\ NumVols \in Nat
        /\ Fs = FsOf(img, NumVols)
    BY <1>1, FsAtHand
  <1>3. InUnallocated /\ InUnallocated' = InUnallocated
    BY <1>1 DEF SettingInv, FsInv
  <1>4. NumVols' = NumVols /\ img' = img /\ Largest' = Largest
    BY <1>1 DEF volume, args, Largest
  <1>5. Onward
    BY <1>1, <1>2, <1>4 DEF Onward
  <1>6. ResultsTyped
    BY DEF TypeInv
  <1>7. CASE Out' = Out
    BY <1>2, <1>5, <1>7, SameOutRecords
  <1>8. CASE \E r : Out' = Append(Out, r) /\ OfRun(r, run, NumVols, Fs)
    <2>1. PICK r : Out' = Append(Out, r) /\ OfRun(r, run, NumVols, Fs)
      BY <1>8
    <2>2. r.volIndex = NumVols /\ RunOf(r) = run
      BY <2>1 DEF OfRun
    <2>3. OfRun(r, RunOf(r), r.volIndex, FsOf(img, r.volIndex))
      BY <1>2, <2>1, <2>2
    <2>4. Emitted(r)
      BY <1>1, <1>2, <1>3, <2>2, <2>3 DEF Emitted
    <2>5. Emitted(r)'
      BY <1>2, <1>5, <2>4, EmittedKept
    <2> QED BY <1>2, <1>5, <1>6, <2>1, <2>5, OneMoreKept
  <1> QED BY <1>7, <1>8 DEF Emission, Emits

LEMMA EmissionMaps ==
    ASSUME TypeInv, SettingInv, MapsInv, NEW run, Emission(run)
    PROVE  MapsInv'
  <1>1. /\ pc = "fragment" /\ img' = img
        /\ Grown(AllocatedRuns, AllocatedRuns', NumVols, Fs, FSEnd, NoLimit - run.addr,
                 RunBytesOf(Fs, run))
    BY DEF Emission, Emits, args
  <1>2. /\ NumVols \in FsIndexes(img) /\ Fs = FsOf(img, NumVols) /\ FSEnd = RangeEnd(img, NumVols)
    BY <1>1, FsAtHand
  <1>3. PICK map : /\ OneMap(AllocatedRuns, AllocatedRuns', NumVols, map)
                   /\ Mapped(map, Fs, FSEnd)
    BY <1>1, Zenon DEF Grown, Grows
  <1>4. Mapped(map, FsOf(img, NumVols), RangeEnd(img, NumVols))
    BY <1>2, <1>3
  <1> QED BY <1>1, <1>3, <1>4, OneMapMapped DEF MapsInv

\* After an emission the entries are those before and the new one.
Older(n) == n \in UnallocatedRecords /\ Out'[n] = Out[n]

Newer(n, run) == n = Len(Out) + 1 /\ OfRun(Out'[n], run, NumVols, Fs)

LEMMA EmissionEntries ==
    ASSUME ResultsTyped, NEW run, Emits(run), NEW n \in UnallocatedRecords'
    PROVE  Older(n) \/ Newer(n, run)
  <1>1. n \in DOMAIN Out' /\ InFolder(Out'[n])
    BY Zenon DEF UnallocatedRecords, InFolder
  <1>2. CASE n \in DOMAIN Out /\ Out'[n] = Out[n]
    BY <1>1, <1>2, Zenon DEF UnallocatedRecords, InFolder, Older
  <1>3. CASE Out' = Out
    BY <1>1, <1>2, <1>3
  <1>4. ASSUME NEW r, Out' = Append(Out, r), OfRun(r, run, NumVols, Fs)
        PROVE  Older(n) \/ Newer(n, run)
    <2>1. PICK S : Out \in Seq(S)
      BY DEF ResultsTyped
    <2>2. /\ DOMAIN Out' = DOMAIN Out \cup {Len(Out) + 1}
          /\ \A m \in DOMAIN Out : Out'[m] = Out[m]
          /\ Out'[Len(Out) + 1] = r
      BY <1>4, <2>1, OneMoreRecord
    <2>3. CASE n \in DOMAIN Out
      BY <1>2, <2>2, <2>3
    <2>4. CASE n = Len(Out) + 1
      BY <1>4, <2>2, <2>4 DEF Newer
    <2> QED BY <1>1, <2>2, <2>3, <2>4
  <1> QED BY <1>3, <1>4 DEF Emits

\* What is there already lies behind the run, what is left before it.
LEMMA BytesBehind ==
    ASSUME NEW fs \in FsType, NEW a \in Nat, NEW b \in Nat, NEW c \in Nat, NEW d \in Nat,
           b <= c, NEW x \in BytesFrom(fs, a, b)
    PROVE  x \notin BytesFrom(fs, c, d)
  <1>1. fs.offset \in Nat /\ fs.bs \in Nat
    BY FsFields
  <1>2. PICK p, q : p = b * fs.bs /\ q = c * fs.bs
    OBVIOUS
  <1>3. p \in Nat /\ q \in Nat /\ p <= q
    BY <1>1, <1>2, Products
  <1>4. a * fs.bs \in Nat /\ d * fs.bs \in Nat
    BY <1>1
  <1>5. x \in Int /\ x < fs.offset + p
    BY <1>1, <1>2, <1>3, <1>4 DEF BytesFrom
  <1>6. x \in fs.offset + q .. fs.offset + d * fs.bs - 1 => x >= fs.offset + q
    BY <1>1, <1>3, <1>4
  <1>7. x \in BytesFrom(fs, c, d) => x >= fs.offset + q
    BY <1>2, <1>6 DEF BytesFrom
  <1> QED BY <1>1, <1>3, <1>5, <1>7

LEMMA BytesMore ==
    ASSUME NEW fs \in FsType, NEW a \in Nat, NEW b \in Nat, NEW c \in Nat, NEW d \in Nat,
           c <= a, b <= d, NEW x \in BytesFrom(fs, a, b)
    PROVE  x \in BytesFrom(fs, c, d)
  <1>1. fs.offset \in Nat /\ fs.bs \in Nat
    BY FsFields
  <1>2. PICK p, q, r, s : p = a * fs.bs /\ q = b * fs.bs /\ r = c * fs.bs /\ s = d * fs.bs
    OBVIOUS
  <1>3. p \in Nat /\ q \in Nat /\ r \in Nat /\ s \in Nat /\ r <= p /\ q <= s
    BY <1>1, <1>2, Products
  <1>4. x \in fs.offset + p .. fs.offset + q - 1
    BY <1>2 DEF BytesFrom
  <1>5. x \in fs.offset + r .. fs.offset + s - 1
    BY <1>1, <1>3, <1>4
  <1> QED BY <1>2, <1>5 DEF BytesFrom

LEMMA EmissionApart ==
    ASSUME TypeInv, SettingInv, MapsInv, RecordsInv, ApartInv, FragmentInv, NEW run, Emission(run)
    PROVE  ApartInv'
  <1>1. /\ pc = "fragment" /\ Emits(run) /\ AtHand(run)
    BY DEF Emission
  <1>2. Behind(blk) /\ run.addr = blk
    BY <1>1, RunAtHand
  <1>3. ASSUME NEW m, NEW n, Older(m), Newer(n, run)
        PROVE  Out'[m].volIndex # Out'[n].volIndex \/ Before(Out'[m], Out'[n])
    <2>1. Out'[n].volIndex = NumVols /\ RunOf(Out'[n]) = run
      BY <1>3 DEF Newer, OfRun
    <2>2. m \in UnallocatedRecords /\ Out'[m] = Out[m]
      BY <1>3 DEF Older
    <2>3. Out[m].volIndex = NumVols => RunOf(Out[m]).addr + RunOf(Out[m]).len <= blk
      BY <1>2, <2>2, Zenon DEF Behind
    <2> QED BY <1>2, <2>1, <2>2, <2>3, Zenon DEF Before
  <1>4. ASSUME NEW m \in UnallocatedRecords', NEW n \in UnallocatedRecords', m # n
        PROVE  Apart(Out'[m], Out'[n])
    <2>1. (Older(m) \/ Newer(m, run)) /\ (Older(n) \/ Newer(n, run))
      BY <1>1, EmissionEntries DEF TypeInv
    <2>2. CASE Older(m) /\ Older(n)
      BY <1>4, <2>2, Zenon DEF Older, ApartInv
    <2>3. CASE Older(m) /\ Newer(n, run)
      BY <1>3, <2>3, Zenon DEF Apart
    <2>4. CASE Newer(m, run) /\ Older(n)
      BY <1>3, <2>4, Zenon DEF Apart
    <2>5. CASE Newer(m, run) /\ Newer(n, run)
      BY <1>4, <2>5 DEF Newer
    <2> QED BY <2>1, <2>2, <2>3, <2>4, <2>5
  <1> QED BY <1>4, Zenon DEF ApartInv, Apart, Before, RunOf

\* What the map has after an emission: the run's bytes, and elsewhere what it had.
NewMap(new, run) ==
    /\ \A x \in DOMAIN new : x \notin RunBytesOf(Fs, run) => x \in DOMAIN Map /\ new[x] = Map[x]
    /\ \A x \in DOMAIN new : x \in RunBytesOf(Fs, run) =>
           \A i \in new[x] : i.Inum = NoLimit - run.addr
    /\ \A x \in DOMAIN Map : x \in DOMAIN new /\ new[x] = Map[x]
    /\ \A x \in DOMAIN new : new[x] # {} \/ (x \in DOMAIN Map /\ Map[x] = {})

LEMMA EmissionMap ==
    ASSUME TypeInv, SettingInv, MapsInv, FragmentInv, NEW run, Emission(run)
    PROVE  /\ NumVols \in DOMAIN AllocatedRuns /\ NumVols \in DOMAIN AllocatedRuns'
           /\ NewMap(AllocatedRuns'[NumVols], run)
           /\ \A k : k # NumVols => mapOf(k)' = mapOf(k)
  <1>1. /\ pc = "fragment" /\ AtHand(run)
        /\ Grown(AllocatedRuns, AllocatedRuns', NumVols, Fs, FSEnd, NoLimit - run.addr,
                 RunBytesOf(Fs, run))
    BY DEF Emission, Emits
  <1>2. PICK map : /\ OneMap(AllocatedRuns, AllocatedRuns', NumVols, map)
                   /\ Touches(AllocatedRuns[NumVols], map, NoLimit - run.addr, RunBytesOf(Fs, run))
    BY <1>1, Zenon DEF Grown, Grows
  <1>3. NumVols \in DOMAIN AllocatedRuns /\ Fs \in FsType
    BY <1>1, FsAtHand
  <1>4. NumVols \in DOMAIN AllocatedRuns' /\ AllocatedRuns'[NumVols] = map
    BY <1>2, <1>3, Zenon DEF OneMap
  <1>5. \A k : k # NumVols => mapOf(k)' = mapOf(k)
    BY <1>2, Zenon DEF OneMap, mapOf
  <1>6. /\ run.addr \in Nat /\ run.len \in Nat /\ blk \in Nat /\ blkEnd \in Nat
        /\ run.addr = blk /\ Unmapped(Map, Fs, blk, blkEnd)
    BY <1>1, RunAtHand
  <1>7. ASSUME NEW x \in RunBytesOf(Fs, run)
        PROVE  x \notin DOMAIN Map
    <2>1. run.addr + run.len <= blkEnd /\ run.addr + run.len \in Nat
      BY <1>1, <1>6 DEF AtHand
    <2>2. x \in BytesFrom(Fs, run.addr, run.addr + run.len)
      BY DEF RunBytesOf
    <2>3. blk <= run.addr
      BY <1>6
    <2>4. x \in BytesFrom(Fs, blk, blkEnd)
      BY <1>3, <1>6, <2>1, <2>2, <2>3, BytesMore
    <2> QED BY <1>6, <2>4 DEF Unmapped
  <1>8. NewMap(map, run)
    <2>1. /\ DOMAIN Map \subseteq DOMAIN map
          /\ \A x \in DOMAIN map : x \notin RunBytesOf(Fs, run) => x \in DOMAIN Map /\ map[x] = Map[x]
          /\ \A x \in DOMAIN map : \A i \in map[x] :
                 i.Inum = NoLimit - run.addr \/ (x \in DOMAIN Map /\ i \in Map[x])
          /\ \A x \in DOMAIN map : map[x] = {} => x \in DOMAIN Map /\ Map[x] = {}
      BY <1>2, Zenon DEF Touches, Map
    <2> QED BY <1>7, <2>1, Zenon DEF NewMap
  <1> QED BY <1>3, <1>4, <1>5, <1>8

LEMMA EmissionOwn ==
    ASSUME TypeInv, SettingInv, MapsInv, RecordsInv, OwnInv, FragmentInv, NEW run, Emission(run)
    PROVE  OwnInv'
  <1>1. /\ pc = "fragment" /\ Emits(run) /\ AtHand(run)
    BY DEF Emission
  <1>2. /\ Behind(blk) /\ run.addr = blk /\ run.addr \in Nat /\ run.len \in Nat /\ blk \in Nat
    BY <1>1, RunAtHand
  <1>3. /\ NumVols \in DOMAIN AllocatedRuns /\ NumVols \in DOMAIN AllocatedRuns'
        /\ NewMap(AllocatedRuns'[NumVols], run)
        /\ \A k : k # NumVols => mapOf(k)' = mapOf(k)
    BY EmissionMap
  <1>4. mapOf(NumVols) = Map
    BY <1>3, Zenon DEF mapOf, Map
  <1>5. PICK new : new = AllocatedRuns'[NumVols]
    OBVIOUS
  <1>6. NumVols' = NumVols /\ Fs' = Fs
    BY DEF Emission, volume, fileSys
  <1>7. PICK k : k = NumVols
    OBVIOUS
  <1>8. mapOf(k)' = new
    BY <1>3, <1>5, <1>7, Zenon DEF mapOf
  <1>9. ASSUME NEW n, Newer(n, run)
        PROVE  Owned(Out'[n], mapOf(Out[n].volIndex)')
    <2>1. PICK r : r = Out'[n]
      OBVIOUS
    <2>2. /\ r.volIndex = k /\ r.fs = Fs /\ RunOf(r) = run /\ r.link = <<k, NoLimit - run.addr>>
      BY <1>7, <1>9, <2>1 DEF Newer, OfRun
    <2>3. \A x \in DOMAIN new : x \in RunBytesOf(Fs, run) =>
              \A i \in new[x] : i.Inum = NoLimit - run.addr
      BY <1>3, <1>5, Zenon DEF NewMap
    <2>4. Owned(r, new)
      BY <2>2, <2>3, Zenon DEF Owned
    <2>5. mapOf(Out[n].volIndex)' = new
      BY <1>8, <2>1, <2>2, Zenon DEF mapOf
    <2> QED BY <2>1, <2>4, <2>5
  <1>10. ASSUME NEW n, Older(n)
         PROVE  Owned(Out'[n], mapOf(Out[n].volIndex)')
    <2>1. PICK r, j : r = Out[n] /\ j = r.volIndex
      OBVIOUS
    <2>2. n \in UnallocatedRecords /\ Out'[n] = r
      BY <1>10, <2>1 DEF Older
    <2>3. Owned(r, mapOf(j))
      BY <2>1, <2>2, Zenon DEF OwnInv
    <2>4. mapOf(Out[n].volIndex)' = mapOf(j)'
      BY <2>1, <2>2, Zenon DEF mapOf
    <2>5. CASE j # k
      <3>1. mapOf(j)' = mapOf(j)
        BY <1>3, <1>7, <2>5
      <3> QED BY <2>2, <2>3, <2>4, <3>1
    <2>6. CASE j = k
      <3>1. RunOf(r) \in RunType /\ r.fs = FsOf(img, r.volIndex)
        BY <2>1, <2>2, AreEmitted DEF Emitted, OfRun, TypeInv
      <3>2. Fs = FsOf(img, NumVols) /\ Fs \in FsType
        BY <1>1, FsAtHand
      <3>3. r.fs = Fs
        BY <1>7, <2>1, <2>6, <3>1, <3>2
      <3>4. PICK q \in RunType : q = RunOf(r)
        BY <3>1
      <3>5. q.addr \in Nat /\ q.len \in Nat
        BY DEF RunType
      <3>6. q.addr + q.len <= blk
        BY <1>2, <1>7, <2>1, <2>2, <2>6, <3>4, Zenon DEF Behind
      <3>7. Owned(r, Map)
        BY <1>4, <1>7, <2>3, <2>6
      <3>8. ASSUME NEW x \in DOMAIN new, x \in RunBytesOf(r.fs, RunOf(r))
            PROVE  x \in DOMAIN Map /\ new[x] = Map[x]
        <4>1. x \in BytesFrom(Fs, q.addr, q.addr + q.len)
          BY <3>3, <3>4, <3>8 DEF RunBytesOf
        <4>2. q.addr + q.len \in Nat /\ run.addr + run.len \in Nat /\ q.addr + q.len <= run.addr
          BY <1>2, <3>5, <3>6
        <4>3. x \notin BytesFrom(Fs, run.addr, run.addr + run.len)
          BY <1>2, <3>2, <3>5, <4>1, <4>2, BytesBehind
        <4> QED BY <1>3, <1>5, <4>3, Zenon DEF NewMap, RunBytesOf
      <3>9. Owned(r, new)
        BY <3>7, <3>8, Zenon DEF Owned
      <3> QED BY <1>8, <2>2, <2>4, <2>6, <3>9
    <2> QED BY <2>5, <2>6
  <1>11. ASSUME NEW n \in UnallocatedRecords'
         PROVE  Owned(Out'[n], mapOf(Out[n].volIndex)')
    <2>1. Older(n) \/ Newer(n, run)
      BY <1>1, EmissionEntries DEF TypeInv
    <2> QED BY <1>9, <1>10, <2>1
  <1> QED BY <1>11, Zenon DEF OwnInv, Owned, RunOf, RunBytesOf, BytesFrom, mapOf

\* What of FragmentInv does not depend on which of the two loops it is.
LEMMA EmissionFragment ==
    ASSUME TypeInv, SettingInv, MapsInv, RecordsInv, FragmentInv, NEW run, Emission(run),
           UNCHANGED <<nextFrag, blkEnd>>, blk' \in Nat, AtMost(blk', blkEnd) = blk + run.len,
           pc' = pc, UCMode = "block" => blk' <= blkEnd, UCMode = "fragment" => Paced'
    PROVE  FragmentInv'
  <1>1. /\ pc = "fragment" /\ Emits(run) /\ AtHand(run)
    BY DEF Emission
  <1>2. /\ run.addr \in Nat /\ run.len \in Nat /\ blk \in Nat /\ blkEnd \in Nat
        /\ blk < blkEnd /\ Behind(blk) /\ run.addr = blk /\ Unmapped(Map, Fs, blk, blkEnd)
    BY <1>1, RunAtHand
  <1>3. /\ NumVols \in DOMAIN AllocatedRuns /\ NewMap(AllocatedRuns'[NumVols], run)
    BY EmissionMap
  <1>4. /\ UNCHANGED <<img, UCMode, MaxUnallocatedBlockSize, NumVols, Fs, FSEnd>>
    BY DEF Emission, args, volume, fileSys
  <1>5. PICK new : new = AllocatedRuns'[NumVols]
    OBVIOUS
  <1>6. Map' = new /\ NewMap(new, run)
    BY <1>3, <1>4, <1>5 DEF Map
  <1>7. Fs \in FsType
    BY <1>1, FsAtHand
  <1>8. blk + run.len \in Nat /\ blk + run.len <= blk' /\ blk <= blk + run.len
    BY <1>2 DEF AtMost
  <1>9. Unmapped(new, Fs, blk', blkEnd)
    <2> SUFFICES ASSUME NEW x \in DOMAIN new, x \in BytesFrom(Fs, blk', blkEnd)
                 PROVE  FALSE
      BY DEF Unmapped
    <2>1. CASE x \in RunBytesOf(Fs, run)
      <3>1. x \in BytesFrom(Fs, run.addr, run.addr + run.len)
        BY <2>1 DEF RunBytesOf
      <3>2. run.addr + run.len \in Nat /\ run.addr + run.len <= blk'
        BY <1>2, <1>8
      <3>3. x \notin BytesFrom(Fs, blk', blkEnd)
        BY <1>2, <1>7, <3>1, <3>2, BytesBehind
      <3> QED BY <3>3
    <2>2. CASE x \notin RunBytesOf(Fs, run)
      <3>1. x \in DOMAIN Map
        BY <1>6, <2>2, Zenon DEF NewMap
      <3>2. blk <= blk' /\ blkEnd <= blkEnd
        BY <1>2, <1>8
      <3>3. x \in BytesFrom(Fs, blk, blkEnd)
        BY <1>2, <1>7, <3>2, BytesMore
      <3> QED BY <1>2, <3>1, <3>3 DEF Unmapped
    <2> QED BY <2>1, <2>2
  <1>10. PICK b : b = blk + run.len
    OBVIOUS
  <1>11. Behind(b)'
    <2>2. ASSUME NEW n \in UnallocatedRecords', Out'[n].volIndex = NumVols
          PROVE  RunOf(Out'[n]).addr + RunOf(Out'[n]).len <= b
      <3>1. Older(n) \/ Newer(n, run)
        BY <1>1, EmissionEntries DEF TypeInv
      <3>2. CASE Older(n)
        <4>1. PICK r : r = Out[n]
          OBVIOUS
        <4>2. n \in UnallocatedRecords /\ Out'[n] = r
          BY <3>2, <4>1 DEF Older
        <4>3. RunOf(r) \in RunType
          BY <4>1, <4>2, AreEmitted DEF Emitted, TypeInv
        <4>4. PICK q \in RunType : q = RunOf(r)
          BY <4>3
        <4>5. q.addr + q.len <= blk
          BY <1>2, <2>2, <4>1, <4>2, <4>4, Zenon DEF Behind
        <4>6. q.addr + q.len <= b
          BY <1>2, <1>8, <1>10, <4>5 DEF RunType
        <4> QED BY <4>2, <4>4, <4>6
      <3>3. CASE Newer(n, run)
        <4>1. RunOf(Out'[n]) = run
          BY <3>3 DEF Newer, OfRun
        <4>2. run.addr + run.len <= b
          BY <1>2, <1>10
        <4> QED BY <4>1, <4>2
      <3> QED BY <3>1, <3>2, <3>3
    <2> QED BY <1>4, <2>2, Zenon DEF Behind, RunOf
  <1>12. AtMost(blk, blkEnd)' = b
    BY <1>10 DEF AtMost
  <1>13. Behind(AtMost(blk, blkEnd))'
    BY <1>11, <1>12, Zenon DEF Behind
  <1>14. /\ \/ nextFrag = EndIter /\ blkEnd = Fs.last
            \/ nextFrag \in DOMAIN Map /\ blkEnd = BlockOf(nextFrag)
         /\ blkEnd < U64 /\ Within(Fs, FSEnd, blkEnd)
    BY <1>1 DEF FragmentInv
  <1>15. \/ nextFrag' = EndIter /\ blkEnd' = Fs'.last
         \/ nextFrag' \in DOMAIN Map' /\ blkEnd' = BlockOf(nextFrag)'
    BY <1>4, <1>6, <1>14, Zenon DEF NewMap, BlockOf
  <1>16. Unmapped(Map, Fs, blk, blkEnd)' /\ Within(Fs, FSEnd, blkEnd)'
    BY <1>4, <1>6, <1>9, <1>14, Zenon DEF Unmapped, BytesFrom, Within, AtBlock
  <1> QED BY <1>2, <1>4, <1>13, <1>14, <1>15, <1>16 DEF FragmentInv

\* A loop's step emits the run of its blocks.
LEMMA EmitIsEmission ==
    ASSUME TypeInv, SettingInv, MapsInv, FragmentInv, pc = "fragment", NEW run, AtHand(run),
           emitUnallocated(run), UNCHANGED <<args, volume, InUnallocated, fileSys>>
    PROVE  Emission(run)
  <1>1. /\ run.addr \in Nat /\ run.len \in Nat /\ blk \in Nat /\ blkEnd \in Nat /\ run.addr = blk
        /\ blk < blkEnd
    BY RunAtHand
  <1>2. blkEnd < U64 /\ Within(Fs, FSEnd, blkEnd) /\ U64 \in Nat
    BY WordAssumption DEF FragmentInv
  <1>3. run.addr <= NoLimit
    BY <1>1, <1>2 DEF NoLimit
  <1>4. Fs \in FsType /\ FSEnd \in Nat
    BY FsAtHand
  <1>5. run.addr + run.len \in Nat /\ run.addr + run.len <= blkEnd
    BY <1>1 DEF AtHand
  <1>6. Within(Fs, FSEnd, run.addr + run.len)
    BY <1>1, <1>2, <1>4, <1>5, WithinEarlier
  <1>7. run \in RunType
    BY DEF AtHand
  <1>8. Emits(run)
    BY <1>3, <1>6, <1>7, EmitDoes
  <1> QED BY <1>8 DEF Emission

LEMMA FragmentBlockEmission ==
    ASSUME TypeInv, SettingInv, MapsInv, RecordsInv, FragmentInv, FragmentBlock
    PROVE  /\ FragmentInv'
           /\ \E run : /\ Emission(run) /\ emitUnallocated(run)
                       /\ AtMost(blk', blkEnd) = blk + run.len
  <1>1. /\ pc = "fragment" /\ pc' = pc /\ UCMode = "block" /\ blk # blkEnd /\ blk' = blk + 1
        /\ emitUnallocated([addr |-> blk, len |-> 1, flags |-> "none"])
        /\ UNCHANGED <<args, volume, InUnallocated, fileSys>> /\ UNCHANGED <<nextFrag, blkEnd>>
    BY Zenon DEF FragmentBlock
  <1>2. blk \in Nat /\ blkEnd \in Nat /\ blk <= blkEnd
    BY <1>1 DEF FragmentInv
  <1>3. PICK run : run = [addr |-> blk, len |-> 1, flags |-> "none"]
    OBVIOUS
  <1>4. run \in RunType /\ run.addr = blk /\ run.len = 1
    BY <1>2, <1>3 DEF RunType
  <1>5. blk + 1 <= blkEnd
    BY <1>1, <1>2
  <1>6. AtHand(run)
    BY <1>1, <1>4, <1>5 DEF AtHand, Largest
  <1>7. emitUnallocated(run)
    BY <1>1, <1>3
  <1>8. Emission(run)
    BY <1>1, <1>6, <1>7, EmitIsEmission
  <1>9. blk' \in Nat /\ AtMost(blk', blkEnd) = blk + run.len /\ blk' <= blkEnd
    BY <1>1, <1>2, <1>4, <1>5 DEF AtMost
  <1>10. FragmentInv'
    BY <1>1, <1>8, <1>9, EmissionFragment
  <1> QED BY <1>7, <1>8, <1>9, <1>10, Zenon

LEMMA FragmentPieceEmission ==
    ASSUME TypeInv, SettingInv, MapsInv, RecordsInv, FragmentInv, FragmentPiece
    PROVE  /\ FragmentInv'
           /\ \E run : /\ Emission(run) /\ emitUnallocated(run)
                       /\ AtMost(blk', blkEnd) = blk + run.len
  <1> DEFINE next == (blk + maxBlocks) % U64
  <1>1. /\ pc = "fragment" /\ pc' = pc /\ UCMode = "fragment" /\ blk < blkEnd /\ blk' = next
        /\ emitUnallocated(PieceUpTo(next))
        /\ UNCHANGED <<args, volume, InUnallocated, fileSys>>
        /\ UNCHANGED <<nextFrag, blkEnd, maxBlocks>>
    BY Zenon DEF FragmentPiece
  <1>2. blk \in Nat /\ blkEnd \in Nat /\ blkEnd < U64 /\ Paced
    BY <1>1 DEF FragmentInv
  <1>3. /\ maxBlocks \in Nat /\ 1 <= maxBlocks /\ maxBlocks <= MaxUnallocatedBlockSize
        /\ blkEnd + maxBlocks < U64 \/ blk + maxBlocks = blkEnd
        /\ U64 \in Nat
    BY <1>1, <1>2, WordAssumption DEF Paced
  <1>4. next = blk + maxBlocks
    <2>1. blk + maxBlocks \in Nat /\ blk + maxBlocks < U64
      BY <1>1, <1>2, <1>3
    <2> QED BY <1>3, <2>1, Remainder
  <1> HIDE DEF next
  <1>5. PICK end : end = AtMost(next, blkEnd)
    OBVIOUS
  <1>6. end \in Nat /\ blk < end /\ end <= blkEnd /\ end - blk <= maxBlocks
    BY <1>1, <1>2, <1>3, <1>4, <1>5 DEF AtMost
  <1>7. PICK run : run = [addr |-> blk, len |-> end - blk, flags |-> "none"]
    OBVIOUS
  <1>8. PieceUpTo(next) = run
    BY <1>5, <1>6, <1>7, Zenon DEF PieceUpTo
  <1>9. end - blk \in Nat /\ end - blk > 0
    BY <1>2, <1>6
  <1>10. run \in RunType /\ run.addr = blk /\ run.len = end - blk
    BY <1>2, <1>7, <1>9 DEF RunType
  <1>11. MaxUnallocatedBlockSize \in Nat /\ Largest = MaxUnallocatedBlockSize
    BY <1>1 DEF TypeInv, ControlTyped, Largest
  <1>12. blk + run.len = end /\ run.len <= Largest
    BY <1>2, <1>3, <1>6, <1>9, <1>10, <1>11
  <1>13. AtHand(run)
    BY <1>6, <1>9, <1>10, <1>12 DEF AtHand
  <1>14. Emission(run) /\ emitUnallocated(run)
    BY <1>1, <1>8, <1>13, EmitIsEmission
  <1>15. blk' \in Nat /\ AtMost(blk', blkEnd) = blk + run.len
    BY <1>1, <1>2, <1>3, <1>4, <1>5, <1>12
  <1>16. Paced'
    <2>1. blkEnd' + maxBlocks' < U64 \/ blk' >= blkEnd'
      BY <1>1, <1>2, <1>3, <1>4
    <2>2. MaxUnallocatedBlockSize' = MaxUnallocatedBlockSize
      BY <1>1 DEF args
    <2> QED BY <1>1, <1>3, <2>1, <2>2 DEF Paced
  <1>17. FragmentInv'
    BY <1>1, <1>14, <1>15, <1>16, EmissionFragment
  <1> QED BY <1>14, <1>15, <1>17, Zenon

-----------------------------------------------------------------------------
(***************************************************************************)
(* The invariant, which every step keeps.                                  *)
(***************************************************************************)
UnallocatedInv ==
    /\ TypeInv /\ SettingInv /\ MapsInv /\ RecordsInv /\ FreshInv /\ SafeInv
    /\ FlushInv /\ FragmentInv

\* What the proof needs of the images, the entries and the arguments.
Premises == NamesKept /\ MaximumMeant /\ BytesAddressed /\ BlocksWhole

LEMMA InitUnallocated == Init => UnallocatedInv
  <1> SUFFICES ASSUME Init
               PROVE  UnallocatedInv
    OBVIOUS
  <1>1. MapsInv
    BY DEF Init, MapsInv
  <1>2. FlushInv /\ FragmentInv
    BY DEF Init, FlushInv, FragmentInv
  <1> QED BY <1>1, <1>2, InitTyped, InitSetting, InitRecords, InitFresh, InitSafe
       DEF UnallocatedInv

\* The steps outside the loops over the extents.
LEMMA OutsideGaps ==
    ASSUME pc' \notin {"flush", "fragment"}
    PROVE  FlushInv' /\ FragmentInv'
  BY DEF FlushInv, FragmentInv

LEMMA SameMapsKept ==
    ASSUME MapsInv, AllocatedRuns' = AllocatedRuns, img' = img
    PROVE  MapsInv'
  BY Zenon DEF MapsInv

LEMMA EmissionKeeps ==
    ASSUME UnallocatedInv, FragmentInv', NEW run, Emission(run), pc' = pc, vol' = vol
    PROVE  /\ MapsInv' /\ RecordsInv' /\ FreshInv' /\ SafeInv' /\ FlushInv'
  <1>1. pc = "fragment" /\ pc' = "fragment" /\ img' = img
    BY DEF Emission, args
  <1>2. FreshInv'
    BY <1>1 DEF UnallocatedInv, FreshInv, AtFs
  <1>3. FlushInv'
    BY <1>1 DEF FlushInv
  <1> QED BY <1>2, <1>3, EmissionMaps, EmissionRecordsInv, EmissionOwn, EmissionApart
       DEF UnallocatedInv, SafeInv

LEMMA NextUnallocated ==
    ASSUME Premises, UnallocatedInv, [Next]_vars
    PROVE  UnallocatedInv'
  <1> USE DEF Premises
  <1>1. TypeInv' /\ SettingInv'
    BY NextTyped, NextSetting DEF UnallocatedInv
  <1>2. /\ TypeInv /\ SettingInv /\ MapsInv /\ RecordsInv /\ FreshInv /\ SafeInv
        /\ FlushInv /\ FragmentInv
    BY DEF UnallocatedInv
  <1> SUFFICES MapsInv' /\ RecordsInv' /\ FreshInv' /\ SafeInv' /\ FlushInv' /\ FragmentInv'
    BY <1>1 DEF UnallocatedInv
  <1>3. ASSUME Still, AllocatedRuns' = AllocatedRuns
        PROVE  MapsInv' /\ RecordsInv' /\ FreshInv' /\ SafeInv' /\ Calm
    <2>1. img' = img
      BY <1>3 DEF Still, args
    <2> QED BY <1>2, <1>3, <2>1, StillKeeps, SameMapsKept, SameRunsSameMap, CalmSafe
  <1>4. CASE OpenImage
    <2>1. AllocatedRuns' = AllocatedRuns /\ img' = img /\ pc' \in {"walk", "failed"}
      BY <1>4 DEF OpenImage, Start, results, args
    <2> QED BY <1>2, <1>4, <2>1, OpenImageRecords, NoneOwned, SameMapsKept, OutsideGaps DEF SafeInv
  <1>5. CASE StartUnallocated
    <2>1. AllocatedRuns' = AllocatedRuns /\ img' = img /\ pc' = "walk"
      BY <1>5 DEF StartUnallocated, Start, results, args
    <2> QED BY <1>2, <1>5, <2>1, StartUnallocatedRecords, NoneOwned, SameMapsKept, OutsideGaps DEF SafeInv
  <1>6. CASE FilterVol
    <2>1. pc' = "vol" /\ (InUnallocated => AllocatedRuns' = AllocatedRuns)
      BY <1>6 DEF FilterVol, results
    <2>2. Calm /\ RecordsInv' /\ FreshInv'
      BY <1>2, <1>6, FilterVolRecords
    <2>3. SameMapOf \/ UnallocatedRecords = {}
      BY <1>2, <2>1, SameRunsSameMap, FirstWalkClean DEF TypeInv
    <2> QED BY <1>2, <1>6, <2>1, <2>2, <2>3, FilterVolMaps, CalmSafe, OutsideGaps
  <1>7. CASE NoFilesystem
    <2>1. AllocatedRuns' = AllocatedRuns /\ pc' = "walk"
      BY <1>7 DEF NoFilesystem, results
    <2> QED BY <1>2, <1>3, <1>7, <2>1, StillSteps, OutsideGaps
  <1>8. CASE FilterFs
    <2>1. pc' = "fs"
      BY <1>8 DEF FilterFs
    <2>2. Still
      BY <1>2, <1>8, StillSteps
    <2>3. Calm /\ RecordsInv' /\ FreshInv'
      BY <1>2, <2>2, StillKeeps
    <2> QED BY <1>2, <1>8, <2>1, <2>3, FilterFsMaps, FilterFsSameMap, CalmSafe, OutsideGaps
  <1>9. CASE WildPart
    <2>1. AllocatedRuns' = AllocatedRuns /\ pc' = "crashed"
      BY <1>9 DEF WildPart, results
    <2> QED BY <1>2, <1>3, <1>9, <2>1, StillSteps, OutsideGaps
  <1>10. CASE FilterFsUnallocated
    <2>1. Calm /\ RecordsInv' /\ FreshInv' /\ Fresh'
      BY <1>2, <1>10, FilterFsUnallocatedRecords
    <2>2. MapsInv'
      BY <1>2, <1>10, FilterFsUnallocatedMaps
    <2>3. SameMapOf
      BY <1>10, FolderMaps, WithMapSameMap
    <2>4. FlushInv' /\ FragmentInv'
      BY <1>1, <1>2, <1>10, <2>1, <2>2, FilterFsUnallocatedGaps
    <2> QED BY <1>2, <2>1, <2>2, <2>3, <2>4, CalmSafe
  <1>11. CASE ProcessFile
    <2>1. pc = "fs" /\ pc' = "fs"
      BY <1>11 DEF ProcessFile
    <2>2. Calm /\ RecordsInv' /\ FreshInv'
      BY <1>2, <1>11, ProcessFileRecords
    <2>3. ~InUnallocated
      BY <1>2, <2>1 DEF SettingInv, FsInv
    <2>4. UnallocatedRecords = {}
      BY <1>2, <2>3, FirstWalkClean DEF TypeInv
    <2>5. MapsInv'
      BY <1>2, <1>11, ProcessFileMaps
    <2> QED BY <1>2, <2>1, <2>2, <2>4, <2>5, CalmSafe, OutsideGaps
  <1>12. CASE EndFs
    <2>1. AllocatedRuns' = AllocatedRuns /\ pc' = "walk"
      BY <1>12 DEF EndFs, results
    <2> QED BY <1>2, <1>3, <1>12, <2>1, StillSteps, OutsideGaps
  <1>13. CASE NextFragment
    <2>1. AllocatedRuns' = AllocatedRuns
      BY <1>13 DEF NextFragment, results
    <2>2. MapsInv' /\ RecordsInv' /\ FreshInv' /\ SafeInv' /\ Calm
      BY <1>2, <1>3, <1>13, <2>1, StillSteps
    <2> QED BY <1>2, <1>13, <2>2, NextFragmentGaps
  <1>14. CASE FragmentBlock
    <2>1. pc' = pc /\ vol' = vol
      BY <1>14 DEF FragmentBlock, walk
    <2>2. FragmentInv' /\ \E run : Emission(run)
      BY <1>2, <1>14, FragmentBlockEmission
    <2> QED BY <2>1, <2>2, EmissionKeeps
  <1>15. CASE FragmentPiece
    <2>1. pc' = pc /\ vol' = vol
      BY <1>15 DEF FragmentPiece, walk
    <2>2. FragmentInv' /\ \E run : Emission(run)
      BY <1>2, <1>15, FragmentPieceEmission
    <2> QED BY <2>1, <2>2, EmissionKeeps
  <1>16. CASE FragmentDone
    <2>1. AllocatedRuns' = AllocatedRuns
      BY <1>16 DEF FragmentDone, results
    <2>2. MapsInv' /\ RecordsInv' /\ FreshInv' /\ SafeInv' /\ Calm
      BY <1>2, <1>3, <1>16, <2>1, StillSteps
    <2> QED BY <1>2, <1>16, <2>2, FragmentDoneGaps
  <1>17. CASE WalkFailed
    <2>1. AllocatedRuns' = AllocatedRuns /\ pc' = "failed"
      BY <1>17 DEF WalkFailed, results
    <2> QED BY <1>2, <1>3, <1>17, <2>1, StillSteps, OutsideGaps
  <1>18. CASE FinishWalk
    <2>1. AllocatedRuns' = AllocatedRuns /\ pc' = "maps"
      BY <1>18 DEF FinishWalk, results
    <2> QED BY <1>2, <1>3, <1>18, <2>1, StillSteps, OutsideGaps
  <1>19. CASE OutputDiskMap
    <2>1. AllocatedRuns' = AllocatedRuns /\ pc' = "inodes"
      BY <1>19 DEF OutputDiskMap
    <2> QED BY <1>2, <1>3, <1>19, <2>1, StillSteps, OutsideGaps
  <1>20. CASE OutputInodeMap
    <2>1. AllocatedRuns' = AllocatedRuns /\ pc' = "done"
      BY <1>20 DEF OutputInodeMap, results
    <2> QED BY <1>2, <1>3, <1>20, <2>1, StillSteps, OutsideGaps
  <1>21. CASE UNCHANGED vars
    <2>1. /\ UNCHANGED <<pc, img, UCMode, MaxUnallocatedBlockSize, vol, NumVols, InUnallocated, Out>>
          /\ UNCHANGED <<Fs, FSBeg, FSEnd, AllocatedRuns, start, nextFrag, blk, blkEnd, maxBlocks>>
      BY <1>21 DEF vars, args, walk, volume, fileSys, results, flush
    <2>2. Calm
      BY <2>1, SameOutCalm
    <2>3. NumVols \in Nat /\ img \in Images
      BY <1>2, ImageFacts DEF TypeInv, ControlTyped
    <2>4. MapsInv' /\ RecordsInv' /\ SafeInv'
      <3>1. Onward
        BY <2>1, <2>3 DEF Onward, args
      <3> QED BY <1>2, <2>1, <2>2, <2>3, <3>1, SameMapsKept, SameOutRecords, SameRunsSameMap, CalmSafe
    <2>5. FreshInv'
      BY <1>2, <2>1, <2>2, CalmFresh DEF FreshInv, AtFs
    <2>6. FlushInv'
      <3>1. Cursor(start, nextFrag) => Cursor(start, nextFrag)'
        BY <2>1, Zenon DEF Cursor, Map, Between, AtBlock, Behind, BlockOf, UnallocatedRecords, RunOf
      <3> QED BY <1>2, <2>1, <3>1 DEF FlushInv
    <2>7. FragmentInv'
      BY <1>2, <2>1, Zenon DEF FragmentInv, Map, Within, AtBlock, Unmapped, BytesFrom, Behind,
           BlockOf, UnallocatedRecords, RunOf, Paced, AtMost
    <2> QED BY <2>4, <2>5, <2>6, <2>7
  <1>22. CASE WalkError
    <2>1. AllocatedRuns' = AllocatedRuns /\ pc' = "walk"
      BY <1>22 DEF WalkError, results
    <2> QED BY <1>2, <1>3, <1>22, <2>1, StillSteps, OutsideGaps
  <1> QED BY <1>4, <1>5, <1>6, <1>7, <1>8, <1>9, <1>10, <1>11, <1>12, <1>13, <1>14, <1>15, <1>16,
             <1>17, <1>18, <1>19, <1>20, <1>21, <1>22 DEF Next, Terminated

LEMMA AlwaysUnallocated ==
    ASSUME Premises
    PROVE  Spec => []UnallocatedInv
  <1>1. Init => UnallocatedInv
    BY InitUnallocated
  <1>2. UnallocatedInv /\ [Next]_vars => UnallocatedInv'
    BY NextUnallocated
  <1> QED BY <1>1, <1>2, PTL DEF Spec

\* A byte of a block of the run is one of the run's.
LEMMA BlockInRun ==
    ASSUME NEW fs \in FsType, NEW run \in RunType, NEW b \in run.addr .. run.addr + run.len - 1,
           NEW x \in BytesOf(fs, b)
    PROVE  x \in RunBytesOf(fs, run)
  <1>1. run.addr \in Nat /\ run.len \in Nat /\ b \in Nat /\ run.addr <= b /\ b + 1 <= run.addr + run.len
    BY DEF RunType
  <1>2. fs.bs \in Nat /\ fs.offset \in Nat
    BY FsFields
  <1>3. PICK p, q : p = b * fs.bs /\ q = (b + 1) * fs.bs
    OBVIOUS
  <1>4. p \in Nat /\ q \in Nat /\ q = p + fs.bs
    <2>1. b * fs.bs \in Nat /\ (b + 1) * fs.bs = b * fs.bs + 1 * fs.bs /\ 1 * fs.bs = fs.bs
      BY <1>1, <1>2, Products
    <2> QED BY <1>2, <1>3, <2>1
  <1>5. x \in fs.offset + p .. fs.offset + p + fs.bs - 1
    BY <1>3 DEF BytesOf
  <1>6. x \in fs.offset + p .. fs.offset + q - 1
    BY <1>2, <1>4, <1>5
  <1>7. x \in BytesFrom(fs, b, b + 1)
    BY <1>3, <1>6 DEF BytesFrom
  <1>8. b + 1 \in Nat /\ run.addr + run.len \in Nat
    BY <1>1
  <1> QED BY <1>1, <1>7, <1>8, BytesMore DEF RunBytesOf

LEMMA InvFree == UnallocatedInv => UnallocatedIsFree
  <1> SUFFICES ASSUME UnallocatedInv, NEW n \in UnallocatedRecords, NEW b \in BlocksOf(Out[n])
               PROVE  /\ ~InUseByFile(Out[n].volIndex, Out[n].fs, b)
                      /\ \A m \in UnallocatedRecords \ {n} :
                             Out[m].volIndex = Out[n].volIndex => b \notin BlocksOf(Out[m])
    BY Zenon DEF UnallocatedIsFree
  <1>1. RecordsInv /\ ResultsTyped /\ OwnInv /\ ApartInv /\ img \in Images
    BY DEF UnallocatedInv, TypeInv, SafeInv, ControlTyped
  <1>2. PICK r, k : r = Out[n] /\ k = r.volIndex
    OBVIOUS
  <1>3. k \in FsIndexes(img) /\ RunOf(r) \in RunType /\ r.fs = FsOf(img, k)
    BY <1>1, <1>2, AreEmitted DEF Emitted, OfRun
  <1>4. r.fs \in FsType
    BY <1>1, <1>3, FsOfTyped
  <1>5. PICK run \in RunType : run = RunOf(r)
    BY <1>3
  <1>6. run.addr \in Nat /\ run.len \in Nat /\ b \in run.addr .. run.addr + run.len - 1
    <2>1. BlocksOf(r) = run.addr .. run.addr + run.len - 1
      BY <1>5, Zenon DEF BlocksOf, RunOf
    <2> QED BY <1>2, <2>1 DEF RunType
  <1>7. ~InUseByFile(k, r.fs, b)
    <2> SUFFICES ASSUME NEW x \in BytesOf(r.fs, b) \cap DOMAIN mapOf(k), NEW i \in mapOf(k)[x]
                 PROVE  \E m \in UnallocatedRecords : Out[m].link = <<k, i.Inum>>
      BY Zenon DEF InUseByFile
    <2>1. x \in RunBytesOf(r.fs, run)
      BY <1>4, <1>6, BlockInRun
    <2>2. Owned(r, mapOf(k))
      BY <1>1, <1>2, Zenon DEF OwnInv
    <2>3. <<k, i.Inum>> = r.link
      BY <1>2, <1>5, <2>1, <2>2, Zenon DEF Owned
    <2> QED BY <1>2, <2>3
  <1>8. ASSUME NEW m \in UnallocatedRecords \ {n}, Out[m].volIndex = k, b \in BlocksOf(Out[m])
        PROVE  FALSE
    <2>1. PICK q : q = Out[m]
      OBVIOUS
    <2>2. RunOf(q) \in RunType
      BY <1>1, <2>1, AreEmitted DEF Emitted
    <2>3. PICK other \in RunType : other = RunOf(q)
      BY <2>2
    <2>4. /\ other.addr \in Nat /\ other.len \in Nat
          /\ b \in other.addr .. other.addr + other.len - 1
      <3>1. BlocksOf(q) = other.addr .. other.addr + other.len - 1
        BY <2>3, Zenon DEF BlocksOf, RunOf
      <3> QED BY <1>8, <2>1, <3>1 DEF RunType
    <2>5. Before(q, r) \/ Before(r, q)
      BY <1>1, <1>2, <1>8, <2>1 DEF ApartInv, Apart
    <2>6. other.addr + other.len <= run.addr \/ run.addr + run.len <= other.addr
      BY <1>5, <2>3, <2>5, Zenon DEF Before
    <2> QED BY <1>6, <2>4, <2>6
  <1> QED BY <1>2, <1>7, <1>8, Zenon

LEMMA InvWithinMax == UnallocatedInv => EntryWithinMax
  <1> SUFFICES ASSUME UnallocatedInv, NEW n \in UnallocatedRecords
               PROVE  RunOf(Out[n]).len <= Largest
    BY Zenon DEF EntryWithinMax, RunOf, Largest
  <1>1. RecordsInv /\ ResultsTyped
    BY DEF UnallocatedInv, TypeInv
  <1> QED BY <1>1, AreEmitted DEF Emitted

\* A block of an unallocated entry of the second walk (flushUnallocated and
\* processUnallocatedFragment) holds data of no file that the walks met, and is in no other
\* unallocated entry of its file system: for all images, entries and arguments, as long as
\* no file has the name of the folder, the maximum is a number of blocks, bytes have
\* addresses of 64 bits, and no file's block is cut by the end of the range.
THEOREM UnallocatedBlocksFree ==
    ASSUME NamesKept, MaximumMeant, BytesAddressed, BlocksWhole
    PROVE  Spec => []UnallocatedIsFree
  <1>1. Premises
    BY DEF Premises
  <1>2. Spec => []UnallocatedInv
    BY <1>1, AlwaysUnallocated
  <1> QED BY <1>2, InvFree, PTL

\* With the same premises, no unallocated entry has more than --max-unallocated-block-size
\* blocks, nor more than one with --unallocated=block.
THEOREM EntriesWithinMax ==
    ASSUME NamesKept, MaximumMeant, BytesAddressed, BlocksWhole
    PROVE  Spec => []EntryWithinMax
  <1>1. Premises
    BY DEF Premises
  <1>2. Spec => []UnallocatedInv
    BY <1>1, AlwaysUnallocated
  <1> QED BY <1>2, InvWithinMax, PTL

-----------------------------------------------------------------------------
(***************************************************************************)
(* No block is left out: what the loops have passed is a file's or an      *)
(* entry's.                                                                *)
(***************************************************************************)
FileInums == {f.meta.addr : f \in {g \in Entries : g.meta # NoMeta}}

\* Byte x of a map has owners, and they are files.
OfFiles(map, x) == map[x] # {} /\ \A i \in map[x] : i.Inum \in FileInums

FilesOnly(map) == \A x \in DOMAIN map : OfFiles(map, x)

FilesFrom(map, s) == \A x \in DOMAIN map : x >= s => OfFiles(map, x)

HasFile(k, b) ==
    \E x \in BytesOf(FsOf(img, k), b) : x \in DOMAIN mapOf(k) /\ OfFiles(mapOf(k), x)

HasEntry(k, b) == \E n \in UnallocatedRecords : Out[n].volIndex = k /\ b \in BlocksOf(Out[n])

\* The blocks of FS index k before block e are a file's or an entry's.
AllBefore(k, e) ==
    \A b \in FsOf(img, k).first .. FsOf(img, k).last - 1 :
        b < e => HasFile(k, b) \/ HasEntry(k, b)

\* The second walk has not come to, or is through with, FS index k.
Ahead(k) == ~InUnallocated \/ k > NumVols \/ (k = NumVols /\ AtFs)

Through(k) ==
    InUnallocated /\ (k < NumVols \/ (k = NumVols /\ ~AtFs /\ pc \notin {"flush", "fragment"}))

AheadInv == \A k \in FsIndexes(img) : Ahead(k) => FilesOnly(mapOf(k))

\* A walk that met an error may have left out FS index k, unless it has an entry.
Begun(k) == erred => HasUnallocated(k)

ThroughInv ==
    \A k \in FsIndexes(img) : Through(k) /\ Begun(k) => AllBefore(k, FsOf(img, k).last)

\* The inodes of entries are not those of files.
InumsInv == \A n \in UnallocatedRecords : Out[n].link[2] \notin FileInums

GapInv ==
    pc = "flush" => /\ AllBefore(NumVols, BlockOf(start))
                    /\ nextFrag # EndIter => FilesFrom(Map, nextFrag)

FillInv ==
    pc = "fragment" => /\ nextFrag = EndIter => blkEnd = Fs.last
                       /\ blkEnd <= Fs.last \/ blkEnd < img.size
                       /\ AllBefore(NumVols, AtMost(blk, blkEnd))
                       /\ nextFrag # EndIter => FilesFrom(Map, nextFrag)

EndInv ==
    pc \in {"maps", "inodes", "done"} /\ ~erred => \A k \in FsIndexes(img) : k <= NumVols

LEMMA FilesOnlyGrows ==
    ASSUME NEW map, NEW new, NEW inum \in FileInums, NEW P, FilesOnly(map), Touches(map, new, inum, P)
    PROVE  FilesOnly(new)
  BY Zenon DEF FilesOnly, OfFiles, Touches

LEMMA MapAtHand ==
    ASSUME TypeInv, SettingInv, MapsInv, pc \in {"fs", "flush", "fragment"}
    PROVE  /\ NumVols \in FsIndexes(img) /\ Fs = FsOf(img, NumVols) /\ Fs \in FsType
           /\ mapOf(NumVols) = Map /\ NumVols \in DOMAIN AllocatedRuns
  <1>1. /\ NumVols \in FsIndexes(img) /\ Fs = FsOf(img, NumVols) /\ Fs \in FsType
        /\ NumVols \in DOMAIN AllocatedRuns
    BY FsAtHand
  <1> QED BY <1>1, Zenon DEF mapOf, Map

KeepsMap(map, new) == \A x \in DOMAIN map : x \in DOMAIN new /\ new[x] = map[x]

\* What the entries and the files have stays theirs.
Preserves ==
    /\ img' = img
    /\ \A n \in UnallocatedRecords : n \in UnallocatedRecords' /\ Out'[n] = Out[n]
    /\ \A k \in FsIndexes(img) : KeepsMap(mapOf(k), mapOf(k)')

LEMMA BeforeKept ==
    ASSUME Preserves, NEW k \in FsIndexes(img), NEW e, AllBefore(k, e)
    PROVE  AllBefore(k, e)'
  <1>1. /\ img' = img /\ KeepsMap(mapOf(k), mapOf(k)')
    BY DEF Preserves
  <1>2. ASSUME NEW b, HasFile(k, b)
        PROVE  HasFile(k, b)'
    <2>1. PICK map, new : map = mapOf(k) /\ new = mapOf(k)'
      OBVIOUS
    <2>2. PICK x \in BytesOf(FsOf(img, k), b) : x \in DOMAIN map /\ OfFiles(map, x)
      BY <1>2, <2>1, Zenon DEF HasFile
    <2>3. x \in DOMAIN new /\ OfFiles(new, x)
      BY <1>1, <2>1, <2>2, Zenon DEF KeepsMap, OfFiles
    <2>4. x \in BytesOf(FsOf(img', k), b)
      BY <1>1, <2>2
    <2> QED BY <2>1, <2>3, <2>4, Zenon DEF HasFile, OfFiles, BytesOf, FsOf
  <1>3. ASSUME NEW b, HasEntry(k, b)
        PROVE  HasEntry(k, b)'
    <2>1. PICK n \in UnallocatedRecords : Out[n].volIndex = k /\ b \in BlocksOf(Out[n])
      BY <1>3 DEF HasEntry
    <2>2. n \in UnallocatedRecords' /\ Out'[n] = Out[n]
      BY DEF Preserves
    <2> QED BY <2>1, <2>2, Zenon DEF HasEntry, BlocksOf
  <1>4. FsOf(img, k)' = FsOf(img, k)
    BY <1>1 DEF FsOf
  <1> QED BY <1>2, <1>3, <1>4, Zenon DEF AllBefore

\* The step is through with what it was through with before, or has just seen to its last block.
Left(k) ==
    Through(k)' /\ Begun(k)' => (Through(k) /\ Begun(k)) \/ AllBefore(k, FsOf(img, k).last)

LEMMA CalmBegun ==
    ASSUME Calm, erred => erred', NEW k, Begun(k)'
    PROVE  Begun(k)
  <1> SUFFICES ASSUME erred
               PROVE  HasUnallocated(k)
    BY DEF Begun
  <1>1. HasUnallocated(k)'
    BY DEF Begun
  <1> QED BY <1>1, Zenon DEF Calm, HasUnallocated

LEMMA ThroughKept ==
    ASSUME Preserves, ThroughInv, \A k \in FsIndexes(img) : Left(k)
    PROVE  ThroughInv'
  <1>1. img' = img
    BY DEF Preserves
  <1>2. ASSUME NEW k \in FsIndexes(img), Through(k)', Begun(k)'
        PROVE  AllBefore(k, FsOf(img, k).last)'
    <2>1. PICK e : e = FsOf(img, k).last
      OBVIOUS
    <2>2. AllBefore(k, e)
      BY <1>2, <2>1 DEF ThroughInv, Left
    <2>3. AllBefore(k, e)'
      BY <2>2, BeforeKept
    <2>4. FsOf(img, k).last' = e
      BY <1>1, <2>1 DEF FsOf
    <2> QED BY <2>3, <2>4, Zenon DEF AllBefore
  <1>3. FsIndexes(img)' = FsIndexes(img)
    BY <1>1
  <1> QED BY <1>2, <1>3, Zenon DEF ThroughInv

LEMMA AheadKept ==
    ASSUME AheadInv, SameMapOf, img' = img, \A k \in FsIndexes(img) : Ahead(k)' => Ahead(k)
    PROVE  AheadInv'
  <1>1. ASSUME NEW k \in FsIndexes(img), Ahead(k)'
        PROVE  FilesOnly(mapOf(k))'
    <2>1. FilesOnly(mapOf(k))
      BY <1>1 DEF AheadInv
    <2>2. mapOf(k)' = mapOf(k)
      BY DEF SameMapOf
    <2> QED BY <2>1, <2>2, Zenon DEF FilesOnly, OfFiles
  <1>2. FsIndexes(img)' = FsIndexes(img)
    OBVIOUS
  <1> QED BY <1>1, <1>2, Zenon DEF AheadInv

LEMMA CalmPreserves ==
    ASSUME Calm, SameMapOf, img' = img
    PROVE  Preserves
  BY Zenon DEF Calm, SameMapOf, Preserves, KeepsMap

LEMMA CalmInums ==
    ASSUME Calm, InumsInv
    PROVE  InumsInv'
  BY Zenon DEF Calm, InumsInv

LEMMA FewerBefore ==
    ASSUME NEW k, NEW d \in Int, NEW e \in Int, d <= e, AllBefore(k, e),
           FsOf(img, k).first \in Nat, FsOf(img, k).last \in Nat
    PROVE  AllBefore(k, d)
  <1> SUFFICES ASSUME NEW b \in FsOf(img, k).first .. FsOf(img, k).last - 1, b < d
               PROVE  HasFile(k, b) \/ HasEntry(k, b)
    BY Zenon DEF AllBefore
  <1>1. b < e
    OBVIOUS
  <1> QED BY <1>1 DEF AllBefore

CompleteInv == AheadInv /\ ThroughInv /\ InumsInv /\ GapInv /\ FillInv /\ EndInv

\* The step leaves behind nothing that the loops have not seen to.
Nearer ==
    /\ \A k \in FsIndexes(img) : Ahead(k)' => Ahead(k)
    /\ \A k \in FsIndexes(img) :
           Through(k)' => Through(k) \/ AllBefore(k, FsOf(img, k).last) \/ ~Begun(k)'
    /\ erred /\ InUnallocated' => erred'

LEMMA CalmComplete ==
    ASSUME CompleteInv, Calm, SameMapOf, img' = img, Nearer, pc' \notin {"flush", "fragment"},
           EndInv'
    PROVE  CompleteInv'
  <1>1. Preserves
    BY CalmPreserves
  <1>2. AheadInv'
    BY AheadKept DEF CompleteInv, Nearer
  <1>3. ThroughInv'
    <2>1. ASSUME NEW k \in FsIndexes(img), Through(k)', Begun(k)'
          PROVE  (Through(k) /\ Begun(k)) \/ AllBefore(k, FsOf(img, k).last)
      <3>1. erred => erred'
        BY <2>1 DEF Nearer, Through
      <3> QED BY <2>1, <3>1, CalmBegun DEF Nearer
    <2> QED BY <1>1, <2>1, ThroughKept DEF CompleteInv, Left
  <1>4. InumsInv'
    BY CalmInums DEF CompleteInv
  <1>5. GapInv' /\ FillInv'
    BY DEF GapInv, FillInv
  <1> QED BY <1>2, <1>3, <1>4, <1>5 DEF CompleteInv

-----------------------------------------------------------------------------
(***************************************************************************)
(* The loop over the extents leaves out none of their blocks.              *)
(***************************************************************************)
LEMMA ExtentFilled ==
    ASSUME BytesAddressed, TypeInv, SettingInv, MapsInv, pc \in {"flush", "fragment"},
           nextFrag \in DOMAIN Map, AllBefore(NumVols, BlockOf(nextFrag)), FilesFrom(Map, nextFrag),
           NEW e, e = SegmentEnd(Map, nextFrag)
    PROVE  AllBefore(NumVols, BlockOf(e))
  <1>1. /\ Fs \in FsType /\ Fs.offset \in Nat /\ FSEnd \in Nat /\ FSEnd < U64 /\ U64 \in Nat
        /\ DOMAIN Map \subseteq 0 .. FSEnd - 1
        /\ \A x \in DOMAIN Map : x \in Nat /\ Fs.offset <= x /\ x < FSEnd /\ x < U64
    BY MapFacts
  <1>2. Fs = FsOf(img, NumVols) /\ mapOf(NumVols) = Map
    BY MapAtHand
  <1>3. Fs.bs \in Nat /\ Fs.bs > 0 /\ Fs.first \in Nat /\ Fs.last \in Nat
    BY <1>1, FsFields
  <1>4. PICK map, s : map = Map /\ s = nextFrag
    OBVIOUS
  <1>5. /\ e \in Nat /\ e <= FSEnd /\ e > s
        /\ \A x \in s .. e - 1 : x \in DOMAIN map
    BY <1>1, <1>4, SegmentEndIs DEF Segment
  <1>6. s \in Nat /\ Fs.offset <= s /\ s < U64 /\ Fs.offset <= e /\ e < U64
    BY <1>1, <1>4, <1>5
  <1>7. PICK c, d : c = BlockOf(s) /\ d = BlockOf(e)
    OBVIOUS
  <1>8. /\ c \in Nat /\ s < Fs.offset + c * Fs.bs + Fs.bs /\ c * Fs.bs \in Nat
        /\ d \in Nat /\ Fs.offset + d * Fs.bs <= e /\ d * Fs.bs \in Nat
    BY <1>1, <1>5, <1>6, <1>7, BlockOfIs
  <1>9. ASSUME NEW b \in Fs.first .. Fs.last - 1, b < d
        PROVE  HasFile(NumVols, b) \/ HasEntry(NumVols, b)
    <2>1. b \in Nat
      BY <1>3
    <2>2. CASE b < c
      BY <1>2, <1>4, <1>7, <2>2, Zenon DEF AllBefore
    <2>3. CASE c <= b
      <3>1. PICK p \in Nat : p = b * Fs.bs
        BY <1>3, <2>1
      <3>2. c * Fs.bs <= p
        BY <1>3, <1>8, <2>1, <2>3, <3>1, Products
      <3>3. p + Fs.bs <= d * Fs.bs
        <4>1. (b + 1) * Fs.bs <= d * Fs.bs
          BY <1>3, <1>8, <1>9, <2>1, Products
        <4>2. (b + 1) * Fs.bs = b * Fs.bs + 1 * Fs.bs /\ 1 * Fs.bs = Fs.bs
          BY <1>3, <2>1, Products
        <4> QED BY <3>1, <4>1, <4>2
      <3>4. PICK y \in Int : y = Fs.offset + p + Fs.bs - 1
        BY <1>1, <1>3
      <3>5. s <= y
        BY <1>1, <1>3, <1>6, <1>8, <3>2, <3>4
      <3>6. y <= e - 1
        BY <1>1, <1>3, <1>5, <1>8, <3>3, <3>4
      <3>7. y \in DOMAIN map
        BY <1>5, <1>6, <3>5, <3>6
      <3>8. OfFiles(map, y)
        BY <1>4, <3>5, <3>7, Zenon DEF FilesFrom
      <3>9. y \in BytesOf(Fs, b)
        <4>1. y \in Fs.offset + p .. Fs.offset + p + Fs.bs - 1
          BY <1>1, <1>3, <3>4
        <4> QED BY <3>1, <4>1 DEF BytesOf
      <3> QED BY <1>2, <1>4, <3>7, <3>8, <3>9, Zenon DEF HasFile
    <2> QED BY <1>8, <2>1, <2>2, <2>3
  <1> QED BY <1>2, <1>7, <1>9, Zenon DEF AllBefore

\* Once the blocks before the extent at hand are all there, or those of the file system.
Filled ==
    \/ nextFrag = EndIter /\ AllBefore(NumVols, Fs.last)
    \/ /\ nextFrag \in DOMAIN Map
       /\ AllBefore(NumVols, BlockOf(nextFrag)) /\ FilesFrom(Map, nextFrag)

LEMMA NextExtentFilled ==
    ASSUME BytesAddressed, TypeInv, SettingInv, MapsInv, ThroughInv, pc \in {"flush", "fragment"},
           Filled, NextExtent, Preserves, UNCHANGED <<Fs, NumVols, AllocatedRuns, InUnallocated>>,
           \A k : Begun(k)' => Begun(k)
    PROVE  ThroughInv' /\ GapInv' /\ FillInv'
  <1>1. PICK k : k = NumVols
    OBVIOUS
  <1>2. k \in FsIndexes(img) /\ Fs = FsOf(img, k)
    BY <1>1, MapAtHand
  <1>3. ASSUME pc' = "flush"
        PROVE  ThroughInv'
    <2>1. ASSUME NEW j \in FsIndexes(img), Through(j)'
          PROVE  Through(j)
      BY <1>3, <2>1 DEF Through
    <2> QED BY <2>1, ThroughKept DEF Left
  <1>4. CASE nextFrag = EndIter
    <2>1. pc' = "walk"
      BY <1>4 DEF NextExtent
    <2>2. AllBefore(k, FsOf(img, k).last)
      <3>1. EndIter \notin DOMAIN Map
        <4>1. \A x \in DOMAIN Map : x \in Nat
          BY MapFacts
        <4> QED BY <4>1 DEF EndIter
      <3> QED BY <1>1, <1>2, <1>4, <3>1 DEF Filled
    <2>3. ASSUME NEW j \in FsIndexes(img), Through(j)'
          PROVE  Through(j) \/ AllBefore(j, FsOf(img, j).last)
      <3>1. InUnallocated /\ (j < NumVols \/ j = NumVols)
        BY <2>3 DEF Through
      <3> QED BY <1>1, <2>2, <3>1 DEF Through
    <2>4. ThroughInv'
      BY <2>3, ThroughKept DEF Left
    <2> QED BY <2>1, <2>4 DEF GapInv, FillInv
  <1>5. CASE nextFrag \in DOMAIN Map /\ nextFrag # EndIter
    <2>1. PICK e, n, map, s : /\ e = SegmentEnd(Map, nextFrag) /\ map = Map /\ s = nextFrag
                              /\ n = Lowest(Later(Map, nextFrag))
      OBVIOUS
    <2>2. pc' = "flush" /\ start' = e /\ nextFrag' = n
      BY <1>5, <2>1, Zenon DEF NextExtent, Map, Later
    <2>3. AllBefore(NumVols, BlockOf(nextFrag)) /\ FilesFrom(map, s)
      BY <1>5, <2>1 DEF Filled
    <2>4. AllBefore(NumVols, BlockOf(e))
      BY <1>5, <2>1, <2>3, ExtentFilled
    <2>5. PICK c : c = BlockOf(e)
      OBVIOUS
    <2>6. AllBefore(k, c)'
      BY <1>1, <1>2, <2>4, <2>5, BeforeKept
    <2>7. BlockOf(start)' = c
      BY <2>2, <2>5 DEF BlockOf
    <2>8. AllBefore(NumVols, BlockOf(start))'
      BY <1>1, <2>6, <2>7, Zenon DEF AllBefore, HasFile, HasEntry
    <2>9. n # EndIter => FilesFrom(map, n)
      <3>1. /\ Mapped(map, Fs, FSEnd) /\ UpTo(map, FSEnd) /\ FSEnd \in Nat
            /\ s \in DOMAIN map /\ NextExtentIs(map, s, e, n)
            /\ \A x \in DOMAIN map : x \in Nat
        BY <1>5, <2>1, MapFacts DEF UpTo, NextExtentIs
      <3>2. e \in Nat /\ s < e /\ (n = EndIter \/ (n \in DOMAIN map /\ e <= n))
        BY <3>1, FollowingExtent
      <3>3. ASSUME n # EndIter, NEW x \in DOMAIN map, x >= n
            PROVE  x >= s
        BY <3>1, <3>2, <3>3
      <3> QED BY <2>3, <3>3, Zenon DEF FilesFrom
    <2>10. Map' = map
      BY <2>1 DEF Map
    <2>11. nextFrag' # EndIter => FilesFrom(Map, nextFrag)'
      BY <2>2, <2>9, <2>10, Zenon DEF FilesFrom, OfFiles
    <2>12. GapInv' /\ FillInv'
      BY <2>2, <2>8, <2>11 DEF GapInv, FillInv
    <2> QED BY <1>3, <2>2, <2>12
  <1>6. EndIter \notin DOMAIN Map
    <2>1. \A x \in DOMAIN Map : x \in Nat
      BY MapFacts
    <2> QED BY <2>1 DEF EndIter
  <1> QED BY <1>4, <1>5, <1>6 DEF Filled

LEMMA NextFragmentFilled ==
    ASSUME BytesAddressed, BlocksWhole, TypeInv, SettingInv, MapsInv, RecordsInv, FlushInv,
           ThroughInv, GapInv, Preserves, NextFragment, \A k : Begun(k)' => Begun(k)
    PROVE  ThroughInv' /\ GapInv' /\ FillInv'
  <1>1. /\ pc = "flush" /\ UNCHANGED <<Fs, NumVols, AllocatedRuns, InUnallocated, img>>
    BY DEF NextFragment, args, volume, fileSys, results
  <1>2. PICK b, e : b = BlockOf(start) /\ e = IF nextFrag = EndIter THEN Fs.last ELSE BlockOf(nextFrag)
    OBVIOUS
  <1>3. PICK k : k = NumVols
    OBVIOUS
  <1>4. k \in FsIndexes(img) /\ Fs = FsOf(img, k) /\ Fs \in FsType
    BY <1>1, <1>3, MapAtHand
  <1>5. AllBefore(k, b) /\ (nextFrag # EndIter => FilesFrom(Map, nextFrag))
    BY <1>1, <1>2, <1>3 DEF GapInv
  <1>6. CASE b < e /\ ~(b >= e)
    <2>1. blk' = b /\ blkEnd' = e /\ pc' = "fragment" /\ nextFrag' = nextFrag
      BY <1>2, <1>6, Zenon DEF NextFragment
    <2>2. /\ b \in Nat /\ e \in Nat
          /\ (nextFrag = EndIter /\ e = FsOf(img, k).last) \/ e < img.size
      BY <1>1, <1>2, <1>3, <1>6, GapFree
    <2>3. AtMost(b, e) = b
      BY <1>6, <2>2 DEF AtMost
    <2>4. AllBefore(k, b)'
      BY <1>4, <1>5, BeforeKept
    <2>5. AtMost(blk, blkEnd)' = b
      BY <2>1, <2>3 DEF AtMost
    <2>6. AllBefore(NumVols, AtMost(blk, blkEnd))'
      BY <1>1, <1>3, <2>4, <2>5, Zenon DEF AllBefore, HasFile, HasEntry
    <2>7. nextFrag' # EndIter => FilesFrom(Map, nextFrag)'
      BY <1>1, <1>5, <2>1, Zenon DEF FilesFrom, OfFiles, Map
    <2>8. nextFrag' = EndIter => blkEnd' = Fs'.last
      BY <1>1, <1>2, <2>1
    <2>9. e <= Fs.last \/ e < img.size
      BY <1>4, <2>2, FsFields
    <2>10. blkEnd' <= Fs'.last \/ blkEnd' < img'.size
      BY <1>1, <2>1, <2>9
    <2>11. GapInv' /\ FillInv'
      BY <2>1, <2>6, <2>7, <2>8, <2>10 DEF GapInv, FillInv
    <2>12. ASSUME NEW j \in FsIndexes(img), Through(j)'
           PROVE  Through(j)
      BY <1>1, <2>1, <2>12 DEF Through
    <2> QED BY <2>11, <2>12, ThroughKept DEF Left
  <1>7. CASE ~(b < e)
    <2>1. NextExtent
      BY <1>2, <1>7, Zenon DEF NextFragment
    <2>2. /\ Fs \in FsType /\ Fs.offset \in Nat
          /\ \A x \in DOMAIN Map : x \in Nat /\ Fs.offset <= x /\ x < FSEnd /\ x < U64
      BY <1>1, MapFacts
    <2>3. /\ start \in Nat /\ Fs.offset <= start /\ start < U64
          /\ nextFrag = EndIter \/ nextFrag \in DOMAIN Map
      BY <1>1 DEF FlushInv, Cursor
    <2>4. b \in Nat
      BY <1>2, <2>2, <2>3, BlockOfIs
    <2>5. Fs.first \in Nat /\ Fs.last \in Nat
      BY <2>2, FsFields
    <2>6. nextFrag # EndIter => BlockOf(nextFrag) \in Nat
      BY <2>2, <2>3, BlockOfIs
    <2>7. e \in Int /\ e <= b
      BY <1>2, <1>7, <2>4, <2>5, <2>6
    <2>8. AllBefore(k, e)
      BY <1>4, <1>5, <2>4, <2>5, <2>7, FewerBefore
    <2>9. Filled
      BY <1>2, <1>3, <1>5, <2>3, <2>8 DEF Filled
    <2> QED BY <1>1, <2>1, <2>9, NextExtentFilled
  <1> QED
    <2>1. b < e => ~(b >= e)
      <3>1. /\ Fs \in FsType /\ Fs.offset \in Nat
            /\ \A x \in DOMAIN Map : x \in Nat /\ Fs.offset <= x /\ x < FSEnd /\ x < U64
        BY <1>1, MapFacts
      <3>2. /\ start \in Nat /\ Fs.offset <= start /\ start < U64
            /\ nextFrag = EndIter \/ nextFrag \in DOMAIN Map
        BY <1>1 DEF FlushInv, Cursor
      <3>3. b \in Nat
        BY <1>2, <3>1, <3>2, BlockOfIs
      <3>4. Fs.last \in Nat
        BY <3>1, FsFields
      <3>5. nextFrag # EndIter => BlockOf(nextFrag) \in Nat
        BY <3>1, <3>2, BlockOfIs
      <3> QED BY <1>2, <3>3, <3>4, <3>5
    <2> QED BY <1>6, <1>7, <2>1

LEMMA FragmentDoneFilled ==
    ASSUME BytesAddressed, TypeInv, SettingInv, MapsInv, FragmentInv, ThroughInv, FillInv,
           Preserves, FragmentDone, \A k : Begun(k)' => Begun(k)
    PROVE  ThroughInv' /\ GapInv' /\ FillInv'
  <1>1. /\ pc = "fragment" /\ NextExtent /\ UNCHANGED <<Fs, NumVols, AllocatedRuns, InUnallocated>>
        /\ IF UCMode = "block" THEN blk = blkEnd ELSE blk >= blkEnd
    BY DEF FragmentDone, volume, fileSys, results
  <1>2. /\ nextFrag = EndIter \/ (nextFrag \in DOMAIN Map /\ blkEnd = BlockOf(nextFrag))
        /\ blk \in Nat /\ blkEnd \in Nat
    BY <1>1 DEF FragmentInv
  <1>3. AtMost(blk, blkEnd) = blkEnd
    BY <1>1, <1>2 DEF AtMost
  <1>4. /\ AllBefore(NumVols, blkEnd) /\ (nextFrag = EndIter => blkEnd = Fs.last)
        /\ nextFrag # EndIter => FilesFrom(Map, nextFrag)
    BY <1>1, <1>3 DEF FillInv
  <1>5. Filled
    BY <1>2, <1>4 DEF Filled
  <1> QED BY <1>1, <1>5, NextExtentFilled

-----------------------------------------------------------------------------
(***************************************************************************)
(* An emission adds an entry for its blocks, if no record gets lost.       *)
(***************************************************************************)
LEMMA EmissionPreserves ==
    ASSUME TypeInv, SettingInv, MapsInv, FragmentInv, NEW run, Emission(run)
    PROVE  Preserves
  <1>1. img' = img /\ Emits(run)
    BY DEF Emission, args
  <1>2. ASSUME NEW n \in UnallocatedRecords
        PROVE  n \in UnallocatedRecords' /\ Out'[n] = Out[n]
    <2>1. n \in DOMAIN Out /\ InFolder(Out[n])
      BY Zenon DEF UnallocatedRecords, InFolder
    <2>2. n \in DOMAIN Out' /\ Out'[n] = Out[n]
      <3>1. CASE Out' = Out
        BY <2>1, <3>1
      <3>2. ASSUME NEW r, Out' = Append(Out, r)
            PROVE  n \in DOMAIN Out' /\ Out'[n] = Out[n]
        <4>1. PICK S : Out \in Seq(S)
          BY DEF TypeInv, ResultsTyped
        <4> QED BY <2>1, <3>2, <4>1, OneMoreRecord
      <3> QED BY <1>1, <3>1, <3>2 DEF Emits
    <2> QED BY <2>1, <2>2, Zenon DEF UnallocatedRecords, InFolder
  <1>3. ASSUME NEW k \in FsIndexes(img)
        PROVE  KeepsMap(mapOf(k), mapOf(k)')
    <2>1. /\ NumVols \in DOMAIN AllocatedRuns /\ NumVols \in DOMAIN AllocatedRuns'
          /\ NewMap(AllocatedRuns'[NumVols], run)
          /\ \A j : j # NumVols => mapOf(j)' = mapOf(j)
      BY EmissionMap
    <2>2. CASE k # NumVols
      BY <2>1, <2>2, Zenon DEF KeepsMap
    <2>3. CASE k = NumVols
      <3>1. mapOf(k) = Map
        BY <2>1, <2>3, Zenon DEF mapOf, Map
      <3>2. mapOf(k)' = AllocatedRuns'[NumVols]
        BY <2>1, <2>3, Zenon DEF mapOf
      <3> QED BY <2>1, <3>1, <3>2, Zenon DEF NewMap, KeepsMap
    <2> QED BY <2>2, <2>3
  <1> QED BY <1>1, <1>2, <1>3, Zenon DEF Preserves

LEMMA EmissionInums ==
    ASSUME InodesKept, TypeInv, SettingInv, MapsInv, FragmentInv, FillInv, InumsInv,
           NEW run, Emission(run)
    PROVE  InumsInv'
  <1>1. pc = "fragment" /\ Emits(run) /\ AtHand(run)
    BY DEF Emission
  <1>2. /\ run.addr \in Nat /\ run.len \in Nat /\ blk \in Nat /\ blkEnd \in Nat /\ run.addr = blk
        /\ blk < blkEnd
    BY <1>1, RunAtHand
  <1>3. /\ img \in Images /\ NumVols \in FsIndexes(img) /\ Fs = FsOf(img, NumVols) /\ Fs \in FsType
        /\ img.size \in Nat
    BY <1>1, FsAtHand
  <1>4. blkEnd <= Fs.last \/ blkEnd < img.size
    BY <1>1 DEF FillInv
  <1>5. NoLimit - run.addr \notin FileInums
    <2>1. ASSUME NEW f \in Entries, f.meta # NoMeta
          PROVE  f.meta.addr # NoLimit - run.addr
      <3>1. f.meta.addr \in Nat
        BY <2>1, EntriesAssumption DEF MetaType
      <3>2. f.meta.addr + img.size < NoLimit /\ f.meta.addr + FsOf(img, NumVols).last < NoLimit
        BY <1>3, <2>1, Zenon DEF InodesKept
      <3>3. NoLimit \in Int /\ Fs.last \in Nat
        BY <1>3, FsFields, WordAssumption DEF NoLimit
      <3> QED BY <1>2, <1>3, <1>4, <3>1, <3>2, <3>3
    <2> QED BY <2>1, Zenon DEF FileInums
  <1>6. ASSUME NEW n \in UnallocatedRecords'
        PROVE  Out'[n].link[2] \notin FileInums
    <2>1. Older(n) \/ Newer(n, run)
      BY <1>1, EmissionEntries DEF TypeInv
    <2>2. CASE Older(n)
      BY <2>2, Zenon DEF Older, InumsInv
    <2>3. CASE Newer(n, run)
      <3>1. Out'[n].link = <<NumVols, NoLimit - run.addr>>
        BY <2>3 DEF Newer, OfRun
      <3> QED BY <1>5, <3>1
    <2> QED BY <2>1, <2>2, <2>3
  <1> QED BY <1>6, Zenon DEF InumsInv

\* The entry that an emission adds.
LEMMA EmissionAdds ==
    ASSUME Faults = FALSE, ResultsTyped, NEW run, Emits(run)
    PROVE  Len(Out) + 1 \in UnallocatedRecords' /\ OfRun(Out'[Len(Out) + 1], run, NumVols, Fs)
  <1>1. PICK r : Out' = Append(Out, r) /\ OfRun(r, run, NumVols, Fs)
    BY DEF Emits
  <1>2. PICK S : Out \in Seq(S)
    BY DEF ResultsTyped
  <1>3. Len(Out) + 1 \in DOMAIN Out' /\ Out'[Len(Out) + 1] = r
    BY <1>1, <1>2, OneMoreRecord
  <1>4. InFolder(r)
    BY <1>1 DEF OfRun
  <1> QED BY <1>1, <1>3, <1>4, Zenon DEF UnallocatedRecords, InFolder

LEMMA EmissionBefore ==
    ASSUME Faults = FALSE, TypeInv, SettingInv, MapsInv, FragmentInv, FillInv,
           NEW run, Emission(run), Preserves, NEW k, k = NumVols, NEW e, e = blk + run.len
    PROVE  AllBefore(k, e)'
  <1>1. pc = "fragment" /\ Emits(run) /\ AtHand(run) /\ NumVols' = NumVols /\ img' = img
    BY DEF Emission, volume, args
  <1>2. /\ run.addr \in Nat /\ run.len \in Nat /\ blk \in Nat /\ blkEnd \in Nat /\ run.addr = blk
        /\ blk < blkEnd
    BY <1>1, RunAtHand
  <1>3. NumVols \in FsIndexes(img) /\ Fs = FsOf(img, NumVols) /\ Fs.first \in Nat /\ Fs.last \in Nat
    BY <1>1, FsAtHand, FsFields
  <1>4. PICK c : c = blk
    OBVIOUS
  <1>5. AtMost(blk, blkEnd) = blk
    BY <1>2 DEF AtMost
  <1>6. AllBefore(k, c)
    BY <1>1, <1>4, <1>5 DEF FillInv
  <1>7. AllBefore(k, c)'
    BY <1>3, <1>4, <1>6, BeforeKept
  <1>8. ASSUME NEW b \in Fs.first .. Fs.last - 1, b < e
        PROVE  HasFile(k, b)' \/ HasEntry(k, b)'
    <2>1. b \in Int
      BY <1>3
    <2>2. CASE b < c
      <3>1. b \in FsOf(img, k).first .. FsOf(img, k).last - 1
        BY <1>3, <1>4
      <3>2. b \in FsOf(img', k).first .. FsOf(img', k).last - 1
        BY <1>1, <3>1
      <3> QED BY <1>7, <2>2, <3>2, Zenon DEF AllBefore, HasFile, HasEntry, FsOf
    <2>3. CASE c <= b
      <3>1. /\ Len(Out) + 1 \in UnallocatedRecords'
            /\ OfRun(Out'[Len(Out) + 1], run, NumVols, Fs)
        BY <1>1, EmissionAdds DEF TypeInv
      <3>2. PICK n \in UnallocatedRecords' : n = Len(Out) + 1
        BY <3>1
      <3>3. Out'[n].volIndex = k /\ RunOf(Out'[n]) = run
        BY <1>4, <3>1, <3>2 DEF OfRun
      <3>4. b \in run.addr .. run.addr + run.len - 1
        BY <1>2, <1>4, <1>8, <2>1, <2>3
      <3>5. b \in BlocksOf(Out'[n])
        BY <3>3, <3>4, Zenon DEF BlocksOf, RunOf
      <3> QED BY <3>3, <3>5, Zenon DEF HasEntry, BlocksOf
    <2> QED BY <1>2, <1>4, <2>1, <2>2, <2>3
  <1>9. FsOf(img, k)' = Fs
    BY <1>1, <1>3, <1>4 DEF FsOf
  <1> QED BY <1>8, <1>9, Zenon DEF AllBefore

LEMMA EmissionFilesFrom ==
    ASSUME BytesAddressed, TypeInv, SettingInv, MapsInv, FragmentInv, FillInv, nextFrag # EndIter,
           NEW run, Emission(run), UNCHANGED nextFrag
    PROVE  FilesFrom(Map, nextFrag)'
  <1>1. pc = "fragment" /\ AtHand(run) /\ NumVols' = NumVols
    BY DEF Emission, volume
  <1>2. /\ run.addr \in Nat /\ run.len \in Nat /\ blk \in Nat /\ blkEnd \in Nat /\ run.addr = blk
        /\ run.addr + run.len <= blkEnd
    BY <1>1, RunAtHand DEF AtHand
  <1>3. PICK map, new, s : map = Map /\ new = AllocatedRuns'[NumVols] /\ s = nextFrag
    OBVIOUS
  <1>4. NewMap(new, run)
    BY <1>3, EmissionMap
  <1>5. FilesFrom(map, s)
    BY <1>1, <1>3 DEF FillInv
  <1>6. s \in DOMAIN map /\ blkEnd = BlockOf(s)
    BY <1>1, <1>3 DEF FragmentInv
  <1>7. /\ Fs \in FsType /\ Fs.offset \in Nat /\ s \in Nat /\ Fs.offset <= s /\ s < U64
        /\ Fs.bs \in Nat
    BY <1>1, <1>3, <1>6, MapFacts, FsFields
  <1>8. Fs.offset + blkEnd * Fs.bs <= s /\ blkEnd * Fs.bs \in Nat
    BY <1>6, <1>7, BlockOfIs
  <1>9. ASSUME NEW x \in RunBytesOf(Fs, run)
        PROVE  ~(x >= s)
    <2>1. x \in BytesFrom(Fs, run.addr, run.addr + run.len)
      BY <1>9 DEF RunBytesOf
    <2>2. run.addr + run.len \in Nat
      BY <1>2
    <2>3. x \in BytesFrom(Fs, run.addr, blkEnd)
      BY <1>2, <1>7, <2>1, <2>2, BytesMore
    <2>4. run.addr * Fs.bs \in Nat
      BY <1>2, <1>7
    <2>5. PICK p, q : p = run.addr * Fs.bs /\ q = blkEnd * Fs.bs
      OBVIOUS
    <2>6. x \in Fs.offset + p .. Fs.offset + q - 1
      BY <2>3, <2>5 DEF BytesFrom
    <2> QED BY <1>7, <1>8, <2>4, <2>5, <2>6
  <1>10. FilesFrom(new, s)
    <2>1. ASSUME NEW x \in DOMAIN new, x >= s
          PROVE  OfFiles(new, x)
      <3>1. x \in DOMAIN map /\ new[x] = map[x]
        BY <1>3, <1>4, <1>9, <2>1, Zenon DEF NewMap
      <3> QED BY <1>5, <2>1, <3>1, Zenon DEF FilesFrom, OfFiles
    <2> QED BY <2>1, Zenon DEF FilesFrom
  <1>11. Map' = new
    BY <1>1, <1>3 DEF Map
  <1> QED BY <1>3, <1>10, <1>11, Zenon DEF FilesFrom, OfFiles

\* The step of either loop.
LEMMA EmissionComplete ==
    ASSUME Faults = FALSE, InodesKept, BytesAddressed, TypeInv, SettingInv, MapsInv, FragmentInv,
           CompleteInv, NEW run, Emission(run), AtMost(blk', blkEnd) = blk + run.len, pc' = pc,
           UNCHANGED <<nextFrag, blkEnd, erred>>
    PROVE  CompleteInv'
  <1>1. /\ pc = "fragment" /\ pc' = "fragment" /\ NumVols' = NumVols /\ img' = img /\ Fs' = Fs
        /\ InUnallocated' = InUnallocated
    BY DEF Emission, volume, args, fileSys
  <1>2. InUnallocated
    BY <1>1 DEF SettingInv, FsInv
  <1>3. AheadInv /\ ThroughInv /\ InumsInv /\ FillInv
    BY DEF CompleteInv
  <1>4. Preserves
    BY EmissionPreserves
  <1>5. AheadInv'
    <2>1. ASSUME NEW k \in FsIndexes(img), Ahead(k)'
          PROVE  FilesOnly(mapOf(k))'
      <3>1. k > NumVols
        BY <1>1, <1>2, <2>1 DEF Ahead, AtFs
      <3>2. NumVols \in Int /\ k # NumVols
        <4>1. NumVols \in Int
          BY <1>1, FsAtHand
        <4> QED BY <3>1, <4>1
      <3>3. mapOf(k)' = mapOf(k)
        BY <3>2, EmissionMap
      <3>4. FilesOnly(mapOf(k))
        BY <1>3, <3>1 DEF AheadInv, Ahead
      <3> QED BY <3>3, <3>4, Zenon DEF FilesOnly, OfFiles
    <2>2. FsIndexes(img)' = FsIndexes(img)
      BY <1>1
    <2> QED BY <2>1, <2>2, Zenon DEF AheadInv
  <1>6. ThroughInv'
    <2>1. NumVols \in Nat
      BY <1>1, FsAtHand
    <2>2. ASSUME NEW j \in FsIndexes(img), Through(j)', Begun(j)'
          PROVE  Through(j) /\ Begun(j)
      <3>1. Through(j) /\ j < NumVols
        BY <1>1, <2>2 DEF Through
      <3>2. ASSUME NEW n \in UnallocatedRecords', Out'[n].volIndex = j
            PROVE  n \in UnallocatedRecords /\ Out[n].volIndex = j
        <4>1. Older(n) \/ Newer(n, run)
          BY EmissionEntries DEF TypeInv, Emission
        <4>2. ~Newer(n, run)
          BY <2>1, <3>1, <3>2 DEF Newer, OfRun
        <4> QED BY <3>2, <4>1, <4>2 DEF Older
      <3>3. HasUnallocated(j)' => HasUnallocated(j)
        BY <3>2, Zenon DEF HasUnallocated
      <3> QED BY <2>2, <3>1, <3>3 DEF Begun
    <2> QED BY <1>3, <1>4, <2>2, ThroughKept DEF Left
  <1>7. InumsInv'
    BY <1>3, EmissionInums
  <1>8. FillInv'
    <2>1. /\ nextFrag = EndIter => blkEnd = Fs.last
          /\ blkEnd <= Fs.last \/ blkEnd < img.size
      BY <1>1, <1>3 DEF FillInv
    <2>2. PICK k, e : k = NumVols /\ e = blk + run.len
      OBVIOUS
    <2>3. AllBefore(k, e)'
      BY <1>3, <1>4, <2>2, EmissionBefore
    <2>4. AtMost(blk, blkEnd)' = e
      BY <2>2 DEF AtMost
    <2>5. AllBefore(NumVols, AtMost(blk, blkEnd))'
      BY <1>1, <2>2, <2>3, <2>4, Zenon DEF AllBefore, HasFile, HasEntry
    <2>6. nextFrag' # EndIter => FilesFrom(Map, nextFrag)'
      BY <1>3, EmissionFilesFrom
    <2>7. /\ nextFrag' = EndIter => blkEnd' = Fs'.last
          /\ blkEnd' <= Fs'.last \/ blkEnd' < img'.size
      BY <1>1, <2>1
    <2> QED BY <2>5, <2>6, <2>7 DEF FillInv
  <1>9. GapInv' /\ EndInv'
    BY <1>1 DEF GapInv, EndInv
  <1> QED BY <1>5, <1>6, <1>7, <1>8, <1>9 DEF CompleteInv

-----------------------------------------------------------------------------
(***************************************************************************)
(* The steps outside the loops.                                            *)
(***************************************************************************)
LEMMA FirstWalkNearer ==
    ASSUME ~InUnallocated, InUnallocated' = InUnallocated
    PROVE  Nearer
  BY DEF Nearer, Ahead, Through

\* A step of the first walk that leaves the records and the maps as they are.
LEMMA FirstWalkComplete ==
    ASSUME CompleteInv, ~InUnallocated, InUnallocated' = InUnallocated, Calm, SameMapOf,
           img' = img, pc' \notin {"flush", "fragment", "maps", "inodes", "done"}
    PROVE  CompleteInv'
  <1>1. EndInv'
    BY DEF EndInv
  <1> QED BY <1>1, FirstWalkNearer, CalmComplete

LEMMA FilterVolSameMap ==
    ASSUME TypeInv, FilterVol
    PROVE  SameMapOf
  <1>1. CASE AllocatedRuns' = AllocatedRuns
    BY <1>1, SameRunsSameMap
  <1>2. ASSUME NEW map, OneMap(WithMap(0), AllocatedRuns', 0, map)
        PROVE  SameMapOf
    <2>1. vol < Len(img.vols)
      BY DEF FilterVol
    <2>2. img \in Images /\ img.vols # <<>>
      BY <2>1, VolumeHere DEF TypeInv, ControlTyped
    <2>3. ASSUME NEW k \in FsIndexes(img)
          PROVE  mapOf(k)' = mapOf(k)
      <3>1. k # 0
        BY <2>2, <2>3, NoFsZero
      <3>2. /\ DOMAIN AllocatedRuns' = DOMAIN AllocatedRuns \cup {0}
            /\ k \in DOMAIN AllocatedRuns => AllocatedRuns'[k] = AllocatedRuns[k]
        <4>1. /\ DOMAIN WithMap(0) = DOMAIN AllocatedRuns \cup {0}
              /\ \A x \in DOMAIN AllocatedRuns : WithMap(0)[x] = AllocatedRuns[x]
          BY WithMapDomain
        <4> QED BY <1>2, <3>1, <4>1, Zenon DEF OneMap
      <3> QED BY <3>1, <3>2, Zenon DEF mapOf
    <2> QED BY <2>3 DEF SameMapOf
  <1> QED BY <1>1, <1>2, FilterVolWrites

LEMMA FilterVolComplete ==
    ASSUME TypeInv, RecordsInv, FreshInv, CompleteInv, FilterVol
    PROVE  CompleteInv'
  <1>1. /\ vol < Len(img.vols) /\ pc = "walk" /\ pc' = "vol" /\ NumVols' = NumVols + 1
        /\ img' = img /\ InUnallocated' = InUnallocated /\ erred' = erred
    BY DEF FilterVol, args
  <1>2. img.vols # <<>> /\ vol \in Nat /\ NumVols = vol /\ img \in Images
    BY <1>1, VolumeHere DEF TypeInv, ControlTyped
  <1>3. ~AtFs /\ AtFs'
    BY <1>1, <1>2 DEF AtFs
  <1>4. ASSUME NEW k \in FsIndexes(img)
        PROVE  k \in Nat
    BY <1>2, FsOfTyped
  <1>5. ASSUME NEW k \in FsIndexes(img), Ahead(k)'
        PROVE  Ahead(k)
    <2>1. ~InUnallocated \/ k > NumVols
      BY <1>1, <1>2, <1>4, <1>5 DEF Ahead
    <2> QED BY <2>1 DEF Ahead
  <1>6. ASSUME NEW k \in FsIndexes(img), Through(k)'
        PROVE  Through(k)
    <2>1. InUnallocated /\ (k < NumVols \/ k = NumVols)
      BY <1>1, <1>2, <1>3, <1>4, <1>6 DEF Through
    <2> QED BY <1>1, <1>3, <2>1 DEF Through
  <1>7. Nearer
    BY <1>1, <1>5, <1>6 DEF Nearer
  <1>8. EndInv'
    BY <1>1 DEF EndInv
  <1>9. Calm
    BY FilterVolRecords
  <1> QED BY <1>1, <1>7, <1>8, <1>9, FilterVolSameMap, CalmComplete

LEMMA NoFilesystemComplete ==
    ASSUME TypeInv, SettingInv, FreshInv, RecordsInv, CompleteInv, NoFilesystem
    PROVE  CompleteInv'
  <1>1. /\ AtFs /\ FsHere = NoFs /\ pc' = "walk" /\ vol' = IF img.vols = <<>> THEN 1 ELSE vol
        /\ img' = img /\ NumVols' = NumVols /\ InUnallocated' = InUnallocated
        /\ AllocatedRuns' = AllocatedRuns /\ erred' = erred
    BY DEF NoFilesystem, args, volume, results
  <1>2. ~AtFs'
    BY <1>1 DEF AtFs
  <1>3. NumVols \notin FsIndexes(img)
    <2>1. img.vols # <<>> => NumVols = vol
      BY DEF TypeInv, ControlTyped
    <2>2. FsOf(img, NumVols) = NoFs
      BY <1>1, <2>1, Zenon DEF FsHere, FsOf
    <2> QED BY <2>2 DEF FsIndexes
  <1>4. ASSUME NEW k \in FsIndexes(img), Ahead(k)'
        PROVE  Ahead(k)
    BY <1>1, <1>2, <1>4 DEF Ahead
  <1>5. ASSUME NEW k \in FsIndexes(img), Through(k)'
        PROVE  Through(k)
    BY <1>1, <1>3, <1>5 DEF Through
  <1>6. Calm
    BY StillSteps, StillKeeps
  <1>7. EndInv'
    BY <1>1 DEF EndInv
  <1>8. Nearer
    BY <1>1, <1>4, <1>5 DEF Nearer
  <1> QED BY <1>1, <1>6, <1>7, <1>8, SameRunsSameMap, CalmComplete

LEMMA StartUnallocatedComplete ==
    ASSUME TypeInv, RecordsInv, CompleteInv, StartUnallocated
    PROVE  CompleteInv'
  <1>1. /\ ~InUnallocated /\ InUnallocated' /\ pc' = "walk" /\ vol' = 0 /\ NumVols' = 0
        /\ img' = img /\ AllocatedRuns' = AllocatedRuns
    BY DEF StartUnallocated, Start, args, results
  <1>2. UnallocatedRecords' = {}
    BY StartUnallocatedRecords
  <1>3. img \in Images
    BY DEF TypeInv, ControlTyped
  <1>4. ASSUME NEW k \in FsIndexes(img)
        PROVE  ~Through(k)'
    <2>1. k \in Nat
      BY <1>3, FsOfTyped
    <2>2. k = 0 => img.vols = <<>>
      BY <1>3, NoFsZero
    <2> QED BY <1>1, <2>1, <2>2 DEF Through, AtFs
  <1>5. AheadInv'
    <2>1. \A k : Ahead(k)
      BY <1>1 DEF Ahead
    <2> QED BY <1>1, <2>1, SameRunsSameMap, AheadKept DEF CompleteInv
  <1>6. ThroughInv'
    <2>1. FsIndexes(img)' = FsIndexes(img)
      BY <1>1
    <2> QED BY <1>4, <2>1, Zenon DEF ThroughInv
  <1>7. InumsInv' /\ GapInv' /\ FillInv' /\ EndInv'
    BY <1>1, <1>2 DEF InumsInv, GapInv, FillInv, EndInv
  <1> QED BY <1>5, <1>6, <1>7 DEF CompleteInv

LEMMA OpenImageComplete ==
    ASSUME TypeInv, RecordsInv, FreshInv, CompleteInv, OpenImage
    PROVE  CompleteInv'
  <1>1. /\ pc = "open" /\ pc' \in {"walk", "failed"} /\ img' = img /\ AllocatedRuns' = AllocatedRuns
        /\ InUnallocated' = InUnallocated
    BY DEF OpenImage, Start, args, results
  <1>2. ~InUnallocated
    BY <1>1 DEF FreshInv
  <1>3. Calm
    BY SameOutCalm DEF OpenImage, results
  <1> QED BY <1>1, <1>2, <1>3, SameRunsSameMap, FirstWalkComplete

LEMMA FinishWalkComplete ==
    ASSUME TypeInv, SettingInv, FreshInv, RecordsInv, CompleteInv, FinishWalk
    PROVE  CompleteInv'
  <1>1. /\ WalkOver /\ pc = "walk" /\ pc' = "maps" /\ img' = img /\ NumVols' = NumVols /\ vol' = vol
        /\ InUnallocated' = InUnallocated /\ AllocatedRuns' = AllocatedRuns /\ erred' = erred
    BY DEF FinishWalk, WalkOver, args, walk, volume, results
  <1>2. ~AtFs /\ ~AtFs'
    BY <1>1 DEF AtFs, WalkOver
  <1>3. img \in Images /\ (IF img.vols = <<>> THEN NumVols = 0 ELSE NumVols = vol)
    BY DEF TypeInv, ControlTyped
  <1>4. ASSUME ~erred, NEW k \in FsIndexes(img)
        PROVE  k <= NumVols
    <2>1. CASE img.vols = <<>>
      BY <1>3, <1>4, <2>1 DEF FsIndexes
    <2>2. CASE img.vols # <<>>
      <3>1. k \in 1 .. Len(img.vols)
        BY <1>3, <1>4, <2>2, NoFsZero
      <3>2. NumVols = Len(img.vols)
        BY <1>1, <1>3, <1>4, <2>2 DEF WalkOver
      <3> QED BY <3>1, <3>2
    <2> QED BY <2>1, <2>2
  <1>5. EndInv'
    BY <1>1, <1>4 DEF EndInv
  <1>6. ASSUME NEW k \in FsIndexes(img), Ahead(k)'
        PROVE  Ahead(k)
    BY <1>1, <1>2, <1>6 DEF Ahead
  <1>7. ASSUME NEW k \in FsIndexes(img), Through(k)'
        PROVE  Through(k)
    BY <1>1, <1>2, <1>7 DEF Through
  <1>8. Nearer
    BY <1>1, <1>6, <1>7 DEF Nearer
  <1>9. Calm
    BY StillSteps, StillKeeps
  <1> QED BY <1>1, <1>5, <1>8, <1>9, SameRunsSameMap, CalmComplete

LEMMA OutputComplete ==
    ASSUME TypeInv, SettingInv, FreshInv, RecordsInv, CompleteInv, OutputDiskMap \/ OutputInodeMap
    PROVE  CompleteInv'
  <1>1. /\ pc \in {"maps", "inodes"} /\ pc' \in {"inodes", "done"} /\ img' = img
        /\ NumVols' = NumVols /\ vol' = vol
        /\ InUnallocated' = InUnallocated /\ AllocatedRuns' = AllocatedRuns /\ erred' = erred
    BY DEF OutputDiskMap, OutputInodeMap, args, walk, volume, results
  <1>2. ~AtFs /\ ~AtFs'
    BY <1>1 DEF AtFs
  <1>3. EndInv'
    BY <1>1 DEF CompleteInv, EndInv
  <1>4. Nearer
    BY <1>1, <1>2 DEF Nearer, Ahead, Through
  <1>5. Calm
    BY StillSteps, StillKeeps
  <1> QED BY <1>1, <1>3, <1>4, <1>5, SameRunsSameMap, CalmComplete

\* A file system that the walk turns away from has no entry yet.
LEMMA WalkErrorComplete ==
    ASSUME TypeInv, SettingInv, FreshInv, RecordsInv, CompleteInv, WalkError
    PROVE  CompleteInv'
  <1>1. /\ pc \in {"walk", "vol", "fs"} /\ pc' = "walk" /\ img' = img /\ NumVols' = NumVols
        /\ InUnallocated' = InUnallocated /\ AllocatedRuns' = AllocatedRuns /\ erred' = TRUE
        /\ vol' = IF img.vols = <<>> THEN 1 ELSE vol
    BY DEF WalkError, args, volume, results
  <1>2. ~AtFs'
    BY <1>1 DEF AtFs
  <1>3. Calm
    BY StillSteps, StillKeeps
  <1>4. ASSUME NEW k \in FsIndexes(img), Ahead(k)'
        PROVE  Ahead(k)
    BY <1>1, <1>2, <1>4 DEF Ahead
  <1>5. ASSUME NEW k \in FsIndexes(img), Through(k)'
        PROVE  Through(k) \/ ~Begun(k)'
    <2>1. CASE k = NumVols /\ AtFs
      <3>1. ~HasUnallocated(k)
        BY <2>1 DEF FreshInv, Fresh, HasUnallocated
      <3>2. ~HasUnallocated(k)'
        BY <1>3, <3>1, Zenon DEF Calm, HasUnallocated
      <3> QED BY <1>1, <3>2 DEF Begun
    <2>2. CASE ~(k = NumVols /\ AtFs)
      BY <1>1, <1>5, <2>2 DEF Through
    <2> QED BY <2>1, <2>2
  <1>6. Nearer
    BY <1>1, <1>4, <1>5 DEF Nearer
  <1>7. EndInv'
    BY <1>1 DEF EndInv
  <1> QED BY <1>1, <1>3, <1>6, <1>7, SameRunsSameMap, CalmComplete

\* An entry's runs make bytes its own, in the map of the file system at hand.
LEMMA ProcessFileGrown ==
    ASSUME BlocksWhole, TypeInv, SettingInv, MapsInv, ProcessFile
    PROVE  \E map : /\ OneMap(AllocatedRuns, AllocatedRuns', NumVols, map)
                    /\ \/ map = AllocatedRuns[NumVols]
                       \/ \E inum \in FileInums : Touches(AllocatedRuns[NumVols], map, inum, Int)
  <1> DEFINE ctx == Context(Fs, <<FSBeg, FSEnd>>, AllocatedRuns)
  <1>1. PICK f \in Entries, path \in NextPaths : processFile(Dirs, ctx, path, f)
    BY Zenon DEF ProcessFile
  <1>2. PICK dirs : writeFile(ctx, dirs, f)
    BY <1>1, Zenon DEF processFile
  <1>3. ctx.fs = Fs /\ ctx.range = <<FSBeg, FSEnd>> /\ ctx.key = NumVols /\ ctx.maps = AllocatedRuns
    BY DEF Context
  <1> HIDE DEF ctx
  <1>4. pc = "fs"
    BY DEF ProcessFile
  <1>5. /\ img \in Images /\ NumVols \in FsIndexes(img)
        /\ Fs \in FsType /\ FSBeg \in Int /\ FSEnd \in Nat
        /\ Fs = FsOf(img, NumVols) /\ FSEnd = RangeEnd(img, NumVols)
        /\ Mapped(AllocatedRuns[NumVols], Fs, FSEnd)
    BY <1>4, FsAtHand
  <1>6. CASE HasMeta(f)
    <2>1. /\ f.meta.attrs \in Seq(AttrType)
          /\ AttrsWithin(Fs, FSEnd, f.meta.attrs) /\ AttrsCovered(Fs, f.meta.attrs, Int)
      BY <1>5, <1>6, EntryWithin
    <2>2. Mapped(ctx.maps[ctx.key], Fs, FSEnd)
      BY <1>3, <1>5
    <2>3. Grown(ctx.maps, AllocatedRuns', ctx.key, Fs, FSEnd, f.meta.addr, Int)
      BY <1>2, <1>3, <1>5, <2>1, <2>2, WriteFileGrows
    <2>4. f.meta.addr \in FileInums
      <3>1. f.meta # NoMeta
        BY <1>6 DEF HasMeta
      <3> QED BY <3>1, Zenon DEF FileInums
    <2> QED BY <1>3, <2>3, <2>4, Zenon DEF Grown, Grows
  <1>7. CASE ~HasMeta(f)
    <2>1. OneMap(ctx.maps, AllocatedRuns', ctx.key, ctx.maps[ctx.key])
      BY <1>2, <1>7, WriteFileMaps
    <2> QED BY <1>3, <2>1, Zenon
  <1> QED BY <1>6, <1>7

LEMMA ProcessFileComplete ==
    ASSUME BlocksWhole, TypeInv, SettingInv, MapsInv, FreshInv, RecordsInv, CompleteInv, ProcessFile
    PROVE  CompleteInv'
  <1>1. /\ pc = "fs" /\ pc' = "fs" /\ img' = img /\ NumVols' = NumVols
        /\ InUnallocated' = InUnallocated
    BY DEF ProcessFile, args, volume
  <1>2. ~InUnallocated
    BY <1>1 DEF SettingInv, FsInv
  <1>3. UnallocatedRecords' = {}
    <2>1. Calm
      BY ProcessFileRecords
    <2>2. UnallocatedRecords = {}
      BY <1>2, FirstWalkClean DEF TypeInv
    <2> QED BY <2>1, <2>2 DEF Calm
  <1>4. AheadInv'
    <2>1. PICK map : /\ OneMap(AllocatedRuns, AllocatedRuns', NumVols, map)
                     /\ \/ map = AllocatedRuns[NumVols]
                        \/ \E inum \in FileInums : Touches(AllocatedRuns[NumVols], map, inum, Int)
      BY ProcessFileGrown
    <2>2. NumVols \in DOMAIN AllocatedRuns
      BY <1>1, FsAtHand
    <2>3. ASSUME NEW k \in FsIndexes(img)
          PROVE  FilesOnly(mapOf(k))'
      <3>1. PICK old, new : old = mapOf(k) /\ new = mapOf(k)'
        OBVIOUS
      <3>2. FilesOnly(old)
        BY <1>2, <2>3, <3>1 DEF CompleteInv, AheadInv, Ahead
      <3>3. CASE k # NumVols
        <4>1. new = old
          BY <2>1, <3>1, <3>3, Zenon DEF OneMap, mapOf
        <4> QED BY <3>1, <3>2, <4>1, Zenon DEF FilesOnly, OfFiles
      <3>4. CASE k = NumVols
        <4>1. old = AllocatedRuns[NumVols] /\ new = map
          BY <2>1, <2>2, <3>1, <3>4, Zenon DEF OneMap, mapOf
        <4>2. FilesOnly(new)
          <5>1. CASE map = AllocatedRuns[NumVols]
            BY <3>2, <4>1, <5>1
          <5>2. ASSUME NEW inum \in FileInums, Touches(AllocatedRuns[NumVols], map, inum, Int)
                PROVE  FilesOnly(new)
            BY <3>2, <4>1, <5>2, FilesOnlyGrows
          <5> QED BY <2>1, <5>1, <5>2
        <4> QED BY <3>1, <4>2, Zenon DEF FilesOnly, OfFiles
      <3> QED BY <3>3, <3>4
    <2>4. FsIndexes(img)' = FsIndexes(img)
      BY <1>1
    <2> QED BY <2>3, <2>4, Zenon DEF AheadInv
  <1>5. ThroughInv'
    BY <1>1, <1>2 DEF ThroughInv, Through
  <1>6. InumsInv' /\ GapInv' /\ FillInv' /\ EndInv'
    BY <1>1, <1>3 DEF InumsInv, GapInv, FillInv, EndInv
  <1> QED BY <1>4, <1>5, <1>6 DEF CompleteInv

\* Where the second walk begins in a file system, all of its blocks lie ahead.
LEMMA FirstBlock ==
    ASSUME NEW fs \in FsType, fs.offset + fs.first * fs.bs < U64
    PROVE  (((fs.first * fs.bs + fs.offset) - fs.offset) % U64) \div fs.bs \in Int
           /\ (((fs.first * fs.bs + fs.offset) - fs.offset) % U64) \div fs.bs <= fs.first
  <1>1. fs.offset \in Nat /\ fs.bs \in Nat /\ fs.bs > 0 /\ fs.first \in Nat
    BY FsFields
  <1>2. PICK p \in Nat : p = fs.first * fs.bs
    BY <1>1
  <1>3. (p + fs.offset) - fs.offset = p
    BY <1>1
  <1>4. p % U64 = p
    <2>1. p < U64 /\ U64 \in Nat
      BY <1>1, <1>2, WordAssumption
    <2> QED BY <1>2, <2>1, Remainder
  <1>5. p \div fs.bs \in Nat /\ (p \div fs.bs) * fs.bs <= p
    BY <1>1, Quotient
  <1>6. PICK q \in Nat : q = p \div fs.bs
    BY <1>5
  <1>7. q * fs.bs < fs.first * fs.bs + fs.bs
    BY <1>1, <1>2, <1>5, <1>6
  <1>8. q <= fs.first
    BY <1>1, <1>7, Fewer
  <1> QED BY <1>2, <1>3, <1>4, <1>6, <1>8

LEMMA FilterFsUnallocatedComplete ==
    ASSUME BytesAddressed, TypeInv, SettingInv, RecordsInv, FreshInv, MapsInv, CompleteInv,
           SettingInv', FilterFsUnallocated
    PROVE  CompleteInv'
  <1>1. /\ pc' = "flush" /\ Fs' = FsHere /\ NumVols' = NumVols /\ img' = img
        /\ InUnallocated /\ InUnallocated' = InUnallocated
        /\ start' = FsHere.first * FsHere.bs + FsHere.offset
        /\ AtFs /\ FsHere # NoFs /\ erred' = erred
    BY DEF FilterFsUnallocated, setFsInfo, volume, args
  <1>2. PICK k, fs : k = NumVols /\ fs = FsHere
    OBVIOUS
  <1>3. k \in FsIndexes(img) /\ fs = FsOf(img, k)
    BY <1>1, <1>2, FsHereIs
  <1>4. img \in Images
    BY DEF TypeInv, ControlTyped
  <1>5. fs \in FsType /\ fs.first \in Nat /\ fs.last \in Nat
    BY <1>3, <1>4, FsOfTyped, FsFields
  <1>6. Calm
    BY FilterFsUnallocatedRecords
  <1>7. SameMapOf
    BY FolderMaps, WithMapSameMap
  <1>8. Preserves
    BY <1>1, <1>6, <1>7, CalmPreserves
  <1>9. ~AtFs'
    BY <1>1 DEF AtFs
  <1>10. AheadInv'
    <2>1. ASSUME NEW j \in FsIndexes(img), Ahead(j)'
          PROVE  Ahead(j)
      BY <1>1, <1>9, <2>1 DEF Ahead
    <2> QED BY <1>1, <1>7, <2>1, AheadKept DEF CompleteInv
  <1>11. ThroughInv'
    <2>1. ASSUME NEW j \in FsIndexes(img), Through(j)'
          PROVE  Through(j)
      BY <1>1, <2>1 DEF Through
    <2> QED BY <1>1, <1>6, <1>8, <2>1, CalmBegun, ThroughKept DEF CompleteInv, Left
  <1>12. InumsInv'
    BY <1>6, CalmInums DEF CompleteInv
  <1>13. AllBefore(NumVols, BlockOf(start))'
    <2>1. PICK c : c = (((fs.first * fs.bs + fs.offset) - fs.offset) % U64) \div fs.bs
      OBVIOUS
    <2>2. BlockOf(start)' = c
      <3>1. start' = fs.first * fs.bs + fs.offset /\ Fs' = fs
        BY <1>1, <1>2
      <3> QED BY <2>1, <3>1, Zenon DEF BlockOf
    <2>3. c \in Int /\ c <= fs.first
      <3>1. fs.offset + fs.first * fs.bs < U64
        BY <1>3, ImageAddressed
      <3> QED BY <1>5, <2>1, <3>1, FirstBlock
    <2>4. ASSUME NEW b \in fs.first .. fs.last - 1, b < c
          PROVE  FALSE
      BY <1>5, <2>3, <2>4
    <2>5. FsOf(img, NumVols)' = fs
      BY <1>1, <1>2, <1>3 DEF FsOf
    <2> QED BY <2>2, <2>4, <2>5, Zenon DEF AllBefore
  <1>14. FilesFrom(Map, nextFrag)'
    <2>1. PICK map : map = mapOf(k)
      OBVIOUS
    <2>2. FilesOnly(map)
      BY <1>1, <1>2, <1>3, <2>1 DEF CompleteInv, AheadInv, Ahead
    <2>3. Map' = map
      <3>1. NumVols' \in DOMAIN AllocatedRuns'
        BY <1>1 DEF SettingInv, FsInv
      <3>2. mapOf(k)' = map
        BY <1>3, <1>7, <2>1 DEF SameMapOf
      <3> QED BY <1>1, <1>2, <3>1, <3>2, Zenon DEF mapOf, Map
    <2> QED BY <2>2, <2>3, Zenon DEF FilesOnly, FilesFrom, OfFiles
  <1>15. GapInv' /\ FillInv' /\ EndInv'
    BY <1>1, <1>13, <1>14 DEF GapInv, FillInv, EndInv
  <1> QED BY <1>10, <1>11, <1>12, <1>15 DEF CompleteInv

LEMMA InitComplete == Init => CompleteInv
  <1> SUFFICES ASSUME Init
               PROVE  CompleteInv
    OBVIOUS
  <1>1. pc = "open" /\ InUnallocated = FALSE /\ AllocatedRuns = [k \in {} |-> NoRuns] /\ Out = <<>>
    BY DEF Init
  <1>2. AheadInv
    <2>1. \A k : mapOf(k) = NoRuns
      BY <1>1 DEF mapOf
    <2>2. DOMAIN NoRuns = {}
      BY DEF NoRuns
    <2> QED BY <2>1, <2>2 DEF AheadInv, FilesOnly
  <1>3. InumsInv
    BY <1>1 DEF InumsInv, UnallocatedRecords
  <1> QED BY <1>1, <1>2, <1>3 DEF CompleteInv, ThroughInv, Through, GapInv, FillInv, EndInv

LEMMA NextComplete ==
    ASSUME Premises, InodesKept, Faults = FALSE, UnallocatedInv, CompleteInv, [Next]_vars
    PROVE  CompleteInv'
  <1> USE DEF Premises
  <1>1. SettingInv'
    BY NextUnallocated DEF UnallocatedInv
  <1>2. /\ TypeInv /\ SettingInv /\ MapsInv /\ RecordsInv /\ FreshInv
        /\ FlushInv /\ FragmentInv
    BY DEF UnallocatedInv
  <1>3. AheadInv /\ ThroughInv /\ InumsInv /\ GapInv /\ FillInv
    BY DEF CompleteInv
  <1>4. CASE OpenImage
    BY <1>2, <1>4, OpenImageComplete
  <1>5. CASE StartUnallocated
    BY <1>2, <1>5, StartUnallocatedComplete
  <1>6. CASE FilterVol
    BY <1>2, <1>6, FilterVolComplete
  <1>7. CASE NoFilesystem
    BY <1>2, <1>7, NoFilesystemComplete
  <1>8. CASE FilterFs
    <2>1. /\ ~InUnallocated /\ InUnallocated' = InUnallocated /\ img' = img /\ pc' = "fs"
      BY <1>8 DEF FilterFs, args
    <2>2. Calm
      BY <1>2, <1>8, StillSteps, StillKeeps
    <2> QED BY <1>8, <2>1, <2>2, FilterFsSameMap, FirstWalkComplete
  <1>9. CASE WildPart
    <2>1. /\ ~InUnallocated /\ InUnallocated' = InUnallocated /\ img' = img /\ pc' = "crashed"
          /\ AllocatedRuns' = AllocatedRuns
      BY <1>9 DEF WildPart, args, results
    <2>2. Calm
      BY <1>2, <1>9, StillSteps, StillKeeps
    <2> QED BY <2>1, <2>2, SameRunsSameMap, FirstWalkComplete
  <1>10. CASE FilterFsUnallocated
    BY <1>1, <1>2, <1>10, FilterFsUnallocatedComplete
  <1>11. CASE ProcessFile
    BY <1>2, <1>11, ProcessFileComplete
  <1>12. CASE EndFs
    <2>1. /\ pc = "fs" /\ InUnallocated' = InUnallocated /\ img' = img /\ pc' = "walk"
          /\ AllocatedRuns' = AllocatedRuns
      BY <1>12 DEF EndFs, args, results
    <2>2. ~InUnallocated
      BY <1>2, <2>1 DEF SettingInv, FsInv
    <2>3. Calm
      BY <1>2, <1>12, StillSteps, StillKeeps
    <2> QED BY <2>1, <2>2, <2>3, SameRunsSameMap, FirstWalkComplete
  <1>13. ASSUME NextFragment \/ FragmentDone
         PROVE  CompleteInv'
    <2>1. /\ pc \in {"flush", "fragment"} /\ pc' \in {"flush", "fragment", "walk"} /\ img' = img
          /\ AllocatedRuns' = AllocatedRuns /\ NumVols' = NumVols /\ vol' = vol
          /\ InUnallocated' = InUnallocated /\ erred' = erred
      BY <1>13 DEF NextFragment, FragmentDone, NextExtent, args, walk, volume, results
    <2>2. Calm
      BY <1>2, <1>13, StillSteps, StillKeeps
    <2>3. SameMapOf
      BY <2>1, SameRunsSameMap
    <2>4. Preserves
      BY <2>1, <2>2, <2>3, CalmPreserves
    <2>5. ThroughInv' /\ GapInv' /\ FillInv'
      <3>1. \A k : Begun(k)' => Begun(k)
        BY <2>1, <2>2, CalmBegun
      <3> QED BY <1>2, <1>3, <1>13, <2>4, <3>1, NextFragmentFilled, FragmentDoneFilled
    <2>6. AheadInv'
      <3>1. Still
        BY <1>2, <1>13, StillSteps
      <3>2. ~AtFs'
        BY <3>1 DEF Still
      <3>3. ASSUME NEW k \in FsIndexes(img), Ahead(k)'
            PROVE  Ahead(k)
        BY <2>1, <3>2, <3>3 DEF Ahead
      <3> QED BY <1>3, <2>1, <2>3, <3>3, AheadKept
    <2>7. InumsInv'
      BY <1>3, <2>2, CalmInums
    <2>8. EndInv'
      BY <2>1 DEF EndInv
    <2> QED BY <2>5, <2>6, <2>7, <2>8 DEF CompleteInv
  <1>14. ASSUME FragmentBlock \/ FragmentPiece
         PROVE  CompleteInv'
    <2>1. pc' = pc /\ UNCHANGED <<nextFrag, blkEnd, erred>>
      BY <1>14 DEF FragmentBlock, FragmentPiece, walk
    <2>2. \E run : Emission(run) /\ AtMost(blk', blkEnd) = blk + run.len
      BY <1>2, <1>14, FragmentBlockEmission, FragmentPieceEmission
    <2> QED BY <1>2, <2>1, <2>2, EmissionComplete
  <1>15. CASE WalkFailed
    <2>1. /\ ~InUnallocated /\ InUnallocated' = InUnallocated /\ img' = img /\ pc' = "failed"
          /\ AllocatedRuns' = AllocatedRuns
      BY <1>15 DEF WalkFailed, args, results
    <2>2. Calm
      BY <1>2, <1>15, StillSteps, StillKeeps
    <2> QED BY <2>1, <2>2, SameRunsSameMap, FirstWalkComplete
  <1>16. CASE FinishWalk
    BY <1>2, <1>16, FinishWalkComplete
  <1>17. CASE OutputDiskMap \/ OutputInodeMap
    BY <1>2, <1>17, OutputComplete
  <1>18. CASE UNCHANGED vars
    <2>1. /\ UNCHANGED <<pc, img, vol, erred, NumVols, InUnallocated, Out>>
          /\ UNCHANGED <<Fs, AllocatedRuns, start, nextFrag, blk, blkEnd>>
      BY <1>18 DEF vars, args, walk, volume, fileSys, results, flush
    <2>2. /\ Calm /\ SameMapOf
      BY <2>1, SameOutCalm, SameRunsSameMap
    <2>3. Preserves
      BY <2>1, <2>2, CalmPreserves
    <2>4. ASSUME NEW k
          PROVE  (Ahead(k)' => Ahead(k)) /\ (Through(k)' => Through(k))
      BY <2>1 DEF Ahead, Through, AtFs
    <2>5. AheadInv' /\ ThroughInv' /\ InumsInv'
      <3>1. \A k \in FsIndexes(img) : Left(k)
        BY <2>1, <2>2, <2>4, CalmBegun DEF Left
      <3> QED BY <1>3, <2>1, <2>2, <2>3, <2>4, <3>1, AheadKept, ThroughKept, CalmInums
    <2>6. GapInv' /\ FillInv'
      <3>1. ASSUME NEW e, AllBefore(NumVols, e)
            PROVE  AllBefore(NumVols, e)'
        <4>1. \A b : HasFile(NumVols, b) => HasFile(NumVols, b)'
          BY <2>1, Zenon DEF HasFile, OfFiles, mapOf, BytesOf
        <4>2. \A b : HasEntry(NumVols, b) => HasEntry(NumVols, b)'
          BY <2>1, Zenon DEF HasEntry, UnallocatedRecords, BlocksOf
        <4> QED BY <2>1, <3>1, <4>1, <4>2, Zenon DEF AllBefore
      <3>2. nextFrag # EndIter /\ FilesFrom(Map, nextFrag) => FilesFrom(Map, nextFrag)'
        BY <2>1, Zenon DEF FilesFrom, OfFiles, Map
      <3>3. PICK c, d : c = BlockOf(start) /\ d = AtMost(blk, blkEnd)
        OBVIOUS
      <3>4. BlockOf(start)' = c /\ AtMost(blk, blkEnd)' = d
        BY <2>1, <3>3, Zenon DEF BlockOf, AtMost
      <3>5. GapInv'
        BY <1>3, <2>1, <3>1, <3>2, <3>3, <3>4 DEF GapInv
      <3>6. FillInv'
        BY <1>3, <2>1, <3>1, <3>2, <3>3, <3>4 DEF FillInv
      <3> QED BY <3>5, <3>6
    <2>7. EndInv'
      BY <2>1 DEF CompleteInv, EndInv
    <2> QED BY <2>5, <2>6, <2>7 DEF CompleteInv
  <1>19. CASE WalkError
    BY <1>2, <1>19, WalkErrorComplete
  <1> QED BY <1>4, <1>5, <1>6, <1>7, <1>8, <1>9, <1>10, <1>11, <1>12, <1>13, <1>14, <1>15, <1>16,
             <1>17, <1>18, <1>19 DEF Next, Terminated

LEMMA InvIsComplete == UnallocatedInv /\ CompleteInv => UnallocatedComplete
  <1> SUFFICES ASSUME UnallocatedInv, CompleteInv, pc \in {"maps", "inodes", "done"}, InUnallocated,
                      NEW k \in FsIndexes(img), ~erred \/ HasUnallocated(k),
                      NEW b \in FsOf(img, k).first .. FsOf(img, k).last - 1
               PROVE  \/ InUseByFile(k, FsOf(img, k), b)
                      \/ \E n \in UnallocatedRecords : Out[n].volIndex = k /\ b \in BlocksOf(Out[n])
    BY Zenon DEF UnallocatedComplete
  <1>1. img \in Images
    BY DEF UnallocatedInv, TypeInv, ControlTyped
  <1>2. FsOf(img, k) \in FsType /\ k \in Nat
    BY <1>1, FsOfTyped
  <1>3. FsOf(img, k).first \in Nat /\ FsOf(img, k).last \in Nat
    BY <1>2, FsFields
  <1>4. NumVols \in Nat
    BY <1>1 DEF UnallocatedInv, TypeInv, ControlTyped
  <1>5. Through(k) /\ Begun(k)
    <2>1. k <= NumVols
      <3>1. CASE ~erred
        BY <3>1 DEF CompleteInv, EndInv
      <3>2. CASE HasUnallocated(k)
        <4>1. PICK n \in UnallocatedRecords : Out[n].volIndex = k
          BY <3>2 DEF HasUnallocated
        <4> QED BY <4>1, AreEmitted DEF UnallocatedInv, TypeInv, Emitted
      <3> QED BY <3>1, <3>2
    <2> QED BY <1>2, <1>4, <2>1 DEF Through, Begun, AtFs
  <1>6. b < FsOf(img, k).last
    BY <1>3
  <1>7. HasFile(k, b) \/ HasEntry(k, b)
    BY <1>5, <1>6, Zenon DEF CompleteInv, ThroughInv, AllBefore
  <1>8. CASE HasFile(k, b)
    <2>1. PICK x \in BytesOf(FsOf(img, k), b) : x \in DOMAIN mapOf(k) /\ OfFiles(mapOf(k), x)
      BY <1>8, Zenon DEF HasFile
    <2>2. PICK i \in mapOf(k)[x] : i.Inum \in FileInums
      BY <2>1 DEF OfFiles
    <2>3. ASSUME NEW n \in UnallocatedRecords
          PROVE  Out[n].link # <<k, i.Inum>>
      <3>1. Out[n].link[2] # i.Inum
        BY <2>2, <2>3, Zenon DEF CompleteInv, InumsInv
      <3> QED BY <3>1
    <2> QED BY <2>1, <2>2, <2>3, Zenon DEF InUseByFile
  <1> QED BY <1>7, <1>8 DEF HasEntry

\* Between them, the files and the unallocated entries have every block of every file system
\* before the last one, once both walks are over (flushUnallocated): for all images, entries
\* and arguments, with the premises above, as long as no file has an inode number that an
\* entry might have, and no record gets lost.  libtsk may give up on the second walk at any
\* volume or file system, which startUnallocated does not look at: then this holds of each
\* file system that has an entry.
THEOREM EveryBlockAccounted ==
    ASSUME NamesKept, InodesKept, MaximumMeant, BytesAddressed, BlocksWhole, Faults = FALSE
    PROVE  Spec => []UnallocatedComplete
  <1>1. Init => UnallocatedInv /\ CompleteInv
    BY InitUnallocated, InitComplete
  <1>2. UnallocatedInv /\ CompleteInv /\ [Next]_vars => (UnallocatedInv /\ CompleteInv)'
    BY NextUnallocated, NextComplete DEF Premises
  <1> QED BY <1>1, <1>2, InvIsComplete, PTL DEF Spec

-----------------------------------------------------------------------------
(***************************************************************************)
(* Who has the bytes of the maps, and so which blocks files have, is       *)
(* settled once entries are written.                                       *)
(***************************************************************************)
HasOwner(k, inum) ==
    inum \in FileInums \/ \E n \in UnallocatedRecords : Out[n].link = <<k, inum>>

OwnersInv ==
    \A k \in FsIndexes(img) : \A x \in DOMAIN mapOf(k) : \A i \in mapOf(k)[x] : HasOwner(k, i.Inum)

LEMMA InitOwners == Init => OwnersInv
  <1> SUFFICES ASSUME Init, NEW k
               PROVE  DOMAIN mapOf(k) = {}
    BY Zenon DEF OwnersInv
  <1>1. k \notin DOMAIN AllocatedRuns
    BY DEF Init
  <1> QED BY <1>1 DEF mapOf, NoRuns

\* The steps that neither emit an entry nor process a file.
LEMMA CalmSteps ==
    ASSUME UnallocatedInv, [Next]_vars, ~ProcessFile, ~FragmentBlock, ~FragmentPiece
    PROVE  Calm /\ SameMapOf /\ img' = img
  <1>1. TypeInv /\ SettingInv /\ RecordsInv /\ FreshInv
    BY DEF UnallocatedInv
  <1>2. ASSUME Out' = Out, AllocatedRuns' = AllocatedRuns, img' = img
        PROVE  Calm /\ SameMapOf /\ img' = img
    BY <1>2, SameOutCalm, SameRunsSameMap
  <1>3. CASE OpenImage
    BY <1>2, <1>3 DEF OpenImage, results, args
  <1>4. CASE FilterVol
    BY <1>1, <1>4, FilterVolRecords, FilterVolSameMap DEF Onward, args
  <1>5. CASE NoFilesystem
    BY <1>2, <1>5 DEF NoFilesystem, results, args
  <1>6. CASE FilterFs
    <2>1. Still
      BY <1>1, <1>6, StillSteps
    <2> QED BY <1>1, <1>6, <2>1, StillKeeps, FilterFsSameMap DEF Still, args
  <1>7. CASE WildPart
    BY <1>2, <1>7 DEF WildPart, results, args
  <1>8. CASE FilterFsUnallocated
    BY <1>1, <1>8, FilterFsUnallocatedRecords, FolderMaps, WithMapSameMap DEF Onward, args
  <1>9. CASE EndFs
    BY <1>2, <1>9 DEF EndFs, results, args
  <1>10. CASE NextFragment
    BY <1>2, <1>10 DEF NextFragment, results, args
  <1>11. CASE FragmentDone
    BY <1>2, <1>11 DEF FragmentDone, results, args
  <1>12. CASE WalkFailed
    BY <1>2, <1>12 DEF WalkFailed, results, args
  <1>13. CASE StartUnallocated
    BY <1>2, <1>13 DEF StartUnallocated, results, args
  <1>14. CASE FinishWalk
    BY <1>2, <1>14 DEF FinishWalk, results, args
  <1>15. CASE OutputDiskMap
    BY <1>2, <1>15 DEF OutputDiskMap, args
  <1>16. CASE OutputInodeMap
    BY <1>2, <1>16 DEF OutputInodeMap, results, args
  <1>17. CASE UNCHANGED vars
    BY <1>2, <1>17 DEF vars, results, args
  <1>18. CASE WalkError
    BY <1>2, <1>18 DEF WalkError, results, args
  <1> QED BY <1>3, <1>4, <1>5, <1>6, <1>7, <1>8, <1>9, <1>10, <1>11, <1>12, <1>13, <1>14, <1>15,
             <1>16, <1>17, <1>18 DEF Next, Terminated

\* A file is processed in the first walk, before any entry is written.
LEMMA ProcessFileFirst ==
    ASSUME UnallocatedInv, ProcessFile
    PROVE  /\ ~InUnallocated /\ InUnallocated' = InUnallocated /\ img' = img
           /\ UnallocatedRecords = {} /\ UnallocatedRecords' = {}
  <1>1. TypeInv /\ SettingInv /\ RecordsInv /\ FreshInv
    BY DEF UnallocatedInv
  <1>2. pc = "fs" /\ InUnallocated' = InUnallocated /\ img' = img
    BY DEF ProcessFile, args
  <1>3. ~InUnallocated
    BY <1>1, <1>2 DEF SettingInv, FsInv
  <1>4. Calm
    BY <1>1, ProcessFileRecords
  <1>5. UnallocatedRecords = {}
    BY <1>1, <1>3, FirstWalkClean DEF TypeInv
  <1> QED BY <1>2, <1>3, <1>4, <1>5 DEF Calm

LEMMA CalmOwners ==
    ASSUME OwnersInv, Calm, SameMapOf, img' = img
    PROVE  OwnersInv'
  <1>1. ASSUME NEW k \in FsIndexes(img), NEW x \in DOMAIN mapOf(k)', NEW i \in mapOf(k)'[x]
        PROVE  HasOwner(k, i.Inum)'
    <2>1. mapOf(k)' = mapOf(k)
      BY DEF SameMapOf
    <2>2. HasOwner(k, i.Inum)
      BY <1>1, <2>1, Zenon DEF OwnersInv
    <2> QED BY <2>2, Zenon DEF Calm, HasOwner
  <1>2. FsIndexes(img)' = FsIndexes(img)
    OBVIOUS
  <1> QED BY <1>1, <1>2, Zenon DEF OwnersInv

\* The entry of run is the owner of what run adds.
LEMMA EmissionOwners ==
    ASSUME Faults = FALSE, UnallocatedInv, OwnersInv, NEW run, Emission(run)
    PROVE  OwnersInv'
  <1>1. TypeInv /\ SettingInv /\ MapsInv /\ FragmentInv /\ ResultsTyped
    BY DEF UnallocatedInv, TypeInv
  <1>2. Emits(run) /\ img' = img
    BY DEF Emission, args
  <1>3. /\ NumVols \in DOMAIN AllocatedRuns /\ NumVols \in DOMAIN AllocatedRuns'
        /\ NewMap(AllocatedRuns'[NumVols], run)
        /\ \A k : k # NumVols => mapOf(k)' = mapOf(k)
    BY <1>1, EmissionMap
  <1>4. \A n \in UnallocatedRecords : n \in UnallocatedRecords' /\ Out'[n] = Out[n]
    BY <1>1, EmissionPreserves DEF Preserves
  <1>5. \E n \in UnallocatedRecords' : Out'[n].link = <<NumVols, NoLimit - run.addr>>
    BY <1>1, <1>2, EmissionAdds, Zenon DEF OfRun
  <1>6. ASSUME NEW k, NEW inum, HasOwner(k, inum)
        PROVE  HasOwner(k, inum)'
    BY <1>4, <1>6, Zenon DEF HasOwner
  <1>7. ASSUME NEW k \in FsIndexes(img), NEW x \in DOMAIN mapOf(k)', NEW i \in mapOf(k)'[x]
        PROVE  HasOwner(k, i.Inum)'
    <2>1. CASE k # NumVols
      BY <1>3, <1>6, <1>7, <2>1, Zenon DEF OwnersInv
    <2>2. CASE k = NumVols
      <3>1. PICK old, new : old = Map /\ new = AllocatedRuns'[NumVols]
        OBVIOUS
      <3>2. mapOf(k) = old /\ mapOf(k)' = new
        BY <1>3, <2>2, <3>1, Zenon DEF mapOf, Map
      <3>3. CASE x \in RunBytesOf(Fs, run)
        <4>1. i.Inum = NoLimit - run.addr
          BY <1>3, <1>7, <3>1, <3>2, <3>3, Zenon DEF NewMap
        <4> QED BY <1>5, <2>2, <4>1, Zenon DEF HasOwner
      <3>4. CASE x \notin RunBytesOf(Fs, run)
        <4>1. x \in DOMAIN old /\ i \in old[x]
          BY <1>3, <1>7, <3>1, <3>2, <3>4, Zenon DEF NewMap
        <4>2. HasOwner(k, i.Inum)
          BY <3>2, <4>1, Zenon DEF OwnersInv
        <4> QED BY <1>6, <4>2
      <3> QED BY <3>3, <3>4
    <2> QED BY <2>1, <2>2
  <1>8. FsIndexes(img)' = FsIndexes(img)
    BY <1>2
  <1> QED BY <1>7, <1>8, Zenon DEF OwnersInv

LEMMA NextOwners ==
    ASSUME Premises, Faults = FALSE, UnallocatedInv, OwnersInv, CompleteInv', [Next]_vars
    PROVE  OwnersInv'
  <1>1. CASE ProcessFile
    <2>1. ~InUnallocated'
      BY <1>1, ProcessFileFirst
    <2>2. \A k \in FsIndexes(img)' : FilesOnly(mapOf(k))'
      BY <2>1, Zenon DEF CompleteInv, AheadInv, Ahead
    <2> QED BY <2>2, Zenon DEF OwnersInv, HasOwner, FilesOnly, OfFiles
  <1>2. CASE FragmentBlock \/ FragmentPiece
    <2>1. \E run : Emission(run)
      BY <1>2, FragmentBlockEmission, FragmentPieceEmission DEF UnallocatedInv, Premises
    <2> QED BY <2>1, EmissionOwners
  <1>3. CASE ~ProcessFile /\ ~FragmentBlock /\ ~FragmentPiece
    BY <1>3, CalmSteps, CalmOwners
  <1> QED BY <1>1, <1>2, <1>3

-----------------------------------------------------------------------------
(***************************************************************************)
(* Every step is one of FreeBlocks, or changes nothing that it sees.       *)
(***************************************************************************)
LEMMA BlocksIn ==
    ASSUME NEW i, NEW p \in AllBlocks(i)
    PROVE  p[1] \in FsIndexes(i)
  <1>1. PICK k \in FsIndexes(i) : p \in {k} \X (FsOf(i, k).first .. FsOf(i, k).last)
    BY DEF AllBlocks
  <1> QED BY <1>1

\* The same blocks as before have files.
SameUse ==
    /\ img' = img
    /\ \A k \in FsIndexes(img) : \A fs, b : InUseByFile(k, fs, b)' <=> InUseByFile(k, fs, b)

LEMMA SameUsed ==
    ASSUME SameUse
    PROVE  usedBar' = usedBar
  <1>1. img' = img
    BY DEF SameUse
  <1> DEFINE Use(k, b) == InUseByFile(k, FsOf(img, k), b)
  <1>2. ASSUME NEW k \in FsIndexes(img), NEW b
        PROVE  Use(k, b)' <=> Use(k, b)
    <2>1. PICK fs : fs = FsOf(img, k)
      OBVIOUS
    <2>2. FsOf(img, k)' = fs
      BY <1>1, <2>1
    <2>3. InUseByFile(k, fs, b)' <=> InUseByFile(k, fs, b)
      BY DEF SameUse
    <2> QED BY <2>1, <2>2, <2>3, Zenon DEF InUseByFile, BytesOf
  <1>3. AllBlocks(img)' = AllBlocks(img)
    BY <1>1
  <1>4. /\ usedBar = {p \in AllBlocks(img) : Use(p[1], p[2])}
        /\ usedBar' = {p \in AllBlocks(img)' : Use(p[1], p[2])'}
    BY Zenon DEF usedBar
  <1> HIDE DEF Use
  <1> QED BY <1>2, <1>3, <1>4, BlocksIn

LEMMA CalmStutters ==
    ASSUME Calm, SameMapOf, img' = img
    PROVE  UNCHANGED Blocks!vars
  <1>1. ASSUME NEW k \in FsIndexes(img), NEW fs, NEW b
        PROVE  InUseByFile(k, fs, b)' <=> InUseByFile(k, fs, b)
    <2>1. mapOf(k)' = mapOf(k)
      BY DEF SameMapOf
    <2> QED BY <2>1, Zenon DEF Calm, InUseByFile, BytesOf
  <1>2. usedBar' = usedBar
    BY <1>1, SameUsed DEF SameUse
  <1>3. givenBar' = givenBar
    BY Zenon DEF Calm, givenBar, EntryBlocks, BlocksOf
  <1> QED BY <1>2, <1>3 DEF Blocks!vars

\* A file takes blocks, and none from another.
LEMMA ProcessFileUses ==
    ASSUME BlocksWhole, UnallocatedInv, ProcessFile
    PROVE  Blocks!Use
  <1>1. TypeInv /\ SettingInv /\ MapsInv
    BY DEF UnallocatedInv
  <1>2. /\ UnallocatedRecords = {} /\ UnallocatedRecords' = {}
        /\ img' = img
    BY ProcessFileFirst
  <1>3. PICK map : /\ OneMap(AllocatedRuns, AllocatedRuns', NumVols, map)
                   /\ \/ map = AllocatedRuns[NumVols]
                      \/ \E inum \in FileInums : Touches(AllocatedRuns[NumVols], map, inum, Int)
    BY <1>1, ProcessFileGrown
  <1>4. NumVols \in DOMAIN AllocatedRuns
    <2>1. pc = "fs"
      BY DEF ProcessFile
    <2> QED BY <1>1, <2>1, FsAtHand
  <1>5. ASSUME NEW k, NEW x \in DOMAIN mapOf(k), NEW i \in mapOf(k)[x]
        PROVE  x \in DOMAIN mapOf(k)' /\ mapOf(k)'[x] # {}
    <2>1. CASE k # NumVols
      <3>1. mapOf(k)' = mapOf(k)
        BY <1>3, <2>1, Zenon DEF OneMap, mapOf
      <3> QED BY <1>5, <3>1
    <2>2. CASE k = NumVols
      <3>1. PICK old, new : old = AllocatedRuns[NumVols] /\ new = AllocatedRuns'[NumVols]
        OBVIOUS
      <3>2. mapOf(k) = old /\ mapOf(k)' = new /\ new = map
        BY <1>3, <1>4, <2>2, <3>1, Zenon DEF OneMap, mapOf
      <3>3. CASE map = AllocatedRuns[NumVols]
        BY <1>5, <3>1, <3>2, <3>3
      <3>4. ASSUME NEW inum, Touches(old, map, inum, Int)
            PROVE  x \in DOMAIN new /\ new[x] # {}
        BY <1>5, <3>2, <3>4, Zenon DEF Touches
      <3> QED BY <1>3, <3>1, <3>2, <3>3, <3>4, Zenon
    <2> QED BY <2>1, <2>2
  <1>6. ASSUME NEW k, NEW fs, NEW b, InUseByFile(k, fs, b)
        PROVE  InUseByFile(k, fs, b)'
    <2>1. PICK x \in BytesOf(fs, b) : x \in DOMAIN mapOf(k) /\ mapOf(k)[x] # {}
      BY <1>6, Zenon DEF InUseByFile
    <2>2. x \in DOMAIN mapOf(k)' /\ mapOf(k)'[x] # {}
      BY <1>5, <2>1
    <2> QED BY <1>2, <2>1, <2>2, Zenon DEF InUseByFile, BytesOf
  <1>7. usedBar \subseteq usedBar'
    <2>1. ASSUME NEW p \in AllBlocks(img), InUseByFile(p[1], FsOf(img, p[1]), p[2])
          PROVE  InUseByFile(p[1], FsOf(img, p[1]), p[2])'
      <3>1. PICK k, fs, b : k = p[1] /\ fs = FsOf(img, k) /\ b = p[2]
        OBVIOUS
      <3>2. InUseByFile(k, fs, b)'
        BY <1>6, <2>1, <3>1, Zenon
      <3>3. FsOf(img, k)' = fs
        BY <1>2, <3>1
      <3> QED BY <3>1, <3>2, <3>3, Zenon DEF InUseByFile, BytesOf
    <2>2. AllBlocks(img)' = AllBlocks(img)
      BY <1>2
    <2> QED BY <2>1, <2>2, Zenon DEF usedBar
  <1>8. givenBar = {} /\ givenBar' = {}
    BY <1>2 DEF givenBar
  <1> QED BY <1>7, <1>8 DEF Blocks!Use

\* The owners decide that an entry takes no block from a file, nor makes one a file's.
LEMMA EmissionUse ==
    ASSUME InodesKept, Faults = FALSE, UnallocatedInv, CompleteInv, OwnersInv,
           NEW run, Emission(run)
    PROVE  SameUse
  <1>1. TypeInv /\ SettingInv /\ MapsInv /\ FragmentInv /\ ResultsTyped /\ FillInv /\ InumsInv
    BY DEF UnallocatedInv, CompleteInv, TypeInv
  <1>2. Emits(run) /\ img' = img
    BY DEF Emission, args
  <1>3. /\ NumVols \in DOMAIN AllocatedRuns /\ NumVols \in DOMAIN AllocatedRuns'
        /\ NewMap(AllocatedRuns'[NumVols], run)
        /\ \A k : k # NumVols => mapOf(k)' = mapOf(k)
    BY <1>1, EmissionMap
  <1>4. \A n \in UnallocatedRecords : n \in UnallocatedRecords' /\ Out'[n] = Out[n]
    BY <1>1, EmissionPreserves DEF Preserves
  <1>5. PICK inum : inum = NoLimit - run.addr
    OBVIOUS
  <1>6. \A n \in UnallocatedRecords' : Older(n) \/ Out'[n].link = <<NumVols, inum>>
    BY <1>1, <1>2, <1>5, EmissionEntries, Zenon DEF Newer, OfRun
  <1>7. PICK new \in UnallocatedRecords' : Out'[new].link = <<NumVols, inum>>
    BY <1>1, <1>2, <1>5, EmissionAdds, Zenon DEF OfRun
  <1>8. inum \notin FileInums
    <2>1. InumsInv'
      BY <1>1, EmissionInums
    <2>2. Out'[new].link[2] = inum
      BY <1>7
    <2> QED BY <1>7, <2>1, <2>2, Zenon DEF InumsInv
  <1> DEFINE FilesOwn(k, j) == \A n \in UnallocatedRecords : Out[n].link # <<k, j>>
  <1>9. ASSUME NEW k \in FsIndexes(img), NEW x \in DOMAIN mapOf(k), NEW i \in mapOf(k)[x],
               FilesOwn(k, i.Inum)
        PROVE  FilesOwn(k, i.Inum)'
    <2>1. i.Inum \in FileInums
      BY <1>9, Zenon DEF OwnersInv, HasOwner
    <2>2. <<k, i.Inum>> # <<NumVols, inum>>
      BY <1>8, <2>1
    <2> QED BY <1>6, <1>9, <2>2, Zenon DEF Older
  <1>10. ASSUME NEW k, NEW j, FilesOwn(k, j)'
         PROVE  FilesOwn(k, j) /\ <<k, j>> # <<NumVols, inum>>
    BY <1>4, <1>7, <1>10, Zenon
  <1>11. ASSUME NEW k \in FsIndexes(img), NEW x, NEW i, FilesOwn(k, i.Inum)'
         PROVE  (x \in DOMAIN mapOf(k)' /\ i \in mapOf(k)'[x])
                    => (x \in DOMAIN mapOf(k) /\ i \in mapOf(k)[x])
    <2>1. CASE k # NumVols
      BY <1>3, <2>1, Zenon
    <2>2. CASE k = NumVols
      <3>1. PICK old, fresh : old = Map /\ fresh = AllocatedRuns'[NumVols]
        OBVIOUS
      <3>2. mapOf(k) = old /\ mapOf(k)' = fresh
        BY <1>3, <2>2, <3>1, Zenon DEF mapOf, Map
      <3>3. i.Inum # inum
        BY <1>10, <1>11, <2>2, Zenon
      <3> QED BY <1>3, <1>5, <3>1, <3>2, <3>3, Zenon DEF NewMap
    <2> QED BY <2>1, <2>2
  <1>12. ASSUME NEW k \in FsIndexes(img), NEW x, NEW i, x \in DOMAIN mapOf(k), i \in mapOf(k)[x]
         PROVE  x \in DOMAIN mapOf(k)' /\ i \in mapOf(k)'[x]
    BY <1>1, <1>12, EmissionPreserves, Zenon DEF Preserves, KeepsMap
  <1>13. ASSUME NEW k, NEW fs, NEW b
         PROVE  InUseByFile(k, fs, b) <=>
                    \E x \in BytesOf(fs, b) : \E i :
                        x \in DOMAIN mapOf(k) /\ i \in mapOf(k)[x] /\ FilesOwn(k, i.Inum)
    BY Zenon DEF InUseByFile
  <1>14. ASSUME NEW k, NEW fs, NEW b
         PROVE  InUseByFile(k, fs, b)' <=>
                    \E x \in BytesOf(fs, b) : \E i :
                        x \in DOMAIN mapOf(k)' /\ i \in mapOf(k)'[x] /\ FilesOwn(k, i.Inum)'
    BY Zenon DEF InUseByFile, BytesOf
  <1> HIDE DEF FilesOwn
  <1>15. ASSUME NEW k \in FsIndexes(img), NEW fs, NEW b
         PROVE  InUseByFile(k, fs, b)' <=> InUseByFile(k, fs, b)
    BY <1>9, <1>10, <1>11, <1>12, <1>13, <1>14, Zenon
  <1> QED BY <1>2, <1>15 DEF SameUse

\* The blocks of a run.
RunBlocks(k, run) == {k} \X (run.addr .. run.addr + run.len - 1)

LEMMA RunConsecutive ==
    ASSUME NEW k, NEW run \in RunType, run.len > 0
    PROVE  RunBlocks(k, run) # {} /\ Blocks!Consecutive(RunBlocks(k, run))
  <1>1. PICK a, b : a = run.addr /\ b = run.addr + run.len - 1
    OBVIOUS
  <1>2. a \in Int /\ b \in Int /\ a <= b
    BY <1>1 DEF RunType
  <1>3. RunBlocks(k, run) = {k} \X (a .. b)
    BY <1>1 DEF RunBlocks
  <1>4. <<k, a>> \in {k} \X (a .. b)
    BY <1>2
  <1>5. ASSUME NEW x \in {k} \X (a .. b), NEW y \in {k} \X (a .. b)
        PROVE  x[1] = y[1] /\ {x[1]} \X (x[2] .. y[2]) \subseteq {k} \X (a .. b)
    <2>1. x[1] = k /\ y[1] = k /\ x[2] \in a .. b /\ y[2] \in a .. b
      OBVIOUS
    <2>2. x[2] .. y[2] \subseteq a .. b
      BY <1>2, <2>1
    <2> QED BY <2>1, <2>2
  <1> QED BY <1>3, <1>4, <1>5, Zenon DEF Blocks!Consecutive

\* What an emission hands out.
LEMMA EmissionGiven ==
    ASSUME Faults = FALSE, UnallocatedInv, NEW run, Emission(run), NEW e,
           e = <<Len(Out) + 1, RunBlocks(NumVols, run)>>
    PROVE  e \notin givenBar /\ givenBar' = givenBar \cup {e}
  <1>1. TypeInv /\ SettingInv /\ MapsInv /\ FragmentInv /\ ResultsTyped /\ Emits(run)
    BY DEF UnallocatedInv, TypeInv, Emission
  <1>2. PICK N : N = Len(Out) + 1
    OBVIOUS
  <1>3. \A n \in UnallocatedRecords : n \in UnallocatedRecords' /\ Out'[n] = Out[n]
    BY <1>1, EmissionPreserves DEF Preserves
  <1>4. \A n \in UnallocatedRecords' : n = N \/ (n \in UnallocatedRecords /\ Out'[n] = Out[n])
    BY <1>1, <1>2, EmissionEntries DEF Older, Newer
  <1>5. N \in UnallocatedRecords' /\ OfRun(Out'[N], run, NumVols, Fs)
    BY <1>1, <1>2, EmissionAdds
  <1>6. N \notin UnallocatedRecords
    <2>1. PICK S : Out \in Seq(S)
      BY <1>1 DEF ResultsTyped
    <2>2. N \notin DOMAIN Out
      BY <1>2, <2>1
    <2> QED BY <2>2 DEF UnallocatedRecords
  <1>7. EntryBlocks(Out'[N]) = RunBlocks(NumVols, run)
    <2>1. Out'[N].volIndex = NumVols /\ RunOf(Out'[N]) = run
      BY <1>5 DEF OfRun
    <2> QED BY <2>1, Zenon DEF EntryBlocks, BlocksOf, RunOf, RunBlocks
  <1>8. e = <<N, EntryBlocks(Out'[N])>>
    BY <1>2, <1>7
  <1> DEFINE Entry(n, r) == <<n, EntryBlocks(r)>>
  <1>9. givenBar = {Entry(n, Out[n]) : n \in UnallocatedRecords}
    BY DEF givenBar
  <1>10. givenBar' = {Entry(n, Out'[n]) : n \in UnallocatedRecords'}
    BY Zenon DEF givenBar, EntryBlocks, BlocksOf
  <1>11. \A n, m, r, q : Entry(n, r) = Entry(m, q) => n = m
    OBVIOUS
  <1>12. e = Entry(N, Out'[N])
    BY <1>8
  <1> HIDE DEF Entry
  <1>13. e \notin givenBar
    BY <1>6, <1>9, <1>11, <1>12, Zenon
  <1>14. givenBar' = givenBar \cup {e}
    BY <1>3, <1>4, <1>5, <1>9, <1>10, <1>12, Zenon
  <1> QED BY <1>13, <1>14

\* The blocks at hand are behind the entries', and no file has them.
LEMMA EmissionFree ==
    ASSUME UnallocatedInv, NEW run, Emission(run)
    PROVE  /\ RunBlocks(NumVols, run) \cap usedBar = {}
           /\ \A d \in givenBar : Blocks!Ascend(d[2], RunBlocks(NumVols, run))
  <1>1. /\ TypeInv /\ SettingInv /\ MapsInv /\ FragmentInv /\ ResultsTyped /\ RecordsInv
        /\ pc = "fragment" /\ AtHand(run)
    BY DEF UnallocatedInv, TypeInv, Emission
  <1>2. /\ run.addr \in Nat /\ run.len \in Nat /\ blk \in Nat /\ blkEnd \in Nat
        /\ Behind(blk) /\ run.addr = blk /\ Unmapped(Map, Fs, blk, blkEnd)
    BY <1>1, RunAtHand
  <1>3. /\ Fs = FsOf(img, NumVols) /\ Fs \in FsType /\ mapOf(NumVols) = Map
    BY <1>1, MapAtHand
  <1>4. run \in RunType /\ run.addr + run.len <= blkEnd
    BY <1>1, <1>2 DEF AtHand
  <1>5. ASSUME NEW y \in RunBlocks(NumVols, run)
        PROVE  y[1] = NumVols /\ y[2] \in run.addr .. run.addr + run.len - 1
    BY DEF RunBlocks
  <1>6. ASSUME NEW y \in RunBlocks(NumVols, run), y \in usedBar
        PROVE  FALSE
    <2>1. PICK b \in run.addr .. run.addr + run.len - 1 : b = y[2]
      BY <1>5
    <2>2. InUseByFile(NumVols, Fs, b)
      <3>1. InUseByFile(y[1], FsOf(img, y[1]), y[2])
        BY <1>6, Zenon DEF usedBar
      <3>2. y[1] = NumVols
        BY <1>5
      <3> QED BY <1>3, <2>1, <3>1, <3>2, Zenon
    <2>3. PICK x \in BytesOf(Fs, b) : x \in DOMAIN Map
      BY <1>3, <2>2, Zenon DEF InUseByFile
    <2>4. x \in BytesFrom(Fs, run.addr, run.addr + run.len)
      BY <1>3, <1>4, BlockInRun DEF RunBytesOf
    <2>5. x \in BytesFrom(Fs, blk, blkEnd)
      <3>1. blk <= run.addr /\ run.addr + run.len \in Nat
        BY <1>2
      <3> QED BY <1>2, <1>3, <1>4, <2>4, <3>1, BytesMore
    <2> QED BY <1>2, <2>3, <2>5 DEF Unmapped
  <1>7. ASSUME NEW n \in UnallocatedRecords, NEW x \in EntryBlocks(Out[n]),
               NEW y \in RunBlocks(NumVols, run), x[1] = y[1]
        PROVE  x[2] < y[2]
    <2>1. PICK r, q : r = Out[n] /\ q = RunOf(r)
      OBVIOUS
    <2>2. EntryBlocks(r) = {r.volIndex} \X (q.addr .. q.addr + q.len - 1)
      BY <2>1, Zenon DEF EntryBlocks, BlocksOf, RunOf
    <2>3. x[1] = r.volIndex /\ x[2] \in q.addr .. q.addr + q.len - 1
      BY <1>7, <2>1, <2>2
    <2>4. y[1] = NumVols /\ y[2] \in run.addr .. run.addr + run.len - 1
      BY <1>5
    <2>5. q.addr + q.len <= blk
      BY <1>2, <1>7, <2>1, <2>3, <2>4, Zenon DEF Behind
    <2>6. q \in RunType
      BY <1>1, <2>1, AreEmitted DEF Emitted
    <2>7. q.addr \in Nat /\ q.len \in Nat
      BY <2>6 DEF RunType
    <2> QED BY <1>2, <2>3, <2>4, <2>5, <2>7
  <1>8. ASSUME NEW d \in givenBar
        PROVE  Blocks!Ascend(d[2], RunBlocks(NumVols, run))
    <2>1. PICK n \in UnallocatedRecords : d = <<n, EntryBlocks(Out[n])>>
      BY DEF givenBar
    <2>2. d[2] = EntryBlocks(Out[n])
      BY <2>1
    <2> QED BY <1>7, <2>2, Zenon DEF Blocks!Ascend
  <1> QED BY <1>6, <1>8

LEMMA EmissionHandsOut ==
    ASSUME InodesKept, Faults = FALSE, UnallocatedInv, CompleteInv, OwnersInv,
           NEW run, Emission(run)
    PROVE  Blocks!HandOut
  <1>1. PICK S : S = RunBlocks(NumVols, run)
    OBVIOUS
  <1>2. PICK e : e = <<Len(Out) + 1, S>>
    OBVIOUS
  <1>3. e \notin givenBar /\ givenBar' = givenBar \cup {e}
    BY <1>1, <1>2, EmissionGiven
  <1>4. usedBar' = usedBar
    BY EmissionUse, SameUsed
  <1>5. S \cap usedBar = {} /\ \A d \in givenBar : Blocks!Ascend(d[2], S)
    BY <1>1, EmissionFree
  <1>6. S # {} /\ Blocks!Consecutive(S)
    <2>1. run \in RunType /\ run.len > 0
      BY DEF Emission, AtHand
    <2> QED BY <1>1, <2>1, RunConsecutive
  <1>7. e[2] = S
    BY <1>2
  <1> QED BY <1>3, <1>4, <1>5, <1>6, <1>7, Zenon DEF Blocks!HandOut

LEMMA NextBlocks ==
    ASSUME Premises, InodesKept, Faults = FALSE, UnallocatedInv, CompleteInv, OwnersInv,
           [Next]_vars
    PROVE  [Blocks!Use \/ Blocks!HandOut]_(Blocks!vars)
  <1>1. CASE ProcessFile
    BY <1>1, ProcessFileUses DEF Premises
  <1>2. CASE FragmentBlock \/ FragmentPiece
    <2>1. \E run : Emission(run)
      BY <1>2, FragmentBlockEmission, FragmentPieceEmission DEF UnallocatedInv, Premises
    <2> QED BY <2>1, EmissionHandsOut
  <1>3. CASE ~ProcessFile /\ ~FragmentBlock /\ ~FragmentPiece
    BY <1>3, CalmSteps, CalmStutters
  <1> QED BY <1>1, <1>2, <1>3

LEMMA InitBlocks == Init => Blocks!Init
  <1> SUFFICES ASSUME Init
               PROVE  usedBar = {} /\ givenBar = {}
    BY DEF Blocks!Init
  <1>1. UnallocatedRecords = {}
    BY DEF Init, UnallocatedRecords
  <1>2. ASSUME NEW k
        PROVE  DOMAIN mapOf(k) = {}
    BY DEF Init, mapOf, NoRuns
  <1>3. ASSUME NEW p \in usedBar
        PROVE  FALSE
    <2>1. InUseByFile(p[1], FsOf(img, p[1]), p[2])
      BY DEF usedBar
    <2> QED BY <1>2, <2>1, Zenon DEF InUseByFile
  <1> QED BY <1>1, <1>3 DEF givenBar

\* The second walk (flushUnallocated and processUnallocatedFragment) implements FreeBlocks:
\* from the first unallocated entry on, no block becomes a file's or ceases to be one, and
\* entries go on getting blocks that no file has, further on than any before in their file
\* system, however the gaps between the files lie and entries are filed in the maps; with
\* the premises of EveryBlockAccounted.
THEOREM SecondWalkHandsOutOnce ==
    ASSUME NamesKept, InodesKept, MaximumMeant, BytesAddressed, BlocksWhole, Faults = FALSE
    PROVE  Spec => HandsOutOnce
  <1>1. Premises
    BY DEF Premises
  <1>2. Init => UnallocatedInv /\ CompleteInv /\ OwnersInv /\ Blocks!Init
    BY InitUnallocated, InitComplete, InitOwners, InitBlocks
  <1>3. UnallocatedInv /\ CompleteInv /\ OwnersInv /\ [Next]_vars
            => (UnallocatedInv /\ CompleteInv /\ OwnersInv)'
    BY <1>1, NextUnallocated, NextComplete, NextOwners
  <1>4. UnallocatedInv /\ CompleteInv /\ OwnersInv /\ [Next]_vars
            => [Blocks!Use \/ Blocks!HandOut]_(Blocks!vars)
    BY <1>1, NextBlocks
  <1> QED BY <1>2, <1>3, <1>4, PTL DEF Spec, HandsOutOnce, Blocks!Spec
=============================================================================
