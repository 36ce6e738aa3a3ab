-------------------------- MODULE InodeRuns_proofs --------------------------
(***************************************************************************)
(* The inode map places every byte of every file where the runs in the     *)
(* file's own record say it is.                                            *)
(***************************************************************************)
EXTENDS Unallocated_proofs

-----------------------------------------------------------------------------
(***************************************************************************)
(* What a map says of an attribute, byte by byte, and what outputDiskMap   *)
(* makes of it, segment by segment.                                        *)
(***************************************************************************)
Of(r, inum, i, slack) == r.Inum = inum /\ r.AttrID = i /\ r.Slack = slack

\* The pairs <<offset, byte>> of an attribute.
Places(map, inum, i, slack) ==
    UNION {{<<r.Offset + (b - r.DRBeg), b>> : r \in {x \in map[b] : Of(x, inum, i, slack)}} :
           b \in DOMAIN map}

OnDisk(map, end) ==
    /\ DOMAIN map \subseteq 0 .. end - 1
    /\ \A b \in DOMAIN map : \A r \in map[b] : r.Offset \in Int /\ r.DRBeg \in Int

\* The place of a byte that has info r.
PlaceOf(p, r, b) == p = <<r.Offset + (b - r.DRBeg), b>>

LEMMA PlacesAre ==
    ASSUME NEW map, NEW inum, NEW i, NEW slack, NEW p
    PROVE  p \in Places(map, inum, i, slack)
               <=> \E b \in DOMAIN map : \E r \in map[b] : Of(r, inum, i, slack) /\ PlaceOf(p, r, b)
  <1> DEFINE R(b) == {x \in map[b] : Of(x, inum, i, slack)}
             F(b) == {<<r.Offset + (b - r.DRBeg), b>> : r \in R(b)}
  <1>1. Places(map, inum, i, slack) = UNION {F(b) : b \in DOMAIN map}
    BY Zenon DEF Places
  <1>2. \A b : p \in F(b) <=> \E r \in R(b) : PlaceOf(p, r, b)
    BY Zenon DEF PlaceOf
  <1>3. \A b : \A r : r \in R(b) <=> r \in map[b] /\ Of(r, inum, i, slack)
    OBVIOUS
  <1> HIDE DEF F, R
  <1>4. p \in UNION {F(b) : b \in DOMAIN map} <=> \E b \in DOMAIN map : p \in F(b)
    OBVIOUS
  <1> QED BY <1>1, <1>2, <1>3, <1>4, Zenon

LEMMA RunBytesAre ==
    ASSUME NEW runs, NEW p
    PROVE  p \in RunBytes(runs)
               <=> \E r \in runs : \E o \in 0 .. r.End - r.Start - 1 :
                       p = <<r.FileOffset + o, r.Start + o>>
  <1> DEFINE F(r) == {<<r.FileOffset + o, r.Start + o>> : o \in 0 .. r.End - r.Start - 1}
  <1>1. RunBytes(runs) = UNION {F(r) : r \in runs}
    BY Zenon DEF RunBytes
  <1>2. \A r : p \in F(r) <=> \E o \in 0 .. r.End - r.Start - 1 : p = <<r.FileOffset + o, r.Start + o>>
    BY Zenon
  <1> HIDE DEF F
  <1>3. p \in UNION {F(r) : r \in runs} <=> \E r \in runs : p \in F(r)
    OBVIOUS
  <1> QED BY <1>1, <1>2, <1>3, Zenon

\* A run of the inode map.
RunAt(map, b, r) ==
    [FileOffset |-> r.Offset + (b - r.DRBeg), Start |-> b, End |-> SegmentEnd(map, b)]

LEMMA RunsInAre ==
    ASSUME NEW map, NEW inum, NEW i, NEW slack, NEW run
    PROVE  run \in RunsIn(map, inum, i, slack)
               <=> \E b \in SegmentStarts(map) : \E r \in map[b] :
                       Of(r, inum, i, slack) /\ run = RunAt(map, b, r)
  <1> DEFINE R(b) == {x \in map[b] : Of(x, inum, i, slack)}
             F(b) == {RunAt(map, b, r) : r \in R(b)}
  <1>1. RunsIn(map, inum, i, slack) = UNION {F(b) : b \in SegmentStarts(map)}
    BY Zenon DEF RunsIn, RunAt, Of
  <1>2. \A b : run \in F(b) <=> \E r \in R(b) : run = RunAt(map, b, r)
    BY Zenon
  <1>3. \A b : \A r : r \in R(b) <=> r \in map[b] /\ Of(r, inum, i, slack)
    OBVIOUS
  <1> HIDE DEF F, R
  <1>4. run \in UNION {F(b) : b \in SegmentStarts(map)} <=> \E b \in SegmentStarts(map) : run \in F(b)
    OBVIOUS
  <1> QED BY <1>1, <1>2, <1>3, <1>4, Zenon

\* Each byte is in a segment of bytes with the same infos.
LEMMA SegmentOf ==
    ASSUME NEW end \in Nat, NEW map, DOMAIN map \subseteq 0 .. end - 1, NEW c \in DOMAIN map
    PROVE  \E b \in SegmentStarts(map) :
               b <= c /\ c < SegmentEnd(map, b) /\ map[b] = map[c] /\ b \in Nat
  <1> DEFINE T == {x \in Nat : x <= c /\ \A y \in x .. c : y \in DOMAIN map /\ map[y] = map[c]}
  <1>1. c \in Nat
    OBVIOUS
  <1>2. c \in T /\ T \in SUBSET Nat
    BY <1>1
  <1>3. PICK b \in T : \A y \in T : b <= y
    BY <1>2, Least
  <1>4. b \in Nat /\ b <= c /\ \A y \in b .. c : y \in DOMAIN map /\ map[y] = map[c]
    BY <1>3
  <1>5. b \in DOMAIN map /\ map[b] = map[c]
    BY <1>1, <1>4
  <1>6. b \in SegmentStarts(map)
    <2> SUFFICES ASSUME b - 1 \in DOMAIN map, map[b - 1] = map[b]
                 PROVE  FALSE
      BY <1>5, Zenon DEF SegmentStarts
    <2>1. b - 1 \in Nat /\ b - 1 <= c /\ ~(b <= b - 1)
      BY <1>1, <1>4
    <2>2. \A y \in b - 1 .. c : y = b - 1 \/ y \in b .. c
      BY <1>1, <1>4
    <2>3. b - 1 \in T
      BY <1>4, <1>5, <2>1, <2>2
    <2> QED BY <1>3, <2>1, <2>3
  <1>7. Segment(map, b, SegmentEnd(map, b)) /\ SegmentEnd(map, b) \in Nat
    BY <1>5, SegmentEndIs
  <1>8. PICK e : e = SegmentEnd(map, b)
    OBVIOUS
  <1>9. e \in Nat /\ e > b /\ (e \in DOMAIN map => map[e] # map[b])
    BY <1>7, <1>8 DEF Segment
  <1>10. c < e
    <2> SUFFICES ASSUME e <= c
                 PROVE  FALSE
      BY <1>1, <1>9
    <2>1. e \in b .. c
      BY <1>1, <1>4, <1>9
    <2> QED BY <1>4, <1>5, <1>9, <2>1
  <1> QED BY <1>4, <1>5, <1>6, <1>8, <1>10

\* Cutting a map into segments neither loses nor moves a byte of an attribute.
LEMMA RunsArePlaces ==
    ASSUME NEW end \in Nat, NEW map, OnDisk(map, end), NEW inum, NEW i, NEW slack
    PROVE  RunBytes(RunsIn(map, inum, i, slack)) = Places(map, inum, i, slack)
  <1>1. DOMAIN map \subseteq 0 .. end - 1
    BY DEF OnDisk
  <1>2. ASSUME NEW p \in RunBytes(RunsIn(map, inum, i, slack))
        PROVE  p \in Places(map, inum, i, slack)
    <2>1. PICK run \in RunsIn(map, inum, i, slack) : \E o \in 0 .. run.End - run.Start - 1 :
                   p = <<run.FileOffset + o, run.Start + o>>
      BY RunBytesAre
    <2>2. PICK b \in SegmentStarts(map) : \E r \in map[b] :
                   Of(r, inum, i, slack) /\ run = RunAt(map, b, r)
      BY RunsInAre
    <2>3. PICK r \in map[b] : Of(r, inum, i, slack) /\ run = RunAt(map, b, r)
      BY <2>2
    <2>4. b \in DOMAIN map /\ b \in Nat
      BY <1>1 DEF SegmentStarts
    <2>5. PICK x, d : x = r.Offset /\ d = r.DRBeg
      OBVIOUS
    <2>6. x \in Int /\ d \in Int
      BY <2>4, <2>5 DEF OnDisk
    <2>7. PICK e \in Nat : e = SegmentEnd(map, b) /\ Segment(map, b, e)
      BY <1>1, <2>4, SegmentEndIs
    <2>8. run.FileOffset = x + (b - d) /\ run.Start = b /\ run.End = e
      BY <2>3, <2>5, <2>7 DEF RunAt
    <2>9. PICK o \in 0 .. e - b - 1 : p = <<x + (b - d) + o, b + o>>
      BY <2>1, <2>8
    <2>10. b + o \in b .. e - 1 /\ x + (b - d) + o = x + ((b + o) - d)
      BY <2>4, <2>6, <2>7, <2>9
    <2>11. b + o \in DOMAIN map /\ map[b + o] = map[b]
      BY <2>7, <2>10 DEF Segment
    <2>12. PlaceOf(p, r, b + o)
      BY <2>5, <2>9, <2>10 DEF PlaceOf
    <2> QED BY <2>3, <2>11, <2>12, PlacesAre, Zenon
  <1>3. ASSUME NEW p \in Places(map, inum, i, slack)
        PROVE  p \in RunBytes(RunsIn(map, inum, i, slack))
    <2>1. PICK c \in DOMAIN map : \E r \in map[c] : Of(r, inum, i, slack) /\ PlaceOf(p, r, c)
      BY PlacesAre, Zenon
    <2>2. PICK r \in map[c] : Of(r, inum, i, slack) /\ PlaceOf(p, r, c)
      BY <2>1
    <2>3. PICK b \in SegmentStarts(map) :
                   b <= c /\ c < SegmentEnd(map, b) /\ map[b] = map[c] /\ b \in Nat
      BY <1>1, SegmentOf
    <2>4. b \in DOMAIN map /\ c \in Nat
      BY <1>1 DEF SegmentStarts
    <2>5. PICK e \in Nat : e = SegmentEnd(map, b)
      BY <1>1, <2>4, SegmentEndIs
    <2>6. PICK x, d : x = r.Offset /\ d = r.DRBeg
      OBVIOUS
    <2>7. x \in Int /\ d \in Int
      BY <2>6 DEF OnDisk
    <2>8. PICK run : run = RunAt(map, b, r)
      OBVIOUS
    <2>9. run.FileOffset = x + (b - d) /\ run.Start = b /\ run.End = e
      BY <2>5, <2>6, <2>8 DEF RunAt
    <2>10. run \in RunsIn(map, inum, i, slack)
      BY <2>2, <2>3, <2>8, RunsInAre, Zenon
    <2>11. PICK o \in 0 .. e - b - 1 : o = c - b
      BY <2>3, <2>4, <2>5
    <2>12. p = <<x + (c - d), c>>
      BY <2>2, <2>6 DEF PlaceOf
    <2>13. x + (c - d) = (x + (b - d)) + o /\ c = b + o
      BY <2>3, <2>4, <2>7, <2>11
    <2>14. p = <<run.FileOffset + o, run.Start + o>> /\ o \in 0 .. run.End - run.Start - 1
      BY <2>9, <2>11, <2>12, <2>13
    <2> QED BY <2>10, <2>14, RunBytesAre, Zenon
  <1> QED BY <1>2, <1>3

-----------------------------------------------------------------------------
(***************************************************************************)
(* What is added to a map, as triples <<attribute, slack, place>>.         *)
(***************************************************************************)
Gains(map, new, size, inum, added) ==
    /\ OnDisk(new, size)
    /\ \A j, i, slack : \A p :
           p \in Places(new, j, i, slack)
               <=> p \in Places(map, j, i, slack) \/ (j = inum /\ <<i, slack, p>> \in added)

LEMMA GainsNothing ==
    ASSUME NEW map, NEW size, NEW inum, OnDisk(map, size)
    PROVE  Gains(map, map, size, inum, {})
  BY DEF Gains

LEMMA GainsTwice ==
    ASSUME NEW a, NEW b, NEW c, NEW size, NEW inum, NEW P, NEW Q,
           Gains(a, b, size, inum, P), Gains(b, c, size, inum, Q)
    PROVE  Gains(a, c, size, inum, P \cup Q)
  BY DEF Gains

\* Bytes beg to end of the disk, in one piece from an offset on.
Laid(i, slack, beg, end, offset) ==
    {<<i, slack, <<offset + (b - beg), b>>>> : b \in beg .. end - 1}

LEMMA MarkGains ==
    ASSUME NEW size \in Nat, NEW map, OnDisk(map, size), NEW fsBeg \in Int, NEW fsEnd \in Int,
           fsEnd <= size, NEW beg \in Nat, fsBeg <= beg, NEW end \in Int, NEW offset \in Int,
           NEW inum, NEW i, NEW slack, NEW new,
           new = markDataRun(map, <<fsBeg, fsEnd>>, beg, end, offset, inum, i, slack)
    PROVE  Gains(map, new, size, inum, Laid(i, slack, beg, AtMost(end, fsEnd), offset))
  <1> DEFINE e    == AtMost(end, fsEnd)
             info == [Inum |-> inum, AttrID |-> i, Slack |-> slack, DRBeg |-> beg,
                      Offset |-> offset]
             D    == beg .. e - 1
             L    == Laid(i, slack, beg, e, offset)
  <1>1. e \in Int /\ e <= size /\ AtLeast(beg, fsBeg) = beg /\ D \subseteq 0 .. size - 1
        /\ (~(beg < e) => D = {})
    BY DEF AtMost, AtLeast
  <1>2. new = IF beg < e THEN AddInterval(map, beg, e, info) ELSE map
    BY <1>1, Zenon DEF markDataRun
  <1>3. info.Inum = inum /\ info.AttrID = i /\ info.Slack = slack /\ info.DRBeg = beg
        /\ info.Offset = offset
    OBVIOUS
  <1>4. \A k, sl, p : <<k, sl, p>> \in L <=> k = i /\ sl = slack /\ \E b \in D : p = <<offset + (b - beg), b>>
    BY DEF Laid
  <1>5. \A j, k, sl : Of(info, j, k, sl) <=> j = inum /\ k = i /\ sl = slack
    BY <1>3, Zenon DEF Of
  <1>6. \A p, b : PlaceOf(p, info, b) <=> p = <<offset + (b - beg), b>>
    BY <1>3, Zenon DEF PlaceOf
  <1>7. info.Offset \in Int /\ info.DRBeg \in Int
    BY <1>3
  <1> HIDE DEF e, info, D, L
  <1>8. CASE ~(beg < e)
    <2>1. new = map /\ D = {}
      BY <1>1, <1>2, <1>8
    <2>2. L = {}
      BY <2>1 DEF L, Laid, D
    <2> QED BY <2>1, <2>2, GainsNothing DEF L, e
  <1>9. CASE beg < e
    <2>1. new = [b \in DOMAIN map \cup D |->
                    (IF b \in DOMAIN map THEN map[b] ELSE {}) \cup (IF b \in D THEN {info} ELSE {})]
      BY <1>2, <1>9, Zenon DEF AddInterval, D
    <2>2. DOMAIN new = DOMAIN map \cup D
      BY <2>1
    <2>3. \A b \in DOMAIN new : \A r : r \in new[b] <=> \/ b \in DOMAIN map /\ r \in map[b]
                                                        \/ b \in D /\ r = info
      BY <2>1, <2>2
    <2>4. OnDisk(new, size)
      <3>1. DOMAIN new \subseteq 0 .. size - 1
        BY <1>1, <2>2 DEF OnDisk
      <3>2. \A b \in DOMAIN new : \A r \in new[b] : r.Offset \in Int /\ r.DRBeg \in Int
        BY <1>7, <2>3, Zenon DEF OnDisk
      <3> QED BY <3>1, <3>2 DEF OnDisk
    <2>5. ASSUME NEW j, NEW k, NEW sl, NEW p
          PROVE  p \in Places(new, j, k, sl)
                     <=> p \in Places(map, j, k, sl) \/ (j = inum /\ <<k, sl, p>> \in L)
      <3>1. p \in Places(new, j, k, sl)
                <=> \E b \in DOMAIN new : \E r \in new[b] : Of(r, j, k, sl) /\ PlaceOf(p, r, b)
        BY PlacesAre
      <3>2. p \in Places(map, j, k, sl)
                <=> \E b \in DOMAIN map : \E r \in map[b] : Of(r, j, k, sl) /\ PlaceOf(p, r, b)
        BY PlacesAre
      <3>3. j = inum /\ <<k, sl, p>> \in L
                <=> \E b \in D : Of(info, j, k, sl) /\ PlaceOf(p, info, b)
        <4>1. <<k, sl, p>> \in L <=> k = i /\ sl = slack /\ \E b \in D : PlaceOf(p, info, b)
          BY <1>4, <1>6
        <4>2. Of(info, j, k, sl) <=> j = inum /\ k = i /\ sl = slack
          BY <1>5, Zenon
        <4> QED BY <4>1, <4>2, Zenon
      <3>4. \A b : b \in DOMAIN new <=> b \in DOMAIN map \/ b \in D
        BY <2>2
      <3> HIDE DEF Of, PlaceOf
      <3> QED BY <2>3, <3>1, <3>2, <3>3, <3>4, Zenon
    <2> QED BY <2>4, <2>5 DEF Gains, L, e
  <1> QED BY <1>8, <1>9

-----------------------------------------------------------------------------
(***************************************************************************)
(* One turn of writeAttr's loop.                                           *)
(***************************************************************************)

\* What the run adds whose first byte is x, if it has len bytes and pos bytes of the stream
\* come before it: skip of them are skipped, then main are data.
StreamPart(i, x, len, pos, skip, main, size) ==
    {IF pos + o >= skip + main THEN <<i, TRUE, <<(pos + o) - (skip + main), x + o>>>>
     ELSE <<i, FALSE, <<(pos + o) - skip, x + o>>>> :
        o \in {n \in 0 .. len - 1 : pos + n >= skip /\ x + n < size}}

\* The data that ends at dataEnd and the slack behind it, as far as the range goes.
TwoParts(i, beg, dataEnd, runEnd, fsEnd, fo, slackFo) ==
    Laid(i, FALSE, beg, AtMost(dataEnd, fsEnd), fo)
        \cup Laid(i, TRUE, dataEnd, AtMost(runEnd, fsEnd), slackFo)

\* What writeAttr computes of a run.
Turn(x, len, pos, skip, main, size, fsEnd, beg, fo, dataEnd, slackFo) ==
    /\ x \in Nat /\ len \in Nat /\ pos \in Nat /\ skip \in Nat /\ main \in Nat
    /\ size \in Nat /\ fsEnd \in Nat /\ fsEnd <= size
    /\ fsEnd = size \/ x + len <= fsEnd
    /\ beg = x + AtMost(len, AtLeast(skip - pos, 0))
    /\ fo = AtMost(main, AtLeast(pos - skip, 0))
    /\ dataEnd = AtMost(beg + (main - fo), x + len)
    /\ slackFo = AtLeast(pos - (skip + main), 0)

LEMMA PartsLaid ==
    ASSUME NEW x, NEW len, NEW pos, NEW skip, NEW main, NEW size, NEW fsEnd, NEW beg, NEW fo,
           NEW dataEnd, NEW slackFo, NEW i,
           Turn(x, len, pos, skip, main, size, fsEnd, beg, fo, dataEnd, slackFo)
    PROVE  StreamPart(i, x, len, pos, skip, main, size)
               = TwoParts(i, beg, dataEnd, x + len, fsEnd, fo, slackFo)
  <1> DEFINE part == StreamPart(i, x, len, pos, skip, main, size)
             data == Laid(i, FALSE, beg, AtMost(dataEnd, fsEnd), fo)
             slack == Laid(i, TRUE, dataEnd, AtMost(x + len, fsEnd), slackFo)
             E(o) == IF pos + o >= skip + main THEN <<i, TRUE, <<(pos + o) - (skip + main), x + o>>>>
                     ELSE <<i, FALSE, <<(pos + o) - skip, x + o>>>>
  <1> USE DEF Turn
  <1>0. beg \in Nat /\ dataEnd \in Nat /\ fo \in Nat /\ slackFo \in Nat
        /\ AtMost(dataEnd, fsEnd) \in Nat /\ AtMost(x + len, fsEnd) \in Nat
    BY DEF AtMost, AtLeast
  <1>1. \A g : g \in part <=> \E o \in 0 .. len - 1 : pos + o >= skip /\ x + o < size /\ g = E(o)
    BY DEF StreamPart
  <1>2. \A g : g \in data <=> \E b \in beg .. AtMost(dataEnd, fsEnd) - 1 :
                                  g = <<i, FALSE, <<fo + (b - beg), b>>>>
    BY DEF Laid
  <1>3. \A g : g \in slack <=> \E b \in dataEnd .. AtMost(x + len, fsEnd) - 1 :
                                  g = <<i, TRUE, <<slackFo + (b - dataEnd), b>>>>
    BY DEF Laid
  <1> HIDE DEF part, data, slack, E
  <1>4. ASSUME NEW o \in 0 .. len - 1, pos + o >= skip, x + o < size
        PROVE  E(o) \in data \/ E(o) \in slack
    <2>1. CASE pos + o >= skip + main
      <3>1. x + o \in dataEnd .. AtMost(x + len, fsEnd) - 1
            /\ (pos + o) - (skip + main) = slackFo + ((x + o) - dataEnd)
        BY <1>4, <2>1 DEF AtMost, AtLeast
      <3>2. E(o) = <<i, TRUE, <<slackFo + ((x + o) - dataEnd), x + o>>>>
        BY <2>1, <3>1 DEF E
      <3> QED BY <1>3, <3>1, <3>2
    <2>2. CASE ~(pos + o >= skip + main)
      <3>1. x + o \in beg .. AtMost(dataEnd, fsEnd) - 1
            /\ (pos + o) - skip = fo + ((x + o) - beg)
        BY <1>4, <2>2 DEF AtMost, AtLeast
      <3>2. E(o) = <<i, FALSE, <<fo + ((x + o) - beg), x + o>>>>
        BY <2>2, <3>1 DEF E
      <3> QED BY <1>2, <3>1, <3>2
    <2> QED BY <2>1, <2>2
  <1>5. ASSUME NEW b \in beg .. AtMost(dataEnd, fsEnd) - 1
        PROVE  <<i, FALSE, <<fo + (b - beg), b>>>> \in part
    <2>1. PICK o \in Int : o = b - x
      BY <1>0
    <2>2. /\ o \in 0 .. len - 1 /\ pos + o >= skip /\ x + o < size /\ ~(pos + o >= skip + main)
          /\ (pos + o) - skip = fo + (b - beg) /\ x + o = b
      BY <1>0, <2>1 DEF AtMost, AtLeast
    <2>3. E(o) = <<i, FALSE, <<fo + (b - beg), b>>>>
      BY <2>2 DEF E
    <2> QED BY <1>1, <2>2, <2>3
  <1>6. ASSUME NEW b \in dataEnd .. AtMost(x + len, fsEnd) - 1
        PROVE  <<i, TRUE, <<slackFo + (b - dataEnd), b>>>> \in part
    <2>1. PICK o \in Int : o = b - x
      BY <1>0
    <2>2. /\ o \in 0 .. len - 1 /\ pos + o >= skip /\ x + o < size /\ pos + o >= skip + main
          /\ (pos + o) - (skip + main) = slackFo + (b - dataEnd) /\ x + o = b
      BY <1>0, <2>1 DEF AtMost, AtLeast
    <2>3. E(o) = <<i, TRUE, <<slackFo + (b - dataEnd), b>>>>
      BY <2>2 DEF E
    <2> QED BY <1>1, <2>2, <2>3
  <1>7. \A g : g \in part <=> g \in data \/ g \in slack
    <2>1. \A g : g \in part => g \in data \/ g \in slack
      BY <1>1, <1>4, Zenon
    <2>2. data \subseteq part
      BY <1>5 DEF data, Laid
    <2>3. slack \subseteq part
      BY <1>6 DEF slack, Laid
    <2> QED BY <2>1, <2>2, <2>3
  <1>8. part = data \cup slack
    BY <1>7
  <1> QED BY <1>8 DEF part, data, slack, TwoParts

-----------------------------------------------------------------------------
\* The state of the loop when pos bytes of the stream have been passed.
AtPos(s, a, pos) ==
    /\ s.skip = AtLeast(a.skiplen - pos, 0)
    /\ s.fo = AtMost(mainSize(a), AtLeast(pos - a.skiplen, 0))
    /\ s.slackFo = AtLeast(pos - (a.skiplen + mainSize(a)), 0)
    /\ DOMAIN s = {"fo", "slackFo", "skip", "map"}

RunPart(fs, a, run, pos, size) ==
    IF run.flags = "none"
    THEN StreamPart(a.id, run.addr * fs.bs + fs.offset, run.len * fs.bs, pos, a.skiplen,
                    mainSize(a), size)
    ELSE {}

StreamLen(bs, run) == IF run.flags = "filler" THEN 0 ELSE run.len * bs

\* A stored run is inside the range, or the range ends with the image.
RunReached(fs, fsEnd, size, run) ==
    run.flags = "none" => fsEnd = size \/ fs.offset + (run.addr + run.len) * fs.bs <= fsEnd

LEMMA WriteRunGains ==
    ASSUME NEW fs \in FsType, NEW fsBeg \in Int, NEW fsEnd \in Nat, NEW size \in Nat,
           fsBeg <= fs.offset, fsEnd <= size, NEW inum, NEW a \in AttrType, NEW pos \in Nat,
           NEW s, AtPos(s, a, pos), OnDisk(s.map, size),
           NEW run \in RunType, RunReached(fs, fsEnd, size, run),
           NEW t, t = WriteRun(fs, <<fsBeg, fsEnd>>, inum, a, s, run)
    PROVE  /\ AtPos(t, a, pos + StreamLen(fs.bs, run))
           /\ Gains(s.map, t.map, size, inum, RunPart(fs, a, run, pos, size))
  <1> DEFINE range   == <<fsBeg, fsEnd>>
             runBeg  == run.addr * fs.bs + fs.offset
             bytes   == run.len * fs.bs
             runEnd  == runBeg + run.len * fs.bs
             toSkip  == AtMost(runEnd - runBeg, s.skip)
             beg     == runBeg + toSkip
             dataEnd == AtMost(beg + (mainSize(a) - s.fo), runEnd)
             stored  == run.flags = "none"
             data    == IF stored /\ beg < dataEnd
                        THEN markDataRun(s.map, range, beg, dataEnd, s.fo, inum, a.id, FALSE)
                        ELSE s.map
             slack   == IF stored /\ dataEnd < runEnd
                        THEN markDataRun(data, range, dataEnd, runEnd, s.slackFo, inum, a.id, TRUE)
                        ELSE data
             main == mainSize(a)
             sk   == a.skiplen
  <1>1. run.addr \in Nat /\ run.len \in Nat /\ fs.bs \in Nat /\ fs.offset \in Nat
    BY FsFields DEF RunType
  <1>2. main \in Nat /\ sk \in Nat
    BY DEF mainSize, AttrType
  <1>3. /\ runBeg \in Nat /\ bytes \in Nat /\ runEnd = runBeg + bytes /\ fs.offset <= runBeg
        /\ runEnd = fs.offset + (run.addr + run.len) * fs.bs
    <2>1. /\ run.addr * fs.bs \in Nat /\ run.len * fs.bs \in Nat
          /\ (run.addr + run.len) * fs.bs = run.addr * fs.bs + run.len * fs.bs
      BY <1>1, Products
    <2> QED BY <1>1, <2>1
  <1>4. /\ run.flags = "filler" => t = s
        /\ run.flags # "filler" /\ beg < runEnd =>
               t = [fo |-> s.fo + (dataEnd - beg), slackFo |-> s.slackFo + (runEnd - dataEnd),
                    skip |-> s.skip - toSkip, map |-> slack]
        /\ run.flags # "filler" /\ ~(beg < runEnd) => t = [s EXCEPT !.skip = @ - toSkip]
    BY Zenon DEF WriteRun
  <1>5. /\ s.skip = AtLeast(sk - pos, 0) /\ s.fo = AtMost(main, AtLeast(pos - sk, 0))
        /\ s.slackFo = AtLeast(pos - (sk + main), 0) /\ DOMAIN s = {"fo", "slackFo", "skip", "map"}
    BY Zenon DEF AtPos
  <1>6. StreamLen(fs.bs, run) = IF run.flags = "filler" THEN 0 ELSE bytes
    BY Zenon DEF StreamLen
  <1>7. /\ AtPos(t, a, pos + bytes)
               <=> /\ t.skip = AtLeast(sk - (pos + bytes), 0)
                   /\ t.fo = AtMost(main, AtLeast((pos + bytes) - sk, 0))
                   /\ t.slackFo = AtLeast((pos + bytes) - (sk + main), 0)
                   /\ DOMAIN t = {"fo", "slackFo", "skip", "map"}
    BY Zenon DEF AtPos
  <1>8. RunPart(fs, a, run, pos, size)
            = IF stored THEN StreamPart(a.id, runBeg, bytes, pos, sk, main, size) ELSE {}
    BY Zenon DEF RunPart
  <1>9. stored => fsEnd = size \/ runEnd <= fsEnd
    BY <1>3, Zenon DEF RunReached
  <1> HIDE DEF runBeg, runEnd, bytes, main, sk
  <1>10. PICK fo, slackFo, skip : fo = s.fo /\ slackFo = s.slackFo /\ skip = s.skip
    OBVIOUS
  <1>11. /\ fo \in Nat /\ fo <= main /\ slackFo \in Nat /\ skip \in Nat
         /\ fo = AtMost(main, AtLeast(pos - sk, 0)) /\ slackFo = AtLeast(pos - (sk + main), 0)
         /\ skip = AtLeast(sk - pos, 0)
    BY <1>2, <1>5, <1>10 DEF AtMost, AtLeast
  <1>12. toSkip = AtMost(bytes, AtLeast(sk - pos, 0)) /\ toSkip \in Nat /\ toSkip <= bytes
         /\ toSkip = AtMost(bytes, skip)
    BY <1>2, <1>3, <1>10, <1>11 DEF AtMost, AtLeast
  <1>13. beg = runBeg + AtMost(bytes, AtLeast(sk - pos, 0)) /\ beg = runBeg + toSkip
         /\ beg \in Nat /\ beg <= runEnd
    BY <1>3, <1>12
  <1>14. dataEnd = AtMost(beg + (main - fo), runBeg + bytes)
    BY <1>3, <1>10 DEF main
  <1> HIDE DEF toSkip, beg, dataEnd
  <1>15. dataEnd \in Nat /\ beg <= dataEnd /\ dataEnd <= runEnd
    BY <1>2, <1>3, <1>11, <1>13, <1>14 DEF AtMost
  <1>16. fsBeg <= runBeg /\ fsBeg <= beg /\ fsBeg <= dataEnd
    <2>1. PICK x : x = fs.offset
      OBVIOUS
    <2>2. x \in Nat /\ fsBeg <= x /\ x <= runBeg
      BY <1>1, <1>3, <2>1
    <2>3. runBeg <= beg
      BY <1>3, <1>12, <1>13
    <2> QED BY <1>3, <1>13, <1>15, <2>2, <2>3
  <1>17. /\ beg \in Nat /\ beg \in Int /\ dataEnd \in Int /\ dataEnd \in Nat /\ fo \in Int
         /\ slackFo \in Int /\ runEnd \in Int /\ runEnd \in Nat /\ fsEnd \in Int
    BY <1>3, <1>11, <1>13, <1>15
  <1> HIDE DEF range, data, slack, stored
  <1>20. CASE run.flags = "filler"
    <2>1. t = s /\ pos + StreamLen(fs.bs, run) = pos /\ ~stored
      BY <1>4, <1>6, <1>20 DEF stored
    <2> QED BY <1>8, <2>1, GainsNothing
  <1>21. ASSUME stored
         PROVE  Gains(s.map, slack, size, inum, RunPart(fs, a, run, pos, size))
    <2> DEFINE D == Laid(a.id, FALSE, beg, AtMost(dataEnd, fsEnd), fo)
               E == Laid(a.id, TRUE, dataEnd, AtMost(runEnd, fsEnd), slackFo)
    <2>1. Gains(s.map, data, size, inum, D)
      <3>1. CASE beg < dataEnd
        <4>1. data = markDataRun(s.map, <<fsBeg, fsEnd>>, beg, dataEnd, fo, inum, a.id, FALSE)
          BY <1>10, <1>21, <3>1, Zenon DEF data, range
        <4>2. fsBeg <= beg /\ beg \in Nat /\ dataEnd \in Int /\ fo \in Int /\ fsEnd \in Int
          BY <1>16, <1>17, Zenon
        <4> QED BY <4>1, <4>2, MarkGains
      <3>2. CASE ~(beg < dataEnd)
        <4>1. beg .. AtMost(dataEnd, fsEnd) - 1 = {}
          BY <1>13, <1>15, <3>2 DEF AtMost
        <4>2. D = {}
          BY <4>1 DEF Laid
        <4>3. data = s.map
          BY <3>2 DEF data
        <4> QED BY <4>2, <4>3, GainsNothing
      <3> QED BY <3>1, <3>2
    <2>2. Gains(data, slack, size, inum, E)
      <3>0. OnDisk(data, size)
        BY <2>1 DEF Gains
      <3>1. CASE dataEnd < runEnd
        <4>1. slack = markDataRun(data, <<fsBeg, fsEnd>>, dataEnd, runEnd, slackFo, inum, a.id, TRUE)
          BY <1>10, <1>21, <3>1, Zenon DEF slack, range
        <4>2. fsBeg <= dataEnd /\ dataEnd \in Nat /\ runEnd \in Int /\ slackFo \in Int /\ fsEnd \in Int
          BY <1>16, <1>17, Zenon
        <4> QED BY <3>0, <4>1, <4>2, MarkGains
      <3>2. CASE ~(dataEnd < runEnd)
        <4>1. dataEnd .. AtMost(runEnd, fsEnd) - 1 = {}
          BY <1>3, <1>15, <3>2 DEF AtMost
        <4>2. E = {}
          BY <4>1 DEF Laid
        <4>3. slack = data
          BY <3>2 DEF slack
        <4> QED BY <3>0, <4>2, <4>3, GainsNothing
      <3> QED BY <3>1, <3>2
    <2> HIDE DEF D, E
    <2>3. StreamPart(a.id, runBeg, bytes, pos, sk, main, size) = D \cup E
      <3>1. fsEnd = size \/ runBeg + bytes <= fsEnd
        BY <1>3, <1>9, <1>21
      <3>2. Turn(runBeg, bytes, pos, sk, main, size, fsEnd, beg, fo, dataEnd, slackFo)
        BY <1>2, <1>3, <1>11, <1>13, <1>14, <3>1, Zenon DEF Turn
      <3>3. PICK i : i = a.id
        OBVIOUS
      <3>4. StreamPart(i, runBeg, bytes, pos, sk, main, size)
                = TwoParts(i, beg, dataEnd, runBeg + bytes, fsEnd, fo, slackFo)
        BY ONLY <3>2, PartsLaid, SMT
      <3> QED BY <1>3, <3>3, <3>4, Zenon DEF TwoParts, D, E
    <2> QED BY <1>8, <1>21, <2>1, <2>2, <2>3, GainsTwice
  <1>22. ASSUME ~stored
         PROVE  Gains(s.map, slack, size, inum, RunPart(fs, a, run, pos, size))
    <2>1. slack = s.map
      BY <1>22 DEF slack, data
    <2> QED BY <1>8, <1>22, <2>1, GainsNothing
  <1>23. CASE run.flags # "filler" /\ beg < runEnd
    <2>1. /\ t.fo = fo + (dataEnd - beg) /\ t.slackFo = slackFo + (runEnd - dataEnd)
          /\ t.skip = skip - toSkip /\ t.map = slack
          /\ DOMAIN t = {"fo", "slackFo", "skip", "map"}
      BY <1>4, <1>10, <1>23
    <2>2. skip - toSkip = AtLeast(sk - (pos + bytes), 0)
      BY <1>2, <1>3, <1>11, <1>12 DEF AtMost, AtLeast
    <2>3. fo + (dataEnd - beg) = AtMost(main, AtLeast((pos + bytes) - sk, 0))
      BY <1>2, <1>3, <1>11, <1>12, <1>13, <1>14, <1>23 DEF AtMost, AtLeast
    <2>4. slackFo + (runEnd - dataEnd) = AtLeast((pos + bytes) - (sk + main), 0)
      BY <1>2, <1>3, <1>11, <1>12, <1>13, <1>14, <1>23 DEF AtMost, AtLeast
    <2>5. AtPos(t, a, pos + bytes)
      BY <1>7, <2>1, <2>2, <2>3, <2>4, Zenon
    <2>6. Gains(s.map, t.map, size, inum, RunPart(fs, a, run, pos, size))
      BY <1>21, <1>22, <2>1, Zenon
    <2> QED BY <1>6, <1>23, <2>5, <2>6, Zenon
  <1>24. CASE run.flags # "filler" /\ ~(beg < runEnd)
    <2>1. /\ t.fo = fo /\ t.slackFo = slackFo /\ t.skip = skip - toSkip /\ t.map = s.map
          /\ DOMAIN t = {"fo", "slackFo", "skip", "map"}
      BY <1>4, <1>5, <1>10, <1>24
    <2>2. toSkip = bytes
      BY <1>3, <1>12, <1>13, <1>24
    <2>3. skip - toSkip = AtLeast(sk - (pos + bytes), 0)
      BY <1>2, <1>3, <1>11, <1>12, <2>2 DEF AtMost, AtLeast
    <2>4. fo = AtMost(main, AtLeast((pos + bytes) - sk, 0))
          /\ slackFo = AtLeast((pos + bytes) - (sk + main), 0)
      BY <1>2, <1>3, <1>11, <1>12, <2>2 DEF AtMost, AtLeast
    <2>5. AtPos(t, a, pos + bytes)
      BY <1>7, <2>1, <2>3, <2>4, Zenon
    <2>6. beg = dataEnd /\ dataEnd = runEnd
      BY <1>3, <1>13, <1>15, <1>24
    <2>7. slack = s.map
      <3>1. ~(beg < dataEnd) /\ ~(dataEnd < runEnd)
        BY <1>17, <2>6
      <3> QED BY <3>1, Zenon DEF slack, data
    <2>8. Gains(s.map, t.map, size, inum, RunPart(fs, a, run, pos, size))
      BY <1>21, <1>22, <2>1, <2>7, Zenon
    <2> QED BY <1>6, <1>24, <2>5, <2>8, Zenon
  <1> QED BY <1>20, <1>23, <1>24, Zenon

-----------------------------------------------------------------------------
(***************************************************************************)
(* The loop over the runs.                                                 *)
(***************************************************************************)

\* f has the lengths of the stream before the first N + 1 runs.
Sums(f, a, bs, N) ==
    f = [n \in 0 .. N |->
            IF n = 0 THEN 0
            ELSE f[n - 1] + (IF a.runs[n].flags = "filler" THEN 0 ELSE a.runs[n].len * bs)]

LEMMA SumsExtend ==
    ASSUME NEW a, NEW bs, NEW N \in Nat, NEW f, Sums(f, a, bs, N)
    PROVE  \E g : Sums(g, a, bs, N + 1)
  <1> DEFINE G(x, n) == x + (IF a.runs[n].flags = "filler" THEN 0 ELSE a.runs[n].len * bs)
  <1>1. f = [n \in 0 .. N |-> IF n = 0 THEN 0 ELSE G(f[n - 1], n)]
    BY Zenon DEF Sums
  <1> HIDE DEF G
  <1> DEFINE g == [n \in 0 .. N + 1 |-> IF n = N + 1 THEN G(f[N], N + 1) ELSE f[n]]
  <1>2. g = [n \in 0 .. N + 1 |-> IF n = 0 THEN 0 ELSE G(g[n - 1], n)]
    <2>1. ASSUME NEW n \in 0 .. N + 1
          PROVE  g[n] = IF n = 0 THEN 0 ELSE G(g[n - 1], n)
      <3>1. CASE n = N + 1
        <4>1. n # 0 /\ n - 1 = N /\ N \in 0 .. N + 1 /\ N # N + 1
          BY <3>1
        <4> QED BY <3>1, <4>1
      <3>2. CASE n = 0
        BY <1>1, <3>2
      <3>3. CASE n # N + 1 /\ n # 0
        <4>1. n \in 0 .. N /\ n - 1 \in 0 .. N + 1 /\ n - 1 # N + 1
          BY <3>3
        <4>2. g[n] = f[n] /\ g[n - 1] = f[n - 1]
          BY <3>3, <4>1
        <4>3. f[n] = G(f[n - 1], n)
          BY <1>1, <3>3, <4>1
        <4> QED BY <3>3, <4>2, <4>3
      <3> QED BY <3>1, <3>2, <3>3
    <2> QED BY <2>1
  <1> HIDE DEF g
  <1>3. Sums(g, a, bs, N + 1)
    BY <1>2, Zenon DEF G, Sums
  <1> QED BY <1>3

LEMMA SumsExist ==
    ASSUME NEW a, NEW bs, NEW N \in Nat
    PROVE  \E f : Sums(f, a, bs, N)
  <1> DEFINE S == {n \in Nat : \E f : Sums(f, a, bs, n)}
  <1>1. 0 \in S
    <2>1. Sums([n \in 0 .. 0 |-> 0], a, bs, 0)
      BY DEF Sums
    <2> QED BY <2>1
  <1>2. ASSUME NEW n \in Nat, n \in S
        PROVE  n + 1 \in S
    <2>1. PICK f : Sums(f, a, bs, n)
      BY <1>2
    <2>2. \E g : Sums(g, a, bs, n + 1)
      BY <2>1, SumsExtend
    <2> QED BY <2>2
  <1> HIDE DEF S
  <1>3. Nat \subseteq S
    BY <1>1, <1>2, SetInduction
  <1> QED BY <1>3 DEF S

Lengths(f, a, bs) ==
    /\ f[0] = 0
    /\ \A n \in 1 .. Len(a.runs) : /\ f[n] = f[n - 1] + StreamLen(bs, a.runs[n])
                                   /\ StreamBefore(a, bs, n) = f[n - 1]

LEMMA StreamBeforeIs ==
    ASSUME NEW a, NEW bs, Len(a.runs) \in Nat
    PROVE  \E f : Lengths(f, a, bs)
  <1> DEFINE N == Len(a.runs)
             f == CHOOSE g : Sums(g, a, bs, N)
  <1>1. \A n : StreamBefore(a, bs, n) = f[n - 1]
    BY Zenon DEF StreamBefore, Sums
  <1>2. Sums(f, a, bs, N)
    BY SumsExist, Zenon
  <1> HIDE DEF f
  <1>3. f[0] = 0 /\ \A n \in 1 .. N : f[n] = f[n - 1] + StreamLen(bs, a.runs[n])
    <2>1. f = [n \in 0 .. N |-> IF n = 0 THEN 0 ELSE f[n - 1] + StreamLen(bs, a.runs[n])]
      BY <1>2, Zenon DEF Sums, StreamLen
    <2>2. 0 \in 0 .. N /\ \A n \in 1 .. N : n \in 0 .. N /\ n # 0
      OBVIOUS
    <2> QED BY <2>1, <2>2, Zenon
  <1>4. Lengths(f, a, bs)
    BY <1>1, <1>3, Zenon DEF Lengths
  <1> QED BY <1>4

\* What the first n runs of attribute a add.
AttrPart(fs, a, n, size) ==
    UNION {RunPart(fs, a, a.runs[r], StreamBefore(a, fs.bs, r), size) : r \in 1 .. n}

LEMMA OneRunMore ==
    ASSUME NEW fs, NEW a, NEW n \in Nat, NEW size
    PROVE  /\ AttrPart(fs, a, 0, size) = {}
           /\ AttrPart(fs, a, n + 1, size)
                  = AttrPart(fs, a, n, size)
                        \cup RunPart(fs, a, a.runs[n + 1], StreamBefore(a, fs.bs, n + 1), size)
  <1> DEFINE F(r) == RunPart(fs, a, a.runs[r], StreamBefore(a, fs.bs, r), size)
  <1>1. \A k : AttrPart(fs, a, k, size) = UNION {F(r) : r \in 1 .. k}
    BY Zenon DEF AttrPart
  <1> HIDE DEF F
  <1>2. 1 .. n + 1 = (1 .. n) \cup {n + 1} /\ 1 .. 0 = {}
    OBVIOUS
  <1>3. UNION {F(r) : r \in 1 .. n + 1} = (UNION {F(r) : r \in 1 .. n}) \cup F(n + 1)
    BY <1>2
  <1>4. UNION {F(r) : r \in 1 .. 0} = {}
    BY <1>2
  <1> QED BY <1>1, <1>3, <1>4, Zenon DEF F

RunsReached(fs, fsEnd, size, a) ==
    \A r \in 1 .. Len(a.runs) : RunReached(fs, fsEnd, size, a.runs[r])

LEMMA WriteRunsGains ==
    ASSUME NEW fs \in FsType, NEW fsBeg \in Int, NEW fsEnd \in Nat, NEW size \in Nat,
           fsBeg <= fs.offset, fsEnd <= size, NEW inum, NEW a \in AttrType,
           RunsReached(fs, fsEnd, size, a), NEW map, OnDisk(map, size)
    PROVE  Gains(map, WriteRuns(fs, <<fsBeg, fsEnd>>, inum, a, map).map, size, inum,
                 AttrPart(fs, a, Len(a.runs), size))
  <1> DEFINE range == <<fsBeg, fsEnd>>
             N     == Len(a.runs)
             s     == [fo |-> 0, slackFo |-> 0, skip |-> a.skiplen, map |-> map]
             f     == CHOOSE g : Runs(g, fs, range, inum, a, s, N)
  <1>1. /\ N \in Nat /\ a.runs \in Seq(RunType) /\ a.skiplen \in Nat /\ mainSize(a) \in Nat
        /\ fs.bs \in Nat
    BY FsFields DEF AttrType, mainSize
  <1>2. WriteRuns(fs, range, inum, a, map) = f[N]
    BY Zenon DEF WriteRuns, Runs
  <1>3. Runs(f, fs, range, inum, a, s, N)
    BY <1>1, RunsExist, Zenon
  <1>4. AtPos(s, a, 0) /\ s.map = map
    <2>1. /\ s.fo = 0 /\ s.slackFo = 0 /\ s.skip = a.skiplen /\ s.map = map
          /\ DOMAIN s = {"fo", "slackFo", "skip", "map"}
      OBVIOUS
    <2>2. /\ AtLeast(a.skiplen - 0, 0) = a.skiplen
          /\ AtMost(mainSize(a), AtLeast(0 - a.skiplen, 0)) = 0
          /\ AtLeast(0 - (a.skiplen + mainSize(a)), 0) = 0
      <3>1. PICK k \in Nat, m \in Nat : k = a.skiplen /\ m = mainSize(a)
        BY <1>1
      <3>2. AtLeast(k - 0, 0) = k /\ AtMost(m, AtLeast(0 - k, 0)) = 0 /\ AtLeast(0 - (k + m), 0) = 0
        BY DEF AtLeast, AtMost
      <3> QED BY <3>1, <3>2
    <2> QED BY <2>1, <2>2, Zenon DEF AtPos
  <1> HIDE DEF f, s, range
  <1>5. f[0] = s /\ \A n \in 1 .. N : f[n] = WriteRun(fs, range, inum, a, f[n - 1], a.runs[n])
    <2>1. f = [n \in 0 .. N |-> IF n = 0 THEN s ELSE WriteRun(fs, range, inum, a, f[n - 1], a.runs[n])]
      BY <1>3, Zenon DEF Runs
    <2>2. 0 \in 0 .. N /\ \A n \in 1 .. N : n \in 0 .. N /\ n # 0
      BY <1>1
    <2> QED BY <2>1, <2>2, Zenon
  <1>6. PICK g : Lengths(g, a, fs.bs)
    <2>1. Len(a.runs) \in Nat
      BY <1>1
    <2> QED BY <2>1, StreamBeforeIs
  <1> HIDE DEF N
  <1> DEFINE Good(n) == /\ g[n] \in Nat /\ AtPos(f[n], a, g[n])
                        /\ Gains(map, f[n].map, size, inum, AttrPart(fs, a, n, size))
             S == {n \in Nat : n <= N => Good(n)}
  <1>7. 0 \in S
    <2>1. AttrPart(fs, a, 0, size) = {}
      BY OneRunMore, 0 \in Nat
    <2>2. Gains(map, f[0].map, size, inum, AttrPart(fs, a, 0, size))
      BY <1>4, <1>5, <2>1, GainsNothing, Zenon
    <2>3. Good(0)
      BY <1>4, <1>5, <1>6, <2>2 DEF Lengths
    <2> QED BY <2>3
  <1>8. ASSUME NEW n \in Nat, n \in S
        PROVE  n + 1 \in S
    <2> SUFFICES ASSUME n + 1 <= N
                 PROVE  Good(n + 1)
      OBVIOUS
    <2>1. n + 1 \in 1 .. N /\ n <= N /\ (n + 1) - 1 = n
      BY <1>1
    <2>2. Good(n)
      BY <1>8, <2>1
    <2>3. PICK run \in RunType : run = a.runs[n + 1]
      BY <1>1, <2>1 DEF N
    <2>4. PICK t : t = f[n + 1]
      OBVIOUS
    <2>5. PICK u : u = f[n]
      OBVIOUS
    <2>6. PICK pos \in Nat : pos = g[n]
      BY <2>2
    <2>7. t = WriteRun(fs, <<fsBeg, fsEnd>>, inum, a, u, run)
      BY <1>5, <2>1, <2>3, <2>4, <2>5 DEF range
    <2>8. RunReached(fs, fsEnd, size, run)
      BY <2>1, <2>3 DEF RunsReached, N
    <2>9. AtPos(u, a, pos) /\ OnDisk(u.map, size)
          /\ Gains(map, u.map, size, inum, AttrPart(fs, a, n, size))
      BY <2>2, <2>5, <2>6 DEF Gains
    <2>10. AtPos(t, a, pos + StreamLen(fs.bs, run))
           /\ Gains(u.map, t.map, size, inum, RunPart(fs, a, run, pos, size))
      BY <2>7, <2>8, <2>9, WriteRunGains
    <2>11. /\ g[n + 1] = pos + StreamLen(fs.bs, run) /\ StreamBefore(a, fs.bs, n + 1) = pos
      BY <1>6, <2>1, <2>3, <2>6 DEF Lengths, N
    <2>12. g[n + 1] \in Nat
      <3>1. run.len \in Nat
        BY DEF RunType
      <3>2. run.len * fs.bs \in Nat
        BY <1>1, <3>1, Products
      <3>3. StreamLen(fs.bs, run) \in Nat
        BY <3>2 DEF StreamLen
      <3> QED BY <2>11, <3>3
    <2>13. Gains(map, t.map, size, inum,
                 AttrPart(fs, a, n, size) \cup RunPart(fs, a, run, pos, size))
      BY <2>9, <2>10, GainsTwice, Zenon
    <2>14. AttrPart(fs, a, n + 1, size)
               = AttrPart(fs, a, n, size) \cup RunPart(fs, a, run, pos, size)
      <3>1. AttrPart(fs, a, n + 1, size)
                = AttrPart(fs, a, n, size)
                      \cup RunPart(fs, a, a.runs[n + 1], StreamBefore(a, fs.bs, n + 1), size)
        BY OneRunMore
      <3> QED BY <2>3, <2>11, <3>1, Zenon
    <2> QED BY <2>4, <2>10, <2>11, <2>12, <2>13, <2>14, Zenon
  <1>9. N \in S
    <2> HIDE DEF S
    <2> QED BY <1>1, <1>7, <1>8, SetInduction
  <1>10. Gains(map, f[N].map, size, inum, AttrPart(fs, a, N, size))
    BY <1>1, <1>9
  <1> QED BY <1>2, <1>10, Zenon DEF range, N

\* The reference's triples are the same.
StreamAt(fs, a, r, o) ==
    <<StreamBefore(a, fs.bs, r) + o, fs.offset + a.runs[r].addr * fs.bs + o>>

Shifted(a, slack, q) == <<q[1] - a.skiplen - (IF slack THEN mainSize(a) ELSE 0), q[2]>>

Counts(a, slack, q) ==
    /\ q[1] >= a.skiplen
    /\ (q[1] - a.skiplen >= mainSize(a)) = slack
    /\ q[2] < img.size

InRun(fs, a, slack, p, r, o) ==
    /\ a.runs[r].flags = "none"
    /\ Counts(a, slack, StreamAt(fs, a, r, o))
    /\ p = Shifted(a, slack, StreamAt(fs, a, r, o))

LEMMA StreamBytesAre ==
    ASSUME NEW fs, NEW a, NEW slack, NEW p
    PROVE  p \in StreamBytes(fs, a, slack)
               <=> \E r \in DOMAIN a.runs : \E o \in 0 .. a.runs[r].len * fs.bs - 1 :
                       InRun(fs, a, slack, p, r, o)
  <1> DEFINE R == {x \in DOMAIN a.runs : a.runs[x].flags = "none"}
             O(r) == 0 .. a.runs[r].len * fs.bs - 1
             F(r) == {StreamAt(fs, a, r, o) : o \in O(r)}
             U == UNION {F(r) : r \in R}
             V == {q \in U : Counts(a, slack, q)}
  <1>1. StreamBytes(fs, a, slack) = {Shifted(a, slack, q) : q \in V}
    BY Zenon DEF StreamBytes, StreamAt, Shifted, Counts
  <1>2. \A r : r \in R <=> r \in DOMAIN a.runs /\ a.runs[r].flags = "none"
    BY Zenon
  <1>3. \A r, q : q \in F(r) <=> \E o \in O(r) : q = StreamAt(fs, a, r, o)
    BY Zenon
  <1>4. \A q : q \in V <=> q \in U /\ Counts(a, slack, q)
    BY Zenon
  <1>5. \A r : O(r) = 0 .. a.runs[r].len * fs.bs - 1
    BY Zenon
  <1> HIDE DEF R, F, V, O
  <1>6. \A q : q \in U <=> \E r \in R : q \in F(r)
    OBVIOUS
  <1> HIDE DEF U
  <1>7. p \in StreamBytes(fs, a, slack) <=> \E q \in V : p = Shifted(a, slack, q)
    BY <1>1, Zenon
  <1>8. \A q : q \in V <=> /\ Counts(a, slack, q)
                            /\ \E r \in R : \E o \in O(r) : q = StreamAt(fs, a, r, o)
    BY <1>3, <1>4, <1>6
  <1>9. (\E q \in V : p = Shifted(a, slack, q))
            <=> \E r \in R : \E o \in O(r) : /\ Counts(a, slack, StreamAt(fs, a, r, o))
                                            /\ p = Shifted(a, slack, StreamAt(fs, a, r, o))
    BY <1>8
  <1> QED BY <1>2, <1>5, <1>7, <1>9, Zenon DEF InRun

LEMMA StreamBeforeTyped ==
    ASSUME NEW fs \in FsType, NEW a \in AttrType, NEW r \in 1 .. Len(a.runs)
    PROVE  StreamBefore(a, fs.bs, r) \in Nat
  <1> DEFINE N == Len(a.runs)
  <1>1. N \in Nat /\ a.runs \in Seq(RunType) /\ fs.bs \in Nat
    BY FsFields DEF AttrType
  <1>2. PICK g : Lengths(g, a, fs.bs)
    <2>1. Len(a.runs) \in Nat
      BY <1>1
    <2> QED BY <2>1, StreamBeforeIs
  <1>3. /\ g[0] = 0
        /\ \A n \in 1 .. N : /\ g[n] = g[n - 1] + StreamLen(fs.bs, a.runs[n])
                             /\ StreamBefore(a, fs.bs, n) = g[n - 1]
    BY <1>2, Zenon DEF Lengths
  <1>4. ASSUME NEW n \in 1 .. N
        PROVE  StreamLen(fs.bs, a.runs[n]) \in Nat
    <2>1. PICK run \in RunType : run = a.runs[n]
      BY <1>1
    <2>2. run.len \in Nat
      BY DEF RunType
    <2>3. run.len * fs.bs \in Nat
      BY <1>1, <2>2, Products
    <2> QED BY <2>1, <2>3 DEF StreamLen
  <1> HIDE DEF N
  <1> DEFINE S == {n \in Nat : n <= N => g[n] \in Nat}
  <1>5. 0 \in S
    BY <1>3
  <1>6. ASSUME NEW n \in Nat, n \in S
        PROVE  n + 1 \in S
    <2> SUFFICES ASSUME n + 1 <= N
                 PROVE  g[n + 1] \in Nat
      OBVIOUS
    <2>1. n + 1 \in 1 .. N /\ n <= N /\ (n + 1) - 1 = n
      BY <1>1
    <2>2. g[n] \in Nat
      BY <1>6, <2>1
    <2>3. g[n + 1] = g[n] + StreamLen(fs.bs, a.runs[n + 1])
      BY <1>3, <2>1
    <2> QED BY <1>4, <2>1, <2>2, <2>3
  <1>7. Nat \subseteq S
    <2> HIDE DEF S
    <2> QED BY <1>5, <1>6, SetInduction
  <1>8. r - 1 \in Nat /\ r - 1 <= N /\ StreamBefore(a, fs.bs, r) = g[r - 1]
    BY <1>1, <1>3 DEF N
  <1> QED BY <1>7, <1>8

\* A byte of the disk, the o-th from x on: its triple, and its place by the reference.
TripleAt(i, pos, o, skip, main, x) ==
    IF pos + o >= skip + main THEN <<i, TRUE, <<(pos + o) - (skip + main), x + o>>>>
    ELSE <<i, FALSE, <<(pos + o) - skip, x + o>>>>

PlaceAt(slack, pos, o, skip, main, x) ==
    <<(pos + o) - skip - (IF slack THEN main ELSE 0), x + o>>

IsSlack(slack, pos, o, skip, main) == ((pos + o) - skip >= main) = slack

SamePlace(i, slack, p, j, pos, o, skip, main, x) ==
    <<i, slack, p>> = TripleAt(j, pos, o, skip, main, x)
        <=> i = j /\ IsSlack(slack, pos, o, skip, main) /\ p = PlaceAt(slack, pos, o, skip, main, x)

LEMMA OneByte ==
    ASSUME NEW pos \in Nat, NEW o \in Nat, NEW skip \in Nat, NEW main \in Nat, NEW x \in Nat,
           NEW i, NEW j, NEW slack \in BOOLEAN, NEW p
    PROVE  SamePlace(i, slack, p, j, pos, o, skip, main, x)
  <1>1. CASE pos + o >= skip + main
    <2>1. /\ (pos + o) - skip >= main
          /\ (pos + o) - skip - main = (pos + o) - (skip + main)
      BY <1>1
    <2>2. IsSlack(slack, pos, o, skip, main) <=> slack = TRUE
      BY <2>1 DEF IsSlack
    <2>3. TripleAt(j, pos, o, skip, main, x) = <<j, TRUE, <<(pos + o) - (skip + main), x + o>>>>
      BY <1>1 DEF TripleAt
    <2>4. slack = TRUE => PlaceAt(slack, pos, o, skip, main, x) = <<(pos + o) - (skip + main), x + o>>
      BY <2>1 DEF PlaceAt
    <2>5. PICK b, z : b = TRUE /\ z = <<(pos + o) - (skip + main), x + o>>
      OBVIOUS
    <2>6. <<i, slack, p>> = <<j, b, z>> <=> i = j /\ slack = b /\ p = z
      OBVIOUS
    <2> QED BY <2>2, <2>3, <2>4, <2>5, <2>6 DEF SamePlace
  <1>2. CASE ~(pos + o >= skip + main)
    <2>1. /\ ~((pos + o) - skip >= main)
          /\ (pos + o) - skip - 0 = (pos + o) - skip
      BY <1>2
    <2>2. IsSlack(slack, pos, o, skip, main) <=> slack = FALSE
      BY <2>1 DEF IsSlack
    <2>3. TripleAt(j, pos, o, skip, main, x) = <<j, FALSE, <<(pos + o) - skip, x + o>>>>
      BY <1>2 DEF TripleAt
    <2>4. slack = FALSE => PlaceAt(slack, pos, o, skip, main, x) = <<(pos + o) - skip, x + o>>
      BY <2>1 DEF PlaceAt
    <2>5. PICK b, z : b = FALSE /\ z = <<(pos + o) - skip, x + o>>
      OBVIOUS
    <2>6. <<i, slack, p>> = <<j, b, z>> <=> i = j /\ slack = b /\ p = z
      OBVIOUS
    <2> QED BY <2>2, <2>3, <2>4, <2>5, <2>6 DEF SamePlace
  <1> QED BY <1>1, <1>2

LEMMA AttrPartIs ==
    ASSUME NEW fs \in FsType, NEW a \in AttrType, img.size \in Nat, NEW i, NEW slack \in BOOLEAN, NEW p
    PROVE  <<i, slack, p>> \in AttrPart(fs, a, Len(a.runs), img.size)
               <=> i = a.id /\ p \in StreamBytes(fs, a, slack)
  <1> DEFINE N == Len(a.runs)
             size == img.size
             X(r) == a.runs[r].addr * fs.bs + fs.offset
             L(r) == a.runs[r].len * fs.bs
             P(r) == StreamBefore(a, fs.bs, r)
             F(r) == RunPart(fs, a, a.runs[r], P(r), size)
             g == <<i, slack, p>>
             sk == a.skiplen
             main == mainSize(a)
             E(r, o) == TripleAt(a.id, P(r), o, sk, main, X(r))
  <1>1. N \in Nat /\ a.runs \in Seq(RunType) /\ DOMAIN a.runs = 1 .. N /\ fs.bs \in Nat
        /\ fs.offset \in Nat /\ sk \in Nat /\ main \in Nat
    BY FsFields DEF AttrType, mainSize
  <1>2. ASSUME NEW r \in 1 .. N
        PROVE  X(r) \in Nat /\ L(r) \in Nat /\ P(r) \in Nat
               /\ fs.offset + a.runs[r].addr * fs.bs = X(r)
    <2>1. PICK run \in RunType : run = a.runs[r]
      BY <1>1
    <2>2. run.addr \in Nat /\ run.len \in Nat
      BY DEF RunType
    <2>3. run.addr * fs.bs \in Nat /\ run.len * fs.bs \in Nat
      BY <1>1, <2>2, Products
    <2>4. P(r) \in Nat
      BY StreamBeforeTyped
    <2> QED BY <1>1, <2>1, <2>3, <2>4
  <1>3. g \in AttrPart(fs, a, N, size) <=> \E r \in 1 .. N : g \in F(r)
    <2>1. AttrPart(fs, a, N, size) = UNION {F(r) : r \in 1 .. N}
      BY Zenon DEF AttrPart
    <2> HIDE DEF F, g
    <2> QED BY <2>1
  <1>4. ASSUME NEW r \in 1 .. N
        PROVE  g \in F(r) <=> /\ a.runs[r].flags = "none"
                              /\ \E o \in 0 .. L(r) - 1 : P(r) + o >= sk /\ X(r) + o < size /\ g = E(r, o)
    <2>1. F(r) = IF a.runs[r].flags = "none"
                 THEN {E(r, o) : o \in {n \in 0 .. L(r) - 1 : P(r) + n >= sk /\ X(r) + n < size}}
                 ELSE {}
      BY Zenon DEF RunPart, StreamPart, TripleAt
    <2> HIDE DEF F, g, E, L, P, X, sk, main, size
    <2> QED BY <2>1
  <1>5. ASSUME NEW r \in 1 .. N, NEW o \in 0 .. L(r) - 1
        PROVE  /\ P(r) + o >= sk /\ X(r) + o < size /\ g = E(r, o)
               <=> /\ i = a.id /\ Counts(a, slack, StreamAt(fs, a, r, o))
                   /\ p = Shifted(a, slack, StreamAt(fs, a, r, o))
    <2>1. PICK q : q = StreamAt(fs, a, r, o)
      OBVIOUS
    <2>2. o \in Nat /\ X(r) \in Nat /\ P(r) \in Nat
      BY <1>2
    <2>3. q[1] = P(r) + o /\ q[2] = X(r) + o
      <3>1. q[1] = P(r) + o /\ q[2] = fs.offset + a.runs[r].addr * fs.bs + o
        BY <2>1 DEF StreamAt
      <3> QED BY <1>2, <3>1, Zenon
    <2>4. Counts(a, slack, q) <=> /\ P(r) + o >= sk /\ IsSlack(slack, P(r), o, sk, main)
                                  /\ X(r) + o < size
      BY <2>3, Zenon DEF Counts, IsSlack
    <2>5. Shifted(a, slack, q) = PlaceAt(slack, P(r), o, sk, main, X(r))
      BY <2>3, Zenon DEF Shifted, PlaceAt
    <2> HIDE DEF L, P, X, sk, main, size
    <2>6. g = E(r, o) <=> /\ i = a.id /\ IsSlack(slack, P(r), o, sk, main)
                          /\ p = PlaceAt(slack, P(r), o, sk, main, X(r))
      <3>1. PICK y, z, k, m : y = P(r) /\ z = X(r) /\ k = sk /\ m = main
        OBVIOUS
      <3>2. y \in Nat /\ z \in Nat /\ k \in Nat /\ m \in Nat
        BY <1>1, <2>2, <3>1, Zenon
      <3>3. PICK j : j = a.id
        OBVIOUS
      <3>4. SamePlace(i, slack, p, j, y, o, k, m, z)
        BY <2>2, <3>2, OneByte
      <3> QED BY <3>1, <3>3, <3>4, Zenon DEF SamePlace
    <2> HIDE DEF g, E
    <2> QED BY <2>1, <2>4, <2>5, <2>6
  <1>6. p \in StreamBytes(fs, a, slack)
            <=> \E r \in 1 .. N : \E o \in 0 .. L(r) - 1 : InRun(fs, a, slack, p, r, o)
    <2>1. p \in StreamBytes(fs, a, slack)
              <=> \E r \in DOMAIN a.runs : \E o \in 0 .. a.runs[r].len * fs.bs - 1 :
                      InRun(fs, a, slack, p, r, o)
      BY StreamBytesAre, Zenon
    <2> QED BY <1>1, <2>1, Zenon
  <1> HIDE DEF F, g, E, L, P, X, sk, main, size, N
  <1>7. ASSUME NEW r \in 1 .. N
        PROVE  g \in F(r) <=> /\ i = a.id
                              /\ \E o \in 0 .. L(r) - 1 : InRun(fs, a, slack, p, r, o)
    BY <1>4, <1>5, Zenon DEF InRun
  <1>8. g \in AttrPart(fs, a, N, size) <=> i = a.id /\ p \in StreamBytes(fs, a, slack)
    BY <1>3, <1>6, <1>7, Zenon
  <1> QED BY <1>8 DEF g, N, size

-----------------------------------------------------------------------------
(***************************************************************************)
(* The loop over the attributes of a file.                                 *)
(***************************************************************************)

\* The attributes of an inode before outputDiskMap has added their runs.
Bare(attrs) ==
    \A i \in DOMAIN attrs : /\ DOMAIN attrs[i] = {"Resident", "SlackSize", "Runs", "SlackRuns"}
                            /\ attrs[i].Runs = {} /\ attrs[i].SlackRuns = {}

\* What an attribute adds, which is nothing if it is resident.
Adds(fs, a, size) == IF a.nonres THEN AttrPart(fs, a, Len(a.runs), size) ELSE {}

LEMMA WriteAttrGains ==
    ASSUME NEW fs \in FsType, NEW fsBeg \in Int, NEW fsEnd \in Nat, NEW size \in Nat,
           fsBeg <= fs.offset, fsEnd <= size, NEW inum, NEW a \in AttrType,
           RunsReached(fs, fsEnd, size, a), NEW s, OnDisk(s.map, size),
           NEW t, t = writeAttr(fs, <<fsBeg, fsEnd>>, inum, s, a)
    PROVE  Gains(s.map, t.map, size, inum, Adds(fs, a, size))
  <1> DEFINE w == WriteRuns(fs, <<fsBeg, fsEnd>>, inum, a, s.map)
  <1>1. t.map = IF a.nonres THEN w.map ELSE s.map
    BY DEF writeAttr
  <1>2. Gains(s.map, w.map, size, inum, AttrPart(fs, a, Len(a.runs), size))
    BY WriteRunsGains
  <1>3. Gains(s.map, s.map, size, inum, {})
    BY GainsNothing
  <1> HIDE DEF w
  <1> QED BY <1>1, <1>2, <1>3, Zenon DEF Adds

LEMMA WriteAttrBare ==
    ASSUME NEW fs, NEW range, NEW inum, NEW a, NEW s, Bare(s.attrs),
           NEW t, t = writeAttr(fs, range, inum, s, a)
    PROVE  Bare(t.attrs) /\ DOMAIN t.attrs = DOMAIN s.attrs \cup {a.id}
  <1> DEFINE w   == WriteRuns(fs, range, inum, a, s.map)
             old == getOrInsertAttr(s.attrs, a.id)
             res == [old EXCEPT !.Resident = @ \/ a.res]
             two == [res EXCEPT !.SlackSize = w.slackFo]
             F   == {"Resident", "SlackSize", "Runs", "SlackRuns"}
  <1>1. t.attrs = PutAttr(s.attrs, a.id, two) \/ t.attrs = PutAttr(s.attrs, a.id, res)
    BY DEF writeAttr
  <1>2. DOMAIN old = F /\ old.Runs = {} /\ old.SlackRuns = {}
    BY DEF getOrInsertAttr, NewAttrInfo, Bare
  <1> HIDE DEF old
  <1>3. DOMAIN res = F /\ res.Runs = {} /\ res.SlackRuns = {}
    BY <1>2
  <1> HIDE DEF res, w
  <1>4. DOMAIN two = F /\ two.Runs = {} /\ two.SlackRuns = {}
    BY <1>3
  <1> HIDE DEF two
  <1>5. PICK info : /\ t.attrs = PutAttr(s.attrs, a.id, info)
                    /\ DOMAIN info = F /\ info.Runs = {} /\ info.SlackRuns = {}
    BY <1>1, <1>3, <1>4, Zenon
  <1>6. /\ DOMAIN t.attrs = DOMAIN s.attrs \cup {a.id}
        /\ \A i \in DOMAIN t.attrs : t.attrs[i] = IF i = a.id THEN info ELSE s.attrs[i]
    BY <1>5 DEF PutAttr
  <1>7. \A i \in DOMAIN t.attrs : t.attrs[i] = info \/ (i \in DOMAIN s.attrs /\ t.attrs[i] = s.attrs[i])
    BY <1>6
  <1> QED BY <1>5, <1>6, <1>7, Zenon DEF Bare

\* What the first n attributes add.
FilePart(fs, attrs, n, size) == UNION {Adds(fs, attrs[m], size) : m \in 1 .. n}

IdsOf(attrs, n) == {attrs[m].id : m \in 1 .. n}

LEMMA OneIdMore ==
    ASSUME NEW attrs, NEW n \in Nat
    PROVE  IdsOf(attrs, 0) = {} /\ IdsOf(attrs, n + 1) = IdsOf(attrs, n) \cup {attrs[n + 1].id}
  <1>1. 1 .. n + 1 = (1 .. n) \cup {n + 1} /\ 1 .. 0 = {}
    OBVIOUS
  <1> QED BY <1>1 DEF IdsOf

LEMMA NoAttrs == \A fs, attrs, size : FilePart(fs, attrs, 0, size) = {}
  <1> SUFFICES ASSUME NEW fs, NEW attrs, NEW size
               PROVE  FilePart(fs, attrs, 0, size) = {}
    OBVIOUS
  <1>1. 1 .. 0 = {}
    OBVIOUS
  <1> QED BY <1>1 DEF FilePart

IsUnion(S, A, B) == S = A \cup B

LEMMA OneAttrMore ==
    ASSUME NEW fs, NEW attrs, NEW size, NEW n \in Nat
    PROVE  IsUnion(FilePart(fs, attrs, n + 1, size), FilePart(fs, attrs, n, size),
                   Adds(fs, attrs[n + 1], size))
  <1> DEFINE F(r) == Adds(fs, attrs[r], size)
  <1>1. \A k : FilePart(fs, attrs, k, size) = UNION {F(r) : r \in 1 .. k}
    BY Zenon DEF FilePart
  <1> HIDE DEF F
  <1>2. 1 .. n + 1 = (1 .. n) \cup {n + 1}
    OBVIOUS
  <1>3. UNION {F(r) : r \in 1 .. n + 1} = (UNION {F(r) : r \in 1 .. n}) \cup F(n + 1)
    BY <1>2
  <1> QED BY <1>1, <1>3, Zenon DEF F, IsUnion

\* The attributes of an inode, once those with the IDs are among them.
Fills(attrs, new, ids) == Bare(new) /\ DOMAIN new = DOMAIN attrs \cup ids

LEMMA WriteAttrsBare ==
    ASSUME NEW fs, NEW range, NEW inum, NEW T, NEW attrs \in Seq(T), NEW s, Bare(s.attrs),
           NEW w, w = writeAttrs(fs, range, inum, attrs, s)
    PROVE  Fills(s.attrs, w.attrs, IdsOf(attrs, Len(attrs)))
  <1> DEFINE N == Len(attrs)
             f == CHOOSE g : Attrs(g, fs, range, inum, attrs, s, N)
  <1>1. N \in Nat
    OBVIOUS
  <1>2. writeAttrs(fs, range, inum, attrs, s) = f[N]
    BY Zenon DEF writeAttrs, Attrs
  <1>3. Attrs(f, fs, range, inum, attrs, s, N)
    BY <1>1, AttrsExist, Zenon
  <1> HIDE DEF f
  <1>5. f[0] = s /\ \A n \in 1 .. N : f[n] = writeAttr(fs, range, inum, f[n - 1], attrs[n])
    <2>1. f = [n \in 0 .. N |-> IF n = 0 THEN s ELSE writeAttr(fs, range, inum, f[n - 1], attrs[n])]
      BY <1>3, Zenon DEF Attrs
    <2>2. 0 \in 0 .. N /\ \A n \in 1 .. N : n \in 0 .. N /\ n # 0
      BY <1>1
    <2> QED BY <2>1, <2>2, Zenon
  <1> HIDE DEF N
  <1> DEFINE Good(n, t) == Bare(t.attrs) /\ DOMAIN t.attrs = DOMAIN s.attrs \cup IdsOf(attrs, n)
             S == {n \in Nat : n <= N => Good(n, f[n])}
  <1>6. 0 \in S
    <2>1. IdsOf(attrs, 0) = {}
      BY OneIdMore, 0 \in Nat
    <2>2. Good(0, s)
      BY <2>1
    <2> QED BY <1>5, <2>2
  <1>7. ASSUME NEW n \in Nat, n \in S
        PROVE  n + 1 \in S
    <2> SUFFICES ASSUME n + 1 <= N
                 PROVE  Good(n + 1, f[n + 1])
      OBVIOUS
    <2>1. n + 1 \in 1 .. N /\ n <= N /\ (n + 1) - 1 = n
      BY <1>1
    <2>2. PICK t, u, a : t = f[n + 1] /\ u = f[n] /\ a = attrs[n + 1]
      OBVIOUS
    <2>3. Good(n, u)
      BY <1>7, <2>1, <2>2
    <2>4. t = writeAttr(fs, range, inum, u, a)
      BY <1>5, <2>1, <2>2
    <2>5. Bare(t.attrs) /\ DOMAIN t.attrs = DOMAIN u.attrs \cup {a.id}
      BY <2>3, <2>4, WriteAttrBare
    <2>6. IdsOf(attrs, n + 1) = IdsOf(attrs, n) \cup {attrs[n + 1].id}
      BY OneIdMore
    <2>7. DOMAIN t.attrs = DOMAIN s.attrs \cup IdsOf(attrs, n + 1)
      BY <2>2, <2>3, <2>5, <2>6
    <2> QED BY <2>2, <2>5, <2>7, Zenon
  <1>8. N \in S
    <2> HIDE DEF S
    <2> QED BY <1>1, <1>6, <1>7, SetInduction
  <1>9. Good(N, f[N])
    BY <1>1, <1>8
  <1> HIDE DEF S
  <1> QED BY <1>2, <1>9, Zenon DEF N, Fills

AttrsReached(fs, fsEnd, size, attrs) ==
    \A n \in 1 .. Len(attrs) : RunsReached(fs, fsEnd, size, attrs[n])

LEMMA WriteAttrsGains ==
    ASSUME NEW fs \in FsType, NEW fsBeg \in Int, NEW fsEnd \in Nat, NEW size \in Nat,
           fsBeg <= fs.offset, fsEnd <= size, NEW inum, NEW attrs \in Seq(AttrType),
           AttrsReached(fs, fsEnd, size, attrs), NEW s, OnDisk(s.map, size),
           NEW w, w = writeAttrs(fs, <<fsBeg, fsEnd>>, inum, attrs, s)
    PROVE  Gains(s.map, w.map, size, inum, FilePart(fs, attrs, Len(attrs), size))
  <1> DEFINE range == <<fsBeg, fsEnd>>
             N     == Len(attrs)
             f     == CHOOSE g : Attrs(g, fs, range, inum, attrs, s, N)
  <1>1. N \in Nat /\ \A n \in 1 .. N : attrs[n] \in AttrType
    BY Members
  <1>2. writeAttrs(fs, range, inum, attrs, s) = f[N]
    BY Zenon DEF writeAttrs, Attrs
  <1>3. Attrs(f, fs, range, inum, attrs, s, N)
    BY <1>1, AttrsExist, Zenon
  <1> HIDE DEF f, range
  <1>5. f[0] = s /\ \A n \in 1 .. N : f[n] = writeAttr(fs, range, inum, f[n - 1], attrs[n])
    <2>1. f = [n \in 0 .. N |-> IF n = 0 THEN s ELSE writeAttr(fs, range, inum, f[n - 1], attrs[n])]
      BY <1>3, Zenon DEF Attrs
    <2>2. 0 \in 0 .. N /\ \A n \in 1 .. N : n \in 0 .. N /\ n # 0
      BY <1>1
    <2> QED BY <2>1, <2>2, Zenon
  <1> HIDE DEF N
  <1> DEFINE Good(n, t) == Gains(s.map, t.map, size, inum, FilePart(fs, attrs, n, size))
             S == {n \in Nat : n <= N => Good(n, f[n])}
  <1>6. 0 \in S
    <2>1. FilePart(fs, attrs, 0, size) = {}
      BY NoAttrs
    <2>2. Gains(s.map, s.map, size, inum, FilePart(fs, attrs, 0, size))
      BY <2>1, GainsNothing, Zenon
    <2>3. Good(0, s)
      BY <2>1, <2>2
    <2> QED BY <1>5, <2>3
  <1>7. ASSUME NEW n \in Nat, n \in S
        PROVE  n + 1 \in S
    <2> SUFFICES ASSUME n + 1 <= N
                 PROVE  Good(n + 1, f[n + 1])
      OBVIOUS
    <2>1. n + 1 \in 1 .. N /\ n <= N /\ (n + 1) - 1 = n
      BY <1>1
    <2>2. PICK t, u : t = f[n + 1] /\ u = f[n]
      OBVIOUS
    <2>3. PICK a \in AttrType : a = attrs[n + 1]
      BY <1>1, <2>1
    <2>4. Good(n, u)
      BY <1>7, <2>1, <2>2
    <2>5. t = writeAttr(fs, <<fsBeg, fsEnd>>, inum, u, a)
      BY <1>5, <2>1, <2>2, <2>3 DEF range
    <2>6. RunsReached(fs, fsEnd, size, a)
      BY <2>1, <2>3 DEF AttrsReached, N
    <2>7. OnDisk(u.map, size)
      BY <2>4 DEF Gains
    <2>8. Gains(u.map, t.map, size, inum, Adds(fs, a, size))
      BY <2>5, <2>6, <2>7, WriteAttrGains
    <2>10. Gains(s.map, t.map, size, inum, FilePart(fs, attrs, n, size) \cup Adds(fs, a, size))
      BY <2>4, <2>8, GainsTwice, Zenon
    <2>11. FilePart(fs, attrs, n + 1, size) = FilePart(fs, attrs, n, size) \cup Adds(fs, attrs[n + 1], size)
      <3>1. IsUnion(FilePart(fs, attrs, n + 1, size), FilePart(fs, attrs, n, size),
                    Adds(fs, attrs[n + 1], size))
        BY OneAttrMore, Zenon
      <3> QED BY <3>1, Zenon DEF IsUnion
    <2>12. Gains(s.map, t.map, size, inum, FilePart(fs, attrs, n + 1, size))
      BY <2>3, <2>10, <2>11, Zenon
    <2> QED BY <2>2, <2>12, Zenon
  <1>8. N \in S
    <2> HIDE DEF S
    <2> QED BY <1>1, <1>6, <1>7, SetInduction
  <1>9. Good(N, f[N])
    BY <1>1, <1>8
  <1> HIDE DEF S
  <1> QED BY <1>2, <1>9, Zenon DEF range, N

-----------------------------------------------------------------------------
(***************************************************************************)
(* What the records say of an inode, and a map that agrees with them.      *)
(***************************************************************************)

\* Record r has place p in the i-th attribute of inode inum of FS index k.
Owns(r, k, inum, size, i, slack, p) ==
    /\ r.link = <<k, inum>> /\ r.volIndex = k
    /\ <<i, slack, p>> \in FilePart(r.fs, r.attrs, Len(r.attrs), size)

SomeOwns(recs, k, inum, size, i, slack, p) ==
    \E n \in DOMAIN recs : Owns(recs[n], k, inum, size, i, slack, p)

Faithful(map, recs, k, size) ==
    /\ OnDisk(map, size)
    /\ \A inum, i, slack : \A p :
           p \in Places(map, inum, i, slack) <=> SomeOwns(recs, k, inum, size, i, slack, p)

\* One more record, one more owner.
LEMMA OwnsMore ==
    ASSUME NEW T, NEW recs \in Seq(T), NEW r,
           NEW k, NEW inum, NEW size, NEW i, NEW slack, NEW p
    PROVE  SomeOwns(Append(recs, r), k, inum, size, i, slack, p)
               <=> SomeOwns(recs, k, inum, size, i, slack, p) \/ Owns(r, k, inum, size, i, slack, p)
  <1> DEFINE new == Append(recs, r)
             O(x) == Owns(x, k, inum, size, i, slack, p)
  <1>1. /\ DOMAIN new = DOMAIN recs \cup {Len(recs) + 1}
        /\ \A n \in DOMAIN recs : new[n] = recs[n]
        /\ new[Len(recs) + 1] = r
    BY OneMoreRecord
  <1> HIDE DEF new, O
  <1>2. (\E n \in DOMAIN new : O(new[n])) <=> (\E n \in DOMAIN recs : O(recs[n])) \/ O(r)
    BY <1>1
  <1> QED BY <1>2, Zenon DEF SomeOwns, O, new

LEMMA FaithfulBeside ==
    ASSUME NEW T, NEW recs \in Seq(T), NEW r, NEW map, NEW k, NEW size,
           Faithful(map, recs, k, size), \A inum : r.link # <<k, inum>> \/ r.volIndex # k
    PROVE  Faithful(map, Append(recs, r), k, size)
  <1>1. \A inum, i, slack : \A p : ~Owns(r, k, inum, size, i, slack, p)
    BY Zenon DEF Owns
  <1>2. \A inum, i, slack : \A p :
            SomeOwns(Append(recs, r), k, inum, size, i, slack, p)
                <=> SomeOwns(recs, k, inum, size, i, slack, p)
    BY <1>1, OwnsMore, Zenon
  <1> QED BY <1>2, Zenon DEF Faithful

LEMMA FaithfulAdds ==
    ASSUME NEW T, NEW recs \in Seq(T), NEW r, NEW map, NEW new, NEW k, NEW size, NEW inum,
           Faithful(map, recs, k, size), r.link = <<k, inum>>, r.volIndex = k,
           Gains(map, new, size, inum, FilePart(r.fs, r.attrs, Len(r.attrs), size))
    PROVE  Faithful(new, Append(recs, r), k, size)
  <1>1. \A j, i, slack : \A p :
            Owns(r, k, j, size, i, slack, p)
                <=> j = inum /\ <<i, slack, p>> \in FilePart(r.fs, r.attrs, Len(r.attrs), size)
    <2>1. \A j : <<k, inum>> = <<k, j>> <=> j = inum
      OBVIOUS
    <2> QED BY <2>1, Zenon DEF Owns
  <1>2. \A j, i, slack : \A p :
            SomeOwns(Append(recs, r), k, j, size, i, slack, p)
                <=> SomeOwns(recs, k, j, size, i, slack, p) \/ Owns(r, k, j, size, i, slack, p)
    BY OwnsMore, Zenon
  <1> QED BY <1>1, <1>2, Zenon DEF Faithful, Gains

-----------------------------------------------------------------------------
(***************************************************************************)
(* What writeFile adds, when nothing is thrown.                            *)
(***************************************************************************)
InodeBare(inode) == DOMAIN inode = {"DirentIDs", "Attrs"} /\ Bare(inode.Attrs)

BareMap(rev) == \A key \in DOMAIN rev : InodeBare(rev[key])

\* Record r is of file f, as written in the context.
RecordOf(r, ctx, f) ==
    /\ r.fs = ctx.fs /\ r.volIndex = ctx.fsIndex /\ r.attrs = InUse(f)
    /\ r.link = IF HasMeta(f) THEN <<ctx.vol, f.meta.addr>> ELSE NoLink

LEMMA WriteFileAdds ==
    ASSUME ~Faults, NEW ctx, NEW dirs, NEW f, writeFile(ctx, dirs, f)
    PROVE  /\ \E r : Out' = Append(Out, r) /\ RecordOf(r, ctx, f)
           /\ \/ HasMeta(f) /\ \E entryId : RecordMeta(ctx, entryId, f, Len(InUse(f)))
              \/ ~HasMeta(f) /\ AllocatedRuns' = ctx.maps /\ ReverseMap' = ReverseMap
  <1> DEFINE rec == Record(ctx, back(dirs), f)
  <1>1. /\ Out' = Append(Out, rec)
        /\ \/ HasMeta(f) /\ RecordMeta(ctx, rec.id, f, Len(InUse(f)))
           \/ ~HasMeta(f) /\ AllocatedRuns' = ctx.maps /\ ReverseMap' = ReverseMap
    BY Zenon DEF writeFile
  <1>2. RecordOf(rec, ctx, f)
    BY DEF Record, RecordOf
  <1> HIDE DEF rec
  <1> QED BY <1>1, <1>2, Zenon

\* The inodes have, under key, the attributes with the IDs, and no attribute is lost.
Gathered(rev, new, key, ids) ==
    /\ BareMap(new) /\ key \in DOMAIN new /\ ids \subseteq DOMAIN new[key].Attrs
    /\ \A x \in DOMAIN rev : x \in DOMAIN new /\ DOMAIN rev[x].Attrs \subseteq DOMAIN new[x].Attrs

LEMMA WholeSeq ==
    ASSUME NEW T, NEW s \in Seq(T)
    PROVE  SubSeq(s, 1, Len(s)) = s
  OBVIOUS

LEMMA RecordMetaGathers ==
    ASSUME NEW ctx, NEW entryId, NEW f, NEW T, InUse(f) \in Seq(T), BareMap(ReverseMap),
           RecordMeta(ctx, entryId, f, Len(InUse(f)))
    PROVE  Gathered(ReverseMap, ReverseMap', <<ctx.vol, f.meta.addr>>,
                    IdsOf(InUse(f), Len(InUse(f))))
  <1> DEFINE key   == <<ctx.vol, f.meta.addr>>
             inode == inodeAt(ReverseMap, key)
             kept  == InUse(f)
             s     == [attrs |-> inode.Attrs, map |-> ctx.maps[ctx.key]]
             w     == writeAttrs(ctx.fs, ctx.range, f.meta.addr, SubSeq(kept, 1, Len(kept)), s)
             made  == [DirentIDs |-> Append(inode.DirentIDs, entryId), Attrs |-> w.attrs]
  <1>1. ReverseMap' = [x \in DOMAIN ReverseMap \cup {key} |->
                          IF x = key THEN made ELSE ReverseMap[x]]
    BY Zenon DEF RecordMeta
  <1>2. SubSeq(kept, 1, Len(kept)) = kept
    BY WholeSeq
  <1>3. Bare(inode.Attrs)
    <2>1. Bare(NoInode.Attrs)
      BY DEF Bare, NoInode
    <2> QED BY <2>1, Zenon DEF inodeAt, BareMap, InodeBare
  <1>4. s.attrs = inode.Attrs
    OBVIOUS
  <1> HIDE DEF s, inode
  <1>5. w = writeAttrs(ctx.fs, ctx.range, f.meta.addr, kept, s)
    BY <1>2
  <1> HIDE DEF kept, w
  <1>6. PICK v : v = w
    OBVIOUS
  <1>7. Bare(v.attrs) /\ DOMAIN v.attrs = DOMAIN s.attrs \cup IdsOf(kept, Len(kept))
    <2>1. kept \in Seq(T)
      BY DEF kept
    <2>2. v = writeAttrs(ctx.fs, ctx.range, f.meta.addr, kept, s) /\ Bare(s.attrs)
      BY <1>3, <1>4, <1>5, <1>6
    <2>3. Fills(s.attrs, v.attrs, IdsOf(kept, Len(kept)))
      BY <2>1, <2>2, WriteAttrsBare, Zenon
    <2> QED BY <2>3, Zenon DEF Fills
  <1>8. DOMAIN made = {"DirentIDs", "Attrs"} /\ made.Attrs = v.attrs
    BY <1>6
  <1> HIDE DEF made, key
  <1>9. InodeBare(made)
    BY <1>7, <1>8, Zenon DEF InodeBare
  <1>10. \A x \in DOMAIN ReverseMap' : ReverseMap'[x] = made \/ (x \in DOMAIN ReverseMap /\ ReverseMap'[x] = ReverseMap[x])
    BY <1>1
  <1>11. BareMap(ReverseMap')
    BY <1>9, <1>10, Zenon DEF BareMap
  <1>12. key \in DOMAIN ReverseMap' /\ ReverseMap'[key] = made
    BY <1>1
  <1>13. key \in DOMAIN ReverseMap => inode.Attrs = ReverseMap[key].Attrs
    BY Zenon DEF inode, inodeAt
  <1>14. ASSUME NEW x \in DOMAIN ReverseMap
         PROVE  x \in DOMAIN ReverseMap' /\ DOMAIN ReverseMap[x].Attrs \subseteq DOMAIN ReverseMap'[x].Attrs
    <2>1. CASE x = key
      BY <1>4, <1>7, <1>8, <1>12, <1>13, <1>14, <2>1
    <2>2. CASE x # key
      BY <1>1, <2>2
    <2> QED BY <2>1, <2>2
  <1>15. IdsOf(kept, Len(kept)) \subseteq DOMAIN ReverseMap'[key].Attrs
    BY <1>7, <1>8, <1>12
  <1> QED BY <1>11, <1>12, <1>14, <1>15, Zenon DEF Gathered, key, kept

-----------------------------------------------------------------------------
(***************************************************************************)
(* The invariant: the maps agree with the records at all times, and until  *)
(* outputDiskMap adds the runs, the inodes have all attributes, and bare.  *)
(***************************************************************************)
OwnLink(r) == r.link # NoLink /\ r.volIndex = r.link[1]

Known(r, i) ==
    OwnLink(r) => /\ r.fs \in FsType /\ r.attrs \in Seq(AttrType)
                  /\ \E k \in FsIndexes(i) : \E inum : r.link = <<k, inum>>

Filed(r, rev) ==
    OwnLink(r) => r.link \in DOMAIN rev /\ IdsOf(r.attrs, Len(r.attrs)) \subseteq DOMAIN rev[r.link].Attrs

FaithfulMaps == \A k \in FsIndexes(img) : Faithful(mapOf(k), Out, k, img.size)

KnownInv == \A n \in DOMAIN Out : Known(Out[n], img)

FiledInv == BareMap(ReverseMap) /\ \A n \in DOMAIN Out : Filed(Out[n], ReverseMap)

GatherInv == FaithfulMaps /\ KnownInv /\ FiledInv

LEMMA FiledMore ==
    ASSUME NEW r, NEW rev, NEW new, Filed(r, rev), NEW key, NEW ids, Gathered(rev, new, key, ids)
    PROVE  Filed(r, new)
  BY DEF Filed, Gathered

\* One more record, of which the maps and the inodes have what they should.
LEMMA GatherMore ==
    ASSUME ResultsTyped, GatherInv, img' = img, NEW r, Out' = Append(Out, r), Known(r, img),
           Filed(r, ReverseMap'), BareMap(ReverseMap'),
           \A x \in DOMAIN Out : Filed(Out[x], ReverseMap'),
           \A k \in FsIndexes(img) : Faithful(mapOf(k)', Out', k, img.size)
    PROVE  GatherInv'
  <1>1. PICK T : Out \in Seq(T)
    BY DEF ResultsTyped
  <1>2. PICK new : new = Out'
    OBVIOUS
  <1>3. /\ DOMAIN new = DOMAIN Out \cup {Len(Out) + 1}
        /\ \A n \in DOMAIN Out : new[n] = Out[n]
        /\ new[Len(Out) + 1] = r
    BY <1>1, <1>2, OneMoreRecord
  <1>4. \A n \in DOMAIN new : new[n] = r \/ \E x \in DOMAIN Out : new[n] = Out[x]
    BY <1>3
  <1>5. \A n \in DOMAIN new : Known(new[n], img)
    BY <1>4, Zenon DEF GatherInv, KnownInv
  <1>6. \A n \in DOMAIN new : Filed(new[n], ReverseMap')
    BY <1>4, Zenon
  <1>7. KnownInv'
    BY <1>2, <1>5, Zenon DEF KnownInv
  <1>8. FiledInv'
    BY <1>2, <1>6, Zenon DEF FiledInv
  <1>9. FaithfulMaps'
    BY Zenon DEF FaithfulMaps
  <1> QED BY <1>7, <1>8, <1>9 DEF GatherInv

\* A record without data in a file system.
LEMMA GatherBeside ==
    ASSUME ResultsTyped, GatherInv, img' = img, SameMapOf, NEW r, Out' = Append(Out, r), ~OwnLink(r),
           \A k \in FsIndexes(img) : \A inum : r.link # <<k, inum>> \/ r.volIndex # k,
           BareMap(ReverseMap'), \A x \in DOMAIN Out : Filed(Out[x], ReverseMap')
    PROVE  GatherInv'
  <1>1. PICK T : Out \in Seq(T)
    BY DEF ResultsTyped
  <1>2. ASSUME NEW k \in FsIndexes(img)
        PROVE  Faithful(mapOf(k)', Out', k, img.size)
    <2>1. PICK map, size : map = mapOf(k) /\ size = img.size
      OBVIOUS
    <2>2. Faithful(map, Out, k, size)
      BY <2>1 DEF GatherInv, FaithfulMaps
    <2>3. \A inum : r.link # <<k, inum>> \/ r.volIndex # k
      OBVIOUS
    <2>4. Faithful(map, Append(Out, r), k, size)
      BY <1>1, <2>2, <2>3, FaithfulBeside
    <2>5. mapOf(k)' = map
      BY <2>1 DEF SameMapOf
    <2> QED BY <2>1, <2>4, <2>5
  <1>3. Known(r, img) /\ Filed(r, ReverseMap')
    BY DEF Known, Filed
  <1> QED BY <1>2, <1>3, GatherMore

\* A file of the file system at hand, all of whose data is inside of the range.
LEMMA WriteFileGathers ==
    ASSUME ~Faults, ResultsTyped, GatherInv, img' = img, img.size \in Nat,
           NEW fs \in FsType, NEW fsBeg \in Int, NEW fsEnd \in Nat,
           fsBeg <= fs.offset, fsEnd <= img.size,
           NumVols \in FsIndexes(img), NumVols \in DOMAIN AllocatedRuns,
           NEW dirs, NEW f, NEW ctx, ctx = Context(fs, <<fsBeg, fsEnd>>, AllocatedRuns),
           writeFile(ctx, dirs, f),
           HasMeta(f) => /\ InUse(f) \in Seq(AttrType)
                         /\ AttrsReached(fs, fsEnd, img.size, InUse(f))
    PROVE  GatherInv'
  <1>1. /\ ctx.fs = fs /\ ctx.range = <<fsBeg, fsEnd>> /\ ctx.key = NumVols
        /\ ctx.maps = AllocatedRuns /\ ctx.fsIndex = NumVols /\ ctx.vol = NumVols
    BY DEF Context
  <1>2. PICK r : Out' = Append(Out, r) /\ RecordOf(r, ctx, f)
    BY WriteFileAdds, Zenon
  <1>3. BareMap(ReverseMap) /\ \A x \in DOMAIN Out : Filed(Out[x], ReverseMap)
    BY DEF GatherInv, FiledInv
  <1>4. CASE ~HasMeta(f)
    <2>1. AllocatedRuns' = AllocatedRuns /\ ReverseMap' = ReverseMap
      BY <1>1, <1>4, WriteFileAdds, Zenon
    <2>2. r.link = NoLink
      BY <1>2, <1>4 DEF RecordOf
    <2>3. SameMapOf
      BY <2>1, SameRunsSameMap
    <2>4. ~OwnLink(r) /\ \A k \in FsIndexes(img) : \A inum : r.link # <<k, inum>> \/ r.volIndex # k
      <3>1. \A k, inum : NoLink # <<k, inum>>
        BY DEF NoLink
      <3> QED BY <2>2, <3>1, Zenon DEF OwnLink
    <2>5. BareMap(ReverseMap') /\ \A x \in DOMAIN Out : Filed(Out[x], ReverseMap')
      BY <1>3, <2>1
    <2> QED BY <1>2, <2>3, <2>4, <2>5, GatherBeside
  <1>5. CASE HasMeta(f)
    <2>1. PICK entryId : RecordMeta(ctx, entryId, f, Len(InUse(f)))
      BY <1>5, WriteFileAdds, Zenon
    <2>2. PICK inum, attrs, size, k : inum = f.meta.addr /\ attrs = InUse(f) /\ size = img.size /\ k = NumVols
      OBVIOUS
    <2>3. /\ r.fs = fs /\ r.volIndex = k /\ r.attrs = attrs /\ r.link = <<k, inum>>
      BY <1>1, <1>2, <1>5, <2>2 DEF RecordOf
    <2>4. Gathered(ReverseMap, ReverseMap', <<k, inum>>, IdsOf(attrs, Len(attrs)))
      BY <1>1, <1>3, <1>5, <2>1, <2>2, RecordMetaGathers
    <2>5. /\ BareMap(ReverseMap') /\ \A x \in DOMAIN Out : Filed(Out[x], ReverseMap')
      BY <1>3, <2>4, FiledMore, Zenon DEF Gathered
    <2>6. Filed(r, ReverseMap')
      BY <2>3, <2>4 DEF Filed, Gathered
    <2>7. attrs \in Seq(AttrType) /\ AttrsReached(fs, fsEnd, size, attrs)
      BY <1>5, <2>2
    <2>8. Known(r, img)
      BY <2>2, <2>3, <2>7, Zenon DEF Known
    <2>9. PICK T : Out \in Seq(T)
      BY DEF ResultsTyped
    <2>10. PICK map : map = AllocatedRuns[k]
      OBVIOUS
    <2>11. Faithful(map, Out, k, size) /\ mapOf(k) = map
      BY <2>2, <2>10 DEF GatherInv, FaithfulMaps, mapOf
    <2>12. PICK new : /\ Gains(map, new, size, inum, FilePart(fs, attrs, Len(attrs), size))
                      /\ OneMap(AllocatedRuns, AllocatedRuns', k, new)
      <3>1. PICK old : OneMap(ctx.maps, AllocatedRuns', ctx.key,
                           writeAttrs(ctx.fs, ctx.range, f.meta.addr, SubSeq(InUse(f), 1, Len(InUse(f))),
                                      [attrs |-> old, map |-> ctx.maps[ctx.key]]).map)
        BY <2>1, RecordMetaMaps
      <3>2. SubSeq(InUse(f), 1, Len(InUse(f))) = attrs
        BY <2>2, <2>7, WholeSeq
      <3>3. PICK s : s = [attrs |-> old, map |-> map]
        OBVIOUS
      <3>4. PICK w : w = writeAttrs(fs, <<fsBeg, fsEnd>>, inum, attrs, s)
        OBVIOUS
      <3>5. OneMap(AllocatedRuns, AllocatedRuns', k, w.map)
        BY <1>1, <2>2, <2>10, <3>1, <3>2, <3>3, <3>4
      <3>6. s.map = map
        BY <3>3
      <3>7. OnDisk(s.map, size)
        BY <2>11, <3>6 DEF Faithful
      <3>8. size \in Nat /\ fsEnd <= size
        BY <2>2
      <3>9. Gains(s.map, w.map, size, inum, FilePart(fs, attrs, Len(attrs), size))
        BY <2>7, <3>4, <3>7, <3>8, WriteAttrsGains
      <3> QED BY <3>5, <3>6, <3>9
    <2>13. ASSUME NEW j \in FsIndexes(img)
           PROVE  Faithful(mapOf(j)', Out', j, size)
      <3>1. CASE j = k
        <4>1. Gains(map, new, size, inum, FilePart(r.fs, r.attrs, Len(r.attrs), size))
          BY <2>3, <2>12
        <4>2. r.link = <<k, inum>> /\ r.volIndex = k
          BY <2>3
        <4>3. Faithful(new, Append(Out, r), k, size)
          BY <2>9, <2>11, <4>1, <4>2, FaithfulAdds
        <4>4. mapOf(j)' = new
          BY <2>2, <2>12, <3>1 DEF mapOf, OneMap
        <4> QED BY <1>2, <3>1, <4>3, <4>4
      <3>2. CASE j # k
        <4>1. mapOf(j)' = mapOf(j)
          BY <2>12, <3>2, Zenon DEF mapOf, OneMap
        <4>2. PICK other : other = mapOf(j)
          OBVIOUS
        <4>3. Faithful(other, Out, j, size)
          BY <2>2, <4>2 DEF GatherInv, FaithfulMaps
        <4>4. \A x : r.link # <<j, x>> \/ r.volIndex # j
          BY <2>3, <3>2
        <4>5. Faithful(other, Append(Out, r), j, size)
          BY <2>9, <4>3, <4>4, FaithfulBeside
        <4> QED BY <1>2, <4>1, <4>2, <4>5
      <3> QED BY <3>1, <3>2
    <2> QED BY <1>2, <2>2, <2>5, <2>6, <2>8, <2>13, GatherMore
  <1> QED BY <1>4, <1>5

LEMMA GatherSame ==
    ASSUME GatherInv, img' = img, SameMapOf, UNCHANGED <<Out, ReverseMap>>
    PROVE  GatherInv'
  <1>1. FaithfulMaps'
    BY DEF GatherInv, FaithfulMaps, SameMapOf
  <1>2. KnownInv'
    BY Zenon DEF GatherInv, KnownInv
  <1>3. FiledInv'
    BY Zenon DEF GatherInv, FiledInv
  <1> QED BY <1>1, <1>2, <1>3 DEF GatherInv

-----------------------------------------------------------------------------
(***************************************************************************)
(* The steps that write records.                                           *)
(***************************************************************************)
LEMMA FilterVolGathers ==
    ASSUME ~Faults, TypeInv, GatherInv, FilterVol
    PROVE  GatherInv'
  <1> DEFINE v    == img.vols[vol + 1]
             k    == NumVols + 1
             root == SubSeq(Dirs, 1, 1)
             ds   == IF InUnallocated THEN root ELSE setCurDir(root, <<>>)
             ctx  == [vol |-> k, fsIndex |-> 0, fs |-> ImageAsFs, range |-> <<0, img.size>>,
                      key |-> 0, maps |-> WithMap(0)]
             f    == VolumeEntry(v, k, img.sectorSize)
  <1>1. UNCHANGED results \/ writeFile(ctx, ds, f)
    BY Zenon DEF FilterVol
  <1>2. img' = img /\ vol < Len(img.vols)
    BY DEF FilterVol, args
  <1>3. SameMapOf
    BY FilterVolSameMap
  <1>4. ctx.vol = k /\ ctx.fsIndex = 0
    OBVIOUS
  <1>5. k # 0 /\ img \in Images /\ img.vols # <<>>
    BY <1>2, VolumeHere DEF TypeInv, ControlTyped
  <1>6. 0 \notin FsIndexes(img)
    BY <1>5, NoFsZero
  <1>7. ResultsTyped
    BY DEF TypeInv
  <1>8. CASE UNCHANGED results
    BY <1>2, <1>3, <1>8, GatherSame DEF results
  <1>9. PICK a : f.meta.attrs = <<a>> /\ a.inuse
    BY DEF VolumeEntry, DummyAttr
  <1> HIDE DEF ctx, f, k, ds
  <1>10. CASE writeFile(ctx, ds, f)
    <2>1. PICK r : Out' = Append(Out, r) /\ RecordOf(r, ctx, f)
      BY <1>10, WriteFileAdds, Zenon
    <2>2. r.volIndex = 0 /\ (r.link = NoLink \/ r.link = <<k, f.meta.addr>>)
      BY <1>4, <2>1 DEF RecordOf
    <2>3. ~OwnLink(r)
      BY <1>5, <2>2 DEF OwnLink
    <2>4. \A j \in FsIndexes(img) : \A inum : r.link # <<j, inum>> \/ r.volIndex # j
      BY <1>6, <2>2
    <2>5. BareMap(ReverseMap) /\ \A x \in DOMAIN Out : Filed(Out[x], ReverseMap)
      BY DEF GatherInv, FiledInv
    <2>6. BareMap(ReverseMap') /\ \A x \in DOMAIN Out : Filed(Out[x], ReverseMap')
      <3>1. CASE ~HasMeta(f)
        BY <1>10, <2>5, <3>1, WriteFileAdds, Zenon
      <3>2. CASE HasMeta(f)
        <4>1. PICK entryId : RecordMeta(ctx, entryId, f, Len(InUse(f)))
          BY <1>10, <3>2, WriteFileAdds, Zenon
        <4>2. InUse(f) = <<a>>
          BY <1>9, <3>2, InUseOne
        <4>3. InUse(f) \in Seq({a})
          BY <4>2
        <4>4. PICK key, ids : Gathered(ReverseMap, ReverseMap', key, ids)
          BY <2>5, <4>1, <4>3, RecordMetaGathers
        <4> QED BY <2>5, <4>4, FiledMore, Zenon DEF Gathered
      <3> QED BY <3>1, <3>2
    <2> QED BY <1>2, <1>3, <1>7, <2>1, <2>3, <2>4, <2>6, GatherBeside
  <1> QED BY <1>1, <1>8, <1>10

LEMMA FilterFsUnallocatedGathers ==
    ASSUME ~Faults, TypeInv, GatherInv, FilterFsUnallocated
    PROVE  GatherInv'
  <1> DEFINE ds  == [Dirs EXCEPT ![Len(Dirs)].count = @ + NumRootEntries[NumVols]]
             ctx == Context(FsHere, <<PartBeg, PartEnd>>, WithMap(NumVols))
  <1>1. processFile(ds, ctx, <<>>, UnallocatedFolder)
    BY Zenon DEF FilterFsUnallocated
  <1>2. PICK dirs : writeFile(ctx, dirs, UnallocatedFolder)
    BY <1>1, Zenon DEF processFile
  <1>3. ~HasMeta(UnallocatedFolder)
    BY DEF HasMeta, UnallocatedFolder
  <1> HIDE DEF ctx
  <1>4. PICK r : Out' = Append(Out, r) /\ RecordOf(r, ctx, UnallocatedFolder)
    BY <1>2, WriteFileAdds, Zenon
  <1>5. ReverseMap' = ReverseMap
    BY <1>2, <1>3, WriteFileAdds, Zenon
  <1>6. r.link = NoLink
    BY <1>3, <1>4 DEF RecordOf
  <1>7. ~OwnLink(r) /\ \A k \in FsIndexes(img) : \A inum : r.link # <<k, inum>> \/ r.volIndex # k
    <2>1. \A k, inum : NoLink # <<k, inum>>
      BY DEF NoLink
    <2> QED BY <1>6, <2>1, Zenon DEF OwnLink
  <1>8. SameMapOf
    BY FolderMaps, WithMapSameMap
  <1>9. img' = img /\ ResultsTyped
    BY DEF FilterFsUnallocated, args, TypeInv
  <1>10. BareMap(ReverseMap') /\ \A x \in DOMAIN Out : Filed(Out[x], ReverseMap')
    BY <1>5 DEF GatherInv, FiledInv
  <1> QED BY <1>4, <1>7, <1>8, <1>9, <1>10, GatherBeside

\* The data of an entry is inside of the range.
LEMMA EntryReached ==
    ASSUME DataInRange, img \in Images, NEW k \in FsIndexes(img), NEW f \in Entries, HasMeta(f)
    PROVE  /\ InUse(f) \in Seq(AttrType)
           /\ AttrsReached(FsOf(img, k), RangeEnd(img, k), img.size, InUse(f))
  <1>1. f.meta # NoMeta
    BY DEF HasMeta
  <1>2. f.meta \in MetaType
    BY <1>1, EntriesAssumption
  <1>3. f.meta.attrs \in Seq(AttrType)
    BY <1>2 DEF MetaType
  <1>4. PICK kept : kept = InUse(f)
    OBVIOUS
  <1>5. PartOf(kept, f.meta.attrs)
    BY <1>3, <1>4, InUseParts
  <1>6. PICK fs, end, size : fs = FsOf(img, k) /\ end = RangeEnd(img, k) /\ size = img.size
    OBVIOUS
  <1>7. ASSUME NEW j \in 1 .. Len(f.meta.attrs), NEW r \in 1 .. Len(f.meta.attrs[j].runs)
        PROVE  RunReached(fs, end, size, f.meta.attrs[j].runs[r])
    <2>1. f.meta.attrs[j].runs \in Seq(RunType)
      <3>1. f.meta.attrs[j] \in AttrType
        BY <1>3, Members
      <3> QED BY <3>1 DEF AttrType
    <2>2. j \in DOMAIN f.meta.attrs /\ r \in DOMAIN f.meta.attrs[j].runs
      BY <1>3, <2>1
    <2>3. f.meta.attrs[j].runs[r].flags = "none"
              => RangeReaches(img, k, f.meta.attrs[j].runs[r].addr + f.meta.attrs[j].runs[r].len)
      BY <1>1, <2>2, Zenon DEF DataInRange
    <2> QED BY <1>6, <2>3, Zenon DEF RangeReaches, RunReached
  <1>8. \A n \in 1 .. Len(kept) : RunsReached(fs, end, size, kept[n])
    BY <1>5, <1>7, Zenon DEF PartOf, RunsReached
  <1> QED BY <1>4, <1>5, <1>6, <1>8, Zenon DEF PartOf, AttrsReached

LEMMA ProcessFileGathers ==
    ASSUME ~Faults, DataInRange, TypeInv, SettingInv, MapsInv, GatherInv, ProcessFile
    PROVE  GatherInv'
  <1> DEFINE ctx == Context(Fs, <<FSBeg, FSEnd>>, AllocatedRuns)
  <1>1. PICK f \in Entries, path \in NextPaths : processFile(Dirs, ctx, path, f)
    BY Zenon DEF ProcessFile
  <1>2. PICK dirs : writeFile(ctx, dirs, f)
    BY <1>1, Zenon DEF processFile
  <1>3. PICK c : c = ctx
    OBVIOUS
  <1> HIDE DEF ctx
  <1>4. pc = "fs" /\ img' = img /\ ResultsTyped
    BY DEF ProcessFile, args, TypeInv
  <1>5. /\ img \in Images /\ NumVols \in FsIndexes(img) /\ Fs \in FsType /\ FSBeg \in Int
        /\ FSEnd \in Nat /\ FSEnd <= img.size /\ img.size \in Nat /\ Fs = FsOf(img, NumVols)
        /\ FSBeg = RangeStart(img, NumVols) /\ FSEnd = RangeEnd(img, NumVols)
        /\ NumVols \in DOMAIN AllocatedRuns
    BY <1>4, FsAtHand
  <1>6. FSBeg <= Fs.offset
    BY <1>5 DEF DataInRange
  <1>7. HasMeta(f) => /\ InUse(f) \in Seq(AttrType)
                      /\ AttrsReached(Fs, FSEnd, img.size, InUse(f))
    BY <1>5, EntryReached
  <1>8. writeFile(c, dirs, f) /\ c = Context(Fs, <<FSBeg, FSEnd>>, AllocatedRuns)
    BY <1>2, <1>3 DEF ctx
  <1> QED BY <1>4, <1>5, <1>6, <1>7, <1>8, WriteFileGathers

\* The blocks that are left end before the next file's, or before the last one.
LEMMA LeftReached ==
    ASSUME DataInRange, BytesAddressed, TypeInv, SettingInv, MapsInv, FragmentInv, pc = "fragment"
    PROVE  blkEnd \in Nat /\ (FSEnd = img.size \/ Fs.offset + blkEnd * Fs.bs <= FSEnd)
  <1>1. /\ img \in Images /\ NumVols \in FsIndexes(img) /\ Fs = FsOf(img, NumVols)
        /\ FSEnd = RangeEnd(img, NumVols) /\ Fs \in FsType
    BY FsAtHand
  <1>2. blkEnd \in Nat
    BY DEF FragmentInv
  <1>3. \/ nextFrag = EndIter /\ blkEnd = Fs.last
        \/ nextFrag \in DOMAIN Map /\ blkEnd = BlockOf(nextFrag)
    BY DEF FragmentInv
  <1>4. CASE blkEnd = Fs.last
    <2>1. RangeReaches(img, NumVols, Fs.last)
      BY <1>1 DEF DataInRange
    <2> QED BY <1>1, <1>2, <1>4, <2>1, Zenon DEF RangeReaches
  <1>5. CASE nextFrag \in DOMAIN Map /\ blkEnd = BlockOf(nextFrag)
    <2>1. PICK x, o, d : x = nextFrag /\ o = Fs.offset /\ d = Fs.bs
      OBVIOUS
    <2>2. /\ x \in Nat /\ o \in Nat /\ o <= x /\ x < FSEnd /\ x < U64
          /\ d \in Nat /\ d > 0 /\ FSEnd \in Nat /\ U64 \in Nat
      BY <1>1, <1>5, <2>1, MapFacts, FsFields
    <2>3. x - o \in Nat /\ x - o < U64
      BY <2>2
    <2>4. (x - o) % U64 = x - o
      BY <2>2, <2>3, Remainder
    <2>5. blkEnd = (x - o) \div d
      BY <1>5, <2>1, <2>4 DEF BlockOf
    <2>6. PICK y \in Nat : y = x - o
      BY <2>3
    <2>7. blkEnd = y \div d
      BY <2>5, <2>6
    <2>8. (y \div d) * d <= y
      BY <2>2, Quotient
    <2>9. PICK q : q = blkEnd * d
      OBVIOUS
    <2>10. q <= y
      BY <2>7, <2>8, <2>9
    <2>11. q \in Nat
      BY <1>2, <2>2, <2>9, Products
    <2>12. o + q <= FSEnd
      BY <2>2, <2>6, <2>10, <2>11
    <2> QED BY <1>2, <2>1, <2>9, <2>12
  <1> QED BY <1>2, <1>3, <1>4, <1>5

LEMMA EmissionGathers ==
    ASSUME ~Faults, DataInRange, BytesAddressed, TypeInv, SettingInv, MapsInv, FragmentInv,
           GatherInv, NEW run, Emission(run), emitUnallocated(run)
    PROVE  GatherInv'
  <1> DEFINE ctx == Context(Fs, <<FSBeg, FSEnd>>, AllocatedRuns)
  <1>1. pc = "fragment" /\ AtHand(run) /\ img' = img /\ ResultsTyped
    BY DEF Emission, args, TypeInv
  <1>2. PICK dirs : writeFile(ctx, dirs, UnallocatedEntry(run, Fs.bs))
    BY Zenon DEF emitUnallocated, processFile
  <1>3. PICK c : c = ctx
    OBVIOUS
  <1> HIDE DEF ctx
  <1>4. /\ img \in Images /\ NumVols \in FsIndexes(img) /\ Fs \in FsType /\ FSBeg \in Int
        /\ FSEnd \in Nat /\ FSEnd <= img.size /\ img.size \in Nat /\ Fs = FsOf(img, NumVols)
        /\ FSBeg = RangeStart(img, NumVols) /\ NumVols \in DOMAIN AllocatedRuns
    BY <1>1, FsAtHand
  <1>5. FSBeg <= Fs.offset
    BY <1>4 DEF DataInRange
  <1>6. PICK f, a : f = UnallocatedEntry(run, Fs.bs) /\ a = DummyAttr(run, Fs.bs)
    OBVIOUS
  <1>7. run \in RunType /\ run.addr \in Nat /\ run.len \in Nat /\ run.addr = blk /\ blk + run.len <= blkEnd
    BY <1>1, RunAtHand DEF AtHand
  <1>8. InUse(f) = <<a>> /\ a.runs = <<run>> /\ a \in AttrType
    <2>1. Fs.bs \in Nat
      BY <1>4, FsFields
    <2>2. run.addr <= NoLimit
      <3>1. blk \in Nat /\ blkEnd \in Nat /\ blk < blkEnd /\ blkEnd < U64
        BY <1>1, RunAtHand DEF FragmentInv
      <3> QED BY <1>7, <3>1, WordAssumption DEF NoLimit
    <2> QED BY <1>6, <1>7, <2>1, <2>2, EntryOfRun
  <1>9. RunReached(Fs, FSEnd, img.size, run)
    <2>1. PICK o, d, b : o = Fs.offset /\ d = Fs.bs /\ b = run.addr + run.len
      OBVIOUS
    <2>2. blkEnd \in Nat /\ (FSEnd = img.size \/ o + blkEnd * d <= FSEnd)
      BY <1>1, <2>1, LeftReached
    <2>3. b \in Nat /\ b <= blkEnd /\ d \in Nat /\ o \in Nat
      BY <1>4, <1>7, <2>1, FsFields
    <2>4. PICK p, q : p = b * d /\ q = blkEnd * d
      OBVIOUS
    <2>5. p \in Nat /\ q \in Nat /\ p <= q
      BY <2>2, <2>3, <2>4, Products
    <2>6. FSEnd = img.size \/ o + p <= FSEnd
      BY <1>4, <2>2, <2>3, <2>4, <2>5
    <2>7. FSEnd = img.size \/ o + b * d <= FSEnd
      BY <2>4, <2>6
    <2> QED BY <2>1, <2>7, Zenon DEF RunReached
  <1>10. InUse(f) \in Seq(AttrType) /\ AttrsReached(Fs, FSEnd, img.size, InUse(f))
    <2>1. \A r \in 1 .. Len(a.runs) : a.runs[r] = run
      BY <1>8
    <2>2. RunsReached(Fs, FSEnd, img.size, a)
      BY <1>9, <2>1, Zenon DEF RunsReached
    <2>3. PICK kept : kept = InUse(f)
      OBVIOUS
    <2>4. kept \in Seq(AttrType) /\ \A n \in 1 .. Len(kept) : kept[n] = a
      BY <1>8, <2>3
    <2>5. AttrsReached(Fs, FSEnd, img.size, kept)
      BY <2>2, <2>4, Zenon DEF AttrsReached
    <2> QED BY <2>3, <2>4, <2>5
  <1>11. writeFile(c, dirs, f) /\ c = Context(Fs, <<FSBeg, FSEnd>>, AllocatedRuns)
    BY <1>2, <1>3, <1>6 DEF ctx
  <1> QED BY <1>1, <1>4, <1>5, <1>10, <1>11, WriteFileGathers

-----------------------------------------------------------------------------
(***************************************************************************)
(* The output of the maps.                                                 *)
(***************************************************************************)
\* The runs are those that the records own.
Agrees(runs, recs, k, inum, size, i, slack) ==
    \A p : p \in RunBytes(runs) <=> SomeOwns(recs, k, inum, size, i, slack, p)

Tells(info, recs, k, inum, size, i) ==
    /\ Agrees(info.Runs, recs, k, inum, size, i, FALSE)
    /\ Agrees(info.SlackRuns, recs, k, inum, size, i, TRUE)

TellsAll(rev, recs, size) ==
    \A n \in DOMAIN recs : OwnLink(recs[n]) =>
        \A k, inum : recs[n].link = <<k, inum>> =>
            \A i \in IdsOf(recs[n].attrs, Len(recs[n].attrs)) :
                Tells(rev[<<k, inum>>].Attrs[i], recs, k, inum, size, i)

PlacesInv ==
    /\ FaithfulMaps /\ KnownInv
    /\ pc \notin {"inodes", "done"} => FiledInv
    /\ pc = "inodes" => TellsAll(ReverseMap, Out, img.size)
    /\ pc = "done" => TellsAll(InodeMapFile, Out, img.size)

LEMMA RunsAgree ==
    ASSUME NEW map, NEW recs, NEW k, NEW size \in Nat, Faithful(map, recs, k, size),
           NEW inum, NEW i, NEW slack, NEW runs, runs = RunsIn(map, inum, i, slack)
    PROVE  Agrees(runs, recs, k, inum, size, i, slack)
  <1>1. OnDisk(map, size)
    BY DEF Faithful
  <1>2. RunBytes(RunsIn(map, inum, i, slack)) = Places(map, inum, i, slack)
    BY <1>1, RunsArePlaces
  <1>3. RunBytes(runs) = Places(map, inum, i, slack)
    BY <1>2
  <1> QED BY <1>3, Zenon DEF Agrees, Faithful

\* An attribute that an inode has gets the runs of the map, and no others.
LEMMA WithRunsAre ==
    ASSUME NEW k, NEW inum, <<k, inum>> \in DOMAIN ReverseMap,
           InodeBare(ReverseMap[<<k, inum>>]), NEW i \in DOMAIN ReverseMap[<<k, inum>>].Attrs
    PROVE  /\ WithRuns(<<k, inum>>)[i].Runs = RunsIn(mapOf(k), inum, i, FALSE)
           /\ WithRuns(<<k, inum>>)[i].SlackRuns = RunsIn(mapOf(k), inum, i, TRUE)
  <1> DEFINE key   == <<k, inum>>
             attrs == inodeAt(ReverseMap, key).Attrs
             map   == mapOf(key[1])
             ids   == {x.AttrID : x \in {j \in UNION {map[b] : b \in DOMAIN map} : j.Inum = key[2]}}
             data(a)  == RunsIn(map, key[2], a, FALSE)
             slack(a) == RunsIn(map, key[2], a, TRUE)
             info(a)  == getOrInsertAttr(attrs, a)
             full(a)  == [info(a) EXCEPT !.Runs = @ \cup data(a), !.SlackRuns = @ \cup slack(a)]
  <1>1. WithRuns(key) = [a \in DOMAIN attrs \cup ids |-> full(a)]
    BY Zenon DEF WithRuns
  <1>2. attrs = ReverseMap[key].Attrs
    BY Zenon DEF inodeAt
  <1>3. key[1] = k /\ key[2] = inum
    OBVIOUS
  <1>4. i \in DOMAIN attrs /\ Bare(attrs)
    BY <1>2 DEF InodeBare
  <1> HIDE DEF attrs, map, ids, key
  <1>5. info(i) = attrs[i]
    BY <1>4, Zenon DEF getOrInsertAttr
  <1>6. /\ DOMAIN info(i) = {"Resident", "SlackSize", "Runs", "SlackRuns"}
        /\ info(i).Runs = {} /\ info(i).SlackRuns = {}
    BY <1>4, <1>5 DEF Bare
  <1>8. data(i) = RunsIn(mapOf(k), inum, i, FALSE) /\ slack(i) = RunsIn(mapOf(k), inum, i, TRUE)
    BY <1>3, Zenon DEF map
  <1> HIDE DEF info, data, slack
  <1>7. full(i).Runs = data(i) /\ full(i).SlackRuns = slack(i)
    BY <1>6
  <1> HIDE DEF full
  <1>9. WithRuns(key)[i] = full(i)
    BY <1>1, <1>4
  <1> QED BY <1>7, <1>8, <1>9, Zenon DEF key

LEMMA OutputDiskMapTells ==
    ASSUME TypeInv, GatherInv, OutputDiskMap
    PROVE  TellsAll(ReverseMap', Out, img.size)
  <1> SUFFICES ASSUME NEW n \in DOMAIN Out, OwnLink(Out[n]),
                      NEW k, NEW inum, Out[n].link = <<k, inum>>,
                      NEW i \in IdsOf(Out[n].attrs, Len(Out[n].attrs))
               PROVE  Tells(ReverseMap'[<<k, inum>>].Attrs[i], Out, k, inum, img.size, i)
    BY Zenon DEF TellsAll
  <1> DEFINE key == <<k, inum>>
  <1>1. key \in DOMAIN ReverseMap /\ i \in DOMAIN ReverseMap[key].Attrs /\ InodeBare(ReverseMap[key])
    BY DEF GatherInv, FiledInv, Filed, BareMap
  <1>2. k \in FsIndexes(img)
    <2>1. PICK j \in FsIndexes(img) : \E x : Out[n].link = <<j, x>>
      BY DEF GatherInv, KnownInv, Known
    <2> QED BY <2>1
  <1>3. img \in Images
    BY DEF TypeInv, ControlTyped
  <1>4. img.size \in Nat
    BY <1>2, <1>3, FsOfTyped
  <1>5. Faithful(mapOf(k), Out, k, img.size)
    BY <1>2 DEF GatherInv, FaithfulMaps
  <1>6. ReverseMap'[key].Attrs = WithRuns(key)
    <2>1. ReverseMap' = [x \in DOMAIN ReverseMap \cup UNION {InodesIn(j) : j \in DOMAIN AllocatedRuns} |->
                            [inodeAt(ReverseMap, x) EXCEPT !.Attrs = WithRuns(x)]]
      BY Zenon DEF OutputDiskMap
    <2> DEFINE all   == UNION {InodesIn(j) : j \in DOMAIN AllocatedRuns}
               F(x)  == [inodeAt(ReverseMap, x) EXCEPT !.Attrs = WithRuns(x)]
    <2>2. ReverseMap' = [x \in DOMAIN ReverseMap \cup all |-> F(x)]
      BY <2>1
    <2> HIDE DEF all, key, F
    <2>3. ReverseMap'[key] = F(key)
      BY <1>1, <2>2
    <2>4. F(key) = [inodeAt(ReverseMap, key) EXCEPT !.Attrs = WithRuns(key)]
      BY Zenon DEF F
    <2>5. inodeAt(ReverseMap, key) = ReverseMap[key]
      BY <1>1, Zenon DEF inodeAt
    <2>6. PICK inode, attrs : inode = ReverseMap[key] /\ attrs = WithRuns(key)
      OBVIOUS
    <2>7. ReverseMap'[key] = [inode EXCEPT !.Attrs = attrs] /\ "Attrs" \in DOMAIN inode
      BY <1>1, <2>3, <2>4, <2>5, <2>6 DEF InodeBare
    <2>8. ReverseMap'[key].Attrs = attrs
      BY ONLY <2>7
    <2> QED BY <2>6, <2>8
  <1>7. PICK info : info = WithRuns(key)[i]
    OBVIOUS
  <1>8. info.Runs = RunsIn(mapOf(k), inum, i, FALSE) /\ info.SlackRuns = RunsIn(mapOf(k), inum, i, TRUE)
    BY <1>1, <1>7, WithRunsAre
  <1>9. Agrees(info.Runs, Out, k, inum, img.size, i, FALSE)
    BY <1>4, <1>5, <1>8, RunsAgree
  <1>10. Agrees(info.SlackRuns, Out, k, inum, img.size, i, TRUE)
    BY <1>4, <1>5, <1>8, RunsAgree
  <1>11. Tells(info, Out, k, inum, img.size, i)
    BY <1>9, <1>10, Zenon DEF Tells
  <1> QED BY <1>6, <1>7, <1>11

-----------------------------------------------------------------------------
(***************************************************************************)
(* The reference, by records.                                              *)
(***************************************************************************)
LEMMA FilePartHas ==
    ASSUME NEW fs, NEW attrs, NEW size, NEW q
    PROVE  q \in FilePart(fs, attrs, Len(attrs), size)
               <=> \E m \in 1 .. Len(attrs) :
                       attrs[m].nonres /\ q \in AttrPart(fs, attrs[m], Len(attrs[m].runs), size)
  <1> DEFINE F(m) == Adds(fs, attrs[m], size)
  <1>1. FilePart(fs, attrs, Len(attrs), size) = UNION {F(m) : m \in 1 .. Len(attrs)}
    BY Zenon DEF FilePart
  <1>2. \A m : q \in F(m) <=> attrs[m].nonres /\ q \in AttrPart(fs, attrs[m], Len(attrs[m].runs), size)
    BY DEF Adds
  <1> HIDE DEF F
  <1>3. q \in UNION {F(m) : m \in 1 .. Len(attrs)} <=> \E m \in 1 .. Len(attrs) : q \in F(m)
    OBVIOUS
  <1> QED BY <1>1, <1>2, <1>3, Zenon

\* Attribute a of a record of inode key has place p.
HasPlace(r, key, j, i, slack, p) ==
    /\ r.link = key /\ r.volIndex = key[1] /\ j \in DOMAIN r.attrs
    /\ r.attrs[j].id = i /\ r.attrs[j].nonres /\ p \in StreamBytes(r.fs, r.attrs[j], slack)

LEMMA ExpectedBytesAre ==
    ASSUME NEW key, NEW i, NEW slack, NEW p
    PROVE  p \in ExpectedBytes(key, i, slack)
               <=> \E n \in Linked : \E j : HasPlace(Out[n], key, j, i, slack, p)
  <1> DEFINE A(n) == {<<Out[n].fs, Out[n].attrs[j]>> :
                          j \in {x \in DOMAIN Out[n].attrs : /\ Out[n].attrs[x].id = i
                                                             /\ Out[n].attrs[x].nonres}}
             S    == {m \in Linked : Out[m].link = key /\ Out[m].volIndex = key[1]}
             B(x) == StreamBytes(x[1], x[2], slack)
             at   == AttrsOf(key, i)
             Has(n, j) == /\ Out[n].attrs[j].id = i /\ Out[n].attrs[j].nonres
                          /\ p \in StreamBytes(Out[n].fs, Out[n].attrs[j], slack)
  <1>1. at = UNION {A(n) : n \in S}
    BY Zenon DEF AttrsOf
  <1>2. ExpectedBytes(key, i, slack) = UNION {B(x) : x \in at}
    BY Zenon DEF ExpectedBytes
  <1>3. \A n, x : x \in A(n) <=> \E j \in DOMAIN Out[n].attrs :
            Out[n].attrs[j].id = i /\ Out[n].attrs[j].nonres /\ x = <<Out[n].fs, Out[n].attrs[j]>>
    OBVIOUS
  <1>4. \A n : n \in S <=> n \in Linked /\ Out[n].link = key /\ Out[n].volIndex = key[1]
    OBVIOUS
  <1>5. \A y, z : B(<<y, z>>) = StreamBytes(y, z, slack)
    OBVIOUS
  <1> HIDE DEF A, S, B, at
  <1>6. \A x : x \in UNION {A(n) : n \in S} <=> \E n \in S : x \in A(n)
    OBVIOUS
  <1>7. p \in UNION {B(x) : x \in at} <=> \E x \in at : p \in B(x)
    OBVIOUS
  <1>8. p \in ExpectedBytes(key, i, slack) <=> \E n \in S : \E x \in A(n) : p \in B(x)
    BY <1>1, <1>2, <1>6, <1>7, Zenon
  <1>9. \A n : (\E x \in A(n) : p \in B(x))
            <=> \E j \in DOMAIN Out[n].attrs : /\ Out[n].attrs[j].id = i /\ Out[n].attrs[j].nonres
                                              /\ p \in StreamBytes(Out[n].fs, Out[n].attrs[j], slack)
    <2> SUFFICES ASSUME NEW n
                 PROVE  (\E x \in A(n) : p \in B(x)) <=> \E j \in DOMAIN Out[n].attrs : Has(n, j)
      BY Zenon DEF Has
    <2> HIDE DEF Has
    <2>1. ASSUME NEW x \in A(n), p \in B(x)
          PROVE  \E j \in DOMAIN Out[n].attrs : Has(n, j)
      <3>1. PICK j \in DOMAIN Out[n].attrs :
                Out[n].attrs[j].id = i /\ Out[n].attrs[j].nonres /\ x = <<Out[n].fs, Out[n].attrs[j]>>
        BY <1>3, <2>1
      <3>2. B(x) = StreamBytes(Out[n].fs, Out[n].attrs[j], slack)
        BY <1>5, <3>1
      <3> QED BY <2>1, <3>1, <3>2, Zenon DEF Has
    <2>2. ASSUME NEW j \in DOMAIN Out[n].attrs, Has(n, j)
          PROVE  \E x \in A(n) : p \in B(x)
      <3>1. PICK x : x = <<Out[n].fs, Out[n].attrs[j]>>
        OBVIOUS
      <3>2. x \in A(n)
        BY <1>3, <2>2, <3>1, Zenon DEF Has
      <3>3. B(x) = StreamBytes(Out[n].fs, Out[n].attrs[j], slack)
        BY <1>5, <3>1
      <3> QED BY <2>2, <3>2, <3>3, Zenon DEF Has
    <2> QED BY <2>1, <2>2
  <1> QED BY <1>4, <1>8, <1>9, Zenon DEF HasPlace

\* The reference is what the records own.
LEMMA OwnedIsExpected ==
    ASSUME KnownInv, img.size \in Nat, NEW k, NEW inum, NEW i, NEW slack \in BOOLEAN, NEW p
    PROVE  SomeOwns(Out, k, inum, img.size, i, slack, p) <=> p \in ExpectedBytes(<<k, inum>>, i, slack)
  <1> DEFINE key == <<k, inum>>
  <1>1. key # NoLink /\ key[1] = k
    BY DEF NoLink
  <1> HIDE DEF key
  <1>2. ASSUME NEW n \in DOMAIN Out
        PROVE  Owns(Out[n], k, inum, img.size, i, slack, p)
                   <=> n \in Linked /\ \E j : HasPlace(Out[n], key, j, i, slack, p)
    <2>1. PICK r : r = Out[n]
      OBVIOUS
    <2>2. CASE ~(r.link = key /\ r.volIndex = k)
      BY <1>1, <2>1, <2>2, Zenon DEF Owns, HasPlace, key
    <2>3. CASE r.link = key /\ r.volIndex = k
      <3>1. n \in Linked
        BY <1>1, <2>1, <2>3 DEF Linked
      <3>2. OwnLink(r)
        BY <1>1, <2>3 DEF OwnLink
      <3>3. r.fs \in FsType /\ r.attrs \in Seq(AttrType)
        BY <2>1, <3>2, Zenon DEF KnownInv, Known
      <3>4. DOMAIN r.attrs = 1 .. Len(r.attrs) /\ \A m \in 1 .. Len(r.attrs) : r.attrs[m] \in AttrType
        BY <3>3, Members
      <3>5. PICK q : q = <<i, slack, p>>
        OBVIOUS
      <3>6. ASSUME NEW m \in 1 .. Len(r.attrs)
            PROVE  q \in AttrPart(r.fs, r.attrs[m], Len(r.attrs[m].runs), img.size)
                       <=> i = r.attrs[m].id /\ p \in StreamBytes(r.fs, r.attrs[m], slack)
        <4>1. PICK a \in AttrType : a = r.attrs[m]
          BY <3>4
        <4>2. PICK fs \in FsType : fs = r.fs
          BY <3>3
        <4>3. <<i, slack, p>> \in AttrPart(fs, a, Len(a.runs), img.size)
                  <=> i = a.id /\ p \in StreamBytes(fs, a, slack)
          BY AttrPartIs
        <4> QED BY <3>5, <4>1, <4>2, <4>3
      <3>7. q \in FilePart(r.fs, r.attrs, Len(r.attrs), img.size)
                <=> \E m \in 1 .. Len(r.attrs) :
                        r.attrs[m].nonres /\ q \in AttrPart(r.fs, r.attrs[m], Len(r.attrs[m].runs), img.size)
        BY FilePartHas
      <3>8. Owns(r, k, inum, img.size, i, slack, p) <=> q \in FilePart(r.fs, r.attrs, Len(r.attrs), img.size)
        BY <2>3, <3>5, Zenon DEF Owns, key
      <3>9. (\E j : HasPlace(r, key, j, i, slack, p))
                <=> \E m \in 1 .. Len(r.attrs) :
                        r.attrs[m].nonres /\ i = r.attrs[m].id /\ p \in StreamBytes(r.fs, r.attrs[m], slack)
        BY <1>1, <2>3, <3>4, Zenon DEF HasPlace
      <3> QED BY <2>1, <3>1, <3>6, <3>7, <3>8, <3>9, Zenon
    <2> QED BY <2>2, <2>3
  <1>3. \A n \in Linked : n \in DOMAIN Out
    BY DEF Linked
  <1>4. p \in ExpectedBytes(key, i, slack)
            <=> \E n \in Linked : \E j : HasPlace(Out[n], key, j, i, slack, p)
    BY ExpectedBytesAre
  <1> QED BY <1>2, <1>3, <1>4, Zenon DEF SomeOwns, key

LEMMA AgreesIsFaithful ==
    ASSUME KnownInv, img.size \in Nat, NEW k, NEW inum, NEW i, NEW slack \in BOOLEAN, NEW runs,
           Agrees(runs, Out, k, inum, img.size, i, slack)
    PROVE  RunBytes(runs) = ExpectedBytes(<<k, inum>>, i, slack)
  <1>1. PICK S, E : S = RunBytes(runs) /\ E = ExpectedBytes(<<k, inum>>, i, slack)
    OBVIOUS
  <1>2. \A p : SomeOwns(Out, k, inum, img.size, i, slack, p) <=> p \in E
    BY <1>1, OwnedIsExpected
  <1>3. \A p : p \in S <=> p \in E
    BY <1>1, <1>2, Zenon DEF Agrees
  <1>4. S = E
    <2>1. S \subseteq E /\ E \subseteq S
      BY <1>3
    <2> QED BY <1>1, <2>1, SetExtensionality
  <1> QED BY <1>1, <1>4

\* When the program is done, the inode map tells what the records do.
LEMMA PlacesFaithful ==
    ASSUME TypeInv, PlacesInv
    PROVE  InodeRunsFaithful
  <1> SUFFICES ASSUME pc = "done", NEW n \in Linked, Out[n].volIndex = Out[n].link[1],
                      NEW j \in DOMAIN Out[n].attrs,
                      NEW info, info = InodeMapFile[Out[n].link].Attrs[Out[n].attrs[j].id]
               PROVE  /\ RunBytes(info.Runs) = ExpectedBytes(Out[n].link, Out[n].attrs[j].id, FALSE)
                      /\ RunBytes(info.SlackRuns) = ExpectedBytes(Out[n].link, Out[n].attrs[j].id, TRUE)
    BY Zenon DEF InodeRunsFaithful
  <1>1. n \in DOMAIN Out /\ OwnLink(Out[n])
    BY DEF Linked, OwnLink
  <1>2. /\ Out[n].attrs \in Seq(AttrType)
        /\ \E k \in FsIndexes(img) : \E inum : Out[n].link = <<k, inum>>
    BY <1>1 DEF PlacesInv, KnownInv, Known
  <1>3. PICK k \in FsIndexes(img) : \E inum : Out[n].link = <<k, inum>>
    BY <1>2
  <1>4. PICK inum : Out[n].link = <<k, inum>>
    BY <1>3
  <1>5. PICK i, size : i = Out[n].attrs[j].id /\ size = img.size
    OBVIOUS
  <1>6. i \in IdsOf(Out[n].attrs, Len(Out[n].attrs))
    BY <1>2, <1>5 DEF IdsOf
  <1>7. size \in Nat
    BY <1>5, FsOfTyped DEF TypeInv, ControlTyped
  <1>8. TellsAll(InodeMapFile, Out, size)
    BY <1>5 DEF PlacesInv
  <1>9. Tells(InodeMapFile[<<k, inum>>].Attrs[i], Out, k, inum, size, i)
    BY <1>1, <1>4, <1>6, <1>8, Zenon DEF TellsAll
  <1>10. Tells(info, Out, k, inum, img.size, i)
    BY <1>4, <1>5, <1>9
  <1>11. Agrees(info.Runs, Out, k, inum, img.size, i, FALSE)
    BY <1>10, Zenon DEF Tells
  <1>12. Agrees(info.SlackRuns, Out, k, inum, img.size, i, TRUE)
    BY <1>10, Zenon DEF Tells
  <1>13. KnownInv /\ img.size \in Nat
    BY <1>5, <1>7 DEF PlacesInv
  <1>14. RunBytes(info.Runs) = ExpectedBytes(<<k, inum>>, i, FALSE)
    BY <1>11, <1>13, AgreesIsFaithful
  <1>15. RunBytes(info.SlackRuns) = ExpectedBytes(<<k, inum>>, i, TRUE)
    BY <1>12, <1>13, AgreesIsFaithful
  <1> QED BY <1>4, <1>5, <1>14, <1>15

-----------------------------------------------------------------------------
(***************************************************************************)
(* Every step keeps the invariant.                                         *)
(***************************************************************************)
LEMMA NothingPlaced ==
    ASSUME NEW k, NEW size
    PROVE  Faithful(NoRuns, <<>>, k, size)
  <1>1. DOMAIN NoRuns = {}
    BY DEF NoRuns
  <1>2. OnDisk(NoRuns, size)
    BY <1>1, Zenon DEF OnDisk
  <1>3. \A inum, i, slack, p : p \notin Places(NoRuns, inum, i, slack)
    BY <1>1, PlacesAre, Zenon
  <1>4. \A inum, i, slack, p : ~SomeOwns(<<>>, k, inum, size, i, slack, p)
    BY DEF SomeOwns
  <1> QED BY <1>2, <1>3, <1>4, Zenon DEF Faithful

LEMMA InitPlaces == Init => PlacesInv
  <1> SUFFICES ASSUME Init
               PROVE  PlacesInv
    OBVIOUS
  <1>1. /\ pc = "open" /\ Out = <<>> /\ DOMAIN AllocatedRuns = {} /\ DOMAIN ReverseMap = {}
    BY DEF Init
  <1>2. \A k : mapOf(k) = NoRuns
    BY <1>1 DEF mapOf
  <1>3. FaithfulMaps
    BY <1>1, <1>2, NothingPlaced DEF FaithfulMaps
  <1>4. KnownInv
    BY <1>1 DEF KnownInv
  <1>5. FiledInv
    BY <1>1 DEF FiledInv, BareMap
  <1> QED BY <1>1, <1>3, <1>4, <1>5 DEF PlacesInv

\* Before outputDiskMap.
LEMMA GatherPlaces ==
    ASSUME pc' \notin {"inodes", "done"}, GatherInv'
    PROVE  PlacesInv'
  BY DEF PlacesInv, GatherInv

LEMMA PlacesGather ==
    ASSUME pc \notin {"inodes", "done"}, PlacesInv
    PROVE  GatherInv
  BY DEF PlacesInv, GatherInv

\* The steps that write nothing.
Quiet ==
    /\ pc \notin {"inodes", "done"} /\ pc' \notin {"inodes", "done"} /\ img' = img
    /\ UNCHANGED <<Out, ReverseMap>>
    /\ AllocatedRuns' = AllocatedRuns \/ FilterFs

LEMMA QuietPlaces ==
    ASSUME PlacesInv, Quiet
    PROVE  PlacesInv'
  <1>1. SameMapOf
    BY SameRunsSameMap, FilterFsSameMap DEF Quiet
  <1>2. GatherInv
    BY PlacesGather DEF Quiet
  <1> QED BY <1>1, <1>2, GatherSame, GatherPlaces DEF Quiet

LEMMA QuietSteps ==
    /\ OpenImage => Quiet
    /\ NoFilesystem => Quiet
    /\ FilterFs => Quiet
    /\ WildPart => Quiet
    /\ EndFs => Quiet
    /\ WalkError => Quiet
    /\ NextFragment => Quiet
    /\ FragmentDone => Quiet
    /\ WalkFailed => Quiet
    /\ StartUnallocated => Quiet
    /\ FinishWalk => Quiet
  <1>1. NextExtent => pc' \in {"walk", "flush"}
    BY NextExtentQuiet
  <1>2. OpenImage => Quiet
    BY DEF OpenImage, Start, Quiet, args, results
  <1>3. NoFilesystem => Quiet
    BY DEF NoFilesystem, AtFs, Quiet, args, results
  <1>4. FilterFs => Quiet
    BY DEF FilterFs, AtFs, Quiet, args
  <1>5. WildPart => Quiet
    BY DEF WildPart, AtFs, Quiet, args, results
  <1>6. EndFs => Quiet
    BY DEF EndFs, Quiet, args, results
  <1>7. NextFragment => Quiet
    BY <1>1 DEF NextFragment, Quiet, args, results
  <1>8. FragmentDone => Quiet
    BY <1>1 DEF FragmentDone, Quiet, args, results
  <1>9. WalkFailed => Quiet
    BY DEF WalkFailed, WalkOver, Quiet, args, results
  <1>10. StartUnallocated => Quiet
    BY DEF StartUnallocated, WalkOver, Start, Quiet, args, results
  <1>11. FinishWalk => Quiet
    BY DEF FinishWalk, WalkOver, Quiet, args, results
  <1>12. WalkError => Quiet
    BY DEF WalkError, Quiet, args, results
  <1> QED BY <1>2, <1>3, <1>4, <1>5, <1>6, <1>7, <1>8, <1>9, <1>10, <1>11, <1>12

LEMMA NextPlaces ==
    ASSUME ~Faults, Premises, DataInRange, UnallocatedInv, PlacesInv, [Next]_vars
    PROVE  PlacesInv'
  <1>1. /\ TypeInv /\ SettingInv /\ MapsInv /\ RecordsInv /\ FragmentInv /\ BytesAddressed
    BY DEF UnallocatedInv, Premises
  <1>2. CASE OpenImage \/ NoFilesystem \/ FilterFs \/ WildPart \/ EndFs \/ WalkError \/ NextFragment
               \/ FragmentDone \/ WalkFailed \/ StartUnallocated \/ FinishWalk
    BY <1>2, QuietSteps, QuietPlaces
  <1>3. CASE FilterVol
    <2>1. pc \notin {"inodes", "done"} /\ pc' \notin {"inodes", "done"}
      BY <1>3 DEF FilterVol
    <2> QED BY <1>1, <1>3, <2>1, PlacesGather, FilterVolGathers, GatherPlaces
  <1>4. CASE FilterFsUnallocated
    <2>1. pc \notin {"inodes", "done"} /\ pc' \notin {"inodes", "done"}
      BY <1>4 DEF FilterFsUnallocated, AtFs
    <2> QED BY <1>1, <1>4, <2>1, PlacesGather, FilterFsUnallocatedGathers, GatherPlaces
  <1>5. CASE ProcessFile
    <2>1. pc \notin {"inodes", "done"} /\ pc' \notin {"inodes", "done"}
      BY <1>5 DEF ProcessFile
    <2> QED BY <1>1, <1>5, <2>1, PlacesGather, ProcessFileGathers, GatherPlaces
  <1>6. CASE FragmentBlock
    <2>1. pc \notin {"inodes", "done"} /\ pc' \notin {"inodes", "done"}
      BY <1>6 DEF FragmentBlock
    <2>2. PICK run : Emission(run) /\ emitUnallocated(run)
      BY <1>1, <1>6, FragmentBlockEmission
    <2> QED BY <1>1, <2>1, <2>2, PlacesGather, EmissionGathers, GatherPlaces
  <1>7. CASE FragmentPiece
    <2>1. pc \notin {"inodes", "done"} /\ pc' \notin {"inodes", "done"}
      BY <1>7 DEF FragmentPiece
    <2>2. PICK run : Emission(run) /\ emitUnallocated(run)
      BY <1>1, <1>7, FragmentPieceEmission
    <2> QED BY <1>1, <2>1, <2>2, PlacesGather, EmissionGathers, GatherPlaces
  <1>8. CASE OutputDiskMap
    <2>1. pc = "maps" /\ pc' = "inodes" /\ img' = img /\ Out' = Out /\ AllocatedRuns' = AllocatedRuns
      BY <1>8 DEF OutputDiskMap, args
    <2>2. GatherInv
      BY <2>1, PlacesGather
    <2>3. TellsAll(ReverseMap', Out, img.size)
      BY <1>1, <1>8, <2>2, OutputDiskMapTells
    <2>4. TellsAll(ReverseMap, Out, img.size)'
      BY <2>1, <2>3
    <2>5. FaithfulMaps' /\ KnownInv'
      <3>1. SameMapOf
        BY <2>1, SameRunsSameMap
      <3>2. FaithfulMaps'
        BY <2>1, <2>2, <3>1 DEF GatherInv, FaithfulMaps, SameMapOf
      <3>3. KnownInv'
        BY <2>1, <2>2, Zenon DEF GatherInv, KnownInv
      <3> QED BY <3>2, <3>3
    <2> QED BY <2>1, <2>4, <2>5 DEF PlacesInv
  <1>9. CASE OutputInodeMap \/ UNCHANGED vars
    <2>1. /\ img' = img /\ Out' = Out /\ AllocatedRuns' = AllocatedRuns /\ ReverseMap' = ReverseMap
          /\ \/ pc = "inodes" /\ pc' = "done" /\ InodeMapFile' = ReverseMap
             \/ pc' = pc /\ InodeMapFile' = InodeMapFile
      BY <1>9 DEF OutputInodeMap, vars, args, results, mapFiles
    <2>2. SameMapOf
      BY <2>1, SameRunsSameMap
    <2>3. FaithfulMaps'
      BY <2>1, <2>2 DEF PlacesInv, FaithfulMaps, SameMapOf
    <2>4. KnownInv'
      BY <2>1, Zenon DEF PlacesInv, KnownInv
    <2>5. pc' \notin {"inodes", "done"} => FiledInv'
      <3>1. FiledInv => FiledInv'
        BY <2>1, Zenon DEF FiledInv
      <3> QED BY <2>1, <3>1 DEF PlacesInv
    <2>6. pc' = "inodes" => TellsAll(ReverseMap, Out, img.size)'
      BY <2>1 DEF PlacesInv
    <2>7. pc' = "done" => TellsAll(InodeMapFile, Out, img.size)'
      BY <2>1 DEF PlacesInv
    <2> QED BY <2>3, <2>4, <2>5, <2>6, <2>7 DEF PlacesInv
  <1> QED BY <1>2, <1>3, <1>4, <1>5, <1>6, <1>7, <1>8, <1>9 DEF Next, Terminated

\* However the runs of the files of an image (writeAttr, markDataRun) and the unallocated
\* entries lie, what the inode map says of an attribute after outputDiskMap are the bytes
\* that the runs in the records say, each at its offset in the data or in the slack: for
\* all images, entries and arguments, as long as no exception cuts a record short, the
\* range of a file system has all of its data, and the premises of UnallocatedBlocksFree
\* hold.
THEOREM InodeMapFaithful ==
    ASSUME ~Faults, NamesKept, MaximumMeant, BytesAddressed, BlocksWhole, DataInRange
    PROVE  Spec => []InodeRunsFaithful
  <1>1. Premises
    BY DEF Premises
  <1>2. Spec => []UnallocatedInv
    BY <1>1, AlwaysUnallocated
  <1>3. Init => PlacesInv
    BY InitPlaces
  <1>4. UnallocatedInv /\ PlacesInv /\ [Next]_vars => PlacesInv'
    BY <1>1, NextPlaces
  <1>5. UnallocatedInv /\ PlacesInv => InodeRunsFaithful
    BY PlacesFaithful DEF UnallocatedInv
  <1> QED BY <1>2, <1>3, <1>4, <1>5, PTL DEF Spec
=============================================================================
