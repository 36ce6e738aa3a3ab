--------------------------- MODULE Records_proofs ---------------------------
(***************************************************************************)
(* What holds of the records of both walks: their keys find their          *)
(* children, and their links and the hard links of inodes agree.           *)
(*                                                                         *)
(* Every record is the work of one call of writeFile, in the directory on  *)
(* top of a stack whose levels and ids spell the path to it.               *)
(***************************************************************************)
EXTENDS FirstWalkTree, MetadataWriter_proofs

LEMMA UnallocatedPath == <<Unallocated>> \in Path
  <1>1. "$Unallocated" \in STRING /\ <<>> \in Seq(Nat)
    BY TextsAssumption
  <1>2. Unallocated \in Name
    BY <1>1, Zenon DEF Unallocated, PlainName, Name
  <1> QED BY <1>2 DEF Path

-----------------------------------------------------------------------------
(***************************************************************************)
(* The ids and keys of a record spell one bare id, whose length also tells *)
(* the levels.                                                             *)
(***************************************************************************)
Depth(n) == IF n <= 1 THEN 0 ELSE n - 1

Levelled(d) == d.level = Depth(Len(d.bareID))

Levels(dirs) == \A i \in 1 .. Len(dirs) : Levelled(dirs[i])

Spelled(rec, b) ==
    /\ Len(b) > 0
    /\ rec.id       = Spelling(Depth(Len(b)), b)
    /\ rec.parent   = Spelling(Depth(Len(b) - 1), SubSeq(b, 1, Len(b) - 1))
    /\ rec.children = Spelling(Len(b), b)

KeyInv ==
    /\ Levels(Dirs)
    /\ \A n \in DOMAIN Out : \E b \in BareId : Spelled(Out[n], b)

LEMMA ChildLevelled ==
    ASSUME NEW d \in DirInfos, Levelled(d), NEW c \in DirInfos,
           c.level = IF d.bareID = <<>> THEN 0 ELSE d.level + 1,
           NEW v \in Codeword, c.bareID = Append(d.bareID, v)
    PROVE  /\ Levelled(c)
           /\ Len(c.bareID) = Len(d.bareID) + 1
           /\ SubSeq(c.bareID, 1, Len(d.bareID)) = d.bareID
  <1>1. d.bareID \in Seq(Codeword) /\ Len(d.bareID) \in Nat
    BY DirInfoFields DEF BareId
  <1>2. Len(c.bareID) = Len(d.bareID) + 1 /\ SubSeq(c.bareID, 1, Len(d.bareID)) = d.bareID
    BY <1>1
  <1>3. d.bareID = <<>> <=> Len(d.bareID) = 0
    BY <1>1
  <1>4. Levelled(c)
    BY <1>1, <1>2, <1>3 DEF Levelled, Depth
  <1> QED BY <1>2, <1>4

\* The record of an entry spells the bare id of the entry.
LEMMA RecordSpelled ==
    ASSUME NEW d \in DirInfos, Levelled(d), NEW ctx, NEW f
    PROVE  \E b \in BareId : Spelled(Record(ctx, d, f), b)
  <1> DEFINE c == newChild(d, <<>>)
             b == c.bareID
  <1>1. /\ c \in DirInfos /\ c.count = 0
        /\ c.level = IF d.bareID = <<>> THEN 0 ELSE d.level + 1
        /\ \E v \in Codeword : c.bareID = Append(d.bareID, v)
    <2>1. <<>> \in Path
      BY DEF Path
    <2> HIDE DEF c
    <2> QED BY <2>1, NewChildTyped, Zenon DEF c
  <1>2. Record(ctx, d, f).id = id(c) /\ Record(ctx, d, f).parent = id(d)
        /\ Record(ctx, d, f).children = lastChild(c)
    BY DEF Record
  <1> HIDE DEF c
  <1>3. Levelled(c) /\ Len(b) = Len(d.bareID) + 1 /\ SubSeq(b, 1, Len(d.bareID)) = d.bareID
    BY <1>1, ChildLevelled
  <1>4. b \in BareId /\ Len(d.bareID) \in Nat
    BY <1>1, DirInfoFields DEF BareId
  <1>5. id(c) = Spelling(Depth(Len(b)), b)
    BY <1>3 DEF id, Spelling, Levelled
  <1>6. id(d) = Spelling(Depth(Len(b) - 1), SubSeq(b, 1, Len(b) - 1))
    <2>1. Len(b) - 1 = Len(d.bareID)
      BY <1>3, <1>4
    <2>2. id(d) = Spelling(Depth(Len(d.bareID)), d.bareID)
      BY DEF id, Spelling, Levelled
    <2> QED BY <1>3, <2>1, <2>2
  <1>7. lastChild(c) = Spelling(Len(b), b)
    <2>1. childLevel(c) = Len(b)
      <3>1. c.bareID # <<>>
        BY <1>3, <1>4
      <3>2. c.level = Depth(Len(b)) /\ Len(b) >= 1
        BY <1>3, <1>4 DEF Levelled
      <3> QED BY <1>4, <3>1, <3>2 DEF childLevel, Depth
    <2> QED BY <1>1, <2>1 DEF lastChild, Spelling
  <1> QED BY <1>2, <1>3, <1>4, <1>5, <1>6, <1>7 DEF Spelled

LEMMA PushLevels ==
    ASSUME NEW D \in Seq(DirInfos), Len(D) > 0, Levels(D), NEW E \in Seq(DirInfos), NEW p,
           Pushed(D, E, p)
    PROVE  Levels(E)
  <1> DEFINE n == Len(D)
  <1>1. /\ Len(E) = n + 1 /\ \A j \in 1 .. n : E[j] = D[j]
        /\ E[n + 1].level = IF D[n].bareID = <<>> THEN 0 ELSE D[n].level + 1
        /\ \E v \in Codeword : E[n + 1].bareID = Append(D[n].bareID, v)
    BY Zenon DEF Pushed
  <1>2. n \in 1 .. n /\ D[n] \in DirInfos /\ E[n + 1] \in DirInfos
    BY <1>1
  <1>3. Levelled(E[n + 1])
    BY <1>1, <1>2, ChildLevelled DEF Levels
  <1> HIDE DEF n
  <1>4. \A j \in 1 .. n : Levelled(E[j])
    BY <1>1 DEF Levels, n
  <1> QED BY <1>1, <1>2, <1>3, <1>4 DEF Levels

LEMMA UncoverLevels ==
    ASSUME NEW D \in Seq(DirInfos), Levels(D), NEW E \in Seq(DirInfos), NEW i \in 1 .. Len(D),
           Uncovered(D, E, i)
    PROVE  Levels(E)
  <1>1. Len(E) = i
    BY DEF Uncovered
  <1>2. ASSUME NEW j \in 1 .. i
        PROVE  Levelled(E[j])
    <2>1. E[j].level = D[j].level /\ E[j].bareID = D[j].bareID
      BY <1>2 DEF Uncovered
    <2>2. Levelled(D[j])
      BY <1>2 DEF Levels
    <2> QED BY <2>1, <2>2 DEF Levelled
  <1> QED BY <1>1, <1>2 DEF Levels

LEMMA SetCurDirLevels ==
    ASSUME NEW D \in Seq(DirInfos), Len(D) > 0, DistinctPaths(D), Levels(D), NEW p \in Path
    PROVE  setCurDir(D, p) \in Seq(DirInfos) /\ Len(setCurDir(D, p)) > 0 /\ Levels(setCurDir(D, p))
  <1>1. PICK E \in Seq(DirInfos) : E = setCurDir(D, p)
    BY SetCurDirTyped
  <1>2. Len(E) > 0
    BY <1>1, SetCurDirTyped
  <1>3. ASSUME NEW i \in 1 .. Len(D), Uncovered(D, E, i)
        PROVE  Levels(E)
    BY <1>3, UncoverLevels
  <1>4. ASSUME NEW F \in Seq(DirInfos), Pushed(D, F, p), Uncovered(F, E, Len(F))
        PROVE  Levels(E)
    <2>1. Levels(F)
      BY <1>4, PushLevels
    <2>2. Len(F) \in 1 .. Len(F)
      BY <1>4 DEF Pushed
    <2> QED BY <1>4, <2>1, <2>2, UncoverLevels
  <1>5. Levels(E)
    BY <1>1, <1>3, <1>4, SetCurDirCases, Zenon
  <1> QED BY <1>1, <1>2, <1>5

-----------------------------------------------------------------------------
\* What keeps KeyInv: the records grow by at most one, made in the directory on top of a
\* stack whose levels are right.
LEMMA WriteFileKeys ==
    ASSUME KeyInv, ResultsTyped, NEW E \in Seq(DirInfos), Len(E) > 0, Levels(E),
           NEW ctx, NEW f, writeFile(ctx, E, f)
    PROVE  \A n \in DOMAIN Out' : \E b \in BareId : Spelled(Out'[n], b)
  <1> DEFINE r == Record(ctx, back(E), f)
  <1>1. \E b \in BareId : Spelled(r, b)
    <2>1. back(E) \in DirInfos /\ Levelled(back(E))
      BY DEF back, Levels
    <2> QED BY <2>1, RecordSpelled
  <1>2. Out' = Append(Out, r) \/ Out' = Out
    BY Zenon DEF writeFile
  <1> HIDE DEF r
  <1>3. CASE Out' = Out
    BY <1>3, Zenon DEF KeyInv
  <1>4. CASE Out' = Append(Out, r)
    <2>1. PICK S : Out \in Seq(S)
      BY DEF ResultsTyped
    <2>2. /\ DOMAIN Append(Out, r) = DOMAIN Out \cup {Len(Out) + 1}
          /\ \A n \in DOMAIN Out : Append(Out, r)[n] = Out[n]
          /\ Append(Out, r)[Len(Out) + 1] = r
      BY <2>1, OneMoreRecord
    <2>3. \A n \in DOMAIN Append(Out, r) : \E b \in BareId : Spelled(Append(Out, r)[n], b)
      BY <1>1, <2>2, Zenon DEF KeyInv
    <2> QED BY <1>4, <2>3, Zenon
  <1> QED BY <1>2, <1>3, <1>4

LEMMA ProcessFileKeys ==
    ASSUME KeyInv, TypeInv, NEW D \in Seq(DirInfos), Len(D) > 0, DistinctPaths(D), Levels(D),
           NEW ctx, NEW p \in Path, NEW f, processFile(D, ctx, p, f)
    PROVE  KeyInv'
  <1> DEFINE q == VolName \o p
             E == setCurDir(D, q)
  <1>1. q \in Path
    BY DEF TypeInv, ControlTyped, Path
  <1>2. Dirs' = E /\ writeFile(ctx, E, f)
    BY DEF processFile
  <1> HIDE DEF q
  <1>3. E \in Seq(DirInfos) /\ Len(E) > 0 /\ Levels(E)
    BY <1>1, SetCurDirLevels
  <1> HIDE DEF E
  <1>4. \A n \in DOMAIN Out' : \E b \in BareId : Spelled(Out'[n], b)
    BY <1>2, <1>3, WriteFileKeys DEF TypeInv
  <1> QED BY <1>2, <1>3, <1>4, Zenon DEF KeyInv

\* filterVol puts the volume on the root.
LEMMA FilterVolKeys ==
    ASSUME TypeInv, KeyInv, FilterVol
    PROVE  KeyInv'
  <1> DEFINE v  == PartName(img.vols[vol + 1])
             R  == SubSeq(Dirs, 1, 1)
             ds == IF InUnallocated THEN R ELSE setCurDir(R, <<>>)
             E  == Append(ds, newChild(back(ds), <<v>>))
  <1>1. Dirs' = E /\ vol < Len(img.vols)
    BY Zenon DEF FilterVol
  <1>2. R \in Seq(DirInfos) /\ Len(R) = 1 /\ R[1].path = <<>> /\ DistinctPaths(R) /\ R[1] = Dirs[1]
    BY RootStack
  <1>3. Levels(R)
    <2>1. Len(Dirs) \in Nat /\ 1 \in 1 .. Len(Dirs)
      BY DEF TypeInv, TreeTyped
    <2>2. Levelled(Dirs[1])
      BY <2>1 DEF KeyInv, Levels
    <2> HIDE DEF R
    <2> QED BY <1>2, <2>2 DEF Levels
  <1>4. <<>> \in Path
    BY DEF Path
  <1>5. InUnallocated => UNCHANGED Out
    BY DEF FilterVol, results
  <1>6. ~InUnallocated => \E ctx, f : writeFile(ctx, ds, f)
    BY Zenon DEF FilterVol
  <1> HIDE DEF R
  <1>7. ds \in Seq(DirInfos) /\ Len(ds) = 1 /\ ds[1].path = <<>> /\ DistinctPaths(ds)
    BY <1>2, RootCounted, Zenon
  <1>8. Levels(ds)
    BY <1>2, <1>3, <1>4, SetCurDirLevels
  <1> HIDE DEF ds
  <1>9. v \in Name
    <2>1. vol + 1 \in 1 .. Len(img.vols) /\ img \in Images
      BY <1>1, ImageFacts DEF TypeInv, ControlTyped
    <2> QED BY <2>1, ImageFacts
  <1> HIDE DEF v
  <1>10. E \in Seq(DirInfos) /\ Pushed(ds, E, <<v>>)
    BY <1>7, <1>9, VolumeStack
  <1> HIDE DEF E
  <1>11. Levels(E)
    <2>1. Len(ds) > 0
      BY <1>7
    <2> QED BY <1>7, <1>8, <1>10, <2>1, PushLevels, Zenon
  <1>12. \A n \in DOMAIN Out' : \E b \in BareId : Spelled(Out'[n], b)
    <2>1. CASE InUnallocated
      BY <1>5, <2>1, Zenon DEF KeyInv
    <2>2. CASE ~InUnallocated
      <3>1. Len(ds) > 0 /\ ResultsTyped
        BY <1>7 DEF TypeInv
      <3> QED BY <1>6, <1>7, <1>8, <2>2, <3>1, WriteFileKeys, Zenon
    <2> QED BY <2>1, <2>2
  <1> QED BY <1>1, <1>11, <1>12, Zenon DEF KeyInv

LEMMA NextKeys == TypeInv /\ KeyInv /\ [Next]_vars => KeyInv'
  <1> SUFFICES ASSUME TypeInv, KeyInv, [Next]_vars
               PROVE  KeyInv'
    OBVIOUS
  <1>1. /\ Dirs \in Seq(DirInfos) /\ Len(Dirs) > 0 /\ DistinctPaths(Dirs) /\ Dirs[1].path = <<>>
        /\ Levels(Dirs)
    BY DEF TypeInv, TreeTyped, KeyInv
  <1>2. CASE UNCHANGED <<Dirs, Out>>
    BY <1>2, Zenon DEF KeyInv
  <1>3. CASE FilterVol
    BY <1>3, FilterVolKeys
  <1>4. CASE FilterFsUnallocated
    <2> DEFINE k == NumRootEntries[NumVols]
               D == [Dirs EXCEPT ![Len(Dirs)].count = @ + k]
    <2>1. k \in Nat
      <3>1. NumVols \in 0 .. Len(img.vols)
        BY ImageFacts DEF TypeInv, ControlTyped
      <3> QED BY <3>1 DEF TypeInv, TreeTyped
    <2>2. \E ctx : processFile(D, ctx, <<>>, UnallocatedFolder)
      BY <1>4, Zenon DEF FilterFsUnallocated
    <2> HIDE DEF k
    <2>3. D \in Seq(DirInfos) /\ Len(D) > 0 /\ DistinctPaths(D)
      BY <2>1, RecountTyped
    <2>4. Levels(D)
      <3>1. \A i \in 1 .. Len(Dirs) : Dirs[i] \in DirInfos
        BY <1>1
      <3>2. Len(D) = Len(Dirs)
        BY <1>1
      <3>3. \A i \in 1 .. Len(Dirs) : D[i].level = Dirs[i].level /\ D[i].bareID = Dirs[i].bareID
        BY <1>1, <3>1 DEF DirInfos
      <3> HIDE DEF D
      <3> QED BY <1>1, <3>2, <3>3 DEF Levels, Levelled
    <2>5. <<>> \in Path
      BY DEF Path
    <2> HIDE DEF D
    <2> QED BY <2>2, <2>3, <2>4, <2>5, ProcessFileKeys
  <1>5. CASE ProcessFile
    <2>1. \E f, ctx : \E p \in NextPaths : processFile(Dirs, ctx, p, f)
      BY <1>5, Zenon DEF ProcessFile
    <2>2. \E f, ctx : \E p \in Path : processFile(Dirs, ctx, p, f)
      BY <2>1, NextPathsTyped, Zenon
    <2> QED BY <1>1, <2>2, ProcessFileKeys
  <1>6. CASE FragmentBlock \/ FragmentPiece
    <2>1. \E run : emitUnallocated(run)
      BY <1>6, Zenon DEF FragmentBlock, FragmentPiece
    <2>2. \E ctx, f : processFile(Dirs, ctx, <<Unallocated>>, f)
      BY <2>1, Zenon DEF emitUnallocated
    <2>3. <<Unallocated>> \in Path
      BY UnallocatedPath
    <2> QED BY <1>1, <2>2, <2>3, ProcessFileKeys
  <1>7. CASE FilterFs
    BY <1>2, <1>7 DEF FilterFs, tree
  <1>8. CASE OutputDiskMap
    BY <1>2, <1>8 DEF OutputDiskMap, tree
  <1>9. CASE OpenImage \/ NoFilesystem \/ WildPart \/ EndFs \/ WalkError \/ NextFragment \/ FragmentDone
             \/ WalkFailed \/ StartUnallocated \/ FinishWalk \/ OutputInodeMap
    <2>1. UNCHANGED <<tree, results>>
      BY <1>9 DEF OpenImage, NoFilesystem, WildPart, EndFs, WalkError, NextFragment, FragmentDone,
                  WalkFailed, StartUnallocated, FinishWalk, OutputInodeMap
    <2> QED BY <1>2, <2>1 DEF tree, results
  <1>10. CASE UNCHANGED vars \/ Terminated
    BY <1>2, <1>10 DEF Terminated, vars, tree, results
  <1> QED BY <1>3, <1>4, <1>5, <1>6, <1>7, <1>8, <1>9, <1>10 DEF Next

LEMMA InitKeys == Init => KeyInv
  <1> SUFFICES ASSUME Init
               PROVE  KeyInv
    OBVIOUS
  <1>1. Dirs = <<DummyRoot>> /\ Out = <<>>
    BY DEF Init
  <1>2. Levelled(DummyRoot)
    BY DEF Levelled, Depth, DummyRoot
  <1> QED BY <1>1, <1>2 DEF KeyInv, Levels

\* Where the ids spell the bare ids b and c, the one's key tells whether the other is in it.
LEMMA KeyOfParent ==
    ASSUME NEW r, NEW b \in BareId, Spelled(r, b), NEW s, NEW c \in BareId, Spelled(s, c)
    PROVE  s.parent = r.id
             <=> /\ Len(s.id) = Len(r.children) + 1
                 /\ SubSeq(s.id, 1, Len(r.children)) = r.children
  <1> DEFINE n == Len(b)
             m == Len(c)
  <1>1. n \in Nat /\ m \in Nat /\ n > 0 /\ m > 0 /\ b \in Seq(Codeword) /\ c \in Seq(Codeword)
    BY DEF BareId, Spelled
  <1>2. Depth(n) \in Nat /\ Depth(m) \in Nat /\ Depth(m - 1) \in Nat
    BY <1>1 DEF Depth
  <1>3. Len(s.id) = m + 2 /\ Len(r.children) = n + 2
    BY <1>1, <1>2, TypeAndLevel DEF Spelled
  <1> DEFINE front == SubSeq(c, 1, m - 1)
  <1>4. front \in BareId /\ Len(front) = m - 1
    <2>1. \A k \in 0 .. m : SubSeq(c, 1, k) \in Seq(Codeword) /\ Len(SubSeq(c, 1, k)) = k
      BY <1>1
    <2>2. m - 1 \in 0 .. m
      BY <1>1
    <2> QED BY <2>1, <2>2 DEF BareId
  <1>5. s.parent = r.id <=> front = b
    <2>1. s.parent = Spelling(Depth(m - 1), front) /\ r.id = Spelling(Depth(n), b)
      BY DEF Spelled
    <2> HIDE DEF front
    <2>2. s.parent = r.id => front = b
      BY <1>2, <1>4, <2>1, SpellingInjective
    <2>3. front = b => s.parent = r.id
      BY <1>4, <2>1
    <2> QED BY <2>2, <2>3
  <1>6. ASSUME front = b
        PROVE  /\ Len(s.id) = Len(r.children) + 1
               /\ SubSeq(s.id, 1, Len(r.children)) = r.children
    <2>1. n = m - 1 /\ Depth(m) = n /\ n \in 0 .. m
      BY <1>1, <1>4, <1>6 DEF Depth
    <2>2. SubSeq(s.id, 1, n + 2) = Spelling(n, SubSeq(c, 1, n))
      BY <1>2, <2>1, SpellingPrefix DEF Spelled
    <2>3. Len(s.id) = Len(r.children) + 1
      BY <1>1, <1>3, <2>1
    <2> QED BY <1>3, <1>6, <2>1, <2>2, <2>3 DEF Spelled
  <1>7. ASSUME Len(s.id) = Len(r.children) + 1, SubSeq(s.id, 1, Len(r.children)) = r.children
        PROVE  front = b
    <2>1. n = m - 1 /\ n \in 0 .. m
      BY <1>1, <1>3, <1>7
    <2>2. SubSeq(s.id, 1, n + 2) = Spelling(Depth(m), SubSeq(c, 1, n))
      BY <1>2, <2>1, SpellingPrefix DEF Spelled
    <2>3. Spelling(Depth(m), front) = Spelling(n, b)
      BY <1>3, <1>7, <2>1, <2>2 DEF Spelled
    <2> HIDE DEF front
    <2> QED BY <1>1, <1>2, <1>4, <2>3, SpellingInjective
  <1> QED BY <1>5, <1>6, <1>7

LEMMA AlwaysKeys == Spec => []KeyInv
  <1>1. Init => KeyInv
    BY InitKeys
  <1>2. TypeInv /\ KeyInv /\ [Next]_vars => KeyInv'
    BY NextKeys
  <1> QED BY <1>1, <1>2, AlwaysTyped, PTL DEF Spec

\* The key of a record is the prefix of exactly the ids of its children: of both walks, and
\* even where ids are given twice.
THEOREM KeysFindChildren == Spec => []ChildrenKey
  <1>1. KeyInv => ChildrenKey
    <2> SUFFICES ASSUME KeyInv, NEW m \in DOMAIN Out, NEW n \in DOMAIN Out
                 PROVE  Out[n].parent = Out[m].id
                          <=> /\ Len(Out[n].id) = Len(Out[m].children) + 1
                              /\ SubSeq(Out[n].id, 1, Len(Out[m].children)) = Out[m].children
      BY Zenon DEF ChildrenKey
    <2>1. PICK b \in BareId : Spelled(Out[m], b)
      BY Zenon DEF KeyInv
    <2>2. PICK c \in BareId : Spelled(Out[n], c)
      BY Zenon DEF KeyInv
    <2> QED BY <2>1, <2>2, KeyOfParent
  <1> QED BY <1>1, AlwaysKeys, PTL

-----------------------------------------------------------------------------
(***************************************************************************)
(* What writing a record does to the records and to the inodes.            *)
(***************************************************************************)
LinkKey(ctx, f) == <<ctx.vol, f.meta.addr>>

\* The inode key gets one more hard link, and other attributes.
Hardlinked(key, entryId) ==
    \E attrs : ReverseMap' = [x \in DOMAIN ReverseMap \cup {key} |->
                                 IF x = key
                                 THEN [DirentIDs |-> Append(inodeAt(ReverseMap, key).DirentIDs, entryId),
                                       Attrs     |-> attrs]
                                 ELSE ReverseMap[x]]

\* The inodes keep their hard links, and there may be new ones that have none.
LinksKept ==
    /\ DOMAIN ReverseMap \subseteq DOMAIN ReverseMap'
    /\ \A x \in DOMAIN ReverseMap' :
          \E attrs : ReverseMap'[x] = [DirentIDs |-> inodeAt(ReverseMap, x).DirentIDs,
                                       Attrs     |-> attrs]

LEMMA WriteFileLinks ==
    ASSUME NEW ctx, NEW dirs, NEW f, writeFile(ctx, dirs, f)
    PROVE  \/ /\ Out' = Append(Out, Record(ctx, back(dirs), f))
              /\ \/ HasMeta(f) /\ Hardlinked(LinkKey(ctx, f), IdOfChild(dirs))
                 \/ ~HasMeta(f) /\ UNCHANGED ReverseMap
           \/ /\ Faults /\ Out' = Out
              /\ \/ UNCHANGED ReverseMap
                 \/ HasMeta(f) /\ Hardlinked(LinkKey(ctx, f), IdOfChild(dirs))
  <1> DEFINE rec == Record(ctx, back(dirs), f)
  <1>1. \/ /\ Out' = Append(Out, rec)
           /\ \/ HasMeta(f) /\ RecordMeta(ctx, rec.id, f, Len(InUse(f)))
              \/ ~HasMeta(f) /\ UNCHANGED ReverseMap
        \/ /\ Faults /\ Out' = Out
           /\ \/ UNCHANGED ReverseMap
              \/ HasMeta(f) /\ \E n \in 0 .. Len(InUse(f)) : RecordMeta(ctx, rec.id, f, n)
    BY Zenon DEF writeFile
  <1>2. rec.id = IdOfChild(dirs)
    BY DEF Record, IdOfChild
  <1> HIDE DEF rec
  <1>3. ASSUME NEW n, RecordMeta(ctx, rec.id, f, n)
        PROVE  Hardlinked(LinkKey(ctx, f), IdOfChild(dirs))
    BY <1>2, <1>3, Zenon DEF RecordMeta, Hardlinked, LinkKey
  <1> QED BY <1>1, <1>3, Zenon DEF rec

\* OutputDiskMap makes up inodes, and gives all of them runs.
LEMMA OutputDiskMapLinks ==
    ASSUME OutputDiskMap,
           \A x \in DOMAIN ReverseMap : \E s, a : ReverseMap[x] = [DirentIDs |-> s, Attrs |-> a]
    PROVE  LinksKept /\ Out' = Out
  <1>1. /\ Out' = Out
        /\ ReverseMap' = [x \in DOMAIN ReverseMap \cup UNION {InodesIn(k) : k \in DOMAIN AllocatedRuns} |->
                             [inodeAt(ReverseMap, x) EXCEPT !.Attrs = WithRuns(x)]]
    BY DEF OutputDiskMap
  <1> DEFINE S == UNION {InodesIn(k) : k \in DOMAIN AllocatedRuns}
  <1> HIDE DEF S
  <1>2. ReverseMap' = [x \in DOMAIN ReverseMap \cup S |->
                          [inodeAt(ReverseMap, x) EXCEPT !.Attrs = WithRuns(x)]]
    BY <1>1 DEF S
  <1>3. \A x : \E s, a : inodeAt(ReverseMap, x) = [DirentIDs |-> s, Attrs |-> a]
    BY Zenon DEF inodeAt, NoInode
  <1>4. ASSUME NEW x \in DOMAIN ReverseMap'
        PROVE  \E attrs : ReverseMap'[x] = [DirentIDs |-> inodeAt(ReverseMap, x).DirentIDs,
                                            Attrs     |-> attrs]
    <2>1. ReverseMap'[x] = [inodeAt(ReverseMap, x) EXCEPT !.Attrs = WithRuns(x)]
      BY <1>2, <1>4
    <2>2. PICK s, a : inodeAt(ReverseMap, x) = [DirentIDs |-> s, Attrs |-> a]
      BY <1>3
    <2>3. [inodeAt(ReverseMap, x) EXCEPT !.Attrs = WithRuns(x)]
              = [DirentIDs |-> s, Attrs |-> WithRuns(x)]
      BY <2>2
    <2> QED BY <2>1, <2>2, <2>3
  <1> QED BY <1>1, <1>2, <1>4 DEF LinksKept

-----------------------------------------------------------------------------
(***************************************************************************)
(* The invariant: hard links are sequences, a record's link resolves, and  *)
(* without exceptions a hard link is the id of a record.                   *)
(***************************************************************************)
InodesTyped ==
    \A x \in DOMAIN ReverseMap :
        /\ Len(x) = 2
        /\ \E s, a : s \in Seq(BareId) /\ ReverseMap[x] = [DirentIDs |-> s, Attrs |-> a]

LinksResolve ==
    \A n \in Linked :
        /\ Out[n].link \in DOMAIN ReverseMap
        /\ \E i \in DOMAIN ReverseMap[Out[n].link].DirentIDs :
               ReverseMap[Out[n].link].DirentIDs[i] = Out[n].id

HardlinksAreRecords ==
    \A key \in DOMAIN ReverseMap : \A i \in DOMAIN ReverseMap[key].DirentIDs :
        \E n \in Linked : Out[n].link = key /\ Out[n].id = ReverseMap[key].DirentIDs[i]

LinkInv == InodesTyped /\ LinksResolve /\ (~Faults => HardlinksAreRecords)

LEMMA InitLinks == Init => LinkInv
  <1> SUFFICES ASSUME Init
               PROVE  LinkInv
    OBVIOUS
  <1>1. Out = <<>> /\ DOMAIN ReverseMap = {}
    BY DEF Init
  <1> QED BY <1>1 DEF LinkInv, InodesTyped, LinksResolve, HardlinksAreRecords, Linked

\* An inode that is not there yet has no hard links.
LEMMA InodeAtTyped ==
    ASSUME InodesTyped, NEW key
    PROVE  inodeAt(ReverseMap, key).DirentIDs \in Seq(BareId)
  <1>1. CASE key \in DOMAIN ReverseMap
    <2>1. PICK s, a : s \in Seq(BareId) /\ ReverseMap[key] = [DirentIDs |-> s, Attrs |-> a]
      BY <1>1 DEF InodesTyped
    <2> QED BY <1>1, <2>1 DEF inodeAt
  <1>2. CASE key \notin DOMAIN ReverseMap
    BY <1>2 DEF inodeAt, NoInode
  <1> QED BY <1>1, <1>2

\* Where no record is added, and no link.
LEMMA LinksUntouched ==
    ASSUME LinkInv, Out' = Out, ReverseMap' = ReverseMap
    PROVE  LinkInv'
  BY DEF LinkInv, InodesTyped, LinksResolve, HardlinksAreRecords, Linked

\* A record is added, and its inode gets the link.
LEMMA LinkAdded ==
    ASSUME LinkInv, ResultsTyped, NEW ctx, NEW f, NEW e \in BareId,
           Hardlinked(LinkKey(ctx, f), e),
           NEW r, r.id = e, r.link = LinkKey(ctx, f), Out' = Append(Out, r)
    PROVE  LinkInv'
  <1> DEFINE key == LinkKey(ctx, f)
  <1>1. Len(key) = 2 /\ key # NoLink
    BY DEF LinkKey, NoLink
  <1> HIDE DEF key
  <1>2. PICK attrs : ReverseMap' = [x \in DOMAIN ReverseMap \cup {key} |->
                        IF x = key
                        THEN [DirentIDs |-> Append(inodeAt(ReverseMap, key).DirentIDs, e),
                              Attrs     |-> attrs]
                        ELSE ReverseMap[x]]
    BY DEF Hardlinked, key
  <1>3. PICK s \in Seq(BareId) : s = inodeAt(ReverseMap, key).DirentIDs
    BY InodeAtTyped DEF LinkInv
  <1>4. /\ DOMAIN ReverseMap' = DOMAIN ReverseMap \cup {key}
        /\ ReverseMap'[key] = [DirentIDs |-> Append(s, e), Attrs |-> attrs]
        /\ \A x \in DOMAIN ReverseMap : x # key => ReverseMap'[x] = ReverseMap[x]
    BY <1>2, <1>3
  <1>5. /\ Append(s, e) \in Seq(BareId) /\ DOMAIN Append(s, e) = DOMAIN s \cup {Len(s) + 1}
        /\ \A i \in DOMAIN s : Append(s, e)[i] = s[i]
        /\ Append(s, e)[Len(s) + 1] = e
    BY <1>3
  <1> DEFINE k == Len(Out) + 1
  <1>6. /\ DOMAIN Out' = DOMAIN Out \cup {k}
        /\ \A n \in DOMAIN Out : Out'[n] = Out[n]
        /\ Out'[k] = r
    <2>1. PICK S : Out \in Seq(S)
      BY DEF ResultsTyped
    <2>2. /\ DOMAIN Append(Out, r) = DOMAIN Out \cup {Len(Out) + 1}
          /\ \A n \in DOMAIN Out : Append(Out, r)[n] = Out[n]
          /\ Append(Out, r)[Len(Out) + 1] = r
      BY <2>1, OneMoreRecord
    <2> QED BY <2>2, Zenon DEF k
  <1> HIDE DEF k
  <1>7. Linked' = {n \in DOMAIN Out' : Out'[n].link # NoLink}
    BY DEF Linked
  <1>8. Linked' = Linked \cup {k} /\ r.link = key
    <2>1. r.link = key
      BY DEF key
    <2>2. ASSUME NEW n \in Linked'
          PROVE  n \in Linked \cup {k}
      BY <1>6, <1>7, <2>2, Zenon DEF Linked
    <2>3. ASSUME NEW n \in Linked \cup {k}
          PROVE  n \in Linked'
      BY <1>1, <1>6, <1>7, <2>1, <2>3, Zenon DEF Linked
    <2> QED BY <2>1, <2>2, <2>3
  <1>9. InodesTyped'
    <2>1. ASSUME NEW x \in DOMAIN ReverseMap'
          PROVE  /\ Len(x) = 2
                 /\ \E t, a : t \in Seq(BareId) /\ ReverseMap'[x] = [DirentIDs |-> t, Attrs |-> a]
      <3>1. CASE x = key
        BY <1>1, <1>4, <1>5, <3>1
      <3>2. CASE x # key
        <4>1. x \in DOMAIN ReverseMap /\ ReverseMap'[x] = ReverseMap[x]
          BY <1>4, <2>1, <3>2
        <4>2. Len(x) = 2 /\ \E t, a : t \in Seq(BareId) /\ ReverseMap[x] = [DirentIDs |-> t, Attrs |-> a]
          BY <4>1, Zenon DEF LinkInv, InodesTyped
        <4> QED BY <4>1, <4>2, Zenon
      <3> QED BY <3>1, <3>2
    <2> QED BY <2>1, Zenon DEF InodesTyped
  \* The links of an inode that was there are still in their places.
  <1>10. \A x \in DOMAIN ReverseMap : \A i \in DOMAIN ReverseMap[x].DirentIDs :
             /\ i \in DOMAIN ReverseMap'[x].DirentIDs
             /\ ReverseMap'[x].DirentIDs[i] = ReverseMap[x].DirentIDs[i]
    <2>1. key \in DOMAIN ReverseMap => ReverseMap[key].DirentIDs = s
      BY <1>3 DEF inodeAt
    <2>2. ReverseMap'[key].DirentIDs = Append(s, e)
      BY <1>4
    <2> QED BY <1>4, <1>5, <2>1, <2>2, Zenon
  <1>11. LinksResolve'
    <2>1. ASSUME NEW n \in Linked
          PROVE  /\ Out'[n].link \in DOMAIN ReverseMap'
                 /\ \E i \in DOMAIN ReverseMap'[Out'[n].link].DirentIDs :
                        ReverseMap'[Out'[n].link].DirentIDs[i] = Out'[n].id
      <3>1. Out'[n] = Out[n]
        BY <1>6, <2>1 DEF Linked
      <3>2. /\ Out[n].link \in DOMAIN ReverseMap
            /\ \E i \in DOMAIN ReverseMap[Out[n].link].DirentIDs :
                   ReverseMap[Out[n].link].DirentIDs[i] = Out[n].id
        BY <2>1, Zenon DEF LinkInv, LinksResolve
      <3> QED BY <1>4, <1>10, <3>1, <3>2, Zenon
    <2>2. /\ Out'[k].link \in DOMAIN ReverseMap'
          /\ \E i \in DOMAIN ReverseMap'[Out'[k].link].DirentIDs :
                 ReverseMap'[Out'[k].link].DirentIDs[i] = Out'[k].id
      <3>1. Out'[k].link = key /\ Out'[k].id = e
        BY <1>6, <1>8
      <3>2. key \in DOMAIN ReverseMap' /\ ReverseMap'[key].DirentIDs = Append(s, e)
        BY <1>4
      <3> QED BY <1>5, <3>1, <3>2, Zenon
    <2> QED BY <1>8, <2>1, <2>2, Zenon DEF LinksResolve
  <1>12. ASSUME HardlinksAreRecords
         PROVE  HardlinksAreRecords'
    <2> SUFFICES ASSUME NEW x \in DOMAIN ReverseMap', NEW i \in DOMAIN ReverseMap'[x].DirentIDs
                 PROVE  \E n \in Linked' : /\ Out'[n].link = x
                                           /\ Out'[n].id = ReverseMap'[x].DirentIDs[i]
      BY Zenon DEF HardlinksAreRecords
    <2>1. ASSUME x \in DOMAIN ReverseMap, i \in DOMAIN ReverseMap[x].DirentIDs
          PROVE  \E n \in Linked' : /\ Out'[n].link = x
                                    /\ Out'[n].id = ReverseMap'[x].DirentIDs[i]
      <3>1. PICK n \in Linked : Out[n].link = x /\ Out[n].id = ReverseMap[x].DirentIDs[i]
        BY <1>12, <2>1, Zenon DEF HardlinksAreRecords
      <3>2. Out'[n] = Out[n] /\ n \in Linked'
        BY <1>6, <1>8, <3>1 DEF Linked
      <3> QED BY <1>10, <2>1, <3>1, <3>2, Zenon
    <2>2. CASE x # key
      BY <1>4, <2>1, <2>2, Zenon
    <2>3. CASE x = key
      <3>1. ReverseMap'[key].DirentIDs = Append(s, e) /\ i \in DOMAIN s \cup {Len(s) + 1}
        BY <1>4, <1>5, <2>3
      <3>2. CASE i = Len(s) + 1
        <4>1. Out'[k].link = x /\ Out'[k].id = ReverseMap'[x].DirentIDs[i]
          BY <1>5, <1>6, <1>8, <2>3, <3>1, <3>2
        <4> QED BY <1>8, <4>1
      <3>3. CASE i \in DOMAIN s
        <4>1. key \in DOMAIN ReverseMap
          <5>1. key \notin DOMAIN ReverseMap => s = <<>>
            BY <1>3 DEF inodeAt, NoInode
          <5> QED BY <3>3, <5>1
        <4>2. ReverseMap[key].DirentIDs = s
          BY <1>3, <4>1 DEF inodeAt
        <4> QED BY <2>1, <2>3, <3>3, <4>1, <4>2
      <3> QED BY <3>1, <3>2, <3>3
    <2> QED BY <2>2, <2>3
  <1> QED BY <1>9, <1>11, <1>12 DEF LinkInv

\* A record without a link is added.
LEMMA UnlinkedAdded ==
    ASSUME LinkInv, ResultsTyped, ReverseMap' = ReverseMap,
           NEW r, r.link = NoLink, Out' = Append(Out, r)
    PROVE  LinkInv'
  <1> DEFINE k == Len(Out) + 1
  <1>1. /\ DOMAIN Out' = DOMAIN Out \cup {k}
        /\ \A n \in DOMAIN Out : Out'[n] = Out[n]
        /\ Out'[k] = r
    <2>1. PICK S : Out \in Seq(S)
      BY DEF ResultsTyped
    <2>2. /\ DOMAIN Append(Out, r) = DOMAIN Out \cup {Len(Out) + 1}
          /\ \A n \in DOMAIN Out : Append(Out, r)[n] = Out[n]
          /\ Append(Out, r)[Len(Out) + 1] = r
      BY <2>1, OneMoreRecord
    <2> QED BY <2>2, Zenon DEF k
  <1> HIDE DEF k
  <1>2. Linked' = Linked /\ \A n \in Linked : Out'[n] = Out[n]
    <2>1. Linked' = {n \in DOMAIN Out' : Out'[n].link # NoLink}
      BY DEF Linked
    <2>2. \A n \in Linked : n \in DOMAIN Out /\ Out'[n] = Out[n] /\ n \in Linked'
      BY <1>1, <2>1, Zenon DEF Linked
    <2>3. \A n \in Linked' : n \in Linked
      BY <1>1, <2>1, Zenon DEF Linked
    <2> QED BY <2>2, <2>3
  <1>3. InodesTyped'
    BY DEF LinkInv, InodesTyped
  <1>4. LinksResolve'
    <2>1. ASSUME NEW n \in Linked
          PROVE  /\ Out'[n].link \in DOMAIN ReverseMap'
                 /\ \E i \in DOMAIN ReverseMap'[Out'[n].link].DirentIDs :
                        ReverseMap'[Out'[n].link].DirentIDs[i] = Out'[n].id
      <3>1. /\ Out[n].link \in DOMAIN ReverseMap
            /\ \E i \in DOMAIN ReverseMap[Out[n].link].DirentIDs :
                   ReverseMap[Out[n].link].DirentIDs[i] = Out[n].id
        BY <2>1, Zenon DEF LinkInv, LinksResolve
      <3>2. Out'[n] = Out[n]
        BY <1>2, <2>1
      <3> QED BY <3>1, <3>2
    <2> QED BY <1>2, <2>1, Zenon DEF LinksResolve
  <1>5. ASSUME HardlinksAreRecords
        PROVE  HardlinksAreRecords'
    <2>1. ASSUME NEW x \in DOMAIN ReverseMap, NEW i \in DOMAIN ReverseMap[x].DirentIDs
          PROVE  \E n \in Linked' : Out'[n].link = x /\ Out'[n].id = ReverseMap[x].DirentIDs[i]
      <3>1. PICK n \in Linked : Out[n].link = x /\ Out[n].id = ReverseMap[x].DirentIDs[i]
        BY <1>5, <2>1, Zenon DEF HardlinksAreRecords
      <3>2. Out'[n] = Out[n] /\ n \in Linked'
        BY <1>2, <3>1
      <3> QED BY <3>1, <3>2
    <2> QED BY <2>1 DEF HardlinksAreRecords
  <1> QED BY <1>3, <1>4, <1>5 DEF LinkInv

\* Writing the record failed behind the link.
LEMMA LinkWithoutRecord ==
    ASSUME LinkInv, Faults, Out' = Out, NEW ctx, NEW f, NEW e \in BareId,
           Hardlinked(LinkKey(ctx, f), e)
    PROVE  LinkInv'
  <1> DEFINE key == LinkKey(ctx, f)
  <1>1. Len(key) = 2
    BY DEF LinkKey
  <1> HIDE DEF key
  <1>2. PICK attrs : ReverseMap' = [x \in DOMAIN ReverseMap \cup {key} |->
                        IF x = key
                        THEN [DirentIDs |-> Append(inodeAt(ReverseMap, key).DirentIDs, e),
                              Attrs     |-> attrs]
                        ELSE ReverseMap[x]]
    BY DEF Hardlinked, key
  <1>3. PICK s \in Seq(BareId) : s = inodeAt(ReverseMap, key).DirentIDs
    BY InodeAtTyped DEF LinkInv
  <1>4. /\ DOMAIN ReverseMap' = DOMAIN ReverseMap \cup {key}
        /\ ReverseMap'[key] = [DirentIDs |-> Append(s, e), Attrs |-> attrs]
        /\ \A x \in DOMAIN ReverseMap : x # key => ReverseMap'[x] = ReverseMap[x]
    BY <1>2, <1>3
  <1>5. /\ Append(s, e) \in Seq(BareId) /\ DOMAIN Append(s, e) = DOMAIN s \cup {Len(s) + 1}
        /\ \A i \in DOMAIN s : Append(s, e)[i] = s[i]
    BY <1>3
  <1>6. InodesTyped'
    <2>1. ASSUME NEW x \in DOMAIN ReverseMap'
          PROVE  /\ Len(x) = 2
                 /\ \E t, a : t \in Seq(BareId) /\ ReverseMap'[x] = [DirentIDs |-> t, Attrs |-> a]
      <3>1. CASE x = key
        BY <1>1, <1>4, <1>5, <3>1
      <3>2. CASE x # key
        <4>1. x \in DOMAIN ReverseMap /\ ReverseMap'[x] = ReverseMap[x]
          BY <1>4, <2>1, <3>2
        <4>2. Len(x) = 2 /\ \E t, a : t \in Seq(BareId) /\ ReverseMap[x] = [DirentIDs |-> t, Attrs |-> a]
          BY <4>1, Zenon DEF LinkInv, InodesTyped
        <4> QED BY <4>1, <4>2, Zenon
      <3> QED BY <3>1, <3>2
    <2> QED BY <2>1, Zenon DEF InodesTyped
  <1>7. \A x \in DOMAIN ReverseMap : \A i \in DOMAIN ReverseMap[x].DirentIDs :
            /\ i \in DOMAIN ReverseMap'[x].DirentIDs
            /\ ReverseMap'[x].DirentIDs[i] = ReverseMap[x].DirentIDs[i]
    <2>1. key \in DOMAIN ReverseMap => ReverseMap[key].DirentIDs = s
      BY <1>3 DEF inodeAt
    <2>2. ReverseMap'[key].DirentIDs = Append(s, e)
      BY <1>4
    <2> QED BY <1>4, <1>5, <2>1, <2>2, Zenon
  <1>8. Linked' = Linked
    BY DEF Linked
  <1>9. LinksResolve'
    <2>1. ASSUME NEW n \in Linked
          PROVE  /\ Out[n].link \in DOMAIN ReverseMap'
                 /\ \E i \in DOMAIN ReverseMap'[Out[n].link].DirentIDs :
                        ReverseMap'[Out[n].link].DirentIDs[i] = Out[n].id
      <3>1. /\ Out[n].link \in DOMAIN ReverseMap
            /\ \E i \in DOMAIN ReverseMap[Out[n].link].DirentIDs :
                   ReverseMap[Out[n].link].DirentIDs[i] = Out[n].id
        BY <2>1, Zenon DEF LinkInv, LinksResolve
      <3> QED BY <1>4, <1>7, <3>1, Zenon
    <2> QED BY <1>8, <2>1, Zenon DEF LinksResolve
  <1> QED BY <1>6, <1>9 DEF LinkInv

\* outputDiskMap leaves the hard links as they are.
LEMMA LinksKeptKeep ==
    ASSUME LinkInv, Out' = Out, LinksKept, \A x \in DOMAIN ReverseMap' : Len(x) = 2
    PROVE  LinkInv'
  <1>1. Linked' = Linked
    BY DEF Linked
  <1>2. ASSUME NEW x \in DOMAIN ReverseMap'
        PROVE  ReverseMap'[x].DirentIDs = inodeAt(ReverseMap, x).DirentIDs
    <2>1. PICK attrs : ReverseMap'[x] = [DirentIDs |-> inodeAt(ReverseMap, x).DirentIDs,
                                         Attrs     |-> attrs]
      BY <1>2, Zenon DEF LinksKept
    <2> QED BY <2>1
  <1>3. \A x \in DOMAIN ReverseMap : ReverseMap'[x].DirentIDs = ReverseMap[x].DirentIDs
    BY <1>2 DEF inodeAt, LinksKept
  <1>4. InodesTyped'
    <2>1. ASSUME NEW x \in DOMAIN ReverseMap'
          PROVE  \E t, a : t \in Seq(BareId) /\ ReverseMap'[x] = [DirentIDs |-> t, Attrs |-> a]
      <3>1. inodeAt(ReverseMap, x).DirentIDs \in Seq(BareId)
        BY InodeAtTyped DEF LinkInv
      <3>2. \E attrs : ReverseMap'[x] = [DirentIDs |-> inodeAt(ReverseMap, x).DirentIDs,
                                         Attrs     |-> attrs]
        BY <2>1, Zenon DEF LinksKept
      <3> QED BY <3>1, <3>2, Zenon
    <2> QED BY <2>1, Zenon DEF InodesTyped
  <1>5. LinksResolve'
    <2>1. ASSUME NEW n \in Linked
          PROVE  /\ Out[n].link \in DOMAIN ReverseMap'
                 /\ \E i \in DOMAIN ReverseMap'[Out[n].link].DirentIDs :
                        ReverseMap'[Out[n].link].DirentIDs[i] = Out[n].id
      <3>1. /\ Out[n].link \in DOMAIN ReverseMap
            /\ \E i \in DOMAIN ReverseMap[Out[n].link].DirentIDs :
                   ReverseMap[Out[n].link].DirentIDs[i] = Out[n].id
        BY <2>1, Zenon DEF LinkInv, LinksResolve
      <3>2. ReverseMap'[Out[n].link].DirentIDs = ReverseMap[Out[n].link].DirentIDs
        BY <1>3, <3>1
      <3>3. Out[n].link \in DOMAIN ReverseMap'
        BY <3>1 DEF LinksKept
      <3> QED BY <3>1, <3>2, <3>3
    <2> QED BY <1>1, <2>1, Zenon DEF LinksResolve
  <1>6. ASSUME HardlinksAreRecords
        PROVE  HardlinksAreRecords'
    <2> SUFFICES ASSUME NEW x \in DOMAIN ReverseMap', NEW i \in DOMAIN ReverseMap'[x].DirentIDs
                 PROVE  \E n \in Linked' : /\ Out'[n].link = x
                                           /\ Out'[n].id = ReverseMap'[x].DirentIDs[i]
      BY Zenon DEF HardlinksAreRecords
    <2>1. x \in DOMAIN ReverseMap
      <3>1. x \notin DOMAIN ReverseMap => inodeAt(ReverseMap, x).DirentIDs = <<>>
        BY DEF inodeAt, NoInode
      <3>2. ReverseMap'[x].DirentIDs # <<>>
        OBVIOUS
      <3> QED BY <1>2, <3>1, <3>2
    <2>2. ReverseMap'[x].DirentIDs = ReverseMap[x].DirentIDs
      BY <1>3, <2>1
    <2>3. PICK n \in Linked : Out[n].link = x /\ Out[n].id = ReverseMap[x].DirentIDs[i]
      BY <1>6, <2>1, <2>2, Zenon DEF HardlinksAreRecords
    <2> QED BY <1>1, <2>2, <2>3
  <1> QED BY <1>4, <1>5, <1>6 DEF LinkInv

\* The inodes of the disk map are pairs.
LEMMA OutputDiskMapPairs ==
    ASSUME InodesTyped, OutputDiskMap
    PROVE  \A x \in DOMAIN ReverseMap' : Len(x) = 2
  <1>1. DOMAIN ReverseMap' = DOMAIN ReverseMap \cup UNION {InodesIn(k) : k \in DOMAIN AllocatedRuns}
    BY Zenon DEF OutputDiskMap
  <1>2. \A k : \A x \in InodesIn(k) : Len(x) = 2
    BY DEF InodesIn
  <1>3. \A x \in DOMAIN ReverseMap : Len(x) = 2
    BY Zenon DEF InodesTyped
  <1> QED BY <1>1, <1>2, <1>3

-----------------------------------------------------------------------------
(***************************************************************************)
(* The steps.                                                              *)
(***************************************************************************)
LEMMA WriteFileKeepsLinks ==
    ASSUME LinkInv, ResultsTyped, NEW E \in Seq(DirInfos), Len(E) > 0,
           NEW ctx, NEW f, writeFile(ctx, E, f)
    PROVE  LinkInv'
  <1> DEFINE r == Record(ctx, back(E), f)
             e == IdOfChild(E)
  <1>1. e \in BareId
    <2>1. back(E) \in DirInfos
      BY DEF back
    <2>2. <<>> \in Path
      BY DEF Path
    <2>3. newChild(back(E), <<>>) \in DirInfos
      BY <2>1, <2>2, NewChildTyped
    <2> QED BY <2>3, IdTyped DEF IdOfChild
  <1>2. r.id = e /\ r.link = IF HasMeta(f) THEN LinkKey(ctx, f) ELSE NoLink
    BY DEF Record, IdOfChild, LinkKey
  <1>3. \/ /\ Out' = Append(Out, r)
           /\ \/ HasMeta(f) /\ Hardlinked(LinkKey(ctx, f), e)
              \/ ~HasMeta(f) /\ ReverseMap' = ReverseMap
        \/ /\ Faults /\ Out' = Out
           /\ \/ ReverseMap' = ReverseMap
              \/ HasMeta(f) /\ Hardlinked(LinkKey(ctx, f), e)
    BY WriteFileLinks, Zenon
  <1> HIDE DEF r, e
  <1>4. CASE Out' = Append(Out, r) /\ HasMeta(f) /\ Hardlinked(LinkKey(ctx, f), e)
    BY <1>1, <1>2, <1>4, LinkAdded
  <1>5. CASE Out' = Append(Out, r) /\ ~HasMeta(f) /\ ReverseMap' = ReverseMap
    BY <1>2, <1>5, UnlinkedAdded
  <1>6. CASE Out' = Out /\ ReverseMap' = ReverseMap
    BY <1>6, LinksUntouched
  <1>7. CASE Faults /\ Out' = Out /\ Hardlinked(LinkKey(ctx, f), e)
    BY <1>1, <1>7, LinkWithoutRecord
  <1> QED BY <1>3, <1>4, <1>5, <1>6, <1>7

LEMMA ProcessFileKeepsLinks ==
    ASSUME LinkInv, TypeInv, NEW D \in Seq(DirInfos), Len(D) > 0, DistinctPaths(D),
           D[1].path = <<>>, NEW ctx, NEW p \in Path, NEW f, processFile(D, ctx, p, f)
    PROVE  LinkInv'
  <1> DEFINE q == VolName \o p
             E == setCurDir(D, q)
  <1>1. q \in Path
    BY DEF TypeInv, ControlTyped, Path
  <1>2. writeFile(ctx, E, f)
    BY DEF processFile
  <1> HIDE DEF q
  <1>3. E \in Seq(DirInfos) /\ Len(E) > 0
    BY <1>1, SetCurDirTyped
  <1> QED BY <1>2, <1>3, WriteFileKeepsLinks DEF TypeInv

LEMMA NextKeepsLinks == TypeInv /\ LinkInv /\ [Next]_vars => LinkInv'
  <1> SUFFICES ASSUME TypeInv, LinkInv, [Next]_vars
               PROVE  LinkInv'
    OBVIOUS
  <1>1. Dirs \in Seq(DirInfos) /\ Len(Dirs) > 0 /\ DistinctPaths(Dirs) /\ Dirs[1].path = <<>>
    BY DEF TypeInv, TreeTyped
  <1>2. CASE UNCHANGED <<Out, ReverseMap>>
    BY <1>2, LinksUntouched
  <1>3. CASE FilterVol
    <2>1. CASE InUnallocated
      BY <1>2, <1>3, <2>1 DEF FilterVol, results
    <2>2. CASE ~InUnallocated
      <3> DEFINE R == SubSeq(Dirs, 1, 1)
                 E == setCurDir(R, <<>>)
      <3>1. \E ctx, f : writeFile(ctx, E, f)
        BY <1>3, <2>2, Zenon DEF FilterVol
      <3>2. R \in Seq(DirInfos) /\ Len(R) = 1 /\ R[1].path = <<>> /\ DistinctPaths(R)
        BY RootStack
      <3> HIDE DEF R
      <3>3. E \in Seq(DirInfos) /\ Len(E) = 1
        BY <3>2, RootCounted
      <3> HIDE DEF E
      <3>4. Len(E) > 0 /\ ResultsTyped
        BY <3>3 DEF TypeInv
      <3> QED BY <3>1, <3>3, <3>4, WriteFileKeepsLinks, Zenon
    <2> QED BY <2>1, <2>2
  <1>4. CASE FilterFsUnallocated
    <2> DEFINE D == [Dirs EXCEPT ![Len(Dirs)].count = @ + NumRootEntries[NumVols]]
    <2>1. NumRootEntries[NumVols] \in Nat
      <3>1. NumVols \in 0 .. Len(img.vols)
        BY ImageFacts DEF TypeInv, ControlTyped
      <3> QED BY <3>1 DEF TypeInv, TreeTyped
    <2>2. D \in Seq(DirInfos) /\ Len(D) > 0 /\ DistinctPaths(D) /\ D[1].path = <<>>
      BY <2>1, RecountTyped
    <2>3. \E ctx : processFile(D, ctx, <<>>, UnallocatedFolder)
      BY <1>4, Zenon DEF FilterFsUnallocated
    <2>4. <<>> \in Path
      BY DEF Path
    <2> HIDE DEF D
    <2> QED BY <2>2, <2>3, <2>4, ProcessFileKeepsLinks
  <1>5. CASE ProcessFile
    <2>1. \E f, ctx : \E p \in NextPaths : processFile(Dirs, ctx, p, f)
      BY <1>5, Zenon DEF ProcessFile
    <2>2. \E f, ctx : \E p \in Path : processFile(Dirs, ctx, p, f)
      BY <2>1, NextPathsTyped, Zenon
    <2> QED BY <1>1, <2>2, ProcessFileKeepsLinks
  <1>6. CASE FragmentBlock \/ FragmentPiece
    <2>1. \E run : emitUnallocated(run)
      BY <1>6, Zenon DEF FragmentBlock, FragmentPiece
    <2>2. \E ctx, f : processFile(Dirs, ctx, <<Unallocated>>, f)
      BY <2>1, Zenon DEF emitUnallocated
    <2>3. <<Unallocated>> \in Path
      BY UnallocatedPath
    <2> QED BY <1>1, <2>2, <2>3, ProcessFileKeepsLinks
  <1>7. CASE OutputDiskMap
    <2>1. ASSUME NEW x \in DOMAIN ReverseMap
          PROVE  \E s, a : ReverseMap[x] = [DirentIDs |-> s, Attrs |-> a]
      <3>1. PICK s, a : s \in Seq(BareId) /\ ReverseMap[x] = [DirentIDs |-> s, Attrs |-> a]
        BY Zenon DEF LinkInv, InodesTyped
      <3> QED BY <3>1, Zenon
    <2>2. LinksKept /\ Out' = Out
      BY <1>7, <2>1, OutputDiskMapLinks
    <2>3. \A x \in DOMAIN ReverseMap' : Len(x) = 2
      BY <1>7, OutputDiskMapPairs DEF LinkInv
    <2> QED BY <2>2, <2>3, LinksKeptKeep
  <1>8. CASE FilterFs
    BY <1>2, <1>8 DEF FilterFs
  <1>9. CASE OpenImage \/ NoFilesystem \/ WildPart \/ EndFs \/ WalkError \/ NextFragment \/ FragmentDone
             \/ WalkFailed \/ StartUnallocated \/ FinishWalk \/ OutputInodeMap
    <2>1. UNCHANGED results
      BY <1>9 DEF OpenImage, NoFilesystem, WildPart, EndFs, WalkError, NextFragment, FragmentDone,
                  WalkFailed, StartUnallocated, FinishWalk, OutputInodeMap
    <2> QED BY <1>2, <2>1 DEF results
  <1>10. CASE UNCHANGED vars \/ Terminated
    BY <1>2, <1>10 DEF Terminated, vars, results
  <1> QED BY <1>3, <1>4, <1>5, <1>6, <1>7, <1>8, <1>9, <1>10 DEF Next

LEMMA AlwaysLinked == Spec => []LinkInv
  <1>1. Init => LinkInv
    BY InitLinks
  <1>2. TypeInv /\ LinkInv /\ [Next]_vars => LinkInv'
    BY NextKeepsLinks
  <1> QED BY <1>1, <1>2, AlwaysTyped, PTL DEF Spec

\* A record's __link leads to an inode that lists the record among its hard links, for
\* all images and entries, in both walks, and whichever records fail to be written.
THEOREM EveryLinkRecorded == Spec => []LinksRecorded
  <1>1. LinkInv => LinksRecorded
    BY Zenon DEF LinkInv, LinksResolve, LinksRecorded
  <1> QED BY <1>1, AlwaysLinked, PTL

\* Where no exception loses a record, each hard link of an inode is also the id of a
\* record, and of one that links to the inode.
THEOREM LinksAreMutual ==
    ASSUME Faults = FALSE
    PROVE  Spec => []LinksMutual
  <1>1. LinkInv => LinksMutual
    BY Zenon DEF LinkInv, LinksResolve, HardlinksAreRecords, LinksRecorded, LinksMutual
  <1> QED BY <1>1, AlwaysLinked, PTL

-----------------------------------------------------------------------------
(***************************************************************************)
(* The ids of the first walk are distinct, whatever the image holds, in    *)
(* whatever depth-first order libtsk reports it, and whichever records     *)
(* fail to be written.                                                     *)
(*                                                                         *)
(* The stack Dirs is a position in the tree.  The invariant says that the  *)
(* stack is a chain of last children, that every record's id was made at   *)
(* this position or before it, and that setCurDir never has to push a      *)
(* directory on top of one in which nothing has been counted.              *)
(*                                                                         *)
(* The walk over the files implements IdTree, for all images, trees and    *)
(* exceptions: the initial states agree, a callback that writes a record   *)
(* visits the entry that follows, and every other step stutters.           *)
(*                                                                         *)
(* The records of the first walk form a tree of paths.  A parent's id      *)
(* names the directory that the path names, also where exceptions lose     *)
(* records; where none does, each directory is written before its entries. *)
(* The open directories are the prefixes of one path.  setCurDir pushes    *)
(* only the directory that the entry immediately before announced, with    *)
(* the id of that entry, and under that id nothing has been written yet.   *)
(***************************************************************************)
\* Only a volume (or the image) just entered has nothing counted in it, and its first
\* entry is in its root directory.
WalkOrder ==
    /\ pc \notin {"flush", "fragment"}
    /\ pc = "fs" => img.vols # <<>> \/ vol = 1
    /\ pc = "open" \/ AtFs => back(Dirs).path = VolName
    /\ pc = "fs" /\ back(Dirs).count = 0 =>
           cur = <<>> /\ subdir = <<>> /\ back(Dirs).path = VolName

\* Counts do not overflow.
Counted ==
    /\ pc = "open" => NumFiles = 0
    /\ NumFiles <= MaxEntries + NumVols
    /\ \A i \in 1 .. Len(Dirs) : Dirs[i].count <= NumFiles

AllReached == Chain(Dirs) /\ \A n \in DOMAIN Out : Reached(Out[n].id, Dirs)

FirstWalkHolds == WalkOrder /\ Counted /\ AllReached /\ UniqueIds

FirstWalkInv == ~InUnallocated => FirstWalkHolds

-----------------------------------------------------------------------------
LEMMA InitFirstWalk == Init => FirstWalkInv
  <1> SUFFICES ASSUME Init
               PROVE  FirstWalkHolds
    BY DEF FirstWalkInv
  <1>1. /\ pc = "open" /\ NumFiles = 0 /\ NumVols = 0 /\ VolName = <<>>
        /\ Dirs = <<DummyRoot>> /\ Out = <<>>
    BY DEF Init
  <1>2. Len(Dirs) = 1 /\ Dirs[1] = DummyRoot /\ back(Dirs) = DummyRoot
    BY <1>1 DEF back
  <1>3. WalkOrder
    BY <1>1, <1>2 DEF WalkOrder, DummyRoot
  <1>4. Counted
    BY <1>1, <1>2, MaxEntriesAssumption DEF Counted, DummyRoot
  <1>5. DOMAIN Out = {}
    BY <1>1
  <1>6. Chain(Dirs)
    <2>1. Len(DummyRoot.bareID) = 0 /\ DummyRoot.level = 0
      BY DEF DummyRoot
    <2> QED BY <1>2, <2>1 DEF Chain
  <1> QED BY <1>3, <1>4, <1>5, <1>6 DEF AllReached, UniqueIds, FirstWalkHolds

-----------------------------------------------------------------------------
(***************************************************************************)
(* A record written in a directory of which it has been counted.           *)
(***************************************************************************)
LEMMA PassedReached ==
    ASSUME NEW x \in BareId, NEW D \in Seq(DirInfos), Passed(x, D)
    PROVE  Reached(x, D)
  <1>1. Len(D) \in Nat /\ Len(x) \in Nat
    BY DEF BareId
  <1>2. Len(x) - 2 \in 1 .. Len(D) - 1 => Len(x) - 2 \in 1 .. Len(D)
    BY <1>1
  <1> QED BY <1>2 DEF Passed, Reached

LEMMA RecordIsNew ==
    ASSUME ResultsTyped, UniqueIds,
           NEW E \in Seq(DirInfos), Len(E) > 0, Chain(E), E[Len(E)].count > 0,
           \A i \in 1 .. Len(E) : E[i].count < CountLimit,
           \A n \in DOMAIN Out : Passed(Out[n].id, E),
           Wrote(E)
    PROVE  UniqueIds' /\ \A n \in DOMAIN Out' : Reached(Out'[n].id, E)
  <1> DEFINE x == IdOfChild(E)
  <1>1. x \in BareId /\ Len(x) = Len(E) + 2 /\ Follows(x, E, Len(E)) /\ Reached(x, E)
    BY IdSpellsPosition
  <1> HIDE DEF x
  <1>2. \A n \in DOMAIN Out : Reached(Out[n].id, E)
    BY PassedReached DEF ResultsTyped
  <1>3. \A n \in DOMAIN Out : Out[n].id # x
    BY <1>1, PassedDiffers, Zenon
  <1>4. CASE Out' = Out
    BY <1>2, <1>4 DEF UniqueIds
  <1>5. ASSUME NEW r, Out' = Append(Out, r), r.id = x
        PROVE  UniqueIds' /\ \A n \in DOMAIN Out' : Reached(Out'[n].id, E)
    <2>1. PICK S : Out \in Seq(S)
      BY DEF ResultsTyped
    <2>2. /\ DOMAIN Append(Out, r) = DOMAIN Out \cup {Len(Out) + 1}
          /\ \A n \in DOMAIN Out : Append(Out, r)[n] = Out[n]
          /\ Append(Out, r)[Len(Out) + 1] = r
      BY <2>1, OneMoreRecord
    <2> DEFINE k == Len(Out) + 1
    <2> HIDE DEF k
    <2>3. /\ DOMAIN Out' = DOMAIN Out \cup {k}
          /\ \A n \in DOMAIN Out : Out'[n].id = Out[n].id
          /\ Out'[k].id = x
      BY <1>5, <2>2 DEF k
    <2>4. UniqueIds'
      BY <1>3, <2>3, Zenon DEF UniqueIds
    <2>5. \A n \in DOMAIN Out' : Reached(Out'[n].id, E)
      BY <1>1, <1>2, <2>3, Zenon
    <2> QED BY <2>4, <2>5
  <1> QED BY <1>4, <1>5 DEF Wrote, x

\* The counts fit their 32 bits with room to spare.
LEMMA CountsSmall ==
    ASSUME TypeInv, NumFiles < MaxEntries + Len(img.vols)
    PROVE  NumFiles + 1 < CountLimit
  <1>1. img \in Images /\ NumFiles \in Nat
    BY DEF TypeInv, ControlTyped, ResultsTyped
  <1>2. MaxEntries + Len(img.vols) <= 2147483647 /\ MaxEntries \in Nat
    BY <1>1, MaxEntriesAssumption
  <1>3. Len(img.vols) \in Nat
    BY <1>1, ImageFacts
  <1> QED BY <1>1, <1>2, <1>3 DEF CountLimit

LEMMA MoveOn ==
    ASSUME TypeInv, Counted, AllReached, UniqueIds, NumFiles < MaxEntries + Len(img.vols),
           NEW E \in Seq(DirInfos), Len(E) > 0, Chain(E), E[Len(E)].count > 0,
           \A i \in 1 .. Len(E) : E[i].count <= NumFiles + 1,
           \A x \in BareId : Reached(x, Dirs) => Passed(x, E),
           Wrote(E)
    PROVE  UniqueIds' /\ \A n \in DOMAIN Out' : Reached(Out'[n].id, E)
  <1>1. NumFiles + 1 < CountLimit /\ NumFiles \in Nat
    BY CountsSmall DEF TypeInv, ResultsTyped
  <1>2. ASSUME NEW i \in 1 .. Len(E)
        PROVE  E[i].count < CountLimit
    <2>1. E[i].count \in Nat
      BY DirInfoFields
    <2> QED BY <1>1, <2>1 DEF CountLimit
  <1>3. \A n \in DOMAIN Out : Passed(Out[n].id, E)
    BY DEF AllReached, TypeInv, ResultsTyped
  <1> QED BY <1>2, <1>3, RecordIsNew DEF TypeInv

\* Most steps write nothing.
LEMMA ResultsKept ==
    ASSUME Counted, AllReached, UniqueIds, pc' # "open", UNCHANGED <<Dirs, Out, NumFiles>>,
           NumVols' = NumVols \/ (NumFiles = 0 /\ NumVols' = 0)
    PROVE  Counted' /\ AllReached' /\ UniqueIds'
  <1>1. Counted'
    BY MaxEntriesAssumption DEF Counted
  <1>2. AllReached'
    BY DEF AllReached
  <1>3. UniqueIds'
    BY DEF UniqueIds
  <1> QED BY <1>1, <1>2, <1>3

-----------------------------------------------------------------------------
(***************************************************************************)
(* The steps of the first walk.                                            *)
(***************************************************************************)
LEMMA OpenImageFirst ==
    ASSUME TypeInv, FirstWalkHolds, OpenImage
    PROVE  FirstWalkHolds'
  <1>1. UNCHANGED <<Dirs, Out, NumFiles, img>> /\ pc = "open" /\ pc' \in {"walk", "failed"}
    BY DEF OpenImage, args, tree, results, Start
  <1>2. NumVols' = NumVols \/ (NumFiles = 0 /\ NumVols' = 0)
    BY <1>1 DEF OpenImage, Start, volume, FirstWalkHolds, Counted
  <1>3. Counted' /\ AllReached' /\ UniqueIds'
    BY <1>1, <1>2, ResultsKept DEF FirstWalkHolds
  <1>4. WalkOrder'
    <2>1. VolName' = VolName
      BY DEF OpenImage, volume
    <2> QED BY <1>1, <2>1 DEF FirstWalkHolds, WalkOrder, AtFs, back
  <1> QED BY <1>3, <1>4 DEF FirstWalkHolds

\* Leaving a volume, or going to the output.
LEMMA LeaveFirst ==
    ASSUME TypeInv, FirstWalkHolds,
           NoFilesystem \/ WildPart \/ EndFs \/ WalkError \/ WalkFailed \/ FinishWalk \/ OutputDiskMap
               \/ OutputInodeMap
    PROVE  FirstWalkHolds'
  <1>1. UNCHANGED <<Dirs, Out, NumFiles, NumVols, img>>
        /\ pc' \in {"walk", "failed", "crashed", "maps", "inodes", "done"}
    BY DEF NoFilesystem, WildPart, EndFs, WalkError, WalkFailed, FinishWalk, OutputDiskMap,
           OutputInodeMap, args, tree, results, volume
  <1>2. Counted' /\ AllReached' /\ UniqueIds'
    BY <1>1, ResultsKept DEF FirstWalkHolds
  <1>3. pc' = "walk" => img.vols # <<>> \/ vol' = 1
    <2>1. NoFilesystem => img.vols # <<>> \/ vol' = 1
      BY DEF NoFilesystem
    <2>2. EndFs => img.vols # <<>> \/ vol' = 1
      BY DEF EndFs, walk, FirstWalkHolds, WalkOrder
    <2>3. WalkError => img.vols # <<>> \/ vol' = 1
      BY DEF WalkError
    <2> QED BY <2>1, <2>2, <2>3 DEF WildPart, WalkFailed, FinishWalk, OutputDiskMap, OutputInodeMap
  <1>4. WalkOrder'
    BY <1>1, <1>3 DEF WalkOrder, AtFs
  <1> QED BY <1>2, <1>4 DEF FirstWalkHolds

LEMMA FilterFsFirst ==
    ASSUME TypeInv, FirstWalkHolds, FilterFs
    PROVE  FirstWalkHolds'
  <1>1. /\ UNCHANGED <<Dirs, Out, NumFiles, NumVols, VolName, img>> /\ pc' = "fs" /\ AtFs
        /\ cur' = <<>> /\ subdir' = <<>> /\ (img.vols # <<>> \/ vol' = 1)
    BY DEF FilterFs, setFsInfo, args, tree, volume, NoEntry
  <1>2. Counted' /\ AllReached' /\ UniqueIds'
    BY <1>1, ResultsKept DEF FirstWalkHolds
  <1>3. back(Dirs').path = VolName'
    BY <1>1 DEF FirstWalkHolds, WalkOrder
  <1>4. WalkOrder'
    BY <1>1, <1>3 DEF WalkOrder, AtFs
  <1> QED BY <1>2, <1>4 DEF FirstWalkHolds

\* filterVol goes back to the root, and counts the volume in it.
LEMMA FilterVolFirst ==
    ASSUME TypeInv, FirstWalkHolds, ~InUnallocated, FilterVol
    PROVE  FirstWalkHolds'
  <1> DEFINE root == SubSeq(Dirs, 1, 1)
             E    == setCurDir(root, <<>>)
             v    == PartName(img.vols[vol + 1])
             F    == Append(E, newChild(back(E), <<v>>))
  <1>1. /\ UNCHANGED img /\ vol < Len(img.vols) /\ NumVols' = NumVols + 1 /\ pc' = "vol"
        /\ VolName' = <<v>> /\ Dirs' = F
    BY Zenon DEF FilterVol, args
  <1>2. Wrote(E)
    <2>1. \E ctx, f : writeFile(ctx, E, f)
      BY Zenon DEF FilterVol
    <2> QED BY <2>1, WriteFileEffect
  <1>3. v \in Name /\ Len(img.vols) \in Nat /\ NumVols = vol /\ vol \in Nat
    <2>1. img \in Images /\ vol \in Nat
      BY DEF TypeInv, ControlTyped
    <2>2. img.vols # <<>> /\ vol + 1 \in 1 .. Len(img.vols)
      BY <1>1, <2>1, ImageFacts
    <2> QED BY <2>1, <2>2, ImageFacts DEF TypeInv, ControlTyped
  <1> HIDE DEF v
  <1>4. /\ E \in Seq(DirInfos) /\ Len(E) = 1 /\ E[1].path = <<>> /\ DistinctPaths(E)
        /\ Uncovered(root, E, 1) /\ root[1] = Dirs[1]
    <2>1. /\ root \in Seq(DirInfos) /\ Len(root) = 1 /\ root[1].path = <<>>
          /\ DistinctPaths(root) /\ root[1] = Dirs[1]
      BY RootStack
    <2> HIDE DEF root
    <2> QED BY <2>1, RootCounted
  <1> HIDE DEF root, E
  <1>5. Uncovered(Dirs, E, 1)
    BY <1>4 DEF Uncovered
  <1>6. Dirs \in Seq(DirInfos) /\ 1 \in 1 .. Len(Dirs)
    BY DEF TypeInv, TreeTyped
  <1>7. Chain(E) /\ \A x \in BareId : Reached(x, Dirs) => Passed(x, E)
    BY <1>4, <1>5, <1>6, UncoverChain, UncoverPasses DEF FirstWalkHolds, AllReached
  <1>8. E[1].count > 0 /\ E[1].count <= NumFiles + 1 /\ NumFiles \in Nat
    <2>1. Dirs[1].count \in Nat
      BY <1>6, DirInfoFields
    <2> QED BY <1>5, <1>6, <2>1 DEF Uncovered, FirstWalkHolds, Counted, TypeInv, ResultsTyped
  <1>9. /\ Len(E) > 0 /\ E[Len(E)].count > 0
        /\ \A i \in 1 .. Len(E) : E[i].count <= NumFiles + 1
    BY <1>4, <1>8
  <1>10. MaxEntries \in Nat /\ NumFiles < MaxEntries + Len(img.vols)
    BY <1>1, <1>3, <1>8, MaxEntriesAssumption DEF FirstWalkHolds, Counted
  <1>11. UniqueIds' /\ \A n \in DOMAIN Out' : Reached(Out'[n].id, E)
    BY <1>2, <1>4, <1>7, <1>9, <1>10, MoveOn DEF FirstWalkHolds
  <1>12. F \in Seq(DirInfos) /\ Pushed(E, F, <<v>>)
    BY <1>3, <1>4, VolumeStack
  <1> HIDE DEF F
  <1>13. Chain(F)
    BY <1>4, <1>7, <1>9, <1>12, PushChain
  <1>14. \A n \in DOMAIN Out' : Reached(Out'[n].id, F)
    <2>1. ResultsTyped'
      <3>1. TypeInv'
        BY FilterVolTyped
      <3> QED BY <3>1 DEF TypeInv
    <2>2. \A n \in DOMAIN Out' : Out'[n].id \in BareId
      BY <2>1 DEF ResultsTyped
    <2> QED BY <1>4, <1>11, <1>12, <2>2, PushReached
  <1>15. AllReached'
    BY <1>1, <1>13, <1>14 DEF AllReached
  <1>16. Len(F) = 2 /\ F[1].count = E[1].count /\ F[2].count = 0 /\ F[2].path = <<v>>
    BY <1>4, <1>12 DEF Pushed
  <1>17. Counted'
    <2>1. NumFiles' = NumFiles + 1
      BY <1>2 DEF Wrote
    <2>2. \A i \in 1 .. Len(F) : F[i].count <= NumFiles + 1
      BY <1>8, <1>16
    <2>3. NumFiles + 1 <= MaxEntries + (NumVols + 1)
      BY <1>3, <1>8, <1>10 DEF FirstWalkHolds, Counted
    <2> QED BY <1>1, <2>1, <2>2, <2>3 DEF Counted
  <1>18. WalkOrder'
    BY <1>1, <1>16 DEF WalkOrder, AtFs, back
  <1> QED BY <1>11, <1>15, <1>17, <1>18 DEF FirstWalkHolds

\* The first entry of a file system is in its root directory, which is on the stack.
LEMMA Enterable ==
    ASSUME TypeInv, FirstWalkHolds, pc = "fs", NEW path \in NextPaths
    PROVE  Dirs[Len(Dirs)].count > 0 \/ \E i \in 1 .. Len(Dirs) : Dirs[i].path = VolName \o path
  <1>1. Len(Dirs) \in 1 .. Len(Dirs) /\ Dirs[Len(Dirs)] \in DirInfos
    BY DEF TypeInv, TreeTyped
  <1>2. Dirs[Len(Dirs)].count \in Nat
    BY <1>1, DirInfoFields
  <1>3. CASE Dirs[Len(Dirs)].count = 0
    <2>1. cur = <<>> /\ subdir = NoEntry /\ Dirs[Len(Dirs)].path = VolName
      BY <1>3 DEF FirstWalkHolds, WalkOrder, back, NoEntry
    <2>2. path = <<>>
      <3>1. Len(cur) = 0 /\ SubSeq(cur, 1, 0) = <<>>
        BY <2>1
      <3> QED BY <2>1, <3>1 DEF NextPaths
    <2>3. VolName \o path = VolName
      BY <2>2 DEF TypeInv, ControlTyped, Path
    <2> QED BY <1>1, <2>1, <2>3
  <1> QED BY <1>2, <1>3

LEMMA ProcessFileFirst ==
    ASSUME TypeInv, FirstWalkHolds, ProcessFile
    PROVE  FirstWalkHolds'
  <1>1. PICK f \in Entries, path \in NextPaths :
            processFile(Dirs, Context(Fs, <<FSBeg, FSEnd>>, AllocatedRuns), path, f)
    BY Zenon DEF ProcessFile
  <1>2. /\ pc = "fs" /\ pc' = "fs" /\ NumFiles < MaxEntries
        /\ UNCHANGED <<img, vol, NumVols>>
    BY DEF ProcessFile, args, volume
  <1> DEFINE p == VolName \o path
             E == setCurDir(Dirs, p)
  <1>3. p \in Path
    <2>1. path \in Path
      BY NextPathsTyped
    <2> QED BY <2>1 DEF TypeInv, ControlTyped, Path
  <1>4. Dirs[Len(Dirs)].count > 0 \/ \E i \in 1 .. Len(Dirs) : Dirs[i].path = p
    BY <1>2, Enterable
  <1>5. Dirs' = E /\ Wrote(E)
    <2>1. Dirs' = E /\ \E ctx : writeFile(ctx, E, f)
      BY <1>1, Zenon DEF processFile
    <2> QED BY <2>1, WriteFileEffect
  <1> HIDE DEF p
  <1>6. Dirs \in Seq(DirInfos) /\ Len(Dirs) > 0 /\ DistinctPaths(Dirs) /\ Chain(Dirs)
    BY DEF TypeInv, TreeTyped, FirstWalkHolds, AllReached
  <1>7. E \in Seq(DirInfos) /\ Len(E) > 0 /\ E[Len(E)].count > 0
    BY <1>3, <1>6, SetCurDirTyped
  <1>8. Chain(E) /\ \A x \in BareId : Reached(x, Dirs) => Passed(x, E)
    BY <1>3, <1>4, <1>6, SetCurDirAdvances
  <1>9. NumFiles \in Nat /\ \A i \in 1 .. Len(Dirs) : Dirs[i].count <= NumFiles
    BY DEF TypeInv, ResultsTyped, FirstWalkHolds, Counted
  <1>10. \A i \in 1 .. Len(E) : E[i].count <= NumFiles + 1
    BY <1>3, <1>6, <1>9, SetCurDirCounts
  <1> HIDE DEF E
  <1>11. MaxEntries \in Nat /\ NumVols \in Nat /\ Len(img.vols) \in Nat
    BY MaxEntriesAssumption, ImageFacts DEF TypeInv, ControlTyped
  <1>12. UniqueIds' /\ \A n \in DOMAIN Out' : Reached(Out'[n].id, E)
    <2>1. NumFiles < MaxEntries + Len(img.vols)
      BY <1>2, <1>9, <1>11
    <2> QED BY <1>5, <1>7, <1>8, <1>10, <2>1, MoveOn DEF FirstWalkHolds
  <1>13. Counted'
    <2>1. NumFiles' = NumFiles + 1
      BY <1>5 DEF Wrote
    <2> QED BY <1>2, <1>5, <1>9, <1>10, <1>11, <2>1 DEF Counted
  <1>14. AllReached'
    BY <1>5, <1>8, <1>12 DEF AllReached
  <1>15. WalkOrder'
    BY <1>2, <1>5, <1>7 DEF WalkOrder, AtFs, back, FirstWalkHolds
  <1> QED BY <1>12, <1>13, <1>14, <1>15 DEF FirstWalkHolds

-----------------------------------------------------------------------------
LEMMA NextFirstWalk == TypeInv /\ FirstWalkInv /\ [Next]_vars => FirstWalkInv'
  <1> SUFFICES ASSUME TypeInv, FirstWalkInv, [Next]_vars, ~InUnallocated'
               PROVE  FirstWalkHolds'
    BY DEF FirstWalkInv
  <1> USE DEF FirstWalkInv, FirstWalkHolds
  <1>1. CASE OpenImage
    <2>1. ~InUnallocated
      BY <1>1 DEF OpenImage
    <2> QED BY <1>1, <2>1, OpenImageFirst
  <1>2. CASE FilterVol
    <2>1. ~InUnallocated
      BY <1>2 DEF FilterVol
    <2> QED BY <1>2, <2>1, FilterVolFirst
  <1>3. CASE FilterFs
    <2>1. ~InUnallocated
      BY <1>3 DEF FilterFs
    <2> QED BY <1>3, <2>1, FilterFsFirst
  <1>4. CASE ProcessFile
    <2>1. ~InUnallocated
      BY <1>4 DEF ProcessFile
    <2> QED BY <1>4, <2>1, ProcessFileFirst
  <1>5. CASE NoFilesystem \/ WildPart \/ EndFs \/ WalkError \/ WalkFailed \/ FinishWalk \/ OutputDiskMap
                 \/ OutputInodeMap
    <2>1. ~InUnallocated
      BY <1>5 DEF NoFilesystem, WildPart, EndFs, WalkError, WalkFailed, FinishWalk, OutputDiskMap,
                  OutputInodeMap
    <2> QED BY <1>5, <2>1, LeaveFirst
  <1>6. CASE FilterFsUnallocated \/ StartUnallocated
    BY <1>6 DEF FilterFsUnallocated, StartUnallocated
  <1>7. CASE NextFragment \/ FragmentBlock \/ FragmentPiece \/ FragmentDone
    <2>1. ~InUnallocated
      BY <1>7 DEF NextFragment, FragmentBlock, FragmentPiece, FragmentDone
    <2>2. pc \in {"flush", "fragment"}
      BY <1>7 DEF NextFragment, FragmentBlock, FragmentPiece, FragmentDone
    <2> QED BY <2>1, <2>2 DEF WalkOrder
  <1>8. CASE UNCHANGED vars \/ Terminated
    <2>1. UNCHANGED vars
      BY <1>8 DEF Terminated
    <2>2. UNCHANGED <<pc, img, vol, cur, subdir, VolName, NumVols, InUnallocated, Dirs, NumFiles,
                      Out>>
      BY <2>1 DEF vars, args, walk, volume, tree, results
    <2> QED BY <2>2 DEF WalkOrder, AtFs, Counted, AllReached, UniqueIds
  <1> QED BY <1>1, <1>2, <1>3, <1>4, <1>5, <1>6, <1>7, <1>8 DEF Next

\* As long as the second walk has not begun, no two records have the same id, even if
\* exceptions lose some of the records.
THEOREM FirstWalkIdsDistinct == Spec => []FirstWalkUniqueIds
  <1>1. Init => FirstWalkInv
    BY InitFirstWalk
  <1>2. TypeInv /\ FirstWalkInv /\ [Next]_vars => FirstWalkInv'
    BY NextFirstWalk
  <1>3. FirstWalkInv => FirstWalkUniqueIds
    BY DEF FirstWalkInv, FirstWalkHolds, FirstWalkUniqueIds
  <1> QED BY <1>1, <1>2, <1>3, AlwaysTyped, PTL DEF Spec


-----------------------------------------------------------------------------
(***************************************************************************)
(* Reading ids back.                                                       *)
(***************************************************************************)
\* 2^32.
WordLimit == 4294967296

LEMMA WordNumber ==
    ASSUME NEW c \in Nat, c < WordLimit
    PROVE  Number(FromUint32(c)) = c
  <1> DEFINE q1 == c \div 256
             q2 == c \div 65536
             q3 == c \div 16777216
  <1>1. /\ q1 \in Nat /\ q2 \in Nat /\ q3 \in Nat /\ q3 < 256
        /\ c = 256 * q1 + (c % 256) /\ q1 = 256 * q2 + (q1 % 256) /\ q2 = 256 * q3 + (q2 % 256)
        /\ q3 % 256 = q3
    BY DEF WordLimit
  <1>2. Number(FromUint32(c)) = 16777216 * (q3 % 256)
                 + (65536 * (q2 % 256) + 256 * (q1 % 256) + (c % 256))
    BY DEF Number, Low24, FromUint32
  <1> HIDE DEF q1, q2, q3
  <1>3. c % 256 \in Nat /\ q1 % 256 \in Nat /\ q2 % 256 \in Nat
    BY <1>1
  <1> QED BY <1>1, <1>2, <1>3

LEMMA CodeReadBack ==
    ASSUME NEW c \in Nat, c < WordLimit
    PROVE  Number(VintDecode(Code(c)).val) = c
  <1> DEFINE w == FromUint32(c)
  <1>1. w \in Word
    BY FromUint32Word
  <1>2. Number(w) = c
    BY WordNumber
  <1> HIDE DEF w
  <1>3. <<>> \in Seq(Byte) /\ VintEncode(w) \in Seq(Byte)
    BY <1>1, EncodingTyped
  <1>4. VintEncode(w) \o <<>> = VintEncode(w)
    BY <1>3
  <1>5. VintDecode(VintEncode(w)).val = w
    <2>1. VintDecode(VintEncode(w) \o <<>>) = [val |-> w, len |-> Len(VintEncode(w))]
      BY <1>1, <1>3, RoundTrip
    <2> QED BY <1>4, <2>1
  <1> QED BY <1>2, <1>5 DEF Code, w

\* An id that spells a type, a level and numbers is read back as that.
LEMMA SpellingReadBack ==
    ASSUME NEW x, NEW n \in Nat, Len(x) = n + 2, NEW l \in Nat, l < WordLimit,
           NEW pos \in Seq(Nat), Len(pos) = n,
           x[1] = Code(0), x[2] = Code(l),
           \A m \in 1 .. n : pos[m] < WordLimit /\ x[m + 2] = Code(pos[m])
    PROVE  ReadBack(x) = <<0, l>> \o pos
  <1> DEFINE y == <<0, l>> \o pos
  <1>1. y \in Seq(Nat) /\ Len(y) = n + 2 /\ y[1] = 0 /\ y[2] = l
        /\ \A m \in 1 .. n : y[m + 2] = pos[m]
    OBVIOUS
  <1>2. 0 < WordLimit
    BY DEF WordLimit
  <1>3. ASSUME NEW i \in 1 .. n + 2
        PROVE  Number(VintDecode(x[i]).val) = y[i]
    <2>1. CASE i = 1
      BY <1>1, <1>2, <2>1, CodeReadBack
    <2>2. CASE i = 2
      BY <1>1, <2>2, CodeReadBack
    <2>3. CASE i > 2
      <3>1. i - 2 \in 1 .. n /\ (i - 2) + 2 = i
        BY <2>3
      <3>2. pos[i - 2] \in Nat
        BY <3>1
      <3> QED BY <1>1, <3>1, <3>2, CodeReadBack
    <2> QED BY <2>1, <2>2, <2>3
  <1> HIDE DEF y
  <1>4. ReadBack(x) = [i \in 1 .. n + 2 |-> y[i]]
    BY <1>3 DEF ReadBack
  <1>5. y = [i \in 1 .. n + 2 |-> y[i]]
    BY <1>1
  <1> QED BY <1>4, <1>5 DEF y

\* The directory at position pos of the tree.
At(d, pos) ==
    /\ d \in DirInfos /\ pos \in Seq(Nat) /\ Len(pos) < WordLimit
    /\ Len(d.bareID) = Len(pos)
    /\ \A m \in 1 .. Len(pos) : pos[m] < WordLimit /\ d.bareID[m] = Code(pos[m])
    /\ d.level = Tree!Level(pos)

LEMMA IdReadBack ==
    ASSUME NEW d, NEW pos, At(d, pos)
    PROVE  ReadBack(id(d)) = Tree!Id(pos)
  <1>1. /\ d.level \in Nat /\ d.bareID \in BareId /\ Len(pos) \in Nat /\ Len(d.bareID) = Len(pos)
        /\ pos \in Seq(Nat)
    BY DirInfoFields DEF At
  <1>2. d.level < WordLimit
    BY <1>1 DEF At, Tree!Level, WordLimit
  <1> DEFINE x == id(d)
  <1>3. /\ Len(x) = Len(pos) + 2 /\ x[1] = Code(0) /\ x[2] = Code(d.level)
        /\ \A m \in 1 .. Len(pos) : x[m + 2] = d.bareID[m]
    <2>1. x = Spelling(d.level, d.bareID)
      BY DEF id, Spelling
    <2> HIDE DEF x
    <2> QED BY <1>1, <2>1, TypeAndLevel
  <1> HIDE DEF x
  <1>4. \A m \in 1 .. Len(pos) : pos[m] < WordLimit /\ x[m + 2] = Code(pos[m])
    BY <1>3 DEF At
  <1>5. ReadBack(x) = <<0, d.level>> \o pos
    BY <1>1, <1>2, <1>3, <1>4, SpellingReadBack
  <1> QED BY <1>5 DEF x, At, Tree!Id

LEMMA KeyReadBack ==
    ASSUME NEW d, NEW pos, At(d, pos), d.count = 0
    PROVE  ReadBack(lastChild(d)) = Tree!Key(pos)
  <1>1. /\ d.level \in Nat /\ d.bareID \in BareId /\ Len(pos) \in Nat /\ Len(d.bareID) = Len(pos)
        /\ pos \in Seq(Nat) /\ Len(pos) < WordLimit
    BY DirInfoFields DEF At
  <1>2. childLevel(d) = Len(pos)
    <2>1. d.bareID = <<>> <=> Len(pos) = 0
      BY <1>1 DEF BareId
    <2>2. pos = <<>> <=> Len(pos) = 0
      BY <1>1
    <2> QED BY <1>1, <2>1, <2>2 DEF childLevel, At, Tree!Level
  <1> DEFINE x == lastChild(d)
  <1>3. x = Spelling(Len(pos), d.bareID)
    BY <1>2 DEF lastChild, Spelling
  <1>4. /\ Len(x) = Len(pos) + 2 /\ x[1] = Code(0) /\ x[2] = Code(Len(pos))
        /\ \A m \in 1 .. Len(pos) : x[m + 2] = d.bareID[m]
    <2> HIDE DEF x
    <2> QED BY <1>1, <1>3, TypeAndLevel
  <1> HIDE DEF x
  <1>5. \A m \in 1 .. Len(pos) : pos[m] < WordLimit /\ x[m + 2] = Code(pos[m])
    BY <1>4 DEF At
  <1>6. ReadBack(x) = <<0, Len(pos)>> \o pos
    BY <1>1, <1>4, <1>5, SpellingReadBack
  <1> QED BY <1>6 DEF x, Tree!Key

-----------------------------------------------------------------------------
(***************************************************************************)
(* Positions of the stack.                                                 *)
(***************************************************************************)
LEMMA PlaceTyped ==
    ASSUME NEW D \in Seq(DirInfos), Len(D) > 0, Chain(D)
    PROVE  /\ Counting(D) \in Nat /\ Counting(D) <= Len(D)
           /\ Counting(D) = IF D[Len(D)].count > 0 THEN Len(D) ELSE Len(D) - 1
           /\ Place(D) \in Seq(Nat) /\ Len(Place(D)) = Counting(D)
           /\ \A i \in 1 .. Counting(D) : D[i].count \in Nat /\ D[i].count > 0
                                             /\ Place(D)[i] = D[i].count - 1
  <1>1. Counting(D) = IF D[Len(D)].count > 0 THEN Len(D) ELSE Len(D) - 1
    BY DEF Counting, back
  <1>2. Counting(D) \in Nat /\ Counting(D) <= Len(D)
    BY <1>1
  <1>3. ASSUME NEW i \in 1 .. Counting(D)
        PROVE  D[i].count \in Nat /\ D[i].count > 0
    <2>1. i \in 1 .. Len(D) /\ D[i].count \in Nat
      BY <1>2, DirInfoFields
    <2>2. i < Len(D) => D[i].count > 0
      BY <2>1, ChainAt
    <2> QED BY <1>1, <2>1, <2>2
  <1>4. \A i \in 1 .. Counting(D) : D[i].count - 1 \in Nat
    BY <1>3
  <1>5. Place(D) \in [1 .. Counting(D) -> Nat]
    BY <1>4 DEF Place
  <1>6. Place(D) \in Seq(Nat) /\ Len(Place(D)) = Counting(D)
    BY <1>2, <1>5
  <1>7. \A i \in 1 .. Counting(D) : Place(D)[i] = D[i].count - 1
    BY DEF Place
  <1> QED BY <1>1, <1>2, <1>3, <1>6, <1>7

LEMMA FollowingEntry ==
    ASSUME NEW D \in Seq(DirInfos), Len(D) > 0, Chain(D),
           NEW E \in Seq(DirInfos), Chain(E), NEW i \in 1 .. Len(D), Uncovered(D, E, i)
    PROVE  Place(E) \in Tree!Following(Place(D))
  <1> DEFINE p == Place(D)
             q == Place(E)
             n == Counting(D)
  <1>1. /\ n \in Nat /\ n = (IF D[Len(D)].count > 0 THEN Len(D) ELSE Len(D) - 1)
        /\ p \in Seq(Nat) /\ Len(p) = n /\ \A j \in 1 .. n : D[j].count > 0 /\ p[j] = D[j].count - 1
    BY PlaceTyped
  <1>2. D[i].count \in Nat /\ Len(E) = i /\ E[i].count = D[i].count + 1
        /\ \A j \in 1 .. i - 1 : E[j] = D[j]
    BY DirInfoFields DEF Uncovered
  <1>3. /\ q \in Seq(Nat) /\ Len(q) = i /\ \A j \in 1 .. i : q[j] = E[j].count - 1
    <2>1. Len(E) > 0
      BY <1>2
    <2>2. /\ Counting(E) = IF E[Len(E)].count > 0 THEN Len(E) ELSE Len(E) - 1
          /\ q \in Seq(Nat) /\ Len(q) = Counting(E)
          /\ \A j \in 1 .. Counting(E) : q[j] = E[j].count - 1
      BY <2>1, PlaceTyped
    <2>3. E[i].count > 0
      BY <1>2
    <2> QED BY <1>2, <2>2, <2>3
  <1> HIDE DEF p, q, n
  <1>4. CASE i <= n
    <2>1. ASSUME NEW j \in 1 .. i
          PROVE  q[j] = IF j = i THEN p[j] + 1 ELSE p[j]
      <3>1. j \in 1 .. n /\ (j # i => j \in 1 .. i - 1)
        BY <1>1, <1>4
      <3>2. q[j] = E[j].count - 1 /\ p[j] = D[j].count - 1
        BY <1>1, <1>3, <3>1
      <3> QED BY <1>2, <3>1, <3>2
    <2>2. q = [j \in 1 .. i |-> IF j = i THEN p[j] + 1 ELSE p[j]]
      BY <1>3, <2>1
    <2>3. q = Tree!Sibling(p, i) /\ i \in 1 .. Len(p)
      BY <1>1, <1>4, <2>2 DEF Tree!Sibling
    <2> QED BY <2>3 DEF Tree!Following, p, q
  <1>5. CASE i > n
    <2>1. i = n + 1 /\ i = Len(D) /\ D[i].count = 0
      BY <1>1, <1>2, <1>5
    <2> DEFINE r == Append(p, 0)
    <2>2. r \in Seq(Nat) /\ Len(r) = i /\ r[i] = 0 /\ \A j \in 1 .. i - 1 : r[j] = p[j]
      BY <1>1, <2>1
    <2> HIDE DEF r
    <2>3. ASSUME NEW j \in 1 .. i
          PROVE  q[j] = r[j]
      <3>1. j # i => j \in 1 .. n /\ j \in 1 .. i - 1
        BY <1>1, <2>1
      <3>2. CASE j = i
        BY <1>2, <1>3, <2>1, <2>2, <3>2
      <3>3. CASE j # i
        <4>1. j \in 1 .. n /\ j \in 1 .. i - 1
          BY <3>1, <3>3
        <4>2. q[j] = E[j].count - 1 /\ E[j] = D[j]
          BY <1>2, <1>3, <4>1
        <4>3. p[j] = D[j].count - 1 /\ r[j] = p[j]
          BY <1>1, <2>2, <4>1
        <4> QED BY <4>2, <4>3
      <3> QED BY <3>2, <3>3
    <2>4. q = r
      BY <1>3, <2>2, <2>3, SMTT(30)
    <2>5. q = Append(p, 0)
      BY <2>4 DEF r
    <2> QED BY <2>5 DEF Tree!Following, p, q
  <1> QED BY <1>1, <1>4, <1>5

\* A directory just pushed has no entry yet.
LEMMA PushStays ==
    ASSUME NEW D \in Seq(DirInfos), Len(D) > 0, Chain(D), D[Len(D)].count > 0,
           NEW F \in Seq(DirInfos), NEW p, Pushed(D, F, p), Chain(F)
    PROVE  Place(F) = Place(D)
  <1>1. Len(F) = Len(D) + 1 /\ F[Len(F)].count = 0 /\ \A j \in 1 .. Len(D) : F[j] = D[j]
    BY DEF Pushed
  <1>2. Counting(F) = Len(D) /\ Counting(D) = Len(D)
    BY <1>1, PlaceTyped
  <1> QED BY <1>1, <1>2 DEF Place

-----------------------------------------------------------------------------
(***************************************************************************)
(* The record written in a directory that counts its entry.                *)
(***************************************************************************)
LEMMA AtChain ==
    ASSUME NEW D \in Seq(DirInfos), Chain(D), NEW k \in 1 .. Len(D), k <= WordLimit,
           \A m \in 1 .. k - 1 : D[m].count < WordLimit,
           NEW pos \in Seq(Nat), Len(pos) = k - 1,
           \A m \in 1 .. k - 1 : pos[m] = D[m].count - 1
    PROVE  At(D[k], pos)
  <1>1. /\ D[k].level = IF k <= 2 THEN 0 ELSE k - 2
        /\ Len(D[k].bareID) = k - 1
        /\ \A m \in 1 .. k - 1 : D[k].bareID[m] = Code(D[m].count - 1)
    BY ChainAt
  <1>2. \A m \in 1 .. k - 1 : pos[m] < WordLimit /\ D[k].bareID[m] = Code(pos[m])
    <2>1. ASSUME NEW m \in 1 .. k - 1
          PROVE  pos[m] < WordLimit /\ D[k].bareID[m] = Code(pos[m])
      <3>1. D[m].count \in Nat
        BY DirInfoFields
      <3> QED BY <1>1, <3>1, SMTT(30) DEF WordLimit
    <2> QED BY <2>1
  <1>3. D[k].level = Tree!Level(pos)
    <2>1. pos = <<>> <=> k = 1
      OBVIOUS
    <2> QED BY <1>1, <2>1 DEF Tree!Level
  <1>4. Len(pos) < WordLimit
    BY DEF WordLimit
  <1> QED BY <1>1, <1>2, <1>3, <1>4 DEF At

LEMMA RecordReadBack ==
    ASSUME NEW E \in Seq(DirInfos), Len(E) > 0, Len(E) < WordLimit, Chain(E),
           E[Len(E)].count > 0, \A m \in 1 .. Len(E) : E[m].count < WordLimit,
           NEW ctx, NEW f
    PROVE  Numbers(Record(ctx, back(E), f)) = Tree!RecordAt(Place(E))
  <1> DEFINE n   == Len(E)
             c   == newChild(back(E), <<>>)
             pos == Place(E)
             up  == Tree!Above(pos)
  <1>1. <<>> \in Path
    BY DEF Path
  <1>2. PICK F \in Seq(DirInfos) : F = Append(E, c) /\ Pushed(E, F, <<>>)
    BY <1>1, PushShape, Zenon
  <1>3. Chain(F) /\ Len(F) = n + 1 /\ \A j \in 1 .. n : F[j] = E[j]
    <2>1. Chain(F)
      BY <1>2, PushChain, Zenon
    <2>2. Len(F) = n + 1 /\ \A j \in 1 .. n : F[j] = E[j]
      BY <1>2, Zenon DEF Pushed
    <2> QED BY <2>1, <2>2
  <1>4. c \in DirInfos /\ c.count = 0
    <2>1. back(E) \in DirInfos
      BY DEF back
    <2> QED BY <1>1, <2>1, NewChildTyped
  <1> HIDE DEF c
  <1>5. F[n + 1] = c /\ F[n] = back(E)
    <2>1. F[n + 1] = c
      BY <1>2, <1>4
    <2> QED BY <1>3, <2>1 DEF back
  <1>6. pos \in Seq(Nat) /\ Len(pos) = n /\ \A m \in 1 .. n : pos[m] = E[m].count - 1
    <2>1. Counting(E) = n
      BY PlaceTyped
    <2> QED BY <2>1, PlaceTyped
  <1> HIDE DEF pos
  <1>7. up \in Seq(Nat) /\ Len(up) = n - 1 /\ \A m \in 1 .. n - 1 : up[m] = E[m].count - 1
    BY <1>6 DEF Tree!Above
  <1> HIDE DEF up
  <1>8. n \in Nat /\ n > 0 /\ n < WordLimit /\ WordLimit \in Nat
    BY DEF WordLimit
  <1>9. At(c, pos)
    <2>1. PICK k \in 1 .. Len(F) : k = n + 1
      BY <1>3, <1>8
    <2>2. k <= WordLimit /\ Len(pos) = k - 1
      BY <1>6, <1>8, <2>1
    <2>3. \A m \in 1 .. k - 1 : F[m].count < WordLimit /\ pos[m] = F[m].count - 1
      BY <1>3, <1>6, <1>8, <2>1
    <2>4. At(F[k], pos)
      BY <1>3, <1>6, <2>2, <2>3, AtChain
    <2> QED BY <1>5, <2>1, <2>4
  <1>10. At(back(E), up)
    <2>1. PICK k \in 1 .. Len(F) : k = n
      BY <1>3, <1>8
    <2>2. k <= WordLimit /\ Len(up) = k - 1
      BY <1>7, <1>8, <2>1
    <2>3. \A m \in 1 .. k - 1 : F[m].count < WordLimit /\ up[m] = F[m].count - 1
      BY <1>3, <1>7, <1>8, <2>1
    <2>4. At(F[k], up)
      BY <1>3, <1>7, <2>2, <2>3, AtChain
    <2> QED BY <1>5, <2>1, <2>4
  <1>11. ReadBack(id(c)) = Tree!Id(pos) /\ ReadBack(id(back(E))) = Tree!Id(up)
    BY <1>9, <1>10, IdReadBack
  <1>12. ReadBack(lastChild(c)) = Tree!Key(pos)
    BY <1>4, <1>9, KeyReadBack
  <1> DEFINE rec == Record(ctx, back(E), f)
  <1>13. rec.id = id(c) /\ rec.parent = id(back(E)) /\ rec.children = lastChild(c)
    BY DEF Record, c
  <1> HIDE DEF rec
  <1>14. Numbers(rec) = [id |-> Tree!Id(pos), parent |-> Tree!Id(up), children |-> Tree!Key(pos)]
    BY <1>11, <1>12, <1>13 DEF Numbers
  <1> QED BY <1>14 DEF Tree!RecordAt, up, pos, rec

\* What writeFile does to the records, in the directory on top of dirs.
WroteRecord(dirs) ==
    Out' = Out \/ \E ctx, f : Out' = Append(Out, Record(ctx, back(dirs), f))

LEMMA WriteFileRecord ==
    ASSUME NEW ctx, NEW dirs, NEW f, writeFile(ctx, dirs, f)
    PROVE  WroteRecord(dirs)
  BY Zenon DEF writeFile, WroteRecord

LEMMA VisitStep ==
    ASSUME ResultsTyped,
           NEW E \in Seq(DirInfos), Len(E) > 0, Len(E) < WordLimit, Chain(E),
           E[Len(E)].count > 0, \A m \in 1 .. Len(E) : E[m].count < WordLimit,
           Place(E) \in Tree!Following(Place(Dirs)), Place(Dirs') = Place(E), WroteRecord(E)
    PROVE  Tree!Visit
  <1>1. hereBar' = Place(E) /\ Place(E) \in Tree!Following(hereBar)
    BY DEF hereBar
  <1>2. CASE Out' = Out
    <2>1. recordsBar' = recordsBar
      BY <1>2 DEF recordsBar
    <2> QED BY <1>1, <2>1, Zenon DEF Tree!Visit
  <1>3. ASSUME NEW ctx, NEW f, Out' = Append(Out, Record(ctx, back(E), f))
        PROVE  Tree!Visit
    <2> DEFINE r == Record(ctx, back(E), f)
    <2>1. Numbers(r) = Tree!RecordAt(Place(E))
      BY RecordReadBack
    <2>2. PICK S : Out \in Seq(S)
      BY DEF ResultsTyped
    <2>3. Out' = Append(Out, r)
      BY <1>3
    <2> HIDE DEF r
    <2>4. recordsBar' = Append(recordsBar, Numbers(r))
      <3>1. Len(Out') = Len(Out) + 1 /\ Len(Out) \in Nat /\ Out'[Len(Out) + 1] = r
        BY <2>2, <2>3
      <3>2. \A n \in 1 .. Len(Out) : Out'[n] = Out[n]
        BY <2>2, <2>3
      <3>3. recordsBar' = [n \in 1 .. Len(Out) + 1 |-> Numbers(Out'[n])]
        BY <3>1 DEF recordsBar
      <3> DEFINE b == recordsBar
      <3>4. b = [n \in 1 .. Len(Out) |-> Numbers(Out[n])]
        BY DEF recordsBar
      <3> HIDE DEF b
      <3>5. Append(b, Numbers(r)) = [n \in 1 .. Len(Out) + 1 |->
                                        IF n = Len(Out) + 1 THEN Numbers(r) ELSE b[n]]
        BY <3>1, <3>4
      <3>6. \A n \in 1 .. Len(Out) + 1 :
                Numbers(Out'[n]) = IF n = Len(Out) + 1 THEN Numbers(r) ELSE b[n]
        BY <3>1, <3>2, <3>4
      <3>7. recordsBar' = Append(b, Numbers(r))
        BY <3>3, <3>5, <3>6
      <3> QED BY <3>7 DEF b
    <2> QED BY <1>1, <2>1, <2>4, Zenon DEF Tree!Visit
  <1> QED BY <1>2, <1>3 DEF WroteRecord

-----------------------------------------------------------------------------
(***************************************************************************)
(* The steps.  The second walk, which the theorem leaves out, would number *)
(* its folders and runs below the volumes' root directories again.         *)
(***************************************************************************)
Shallow == Len(Dirs) <= NumFiles + 1

FirstOnly == ~InUnallocated /\ Shallow

\* The stack that an entry is written from, E, fits the integers' width.
LEMMA StackSmall ==
    ASSUME TypeInv, NumFiles < MaxEntries + Len(img.vols),
           NEW E \in Seq(DirInfos), Len(E) <= NumFiles + 2,
           \A i \in 1 .. Len(E) : E[i].count <= NumFiles + 1
    PROVE  Len(E) < WordLimit /\ \A i \in 1 .. Len(E) : E[i].count < WordLimit
  <1>1. NumFiles + 1 < CountLimit /\ NumFiles \in Nat
    BY CountsSmall DEF TypeInv, ResultsTyped
  <1>2. Len(E) < WordLimit
    BY <1>1 DEF CountLimit, WordLimit
  <1>3. ASSUME NEW i \in 1 .. Len(E)
        PROVE  E[i].count < WordLimit
    <2>1. E[i].count \in Nat
      BY DirInfoFields
    <2> QED BY <1>1, <2>1 DEF CountLimit, WordLimit
  <1> QED BY <1>2, <1>3

LEMMA FilterVolVisits ==
    ASSUME TypeInv, FirstWalkHolds, FirstOnly, FilterVol
    PROVE  Tree!Visit /\ Shallow'
  <1> DEFINE root == SubSeq(Dirs, 1, 1)
             E    == setCurDir(root, <<>>)
             v    == PartName(img.vols[vol + 1])
             F    == Append(E, newChild(back(E), <<v>>))
  <1>1. vol < Len(img.vols) /\ Dirs' = F /\ ~InUnallocated
    BY Zenon DEF FilterVol, FirstOnly
  <1>2. WroteRecord(E) /\ Wrote(E)
    <2>1. \E ctx, f : writeFile(ctx, E, f)
      BY <1>1, Zenon DEF FilterVol
    <2> QED BY <2>1, WriteFileRecord, WriteFileEffect
  <1>3. v \in Name /\ Len(img.vols) \in Nat /\ NumVols = vol /\ vol \in Nat
    <2>1. img \in Images /\ vol \in Nat
      BY DEF TypeInv, ControlTyped
    <2>2. img.vols # <<>> /\ vol + 1 \in 1 .. Len(img.vols)
      BY <1>1, <2>1, ImageFacts
    <2> QED BY <2>1, <2>2, ImageFacts DEF TypeInv, ControlTyped
  <1> HIDE DEF v
  <1>4. /\ E \in Seq(DirInfos) /\ Len(E) = 1 /\ E[1].path = <<>> /\ DistinctPaths(E)
        /\ Uncovered(root, E, 1) /\ root[1] = Dirs[1]
    <2>1. /\ root \in Seq(DirInfos) /\ Len(root) = 1 /\ root[1].path = <<>>
          /\ DistinctPaths(root) /\ root[1] = Dirs[1]
      BY RootStack
    <2> HIDE DEF root
    <2> QED BY <2>1, RootCounted
  <1> HIDE DEF root, E
  <1>5. Uncovered(Dirs, E, 1)
    BY <1>4 DEF Uncovered
  <1>6. Dirs \in Seq(DirInfos) /\ 1 \in 1 .. Len(Dirs) /\ Len(Dirs) > 0 /\ Chain(Dirs)
    BY DEF TypeInv, TreeTyped, FirstWalkHolds, AllReached
  <1>7. Chain(E)
    BY <1>4, <1>5, <1>6, UncoverChain
  <1>8. E[1].count > 0 /\ E[1].count <= NumFiles + 1 /\ NumFiles \in Nat
    <2>1. Dirs[1].count \in Nat
      BY <1>6, DirInfoFields
    <2> QED BY <1>5, <1>6, <2>1 DEF Uncovered, FirstWalkHolds, Counted, TypeInv, ResultsTyped
  <1>9. MaxEntries \in Nat /\ NumFiles < MaxEntries + Len(img.vols)
    BY <1>1, <1>3, <1>8, MaxEntriesAssumption DEF FirstWalkHolds, Counted
  <1>10. /\ Len(E) > 0 /\ E[Len(E)].count > 0 /\ Len(E) < WordLimit
         /\ \A i \in 1 .. Len(E) : E[i].count < WordLimit
    <2>1. Len(E) <= NumFiles + 2 /\ \A i \in 1 .. Len(E) : E[i].count <= NumFiles + 1
      BY <1>4, <1>8
    <2>2. Len(E) < WordLimit /\ \A i \in 1 .. Len(E) : E[i].count < WordLimit
      BY <1>4, <1>9, <2>1, StackSmall
    <2> QED BY <1>4, <1>8, <2>2
  <1>11. Place(E) \in Tree!Following(Place(Dirs))
    BY <1>4, <1>5, <1>6, <1>7, FollowingEntry
  <1>12. F \in Seq(DirInfos) /\ Pushed(E, F, <<v>>)
    BY <1>3, <1>4, VolumeStack
  <1> HIDE DEF F
  <1>13. Place(Dirs') = Place(E)
    <2>1. Chain(F)
      BY <1>4, <1>7, <1>10, <1>12, PushChain
    <2> QED BY <1>1, <1>4, <1>7, <1>10, <1>12, <2>1, PushStays
  <1>14. Tree!Visit
    BY <1>2, <1>4, <1>7, <1>10, <1>11, <1>13, VisitStep DEF TypeInv
  <1>15. Shallow'
    <2>1. Len(F) = 2 /\ NumFiles' = NumFiles + 1
      BY <1>2, <1>4, <1>12 DEF Pushed, Wrote
    <2> QED BY <1>1, <1>8, <2>1 DEF Shallow
  <1> QED BY <1>14, <1>15

LEMMA ProcessFileVisits ==
    ASSUME TypeInv, FirstWalkHolds, FirstOnly, ProcessFile
    PROVE  Tree!Visit /\ Shallow'
  <1>1. PICK f \in Entries, path \in NextPaths :
            processFile(Dirs, Context(Fs, <<FSBeg, FSEnd>>, AllocatedRuns), path, f)
    BY Zenon DEF ProcessFile
  <1>2. pc = "fs" /\ NumFiles < MaxEntries
    BY DEF ProcessFile
  <1> DEFINE p == VolName \o path
             E == setCurDir(Dirs, p)
  <1>3. p \in Path
    <2>1. path \in Path
      BY NextPathsTyped
    <2> QED BY <2>1 DEF TypeInv, ControlTyped, Path
  <1>4. Dirs[Len(Dirs)].count > 0 \/ \E i \in 1 .. Len(Dirs) : Dirs[i].path = p
    BY <1>2, Enterable
  <1>5. Dirs' = E /\ WroteRecord(E) /\ Wrote(E)
    <2>1. Dirs' = E /\ \E ctx : writeFile(ctx, E, f)
      BY <1>1, Zenon DEF processFile
    <2> QED BY <2>1, WriteFileRecord, WriteFileEffect
  <1> HIDE DEF p
  <1>6. Dirs \in Seq(DirInfos) /\ Len(Dirs) > 0 /\ DistinctPaths(Dirs) /\ Chain(Dirs)
    BY DEF TypeInv, TreeTyped, FirstWalkHolds, AllReached
  <1>7. E \in Seq(DirInfos) /\ Len(E) > 0 /\ E[Len(E)].count > 0
    BY <1>3, <1>6, SetCurDirTyped
  <1>8. Chain(E)
    BY <1>3, <1>4, <1>6, SetCurDirAdvances
  <1>9. NumFiles \in Nat /\ \A i \in 1 .. Len(Dirs) : Dirs[i].count <= NumFiles
    BY DEF TypeInv, ResultsTyped, FirstWalkHolds, Counted
  <1>10. \A i \in 1 .. Len(E) : E[i].count <= NumFiles + 1
    BY <1>3, <1>6, <1>9, SetCurDirCounts
  <1>11. Len(E) <= Len(Dirs) + 1 /\ Place(E) \in Tree!Following(Place(Dirs))
    <2> HIDE DEF E
    <2>1. ASSUME NEW i \in 1 .. Len(Dirs), Uncovered(Dirs, E, i)
          PROVE  Len(E) <= Len(Dirs) + 1 /\ Place(E) \in Tree!Following(Place(Dirs))
      <3>1. Len(E) = i
        BY <2>1 DEF Uncovered
      <3> QED BY <1>6, <1>7, <1>8, <2>1, <3>1, FollowingEntry
    <2>2. ASSUME NEW F \in Seq(DirInfos), Pushed(Dirs, F, p), Uncovered(F, E, Len(F)),
                 \A i \in 1 .. Len(Dirs) : Dirs[i].path # p
          PROVE  Len(E) <= Len(Dirs) + 1 /\ Place(E) \in Tree!Following(Place(Dirs))
      <3>1. Dirs[Len(Dirs)].count > 0
        BY <1>4, <2>2
      <3>2. Chain(F) /\ Len(F) = Len(Dirs) + 1
        BY <1>6, <2>2, <3>1, PushChain DEF Pushed
      <3>3. Place(F) = Place(Dirs)
        BY <1>6, <2>2, <3>1, <3>2, PushStays
      <3>4. Len(F) \in 1 .. Len(F) /\ Len(F) > 0
        BY <3>2
      <3>5. Place(E) \in Tree!Following(Place(F))
        BY <1>7, <1>8, <2>2, <3>2, <3>4, FollowingEntry
      <3>6. Len(E) = Len(F)
        BY <2>2 DEF Uncovered
      <3> QED BY <3>2, <3>3, <3>5, <3>6
    <2>3. \/ \E i \in 1 .. Len(Dirs) : Uncovered(Dirs, E, i)
          \/ /\ \A i \in 1 .. Len(Dirs) : Dirs[i].path # p
             /\ \E F \in Seq(DirInfos) : Pushed(Dirs, F, p) /\ Uncovered(F, E, Len(F))
      BY <1>3, <1>6, SetCurDirCases DEF E
    <2> QED BY <2>1, <2>2, <2>3
  <1> HIDE DEF E
  <1>12. /\ Len(E) < WordLimit
         /\ \A i \in 1 .. Len(E) : E[i].count < WordLimit
    <2>1. MaxEntries \in Nat /\ Len(img.vols) \in Nat
      BY MaxEntriesAssumption, ImageFacts DEF TypeInv, ControlTyped
    <2>2. NumFiles < MaxEntries + Len(img.vols) /\ Len(E) <= NumFiles + 2
      BY <1>2, <1>6, <1>7, <1>9, <1>11, <2>1 DEF FirstOnly, Shallow
    <2> QED BY <1>7, <1>10, <2>2, StackSmall
  <1>13. Tree!Visit
    BY <1>5, <1>7, <1>8, <1>11, <1>12, VisitStep DEF TypeInv
  <1>14. Shallow'
    <2>1. NumFiles' = NumFiles + 1
      BY <1>5 DEF Wrote
    <2> QED BY <1>5, <1>6, <1>7, <1>9, <1>11, <2>1 DEF FirstOnly, Shallow
  <1> QED BY <1>13, <1>14

LEMMA NextVisits ==
    ASSUME UCModes = {"none"}, TypeInv, FirstWalkInv, FirstOnly, [Next]_vars
    PROVE  FirstOnly' /\ [Tree!Visit]_(Tree!vars)
  <1>1. FirstWalkHolds /\ UCMode = "none" /\ ~InUnallocated
    BY DEF FirstWalkInv, FirstOnly, TypeInv, ControlTyped
  <1>2. CASE FilterVol
    <2>1. Tree!Visit /\ Shallow'
      BY <1>1, <1>2, FilterVolVisits
    <2>2. ~InUnallocated'
      BY <1>1, <1>2 DEF FilterVol
    <2> QED BY <2>1, <2>2 DEF FirstOnly
  <1>3. CASE ProcessFile
    <2>1. Tree!Visit /\ Shallow'
      BY <1>1, <1>3, ProcessFileVisits
    <2>2. ~InUnallocated'
      BY <1>1, <1>3 DEF ProcessFile
    <2> QED BY <2>1, <2>2 DEF FirstOnly
  <1>4. ASSUME UNCHANGED <<Dirs, Out, NumFiles, InUnallocated>>
        PROVE  FirstOnly' /\ [Tree!Visit]_(Tree!vars)
    BY <1>4 DEF FirstOnly, Shallow, Tree!vars, hereBar, recordsBar
  <1>5. CASE OpenImage \/ NoFilesystem \/ FilterFs \/ WildPart \/ EndFs
                \/ WalkError \/ WalkFailed \/ FinishWalk
    BY <1>4, <1>5 DEF OpenImage, NoFilesystem, FilterFs, WildPart, EndFs, WalkError, WalkFailed,
                      FinishWalk, tree, results
  <1>6. CASE OutputDiskMap \/ OutputInodeMap
    BY <1>4, <1>6 DEF OutputDiskMap, OutputInodeMap, tree, results
  <1>7. ~(FilterFsUnallocated \/ StartUnallocated)
    BY <1>1 DEF FilterFsUnallocated, StartUnallocated
  <1>8. ~(NextFragment \/ FragmentBlock \/ FragmentPiece \/ FragmentDone)
    BY <1>1 DEF NextFragment, FragmentBlock, FragmentPiece, FragmentDone, FirstWalkHolds, WalkOrder
  <1>9. CASE Terminated \/ UNCHANGED vars
    BY <1>4, <1>9 DEF Terminated, vars, tree, results
  <1> QED BY <1>2, <1>3, <1>5, <1>6, <1>7, <1>8, <1>9 DEF Next

LEMMA InitVisits == Init => FirstOnly /\ Tree!Init
  <1> SUFFICES ASSUME Init
               PROVE  FirstOnly /\ Tree!Init
    OBVIOUS
  <1>1. /\ NumFiles = 0 /\ Dirs = <<DummyRoot>> /\ Out = <<>> /\ ~InUnallocated
    BY DEF Init
  <1>2. Len(Dirs) = 1 /\ back(Dirs).count = 0
    BY <1>1 DEF back, DummyRoot
  <1>3. hereBar = <<>>
    <2>1. Counting(Dirs) = 0
      BY <1>2 DEF Counting
    <2>2. hereBar = [i \in 1 .. 0 |-> Dirs[i].count - 1]
      BY <2>1 DEF hereBar, Place
    <2> QED BY <2>2
  <1>4. recordsBar = <<>>
    BY <1>1 DEF recordsBar
  <1> QED BY <1>1, <1>2, <1>3, <1>4 DEF FirstOnly, Shallow, Tree!Init

\* Without a second walk MetadataWriter implements IdTree, whatever the image holds, in
\* whatever depth-first order libtsk reports it and whichever records exceptions lose: a
\* record's id spells, read back by vintDecode, the position of its entry in the tree, its
\* parent's id that of the directory above, and its key the prefix of its own entries' ids.
THEOREM FirstWalkNumbersTree ==
    ASSUME UCModes = {"none"}
    PROVE  Spec => NumbersTree
  <1>1. Init => FirstWalkInv /\ FirstOnly /\ Tree!Init
    BY InitFirstWalk, InitVisits
  <1>2. TypeInv /\ FirstWalkInv /\ [Next]_vars => FirstWalkInv'
    BY NextFirstWalk
  <1>3. TypeInv /\ FirstWalkInv /\ FirstOnly /\ [Next]_vars
            => FirstOnly' /\ [Tree!Visit]_(Tree!vars)
    BY NextVisits
  <1> QED BY <1>1, <1>2, <1>3, AlwaysTyped, PTL DEF Spec, NumbersTree, Tree!Spec

-----------------------------------------------------------------------------
(***************************************************************************)
(* The open directories are those on one path, and no record contradicts   *)
(* them.  out is a sequence of records.                                    *)
(***************************************************************************)
Nested(dirs) ==
    \A i \in 1 .. Len(dirs) :
        /\ Len(dirs[i].path) = i - 1
        /\ \A j \in 1 .. i : dirs[j].path = SubSeq(dirs[i].path, 1, j - 1)

ParentsOnStack(out, dirs) ==
    \A n \in DOMAIN out : \A i \in 1 .. Len(dirs) :
        out[n].parent = id(dirs[i]) => out[n].path = dirs[i].path

EntriesOnStack(out, dirs) ==
    \A n \in DOMAIN out : \A i \in 1 .. Len(dirs) :
        out[n].id = id(dirs[i]) => dirs[i].path = Append(out[n].path, out[n].name)

\* If the record of the last entry was written, it is that of directory p.
Announced(out, dirs, p) ==
    \A n \in DOMAIN out : out[n].id = IdOfChild(dirs) => p = Append(out[n].path, out[n].name)

ParentsNamed(out) ==
    \A m, n \in DOMAIN out :
        /\ out[m].parent = out[n].parent => out[m].path = out[n].path
        /\ out[m].id = out[n].parent => out[n].path = Append(out[m].path, out[m].name)

Genuine(out) ==
    \A n \in DOMAIN out : out[n].id \in BareId /\ \E b \in BareId : Spelled(out[n], b)

SmallCounts(dirs) == \A i \in 1 .. Len(dirs) : dirs[i].count < CountLimit

-----------------------------------------------------------------------------
(***************************************************************************)
(* Ids of directories and of what is in them.                              *)
(***************************************************************************)

\* Nothing has been written in a directory that has not been entered.
LEMMA NoChildYet ==
    ASSUME NEW D \in Seq(DirInfos), Len(D) > 0, Chain(D), D[Len(D)].count > 0, SmallCounts(D),
           NEW r, NEW b \in BareId, Spelled(r, b), Reached(r.id, D)
    PROVE  r.parent # IdOfChild(D)
  <1> SUFFICES ASSUME r.parent = IdOfChild(D)
               PROVE  FALSE
    OBVIOUS
  <1> DEFINE n == Len(D)
             x == IdOfChild(D)
             l == Len(b)
             front == SubSeq(b, 1, l - 1)
             y == r.id
  <1>1. Len(x) = n + 2 /\ Follows(x, D, n)
    BY IdSpellsPosition
  <1>2. n \in Nat /\ l \in Nat /\ l > 0 /\ b \in Seq(Codeword)
    BY DEF BareId, Spelled
  <1>3. front \in BareId /\ Len(front) = l - 1 /\ \A m \in 1 .. l - 1 : front[m] = b[m]
    <2>1. \A k \in 0 .. l : /\ SubSeq(b, 1, k) \in Seq(Codeword) /\ Len(SubSeq(b, 1, k)) = k
                            /\ \A m \in 1 .. k : SubSeq(b, 1, k)[m] = b[m]
      BY <1>2
    <2>2. l - 1 \in 0 .. l
      BY <1>2
    <2> QED BY <2>1, <2>2 DEF BareId
  <1>4. Depth(l) \in Nat /\ Depth(l - 1) \in Nat
    BY <1>2 DEF Depth
  <1>5. x = Spelling(Depth(l - 1), front)
    BY DEF Spelled
  <1> HIDE DEF x, front
  <1>6. l - 1 = n /\ \A m \in 1 .. n : x[m + 2] = b[m]
    <2>1. Len(x) = (l - 1) + 2 /\ \A m \in 1 .. l - 1 : x[m + 2] = front[m]
      <3>1. PICK level \in Nat : level = Depth(l - 1)
        BY <1>4
      <3>2. /\ Len(Spelling(level, front)) = Len(front) + 2
            /\ \A m \in 1 .. Len(front) : Spelling(level, front)[m + 2] = front[m]
        BY <1>3, TypeAndLevel
      <3>3. x = Spelling(level, front) /\ Len(front) = l - 1
        BY <1>3, <1>5, <3>1
      <3> QED BY <3>2, <3>3
    <2> QED BY <1>1, <1>2, <1>3, <2>1
  <1>7. Len(y) = l + 2 /\ \A m \in 1 .. l : y[m + 2] = b[m]
    <2>1. y = Spelling(Depth(l), b)
      BY DEF Spelled
    <2> HIDE DEF y
    <2> QED BY <1>4, <2>1, TypeAndLevel
  <1> HIDE DEF y
  <1>8. Len(y) = n + 3 /\ Follows(y, D, n)
    <2>1. ASSUME NEW m \in 1 .. n
          PROVE  y[m + 2] = x[m + 2]
      <3>1. m \in 1 .. l
        BY <1>2, <1>6
      <3> QED BY <1>6, <1>7, <3>1, Zenon
    <2> QED BY <1>1, <1>2, <1>6, <1>7, <2>1 DEF Follows
  <1>9. PICK m \in 1 .. n : TurnsOff(y, D, m)
    <2>1. Reached(y, D)
      BY DEF y
    <2> QED BY <1>2, <1>8, <2>1 DEF Reached
  <1>10. PICK c \in Nat : c < D[m].count - 1 /\ y[m + 2] = Code(c)
    BY <1>9 DEF TurnsOff
  <1>11. D[m].count > 0 /\ y[m + 2] = Code(D[m].count - 1)
    BY <1>8 DEF Follows
  <1>12. D[m].count \in Nat /\ D[m].count < 2147483648
    BY DirInfoFields DEF SmallCounts, CountLimit
  <1>13. PICK v \in Nat : v = D[m].count - 1
    BY <1>11, <1>12
  <1>14. v < 2147483647 /\ c < 2147483647 /\ c # v
    BY <1>10, <1>12, <1>13
  <1>15. Code(c) = Code(v)
    BY <1>10, <1>11, <1>13
  <1> QED BY <1>14, <1>15, ChildCodesDiffer DEF Code

\* Directories of different depth have different ids.
LEMMA StackIdLength ==
    ASSUME NEW D \in Seq(DirInfos), Chain(D), NEW i \in 1 .. Len(D)
    PROVE  Len(id(D[i])) = i + 1
  <1>1. Len(D[i].bareID) = i - 1
    BY ChainAt
  <1> QED BY <1>1, IdTyped

\* The id that a directory is pushed with is that of the last entry.
LEMMA PushedId ==
    ASSUME NEW D \in Seq(DirInfos), Len(D) > 0, D[Len(D)].count > 0,
           NEW F, NEW p, Pushed(D, F, p)
    PROVE  id(F[Len(D) + 1]) = IdOfChild(D)
  <1>1. PICK d \in DirInfos : d = D[Len(D)]
    OBVIOUS
  <1>2. PICK q \in Path : q = <<>>
    <2>1. <<>> \in Path
      BY DEF Path
    <2> QED BY <2>1, Zenon
  <1>3. /\ newChild(d, q).level = IF d.bareID = <<>> THEN 0 ELSE d.level + 1
        /\ newChild(d, q).bareID = Append(d.bareID, Code(d.count - 1))
    <2>1. d.count > 0
      BY <1>1
    <2> QED BY <2>1, NewChildTyped
  <1>4. /\ F[Len(D) + 1].level = IF d.bareID = <<>> THEN 0 ELSE d.level + 1
        /\ F[Len(D) + 1].bareID = Append(d.bareID, Code(d.count - 1))
    BY <1>1 DEF Pushed
  <1>5. IdOfChild(D) = id(newChild(d, q))
    BY <1>1, <1>2 DEF IdOfChild, back
  <1> QED BY <1>3, <1>4, <1>5 DEF id

\* No id is that of the root.
LEMMA ReachedLong ==
    ASSUME NEW x \in BareId, NEW D \in Seq(DirInfos), Reached(x, D)
    PROVE  Len(x) >= 3
  <1>1. Len(x) \in Nat /\ Len(D) \in Nat
    BY DEF BareId
  <1> QED BY <1>1 DEF Reached, TurnsOff

-----------------------------------------------------------------------------
(***************************************************************************)
(* Moving between directories.                                             *)
(***************************************************************************)
LEMMA UncoverPaths ==
    ASSUME NEW out, NEW D \in Seq(DirInfos), NEW E \in Seq(DirInfos), NEW i \in 1 .. Len(D),
           Uncovered(D, E, i), Nested(D), ParentsOnStack(out, D), EntriesOnStack(out, D)
    PROVE  Nested(E) /\ ParentsOnStack(out, E) /\ EntriesOnStack(out, E)
  <1>1. Len(E) = i /\ i \in Nat /\ Len(D) \in Nat /\ i <= Len(D)
    BY DEF Uncovered
  <1>2. ASSUME NEW j \in 1 .. i
        PROVE  j \in 1 .. Len(D) /\ E[j].path = D[j].path /\ id(E[j]) = id(D[j])
    <2>1. /\ E[j].path = D[j].path
          /\ E[j].level = D[j].level
          /\ E[j].bareID = D[j].bareID
      BY <1>2 DEF Uncovered
    <2>2. j \in 1 .. Len(D)
      BY <1>1
    <2> QED BY <2>1, <2>2 DEF id
  <1>3. Nested(E)
    <2>1. ASSUME NEW j \in 1 .. i
          PROVE  /\ Len(E[j].path) = j - 1
                 /\ \A m \in 1 .. j : E[m].path = SubSeq(E[j].path, 1, m - 1)
      <3>1. /\ Len(D[j].path) = j - 1
            /\ \A m \in 1 .. j : D[m].path = SubSeq(D[j].path, 1, m - 1)
        BY <1>2, Zenon DEF Nested
      <3>2. E[j].path = D[j].path
        BY <1>2
      <3>3. ASSUME NEW m \in 1 .. j
            PROVE  E[m].path = SubSeq(E[j].path, 1, m - 1)
        <4>1. m \in 1 .. i
          BY <1>1
        <4>2. E[m].path = D[m].path
          BY <1>2, <4>1
        <4> QED BY <3>1, <3>2, <4>2, Zenon
      <3> QED BY <3>1, <3>2, <3>3, Zenon
    <2> QED BY <1>1, <2>1, Zenon DEF Nested
  <1>4. ASSUME NEW n \in DOMAIN out, NEW j \in 1 .. i
        PROVE  /\ out[n].parent = id(E[j]) => out[n].path = E[j].path
               /\ out[n].id = id(E[j]) => E[j].path = Append(out[n].path, out[n].name)
    <2>1. j \in 1 .. Len(D) /\ E[j].path = D[j].path /\ id(E[j]) = id(D[j])
      BY <1>2
    <2>2. out[n].parent = id(D[j]) => out[n].path = D[j].path
      BY <2>1, Zenon DEF ParentsOnStack
    <2>3. out[n].id = id(D[j]) => D[j].path = Append(out[n].path, out[n].name)
      BY <2>1, Zenon DEF EntriesOnStack
    <2> QED BY <2>1, <2>2, <2>3, Zenon
  <1>5. ParentsOnStack(out, E) /\ EntriesOnStack(out, E)
    BY <1>1, <1>4, Zenon DEF ParentsOnStack, EntriesOnStack
  <1> QED BY <1>3, <1>5

LEMMA PushNested ==
    ASSUME NEW D \in Seq(DirInfos), Len(D) > 0, Nested(D), NEW F \in Seq(DirInfos),
           NEW name \in Name, NEW p, p = Append(D[Len(D)].path, name), Pushed(D, F, p)
    PROVE  Nested(F)
  <1> DEFINE n == Len(D)
             s == D[n].path
  <1>1. n \in Nat /\ n \in 1 .. n /\ Len(F) = n + 1
    BY DEF Pushed
  <1>2. (\A j \in 1 .. n : F[j].path = D[j].path) /\ F[n + 1].path = p
    BY DEF Pushed
  <1>3. s \in Seq(Name) /\ Len(s) = n - 1 /\ \A j \in 1 .. n : D[j].path = SubSeq(s, 1, j - 1)
    <2>1. s \in Path
      BY <1>1, DirInfoFields
    <2> QED BY <1>1, <2>1 DEF Nested, Path
  <1> HIDE DEF s, n
  <1>4. p = Append(s, name)
    BY DEF s, n
  <1>5. Len(p) = n /\ p \in Seq(Name)
    BY <1>1, <1>3, <1>4
  <1>6. ASSUME NEW j \in 1 .. n
        PROVE  D[j].path = SubSeq(p, 1, j - 1)
    <2>1. SubSeq(s, 1, j - 1) = SubSeq(p, 1, j - 1)
      BY <1>1, <1>3, <1>4
    <2> QED BY <1>3, <2>1
  <1>7. SubSeq(p, 1, n) = p
    BY <1>1, <1>5
  <1>8. ASSUME NEW i \in 1 .. n + 1
        PROVE  Len(F[i].path) = i - 1 /\ \A j \in 1 .. i : F[j].path = SubSeq(F[i].path, 1, j - 1)
    <2>1. CASE i = n + 1
      <3>1. Len(F[i].path) = i - 1
        BY <1>1, <1>2, <1>5, <2>1
      <3>2. ASSUME NEW j \in 1 .. i
            PROVE  F[j].path = SubSeq(p, 1, j - 1)
        <4>1. CASE j = n + 1
          <5>1. j - 1 = n
            BY <1>1, <4>1
          <5> QED BY <1>2, <1>7, <4>1, <5>1
        <4>2. CASE j \in 1 .. n
          BY <1>2, <1>6, <4>2
        <4>3. j = n + 1 \/ j \in 1 .. n
          BY <1>1, <2>1
        <4> QED BY <4>1, <4>2, <4>3, Zenon
      <3> QED BY <1>2, <2>1, <3>1, <3>2, Zenon
    <2>2. CASE i \in 1 .. n
      <3>1. Len(D[i].path) = i - 1 /\ \A j \in 1 .. i : D[j].path = SubSeq(D[i].path, 1, j - 1)
        BY <2>2, Zenon DEF Nested, n
      <3>2. F[i].path = D[i].path
        BY <1>2, <2>2
      <3>3. \A j \in 1 .. i : j \in 1 .. n
        BY <1>1, <2>2
      <3> QED BY <1>2, <3>1, <3>2, <3>3, Zenon
    <2> QED BY <1>1, <2>1, <2>2
  <1> QED BY <1>1, <1>8 DEF Nested

LEMMA PushPaths ==
    ASSUME NEW D \in Seq(DirInfos), Len(D) > 0, Chain(D), D[Len(D)].count > 0, SmallCounts(D),
           NEW out, Genuine(out), \A n \in DOMAIN out : Reached(out[n].id, D),
           ParentsOnStack(out, D), EntriesOnStack(out, D),
           NEW F, NEW p, Pushed(D, F, p), Announced(out, D, p)
    PROVE  ParentsOnStack(out, F) /\ EntriesOnStack(out, F)
  <1> DEFINE k == Len(D) + 1
  <1>1. Len(F) = k /\ F[k].path = p /\ \A j \in 1 .. Len(D) : F[j] = D[j]
    BY DEF Pushed
  <1>2. id(F[k]) = IdOfChild(D)
    BY PushedId
  <1>3. \A i \in 1 .. k : i = k \/ i \in 1 .. Len(D)
    OBVIOUS
  <1> HIDE DEF k
  <1>4. ASSUME NEW n \in DOMAIN out
        PROVE  out[n].parent # IdOfChild(D)
    <2>1. PICK b \in BareId : Spelled(out[n], b)
      BY Zenon DEF Genuine
    <2> QED BY <2>1, NoChildYet
  <1>5. ASSUME NEW n \in DOMAIN out, NEW i \in 1 .. k, out[n].parent = id(F[i])
        PROVE  out[n].path = F[i].path
    BY <1>1, <1>2, <1>3, <1>4, <1>5, Zenon DEF ParentsOnStack
  <1>6. ASSUME NEW n \in DOMAIN out, NEW i \in 1 .. k, out[n].id = id(F[i])
        PROVE  F[i].path = Append(out[n].path, out[n].name)
    BY <1>1, <1>2, <1>3, <1>6, Zenon DEF EntriesOnStack, Announced
  <1> QED BY <1>1, <1>5, <1>6, Zenon DEF ParentsOnStack, EntriesOnStack

-----------------------------------------------------------------------------
(***************************************************************************)
(* Writing a record in the directory on top.                               *)
(***************************************************************************)
WrittenIn(r, dirs) ==
    /\ r.id = IdOfChild(dirs)
    /\ r.parent = id(back(dirs))
    /\ r.path = back(dirs).path

LEMMA WritePaths ==
    ASSUME NEW E \in Seq(DirInfos), Len(E) > 0, Chain(E), E[Len(E)].count > 0, SmallCounts(E),
           NEW S, NEW out \in Seq(S), Genuine(out), \A n \in DOMAIN out : Passed(out[n].id, E),
           ParentsOnStack(out, E), EntriesOnStack(out, E), ParentsNamed(out),
           NEW r, WrittenIn(r, E)
    PROVE  /\ ParentsOnStack(Append(out, r), E)
           /\ EntriesOnStack(Append(out, r), E)
           /\ ParentsNamed(Append(out, r))
           /\ \A p : p = Append(r.path, r.name) => Announced(Append(out, r), E, p)
  <1> DEFINE k == Len(out) + 1
             out2 == Append(out, r)
             t == Len(E)
  <1>1. /\ DOMAIN out2 = DOMAIN out \cup {k}
        /\ \A n \in DOMAIN out : out2[n] = out[n]
        /\ out2[k] = r
    BY OneMoreRecord
  <1> HIDE DEF out2, k
  <1>2. t \in 1 .. Len(E) /\ back(E) = E[t]
    BY DEF back
  <1>3. Len(IdOfChild(E)) = t + 2 /\ Follows(IdOfChild(E), E, t)
    BY IdSpellsPosition
  <1>4. \A i \in 1 .. t : Len(id(E[i])) = i + 1
    BY StackIdLength
  <1>5. \A n \in DOMAIN out : out[n].id # r.id
    BY <1>3, PassedDiffers, Zenon DEF WrittenIn, SmallCounts
  <1>6. \A n \in DOMAIN out : out[n].parent # r.id
    <2> SUFFICES ASSUME NEW n \in DOMAIN out
                 PROVE  out[n].parent # IdOfChild(E)
      BY DEF WrittenIn
    <2>1. PICK b \in BareId : Spelled(out[n], b)
      BY Zenon DEF Genuine
    <2>2. Reached(out[n].id, E)
      BY PassedReached DEF Genuine
    <2> QED BY <2>1, <2>2, NoChildYet
  <1>7. \A i \in 1 .. t : r.id # id(E[i])
    BY <1>3, <1>4 DEF WrittenIn
  <1>8. r.parent = id(E[t]) /\ r.path = E[t].path /\ r.parent # r.id
    BY <1>2, <1>7 DEF WrittenIn
  <1>9. \A i \in 1 .. t : r.parent = id(E[i]) => i = t
    <2>1. Len(r.parent) = t + 1 /\ t \in Nat
      BY <1>2, <1>4, <1>8
    <2> HIDE DEF t
    <2> QED BY <1>4, <2>1
  <1>10. ParentsOnStack(out2, E)
    BY <1>1, <1>8, <1>9, ZenonT(60) DEF ParentsOnStack
  <1>11. EntriesOnStack(out2, E)
    BY <1>1, <1>7, Zenon DEF EntriesOnStack
  <1>12. \A n \in DOMAIN out : /\ out[n].parent = r.parent => out[n].path = r.path
                               /\ out[n].id = r.parent => r.path = Append(out[n].path, out[n].name)
    BY <1>2, <1>8, Zenon DEF ParentsOnStack, EntriesOnStack
  <1>13. ParentsNamed(out2)
    <2>1. ASSUME NEW m \in DOMAIN out2, NEW n \in DOMAIN out2, out2[m].parent = out2[n].parent
          PROVE  out2[m].path = out2[n].path
      <3>1. CASE m \in DOMAIN out /\ n \in DOMAIN out
        BY <1>1, <2>1, <3>1, ZenonT(60) DEF ParentsNamed
      <3>2. CASE m \in DOMAIN out /\ n = k
        BY <1>1, <1>12, <2>1, <3>2, Zenon
      <3>3. CASE m = k /\ n \in DOMAIN out
        <4>1. out2[n] = out[n] /\ out2[m] = r
          BY <1>1, <3>3, Zenon
        <4>2. out[n].parent = r.parent
          BY <2>1, <4>1, Zenon
        <4>3. out[n].path = r.path
          BY <1>12, <3>3, <4>2, Zenon
        <4> QED BY <4>1, <4>3, Zenon
      <3>4. CASE m = k /\ n = k
        BY <3>4, Zenon
      <3> QED BY <1>1, <3>1, <3>2, <3>3, <3>4, Zenon
    <2>2. ASSUME NEW m \in DOMAIN out2, NEW n \in DOMAIN out2, out2[m].id = out2[n].parent
          PROVE  out2[n].path = Append(out2[m].path, out2[m].name)
      BY <1>1, <1>6, <1>8, <1>12, <2>2, ZenonT(60) DEF ParentsNamed
    <2> QED BY <2>1, <2>2, Zenon DEF ParentsNamed
  <1>14. ASSUME NEW p, p = Append(r.path, r.name)
         PROVE  Announced(out2, E, p)
    <2>1. r.id = IdOfChild(E)
      BY DEF WrittenIn
    <2> QED BY <1>1, <1>5, <1>14, <2>1, Zenon DEF Announced
  <1> QED BY <1>10, <1>11, <1>13, <1>14 DEF out2

\* Where the record is lost, nothing has the id that it would have had.
LEMMA LostAnnounced ==
    ASSUME NEW E \in Seq(DirInfos), Len(E) > 0, Chain(E), E[Len(E)].count > 0, SmallCounts(E),
           NEW out, \A n \in DOMAIN out : Passed(out[n].id, E), NEW p
    PROVE  Announced(out, E, p)
  <1>1. Len(IdOfChild(E)) = Len(E) + 2 /\ Follows(IdOfChild(E), E, Len(E))
    BY IdSpellsPosition
  <1>2. \A n \in DOMAIN out : out[n].id # IdOfChild(E)
    BY <1>1, PassedDiffers, Zenon DEF SmallCounts
  <1> QED BY <1>2, Zenon DEF Announced

-----------------------------------------------------------------------------
(***************************************************************************)
(* The invariant of the first walk.                                        *)
(***************************************************************************)

\* The directory libtsk is in is the one on top, and the next one it may go into is the
\* one of which the last record was written.
AtCurrent ==
    pc = "fs" =>
        /\ Dirs[Len(Dirs)].path = VolName \o cur
        /\ subdir # NoEntry => /\ \E name \in Name : subdir = Append(cur, name)
                               /\ Announced(Out, Dirs, VolName \o subdir)

StackNamed ==
    /\ Nested(Dirs)
    /\ ParentsOnStack(Out, Dirs)
    /\ EntriesOnStack(Out, Dirs)
    /\ ParentsNamed(Out)

PathInv == ~InUnallocated => AtCurrent /\ StackNamed

WalkInv == TypeInv /\ FirstWalkInv /\ KeyInv

LEMMA RootNested ==
    ASSUME NEW D, Len(D) = 1, D[1].path = <<>>
    PROVE  Nested(D)
  <1>1. Len(D[1].path) = 0 /\ D[1].path = SubSeq(D[1].path, 1, 0)
    OBVIOUS
  <1>2. \A i \in 1 .. 1 : i = 1 /\ i - 1 = 0
    OBVIOUS
  <1>3. ASSUME NEW i \in 1 .. 1
        PROVE  Len(D[i].path) = i - 1 /\ \A j \in 1 .. i : D[j].path = SubSeq(D[i].path, 1, j - 1)
    BY <1>1, <1>2
  <1> QED BY <1>3 DEF Nested

LEMMA InitPaths == Init => PathInv
  <1> SUFFICES ASSUME Init
               PROVE  AtCurrent /\ StackNamed
    BY DEF PathInv
  <1>1. pc = "open" /\ Dirs = <<DummyRoot>> /\ Out = <<>>
    BY DEF Init
  <1>2. DOMAIN Out = {}
    BY <1>1
  <1>3. Nested(Dirs)
    <2>1. Len(Dirs) = 1 /\ Dirs[1].path = <<>>
      BY <1>1 DEF DummyRoot
    <2>2. Len(Dirs[1].path) = 0 /\ SubSeq(Dirs[1].path, 1, 0) = <<>>
      BY <2>1
    <2> QED BY <2>1, <2>2, RootNested
  <1> QED BY <1>1, <1>2, <1>3 DEF AtCurrent, StackNamed, ParentsOnStack, EntriesOnStack, ParentsNamed

\* What writeFile adds for the entry f.
LEMMA WriteFileWritten ==
    ASSUME NEW ctx, NEW E \in Seq(DirInfos), NEW f, writeFile(ctx, E, f)
    PROVE  \/ Faults /\ Out' = Out
           \/ \E r : Out' = Append(Out, r) /\ WrittenIn(r, E) /\ r.name = f.name
  <1> DEFINE r == Record(ctx, back(E), f)
  <1>1. \/ Faults /\ Out' = Out
        \/ Out' = Append(Out, r)
    BY Zenon DEF writeFile
  <1>2. WrittenIn(r, E) /\ r.name = f.name
    BY DEF Record, WrittenIn, IdOfChild
  <1> QED BY <1>1, <1>2, Zenon

\* A record is written in a directory that an entry has been counted in.
LEMMA WriteFilePaths ==
    ASSUME ResultsTyped, KeyInv,
           NEW E \in Seq(DirInfos), Len(E) > 0, Chain(E), E[Len(E)].count > 0, SmallCounts(E),
           \A n \in DOMAIN Out : Passed(Out[n].id, E),
           ParentsOnStack(Out, E), EntriesOnStack(Out, E), ParentsNamed(Out),
           NEW ctx, NEW f, writeFile(ctx, E, f)
    PROVE  /\ ParentsOnStack(Out', E) /\ EntriesOnStack(Out', E) /\ ParentsNamed(Out')
           /\ Announced(Out', E, Append(back(E).path, f.name))
  <1>1. CASE Out' = Out
    <2>1. \A p : Announced(Out, E, p)
      BY LostAnnounced
    <2> QED BY <1>1, <2>1, Zenon
  <1>2. ASSUME NEW r, Out' = Append(Out, r), WrittenIn(r, E), r.name = f.name
        PROVE  /\ ParentsOnStack(Out', E) /\ EntriesOnStack(Out', E) /\ ParentsNamed(Out')
               /\ Announced(Out', E, Append(back(E).path, f.name))
    <2>1. PICK S : Out \in Seq(S)
      BY DEF ResultsTyped
    <2>2. Genuine(Out)
      BY Zenon DEF Genuine, ResultsTyped, KeyInv
    <2>3. /\ ParentsOnStack(Append(Out, r), E)
          /\ EntriesOnStack(Append(Out, r), E)
          /\ ParentsNamed(Append(Out, r))
          /\ \A p : p = Append(r.path, r.name) => Announced(Append(Out, r), E, p)
      BY <1>2, <2>1, <2>2, WritePaths
    <2>4. Append(back(E).path, f.name) = Append(r.path, r.name)
      BY <1>2 DEF WrittenIn
    <2> QED BY <1>2, <2>3, <2>4, Zenon
  <1> QED BY <1>1, <1>2, WriteFileWritten, Zenon

\* The counts after one more entry.
LEMMA CountsStaySmall ==
    ASSUME TypeInv, NumFiles < MaxEntries + Len(img.vols), NEW E \in Seq(DirInfos),
           \A i \in 1 .. Len(E) : E[i].count <= NumFiles + 1
    PROVE  SmallCounts(E)
  <1>1. NumFiles + 1 < CountLimit /\ NumFiles \in Nat
    BY CountsSmall DEF TypeInv, ResultsTyped
  <1>2. ASSUME NEW i \in 1 .. Len(E)
        PROVE  E[i].count < CountLimit
    <2>1. E[i].count \in Nat
      BY DirInfoFields
    <2> QED BY <1>1, <2>1 DEF CountLimit
  <1> QED BY <1>2 DEF SmallCounts

LEMMA FilterVolPaths ==
    ASSUME WalkInv, PathInv, ~InUnallocated, FilterVol
    PROVE  AtCurrent' /\ StackNamed'
  <1> DEFINE root == SubSeq(Dirs, 1, 1)
             E    == setCurDir(root, <<>>)
             v    == PartName(img.vols[vol + 1])
             F    == Append(E, newChild(back(E), <<v>>))
  <1>1. TypeInv /\ FirstWalkHolds /\ KeyInv /\ StackNamed
    BY DEF WalkInv, FirstWalkInv, PathInv
  <1>2. vol < Len(img.vols) /\ pc' = "vol" /\ Dirs' = F
    BY Zenon DEF FilterVol
  <1>3. \E ctx, f : writeFile(ctx, E, f) /\ f.name = v
    <2>1. \A k, s : VolumeEntry(img.vols[vol + 1], k, s).name = v
      BY DEF VolumeEntry
    <2>2. \E ctx, k, s : writeFile(ctx, E, VolumeEntry(img.vols[vol + 1], k, s))
      BY Zenon DEF FilterVol
    <2> HIDE DEF E, v
    <2> QED BY <2>1, <2>2, Zenon
  <1>4. v \in Name /\ Len(img.vols) \in Nat /\ NumVols = vol /\ vol \in Nat
    <2>1. img \in Images /\ vol \in Nat
      BY <1>1 DEF TypeInv, ControlTyped
    <2>2. img.vols # <<>> /\ vol + 1 \in 1 .. Len(img.vols)
      BY <1>2, <2>1, ImageFacts
    <2> QED BY <1>1, <2>1, <2>2, ImageFacts DEF TypeInv, ControlTyped
  <1> HIDE DEF v
  <1>5. /\ E \in Seq(DirInfos) /\ Len(E) = 1 /\ E[1].path = <<>> /\ DistinctPaths(E)
        /\ Uncovered(root, E, 1) /\ root[1] = Dirs[1]
    <2>1. /\ root \in Seq(DirInfos) /\ Len(root) = 1 /\ root[1].path = <<>>
          /\ DistinctPaths(root) /\ root[1] = Dirs[1]
      BY <1>1, RootStack
    <2> HIDE DEF root
    <2> QED BY <2>1, RootCounted
  <1> HIDE DEF root, E
  <1>6. Uncovered(Dirs, E, 1)
    BY <1>5 DEF Uncovered
  <1>7. Dirs \in Seq(DirInfos) /\ 1 \in 1 .. Len(Dirs) /\ Chain(Dirs)
    BY <1>1 DEF TypeInv, TreeTyped, FirstWalkHolds, AllReached
  <1>8. Chain(E) /\ \A x \in BareId : Reached(x, Dirs) => Passed(x, E)
    BY <1>5, <1>6, <1>7, UncoverChain, UncoverPasses
  <1>9. \A n \in DOMAIN Out : Out[n].id \in BareId /\ Passed(Out[n].id, E)
    BY <1>1, <1>8, Zenon DEF TypeInv, ResultsTyped, FirstWalkHolds, AllReached
  <1>10. /\ Len(E) > 0 /\ E[Len(E)].count > 0
         /\ \A i \in 1 .. Len(E) : E[i].count <= NumFiles + 1
    <2>1. Dirs[1].count \in Nat
      BY <1>7, DirInfoFields
    <2>2. E[1].count > 0 /\ E[1].count <= NumFiles + 1
      BY <1>1, <1>6, <1>7, <2>1 DEF Uncovered, FirstWalkHolds, Counted, TypeInv, ResultsTyped
    <2> QED BY <1>5, <2>2
  <1>11. SmallCounts(E)
    <2>1. MaxEntries \in Nat /\ NumFiles \in Nat
      BY <1>1, MaxEntriesAssumption DEF TypeInv, ResultsTyped
    <2>2. NumFiles < MaxEntries + Len(img.vols)
      BY <1>1, <1>2, <1>4, <2>1 DEF FirstWalkHolds, Counted
    <2> QED BY <1>1, <1>5, <1>10, <2>2, CountsStaySmall
  <1>12. ParentsOnStack(Out, E) /\ EntriesOnStack(Out, E) /\ ParentsNamed(Out)
    BY <1>1, <1>5, <1>6, <1>7, UncoverPaths DEF StackNamed
  <1>13. /\ ParentsOnStack(Out', E) /\ EntriesOnStack(Out', E) /\ ParentsNamed(Out')
         /\ Announced(Out', E, <<v>>)
    <2>1. PICK ctx, f : writeFile(ctx, E, f) /\ f.name = v
      BY <1>3
    <2>2. /\ ParentsOnStack(Out', E) /\ EntriesOnStack(Out', E) /\ ParentsNamed(Out')
          /\ Announced(Out', E, Append(back(E).path, f.name))
      BY <1>1, <1>5, <1>8, <1>9, <1>10, <1>11, <1>12, <2>1, WriteFilePaths DEF TypeInv
    <2>3. Append(back(E).path, f.name) = <<v>>
      BY <1>5, <2>1 DEF back
    <2> QED BY <2>2, <2>3, Zenon
  <1>14. F \in Seq(DirInfos) /\ Pushed(E, F, <<v>>)
    BY <1>1, <1>4, <1>5, VolumeStack
  <1> HIDE DEF F
  <1>15. TypeInv' /\ FirstWalkHolds' /\ KeyInv'
    BY <1>1, FilterVolTyped, FilterVolFirst, FilterVolKeys
  <1>16. Nested(F)
    <2>1. Nested(E)
      BY <1>5, RootNested
    <2>2. <<v>> = Append(E[Len(E)].path, v)
      BY <1>5
    <2> QED BY <1>4, <1>5, <1>10, <1>14, <2>1, <2>2, PushNested
  <1>17. ParentsOnStack(Out', F) /\ EntriesOnStack(Out', F)
    <2>1. Genuine(Out')
      BY <1>15, Zenon DEF Genuine, TypeInv, ResultsTyped, KeyInv
    <2>2. \A n \in DOMAIN Out' : Reached(Out'[n].id, E)
      <3>1. \E f, ctx : writeFile(ctx, E, f)
        BY <1>3
      <3>2. Wrote(E)
        BY <3>1, WriteFileEffect
      <3>3. NumFiles < MaxEntries + Len(img.vols)
        BY <1>1, <1>2, <1>4, MaxEntriesAssumption
           DEF FirstWalkHolds, Counted, TypeInv, ResultsTyped
      <3> QED BY <1>1, <1>5, <1>8, <1>10, <3>2, <3>3, MoveOn DEF FirstWalkHolds
    <2> QED BY <1>5, <1>8, <1>10, <1>11, <1>13, <1>14, <2>1, <2>2, PushPaths
  <1> QED BY <1>2, <1>13, <1>16, <1>17, Zenon DEF AtCurrent, StackNamed

\* A directory that libtsk goes back to is on the stack.
LEMMA PrefixOnStack ==
    ASSUME NEW D \in Seq(DirInfos), Len(D) > 0, Nested(D), NEW v \in Path, NEW c \in Path,
           D[Len(D)].path = v \o c, NEW k \in 0 .. Len(c)
    PROVE  \E i \in 1 .. Len(D) : D[i].path = v \o SubSeq(c, 1, k)
  <1>1. v \in Seq(Name) /\ c \in Seq(Name) /\ Len(v) \in Nat /\ Len(c) \in Nat
    BY DEF Path
  <1>2. PICK t \in 1 .. Len(D) : t = Len(D)
    OBVIOUS
  <1>3. PICK w \in Seq(Name) : w = v \o c
    <2>1. v \o c \in Seq(Name)
      BY <1>1
    <2> QED BY <2>1, Zenon
  <1>4. D[t].path = w
    BY <1>2, <1>3
  <1>5. Len(w) = t - 1 /\ \A j \in 1 .. t : D[j].path = SubSeq(w, 1, j - 1)
    <2>1. Len(D[t].path) = t - 1 /\ \A j \in 1 .. t : D[j].path = SubSeq(D[t].path, 1, j - 1)
      BY Zenon DEF Nested
    <2> QED BY <1>4, <2>1, Zenon
  <1>6. /\ Len(w) = Len(v) + Len(c)
        /\ \A m \in 1 .. Len(v) : w[m] = v[m]
        /\ \A m \in Len(v) + 1 .. Len(v) + Len(c) : w[m] = c[m - Len(v)]
    BY <1>1, <1>3
  <1>7. PICK i \in 1 .. t : i = Len(v) + k + 1
    BY <1>1, <1>5, <1>6
  <1>8. D[i].path = SubSeq(w, 1, i - 1)
    BY <1>5
  <1>9. k \in Nat /\ k <= Len(c) /\ i - 1 = Len(v) + k
    BY <1>1, <1>7
  <1>10. SubSeq(w, 1, Len(v) + k) = v \o SubSeq(c, 1, k)
    <2> DEFINE x == SubSeq(w, 1, Len(v) + k)
               u == SubSeq(c, 1, k)
               y == v \o u
    <2>1. x \in Seq(Name) /\ Len(x) = Len(v) + k /\ \A m \in 1 .. Len(v) + k : x[m] = w[m]
      BY <1>1, <1>6, <1>9
    <2>2. u \in Seq(Name) /\ Len(u) = k /\ \A m \in 1 .. k : u[m] = c[m]
      BY <1>1, <1>9
    <2> HIDE DEF x, u
    <2>3. /\ y \in Seq(Name) /\ Len(y) = Len(v) + k
          /\ \A m \in 1 .. Len(v) : y[m] = v[m]
          /\ \A m \in Len(v) + 1 .. Len(v) + k : y[m] = u[m - Len(v)]
      <3>1. /\ y \in Seq(Name) /\ Len(y) = Len(v) + Len(u)
            /\ \A m \in 1 .. Len(v) + Len(u) :
                   y[m] = IF m <= Len(v) THEN v[m] ELSE u[m - Len(v)]
        BY <1>1, <2>2, ConcatProperties, Zenon
      <3> HIDE DEF y
      <3> QED BY <1>1, <1>9, <2>2, <3>1, SMTT(30)
    <2> HIDE DEF y
    <2>4. ASSUME NEW m \in 1 .. Len(v) + k
          PROVE  x[m] = y[m]
      <3>1. CASE m \in 1 .. Len(v)
        BY <1>6, <2>1, <2>3, <3>1
      <3>2. CASE m \in Len(v) + 1 .. Len(v) + k
        <4>1. m - Len(v) \in 1 .. k /\ m \in Len(v) + 1 .. Len(v) + Len(c)
          BY <1>1, <1>9, <3>2
        <4> QED BY <1>6, <2>1, <2>2, <2>3, <3>2, <4>1
      <3> QED BY <1>1, <1>9, <3>1, <3>2
    <2>5. x = y
      <3>1. Len(x) = Len(y) /\ \A m \in 1 .. Len(x) : x[m] = y[m]
        BY <2>1, <2>3, <2>4
      <3> QED BY <2>1, <2>3, <3>1, SeqEqual
    <2> QED BY <2>5 DEF x, y, u
  <1> QED BY <1>2, <1>8, <1>9, <1>10

\* What is not on the stack is the directory of which the last record was written.
LEMMA OnlyAnnounced ==
    ASSUME TypeInv, AtCurrent, pc = "fs", Nested(Dirs), NEW path \in NextPaths,
           \A i \in 1 .. Len(Dirs) : Dirs[i].path # VolName \o path
    PROVE  path = subdir /\ subdir # NoEntry
  <1>1. ASSUME NEW k \in 0 .. Len(cur)
        PROVE  \E i \in 1 .. Len(Dirs) : Dirs[i].path = VolName \o SubSeq(cur, 1, k)
    <2>1. VolName \in Path /\ cur \in Path /\ Dirs[Len(Dirs)].path = VolName \o cur
      BY DEF TypeInv, ControlTyped, AtCurrent
    <2> QED BY <2>1, PrefixOnStack DEF TypeInv, TreeTyped
  <1>2. \A k \in 0 .. Len(cur) : path # SubSeq(cur, 1, k)
    BY <1>1, Zenon
  <1>3. path \in {SubSeq(cur, 1, k) : k \in 0 .. Len(cur)}
        \/ path \in IF subdir = NoEntry THEN {} ELSE {subdir}
    BY Zenon DEF NextPaths
  <1> QED BY <1>2, <1>3, Zenon

\* setCurDir pushes only the directory of which the last record was written.
LEMMA EnterPaths ==
    ASSUME WalkInv, PathInv, ~InUnallocated, pc = "fs", NumFiles < MaxEntries,
           NEW path \in NextPaths, NEW E \in Seq(DirInfos), E = setCurDir(Dirs, VolName \o path)
    PROVE  Nested(E) /\ ParentsOnStack(Out, E) /\ EntriesOnStack(Out, E)
  <1>1. TypeInv /\ FirstWalkHolds /\ KeyInv /\ StackNamed /\ AtCurrent
    BY DEF WalkInv, FirstWalkInv, PathInv
  <1>2. PICK p \in Path : p = VolName \o path
    <2>1. path \in Path
      BY <1>1, NextPathsTyped
    <2>2. VolName \o path \in Path
      BY <1>1, <2>1 DEF TypeInv, ControlTyped, Path
    <2> QED BY <2>2, Zenon
  <1>3. Dirs \in Seq(DirInfos) /\ Len(Dirs) > 0 /\ DistinctPaths(Dirs) /\ Chain(Dirs)
    BY <1>1 DEF TypeInv, TreeTyped, FirstWalkHolds, AllReached
  <1>4. Nested(Dirs) /\ ParentsOnStack(Out, Dirs) /\ EntriesOnStack(Out, Dirs)
    BY <1>1 DEF StackNamed
  <1>5. ASSUME NEW i \in 1 .. Len(Dirs), Uncovered(Dirs, E, i)
        PROVE  Nested(E) /\ ParentsOnStack(Out, E) /\ EntriesOnStack(Out, E)
    BY <1>3, <1>4, <1>5, UncoverPaths
  <1>6. ASSUME \A i \in 1 .. Len(Dirs) : Dirs[i].path # p,
               NEW F \in Seq(DirInfos), Pushed(Dirs, F, p), Uncovered(F, E, Len(F))
        PROVE  Nested(E) /\ ParentsOnStack(Out, E) /\ EntriesOnStack(Out, E)
    <2>1. path = subdir /\ subdir # NoEntry
      BY <1>1, <1>2, <1>3, <1>4, <1>6, OnlyAnnounced
    <2>2. PICK name \in Name : subdir = Append(cur, name)
      BY <1>1, <2>1 DEF AtCurrent
    <2>3. Announced(Out, Dirs, p) /\ Dirs[Len(Dirs)].path = VolName \o cur
      BY <1>1, <1>2, <2>1 DEF AtCurrent
    <2>4. p = Append(Dirs[Len(Dirs)].path, name)
      <3>1. VolName \in Seq(Name) /\ cur \in Seq(Name)
        BY <1>1 DEF TypeInv, ControlTyped, Path
      <3>2. VolName \o Append(cur, name) = Append(VolName \o cur, name)
        BY <3>1
      <3> QED BY <1>2, <2>1, <2>2, <2>3, <3>2
    <2>5. Dirs[Len(Dirs)].count > 0
      BY <1>1, <1>2, <1>6, Enterable
    <2>6. SmallCounts(Dirs)
      <3>1. NumFiles < MaxEntries + Len(img.vols) /\ NumFiles \in Nat
        <4>1. NumFiles \in Nat /\ Len(img.vols) \in Nat /\ MaxEntries \in Nat
          BY <1>1, ImageFacts, MaxEntriesAssumption DEF TypeInv, ResultsTyped, ControlTyped
        <4> QED BY <4>1
      <3>2. \A i \in 1 .. Len(Dirs) : Dirs[i].count \in Nat /\ Dirs[i].count <= NumFiles
        BY <1>1, <1>3, DirInfoFields DEF FirstWalkHolds, Counted
      <3>3. \A i \in 1 .. Len(Dirs) : Dirs[i].count <= NumFiles + 1
        BY <3>1, <3>2
      <3> QED BY <1>1, <1>3, <3>1, <3>3, CountsStaySmall
    <2>7. Nested(F)
      BY <1>3, <1>4, <1>6, <2>4, PushNested
    <2>8. Genuine(Out)
      BY <1>1, Zenon DEF Genuine, TypeInv, ResultsTyped, KeyInv
    <2>9. \A n \in DOMAIN Out : Reached(Out[n].id, Dirs)
      BY <1>1 DEF FirstWalkHolds, AllReached
    <2>10. ParentsOnStack(Out, F) /\ EntriesOnStack(Out, F)
      BY <1>3, <1>4, <1>6, <2>3, <2>5, <2>6, <2>8, <2>9, PushPaths
    <2>11. Len(F) \in 1 .. Len(F)
      BY <1>3, <1>6 DEF Pushed
    <2> QED BY <1>6, <2>7, <2>10, <2>11, UncoverPaths
  <1>7. \/ \E i \in 1 .. Len(Dirs) : Uncovered(Dirs, E, i)
        \/ /\ \A i \in 1 .. Len(Dirs) : Dirs[i].path # p
           /\ \E F \in Seq(DirInfos) : Pushed(Dirs, F, p) /\ Uncovered(F, E, Len(F))
    <2>1. E = setCurDir(Dirs, p)
      BY <1>2
    <2>2. \/ \E i \in 1 .. Len(Dirs) : Dirs[i].path = p /\ Uncovered(Dirs, setCurDir(Dirs, p), i)
          \/ /\ \A i \in 1 .. Len(Dirs) : Dirs[i].path # p
             /\ \E F \in Seq(DirInfos) : /\ Pushed(Dirs, F, p)
                                         /\ Uncovered(F, setCurDir(Dirs, p), Len(F))
      BY <1>3, SetCurDirCases
    <2> QED BY <2>1, <2>2, Zenon
  <1> QED BY <1>5, <1>6, <1>7, Zenon

LEMMA ProcessFilePaths ==
    ASSUME WalkInv, PathInv, ~InUnallocated, ProcessFile
    PROVE  AtCurrent' /\ StackNamed'
  <1>1. TypeInv /\ FirstWalkHolds /\ KeyInv /\ StackNamed
    BY DEF WalkInv, FirstWalkInv, PathInv
  <1>2. PICK f \in Entries, path \in NextPaths :
            /\ processFile(Dirs, Context(Fs, <<FSBeg, FSEnd>>, AllocatedRuns), path, f)
            /\ cur' = path
            /\ subdir' = IF f.type = "dir" THEN Append(path, f.name) ELSE NoEntry
    BY Zenon DEF ProcessFile
  <1>3. pc = "fs" /\ NumFiles < MaxEntries /\ VolName' = VolName
    BY DEF ProcessFile, volume
  <1>4. PICK p \in Path : p = VolName \o path
    <2>1. path \in Path
      BY <1>1, NextPathsTyped
    <2>2. VolName \o path \in Path
      BY <1>1, <2>1 DEF TypeInv, ControlTyped, Path
    <2> QED BY <2>2, Zenon
  <1>5. Dirs \in Seq(DirInfos) /\ Len(Dirs) > 0 /\ DistinctPaths(Dirs) /\ Chain(Dirs)
    BY <1>1 DEF TypeInv, TreeTyped, FirstWalkHolds, AllReached
  <1>6. PICK E \in Seq(DirInfos) : E = setCurDir(Dirs, p)
    BY <1>4, <1>5, SetCurDirTyped
  <1>7. Dirs' = E /\ \E ctx : writeFile(ctx, E, f)
    BY <1>2, <1>4, <1>6, Zenon DEF processFile
  <1>8. Len(E) > 0 /\ E[Len(E)].path = p /\ E[Len(E)].count > 0
    BY <1>4, <1>5, <1>6, SetCurDirTyped
  <1>9. Nested(E) /\ ParentsOnStack(Out, E) /\ EntriesOnStack(Out, E)
    BY <1>3, <1>4, <1>6, EnterPaths
  <1>10. Dirs[Len(Dirs)].count > 0 \/ \E i \in 1 .. Len(Dirs) : Dirs[i].path = p
    BY <1>1, <1>3, <1>4, Enterable
  <1>11. Chain(E) /\ \A x \in BareId : Reached(x, Dirs) => Passed(x, E)
    BY <1>4, <1>5, <1>6, <1>10, SetCurDirAdvances
  <1>12. \A n \in DOMAIN Out : Passed(Out[n].id, E)
    BY <1>1, <1>11, Zenon DEF TypeInv, ResultsTyped, FirstWalkHolds, AllReached
  <1>13. SmallCounts(E)
    <2>1. NumFiles \in Nat /\ \A i \in 1 .. Len(Dirs) : Dirs[i].count <= NumFiles
      BY <1>1 DEF TypeInv, ResultsTyped, FirstWalkHolds, Counted
    <2>2. \A i \in 1 .. Len(E) : E[i].count <= NumFiles + 1
      BY <1>4, <1>5, <1>6, <2>1, SetCurDirCounts
    <2>3. NumFiles < MaxEntries + Len(img.vols)
      <3>1. Len(img.vols) \in Nat /\ MaxEntries \in Nat
        BY <1>1, ImageFacts, MaxEntriesAssumption DEF TypeInv, ControlTyped
      <3> QED BY <1>3, <2>1, <3>1
    <2> QED BY <1>1, <2>2, <2>3, CountsStaySmall
  <1>14. /\ ParentsOnStack(Out', E) /\ EntriesOnStack(Out', E) /\ ParentsNamed(Out')
         /\ Announced(Out', E, Append(p, f.name))
    <2>1. PICK ctx : writeFile(ctx, E, f)
      BY <1>7
    <2>2. /\ ParentsOnStack(Out', E) /\ EntriesOnStack(Out', E) /\ ParentsNamed(Out')
          /\ Announced(Out', E, Append(back(E).path, f.name))
      BY <1>1, <1>8, <1>9, <1>11, <1>12, <1>13, <2>1, WriteFilePaths DEF TypeInv, StackNamed
    <2> QED BY <1>8, <2>2 DEF back
  <1>15. AtCurrent'
    <2>1. f.name \in Name
      BY EntriesAssumption
    <2>2. path \in Seq(Name) /\ VolName \in Seq(Name)
      BY <1>1, NextPathsTyped DEF TypeInv, ControlTyped, Path
    <2>3. Append(p, f.name) = VolName \o Append(path, f.name)
      BY <1>4, <2>1, <2>2
    <2>4. Dirs'[Len(Dirs')].path = VolName' \o cur'
      BY <1>2, <1>3, <1>4, <1>7, <1>8
    <2>5. ASSUME subdir' # NoEntry
          PROVE  /\ \E name \in Name : subdir' = Append(cur', name)
                 /\ Announced(Out', Dirs', VolName' \o subdir')
      <3>1. subdir' = Append(path, f.name)
        BY <1>2, <2>5
      <3> QED BY <1>2, <1>3, <1>7, <1>14, <2>1, <2>3, <3>1
    <2> QED BY <2>4, <2>5 DEF AtCurrent
  <1> QED BY <1>7, <1>9, <1>14, <1>15 DEF StackNamed

LEMMA NoFlushInFirstWalk ==
    ASSUME WalkInv, ~InUnallocated'
    PROVE  ~(NextFragment \/ FragmentBlock \/ FragmentPiece \/ FragmentDone)
  <1> SUFFICES ASSUME NextFragment \/ FragmentBlock \/ FragmentPiece \/ FragmentDone
               PROVE  FALSE
    OBVIOUS
  <1>1. ~InUnallocated /\ pc \in {"flush", "fragment"}
    BY DEF NextFragment, FragmentBlock, FragmentPiece, FragmentDone
  <1> QED BY <1>1 DEF WalkInv, FirstWalkInv, FirstWalkHolds, WalkOrder

LEMMA NextPathInv == WalkInv /\ PathInv /\ [Next]_vars => PathInv'
  <1> SUFFICES ASSUME WalkInv, PathInv, [Next]_vars, ~InUnallocated'
               PROVE  AtCurrent' /\ StackNamed'
    BY DEF PathInv
  <1>1. ASSUME UNCHANGED <<Dirs, Out>>, ~InUnallocated, pc' # "fs"
        PROVE  AtCurrent' /\ StackNamed'
    BY <1>1 DEF PathInv, AtCurrent, StackNamed
  <1>2. ASSUME FilterVol
        PROVE  AtCurrent' /\ StackNamed'
    <2>1. ~InUnallocated
      BY <1>2 DEF FilterVol
    <2> QED BY <1>2, <2>1, FilterVolPaths
  <1>3. ASSUME FilterFs
        PROVE  AtCurrent' /\ StackNamed'
    <2>1. /\ ~InUnallocated /\ UNCHANGED <<Dirs, Out, VolName>> /\ AtFs
          /\ cur' = <<>> /\ subdir' = NoEntry
      BY <1>3 DEF FilterFs, tree, volume
    <2>2. Dirs[Len(Dirs)].path = VolName
      BY <2>1 DEF WalkInv, FirstWalkInv, FirstWalkHolds, WalkOrder, back
    <2>3. VolName \o <<>> = VolName
      BY DEF WalkInv, TypeInv, ControlTyped, Path
    <2> QED BY <2>1, <2>2, <2>3 DEF PathInv, AtCurrent, StackNamed
  <1>4. ASSUME ProcessFile
        PROVE  AtCurrent' /\ StackNamed'
    <2>1. ~InUnallocated
      BY <1>4 DEF ProcessFile
    <2> QED BY <1>4, <2>1, ProcessFilePaths
  <1>5. ASSUME OpenImage \/ NoFilesystem \/ WildPart \/ EndFs \/ WalkError \/ WalkFailed \/ FinishWalk
                   \/ OutputDiskMap \/ OutputInodeMap
        PROVE  AtCurrent' /\ StackNamed'
    <2>1. UNCHANGED <<Dirs, Out, InUnallocated>> /\ pc' # "fs"
      BY <1>5 DEF OpenImage, Start, NoFilesystem, WildPart, EndFs, WalkError, WalkFailed, FinishWalk,
                  OutputDiskMap, OutputInodeMap, tree, results
    <2> QED BY <1>1, <2>1
  <1>6. ~(FilterFsUnallocated \/ StartUnallocated)
    BY DEF FilterFsUnallocated, StartUnallocated
  <1>7. ~(NextFragment \/ FragmentBlock \/ FragmentPiece \/ FragmentDone)
    BY NoFlushInFirstWalk
  <1>8. ASSUME UNCHANGED vars \/ Terminated
        PROVE  AtCurrent' /\ StackNamed'
    <2>1. UNCHANGED vars
      BY <1>8 DEF Terminated
    <2>2. UNCHANGED <<pc, cur, subdir, VolName, InUnallocated, Dirs, Out>>
      BY <2>1 DEF vars, walk, volume, tree, results
    <2> QED BY <2>2 DEF PathInv, AtCurrent, StackNamed
  <1> QED BY <1>2, <1>3, <1>4, <1>5, <1>6, <1>7, <1>8 DEF Next

LEMMA AlwaysWalk == Spec => [](WalkInv /\ PathInv)
  <1>1. Init => FirstWalkInv /\ KeyInv /\ PathInv
    BY InitFirstWalk, InitKeys, InitPaths
  <1>2. TypeInv /\ (FirstWalkInv /\ KeyInv /\ PathInv) /\ [Next]_vars
        => (FirstWalkInv /\ KeyInv /\ PathInv)'
    BY NextFirstWalk, NextKeys, NextPathInv DEF WalkInv
  <1>3. TypeInv /\ FirstWalkInv /\ KeyInv /\ PathInv => WalkInv /\ PathInv
    BY DEF WalkInv
  <1> QED BY <1>1, <1>2, <1>3, AlwaysTyped, PTL DEF Spec

\* While files are written, one parent means one path, and a parent that was written is
\* the directory of that path: whatever the image holds and whichever records get lost.
THEOREM ParentsNamePaths == Spec => [](~InUnallocated => ParentNamesPath)
  <1>1. PathInv => (~InUnallocated => ParentNamesPath)
    BY DEF PathInv, StackNamed, ParentsNamed, ParentNamesPath
  <1> QED BY <1>1, AlwaysWalk, PTL

-----------------------------------------------------------------------------
(***************************************************************************)
(* Where no exception loses a record, the entry of each directory that is  *)
(* open has been written, and so has the one that libtsk may go into.      *)
(***************************************************************************)
Recorded(out, x) == \E n \in DOMAIN out : out[n].id = x

StackRecorded(out, dirs) == \A i \in 2 .. Len(dirs) : Recorded(out, id(dirs[i]))

ParentsWritten(out) ==
    \A n \in DOMAIN out : out[n].path # <<>> =>
        \E m \in 1 .. n - 1 : out[m].id = out[n].parent

NextRecorded == pc = "fs" /\ subdir # NoEntry => Recorded(Out, IdOfChild(Dirs))

RecordedInv ==
    ~InUnallocated => NextRecorded /\ StackRecorded(Out, Dirs) /\ ParentsWritten(Out)

LEMMA UncoverRecorded ==
    ASSUME NEW out, NEW D \in Seq(DirInfos), NEW E, NEW i \in 1 .. Len(D), Uncovered(D, E, i),
           StackRecorded(out, D)
    PROVE  StackRecorded(out, E)
  <1>1. Len(E) = i /\ i \in Nat /\ Len(D) \in Nat /\ i <= Len(D)
    BY DEF Uncovered
  <1>2. ASSUME NEW j \in 2 .. i
        PROVE  j \in 2 .. Len(D) /\ id(E[j]) = id(D[j])
    <2>1. E[j].level = D[j].level /\ E[j].bareID = D[j].bareID
      BY <1>2 DEF Uncovered
    <2>2. j \in 2 .. Len(D)
      BY <1>1
    <2> QED BY <2>1, <2>2 DEF id
  <1> QED BY <1>1, <1>2, Zenon DEF StackRecorded

LEMMA PushRecorded ==
    ASSUME NEW D \in Seq(DirInfos), Len(D) > 0, D[Len(D)].count > 0, NEW out,
           StackRecorded(out, D), Recorded(out, IdOfChild(D)), NEW F, NEW p, Pushed(D, F, p)
    PROVE  StackRecorded(out, F)
  <1> DEFINE k == Len(D) + 1
  <1>1. Len(F) = k /\ \A j \in 1 .. Len(D) : F[j] = D[j]
    BY DEF Pushed
  <1>2. id(F[k]) = IdOfChild(D)
    BY PushedId
  <1>3. \A i \in 2 .. k : i = k \/ (i \in 2 .. Len(D) /\ i \in 1 .. Len(D))
    OBVIOUS
  <1> HIDE DEF k
  <1> QED BY <1>1, <1>2, <1>3, Zenon DEF StackRecorded

\* A record added to those there are.
LEMMA WriteRecorded ==
    ASSUME NEW E \in Seq(DirInfos), Len(E) > 0, Nested(E), NEW S, NEW out \in Seq(S),
           StackRecorded(out, E), ParentsWritten(out), NEW r, WrittenIn(r, E)
    PROVE  /\ StackRecorded(Append(out, r), E)
           /\ ParentsWritten(Append(out, r))
           /\ Recorded(Append(out, r), IdOfChild(E))
  <1> DEFINE k == Len(out) + 1
             out2 == Append(out, r)
  <1>1. /\ DOMAIN out2 = DOMAIN out \cup {k}
        /\ \A n \in DOMAIN out : out2[n] = out[n]
        /\ out2[k] = r
    BY OneMoreRecord
  <1>2. \A n \in DOMAIN out : n \in 1 .. k - 1
    OBVIOUS
  <1>3. \A n \in DOMAIN out : \A m \in 1 .. n - 1 : m \in DOMAIN out
    OBVIOUS
  <1> HIDE DEF out2, k
  <1>4. \A x : Recorded(out, x) => Recorded(out2, x)
    BY <1>1, Zenon DEF Recorded
  <1>5. StackRecorded(out2, E)
    BY <1>4, Zenon DEF StackRecorded
  <1>6. Recorded(out2, IdOfChild(E))
    BY <1>1, Zenon DEF Recorded, WrittenIn
  <1>7. ASSUME r.path # <<>>
        PROVE  \E m \in 1 .. k - 1 : out2[m].id = r.parent
    <2>1. PICK t \in 1 .. Len(E) : t = Len(E)
      OBVIOUS
    <2>2. Len(E[t].path) = t - 1
      BY Zenon DEF Nested
    <2>3. r.path = E[t].path /\ r.parent = id(E[t])
      BY <2>1 DEF WrittenIn, back
    <2>4. E[t].path \in Seq(Name)
      <3>1. E[t].path \in Path
        BY DirInfoFields
      <3> QED BY <3>1 DEF Path
    <2>5. t \in 2 .. Len(E)
      BY <1>7, <2>1, <2>2, <2>3, <2>4
    <2>6. PICK n \in DOMAIN out : out[n].id = r.parent
      BY <2>3, <2>5, Zenon DEF StackRecorded, Recorded
    <2> QED BY <1>1, <1>2, <2>6, Zenon
  <1>8. ASSUME NEW n \in DOMAIN out2, out2[n].path # <<>>
        PROVE  \E m \in 1 .. n - 1 : out2[m].id = out2[n].parent
    <2>1. CASE n \in DOMAIN out
      <3>1. PICK m \in 1 .. n - 1 : out[m].id = out[n].parent
        BY <1>1, <1>8, <2>1, Zenon DEF ParentsWritten
      <3> QED BY <1>1, <1>3, <2>1, <3>1, Zenon
    <2>2. CASE n = k
      BY <1>1, <1>7, <1>8, <2>2, Zenon
    <2> QED BY <1>1, <2>1, <2>2, Zenon
  <1> QED BY <1>5, <1>6, <1>8, Zenon DEF ParentsWritten, out2

LEMMA WriteFileRecorded ==
    ASSUME Faults = FALSE, ResultsTyped, NEW E \in Seq(DirInfos), Len(E) > 0, Nested(E),
           StackRecorded(Out, E), ParentsWritten(Out), NEW ctx, NEW f, writeFile(ctx, E, f)
    PROVE  /\ StackRecorded(Out', E)
           /\ ParentsWritten(Out')
           /\ Recorded(Out', IdOfChild(E))
  <1>1. PICK S : Out \in Seq(S)
    BY DEF ResultsTyped
  <1>2. PICK r : Out' = Append(Out, r) /\ WrittenIn(r, E)
    BY WriteFileWritten
  <1>3. /\ StackRecorded(Append(Out, r), E)
        /\ ParentsWritten(Append(Out, r))
        /\ Recorded(Append(Out, r), IdOfChild(E))
    BY <1>1, <1>2, WriteRecorded
  <1> QED BY <1>2, <1>3, Zenon

\* filterVol in the first walk: the volume is written in the root, and then entered.
LEMMA FilterVolStack ==
    ASSUME TypeInv, ~InUnallocated, FilterVol
    PROVE  \E E \in Seq(DirInfos), v \in Name :
               /\ Len(E) = 1 /\ E[1].path = <<>> /\ E[1].count > 0
               /\ \E ctx, f : writeFile(ctx, E, f)
               /\ Pushed(E, Dirs', <<v>>)
  <1> DEFINE root == SubSeq(Dirs, 1, 1)
             D    == setCurDir(root, <<>>)
             u    == PartName(img.vols[vol + 1])
  <1>1. /\ vol < Len(img.vols) /\ Dirs' = Append(D, newChild(back(D), <<u>>))
        /\ \E ctx, f : writeFile(ctx, D, f)
    BY Zenon DEF FilterVol
  <1>2. PICK v \in Name : v = u
    <2>1. img \in Images /\ vol \in Nat
      BY DEF TypeInv, ControlTyped
    <2>2. vol + 1 \in 1 .. Len(img.vols)
      BY <1>1, <2>1, ImageFacts
    <2>3. u \in Name
      BY <2>1, <2>2, ImageFacts
    <2> QED BY <2>3, Zenon
  <1> HIDE DEF u
  <1>3. /\ root \in Seq(DirInfos) /\ Len(root) = 1 /\ root[1].path = <<>>
        /\ DistinctPaths(root)
    BY RootStack
  <1> HIDE DEF root
  <1>4. /\ D \in Seq(DirInfos) /\ Len(D) = 1 /\ D[1].path = <<>> /\ D[1].count > 0
        /\ DistinctPaths(D)
    <2>1. D \in Seq(DirInfos) /\ Len(D) = 1 /\ D[1].path = <<>> /\ DistinctPaths(D)
      BY <1>3, RootCounted
    <2>2. PICK p \in Path : p = <<>>
      <3>1. <<>> \in Path
        BY DEF Path
      <3> QED BY <3>1, Zenon
    <2>3. Len(root) > 0
      BY <1>3
    <2>4. setCurDir(root, p)[Len(setCurDir(root, p))].count > 0
      BY <1>3, <2>3, SetCurDirTyped, Zenon
    <2>5. D[Len(D)].count > 0
      BY <2>2, <2>4, Zenon
    <2> QED BY <2>1, <2>5
  <1>5. PICK E \in Seq(DirInfos) : E = D
    BY <1>4, Zenon
  <1> HIDE DEF D
  <1>6. Pushed(E, Dirs', <<v>>)
    <2>1. Pushed(E, Append(E, newChild(back(E), <<v>>)), <<v>>)
      BY <1>4, <1>5, VolumeStack
    <2> QED BY <1>1, <1>2, <1>5, <2>1
  <1> QED BY <1>1, <1>4, <1>5, <1>6, Zenon

LEMMA FilterVolRecorded ==
    ASSUME Faults = FALSE, WalkInv, PathInv, RecordedInv, ~InUnallocated, FilterVol
    PROVE  StackRecorded(Out', Dirs') /\ ParentsWritten(Out')
  <1>1. TypeInv /\ ParentsWritten(Out)
    BY DEF WalkInv, RecordedInv
  <1>2. PICK E \in Seq(DirInfos), v \in Name :
            /\ Len(E) = 1 /\ E[1].path = <<>> /\ E[1].count > 0
            /\ \E ctx, f : writeFile(ctx, E, f)
            /\ Pushed(E, Dirs', <<v>>)
    BY <1>1, FilterVolStack
  <1>3. Nested(E) /\ StackRecorded(Out, E)
    BY <1>2, RootNested DEF StackRecorded
  <1> Len(E) > 0 /\ E[Len(E)].count > 0
    BY <1>2
  <1>4. StackRecorded(Out', E) /\ ParentsWritten(Out') /\ Recorded(Out', IdOfChild(E))
    <2>1. PICK ctx, f : writeFile(ctx, E, f)
      BY <1>2
    <2> QED BY <1>1, <1>2, <1>3, <2>1, WriteFileRecorded DEF TypeInv
  <1>5. StackRecorded(Out', Dirs')
    BY <1>2, <1>4, PushRecorded
  <1> QED BY <1>4, <1>5

LEMMA EnterRecorded ==
    ASSUME WalkInv, PathInv, RecordedInv, ~InUnallocated, pc = "fs", NumFiles < MaxEntries,
           NEW path \in NextPaths, NEW E \in Seq(DirInfos), E = setCurDir(Dirs, VolName \o path)
    PROVE  StackRecorded(Out, E)
  <1>1. /\ TypeInv /\ FirstWalkHolds /\ Nested(Dirs) /\ AtCurrent
        /\ NextRecorded /\ StackRecorded(Out, Dirs)
    BY DEF WalkInv, FirstWalkInv, PathInv, StackNamed, RecordedInv
  <1>2. PICK p \in Path : p = VolName \o path
    <2>1. path \in Path
      BY <1>1, NextPathsTyped
    <2>2. VolName \o path \in Path
      BY <1>1, <2>1 DEF TypeInv, ControlTyped, Path
    <2> QED BY <2>2, Zenon
  <1>3. Dirs \in Seq(DirInfos) /\ Len(Dirs) > 0 /\ DistinctPaths(Dirs)
    BY <1>1 DEF TypeInv, TreeTyped
  <1>4. ASSUME NEW i \in 1 .. Len(Dirs), Uncovered(Dirs, E, i)
        PROVE  StackRecorded(Out, E)
    BY <1>1, <1>3, <1>4, UncoverRecorded
  <1>5. ASSUME \A i \in 1 .. Len(Dirs) : Dirs[i].path # p,
               NEW F \in Seq(DirInfos), Pushed(Dirs, F, p), Uncovered(F, E, Len(F))
        PROVE  StackRecorded(Out, E)
    <2>1. subdir # NoEntry
      BY <1>1, <1>2, <1>3, <1>5, OnlyAnnounced
    <2>2. Recorded(Out, IdOfChild(Dirs))
      BY <1>1, <2>1 DEF NextRecorded
    <2>3. Dirs[Len(Dirs)].count > 0
      BY <1>1, <1>2, <1>5, Enterable
    <2>4. StackRecorded(Out, F)
      BY <1>1, <1>3, <1>5, <2>2, <2>3, PushRecorded
    <2>5. Len(F) \in 1 .. Len(F)
      BY <1>3, <1>5 DEF Pushed
    <2> QED BY <1>5, <2>4, <2>5, UncoverRecorded
  <1>6. \/ \E i \in 1 .. Len(Dirs) : Uncovered(Dirs, E, i)
        \/ /\ \A i \in 1 .. Len(Dirs) : Dirs[i].path # p
           /\ \E F \in Seq(DirInfos) : Pushed(Dirs, F, p) /\ Uncovered(F, E, Len(F))
    <2>1. E = setCurDir(Dirs, p)
      BY <1>2
    <2>2. \/ \E i \in 1 .. Len(Dirs) : Dirs[i].path = p /\ Uncovered(Dirs, setCurDir(Dirs, p), i)
          \/ /\ \A i \in 1 .. Len(Dirs) : Dirs[i].path # p
             /\ \E F \in Seq(DirInfos) : /\ Pushed(Dirs, F, p)
                                         /\ Uncovered(F, setCurDir(Dirs, p), Len(F))
      BY <1>3, SetCurDirCases
    <2> QED BY <2>1, <2>2, Zenon
  <1> QED BY <1>4, <1>5, <1>6, Zenon

LEMMA ProcessFileRecorded ==
    ASSUME Faults = FALSE, WalkInv, PathInv, RecordedInv, ~InUnallocated, ProcessFile
    PROVE  NextRecorded' /\ StackRecorded(Out', Dirs') /\ ParentsWritten(Out')
  <1>1. TypeInv /\ FirstWalkHolds /\ ParentsWritten(Out)
    BY DEF WalkInv, FirstWalkInv, RecordedInv
  <1>2. PICK f \in Entries, path \in NextPaths :
            processFile(Dirs, Context(Fs, <<FSBeg, FSEnd>>, AllocatedRuns), path, f)
    BY Zenon DEF ProcessFile
  <1>3. pc = "fs" /\ NumFiles < MaxEntries
    BY DEF ProcessFile
  <1>4. PICK p \in Path : p = VolName \o path
    <2>1. path \in Path
      BY <1>1, NextPathsTyped
    <2>2. VolName \o path \in Path
      BY <1>1, <2>1 DEF TypeInv, ControlTyped, Path
    <2> QED BY <2>2, Zenon
  <1>5. Dirs \in Seq(DirInfos) /\ Len(Dirs) > 0 /\ DistinctPaths(Dirs)
    BY <1>1 DEF TypeInv, TreeTyped
  <1>6. PICK E \in Seq(DirInfos) : E = setCurDir(Dirs, p)
    BY <1>4, <1>5, SetCurDirTyped
  <1>7. Dirs' = E /\ \E ctx : writeFile(ctx, E, f)
    BY <1>2, <1>4, <1>6, Zenon DEF processFile
  <1>8. Len(E) > 0
    BY <1>4, <1>5, <1>6, SetCurDirTyped
  <1>9. Nested(E) /\ StackRecorded(Out, E)
    BY <1>3, <1>4, <1>6, EnterPaths, EnterRecorded
  <1>10. StackRecorded(Out', E) /\ ParentsWritten(Out') /\ Recorded(Out', IdOfChild(E))
    <2>1. PICK ctx : writeFile(ctx, E, f)
      BY <1>7
    <2> QED BY <1>1, <1>8, <1>9, <2>1, WriteFileRecorded DEF TypeInv
  <1> QED BY <1>7, <1>10 DEF NextRecorded

LEMMA NextRecordedInv ==
    ASSUME Faults = FALSE, WalkInv, PathInv, RecordedInv, [Next]_vars
    PROVE  RecordedInv'
  <1> SUFFICES ASSUME ~InUnallocated'
               PROVE  NextRecorded' /\ StackRecorded(Out', Dirs') /\ ParentsWritten(Out')
    BY DEF RecordedInv
  <1>1. ASSUME FilterVol
        PROVE  NextRecorded' /\ StackRecorded(Out', Dirs') /\ ParentsWritten(Out')
    <2>1. ~InUnallocated /\ pc' = "vol"
      BY <1>1 DEF FilterVol
    <2>2. StackRecorded(Out', Dirs') /\ ParentsWritten(Out')
      BY <1>1, <2>1, FilterVolRecorded
    <2> QED BY <2>1, <2>2 DEF NextRecorded
  <1>2. ASSUME FilterFs
        PROVE  NextRecorded' /\ StackRecorded(Out', Dirs') /\ ParentsWritten(Out')
    <2>1. ~InUnallocated /\ UNCHANGED <<Dirs, Out>> /\ subdir' = NoEntry
      BY <1>2 DEF FilterFs, tree
    <2> QED BY <2>1 DEF RecordedInv, NextRecorded
  <1>3. ASSUME ProcessFile
        PROVE  NextRecorded' /\ StackRecorded(Out', Dirs') /\ ParentsWritten(Out')
    <2>1. ~InUnallocated
      BY <1>3 DEF ProcessFile
    <2> QED BY <1>3, <2>1, ProcessFileRecorded
  <1>4. ASSUME OpenImage \/ NoFilesystem \/ WildPart \/ EndFs \/ WalkError \/ WalkFailed \/ FinishWalk
                   \/ OutputDiskMap \/ OutputInodeMap
        PROVE  NextRecorded' /\ StackRecorded(Out', Dirs') /\ ParentsWritten(Out')
    <2>1. UNCHANGED <<Dirs, Out, InUnallocated>> /\ pc' # "fs"
      BY <1>4 DEF OpenImage, Start, NoFilesystem, WildPart, EndFs, WalkError, WalkFailed, FinishWalk,
                  OutputDiskMap, OutputInodeMap, tree, results
    <2> QED BY <2>1 DEF RecordedInv, NextRecorded
  <1>5. ~(FilterFsUnallocated \/ StartUnallocated)
    BY DEF FilterFsUnallocated, StartUnallocated
  <1>6. ~(NextFragment \/ FragmentBlock \/ FragmentPiece \/ FragmentDone)
    BY NoFlushInFirstWalk
  <1>7. ASSUME UNCHANGED vars \/ Terminated
        PROVE  NextRecorded' /\ StackRecorded(Out', Dirs') /\ ParentsWritten(Out')
    <2>1. UNCHANGED vars
      BY <1>7 DEF Terminated
    <2>2. UNCHANGED <<pc, subdir, InUnallocated, Dirs, Out>>
      BY <2>1 DEF vars, walk, tree, results
    <2> QED BY <2>2 DEF RecordedInv, NextRecorded
  <1> QED BY <1>1, <1>2, <1>3, <1>4, <1>5, <1>6, <1>7 DEF Next

LEMMA InitRecorded == Init => RecordedInv
  <1> SUFFICES ASSUME Init
               PROVE  NextRecorded /\ StackRecorded(Out, Dirs) /\ ParentsWritten(Out)
    BY DEF RecordedInv
  <1>1. pc = "open" /\ Dirs = <<DummyRoot>> /\ Out = <<>>
    BY DEF Init
  <1>2. DOMAIN Out = {} /\ Len(Dirs) = 1
    BY <1>1
  <1>3. 2 .. Len(Dirs) = {}
    BY <1>2
  <1> QED BY <1>1, <1>2, <1>3 DEF NextRecorded, StackRecorded, ParentsWritten

LEMMA RecordedIsNamed ==
    ASSUME WalkInv, PathInv, RecordedInv, ~InUnallocated
    PROVE  ParentFirst /\ DirsAreRecords
  <1>1. /\ ParentsNamed(Out) /\ EntriesOnStack(Out, Dirs)
        /\ StackRecorded(Out, Dirs) /\ ParentsWritten(Out)
    BY DEF PathInv, StackNamed, RecordedInv
  <1>2. Len(Dirs) \in Nat /\ \E S : Out \in Seq(S)
    BY DEF WalkInv, TypeInv, TreeTyped, ResultsTyped
  <1>3. ASSUME NEW n \in DOMAIN Out, Out[n].path # <<>>
        PROVE  \E m \in 1 .. n - 1 : /\ Out[m].id = Out[n].parent
                                     /\ Out[n].path = Append(Out[m].path, Out[m].name)
    <2>1. PICK m \in 1 .. n - 1 : Out[m].id = Out[n].parent
      BY <1>1, <1>3, Zenon DEF ParentsWritten
    <2>2. m \in DOMAIN Out
      BY <1>2
    <2> QED BY <1>1, <2>1, <2>2, Zenon DEF ParentsNamed
  <1>4. ASSUME NEW i \in 2 .. Len(Dirs)
        PROVE  \E n \in DOMAIN Out : /\ Out[n].id = id(Dirs[i])
                                     /\ Dirs[i].path = Append(Out[n].path, Out[n].name)
    <2>1. i \in 1 .. Len(Dirs)
      BY <1>2
    <2> QED BY <1>1, <2>1, Zenon DEF StackRecorded, Recorded, EntriesOnStack
  <1> QED BY <1>3, <1>4, Zenon DEF ParentFirst, DirsAreRecords

LEMMA AlwaysRecorded ==
    ASSUME Faults = FALSE
    PROVE  Spec => [](~InUnallocated => ParentFirst /\ DirsAreRecords)
  <1>1. Init => RecordedInv
    BY InitRecorded
  <1>2. WalkInv /\ PathInv /\ RecordedInv /\ [Next]_vars => RecordedInv'
    BY NextRecordedInv
  <1>3. WalkInv /\ PathInv /\ RecordedInv => (~InUnallocated => ParentFirst /\ DirsAreRecords)
    BY RecordedIsNamed
  <1> QED BY <1>1, <1>2, <1>3, AlwaysWalk, PTL DEF Spec

\* Where writing does not fail, the entry of a directory is written before anything in it.
THEOREM ParentsComeFirst ==
    ASSUME Faults = FALSE
    PROVE  Spec => [](~InUnallocated => ParentFirst)
  BY AlwaysRecorded, PTL

\* Where writing does not fail, setCurDir puts nothing on the stack but what is recorded.
THEOREM DirsHaveRecords ==
    ASSUME Faults = FALSE
    PROVE  Spec => [](~InUnallocated => DirsAreRecords)
  BY AlwaysRecorded, PTL

-----------------------------------------------------------------------------
(***************************************************************************)
(* Without --unallocated there is no second walk.                          *)
(***************************************************************************)
LEMMA OneWalk ==
    ASSUME UCModes = {"none"}
    PROVE  Spec => []~InUnallocated
  <1>1. Init => ~InUnallocated
    BY DEF Init
  <1>2. TypeInv /\ ~InUnallocated /\ [Next]_vars => ~InUnallocated'
    <2> SUFFICES ASSUME TypeInv, ~InUnallocated, [Next]_vars
                 PROVE  ~InUnallocated'
      OBVIOUS
    <2>1. UCMode = "none"
      BY DEF TypeInv, ControlTyped
    <2>2. ~StartUnallocated
      BY <2>1 DEF StartUnallocated
    <2>3. UNCHANGED InUnallocated
      BY <2>2 DEF Next, vars, OpenImage, FilterVol, NoFilesystem, FilterFs, WildPart,
                  FilterFsUnallocated, ProcessFile, EndFs, WalkError, NextFragment, FragmentBlock,
                  FragmentPiece, FragmentDone, WalkFailed, FinishWalk, OutputDiskMap,
                  OutputInodeMap, Terminated
    <2> QED BY <2>3
  <1> QED BY <1>1, <1>2, AlwaysTyped, PTL DEF Spec

\* Without --unallocated, no two records have the same id, whatever fails.
THEOREM IdsDistinctWithoutUnallocated ==
    ASSUME UCModes = {"none"}
    PROVE  Spec => []UniqueIds
  <1>1. FirstWalkUniqueIds /\ ~InUnallocated => UniqueIds
    BY DEF FirstWalkUniqueIds
  <1> QED BY <1>1, FirstWalkIdsDistinct, OneWalk, PTL

\* Without --unallocated, paths and parents agree in all of the output.
THEOREM PathsAgreeWithoutUnallocated ==
    ASSUME UCModes = {"none"}
    PROVE  Spec => []ParentNamesPath
  BY ParentsNamePaths, OneWalk, PTL

\* Without --unallocated, and where writing does not fail, the output is a tree listed
\* parents first.
THEOREM TreeWithoutUnallocated ==
    ASSUME UCModes = {"none"}, Faults = FALSE
    PROVE  Spec => [](ParentFirst /\ DirsAreRecords)
  BY AlwaysRecorded, OneWalk, PTL
=============================================================================
