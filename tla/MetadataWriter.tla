--------------------------- MODULE MetadataWriter ---------------------------
(***************************************************************************)
(* The "dumpfs" command of fsrip: class MetadataWriter of walkers.cpp,     *)
(* driven by libtsk's walk of a disk image and by process() of fsrip.cpp.  *)
(*                                                                         *)
(* libtsk calls back filterVol for each volume, filterFs for the file      *)
(* system in it and processFile for each directory entry, depth first.     *)
(* With an unallocated mode set, a second walk of the volumes skips the    *)
(* files and reports the blocks that the first walk found no owner for.    *)
(* At the end the maps gathered on the way are written to two files.       *)
(*                                                                         *)
(* The program is single-threaded: an action is one callback (the whole of *)
(* it), or one turn of a loop that may emit records.  A record is what its *)
(* JSON line says, less the timestamps and the other fields copied through *)
(* from libtsk.                                                            *)
(***************************************************************************)
EXTENDS DirInfo, DataRuns

CONSTANTS
    Images,        \* the disk images
    Entries,       \* the directory entries libtsk may report
    UCModes,       \* the values of --unallocated
    MaxUcBlocks,   \* the values of --max-unallocated-block-size
    U64,           \* 2^64, the modulus of the program's arithmetic
    MaxEntries,    \* bound: the entries of the first walk
    Faults,        \* TRUE iff writing a record may throw
    NoFs,          \* a volume, or an image, without a file system
    NoMeta         \* an entry whose metadata is gone

\* The file systems libtsk opens: where they start, their block size, and the first and
\* the last block.
FsType == [offset : Nat, bs : Nat \ {0}, first : Nat, last : Nat]

VolumeType == [flag : {"alloc", "meta", "unused"}, table : Nat, slot : Nat,
               start : Nat, len : Nat, fs : {NoFs} \cup FsType]

ASSUME ImagesAssumption ==
    \A i \in Images : /\ i.size \in Nat
                      /\ i.sectorSize \in Nat \ {0}
                      /\ i.vols \in Seq(VolumeType)
                      /\ i.fs \in {NoFs} \cup FsType

\* The texts of the names and the type that the program makes up.
ASSUME TextsAssumption ==
    {"part", "meta-part", "unused", "run", "$Unallocated", "virt"} \subseteq STRING

\* What libtsk tells of an inode: a run is of blocks of the file system.
RunType == [addr : Nat, len : Nat, flags : {"none", "sparse", "filler"}]

AttrType == [id : Nat, inuse : BOOLEAN, res : BOOLEAN, nonres : BOOLEAN, comp : BOOLEAN,
             initsize : Nat, allocsize : Nat, skiplen : Nat, runs : Seq(RunType)]

MetaType == [addr : Nat, used : BOOLEAN, type : STRING, attrs : Seq(AttrType)]

ASSUME EntriesAssumption ==
    /\ NoMeta \notin MetaType
    /\ \A f \in Entries : f.name \in Name /\ f.meta \in {NoMeta} \cup MetaType

ASSUME WordAssumption == U64 \in Nat \ {0} /\ MaxUcBlocks \subseteq Nat

\* Count is 32 bits wide: the first walk meets fewer than 2^31 entries and volumes.
ASSUME MaxEntriesAssumption ==
    /\ MaxEntries \in Nat
    /\ \A i \in Images : MaxEntries + Len(i.vols) <= 2147483647

VARIABLES
    pc,            \* where the program is
    img,           \* the image, UCMode and MaxUnallocatedBlockSize: the arguments
    UCMode,
    MaxUnallocatedBlockSize,
    vol,           \* libtsk's walk: the volumes visited,
    cur,           \*   the directory of the last entry,
    subdir,        \*   that entry's path if it is a directory,
    erred,         \*   and whether it has met an error: what start() will return
    Part,          \* the member Part: "wild" while uninitialised, "null", "set"
    NumVols, VolName, InUnallocated,
    PartBeg, PartEnd, FSBeg, FSEnd,
    Fs,
    CurAllocated,  \* the key of AllocatedRuns that CurAllocatedItr points at
    Dirs, NumRootEntries,
    AllocatedRuns, \* FS index -> map of the disk (DataRuns)
    ReverseMap,    \* <<FS index, inode>> -> its directory entries and attributes
    NumFiles,
    Out,           \* the records written
    DummyAttrRun,  \* the run of the made-up file, left over from its last use
    start,         \* flushUnallocated: the end of the last allocated extent,
    nextFrag,      \*   and its iterator: where the segment it is at starts
    blk, blkEnd,   \* processUnallocatedFragment: its loop's cur and end
    maxBlocks,
    DiskMapFile, InodeMapFile

args      == <<img, UCMode, MaxUnallocatedBlockSize>>
walk      == <<vol, cur, subdir, erred>>
volume    == <<Part, NumVols, VolName, PartBeg, PartEnd>>
fileSys   == <<Fs, FSBeg, FSEnd, CurAllocated>>
tree      == <<Dirs, NumRootEntries>>
results   == <<AllocatedRuns, ReverseMap, NumFiles, Out>>
flush     == <<DummyAttrRun, start, nextFrag, blk, blkEnd, maxBlocks>>
mapFiles  == <<DiskMapFile, InodeMapFile>>
vars      == <<pc, args, walk, volume, InUnallocated, fileSys, tree, results, flush, mapFiles>>

NoLink  == <<>>
NoEntry == <<>>
EndIter == -1
NoLimit == U64 - 1       \* numeric_limits<uint64_t>::max()

-----------------------------------------------------------------------------
(***************************************************************************)
(* The inputs.                                                             *)
(***************************************************************************)

PlainName(text) == <<text, <<>>>>

Unallocated == PlainName("$Unallocated")

\* getPartName
PartName(v) ==
    CASE v.flag = "alloc"  -> <<"part", <<v.table, v.slot>>>>
      [] v.flag = "meta"   -> <<"meta-part", <<v.start>>>>
      [] v.flag = "unused" -> <<"unused", <<v.start>>>>

\* DummyFile's only attribute, over run.
DummyAttr(run, blockSize) ==
    [id |-> 0, inuse |-> TRUE, res |-> FALSE, nonres |-> TRUE, comp |-> FALSE,
     initsize |-> run.len * blockSize, allocsize |-> run.len * blockSize, skiplen |-> 0,
     runs |-> <<run>>]

\* DummyFile standing for volume v, the k-th.
VolumeEntry(v, k, sectorSize) ==
    [name |-> PartName(v), type |-> "virt", alloc |-> FALSE,
     meta |-> [addr |-> k, used |-> TRUE, type |-> "virt",
               attrs |-> <<DummyAttr([addr |-> v.start, len |-> v.len, flags |-> "none"],
                                     sectorSize)>>]]

\* The image made to look like a file system, for the volume entries.
ImageAsFs == [offset |-> 0, bs |-> img.sectorSize, first |-> 0,
              last |-> img.size \div img.sectorSize - 1]

\* DummyFile standing for the folder of the unallocated entries; its metadata is UNUSED.
UnallocatedFolder == [name |-> Unallocated, type |-> "dir", alloc |-> TRUE, meta |-> NoMeta]

\* DummyFile as prepUnallocatedFile sets it up for a run of blocks.
UnallocatedEntry(run, blockSize) ==
    [name |-> <<"run", <<run.addr, run.len>>>>, type |-> "virt", alloc |-> TRUE,
     meta |-> [addr |-> NoLimit - run.addr, used |-> TRUE, type |-> "virt",
               attrs |-> <<DummyAttr(run, blockSize)>>]]

-----------------------------------------------------------------------------
(***************************************************************************)
(* Writing a record.  ctx is the part of the state that filterVol changes  *)
(* before it writes: the FS index for inodes (vol) and for the "fs" object *)
(* (fsIndex), the name of the volume, the file system, its byte range, the *)
(* map at CurAllocatedItr (key) and AllocatedRuns.                         *)
(***************************************************************************)
typeMatch(n, m) == n = m \/ n = "undef"

\* Whether the metadata is written, and the inode linked.
HasMeta(f) ==
    /\ f.meta # NoMeta
    /\ f.meta.used
    /\ f.alloc \/ typeMatch(f.type, f.meta.type)

\* The loop of writeMetaRecord passes over attributes that are not in use.
InUse(f) ==
    LET kept[n \in 0 .. Len(f.meta.attrs)] ==
            IF n = 0 THEN <<>>
            ELSE IF f.meta.attrs[n].inuse THEN Append(kept[n - 1], f.meta.attrs[n])
            ELSE kept[n - 1]
    IN  IF HasMeta(f) THEN kept[Len(f.meta.attrs)] ELSE <<>>

Record(ctx, dir, f) ==
    LET fileDirEnt == newChild(dir, <<>>)
    IN  [id       |-> id(fileDirEnt),
         parent   |-> id(dir),
         children |-> lastChild(fileDirEnt),
         fs       |-> ctx.fs,
         volIndex |-> ctx.fsIndex,
         path     |-> dir.path,
         name     |-> f.name,
         attrs    |-> InUse(f),
         link     |-> IF HasMeta(f) THEN <<ctx.vol, f.meta.addr>> ELSE NoLink]

NoInode == [DirentIDs |-> <<>>, Attrs |-> [i \in {} |-> NewAttrInfo]]

inodeAt(rev, key) == IF key \in DOMAIN rev THEN rev[key] ELSE NoInode

\* Mutant of RecordMeta: a further hard link replaces the ones before it.
RecordMetaLastLink(ctx, entryId, f, n) ==
    LET key   == <<ctx.vol, f.meta.addr>>
        inode == inodeAt(ReverseMap, key)
        w     == writeAttrs(ctx.fs, ctx.range, f.meta.addr, SubSeq(InUse(f), 1, n),
                            [attrs |-> inode.Attrs, map |-> ctx.maps[ctx.key]])
    IN  /\ AllocatedRuns' = [ctx.maps EXCEPT ![ctx.key] = w.map]
        /\ ReverseMap' = [x \in DOMAIN ReverseMap \cup {key} |->
                             IF x = key THEN [DirentIDs |-> <<entryId>>, Attrs |-> w.attrs]
                             ELSE ReverseMap[x]]

\* The effect on the maps of writing the metadata of f, as far as its first n attributes.
RecordMeta(ctx, entryId, f, n) ==
    LET key   == <<ctx.vol, f.meta.addr>>
        inode == inodeAt(ReverseMap, key)
        w     == writeAttrs(ctx.fs, ctx.range, f.meta.addr, SubSeq(InUse(f), 1, n),
                            [attrs |-> inode.Attrs, map |-> ctx.maps[ctx.key]])
    IN  /\ AllocatedRuns' = [ctx.maps EXCEPT ![ctx.key] = w.map]
        /\ ReverseMap' = [x \in DOMAIN ReverseMap \cup {key} |->
                             IF x = key THEN [DirentIDs |-> Append(inode.DirentIDs, entryId),
                                              Attrs     |-> w.attrs]
                             ELSE ReverseMap[x]]

\* Mutant of writeFile: the inode is linked before the types are compared.
writeFileUnmatched(ctx, dirs, f) ==
    LET rec == Record(ctx, back(dirs), f)
    IN  /\ NumFiles' = NumFiles + 1
        /\ Out' = Append(Out, rec)
        /\ \/ f.meta # NoMeta /\ RecordMeta(ctx, rec.id, f, Len(InUse(f)))
           \/ f.meta = NoMeta /\ AllocatedRuns' = ctx.maps /\ UNCHANGED ReverseMap

\* writeFile and the try block around it, for an entry f in the directory on top of dirs.
writeFile(ctx, dirs, f) ==
    LET rec == Record(ctx, back(dirs), f)
    IN  /\ NumFiles' = NumFiles + 1
        /\ \/ /\ Out' = Append(Out, rec)
              /\ \/ HasMeta(f) /\ RecordMeta(ctx, rec.id, f, Len(InUse(f)))
                 \/ ~HasMeta(f) /\ AllocatedRuns' = ctx.maps /\ UNCHANGED ReverseMap
           \/ /\ Faults     \* an exception, caught and logged, leaves what was done
              /\ Out' = Out
              /\ \/ AllocatedRuns' = ctx.maps /\ UNCHANGED ReverseMap
                 \/ /\ HasMeta(f)
                    /\ \E n \in 0 .. Len(InUse(f)) : RecordMeta(ctx, rec.id, f, n)

atFSRootLevel(name, p) == name # <<>> /\ p = name

\* Mutant of RootEntries: the count is not kept for the second walk.
RootEntriesLost(k, name, p, dirs) == NumRootEntries

\* setCurDir's record of how many entries the root directory of the volume has.
RootEntries(k, name, p, dirs) ==
    IF atFSRootLevel(name, p)
    THEN [NumRootEntries EXCEPT ![k] = back(dirs).count]
    ELSE NumRootEntries

\* processFile inside a file system, on entry f of directory path.
processFile(dirs, ctx, path, f) ==
    LET p  == VolName \o path
        ds == setCurDir(dirs, p)
    IN  /\ Dirs' = ds
        /\ NumRootEntries' = RootEntries(NumVols, VolName, p, ds)
        /\ writeFile(ctx, ds, f)

\* AllocatedRuns once setFsInfo has been there.
WithMap(k) == [x \in DOMAIN AllocatedRuns \cup {k} |->
                  IF x \in DOMAIN AllocatedRuns THEN AllocatedRuns[x] ELSE NoRuns]

Context(fs, range, maps) ==
    [vol |-> NumVols, fsIndex |-> NumVols, fs |-> fs, range |-> range, key |-> NumVols,
     maps |-> maps]

-----------------------------------------------------------------------------
(***************************************************************************)
(* Init: the command line and the image are whatever they are.             *)
(***************************************************************************)
Init ==
    /\ pc = "open"
    /\ img \in Images
    /\ UCMode \in UCModes
    /\ MaxUnallocatedBlockSize \in IF UCMode = "fragment" THEN MaxUcBlocks ELSE {NoLimit}
    /\ vol = 0 /\ cur = <<>> /\ subdir = NoEntry /\ erred = FALSE
    /\ Part \in {"null", "wild"}         \* the constructor leaves it as it is
    /\ NumVols = 0 /\ VolName = <<>> /\ InUnallocated = FALSE
    /\ PartBeg = 0 /\ PartEnd = 0 /\ FSBeg = 0 /\ FSEnd = 0
    /\ Fs = NoFs /\ CurAllocated = 0
    /\ Dirs = <<DummyRoot>>
    /\ NumRootEntries = [k \in 0 .. Len(img.vols) |-> 0]
    /\ AllocatedRuns = [k \in {} |-> NoRuns]
    /\ ReverseMap = [x \in {} |-> NoInode]
    /\ NumFiles = 0
    /\ Out = <<>>
    /\ DummyAttrRun = [addr |-> 0, len |-> 0, flags |-> "none"]
    /\ start = 0 /\ nextFrag = EndIter /\ blk = 0 /\ blkEnd = 0 /\ maxBlocks = 0
    /\ DiskMapFile = {} /\ InodeMapFile = [x \in {} |-> NoInode]

\* Mutant of Start: the size, in bytes, is taken for a number of sectors.
StartInSectors ==
    /\ pc' = "walk"
    /\ vol' = 0 /\ erred' = FALSE
    /\ NumVols' = 0
    /\ PartBeg' = 0 /\ PartEnd' = img.size * img.sectorSize

\* MetadataWriter::start, as far as findFilesInImg, whose callbacks follow.
Start ==
    /\ pc' = "walk"
    /\ vol' = 0 /\ erred' = FALSE
    /\ NumVols' = 0
    /\ PartBeg' = 0 /\ PartEnd' = img.size        \* resetPartitionRange

OpenImage ==
    /\ pc = "open"
    /\ \/ Start
          /\ UNCHANGED <<cur, subdir, Part, VolName>>
       \/ pc' = "failed" /\ UNCHANGED <<walk, volume>>
    /\ UNCHANGED <<args, InUnallocated, fileSys, tree, results, flush, mapFiles>>

(***************************************************************************)
(* filterVol.  The dummy record of a volume is written once, in the first  *)
(* walk, with the whole image as its file system.                          *)
(***************************************************************************)
FilterVol ==
    /\ pc = "walk" /\ vol < Len(img.vols)
    /\ LET v     == img.vols[vol + 1]
           k     == NumVols + 1
           sects == img.sectorSize
           root  == SubSeq(Dirs, 1, 1)             \* Dirs.resize(1)
           ds    == IF InUnallocated THEN root ELSE setCurDir(root, <<>>)
           ctx   == [vol |-> k, fsIndex |-> 0, fs |-> ImageAsFs, range |-> <<0, img.size>>,
                     key |-> 0, maps |-> WithMap(0)]
       IN  /\ vol' = vol + 1
           /\ Part' = "set"
           /\ NumVols' = k
           /\ VolName' = <<PartName(v)>>
           /\ Dirs' = Append(ds, newChild(back(ds), VolName'))
           /\ PartBeg' = AtMost((v.start * sects) % U64, img.size)
           /\ PartEnd' = AtMost((v.start * v.len * sects) % U64, img.size)
           /\ \/ /\ InUnallocated
                 /\ UNCHANGED <<fileSys, DummyAttrRun, results>>
              \/ /\ ~InUnallocated
                 /\ Fs' = ImageAsFs /\ CurAllocated' = 0
                 /\ FSBeg' = 0 /\ FSEnd' = img.size
                 /\ DummyAttrRun' = [addr |-> v.start, len |-> v.len, flags |-> "none"]
                 /\ writeFile(ctx, ds, VolumeEntry(v, k, sects))
    /\ pc' = "vol"
    /\ UNCHANGED <<args, cur, subdir, erred, InUnallocated, NumRootEntries,
                   start, nextFrag, blk, blkEnd, maxBlocks, mapFiles>>

\* The file system libtsk finds in the volume, or in an image without volumes.
FsHere == IF img.vols = <<>> THEN img.fs ELSE img.vols[vol].fs

AtFs == pc = "vol" \/ (pc = "walk" /\ img.vols = <<>> /\ vol = 0)

NoFilesystem ==
    /\ AtFs /\ FsHere = NoFs
    /\ pc' = "walk"
    /\ vol' = IF img.vols = <<>> THEN 1 ELSE vol
    /\ UNCHANGED <<args, cur, subdir, erred, volume, InUnallocated, fileSys, tree, results, flush,
                   mapFiles>>

(***************************************************************************)
(* libtsk meets an error: with the volumes, in opening the file system or  *)
(* among its files.  It makes a note of it, for start() to return, and may *)
(* go on to the next volume.                                               *)
(***************************************************************************)
WalkError ==
    /\ pc \in {"walk", "vol", "fs"}
    /\ erred' = TRUE
    /\ pc' = "walk"
    /\ vol' = IF img.vols = <<>> THEN 1 ELSE vol
    /\ UNCHANGED <<args, cur, subdir, volume, InUnallocated, fileSys, tree, results, flush, mapFiles>>

(***************************************************************************)
(* filterFs.  Its first statement follows Part: with an uninitialised one  *)
(* the program may crash, or read a value that nothing uses.               *)
(***************************************************************************)
setFsInfo ==
    /\ vol' = IF img.vols = <<>> THEN 1 ELSE vol
    /\ Fs' = FsHere /\ FSBeg' = PartBeg /\ FSEnd' = PartEnd
    /\ CurAllocated' = NumVols

FilterFs ==
    /\ AtFs /\ FsHere # NoFs /\ ~InUnallocated
    /\ setFsInfo
    /\ AllocatedRuns' = WithMap(NumVols)
    /\ cur' = <<>> /\ subdir' = NoEntry
    /\ pc' = "fs"
    /\ UNCHANGED <<args, erred, volume, InUnallocated, tree, ReverseMap, NumFiles, Out, flush,
                   mapFiles>>

WildPart ==
    /\ AtFs /\ FsHere # NoFs /\ ~InUnallocated /\ Part = "wild"
    /\ pc' = "crashed"
    /\ UNCHANGED <<args, walk, volume, InUnallocated, fileSys, tree, results, flush, mapFiles>>

Lowest(S) == IF S = {} THEN EndIter ELSE CHOOSE x \in S : \A y \in S : x <= y

\* The second walk: flushUnallocated as far as the loop over the allocated extents.
FilterFsUnallocated ==
    /\ AtFs /\ FsHere # NoFs /\ InUnallocated
    /\ setFsInfo
    /\ LET ds  == [Dirs EXCEPT ![Len(Dirs)].count = @ + NumRootEntries[NumVols]]
           ctx == Context(FsHere, <<PartBeg, PartEnd>>, WithMap(NumVols))
       IN  processFile(ds, ctx, <<>>, UnallocatedFolder)
    /\ start' = FsHere.first * FsHere.bs + FsHere.offset
    /\ nextFrag' = Lowest(SegmentStarts(AllocatedRuns'[NumVols]))
    /\ pc' = "flush"
    /\ UNCHANGED <<args, cur, subdir, erred, volume, InUnallocated, DummyAttrRun, blk, blkEnd,
                   maxBlocks, mapFiles>>

(***************************************************************************)
(* processFile on an entry that the walk of a file system comes to.  The   *)
(* walk is depth first: after an entry comes one of the same directory, of *)
(* a directory above it or, if it is itself a directory, inside of it.     *)
(***************************************************************************)
NextPaths == {SubSeq(cur, 1, n) : n \in 0 .. Len(cur)}
                 \cup (IF subdir = NoEntry THEN {} ELSE {subdir})

ProcessFile ==
    /\ pc = "fs" /\ NumFiles < MaxEntries
    /\ \E f \in Entries, path \in NextPaths :
          /\ processFile(Dirs, Context(Fs, <<FSBeg, FSEnd>>, AllocatedRuns), path, f)
          /\ cur' = path
          /\ subdir' = IF f.type = "dir" THEN Append(path, f.name) ELSE NoEntry
    /\ UNCHANGED <<pc, args, vol, erred, volume, InUnallocated, fileSys, flush, mapFiles>>

EndFs ==
    /\ pc = "fs"
    /\ pc' = "walk"
    /\ UNCHANGED <<args, walk, volume, InUnallocated, fileSys, tree, results, flush, mapFiles>>

-----------------------------------------------------------------------------
(***************************************************************************)
(* flushUnallocated: the gap from start to the extent that the iterator is *)
(* at, or to the end of the file system behind the last one.               *)
(***************************************************************************)
BlockOf(byte) == ((byte - Fs.offset) % U64) \div Fs.bs

\* Mutants of NextExtent: the gap begins where the extent does; the round after the last
\* extent is missing; the iterator stays where it is.
NextExtentFromLower ==
    IF nextFrag = EndIter
    THEN pc' = "walk" /\ UNCHANGED <<start, nextFrag>>
    ELSE /\ pc' = "flush"
         /\ start' = nextFrag
         /\ nextFrag' = Lowest({b \in SegmentStarts(AllocatedRuns[NumVols]) : b > nextFrag})

NextExtentNoLastRound ==
    LET map  == AllocatedRuns[NumVols]
        next == Lowest({b \in SegmentStarts(map) : b > nextFrag})
    IN  IF nextFrag = EndIter \/ next = EndIter
        THEN pc' = "walk" /\ UNCHANGED <<start, nextFrag>>
        ELSE pc' = "flush" /\ start' = SegmentEnd(map, nextFrag) /\ nextFrag' = next

NextExtentStuck ==
    IF nextFrag = EndIter
    THEN pc' = "walk" /\ UNCHANGED <<start, nextFrag>>
    ELSE /\ pc' = "flush"
         /\ start' = SegmentEnd(AllocatedRuns[NumVols], nextFrag)
         /\ UNCHANGED nextFrag

NextExtent ==
    IF nextFrag = EndIter
    THEN pc' = "walk" /\ UNCHANGED <<start, nextFrag>>
    ELSE LET map == AllocatedRuns[NumVols]
         IN  /\ pc' = "flush"
             /\ start' = SegmentEnd(map, nextFrag)
             /\ nextFrag' = Lowest({b \in SegmentStarts(map) : b > nextFrag})

NextFragment ==
    /\ pc = "flush"
    /\ LET first == BlockOf(start)
           end   == IF nextFrag = EndIter THEN Fs.last ELSE BlockOf(nextFrag)
       IN  \/ /\ first < end                     \* makeUnallocatedDataRun
              /\ DummyAttrRun' = [addr |-> first, len |-> end - first, flags |-> "none"]
              /\ blk' = first /\ blkEnd' = end
              /\ maxBlocks' = IF MaxUnallocatedBlockSize = NoLimit THEN end - first
                              ELSE MaxUnallocatedBlockSize
              /\ pc' = "fragment"
              /\ UNCHANGED <<start, nextFrag>>
           \/ /\ first >= end
              /\ NextExtent
              /\ UNCHANGED <<DummyAttrRun, blk, blkEnd, maxBlocks>>
    /\ UNCHANGED <<args, walk, volume, InUnallocated, fileSys, tree, results, mapFiles>>

\* The record of an unallocated run, which becomes an inode with data of its own.
emitUnallocated(run) ==
    /\ DummyAttrRun' = run
    /\ processFile(Dirs, Context(Fs, <<FSBeg, FSEnd>>, AllocatedRuns), <<Unallocated>>,
                   UnallocatedEntry(run, Fs.bs))

FragmentBlock ==
    /\ pc = "fragment" /\ UCMode = "block" /\ blk # blkEnd
    /\ emitUnallocated([addr |-> blk, len |-> 1, flags |-> "none"])
    /\ blk' = blk + 1
    /\ UNCHANGED <<pc, args, walk, volume, InUnallocated, fileSys, start, nextFrag, blkEnd,
                   maxBlocks, mapFiles>>

\* Mutant of PieceUpTo: the piece takes all blocks that are left.
PieceOfAll(next) == [addr |-> blk, len |-> blkEnd - blk, flags |-> "none"]

\* Mutant of PieceUpTo: the piece runs on into the block that the next one begins with.
PieceBeyond(next) ==
    LET end == AtMost(next + 1, blkEnd)
    IN  IF blk < end THEN [addr |-> blk, len |-> end - blk, flags |-> "none"]
        ELSE DummyAttrRun

(***************************************************************************)
(* The run of a piece that ends before block next.  The loop ignores       *)
(* whether makeUnallocatedDataRun set one: if not, the last goes out again.*)
(***************************************************************************)
PieceUpTo(next) ==
    LET end == AtMost(next, blkEnd)
    IN  IF blk < end THEN [addr |-> blk, len |-> end - blk, flags |-> "none"]
        ELSE DummyAttrRun

\* The pieces of at most maxBlocks blocks.
FragmentPiece ==
    /\ pc = "fragment" /\ UCMode = "fragment" /\ blk < blkEnd
    /\ LET next == (blk + maxBlocks) % U64
       IN  emitUnallocated(PieceUpTo(next)) /\ blk' = next
    /\ UNCHANGED <<pc, args, walk, volume, InUnallocated, fileSys, start, nextFrag, blkEnd,
                   maxBlocks, mapFiles>>

FragmentDone ==
    /\ pc = "fragment"
    /\ IF UCMode = "block" THEN blk = blkEnd ELSE blk >= blkEnd
    /\ NextExtent
    /\ UNCHANGED <<args, walk, volume, InUnallocated, fileSys, tree, results, DummyAttrRun, blk,
                   blkEnd, maxBlocks, mapFiles>>

-----------------------------------------------------------------------------
(***************************************************************************)
(* process() of fsrip.cpp, once libtsk's walk has returned.                *)
(***************************************************************************)
\* libtsk has come to the end, or gives up.
WalkOver ==
    /\ pc = "walk"
    /\ IF img.vols = <<>> THEN vol = 1 ELSE vol = Len(img.vols) \/ erred

\* start() returned non-zero: no second walk and no maps.
WalkFailed ==
    /\ WalkOver /\ ~InUnallocated /\ erred
    /\ pc' = "failed"
    /\ UNCHANGED <<args, walk, volume, InUnallocated, fileSys, tree, results, flush, mapFiles>>

StartUnallocated ==
    /\ WalkOver /\ ~InUnallocated /\ ~erred /\ UCMode # "none"
    /\ InUnallocated' = TRUE
    /\ Start
    /\ UNCHANGED <<args, cur, subdir, Part, VolName, fileSys, tree, results, flush, mapFiles>>

\* What the start() of the second walk returns is not looked at.
FinishWalk ==
    /\ WalkOver /\ (InUnallocated \/ (UCMode = "none" /\ ~erred))
    /\ pc' = "maps"
    /\ UNCHANGED <<args, walk, volume, InUnallocated, fileSys, tree, results, flush, mapFiles>>

(***************************************************************************)
(* outputDiskMap.  While it prints the segments, it files them under their *)
(* inodes, making up those it does not find.                               *)
(***************************************************************************)
mapOf(k) == IF k \in DOMAIN AllocatedRuns THEN AllocatedRuns[k] ELSE NoRuns

InodesIn(k) == {<<k, i.Inum>> : i \in UNION {mapOf(k)[b] : b \in DOMAIN mapOf(k)}}

WithRuns(key) ==
    LET attrs == inodeAt(ReverseMap, key).Attrs
        map   == mapOf(key[1])
        ids   == {i.AttrID : i \in {j \in UNION {map[b] : b \in DOMAIN map} : j.Inum = key[2]}}
    IN  [a \in DOMAIN attrs \cup ids |->
            LET info == getOrInsertAttr(attrs, a)
            IN  [info EXCEPT !.Runs      = @ \cup RunsIn(map, key[2], a, FALSE),
                             !.SlackRuns = @ \cup RunsIn(map, key[2], a, TRUE)]]

OutputDiskMap ==
    /\ pc = "maps"
    /\ DiskMapFile' = UNION {{[vol |-> k, b |-> b, e |-> SegmentEnd(mapOf(k), b), f |-> mapOf(k)[b]] :
                                  b \in SegmentStarts(mapOf(k))} : k \in DOMAIN AllocatedRuns}
    /\ ReverseMap' = [x \in DOMAIN ReverseMap \cup UNION {InodesIn(k) : k \in DOMAIN AllocatedRuns} |->
                         [inodeAt(ReverseMap, x) EXCEPT !.Attrs = WithRuns(x)]]
    /\ pc' = "inodes"
    /\ UNCHANGED <<args, walk, volume, InUnallocated, fileSys, tree, AllocatedRuns, NumFiles, Out,
                   flush, InodeMapFile>>

OutputInodeMap ==
    /\ pc = "inodes"
    /\ InodeMapFile' = ReverseMap
    /\ pc' = "done"
    /\ UNCHANGED <<args, walk, volume, InUnallocated, fileSys, tree, results, flush, DiskMapFile>>

-----------------------------------------------------------------------------
Stopped == pc \in {"done", "failed", "crashed"}

Terminated == Stopped /\ UNCHANGED vars

Next ==
    \/ OpenImage \/ FilterVol \/ NoFilesystem \/ FilterFs \/ WildPart \/ FilterFsUnallocated
    \/ ProcessFile \/ EndFs \/ WalkError
    \/ NextFragment \/ FragmentBlock \/ FragmentPiece \/ FragmentDone
    \/ WalkFailed \/ StartUnallocated \/ FinishWalk
    \/ OutputDiskMap \/ OutputInodeMap
    \/ Terminated

(***************************************************************************)
(* The program's one thread keeps running.                                 *)
(***************************************************************************)
Spec == Init /\ [][Next]_vars /\ WF_vars(Next)
=============================================================================
