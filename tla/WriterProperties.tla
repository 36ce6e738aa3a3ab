-------------------------- MODULE WriterProperties --------------------------
(***************************************************************************)
(* What MetadataWriter should guarantee of the records and maps it writes. *)
(***************************************************************************)
EXTENDS MetadataWriter

(***************************************************************************)
(* Types.                                                                  *)
(***************************************************************************)
\* The type invariant, of the variables that decide the control and the ids: byte ranges
\* stay inside the image, there is always a current directory to count in, and the volume
\* index stays inside NumRootEntries.
TypeOK ==
    /\ pc \in {"open", "walk", "vol", "fs", "flush", "fragment", "maps", "inodes",
               "done", "failed", "crashed"}
    /\ img \in Images /\ UCMode \in UCModes /\ MaxUnallocatedBlockSize \in Nat
    /\ vol \in Nat /\ cur \in Path /\ subdir \in Path /\ erred \in BOOLEAN
    /\ Part \in {"null", "wild", "set"}
    /\ NumVols \in 0 .. Len(img.vols)
    /\ VolName \in Path
    /\ InUnallocated \in BOOLEAN
    /\ PartBeg \in 0 .. img.size /\ PartEnd \in 0 .. img.size
    /\ FSBeg \in 0 .. img.size /\ FSEnd \in 0 .. img.size
    /\ Dirs \in Seq(DirInfos) /\ Dirs # <<>>
    /\ NumRootEntries \in [0 .. Len(img.vols) -> Nat]
    /\ NumFiles \in Nat
    /\ \A n \in DOMAIN Out : Out[n].id \in BareId /\ Out[n].path \in Path

-----------------------------------------------------------------------------
(***************************************************************************)
(* Identifiers.                                                            *)
(***************************************************************************)

\* No two records have the same id (DirInfo::id of the child made in writeFile).
UniqueIds == \A m, n \in DOMAIN Out : Out[m].id = Out[n].id => m = n

\* The ids of the first walk, the one over files, are distinct, whatever comes later.
FirstWalkUniqueIds == ~InUnallocated => UniqueIds

\* The record with id "parent" is the directory that "path" names, and is written first.
ParentFirst ==
    \A n \in DOMAIN Out : Out[n].path # <<>> =>
        \E m \in 1 .. n - 1 : /\ Out[m].id = Out[n].parent
                              /\ Out[n].path = Append(Out[m].path, Out[m].name)

\* Even where records got lost: one parent means one path, and a parent that was
\* written is the directory of that path.
ParentNamesPath ==
    \A m, n \in DOMAIN Out :
        /\ Out[m].parent = Out[n].parent => Out[m].path = Out[n].path
        /\ Out[m].id = Out[n].parent => Out[n].path = Append(Out[m].path, Out[m].name)

\* "children" is a key prefix: exactly the ids of a record's children extend it by one.
ChildrenKey ==
    \A m, n \in DOMAIN Out :
        Out[n].parent = Out[m].id
            <=> /\ Len(Out[n].id) = Len(Out[m].children) + 1
                /\ SubSeq(Out[n].id, 1, Len(Out[m].children)) = Out[m].children

\* While the entries of a file system are written, every directory on the stack is one
\* whose own entry has been written, under that path: setCurDir pushes only what the
\* entry immediately prior announced.
DirsAreRecords ==
    pc \in {"fs", "flush", "fragment"} =>
    \A i \in 2 .. Len(Dirs) :
        \E n \in DOMAIN Out : /\ Out[n].id = id(Dirs[i])
                              /\ Dirs[i].path = Append(Out[n].path, Out[n].name)

-----------------------------------------------------------------------------
(***************************************************************************)
(* Inodes.                                                                 *)
(***************************************************************************)
Linked == {n \in DOMAIN Out : Out[n].link # NoLink}

\* A record's __link leads to an inode that lists the record among its hardlinks.
LinksRecorded ==
    \A n \in Linked : \E i \in DOMAIN ReverseMap[Out[n].link].DirentIDs :
        ReverseMap[Out[n].link].DirentIDs[i] = Out[n].id

\* And back: a hardlink of an inode is the id of a record, one that links to the inode.
LinksMutual ==
    /\ LinksRecorded
    /\ \A key \in DOMAIN ReverseMap : \A i \in DOMAIN ReverseMap[key].DirentIDs :
           \E n \in Linked : Out[n].link = key /\ Out[n].id = ReverseMap[key].DirentIDs[i]

\* The maps go by "FS index -> inode -> [IDs]" (walkers.h:210) and "FS index->interval->
\* inodes" (walkers.h:260), so that in the inode map whoever owns data has some entry.
RunsHaveLinks ==
    \A key \in DOMAIN InodeMapFile :
        (\E a \in DOMAIN InodeMapFile[key].Attrs : InodeMapFile[key].Attrs[a].Runs # {})
            => InodeMapFile[key].DirentIDs # <<>>

\* The non-resident attributes with the given ID in the records of inode key, each with
\* the file system it was read from.
AttrsOf(key, attrID) ==
    UNION {{<<Out[n].fs, Out[n].attrs[j]>> :
                j \in {i \in DOMAIN Out[n].attrs : /\ Out[n].attrs[i].id = attrID
                                                  /\ Out[n].attrs[i].nonres}} :
           n \in {m \in Linked : Out[m].link = key /\ Out[m].volIndex = key[1]}}

\* How many bytes of a's stream, the concatenation of its runs, come before the r-th run.
StreamBefore(a, bs, r) ==
    LET through[n \in 0 .. Len(a.runs)] ==
            IF n = 0 THEN 0
            ELSE through[n - 1] + (IF a.runs[n].flags = "filler" THEN 0 ELSE a.runs[n].len * bs)
    IN  through[r - 1]

(***************************************************************************)
(* The reference for the runs of an attribute: pairs <<offset, byte>>.     *)
(* The stream, less its first skiplen bytes, is mainSize bytes of data and *)
(* then slack; bytes of sparse runs are nowhere on the disk.               *)
(***************************************************************************)
StreamBytes(fs, a, slack) ==
    {<<p[1] - a.skiplen - (IF slack THEN mainSize(a) ELSE 0), p[2]>> :
        p \in {q \in UNION {{<<StreamBefore(a, fs.bs, r) + o,
                             fs.offset + a.runs[r].addr * fs.bs + o>> :
                                o \in 0 .. a.runs[r].len * fs.bs - 1} :
                            r \in {x \in DOMAIN a.runs : a.runs[x].flags = "none"}} :
                 /\ q[1] >= a.skiplen
                 /\ (q[1] - a.skiplen >= mainSize(a)) = slack
                 /\ q[2] < img.size}}

ExpectedBytes(key, attrID, slack) ==
    UNION {StreamBytes(x[1], x[2], slack) : x \in AttrsOf(key, attrID)}

RunBytes(runs) == UNION {{<<r.FileOffset + o, r.Start + o>> : o \in 0 .. r.End - r.Start - 1} : r \in runs}

\* The inode map places every byte of every file where the runs in the file's own record
\* say it is, at its offset in the file, however the disk map was cut into segments.
InodeRunsFaithful ==
    pc = "done" => \A n \in Linked : Out[n].volIndex = Out[n].link[1] =>
        \A j \in DOMAIN Out[n].attrs :
            LET key  == Out[n].link
                i    == Out[n].attrs[j].id
                info == InodeMapFile[key].Attrs[i]
            IN  /\ RunBytes(info.Runs) = ExpectedBytes(key, i, FALSE)
                /\ RunBytes(info.SlackRuns) = ExpectedBytes(key, i, TRUE)

-----------------------------------------------------------------------------
(***************************************************************************)
(* Unallocated blocks.                                                     *)
(***************************************************************************)
UnallocatedRecords ==
    {n \in DOMAIN Out : Out[n].path # <<>> /\ Out[n].path[Len(Out[n].path)] = Unallocated}

BlocksOf(rec) == LET run == rec.attrs[1].runs[1] IN run.addr .. run.addr + run.len - 1

BytesOf(fs, block) == fs.offset + block * fs.bs .. fs.offset + block * fs.bs + fs.bs - 1

\* Whether a file, not an unallocated entry, has data or slack in a block of FS index k.
InUseByFile(k, fs, block) ==
    \E b \in BytesOf(fs, block) \cap DOMAIN mapOf(k) : \E i \in mapOf(k)[b] :
        \A n \in UnallocatedRecords : Out[n].link # <<k, i.Inum>>

\* An unallocated entry shares no block with a file or with another unallocated entry.
UnallocatedIsFree ==
    \A n \in UnallocatedRecords : \A b \in BlocksOf(Out[n]) :
        /\ ~InUseByFile(Out[n].volIndex, Out[n].fs, b)
        /\ \A m \in UnallocatedRecords \ {n} :
               Out[m].volIndex = Out[n].volIndex => b \notin BlocksOf(Out[m])

FsOf(i, k) == IF i.vols = <<>> THEN i.fs ELSE i.vols[k].fs

\* The FS indexes under which the walks find a file system.
FsIndexes(i) == {k \in IF i.vols = <<>> THEN {0} ELSE DOMAIN i.vols : FsOf(i, k) # NoFs}

\* Of the file system with FS index k some unallocated entry has been written.
HasUnallocated(k) == \E n \in UnallocatedRecords : Out[n].volIndex = k

\* After the second walk no block before the last is missing: a file has it, or an entry.
\* If start() failed, which nobody looks at (walkers.cpp:426), whole file systems may be
\* missing; but of one that any block is reported of, every block is accounted for.
UnallocatedComplete ==
    pc \in {"maps", "inodes", "done"} /\ InUnallocated =>
        \A k \in {x \in FsIndexes(img) : ~erred \/ HasUnallocated(x)} :
            \A b \in FsOf(img, k).first .. FsOf(img, k).last - 1 :
                \/ InUseByFile(k, FsOf(img, k), b)
                \/ \E n \in UnallocatedRecords : Out[n].volIndex = k /\ b \in BlocksOf(Out[n])

\* No unallocated entry is larger than --max-unallocated-block-size, in blocks; in
\* block mode each is one block.
EntryWithinMax ==
    \A n \in UnallocatedRecords :
        Out[n].attrs[1].runs[1].len <= IF UCMode = "block" THEN 1 ELSE MaxUnallocatedBlockSize

(***************************************************************************)
(* What the properties above rest on: no file has the folder's name or an  *)
(* inode number near 2^64, as the entries do, the maximum is a block or    *)
(* more, and not near 2^64, bytes have addresses of 64 bits, and no block  *)
(* that a file has is cut by the end of the range.                         *)
(***************************************************************************)
RangeEnd(i, k) ==
    IF i.vols = <<>> THEN i.size
    ELSE AtMost((i.vols[k].start * i.vols[k].len * i.sectorSize) % U64, i.size)

RangeStart(i, k) ==
    IF i.vols = <<>> THEN 0 ELSE AtMost((i.vols[k].start * i.sectorSize) % U64, i.size)

AtBlock(fs, byte) == \E q \in 0 .. byte : byte = fs.offset + q * fs.bs

NamesKept == \A f \in Entries : f.name # Unallocated

InodesKept ==
    \A i \in Images : \A f \in Entries : f.meta # NoMeta =>
        /\ f.meta.addr + i.size < NoLimit
        /\ \A k \in FsIndexes(i) : f.meta.addr + FsOf(i, k).last < NoLimit

MaximumMeant ==
    \A max \in MaxUcBlocks \ {NoLimit} :
        max > 0 /\ \A i \in Images : /\ i.size + max < U64
                                     /\ \A k \in FsIndexes(i) : FsOf(i, k).last + max < U64

BytesAddressed ==
    \A i \in Images : /\ i.size < U64
                      /\ \A k \in FsIndexes(i) : \A b \in {FsOf(i, k).first, FsOf(i, k).last} :
                             FsOf(i, k).offset + b * FsOf(i, k).bs < U64

\* The blocks before the given one are inside the range, or it ends between two blocks.
Within(fs, end, block) == AtBlock(fs, end) \/ fs.offset + block * fs.bs <= end

BlocksWhole ==
    \A i \in Images : \A k \in FsIndexes(i) :
        /\ Within(FsOf(i, k), RangeEnd(i, k), FsOf(i, k).last)
        /\ \A f \in Entries : f.meta # NoMeta =>
               \A j \in DOMAIN f.meta.attrs : \A r \in DOMAIN f.meta.attrs[j].runs :
                   LET run == f.meta.attrs[j].runs[r]
                   IN  Within(FsOf(i, k), RangeEnd(i, k), run.addr + run.len)

\* The range cuts off nothing that the image has: no file system starts before its range,
\* and none of the data is behind the end, unless that is where the image ends.
RangeReaches(i, k, block) ==
    RangeEnd(i, k) = i.size \/ FsOf(i, k).offset + block * FsOf(i, k).bs <= RangeEnd(i, k)

DataInRange ==
    \A i \in Images : \A k \in FsIndexes(i) :
        /\ RangeStart(i, k) <= FsOf(i, k).offset
        /\ RangeReaches(i, k, FsOf(i, k).last)
        /\ \A f \in Entries : f.meta # NoMeta =>
               \A j \in DOMAIN f.meta.attrs : \A r \in DOMAIN f.meta.attrs[j].runs :
                   LET run == f.meta.attrs[j].runs[r]
                   IN  run.flags = "none" => RangeReaches(i, k, run.addr + run.len)

-----------------------------------------------------------------------------
(***************************************************************************)
(* The range of the file system.                                           *)
(***************************************************************************)

\* "adjusted to fit in partition & disk" (walkers.h:250): FSEnd is not behind the end of
\* the partition that libtsk found the file system in.
FsFitsPartition ==
    pc \in {"fs", "flush", "fragment"} /\ img.vols # <<>> =>
        FSEnd <= AtMost((img.vols[vol].start + img.vols[vol].len) * img.sectorSize, img.size)

-----------------------------------------------------------------------------
\* An image without a partition scheme, which start() provides for (walkers.cpp:324), is
\* walked like any other.
NoCrash == pc # "crashed"

\* The walks, the loops over unallocated blocks and the output of the maps all end.
Termination == <>Stopped
=============================================================================
