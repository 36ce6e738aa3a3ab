# fsrip in TLA+

fsrip (`src/`) reads a disk image with The Sleuth Kit (libtsk) and prints what it finds: an
overview of volumes and file systems (`info`), the image itself (`dumpimg`), or lines of
JSON with one record per directory entry, a map from the bytes of the disk to inodes and a map from
inodes to entries and runs (`dumpfs`). These modules model the whole program, `dumpfs` most
closely. TLC checks them on small images, and TLAPS proves the central facts for
images of any size.

Line numbers below are those of `src/src/lib/walkers.cpp` unless another file is named.

## 1. Inventory

| Component | State | Operations | Correct when |
|---|---|---|---|
| `MetadataWriter` (`dumpfs`) | volume and file system at hand, stack `Dirs`, `AllocatedRuns`, `ReverseMap`, `NumRootEntries`, the dummy file | `start`, `filterVol`, `filterFs`, `processFile`, `startUnallocated` | records form a tree, links and maps agree with the records |
| `DirInfo` and record ids | path, bare id, level, count per open directory | `newChild`, `id`, `lastChild`, `incCount`; `setCurDir` on the stack | ids are distinct, and a parent's id is the one its record carries |
| Variable-length integers (`util.cpp`) | none | `vintEncode`, `vintDecode`, `appendVarint` | decoding inverts encoding, encodings sort as integers do |
| Attribute runs and disk map | interval map bytes -> owners | `writeAttr`, `markDataRun`, `outputDiskMap`, `outputInodeMap` | the maps place each byte of a file where its record does |
| Unallocated handling | gap, iterator, loop variables | `flushUnallocated`, `processUnallocatedFragment` | entries are exactly the blocks that no file has |
| `process()`, command line (`fsrip.cpp`) | options, the walker, output files | options, open, overview, first walk, second walk, maps, exit status | maps only after a walk that succeeded, the status tells failures |
| `ImageDumper` (`dumpimg`) | offset | read and write until the end | output is the image, and the loop ends |
| `ImageInfo`, overview (`info`) | none | print volumes and file systems, twice by different code | both texts are JSON, and the same |
| `Image`, `VolumeSystem`, `Volume`, `Filesystem` (`tsk.cpp`) | libtsk handles | open and close in constructors and destructors | every handle is used open and closed once |
| JSON text (`jsonhelp.h`, `writeSequence`, the writers) | buffer, `lastAttr` | print members, sequences, lines | each line is one JSON object |
| Times, flags, types, hexadecimal ids (`util.cpp`, `enums.cpp`) | a stringstream each | `formatTimestamp`, `metaFlags`..., `makeInodeID`... | what is printed can be read back |
| `FileCounter` | `NumFiles` | `processFile`, `finishWalk` | one count per entry |
| `FileWriter` (`dumpfiles`) | as `MetadataWriter` | `processFile`, its body commented out | - |
| Python scripts, `HttpProtocol.txt`, build files | - | - | not part of the program |

**Interactions.** `process()` opens the image, may print the overview through wrappers around the
walker's own handle, and calls `start()`. For `dumpfs` libtsk then calls back:
`filterVol` for each volume, `filterFs` for the file system in it (or directly, if the image
has no volumes) and `processFile` for each directory entry, depth first, deleted entries
included. With `--unallocated`, `startUnallocated` walks the image again; this time `filterFs`
emits made-up records of the free blocks itself, through the same `processFile`, and has
libtsk skip the file system. Last, the maps are written to two files, the first of which files the
runs that the second prints.

**What is hard.** The program has a single thread and persists nothing while it runs, so there
are no races and no recovery. The difficulty is in long sequences of callbacks whose order
libtsk chooses, in state left over from one callback, volume or walk to the next, in a map
that changes while it is iterated, in exceptions swallowed half way through a record, in handles that two
objects hold, and in arithmetic on offsets. The hazards are listed one by one, with
their lines, in `PROJECT.json`.

## 2. Modules

| Module | Models | In the code |
|---|---|---|
| `Varint` | the encoding of integers | `util.cpp` 15-148 |
| `DirInfo` | `DirInfo` and the stack `Dirs` | 37-75, 455-482 |
| `DataRuns` | from attributes to the disk map, and from that to an inode's runs | 548-577, 648-761, `walkers.h` 107-203, `fsrip.cpp` 77-93 |
| `MetadataWriter` | the state machine of both walks and of `process()` around them | 258-513, 594-646, 763-849, `fsrip.cpp` 67-239 |
| `WriterProperties` | the properties of `MetadataWriter` | |
| `IdTree` | abstract specification: the ids number a tree in depth-first order | 37-75 |
| `FirstWalkTree` | the refinement from `MetadataWriter` to `IdTree` | 455-513 |
| `FreeBlocks` | abstract specification: free blocks are handed out in ascending order, once each | 789-849 |
| `SecondWalkBlocks` | the refinement from `MetadataWriter` to `FreeBlocks` | 752-761, 789-849 |
| `JsonText` | `j`, `JsonPair`, `writeSequence`, and the grammar of JSON | `jsonhelp.h`, `util.cpp` 234, 25-34 |
| `RecordLines` | how the lines of records and maps are put together | 494-592, 610-750, `fsrip.cpp` 67-186 |
| `Timestamp`, `Labels`, `HexIds`, `IdCodec` | texts of times, flags and types, numbers in hex, ids | `util.cpp` 142-232, `enums.cpp`, `tsk.cpp` 53-69 |
| `Texts` | one behavior per line, and per field whose text is computed | |
| `Overview` | the overview document, by both of its printers | 78-212 |
| `Wrappers` | libtsk's handles in the hands of constructors and destructors | `tsk.cpp` 15-19, 108-113, 144-154, 189-210 |
| `ImageDump` | `ImageDumper::start` | 215-232 |
| `Fsrip` | the program from the options to the exit status, for each command | `fsrip.cpp` 23-306, `walkers.h` 38-84 |
| `MC*` | small images, command lines and values for TLC | |
| `Varint_proofs`, `MetadataWriter_proofs`, `Texts_proofs`, `Fsrip_proofs` | theorems about those modules, `DirInfo` with the second, `RecordLines` with the third, `Overview`, `Wrappers` and `ImageDump` with the last | |
| `JsonText_proofs` | what leads from where to where in the grammar of JSON, for texts of any length | |
| `Records_proofs`, `Unallocated_proofs`, `InodeRuns_proofs` | theorems of `WriterProperties`, `FirstWalkTree` with the first, `SecondWalkBlocks` with the second | |

`Varint` <- `DirInfo`, and `DirInfo`, `DataRuns` <- `MetadataWriter` <- `WriterProperties` <-
`FirstWalkTree`, `SecondWalkBlocks`, by EXTENDS. `JsonText` <- `RecordLines` <- `Texts`, which takes the four modules of fields
as well. `Overview`, `Wrappers` and `ImageDump` <- `Fsrip`. `IdTree` and `FreeBlocks` are
instantiated with refinement mappings.

### Correspondence

* **Variables** have the names of the members they stand for. `pc` says which callback or loop
  the program is in. In `MetadataWriter`, `vol`, `cur` and `subdir` are libtsk's: how far its walk of the volumes
  is, the directory of the last entry, that entry's own path if it is a directory, and `erred`, whether the walk has met an
  error, for `start` to return.
* **Actions.** One callback is one action with everything it does: `FilterVol` writes the
  dummy record of the volume, `FilterFs` sets up the file system, `ProcessFile` moves the stack,
  writes a record and updates both maps. The loops of the second walk may emit any
  number of records, so a turn is an action: `NextFragment` computes a gap,
  `FragmentBlock` and `FragmentPiece` emit an entry, `FragmentDone` moves on.
  `OutputDiskMap` includes that it files the runs under their inodes and makes up inodes
  that it does not find.
* **The program** (`Fsrip`) takes the whole of `dumpfs`'s walk as records that come out, or fail to,
  and a result that is good or bad; `MetadataWriter` has the detail. `ImageDump`'s loop is in it as it
  is. A constructor or destructor of a wrapper is a sequence of calls of libtsk, which are
  made one at a time (`LibtskCall`), so that each is checked against the handles open at that moment.
* **libtsk** is external: any entry of `Entries` may come next in the directory of the last
  one, in one above it or, after an entry that is a directory, inside of it (`NextPaths`). Either walk
  may meet an error at any point between two callbacks, leave the file system at hand, and then go on to the next volume or give up
  (`WalkError`, `WalkOver`). Behind the first walk `process` sees that and stops (`WalkFailed`); behind the second nobody
  looks (426), and the maps are made all the same (`FinishWalk`). An image may not open. A read may be short or fail.
* **Streams.** std::cout may stop taking output at any write; an output file may not open, or not take
  the text (`WriteFile`). Nothing in the code looks at those files, so nothing in the model does.
* **Data.** A path `a/b/` is the sequence of its names; a name is a text and the numbers
  printed into it (`part-0-1` is `<<"part", <<0, 1>>>>`). An id is the sequence of its encoded
  integers; the code's string is their concatenation, and `VarintsReadBack` shows that nothing
  is lost by concatenating. `interval_map` is a function from bytes to sets of owners, and its
  segments are the maximal intervals on which the function is constant, as boost joins
  equal neighbours. Timestamps, sizes and flags that are copied through are left out of the records of
  `MetadataWriter`; `Texts` has their texts.
* **JSON** is a sequence of tokens. A number or a string without special characters is `"val"`; a string with a
  quotation mark in it is `"val", "junk"`. A member that always is of that kind is its name alone.
  `AfterToken` is the grammar, and refuses a second member of one name in an object.
* **Numbers in text** are sequences of digits. The stringstream of `HexIds` has a base and a fill character,
  which it keeps, and a width, which the next number uses up. A time's fraction is its eight digits, and where
  a half has to be rounded both results are possible, as they depend on the double.
* **Failure.** With `Faults` TRUE any record may end in an exception, at any point: before the inode is
  linked, or after any number of attributes. The id stays used, as in the code.
* **Undefined behaviour.** `Part` is `"wild"` or `"null"` at first, as the constructor leaves it alone;
  where `filterFs` follows a wild one, the program crashes (`WildPart`) or goes on.

## 3. What is checked

| Run | Shows |
|---|---|
| `ids` | over every depth-first walk: ids distinct, each parent written before its children and under the right path, `children` a key prefix of exactly the children, links and hard links mutual |
| `faults` | the same walks with exceptions anywhere: ids still distinct, one parent one path, links still resolve; and `MetadataWriter` implements `IdTree` (`NumbersTree`) |
| `unallocated` | both walks: unallocated entries share no block with a file or each other, together with the files cover every block before the last (if the second walk meets an error, which the program does not notice, of each file system that has any entry), keep the maximum size, and have ids of their own; the program stops, although the loop over extents inserts into the map that it iterates; and `MetadataWriter` implements `FreeBlocks` (`HandsOutOnce`) |
| `runs` | the inode map's bytes are those of a reference definition of the attribute's stream, whatever sparse, filler, skipped, slack, compressed or shared runs there are |
| `program` | for every command with and without each output file: libtsk's handles are used open, and closed on every way out; status 0 of `dumpimg` means that the stream took the image; both printers of the overview print one JSON document that shows each file system; maps follow a walk that went well, failures show in the status, and an inode map has runs; the program ends |
| `texts` | every line of records and maps is JSON, wherever an exception cuts in; fractions, flags, types, ids and codewords read back; codewords sort as integers; and when the two texts of a file system's id agree |

Six runs end in a violation, where the code does not do what its own comments or documentation say
(`findings` in `PROJECT.json` quotes them):

| Run | The code |
|---|---|
| `second_walk` | 403: in the second walk every volume gets the id of the last one, so the unallocated entries of the others have a wrong parent |
| `fs_range` | 401: a partition's end is `start * len` instead of `start + len` |
| `zero_max` | 801: `--max-unallocated-block-size 0` repeats whole fragments |
| `phantom_inode` | 378: the data and the link of a volume's entry are filed under different FS indexes |
| `wild_part` | 409: without a partition scheme `filterFs` follows an uninitialised pointer |
| `names` | `util.cpp` 234: strings are printed without escapes, so a quotation mark in a name breaks the record's line |

The passing runs avoid what the violations are about, and only that: partitions have start and
length of at least two sectors wherever unallocated blocks are counted, the maximum is at least one block, the ids
of the second walk are checked where the only volume with a file system is the last one, and names in `texts` need no
escape.

Modelling met more places where documentation or comment and code differ. They follow from one line each, so that a
run would add nothing to reading it:

* `count`, which `README.md` lists (32-33), is not understood: `createVisitor` does not know it (`fsrip.cpp` 48-64, `Visitors`).
* `dumpfiles` puts out nothing and ends with status 0 (874, `Writes`), where `README.md` 57-61 has it write files.
* What std::cout has buffered when `start` returns is flushed behind `main`; nobody sees whether that fails, nor
  whether a map's file is written at all (`fsrip.cpp` 71, 119).
* 999999995 nanoseconds or more round to `1.00000000`, of which `util.cpp` 181 erases the "leading 0": the fraction
  is a point alone. `FractionReadsBack` leaves those five values out.
* `fsIDAsString` does not pad its bytes (`tsk.cpp` 66) where the records' `bytesAsString` does:
  `FsIdsAgree` says for which file systems the two ids are the same.

**Bounds.** Images have at most 20 bytes, three volumes and two file systems of up to eight blocks of two
or three bytes: enough for runs that begin, end and meet inside of blocks, for gaps at both ends and in the middle,
and for a volume before, between and after others. `MaxEntries` bounds the records of the first
walk, those of volumes included: six leave room to enter a directory, return, and
go down again in another volume; with faults it is four, and two volumes with a file system each, as any
record may be lost at several points. `U64` is 4096 instead of 2^64, far
above every byte and block address, so that sums wrap only where they would at 2^64 (the unlimited size
is 4095). The codec is given 64-bit words as eight bytes, with no smaller modulus, on both sides of every
threshold of the encoding. In `program`, an image of three bytes and a buffer of two make
a full read, a short one and a last one; an empty image is there, too. Volumes with and without file systems come in
sequences of up to three, `MaxRecords` is two. In `texts`, two attributes are enough for the comma between attributes to
be wrong if one of them is left out, and two runs, owners and links for sequences; times lie around
the powers of ten and the halves, numbers around the powers of sixteen, bytes at both ends of one and two digits,
and sets of flags are all that there are.

**Fairness** is `WF_vars(Next)` and no more: one thread that keeps running. Liveness of libtsk
is part of the inputs: `MaxEntries` and `MaxRecords` bound its walks, and in `program` `ZeroReads` is FALSE,
as a read of nothing before the end of the image would repeat for ever: that `ImageDumper` hangs then (220) is what the
code does, but nothing in the repository says whether libtsk ever returns zero there, so `Exits` is not about that. `unallocated` uses
`FairSpec`, which is `Spec` with the fairness written out: TLC takes long to find `ENABLED` of the whole
of `Next` in each state, and little time to find it of the one action that may come round to the
state it started from. Deadlock is checked everywhere but in `texts`, where a behavior may end with one field converted.

**Mutants.** For each property `PROJECT.json` names a definition and a plausible mistake in it (an
uncounted entry, a swapped order, a gap taken from the wrong end, a handle closed twice...) that makes TLC report the property
violated. They are the operators commented "Mutant of" and no action uses them.

## 4. What is proved

The assumptions are on constants alone: images have volumes with natural numbers
(`ImagesAssumption`), names are names and what libtsk tells of an inode has its types (`TextsAssumption`, `EntriesAssumption`), the modulus
is positive (`WordAssumption`), a walk meets fewer than 2^31 entries and volumes (`MaxEntriesAssumption`),
as `Count` has 32 bits, sizes are natural numbers and a buffer is not empty (`DumpAssumption`), and
command lines and overviewed images are of their types (`FsripAssumption`).

* `Varint_proofs!RoundTrip`: `vintDecode` inverts `vintEncode` for each of the 2^64 words,
  whatever bytes follow. `EncodeInjective` follows.
* `MetadataWriter_proofs!SetCurDirAdvances`: along the stack, the counts of the open directories are a
  position in depth-first order, and the bare ids spell that position out
  (`IdSpellsPosition`). `setCurDir` takes the stack to a position that lies behind all
  that it has been at, and `PassedDiffers` makes ids of different positions different.
* `MetadataWriter_proofs!TypeCorrect`: `Spec => []TypeOK`. It is not inductive as it stands. `TypeInv`
  adds what the next step needs, among others: `NumVols` never exceeds the volumes
  visited, the stack's bottom is the dummy root, and the file systems and ranges are those of the image.
* `Records_proofs!FirstWalkIdsDistinct`: `Spec => []FirstWalkUniqueIds`, the ids of the
  first walk are distinct, for any image, any tree and any exceptions. Distinctness says nothing of
  what comes next, so the invariant `FirstWalkInv` says in addition that the stack is a
  depth-first position, that its counts are bounded by the number of entries (none
  wraps), and that the position of every record written has been passed. Each action either writes nothing, or
  calls `setCurDir` once before it writes.
* `Records_proofs!FirstWalkNumbersTree`: without a second walk, `MetadataWriter` implements `IdTree`.
  The mapping takes the counts of the stack to a position and reads the ids back with `vintDecode`
  (`IdReadBack`, `KeyReadBack`, from `RoundTrip`). A callback that writes a record visits one of the positions that
  follow (`FollowingEntry`), also when the record is lost; all other steps stutter.
  `FirstWalkInv` gives it that counts do not wrap.
* `Records_proofs`, for both walks, although ids repeat in the second: `KeysFindChildren` (`ChildrenKey`) follows from
  `KeyInv`, which says that the id of a record is spelled from a bare id at a level, its key from the same bare id at the
  next level, and its parent from the bare id's beginning: what a prefix finds is then a question of the sequences alone. `EveryLinkRecorded`
  (`LinksRecorded`) and `LinksAreMutual` (`LinksMutual`) follow from `LinkInv`. The former holds whichever
  records are lost: an entry is linked before anything is written. For the same reason the latter assumes `Faults` FALSE;
  with faults it is wrong, as a hard link then may be the id of a record that was lost.
* `Records_proofs`, on paths: by `PathInv` the open directories are the prefixes of one path, the path that libtsk is at; no record has the id of
  one of them with another path, as its own or as its parent's; and the directory that may be entered next is the one that the last
  entry announced. `ParentsNamePaths` says that parents and paths agree until the second walk begins, whichever records are
  lost. `ParentsComeFirst` and `DirsHaveRecords` are about the first walk too, and assume `Faults` FALSE: a lost
  directory is no record that could come first. With `UCModes = {"none"}` there is no second walk, and
  `IdsDistinctWithoutUnallocated`, `PathsAgreeWithoutUnallocated` and `TreeWithoutUnallocated` have the same of the
  whole output. With a second walk it is wrong in general: run `second_walk` has the counterexample.
* `Unallocated_proofs`: `UnallocatedBlocksFree` (`UnallocatedIsFree`), `EntriesWithinMax` (`EntryWithinMax`) and
  `EveryBlockAccounted` (`UnallocatedComplete`), in both walks, for
  images, attributes and runs of any kind. They have four premises, on constants alone, which `MCWriterUnallocated` gives TLC to evaluate:
  no file is named `$Unallocated` (`NamesKept`); the maximum is a block or more and does not come near 2^64 (`MaximumMeant`; `zero_max`
  shows what zero does); the bytes of a file system have addresses below 2^64 (`BytesAddressed`); and the end of the range, which
  401 computes as a product, cuts no block that a file has (`BlocksWhole`): `markDataRun` clips the run there, and
  a fragment would begin in the middle of a block.

  `UnallocatedIsFree` is far from inductive, as the map of the disk changes while the fragments are made from it. `UnallocatedInv` adds
  to `TypeInv`, among others: what each map holds lies inside of its file system's range, and every extent ends between two blocks
  or where another one begins (`MapsInv`, through `WriteRun`, `writeAttr` and `writeAttrs` by induction over runs and attributes);
  each unallocated record is one run of whole blocks, whose bytes belong to its own inode (`RecordsInv`, `OwnInv`); two of them do not meet
  (`ApartInv`); and the place in the loops. That is a cursor: the entries made in this file system lie behind the block at which the current
  extent starts, and nothing is mapped between the end of that extent and the next (`FlushInv`); inside a fragment the entries lie
  behind the block at hand, and the fragment's remaining bytes are not mapped (`FragmentInv`). An entry then takes bytes
  that nobody has, and the extent that it inserts into the map lies behind the iterator.

  `UnallocatedComplete` has two more premises. `Faults` is FALSE: an entry that is lost leaves its blocks to nobody. And no file has an
  inode number near 2^64, where those of the entries are (`InodesKept`), or what the files and what the entries have could not be told apart.
  `CompleteInv` says that what the loops have passed is a file's or an entry's: the blocks before the current gap
  (`GapInv`), before the block at hand (`FillInv`), and all blocks of the file systems that the second walk is through with (`ThroughInv`). For that the
  bytes ahead of the iterator, and the maps of the file systems not yet come to, must be the files' alone (`AheadInv`), although the entries go into
  the same maps. A second walk that met an error is through with a file system that it never began (`Begun`); such a one has no entry
  when the walk turns away from it (`FreshInv`), and gets none later, so that what is said of file systems with an entry stands
  (`WalkErrorComplete`). A block that the loop skips lies before `BlockOf` of an extent's end, so that its last byte is in the extent, and is a
  file's (`ExtentFilled`).
* `Unallocated_proofs!SecondWalkHandsOutOnce`: with the premises of `UnallocatedComplete`, `MetadataWriter` implements `FreeBlocks`.
  The mapping reads the files' blocks from the maps of the disk, which hold the entries too, and what was handed out from the records.
  A file that is processed is a `Use`, and comes before any entry. An entry is a `HandOut`: its blocks have no owner yet
  and lie behind the cursor of `FlushInv` and `FragmentInv`, and all others in this file system before it. That no block becomes or ceases
  to be a file's by it needs `OwnersInv`, one more invariant: each owner in a map is an inode of the files, or of an entry with a record. All other steps stutter.
  With faults it would be wrong: the blocks of an entry whose record is lost look like a file's.
* `InodeRuns_proofs!InodeMapFaithful`: `Spec => []InodeRunsFaithful`. What an inode map says of an inode follows from
  the maps of the disk, and these are written one run at a time, by entries that may share an inode or a byte, long before
  it is printed. `PlacesInv` therefore speaks of the disk maps and of the records, and says that byte `b` of file system `k` has the owner with
  inode `i`, attribute `a`, slack or not, and file offset `o`, exactly if a record's attribute has a run that puts it
  there, by the reference definition of the stream. Each step that writes a record adds to both sides what `writeAttrs`
  places (by induction over attributes, and over the runs of one); cutting a run at a byte where it turns to slack loses
  nothing, as the offset grows with the byte. Between `OutputDiskMap` and the printing, the segments give back the
  function that they were cut from. The premises are those of `UnallocatedBlocksFree`, `Faults` FALSE (a lost record has runs, and
  is no record), and `DataInRange`: a file system's range holds all of its data, or ends with the image. `fs_range` shows
  a range for which that is wrong.
* `Texts_proofs!EncodingsSort`: a smaller 64-bit integer has the smaller encoding. Both are compared by their leading
  bytes: where these differ, one encoding is longer, as its integer has more significant bytes; where they agree, the
  encodings are equally long, and the first byte that differs is the first that differs in the integers.
  `IdentifierReadsBack`: each turn of `ReadVarints`, a reader made for the properties as the program has none, takes one
  encoding off the rest, and by `RoundTrip` it is
  the integer that was put there. `OrderAlwaysPreserved` and `VarintsAlwaysReadBack` state this of the texts.
* `Texts_proofs!FractionAlwaysReadsBack`: each of the eight digits is worth a tenth of the one before, what is left
  behind the last is less than its worth, and erasing zeroes at the end changes no digit that is read. It holds whichever way halves
  are rounded.
* `Texts_proofs!IdsAlwaysReadBack` and `FsIdsAlwaysAgree`: whatever is printed, the stream is followed item by item (`Streams`), and what
  a `put` adds is a `Numeral`: digits of the width that was set, which stand for the number. That needs the number to fit, which is the
  premise `NumbersFit`: a volume index is a `uint32_t` and has 8 digits, an inode number and an offset are `uint64_t` and have 16
  (`WidthsHold`, from how often a number below 16^w can be divided by 16). Texts of bytes are built by `FlattenSeq`, so what stands
  where in them is an induction over its parts (`FlatPieces`). The overview's text of a file system's id has one digit for each byte below 16
  and two for the others (`FewDigits`), and the records' has two for all: where a byte is small their lengths differ.
* `Fsrip_proofs!DumpCorrect`: for any size of image and buffer, and any short reads and failing writes, what `ImageDump` puts
  out is the image's beginning, and the whole of it where `start` returns 0. `DumpInv` adds that until it returns the
  output is exactly as long as the offset.
* `Fsrip_proofs`: `DumpTakenAlways`, `MapsFollowWalkAlways` and `InodeMapHasRunsAlways`, for all command lines
  and images. `FsripInv` ties the place in the program to the result of `start` (`PhaseInv`), keeps `DumpInv` through the
  steps of the rest of the program (`DumpedInv`), and says in which order the files come (`FilesInv`).
* `Fsrip_proofs!FsripTypeOK`, `HandlesUsedOpenAlways` and `NothingLeftOpenAlways`: libtsk's handles in the program, for images with
  any number of volumes and file systems. `HandlesInv` says at each place of the program which handles are open; while wrappers are made or
  destroyed, the handles of the calls still to come are exactly those not yet open (`OpensPending`), or those that still are (`ClosesPending`),
  each once, and the volume system's comes first. What the lists of calls in `Wrappers` have to do with that is `Once`: by induction over
  the parts of `FlattenSeq`, such a list names each handle of the image once.
* `Texts_proofs!EveryLineIsJson`: `LinesAreJson` for any number of attributes, runs, owners, links and extents. The grammar's state is a stack,
  so the proof is about sets of states: `Leads(S, text, T)` in `JsonText_proofs` says that `text` takes every state of `S` into `T`, and
  such facts are joined as their texts are (`LeadsJoin`). `InObject(O, K)` are the states behind a member of an object whose members
  are among `K`, inside of what `O` says is open; `Adds(text, K)` says that `text` may stand behind any members other than `K`,
  `IsValue` that it may stand where a value is wanted. Each piece of a line has one such lemma, and sequences of any length
  are done by induction (`LeadsFlat`, `SequenceLeads`). `LineInv` then follows the buffer through `RecordLines`: at `"attrs"` it is in the
  array of attributes, with a comma to come exactly if `lastAttr` is set, and at the end it is a whole object. The premise is that
  no name, path or link needs an escape; run `names` shows that it cannot be left out. The grammar reads a line in parts of twenty
  tokens, and `ReadsIs` says that this is reading it token by token.
* `Fsrip_proofs!OverviewIsJsonAlways`: `OverviewIsJson` for any segment files, volumes and file systems, from the same lemmas under the
  same premise, with `OverviewInv`, which says where the text comes from. `OverviewShowsAlways` needs no premise: each file system is
  shown once (`Has` counts a token in a text, piece by piece), and the second printer's text, which `Overview` has from
  170-212 and not from the first printer's definitions, is the first one's (`InfoSystemSame`).
* `Varint_proofs!SetInduction` is what these inductions use. The library's theorem of induction takes the property as an operator, which the provers
  cannot instantiate; here it is the set of numbers that have the property, a constant, and the proof takes the least number outside
  of it.

**Model-checked only.** Termination and `Exits` (liveness is outside of the prover's reach). Ids of the second walk,
which are not distinct in general (see `second_walk`). `FlagsReadBack` and `TypesAgree`: there are finitely many flags and types, and TLC
goes through all of them.

## 5. Not modelled

* `Image::open`, `Image::dump`, `makeChildID` and `FileCounter::finishWalk`: nothing calls them.
* The part of a time's text that `gmtime` and `strftime` make, and numbers in decimal: the libraries'.
* Which command lines Boost's parser takes: an input of `Fsrip`. Exceptions that leave `process()`, as of memory
  that is used up, are not modelled; the handlers in `processFile` are.
* Whether a file system may outlive its volume system: `VolumeSystem`'s destructor closes the system before the file
  systems on it (`tsk.cpp` 152). `Wrappers` has the calls in that order, but what libtsk thinks of it is not in the repository, and
  `Legal` allows it.
* Attributes of one inode that have one ID but two types: `InodeInfo` merges them (`walkers.h` 193), and so does the reference
  definition that `InodeRunsFaithful` uses.
* A file system that the end of the image cuts: libtsk's own treatment of it decides what is seen.
* The Python scripts and `HttpProtocol.txt`, which are not part of the program, and the build.

## 6. Plan

Done: all modules above, their runs and their proofs, the refinements `NumbersTree` and `HandsOutOnce` included. What stays
with TLC is named in the section on the proofs.
