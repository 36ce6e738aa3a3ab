-------------------------- MODULE SecondWalkBlocks --------------------------
(***************************************************************************)
(* The second walk hands out blocks as FreeBlocks says.                    *)
(*                                                                         *)
(* The refinement mapping: files have the blocks of the file systems that  *)
(* the disk maps place them in, and entries, named by the number of their  *)
(* record, have those in it.                                               *)
(***************************************************************************)
EXTENDS WriterProperties

AllBlocks(i) == UNION {{k} \X (FsOf(i, k).first .. FsOf(i, k).last) : k \in FsIndexes(i)}

EntryBlocks(r) == {r.volIndex} \X BlocksOf(r)

usedBar == {p \in AllBlocks(img) : InUseByFile(p[1], FsOf(img, p[1]), p[2])}

givenBar == {<<n, EntryBlocks(Out[n])>> : n \in UnallocatedRecords}

Blocks == INSTANCE FreeBlocks WITH used <- usedBar, given <- givenBar

\* Unallocated blocks are handed out in ascending order and once each, whatever the walk
\* over the files has found; no block becomes a file's after that, though every entry is
\* filed in the maps that the search for free blocks goes on to read (flushUnallocated).
HandsOutOnce == Blocks!Spec
=============================================================================
