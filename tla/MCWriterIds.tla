---------------------------- MODULE MCWriterIds ----------------------------
(***************************************************************************)
(* Identifiers and links: two file systems, in volumes around an unused    *)
(* one, whose trees are built out of a directory, a file with two links    *)
(* and a deleted entry whose inode has been reused for something else.     *)
(***************************************************************************)
EXTENDS WriterProperties

Fs1 == [offset |-> 4, bs |-> 2, first |-> 0, last |-> 2]
Fs2 == [offset |-> 12, bs |-> 2, first |-> 0, last |-> 1]

Vol(flag, table, slot, beg, len, fs) ==
    [flag |-> flag, table |-> table, slot |-> slot, start |-> beg, len |-> len, fs |-> fs]

MCImages ==
    {[size |-> 16, sectorSize |-> 2, fs |-> NoFs,
      vols |-> <<Vol("alloc", 0, 0, 2, 3, Fs1), Vol("unused", 0, 0, 5, 1, NoFs),
                 Vol("alloc", 0, 1, 6, 2, Fs2)>>]}

Meta(addr, type) == [addr |-> addr, used |-> TRUE, type |-> type, attrs |-> <<>>]

MCEntries ==
    {[name |-> PlainName("d"), type |-> "dir", alloc |-> TRUE, meta |-> Meta(5, "dir")],
     [name |-> PlainName("f"), type |-> "reg", alloc |-> TRUE, meta |-> Meta(6, "reg")],
     [name |-> PlainName("x"), type |-> "reg", alloc |-> FALSE, meta |-> Meta(5, "dir")]}
=============================================================================
