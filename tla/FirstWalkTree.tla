---------------------------- MODULE FirstWalkTree ----------------------------
(***************************************************************************)
(* The walk over the files numbers its records as IdTree says.             *)
(*                                                                         *)
(* The refinement mapping takes the stack of open directories to a         *)
(* position: each count, less one, is the number of the last entry in that *)
(* directory.  Ids are read back with vintDecode.                          *)
(***************************************************************************)
EXTENDS WriterProperties

Counting(dirs) == IF back(dirs).count > 0 THEN Len(dirs) ELSE Len(dirs) - 1

Place(dirs) == [i \in 1 .. Counting(dirs) |-> dirs[i].count - 1]

hereBar == Place(Dirs)

\* The value of a word that is less than 2^32.
Number(w) == 16777216 * w[5] + Low24(w)

ReadBack(x) == [i \in 1 .. Len(x) |-> Number(VintDecode(x[i]).val)]

Numbers(rec) == [id       |-> ReadBack(rec.id),
                 parent   |-> ReadBack(rec.parent),
                 children |-> ReadBack(rec.children)]

recordsBar == [n \in 1 .. Len(Out) |-> Numbers(Out[n])]

Tree == INSTANCE IdTree WITH here <- hereBar, records <- recordsBar

\* Without a second walk every record is one of the tree: its id spells its position in
\* depth-first order, its parent's id that of its directory and its key the prefix of its
\* children; a lost record (walkers.cpp:507) changes none of the others.
NumbersTree == Tree!Spec
=============================================================================
