------------------------------ MODULE DirInfo -------------------------------
(***************************************************************************)
(* class DirInfo of walkers.h / walkers.cpp: the bookkeeping fsrip keeps   *)
(* per open directory, and the identifiers computed from it.               *)
(*                                                                         *)
(* A path "a/b/" is the sequence <<"a", "b">> of its components; the empty *)
(* path is <<>>.  An identifier is the sequence of its encoded integers:   *)
(* the strings of the code are the concatenations of these (in hex), and   *)
(* module IdCodec shows that a concatenation determines its parts.         *)
(***************************************************************************)
EXTENDS Varint

\* RecordTypes::FILE
FILE == 0

\* A name is its text and the numbers printed into it.
Name == STRING \X Seq(Nat)

Path == Seq(Name)

Codeword == Seq(Byte)
BareId   == Seq(Codeword)

DirInfos == [path : Path, bareID : BareId, level : Nat, count : Nat]

\* The default constructor: the parent of all volumes (or of a bare file system).
DummyRoot == [path |-> <<>>, bareID |-> <<>>, level |-> 0, count |-> 0]

appendVarint(base, val) == Append(base, VintEncode(FromUint32(val)))

\* Mutant of childLevel: what is in the dummy root is a level down as well.
childLevelAlwaysDeeper(d) == d.level + 1

childLevel(d) == IF d.bareID = <<>> THEN 0 ELSE d.level + 1

\* Mutant of newChild: the child's id does not extend its parent's.
newChildDetached(d, path) ==
    [path   |-> path,
     bareID |-> IF d.count > 0 THEN appendVarint(<<>>, d.count - 1)
                ELSE <<VintEncode(Uint32Max)>>,
     level  |-> childLevel(d),
     count  |-> 0]

(***************************************************************************)
(* newChild numbers the child Count - 1: the caller has counted it before. *)
(* Count is unsigned, so a directory with nothing counted gives 2^32 - 1.  *)
(***************************************************************************)
newChild(d, path) ==
    [path   |-> path,
     bareID |-> IF d.count > 0 THEN appendVarint(d.bareID, d.count - 1)
                ELSE Append(d.bareID, VintEncode(Uint32Max)),
     level  |-> childLevel(d),
     count  |-> 0]

id(d) == appendVarint(appendVarint(<<>>, FILE), d.level) \o d.bareID

\* Mutant of lastChild: the prefix is of the directory's own level.
lastChildSameLevel(d) ==
    LET prefix == appendVarint(appendVarint(<<>>, FILE), d.level) \o d.bareID
    IN  IF d.count > 0 THEN appendVarint(prefix, d.count - 1) ELSE prefix

\* The id of d's last child so far; without one, the prefix its children will share.
lastChild(d) ==
    LET prefix == appendVarint(appendVarint(<<>>, FILE), childLevel(d)) \o d.bareID
    IN  IF d.count > 0 THEN appendVarint(prefix, d.count - 1) ELSE prefix

incCount(d) == [d EXCEPT !.count = @ + 1]

-----------------------------------------------------------------------------
(***************************************************************************)
(* The stack MetadataWriter::Dirs of the directories on the current path.  *)
(***************************************************************************)
back(dirs) == dirs[Len(dirs)]

incBack(dirs) == [dirs EXCEPT ![Len(dirs)] = incCount(@)]

\* The positions find_if visits that hold p; the search runs from the back.
Holding(dirs, p) == {i \in 1 .. Len(dirs) : dirs[i].path = p}

\* Mutant of enterDir: a new directory is counted in its parent once more.
enterDirDoubleCounting(dirs, p) ==
    IF Holding(dirs, p) = {}
    THEN Append(incBack(dirs), newChild(back(incBack(dirs)), p))
    ELSE SubSeq(dirs, 1, CHOOSE i \in Holding(dirs, p) :
                             \A j \in Holding(dirs, p) : j <= i)

(***************************************************************************)
(* setCurDir: a directory already open is uncovered, an unknown one is the *)
(* child announced by the previous entry.  Then the new entry is counted.  *)
(***************************************************************************)
enterDir(dirs, p) ==
    IF Holding(dirs, p) = {}
    THEN Append(dirs, newChild(back(dirs), p))
    ELSE SubSeq(dirs, 1, CHOOSE i \in Holding(dirs, p) :
                             \A j \in Holding(dirs, p) : j <= i)

\* Mutants of setCurDir: the entry is not counted, or in the directory left behind.
setCurDirUncounted(dirs, p) == enterDir(dirs, p)

setCurDirCountingFirst(dirs, p) == enterDir(incBack(dirs), p)

setCurDir(dirs, p) == incBack(enterDir(dirs, p))
=============================================================================
