-------------------------------- MODULE Texts -------------------------------
(***************************************************************************)
(* The texts that fsrip prints: the lines of RecordLines, and the fields   *)
(* in them whose text is computed.  Nothing passes from one field to       *)
(* another or to the line, so a behavior either is about lines or is the   *)
(* conversion of one field.                                                *)
(***************************************************************************)
EXTENDS RecordLines, Timestamp, Labels, HexIds, IdCodec

CONSTANTS
    Nanoseconds,    \* of times
    Indexes,        \* volume indexes
    Numbers,        \* inode numbers and byte offsets
    ByteStrings,    \* file system ids
    Words           \* integers that ids are made of

ASSUME TextsAssumption ==
    /\ \A ns \in Nanoseconds : ns \in Nat /\ ns < 1000000000
    /\ Indexes \subseteq Nat /\ Numbers \subseteq Nat /\ ByteStrings \subseteq Seq(0 .. 255)
    /\ Words \subseteq Word

VARIABLES
    field,      \* the kind of field that has been converted, "none" before, and its data
    text        \* its text

fieldVars == <<field, text>>

TextsInit == Init /\ field = <<"none">> /\ text = <<>>

\* formatTimestamp.
FormatTimestamp ==
    \E ns \in Nanoseconds : field' = <<"time", ns>> /\ text' \in formatTimestamp(ns)

\* metaFlags, nameFlags and attrFlags.
FormatFlags ==
    \E table \in {MetaFlags, NameFlags, AttrFlags} : \E flags \in SUBSET Bits(table) :
        field' = <<"flags", table, flags>> /\ text' = flagText(table, flags)

\* nameType and metaType, for the two halves of a record.
FormatTypes ==
    \E n \in 0 .. 11, m \in 0 .. 12 :
        field' = <<"types", n, m>> /\ text' = <<nameType(n), metaType(m)>>

MakeId ==
    \/ \E v \in Indexes, n \in Numbers :
          field' = <<"inode", v, n>> /\ text' = str(makeInodeID(v, n))
    \/ \E n \in Numbers : field' = <<"disk", n>> /\ text' = str(makeDiskMapID(n))

FormatBytes ==
    \E bytes \in ByteStrings :
        \/ field' = <<"bytes", bytes>> /\ text' = str(bytesAsString(bytes))
        \/ field' = <<"fsID", bytes>> /\ text' = str(fsIDAsString(bytes))

AppendVarints ==
    \E words \in UpTo(Words, 2) : field' = <<"id", words>> /\ text' = Identifier(words)

Convert ==
    /\ Init /\ field = <<"none">>
    /\ \/ FormatTimestamp \/ FormatFlags \/ FormatTypes \/ MakeId \/ FormatBytes \/ AppendVarints
    /\ UNCHANGED vars

Lines == field = <<"none">> /\ Next /\ UNCHANGED fieldVars

TextsSpec == TextsInit /\ [][Convert \/ Lines]_<<vars, fieldVars>>

-----------------------------------------------------------------------------
\* What the digits behind the point stand for, in units of ten nanoseconds; a digit that is
\* not there is a zero.
ReadUnits ==
    LET digit(n) == IF n < Len(text) THEN text[n + 1] ELSE 0
        units[n \in 0 .. Precision] == IF n = 0 THEN 0 ELSE 10 * units[n - 1] + digit(n)
    IN  units[Precision]

\* A fraction reads back as the nanoseconds, to the nearest ten, with a point and no more
\* zeroes than it needs: between the values that print as nothing and the ones that print
\* as a whole second.
FractionReadsBack ==
    field[1] = "time" /\ field[2] > 5 /\ field[2] < 999999995 =>
        /\ Head(text) = Point /\ Point \notin {Tail(text)[i] : i \in DOMAIN Tail(text)}
        /\ 10 * ReadUnits - field[2] \in -5 .. 5
        /\ text[Len(text)] \in 1 .. 9

\* A text of flags reads back: the labels of exactly the bits that are set and known, each
\* once, with a divider between any two of them and none at the ends.
FlagsReadBack ==
    field[1] = "flags" =>
        LET labels == {text[i] : i \in {n \in DOMAIN text : n % 2 = 1}}
        IN  /\ \A i \in DOMAIN text : (text[i] = ", ") = (i % 2 = 0)
            /\ labels = {entry[2] : entry \in {e \in ToSet(field[2]) : e[1] \in field[3]}}
            /\ Len(text) = IF labels = {} THEN 0 ELSE 2 * Cardinality(labels) - 1

\* Where a record has both a name and an inode because typeMatch lets it (writeFile), their
\* types have the same text, unless the name has none: the tables of enums.cpp agree with
\* the "two different lists of the same elements" of walkers.cpp:595.
TypesAgree ==
    field[1] = "types" /\ typeMatch(field[2], field[3]) => text[1] \in {text[2], "Undefined"}

\* The number that the digits first to last stand for.
At(first, last) ==
    LET number[n \in first - 1 .. last] == IF n < first THEN 0 ELSE 16 * number[n - 1] + text[n]
    IN  number[last]

\* Ids of inodes and of segments read back by position, in hex, whatever their numbers: 2
\* digits of the record type, 8 of the index, 16 of the inode or offset.  The bytes of ids
\* made of codewords, and of the fsID of records, read back in twos.
IdsReadBack ==
    /\ field[1] = "inode" => /\ Len(text) = 26 /\ At(1, 2) = INODE
                             /\ At(3, 10) = field[2] /\ At(11, 26) = field[3]
    /\ field[1] = "disk"  => Len(text) = 18 /\ At(1, 2) = DISK_MAP /\ At(3, 18) = field[2]
    /\ field[1] = "bytes" => /\ Len(text) = 2 * Len(field[2])
                             /\ \A i \in DOMAIN field[2] : At(2 * i - 1, 2 * i) = field[2][i]
    /\ field[1] \in {"inode", "disk", "bytes"} => text \in Seq(0 .. 15)

\* The fsID in the overview is the fsID in the records, which is printed by other code,
\* exactly if no byte is less than 16.
FsIdsAgree ==
    field[1] = "fsID" =>
        (text = str(bytesAsString(field[2])) <=> \A i \in DOMAIN field[2] : field[2][i] >= 16)

\* What is read back are the integers appended, in their order and none cut in two, so
\* that a byte string is the identifier of one sequence of integers only.
VarintsReadBack == field[1] = "id" => ReadVarints(text) = field[2]

\* The encodings of integers sort as the integers do: siblings are in the order of the walk.
OrderPreserved ==
    field[1] = "id" =>
        \A v, w \in {field[2][i] : i \in DOMAIN field[2]} :
            Before(v, w) <=> Before(VintEncode(v), VintEncode(w))
=============================================================================
