------------------------------- MODULE Labels -------------------------------
(***************************************************************************)
(* The texts for libtsk's enumerations (enums.cpp): a type is looked up in *)
(* a table, of which names and inodes have one each; flags are the labels  *)
(* of their bits, one behind the other.                                    *)
(***************************************************************************)
EXTENDS Integers, SequencesExt

\* The bits of an enumeration in the order in which they are looked at, with their labels.
\* "other" is a bit that the code does not know.
MetaFlags == <<<<"ALLOC", "Allocated">>, <<"UNALLOC", "Deleted">>, <<"USED", "Used">>,
               <<"UNUSED", "Unused">>, <<"COMP", "Compressed">>, <<"ORPHAN", "Orphan">>>>
NameFlags == <<<<"ALLOC", "Allocated">>, <<"UNALLOC", "Deleted">>>>
AttrFlags == <<<<"INUSE", "In Use">>, <<"NONRES", "Non-resident">>, <<"RES", "Resident">>,
               <<"ENC", "Encrypted">>, <<"COMP", "Compressed">>, <<"SPARSE", "Sparse">>,
               <<"RECOVERY", "Recovered">>>>

Bits(table) == {table[n][1] : n \in DOMAIN table} \cup {"other"}

\* libtsk's numbering of the types: a name's and an inode's differ.
NameTypes == <<"UNDEF", "FIFO", "CHR", "DIR", "BLK", "REG", "LNK", "SOCK", "SHAD", "WHT", "VIRT">>
MetaTypes == <<"UNDEF", "REG", "DIR", "FIFO", "CHR", "BLK", "LNK", "SHAD", "SOCK", "WHT", "VIRT">>

\* Mutant of nameType: the labels are in the order of the inode's types.
nameTypeOfMeta(type) ==
    LET types == <<"Undefined", "File", "Folder", "Named Pipe", "Character Device", "Block Device",
                   "Symbolic Link", "Shadow Inode", "Domain Socket", "Whiteout Inode", "Virtual">>
    IN  IF type < Len(types) THEN types[type + 1] ELSE types[1]

nameType(type) ==
    LET types == <<"Undefined", "Named Pipe", "Character Device", "Folder", "Block Device", "File",
                   "Symbolic Link", "Domain Socket", "Shadow Inode", "Whiteout Inode", "Virtual">>
    IN  IF type < Len(types) THEN types[type + 1] ELSE types[1]

metaType(type) ==
    LET types == <<"Undefined", "File", "Folder", "Named Pipe", "Character Device", "Block Device",
                   "Symbolic Link", "Shadow Inode", "Domain Socket", "Whiteout Inode", "Virtual">>
    IN  IF type < Len(types) THEN types[type + 1] ELSE types[1]

\* typeMatch, which goes by the enumerators.
typeMatch(n, m) ==
    LET of(types, type) == IF type < Len(types) THEN types[type + 1] ELSE "unknown"
    IN  \/ /\ of(NameTypes, n) = of(MetaTypes, m)
           /\ of(NameTypes, n) \in {NameTypes[i] : i \in 2 .. Len(NameTypes)}
        \/ of(NameTypes, n) = "UNDEF"

-----------------------------------------------------------------------------
\* Mutant of Label: nothing is noted of a label that a divider comes before.
LabelUnnoted(s, label) ==
    [has |-> ~s.has, buf |-> IF s.has THEN s.buf \o <<", ", label>> ELSE Append(s.buf, label)]

Label(s, label) ==
    [has |-> TRUE, buf |-> IF s.has THEN s.buf \o <<", ", label>> ELSE Append(s.buf, label)]

\* metaFlags, nameFlags, attrFlags: one bit after the other.
flagText(table, flags) ==
    FoldLeft(LAMBDA s, entry : IF entry[1] \in flags THEN Label(s, entry[2]) ELSE s,
             [has |-> FALSE, buf |-> <<>>], table).buf
=============================================================================
