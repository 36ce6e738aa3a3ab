---------------------------- MODULE RecordLines -----------------------------
(***************************************************************************)
(* The lines of the three outputs of dumpfs: MetadataWriter's records, and *)
(* the two maps of fsrip.cpp.                                              *)
(*                                                                         *)
(* A record is put together in a buffer, one attribute at a time, and an   *)
(* exception can end it anywhere; the maps are printed when no more        *)
(* records come.                                                           *)
(***************************************************************************)
EXTENDS JsonText

CONSTANTS
    Names,      \* the strings that names, paths and links may be
    MaxAttrs,   \* bound: the attributes of an inode
    MaxRuns     \* bound: the runs of an attribute, its owners and links

ASSUME LinesAssumption == Names \subseteq Strings /\ MaxAttrs \in Nat /\ MaxRuns \in Nat

VARIABLES
    pc,         \* "idle" between callbacks, "attrs" in writeMetaRecord, "maps" behind the walks
    buf,        \* processFile's buffer
    turn,       \* the loop over the attributes: its turns,
    lastAttr,   \*   and whether an attribute has been written
    line        \* the line that the last step put out, or <<>>

vars == <<pc, buf, turn, lastAttr, line>>

UpTo(S, n) == UNION {[1 .. m -> S] : m \in 0 .. n}

-----------------------------------------------------------------------------
\* writeFile as far as the name.
fileText(path) ==
    <<"{">> \o plainPairs(<<"id", "parent", "children">>, TRUE)
        \o <<",", "t", ":", "{", "fsmd", ":", "{">>
        \o <<"fs", ":", "{">>
        \o plainPairs(<<"byteOffset", "blockSize", "fsID", "volName", "volIndex">>, TRUE)
        \o <<"}">> \o pair("path", j(path), FALSE)

\* writeNameRecord, where there is a name.
nameText(name, shortName) ==
    <<",", "name", ":", "{">> \o plainPairs(<<"flags", "meta_addr", "meta_seq">>, TRUE)
        \o pair("name", j(name), FALSE) \o plainPairs(<<"par_addr", "par_seq">>, FALSE)
        \o pair("shrt_name", j(shortName), FALSE) \o plainPairs(<<"type">>, FALSE) \o <<"}">>

\* writeMetaRecord as far as the attributes; link is a sequence of at most one.
metaText(link, fsTimes) ==
    <<",", "meta", ":", "{">>
        \o plainPairs(<<"addr", "accessed", "content_len", "created", "metadata", "flags", "gid">>,
                      TRUE)
        \o (IF link = <<>> THEN <<>> ELSE pair("link", j(link[1]), FALSE))
        \o plainPairs(fsTimes, FALSE)
        \o plainPairs(<<"mode", "modified", "nlink", "seq", "size", "type", "uid">>, FALSE)
        \o <<",", "attrs", ":", "[">>

\* The end of a record, with or without metadata.
metaEnd   == <<"]", "}", "}">> \o plainPairs(<<"__link">>, FALSE) \o <<"}", "}">>
noMetaEnd == <<"}", "}", "}">>

\* writeAttr; of its runs only those that are no fillers are printed.
runText == <<"{">> \o plainPairs(<<"addr", "flags", "len", "offset">>, TRUE) \o <<"}">>

attrText(name, resident, nonres, runs) ==
    LET printed == Cardinality({i \in DOMAIN runs : runs[i] # "filler"})
    IN  <<"{">> \o plainPairs(<<"flags", "id">>, TRUE) \o pair("name", j(name), FALSE)
            \o plainPairs(<<"size", "type", "rd_buf_size", "nrd_allocsize", "nrd_compsize",
                            "nrd_initsize", "nrd_skiplen">>, FALSE)
            \o (IF resident THEN plainPairs(<<"rd_buf">>, FALSE) ELSE <<>>)
            \o (IF nonres
                THEN pair("nrd_runs",
                          <<"[">> \o writeSequence([i \in 1 .. printed |-> runText]) \o <<"]">>, FALSE)
                ELSE <<>>)
            \o <<"}">>

-----------------------------------------------------------------------------
Init ==
    /\ pc = "idle" /\ buf = <<>> /\ turn = 0 /\ lastAttr = FALSE
    /\ line = <<>>

\* writeFile, as far as the loop over the attributes or, without metadata, to the end.
WriteFile ==
    /\ pc = "idle"
    /\ \E path \in Names, name \in UpTo(Names \X Names, 1) :
          LET text == fileText(path) \o (IF name = <<>> THEN <<>>
                                         ELSE nameText(name[1][1], name[1][2]))
          IN  \/ buf' = text \o noMetaEnd /\ pc' = "end"
              \/ /\ \E link \in UpTo(Names, 1), fsTimes \in {<<>>, <<"dtime">>, <<"bkup_time">>} :
                       buf' = text \o metaText(link, fsTimes)
                 /\ pc' = "attrs"
    /\ turn' = 0 /\ lastAttr' = FALSE
    /\ line' = <<>>

\* Mutant of Separator: the comma goes by the position in the list, not by what was written.
SeparatorByPosition == IF turn > 0 THEN <<",">> ELSE <<>>

Separator == IF lastAttr THEN <<",">> ELSE <<>>

\* One turn of the loop over the attributes, of which those in use are written.
WriteAttr ==
    /\ pc = "attrs" /\ turn < MaxAttrs
    /\ turn' = turn + 1
    /\ \/ UNCHANGED <<buf, lastAttr>>     \* not in use
       \/ /\ \E name \in Names, resident, nonres \in BOOLEAN, runs \in UpTo({"data", "filler"}, MaxRuns) :
                buf' = buf \o Separator \o attrText(name, resident, nonres, runs)
          /\ lastAttr' = TRUE
    /\ line' = <<>>
    /\ UNCHANGED pc

EndMeta ==
    /\ pc = "attrs"
    /\ buf' = buf \o metaEnd /\ pc' = "end"
    /\ line' = <<>>
    /\ UNCHANGED <<turn, lastAttr>>

\* The record is whole: processFile puts it out with a newline.
WriteLine ==
    /\ pc = "end"
    /\ line' = buf /\ buf' = <<>> /\ pc' = "idle"
    /\ UNCHANGED <<turn, lastAttr>>

\* An exception: the handler logs it, and the buffer is dropped.
Throw ==
    /\ pc \in {"attrs", "end"}
    /\ buf' = <<>> /\ pc' = "idle"
    /\ line' = <<>>
    /\ UNCHANGED <<turn, lastAttr>>

StartMaps ==
    /\ pc = "idle"
    /\ pc' = "maps" /\ line' = <<>>
    /\ UNCHANGED <<buf, turn, lastAttr>>

\* outputDiskMap: a segment that has n owners.
diskMapLine(n) ==
    LET owner == <<"{">> \o plainPairs(<<"vol", "inum", "attrId", "s", "drbeg", "fo">>, TRUE) \o <<"}">>
    IN  <<"{">> \o plainPairs(<<"id">>, TRUE) \o <<",", "t", ":", "{", "i", ":", "{">>
            \o plainPairs(<<"b", "l">>, TRUE) \o <<",", "f", ":", "[">>
            \o writeSequence([i \in 1 .. n |-> owner]) \o <<"]", "}", "}", "}">>

DiskMapLine ==
    /\ pc = "maps"
    /\ \E n \in 1 .. MaxRuns : line' = diskMapLine(n)
    /\ UNCHANGED <<pc, buf, turn, lastAttr>>

\* outputInodeMap: an inode that has n entries and, per attribute, so many runs of data and
\* of slack.
inodeMapLine(n, attrs) ==
    LET runs(m) == <<"[">> \o writeSequence([i \in 1 .. m |->
                       <<"{">> \o plainPairs(<<"fo", "start", "end">>, TRUE) \o <<"}">>]) \o <<"]">>
        attr(a) == <<"{">>
                       \o plainPairs(<<"id", "type", "size", "slack_size", "resident",
                                       "resident_data">>, TRUE)
                       \o pair("runs", runs(a[1]), FALSE) \o pair("slack_runs", runs(a[2]), FALSE)
                       \o <<"}">>
    IN  <<"{">> \o plainPairs(<<"id">>, TRUE) \o <<",", "t", ":", "{", "hardlinks", ":", "[">>
            \o writeSequence([i \in 1 .. n |-> <<"val">>]) \o <<"]", ",", "attrData", ":", "[">>
            \o writeSequence([i \in 1 .. Len(attrs) |-> attr(attrs[i])]) \o <<"]", "}", "}">>

InodeMapLine ==
    /\ pc = "maps"
    /\ \E n \in 0 .. MaxRuns, attrs \in UpTo((0 .. MaxRuns) \X (0 .. MaxRuns), MaxAttrs) :
          line' = inodeMapLine(n, attrs)
    /\ UNCHANGED <<pc, buf, turn, lastAttr>>

Next ==
    \/ WriteFile \/ WriteAttr \/ EndMeta \/ WriteLine \/ Throw
    \/ StartMaps \/ DiskMapLine \/ InodeMapLine

Spec == Init /\ [][Next]_vars

-----------------------------------------------------------------------------
\* Every line that reaches an output is one JSON object without repeated members, whatever
\* entries, attributes, runs and owners are printed or left out, and wherever an exception
\* cuts the writing of a record short.
LinesAreJson == line # <<>> => IsJson(line)
=============================================================================
