-------------------------------- MODULE Fsrip -------------------------------
(***************************************************************************)
(* The program (fsrip.cpp): the command line, the walker made for the      *)
(* command, process(), and the way out.  The walk of dumpfs, which is      *)
(* MetadataWriter's, is here no more than records that come out and an end *)
(* that is good or bad.                                                    *)
(***************************************************************************)
EXTENDS Overview, Wrappers, ImageDump, FiniteSets

CONSTANTS
    CommandLines,  \* the command lines, members of CommandLine
    MaxRecords     \* bound: the records of the walks

\* A command line that Boost's parser takes or refuses; the files are given or not.
CommandLine == [parses : BOOLEAN, help : BOOLEAN, command : STRING, evFiles : BOOLEAN,
                unallocated : STRING, overview : BOOLEAN, disk : BOOLEAN, inode : BOOLEAN]

ASSUME FsripAssumption ==
    /\ CommandLines \subseteq CommandLine
    /\ MaxRecords \in Nat
    /\ \A i \in Images : i \in Image

VARIABLES
    pc,
    opts,
    records,    \* how many records the walks have made
    filed,      \* whether the runs have been filed under their inodes (outputDiskMap)
    made,       \* the files that have been opened for writing
    files,      \* what is in them
    status      \* the exit status, NoRet until it is known

fileVars == <<filed, made, files>>
outVars  == <<Out, good>>
vars     == <<pc, opts, records, fileVars, status, img, handles, calls, size, off, Out, good, ret>>

-----------------------------------------------------------------------------
Init ==
    /\ pc = "options"
    /\ opts \in CommandLines
    /\ img \in Images /\ handles = {} /\ calls = <<>>
    /\ DumpInit
    /\ records = 0
    /\ filed = FALSE /\ made = {}
    /\ files = [overview |-> <<>>, disk |-> <<>>, inode |-> <<>>]
    /\ status = NoRet

\* createVisitor, where "count" is not known.
Visitors == {"info", "dumpimg", "dumpfs", "dumpfiles"}

Walks == opts.command \in {"dumpfs", "dumpfiles"}    \* a MetadataWriter, or made from one

ParseOptions ==
    /\ pc = "options"
    /\ \/ /\ opts.parses /\ opts.help
          /\ pc' = "exit" /\ status' = 0
       \/ /\ opts.parses /\ ~opts.help
          /\ opts.evFiles /\ opts.command \in Visitors
          /\ pc' = "open" /\ UNCHANGED status
       \/ /\ opts.parses => ~opts.help /\ ~(opts.evFiles /\ opts.command \in Visitors)
          /\ pc' = "usage" /\ status' = 1
    /\ UNCHANGED <<opts, records, fileVars, wrapperVars, dumpVars>>

\* The help text on std::cout, behind an error on std::cerr.
Usage ==
    /\ pc = "usage"
    /\ pc' = "exit"
    /\ UNCHANGED <<opts, records, fileVars, status, wrapperVars, dumpVars>>

\* openImageUtf8, of The Sleuth Kit's TskAuto.
OpenImage ==
    /\ pc = "open"
    /\ \/ /\ handles' = {ImgHandle}
          /\ pc' = IF opts.overview THEN "overview" ELSE "start"
          /\ UNCHANGED status
       \/ /\ pc' = "exit" /\ status' = 1
          /\ UNCHANGED handles
    /\ UNCHANGED <<opts, records, fileVars, img, calls, dumpVars>>

\* A call of libtsk that a constructor or destructor makes.
LibtskCall == Call /\ UNCHANGED <<pc, opts, records, fileVars, status, dumpVars>>

(***************************************************************************)
(* Text goes to the ofstream of file f, which is not looked at: it may not *)
(* open, as it does not without a name, and it may not take the text.      *)
(***************************************************************************)
WriteFile(f, text) ==
    \/ UNCHANGED <<made, files>>
    \/ /\ opts[f]
       /\ made' = made \cup {f}
       /\ files' \in {[files EXCEPT ![f] = t] : t \in {<<>>, text}}

\* getImage wraps the image; the temporary is gone once it is printed.
WrapImage ==
    /\ pc = "overview"
    /\ calls' = ImageOpens
    /\ pc' = "print overview"
    /\ UNCHANGED <<opts, records, fileVars, status, img, handles, dumpVars>>

PrintOverview ==
    /\ pc = "print overview" /\ calls = <<>>
    /\ WriteFile("overview", imageText(img))
    /\ calls' = ImageCloses
    /\ pc' = "start"
    /\ UNCHANGED <<opts, records, filed, status, img, handles, dumpVars>>

-----------------------------------------------------------------------------
(***************************************************************************)
(* walker->start().                                                        *)
(***************************************************************************)
Start ==
    /\ pc = "start" /\ calls = <<>>
    /\ \/ opts.command = "info" /\ calls' = ImageOpens /\ pc' = "info"
       \/ opts.command = "dumpimg" /\ pc' = "dump" /\ UNCHANGED calls
       \/ Walks /\ pc' = "walk" /\ UNCHANGED calls
    /\ UNCHANGED <<opts, records, fileVars, status, img, handles, dumpVars>>

\* ImageInfo::start returns 0, whatever becomes of the text: a stream that fails takes none of it,
\* or a part that nobody can tell.
PrintInfo ==
    /\ pc = "info" /\ calls = <<>>
    /\ \/ Out' = infoText(img) /\ UNCHANGED good
       \/ good' = FALSE /\ UNCHANGED Out
    /\ ret' = 0
    /\ calls' = ImageCloses
    /\ pc' = "started"
    /\ UNCHANGED <<opts, records, fileVars, status, img, handles, size, off>>

DumpImage ==
    /\ pc = "dump"
    /\ DumpNext
    /\ pc' = IF ret' = NoRet THEN "dump" ELSE "started"
    /\ UNCHANGED <<opts, records, fileVars, status, wrapperVars>>

\* processFile writes a record; FileWriter's writes nothing.
Writes == opts.command = "dumpfs"

ProcessFile ==
    /\ pc \in {"walk", "unallocated"} /\ records < MaxRecords
    /\ records' = records + 1
    /\ \/ Writes /\ good /\ Out' = Append(Out, "record") /\ UNCHANGED good
       \/ Writes /\ good' = FALSE /\ UNCHANGED Out
       \/ ~Writes /\ UNCHANGED <<Out, good>>
    /\ UNCHANGED <<pc, opts, fileVars, status, wrapperVars, size, off, ret>>

WalkReturns ==
    /\ pc = "walk"
    /\ ret' \in {0, 1}
    /\ pc' = "started"
    /\ UNCHANGED <<opts, records, fileVars, status, wrapperVars, size, off, outVars>>

-----------------------------------------------------------------------------
(***************************************************************************)
(* process() once start has returned.                                      *)
(***************************************************************************)

\* Mutant of Failed: only a negative result counts.
FailedIfNegative == ret = MinusOne

Failed == ret # 0

StartFailed ==
    /\ pc = "started" /\ calls = <<>> /\ Failed
    /\ pc' = "exit" /\ status' = 1
    /\ UNCHANGED <<opts, records, fileVars, wrapperVars, dumpVars>>

\* startUnallocated does nothing but in a MetadataWriter that has a mode.
StartUnallocated ==
    /\ pc = "started" /\ calls = <<>> /\ ~Failed
    /\ pc' = IF Walks /\ opts.unallocated \in {"fragment", "block"} THEN "unallocated" ELSE "disk map"
    /\ UNCHANGED <<opts, records, fileVars, status, wrapperVars, dumpVars>>

\* Mutant of FinishWalk: the end of the second walk is taken for that of the first.
FinishWalkAgain ==
    /\ pc = "unallocated"
    /\ pc' = "started"
    /\ UNCHANGED <<opts, records, fileVars, status, wrapperVars, dumpVars>>

\* What the second walk returns is not looked at.
FinishWalk ==
    /\ pc = "unallocated"
    /\ pc' = "disk map"
    /\ UNCHANGED <<opts, records, fileVars, status, wrapperVars, dumpVars>>

\* Mutant of Counted: only an option that is given counts.
CountedIfGiven(given) == given

\* vm.count of an option that has a default value.
Counted(given) == TRUE

OutputDiskMap ==
    /\ pc = "disk map"
    /\ IF Counted(opts.disk) /\ opts.command = "dumpfs"
       THEN WriteFile("disk", <<"segments">>) /\ filed' = TRUE
       ELSE UNCHANGED fileVars
    /\ pc' = "inode map"
    /\ UNCHANGED <<opts, records, status, wrapperVars, dumpVars>>

OutputInodeMap ==
    /\ pc = "inode map"
    /\ IF Counted(opts.inode) /\ opts.command = "dumpfs"
       THEN WriteFile("inode", IF filed THEN <<"links", "runs">> ELSE <<"links">>)
       ELSE UNCHANGED <<made, files>>
    /\ pc' = "exit" /\ status' = 0
    /\ UNCHANGED <<opts, records, filed, wrapperVars, dumpVars>>

\* The walker's destructor closes the image if it has been opened, so that start has run.
DestroyWalker ==
    /\ pc = "exit"
    /\ calls' = IF ret = NoRet THEN <<>> ELSE <<Close(ImgHandle)>>
    /\ pc' = "close"
    /\ UNCHANGED <<opts, records, fileVars, status, img, handles, dumpVars>>

Exit ==
    /\ pc = "close" /\ calls = <<>>
    /\ pc' = "done"
    /\ UNCHANGED <<opts, records, fileVars, status, wrapperVars, dumpVars>>

Terminated == pc = "done" /\ UNCHANGED vars

Next ==
    \/ ParseOptions \/ Usage \/ OpenImage \/ LibtskCall \/ WrapImage \/ PrintOverview
    \/ Start \/ PrintInfo \/ DumpImage \/ ProcessFile \/ WalkReturns
    \/ StartFailed \/ StartUnallocated \/ FinishWalk \/ OutputDiskMap \/ OutputInodeMap
    \/ DestroyWalker \/ Exit
    \/ Terminated

(***************************************************************************)
(* One thread that keeps running.                                          *)
(***************************************************************************)
Spec == Init /\ [][Next]_vars /\ WF_vars(Next)

-----------------------------------------------------------------------------
\* The type invariant: between the end of one Image wrapper and the next no call is pending,
\* and what start returned is known exactly when a branch is taken on it.
TypeOK ==
    /\ pc \in {"options", "usage", "open", "overview", "print overview", "start", "info", "dump",
               "walk", "started", "unallocated", "disk map", "inode map", "exit", "close", "done"}
    /\ opts \in CommandLines /\ img \in Images /\ size \in ImageSizes
    /\ records \in 0 .. MaxRecords
    /\ off \in 0 .. size
    /\ good \in BOOLEAN /\ filed \in BOOLEAN
    /\ ret \in {0, 1, MinusOne, NoRet} /\ status \in {0, 1, NoRet}
    /\ made \subseteq {"overview", "disk", "inode"}
    /\ calls # <<>> => pc \in {"print overview", "start", "info", "started", "close"}
    /\ pc \in {"started", "unallocated", "disk map", "inode map"} => ret # NoRet

\* Every call of libtsk that the wrappers and the walker make is on a handle in the state
\* it needs: nothing is opened on a closed handle and nothing is closed twice, although
\* Images wrap the handle of a walker that goes on using it.
HandlesUsedOpen == calls # <<>> => Legal(Head(calls))

\* The image is open while a walker reads it, and on every way out all that was opened is
\* closed.
NothingLeftOpen ==
    /\ pc \in {"dump", "walk", "unallocated"} => handles = {ImgHandle}
    /\ pc = "done" => handles = {}

\* Status 0 of dumpimg means that std::cout has taken the image, each byte once and in
\* order, whatever short reads there were and whichever other options were given.
DumpTaken ==
    opts.command = "dumpimg" =>
        /\ Out = Bytes(0, Len(Out))
        /\ ret = 0 \/ (pc = "done" /\ status = 0 /\ ~opts.help) => Out = Bytes(0, size)

\* The text of the overview file is one JSON value that shows each file system libtsk
\* finds, and "info" prints the same one, although by code of its own.
OverviewIsJson ==
    /\ pc = "start" /\ calls = <<>> /\ files.overview # <<>> =>
           /\ IsJson(files.overview)
           /\ Cardinality({n \in DOMAIN files.overview : files.overview[n] = "filesystem"})
                  = IF img.vs THEN Cardinality({n \in DOMAIN img.parts : img.parts[n]})
                    ELSE IF img.fs THEN 1 ELSE 0
    /\ pc = "started" /\ opts.command = "info" /\ good /\ files.overview # <<>> => Out = files.overview

\* The maps are there only behind a walk that went well, and a failure of start always shows
\* in the exit status.
MapsFollowWalk ==
    /\ made \cap {"disk", "inode"} # {} => opts.command = "dumpfs" /\ ret = 0
    /\ pc = "done" /\ opts.parses /\ ~opts.help => (status = 0 <=> ret = 0)

\* The inode map has the runs of the inodes, which outputDiskMap files, also when only
\* --inode-map-file is given.
InodeMapHasRuns == files.inode # <<>> => "runs" \in {files.inode[n] : n \in DOMAIN files.inode}

\* The program ends, as long as libtsk reads something of an image that has not ended.
Exits == <>(pc = "done")

=============================================================================
