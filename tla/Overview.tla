------------------------------ MODULE Overview ------------------------------
(***************************************************************************)
(* The overview document: what "info" prints and --overview-file gets, of  *)
(* the volume system, the volumes and the file systems of an image.        *)
(*                                                                         *)
(* An image is a record of what libtsk finds in it: vs, whether there is a *)
(* volume system; parts, for each of its volumes, whether it has a file    *)
(* system; fs, whether there is a file system on the image itself; and the *)
(* names of its segment files.                                             *)
(***************************************************************************)
EXTENDS JsonText

Image == [files : Seq(Strings), vs : BOOLEAN, parts : Seq(BOOLEAN), fs : BOOLEAN]

\* outputFS: always a further member.
outputFS ==
    <<",", "filesystem", ":", "{">>
        \o plainPairs(<<"numBlocks", "blockSize", "deviceBlockSize", "blockName", "littleEndian",
                        "firstBlock", "firstInum", "flags", "fsID", "type", "typeName",
                        "journalInum", "numInums", "lastBlock", "lastBlockAct", "lastInum",
                        "byteOffset", "rootInum">>, TRUE)
        \o <<"}">>

\* j(const std::weak_ptr<Volume>&), of a volume that is still there.
volumeText(hasFs) ==
    <<"{">> \o plainPairs(<<"description", "flags", "numBlocks", "slotNum", "startBlock", "tableNum">>, TRUE)
        \o (IF hasFs THEN outputFS ELSE <<>>) \o <<"}">>

\* Mutant of volumesText: each volume ends with a comma.
volumesTextTrailing(parts) == FlattenSeq([i \in 1 .. Len(parts) |-> volumeText(parts[i]) \o <<",">>])

volumesText(parts) == writeSequence([i \in 1 .. Len(parts) |-> volumeText(parts[i])])

volumeSystemText(img) ==
    <<",", "volumeSystem", ":", "{">>
        \o plainPairs(<<"type", "description", "blockSize", "numVolumes", "offset">>, TRUE)
        \o (IF img.parts = <<>> THEN <<>>
            ELSE <<",", "volumes", ":", "[">> \o volumesText(img.parts) \o <<"]">>)
        \o <<"}">>

\* The segment files and what follows them, as far as the volume system.
filesText(files) ==
    <<"{", "files", ":", "[">> \o writeSequence([i \in 1 .. Len(files) |-> j(files[i])]) \o <<"]">>
        \o plainPairs(<<"description", "size", "sectorSize">>, FALSE)

\* operator<<(std::ostream&, const Image&).
imageText(img) ==
    filesText(img.files)
        \o (IF img.vs THEN volumeSystemText(img) ELSE IF img.fs THEN outputFS ELSE <<>>)
        \o <<"}">>

\* ImageInfo::start has a text of its own, for the volume system ...
infoVolumeSystem(parts) ==
    LET volumes == <<",", "volumes", ":", "[">>
                       \o writeSequence([i \in 1 .. Len(parts) |-> volumeText(parts[i])]) \o <<"]">>
    IN  <<",", "volumeSystem", ":", "{">>
            \o plainPairs(<<"type", "description", "blockSize", "numVolumes", "offset">>, TRUE)
            \o (IF Len(parts) > 0 THEN volumes ELSE <<>>)
            \o <<"}">>

\* ... and around it.  Its list of files goes to std::cout: that is Out, too (createVisitor).
infoText(img) ==
    <<"{", "files", ":", "[">> \o writeSequence([i \in 1 .. Len(img.files) |-> j(img.files[i])]) \o <<"]">>
        \o plainPairs(<<"description", "size", "sectorSize">>, FALSE)
        \o (CASE img.vs -> infoVolumeSystem(img.parts)
              [] ~img.vs /\ img.fs -> outputFS
              [] OTHER -> <<>>)
        \o <<"}">>
=============================================================================
