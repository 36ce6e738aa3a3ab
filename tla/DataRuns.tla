------------------------------ MODULE DataRuns ------------------------------
(***************************************************************************)
(* What MetadataWriter::writeAttr and markDataRun record of a file's data: *)
(* which bytes of the disk each attribute of each inode occupies.          *)
(*                                                                         *)
(* boost's interval_map from bytes to sets of AttrRunInfo is modelled      *)
(* pointwise: a function from the occupied bytes to the sets.  It joins    *)
(* neighbours with equal sets, so its segments are the maximal intervals   *)
(* on which the function is constant.                                      *)
(***************************************************************************)
EXTENDS Integers, Sequences

AtMost(a, b)  == IF a <= b THEN a ELSE b
AtLeast(a, b) == IF a >= b THEN a ELSE b

NoRuns == [b \in {} |-> {}]

\* Runs += make_pair(right_open(beg, end), AttrSet{{info}})
AddInterval(map, beg, end, info) ==
    [b \in DOMAIN map \cup (beg .. end - 1) |->
        (IF b \in DOMAIN map THEN map[b] ELSE {})
            \cup (IF b \in beg .. end - 1 THEN {info} ELSE {})]

SegmentStarts(map) ==
    {b \in DOMAIN map : b - 1 \in DOMAIN map => map[b - 1] # map[b]}

\* The exclusive end of the segment that starts at b.
SegmentEnd(map, b) ==
    CHOOSE e \in {c + 1 : c \in DOMAIN map} :
        /\ e > b
        /\ \A c \in b .. e - 1 : c \in DOMAIN map /\ map[c] = map[b]
        /\ e \in DOMAIN map => map[e] # map[b]

-----------------------------------------------------------------------------
(***************************************************************************)
(* markDataRun, with range = <<FSBeg, FSEnd>>.                             *)
(***************************************************************************)
markDataRun(map, range, beg, end, offset, addr, attrID, slack) ==
    LET b == AtLeast(beg, range[1])
        e == AtMost(end, range[2])
    IN  IF b < e
        THEN AddInterval(map, b, e, [Inum |-> addr, AttrID |-> attrID, Slack |-> slack,
                                     DRBeg |-> b, Offset |-> offset])
        ELSE map

\* How many bytes of the attribute are data, the rest of its runs being slack.
mainSize(a) == IF a.comp THEN a.allocsize ELSE a.initsize

(***************************************************************************)
(* One turn of writeAttr's loop over the runs of attribute a of inode      *)
(* addr.  s carries fo and slackFo, the offsets reached in the data and in *)
(* the slack, skip, the bytes still to skip, and map.                      *)
(***************************************************************************)
WriteRun(fs, range, addr, a, s, run) ==
    IF run.flags = "filler" THEN s
    ELSE
    LET runBeg  == run.addr * fs.bs + fs.offset
        runEnd  == runBeg + run.len * fs.bs
        toSkip  == AtMost(runEnd - runBeg, s.skip)
        beg     == runBeg + toSkip
        dataEnd == AtMost(beg + (mainSize(a) - s.fo), runEnd)
        stored  == run.flags = "none"     \* a sparse run occupies nothing
        data    == IF stored /\ beg < dataEnd
                   THEN markDataRun(s.map, range, beg, dataEnd, s.fo, addr, a.id, FALSE)
                   ELSE s.map
        slack   == IF stored /\ dataEnd < runEnd
                   THEN markDataRun(data, range, dataEnd, runEnd, s.slackFo, addr, a.id, TRUE)
                   ELSE data
    IN  IF beg < runEnd
        THEN [fo |-> s.fo + (dataEnd - beg), slackFo |-> s.slackFo + (runEnd - dataEnd),
              skip |-> s.skip - toSkip, map |-> slack]
        ELSE [s EXCEPT !.skip = @ - toSkip]

\* The loop, over all runs of a non-resident attribute.
WriteRuns(fs, range, addr, a, map) ==
    LET after[n \in 0 .. Len(a.runs)] ==
            IF n = 0 THEN [fo |-> 0, slackFo |-> 0, skip |-> a.skiplen, map |-> map]
            ELSE WriteRun(fs, range, addr, a, after[n - 1], a.runs[n])
    IN  after[Len(a.runs)]

-----------------------------------------------------------------------------
(***************************************************************************)
(* struct InodeInfo, as far as attributes go: a function from attribute    *)
(* IDs (the code searches its vector by ID alone) to AttrInfo.  A vector   *)
(* of Run is the set of its elements: they are in the order of the disk.   *)
(***************************************************************************)
NewAttrInfo == [Resident |-> FALSE, SlackSize |-> 0, Runs |-> {}, SlackRuns |-> {}]

getOrInsertAttr(attrs, i) == IF i \in DOMAIN attrs THEN attrs[i] ELSE NewAttrInfo

PutAttr(attrs, i, info) ==
    [x \in DOMAIN attrs \cup {i} |-> IF x = i THEN info ELSE attrs[x]]

\* writeAttr: s has the attributes of the inode so far and the map of the disk.
writeAttr(fs, range, addr, s, a) ==
    LET old == getOrInsertAttr(s.attrs, a.id)
        res == [old EXCEPT !.Resident = @ \/ a.res]
        w   == WriteRuns(fs, range, addr, a, s.map)
    IN  IF a.nonres
        THEN [attrs |-> PutAttr(s.attrs, a.id, [res EXCEPT !.SlackSize = w.slackFo]),
              map   |-> w.map]
        ELSE [attrs |-> PutAttr(s.attrs, a.id, res), map |-> s.map]

\* The loop of writeMetaRecord over the attributes of a file.
writeAttrs(fs, range, addr, as, s) ==
    LET after[n \in 0 .. Len(as)] ==
            IF n = 0 THEN s ELSE writeAttr(fs, range, addr, after[n - 1], as[n])
    IN  after[Len(as)]

\* Mutant of RunsIn: where a run is cut in two, both begin at its offset.
RunsInUnshifted(map, inum, attrID, slack) ==
    UNION {{[FileOffset |-> i.Offset, Start |-> b, End |-> SegmentEnd(map, b)] :
                i \in {j \in map[b] : j.Inum = inum /\ j.AttrID = attrID /\ j.Slack = slack}} :
           b \in SegmentStarts(map)}

\* All that outputDiskMap learns about one attribute of one inode from a map.
RunsIn(map, inum, attrID, slack) ==
    UNION {{[FileOffset |-> i.Offset + (b - i.DRBeg), Start |-> b, End |-> SegmentEnd(map, b)] :
                i \in {j \in map[b] : j.Inum = inum /\ j.AttrID = attrID /\ j.Slack = slack}} :
           b \in SegmentStarts(map)}
=============================================================================
