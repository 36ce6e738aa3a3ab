---------------------------- MODULE Fsrip_proofs ----------------------------
(***************************************************************************)
(* For every command line and every image: what dumpimg puts out, what the *)
(* exit status and the files say, which handles of libtsk are open, and    *)
(* that the overview is JSON and shows each file system.                   *)
(***************************************************************************)
EXTENDS Fsrip, JsonText_proofs

-----------------------------------------------------------------------------
(***************************************************************************)
(* The pieces of the image that are written.                               *)
(***************************************************************************)

LEMMA BytesType ==
    ASSUME NEW a \in Nat, NEW b \in Nat, a <= b
    PROVE  /\ Bytes(a, b) \in Seq(Nat)
           /\ Len(Bytes(a, b)) = b - a
           /\ \A i \in 1 .. b - a : Bytes(a, b)[i] = a + i - 1
  BY DEF Bytes

\* Bytes a to b, and b to c behind them, are the bytes a to c.
LEMMA BytesJoin ==
    ASSUME NEW a \in Nat, NEW b \in Nat, NEW c \in Nat, a <= b, b <= c
    PROVE  Bytes(a, b) \o Bytes(b, c) = Bytes(a, c)
<1> DEFINE s == Bytes(a, b)  t == Bytes(b, c)
<1>1. /\ s \in Seq(Nat) /\ Len(s) = b - a
      /\ \A i \in 1 .. b - a : s[i] = a + i - 1
  BY BytesType
<1>2. /\ t \in Seq(Nat) /\ Len(t) = c - b
      /\ \A i \in 1 .. c - b : t[i] = b + i - 1
  BY BytesType
<1>3. /\ Bytes(a, c) \in Seq(Nat) /\ Len(Bytes(a, c)) = c - a
      /\ \A i \in 1 .. c - a : Bytes(a, c)[i] = a + i - 1
  BY BytesType
<1> HIDE DEF s, t
<1>4. s \o t \in Seq(Nat) /\ Len(s \o t) = c - a
  <2>1. s \o t \in Seq(Nat) /\ Len(s \o t) = Len(s) + Len(t)
    BY <1>1, <1>2, ConcatProperties, Zenon
  <2>2. (b - a) + (c - b) = c - a
    OBVIOUS
  <2> QED  BY <1>1, <1>2, <2>1, <2>2
<1>5. ASSUME NEW i \in 1 .. Len(s \o t)
      PROVE  (s \o t)[i] = Bytes(a, c)[i]
  <2>1. i \in 1 .. Len(s) + Len(t)
    BY <1>1, <1>2, <1>4
  <2>2. (s \o t)[i] = IF i <= Len(s) THEN s[i] ELSE t[i - Len(s)]
    BY <1>1, <1>2, <2>1, ConcatProperties
  <2> QED  BY <1>1, <1>2, <1>3, <2>1, <2>2, SMTT(30)
<1>6. s \o t = Bytes(a, c)
  BY <1>3, <1>4, <1>5, SeqEqual
<1> QED  BY <1>6 DEF s, t

-----------------------------------------------------------------------------
(***************************************************************************)
(* The loop.                                                               *)
(***************************************************************************)

\* While the loop runs, all that has been read is out; once it has ended, what is out is the
\* beginning of the image, and with 0 all of it.
DumpInv ==
    /\ size \in Nat /\ off \in 0 .. size
    /\ Out = Bytes(0, Len(Out)) /\ Len(Out) \in 0 .. size
    /\ ret \in {0, MinusOne, NoRet}
    /\ ret = NoRet => Len(Out) = off
    /\ ret = 0 => Len(Out) = size

LEMMA DumpInitInv == DumpInit => DumpInv
<1>1. Bytes(0, 0) = <<>>
  BY DEF Bytes
<1>2. Len(<<>>) = 0
  OBVIOUS
<1> QED  BY <1>1, <1>2, DumpAssumption DEF DumpInit, DumpInv, NoRet, MinusOne

LEMMA DumpStepInv == DumpInv /\ DumpNext => DumpInv'
<1> SUFFICES ASSUME DumpInv, DumpNext  PROVE DumpInv'
  OBVIOUS
<1> USE DEF NoRet, MinusOne
<1>1. ASSUME ReadFails  PROVE DumpInv'
  BY <1>1 DEF DumpInv, ReadFails
<1>2. ASSUME Returns  PROVE DumpInv'
  BY <1>2 DEF DumpInv, Returns
<1>3. ASSUME Turn  PROVE DumpInv'
  <2>0. PICK rlen \in ReadLengths :
          /\ off' = nextOffset(rlen)
          /\ \/ /\ good
                /\ Out' = Out \o Bytes(off, off + rlen)
                /\ UNCHANGED <<good, ret>>
             \/ /\ \E n \in 0 .. rlen : Out' = Out \o Bytes(off, off + n)
                /\ good' = FALSE
                /\ ret' = MinusOne
    BY <1>3, Zenon DEF Turn
  <2>1. /\ off' = off + rlen
        /\ \/ /\ Out' = Out \o Bytes(off, off + rlen)
              /\ UNCHANGED ret
           \/ /\ \E n \in 0 .. rlen : Out' = Out \o Bytes(off, off + n)
              /\ ret' = MinusOne
    BY <2>0 DEF nextOffset
  <2>2. rlen \in Nat /\ off + rlen <= size /\ size' = size /\ ret = NoRet
    BY <1>3, DumpAssumption DEF Turn, ReadLengths, DumpInv
  <2>3. off \in Nat /\ Out = Bytes(0, off)
    BY <2>2 DEF DumpInv
  <2>4. ASSUME NEW n \in 0 .. rlen, Out' = Out \o Bytes(off, off + n)
        PROVE  Out' = Bytes(0, off + n) /\ Len(Out') = off + n
    <3>1. n \in Nat /\ off + n \in Nat
      BY <2>2, <2>3
    <3>2. Out' = Bytes(0, off + n)
      <4>1. Bytes(0, off) \o Bytes(off, off + n) = Bytes(0, off + n)
        <5>1. 0 \in Nat /\ 0 <= off /\ off <= off + n
          BY <2>3, <3>1
        <5> QED  BY <2>3, <3>1, <5>1, BytesJoin
      <4> QED  BY <2>3, <2>4, <4>1, Zenon
    <3>3. Len(Bytes(0, off + n)) = off + n
      BY <3>1, BytesType
    <3> QED  BY <3>2, <3>3
  <2>5. CASE Out' = Out \o Bytes(off, off + rlen) /\ UNCHANGED ret
    <3>1. rlen \in 0 .. rlen
      BY <2>2
    <3>2. Out' = Bytes(0, off + rlen) /\ Len(Out') = off + rlen
      BY <2>4, <2>5, <3>1
    <3>3. Len(Out') \in 0 .. size' /\ off' \in 0 .. size' /\ ret' = NoRet
      BY <2>1, <2>2, <2>3, <2>5, <3>2
    <3>4. Out' = Bytes(0, Len(Out'))
      BY <3>2
    <3> QED  BY <2>1, <2>2, <3>2, <3>3, <3>4 DEF DumpInv
  <2>6. CASE (\E n \in 0 .. rlen : Out' = Out \o Bytes(off, off + n)) /\ ret' = MinusOne
    <3>1. PICK n \in 0 .. rlen : Out' = Out \o Bytes(off, off + n)
      BY <2>6
    <3>2. Out' = Bytes(0, off + n) /\ Len(Out') = off + n
      BY <2>4, <3>1
    <3>3. Len(Out') \in 0 .. size' /\ off' \in 0 .. size' /\ ret' = MinusOne
      <4>1. off + n \in 0 .. size /\ off + rlen \in 0 .. size
        BY <2>2, <2>3 DEF DumpInv
      <4>2. off' = off + rlen
        BY <2>1
      <4> QED  BY <2>2, <2>6, <3>2, <4>1, <4>2
    <3>4. Out' = Bytes(0, Len(Out'))
      BY <3>2
    <3> QED  BY <2>1, <2>2, <3>2, <3>3, <3>4 DEF DumpInv
  <2> QED  BY <2>1, <2>5, <2>6
<1> QED  BY <1>1, <1>2, <1>3 DEF DumpNext

LEMMA DumpInvImplies == DumpInv => DumpIsImage
  BY DEF DumpInv, DumpIsImage

\* What dumpimg has put out is always the beginning of the image, each byte once and in
\* order, and ImageDumper::start returns 0 only when it is all of the image: for every size
\* of the image and of the buffer, also when reads of nothing happen.
THEOREM DumpCorrect == Dump => []DumpIsImage
<1>1. DumpInit => DumpInv
  BY DumpInitInv
<1>2. DumpInv /\ [DumpNext]_dumpVars => DumpInv'
  <2>1. DumpInv /\ UNCHANGED dumpVars => DumpInv'
    BY DEF DumpInv, dumpVars
  <2> QED  BY <2>1, DumpStepInv
<1>3. DumpInv => DumpIsImage
  BY DumpInvImplies
<1> QED  BY <1>1, <1>2, <1>3, PTL DEF Dump

-----------------------------------------------------------------------------
(***************************************************************************)
(* The inductive invariant.                                                *)
(***************************************************************************)
Opening == {"options", "open", "overview", "print overview", "start", "info", "dump", "walk"}
Ending  == {"unallocated", "disk map", "inode map"}
Leaving == {"exit", "close", "done"}

\* Where the program is says what start has returned, and what the status is.
PhaseInv ==
    /\ pc \in Opening \cup Ending \cup Leaving \cup {"usage", "started"}
    /\ pc \in Opening \cup {"usage"} => ret = NoRet
    /\ pc = "started" => ret # NoRet
    /\ pc \in Ending => ret = 0
    /\ pc = "dump" => opts.command = "dumpimg"
    /\ pc = "info" => opts.command = "info"
    /\ pc \in {"walk", "unallocated"} => opts.command # "dumpimg"
    /\ pc \notin {"options", "usage"} \cup Leaving => opts.parses /\ ~opts.help
    /\ pc = "usage" => status = 1 /\ ~(opts.parses /\ opts.help)
    /\ pc \in Leaving =>
          /\ status \in {0, 1}
          /\ status = 0 /\ ~(opts.parses /\ opts.help) => ret = 0
          /\ ret = 0 => status = 0

\* dumpimg writes nothing but what its loop does.
DumpedInv == opts.command = "dumpimg" => DumpInv

\* The maps come last, the inode map after the runs have been filed.
FilesInv ==
    /\ DOMAIN files = {"overview", "disk", "inode"}
    /\ made \cap {"disk", "inode"} # {} => opts.command = "dumpfs" /\ ret = 0
    /\ pc = "inode map" /\ opts.command = "dumpfs" => filed
    /\ files["inode"] \in {<<>>, <<"links", "runs">>}

FsripInv == PhaseInv /\ DumpedInv /\ FilesInv

-----------------------------------------------------------------------------
LEMMA InitInv == Init => FsripInv
<1> SUFFICES ASSUME Init  PROVE FsripInv
  OBVIOUS
<1>1. PhaseInv
  BY DEF Init, DumpInit, PhaseInv, Opening, Ending, Leaving, NoRet
<1>2. DumpedInv
  BY DumpInitInv DEF Init, DumpedInv
<1>3. FilesInv
  <2>1. files = [overview |-> <<>>, disk |-> <<>>, inode |-> <<>>]
    BY DEF Init
  <2>2. DOMAIN files = {"overview", "disk", "inode"} /\ files["inode"] = <<>>
    BY <2>1
  <2> QED  BY <2>2 DEF Init, FilesInv
<1> QED  BY <1>1, <1>2, <1>3 DEF FsripInv

\* Writing a file leaves the others alone.
LEMMA WriteFileEffect ==
    ASSUME DOMAIN files = {"overview", "disk", "inode"},
           NEW f \in {"overview", "disk", "inode"}, NEW text, WriteFile(f, text)
    PROVE  /\ DOMAIN files' = {"overview", "disk", "inode"}
           /\ made' \subseteq made \cup {f}
           /\ f # "inode" => files'["inode"] = files["inode"]
           /\ f = "inode" => files'["inode"] \in {files["inode"], <<>>, text}
<1>1. CASE UNCHANGED <<made, files>>
  BY <1>1
<1>2. CASE /\ made' = made \cup {f}
           /\ files' \in {[files EXCEPT ![f] = t] : t \in {<<>>, text}}
  <2>1. PICK t \in {<<>>, text} : files' = [files EXCEPT ![f] = t]
    BY <1>2
  <2>2. /\ DOMAIN files' = DOMAIN files
        /\ f # "inode" => files'["inode"] = files["inode"]
        /\ f = "inode" => files'["inode"] = t
    BY <2>1
  <2> QED  BY <1>2, <2>1, <2>2
<1> QED  BY <1>1, <1>2 DEF WriteFile

\* A step that changes nothing of the loop, and none of its variables, keeps what dumpimg
\* has put out.
LEMMA DumpUntouched ==
    ASSUME DumpedInv, opts' = opts,
           opts.command = "dumpimg" => UNCHANGED dumpVars
    PROVE  DumpedInv'
  BY DEF DumpedInv, DumpInv, dumpVars

\* Before it returns start has not returned 0.
LEMMA OpeningHasNoRet == PhaseInv /\ pc \in Opening => ret # 0
<1> SUFFICES ASSUME PhaseInv, pc \in Opening  PROVE ret # 0
  OBVIOUS
<1>1. ret = NoRet
  BY DEF PhaseInv
<1> QED  BY <1>1 DEF NoRet

\* A step that touches no file keeps what is said of them.
LEMMA FilesUntouched ==
    ASSUME FilesInv, UNCHANGED <<opts, filed, made, files>>, PhaseInv,
           ret' = ret \/ pc \in Opening, pc' = "inode map" => pc = "inode map"
    PROVE  FilesInv'
<1>1. pc \in Opening => ret # 0
  BY OpeningHasNoRet
<1>2. made \cap {"disk", "inode"} # {} => ret' = 0
  BY <1>1 DEF FilesInv
<1> QED  BY <1>2 DEF FilesInv

-----------------------------------------------------------------------------
(***************************************************************************)
(* The steps.                                                              *)
(***************************************************************************)
LEMMA PhaseStep == FsripInv /\ Next => PhaseInv'
<1> SUFFICES ASSUME FsripInv, Next  PROVE PhaseInv'
  OBVIOUS
<1> USE DEF FsripInv, PhaseInv, Opening, Ending, Leaving, NoRet, MinusOne, dumpVars, wrapperVars,
            fileVars, outVars
<1>1. ASSUME ParseOptions  PROVE PhaseInv'
  BY <1>1 DEF ParseOptions
<1>2. ASSUME Usage  PROVE PhaseInv'
  BY <1>2 DEF Usage
<1>3. ASSUME OpenImage  PROVE PhaseInv'
  <2>1. /\ pc = "open" /\ ret = NoRet /\ UNCHANGED <<opts, ret>>
        /\ opts.parses /\ ~opts.help
    BY <1>3 DEF OpenImage
  <2>2. \/ pc' \in {"overview", "start"}
        \/ pc' = "exit" /\ status' = 1
    BY <1>3 DEF OpenImage
  <2>3. CASE pc' \in {"overview", "start"}
    BY <2>1, <2>3
  <2>4. CASE pc' = "exit" /\ status' = 1
    BY <2>1, <2>4
  <2> QED  BY <2>2, <2>3, <2>4
<1>4. ASSUME LibtskCall  PROVE PhaseInv'
  <2>1. pc' = pc /\ opts' = opts /\ status' = status /\ ret' = ret
    BY <1>4 DEF LibtskCall, dumpVars
  <2> QED  BY <2>1, ZenonT(30)
<1>5. ASSUME WrapImage  PROVE PhaseInv'
  BY <1>5 DEF WrapImage
<1>6. ASSUME PrintOverview  PROVE PhaseInv'
  BY <1>6 DEF PrintOverview
<1>7. ASSUME Start  PROVE PhaseInv'
  BY <1>7 DEF Start, Walks
<1>8. ASSUME PrintInfo  PROVE PhaseInv'
  BY <1>8 DEF PrintInfo
<1>9. ASSUME DumpImage  PROVE PhaseInv'
  BY <1>9 DEF DumpImage
<1>10. ASSUME ProcessFile  PROVE PhaseInv'
  BY <1>10 DEF ProcessFile
<1>11. ASSUME WalkReturns  PROVE PhaseInv'
  BY <1>11 DEF WalkReturns
<1>12. ASSUME StartFailed  PROVE PhaseInv'
  BY <1>12 DEF StartFailed, Failed
<1>13. ASSUME StartUnallocated  PROVE PhaseInv'
  BY <1>13 DEF StartUnallocated, Failed, Walks
<1>14. ASSUME FinishWalk  PROVE PhaseInv'
  BY <1>14 DEF FinishWalk
<1>15. ASSUME OutputDiskMap  PROVE PhaseInv'
  BY <1>15 DEF OutputDiskMap
<1>16. ASSUME OutputInodeMap  PROVE PhaseInv'
  BY <1>16 DEF OutputInodeMap
<1>17. ASSUME DestroyWalker  PROVE PhaseInv'
  BY <1>17 DEF DestroyWalker
<1>18. ASSUME Exit  PROVE PhaseInv'
  BY <1>18 DEF Exit
<1>19. ASSUME Terminated  PROVE PhaseInv'
  BY <1>19 DEF Terminated, vars
<1> QED  BY <1>1, <1>2, <1>3, <1>4, <1>5, <1>6, <1>7, <1>8, <1>9, <1>10, <1>11, <1>12, <1>13,
            <1>14, <1>15, <1>16, <1>17, <1>18, <1>19 DEF Next

LEMMA DumpedStep == FsripInv /\ Next => DumpedInv'
<1> SUFFICES ASSUME FsripInv, Next  PROVE DumpedInv'
  OBVIOUS
<1>1. ASSUME DumpImage  PROVE DumpedInv'
  <2>1. opts' = opts /\ DumpNext
    BY <1>1 DEF DumpImage
  <2> QED  BY <2>1, DumpStepInv DEF FsripInv, DumpedInv
<1>2. ASSUME ~DumpImage
      PROVE  opts' = opts /\ (opts.command = "dumpimg" => UNCHANGED dumpVars)
  BY <1>2 DEF Next, ParseOptions, Usage, OpenImage, LibtskCall, WrapImage, PrintOverview, Start,
              PrintInfo, ProcessFile, WalkReturns, StartFailed, StartUnallocated, FinishWalk,
              OutputDiskMap, OutputInodeMap, DestroyWalker, Exit, Terminated, vars, dumpVars,
              FsripInv, PhaseInv
<1>3. ASSUME ~DumpImage  PROVE DumpedInv'
  BY <1>2, <1>3, DumpUntouched DEF FsripInv
<1> QED  BY <1>1, <1>3

LEMMA FilesStep == FsripInv /\ Next => FilesInv'
<1> SUFFICES ASSUME FsripInv, Next  PROVE FilesInv'
  OBVIOUS
<1>1. ASSUME PrintOverview  PROVE FilesInv'
  <2>1. /\ WriteFile("overview", imageText(img))
        /\ pc' = "start" /\ UNCHANGED <<opts, filed, ret>>
    BY <1>1 DEF PrintOverview, dumpVars
  <2>2. DOMAIN files = {"overview", "disk", "inode"}
    BY DEF FsripInv, FilesInv
  <2>3. /\ DOMAIN files' = {"overview", "disk", "inode"}
        /\ made' \subseteq made \cup {"overview"}
        /\ files'["inode"] = files["inode"]
    BY <2>1, <2>2, WriteFileEffect
  <2> QED  BY <2>1, <2>3 DEF FsripInv, FilesInv
<1>2. ASSUME OutputDiskMap  PROVE FilesInv'
  <2>1. pc' = "inode map" /\ ret = 0 /\ UNCHANGED <<opts, ret>>
    BY <1>2 DEF OutputDiskMap, dumpVars, FsripInv, PhaseInv, Ending
  <2>2. CASE opts.command = "dumpfs"
    <3>1. WriteFile("disk", <<"segments">>) /\ filed' = TRUE
      BY <1>2, <2>2 DEF OutputDiskMap, Counted
    <3>2. DOMAIN files = {"overview", "disk", "inode"}
      BY DEF FsripInv, FilesInv
    <3>3. /\ DOMAIN files' = {"overview", "disk", "inode"}
          /\ files'["inode"] = files["inode"]
      BY <3>1, <3>2, WriteFileEffect
    <3> QED  BY <2>1, <2>2, <3>1, <3>3 DEF FsripInv, FilesInv
  <2>3. CASE opts.command # "dumpfs"
    BY <1>2, <2>1, <2>3 DEF OutputDiskMap, fileVars, FsripInv, FilesInv
  <2> QED  BY <2>2, <2>3
<1>3. ASSUME OutputInodeMap  PROVE FilesInv'
  <2>1. pc = "inode map" /\ pc' = "exit" /\ ret = 0 /\ UNCHANGED <<opts, filed, ret>>
    BY <1>3 DEF OutputInodeMap, dumpVars, FsripInv, PhaseInv, Ending
  <2>2. CASE opts.command = "dumpfs"
    <3>1. WriteFile("inode", <<"links", "runs">>)
      BY <1>3, <2>1, <2>2 DEF OutputInodeMap, Counted, FsripInv, FilesInv
    <3>2. DOMAIN files = {"overview", "disk", "inode"}
      BY DEF FsripInv, FilesInv
    <3>3. /\ DOMAIN files' = {"overview", "disk", "inode"}
          /\ files'["inode"] \in {files["inode"], <<>>, <<"links", "runs">>}
      BY <3>1, <3>2, WriteFileEffect
    <3> QED  BY <2>1, <2>2, <3>3 DEF FsripInv, FilesInv
  <2>3. CASE opts.command # "dumpfs"
    BY <1>3, <2>1, <2>3 DEF OutputInodeMap, FsripInv, FilesInv
  <2> QED  BY <2>2, <2>3
<1>4. ASSUME ~PrintOverview, ~OutputDiskMap, ~OutputInodeMap
      PROVE  /\ UNCHANGED <<opts, filed, made, files>>
             /\ ret' = ret \/ pc \in Opening
             /\ pc' = "inode map" => pc = "inode map"
  BY <1>4 DEF Next, ParseOptions, Usage, OpenImage, LibtskCall, WrapImage, Start, PrintInfo,
              DumpImage, ProcessFile, WalkReturns, StartFailed, StartUnallocated, FinishWalk,
              DestroyWalker, Exit, Terminated, vars, dumpVars, fileVars, Opening
<1>5. ASSUME ~PrintOverview, ~OutputDiskMap, ~OutputInodeMap  PROVE FilesInv'
  BY <1>4, <1>5, FilesUntouched DEF FsripInv
<1> QED  BY <1>1, <1>2, <1>3, <1>5

LEMMA Stutter == FsripInv /\ UNCHANGED vars => FsripInv'
<1> SUFFICES ASSUME FsripInv, UNCHANGED vars  PROVE FsripInv'
  OBVIOUS
<1>1. UNCHANGED <<pc, opts, filed, made, files, status, size, off, Out, good, ret>>
  BY DEF vars, fileVars
<1>2. PhaseInv'
  BY <1>1 DEF FsripInv, PhaseInv
<1>3. DumpedInv'
  BY <1>1, DumpUntouched DEF FsripInv, dumpVars
<1>4. FilesInv'
  BY <1>1 DEF FsripInv, FilesInv
<1> QED  BY <1>2, <1>3, <1>4 DEF FsripInv

LEMMA InvHolds == Spec => []FsripInv
<1>1. FsripInv /\ [Next]_vars => FsripInv'
  BY PhaseStep, DumpedStep, FilesStep, Stutter DEF FsripInv
<1> QED  BY <1>1, InitInv, PTL DEF Spec

-----------------------------------------------------------------------------
\* With status 0 of dumpimg, std::cout has taken the whole image, and before that its
\* beginning, for every image, buffer, command line and pattern of short reads.
THEOREM DumpTakenAlways == Spec => []DumpTaken
<1>1. FsripInv => DumpTaken
  <2> SUFFICES ASSUME FsripInv, opts.command = "dumpimg"
               PROVE  /\ Out = Bytes(0, Len(Out))
                      /\ ret = 0 \/ (pc = "done" /\ status = 0 /\ ~opts.help) => Out = Bytes(0, size)
    BY DEF DumpTaken
  <2>1. DumpInv
    BY DEF FsripInv, DumpedInv
  <2>2. pc = "done" /\ status = 0 /\ ~opts.help => ret = 0
    BY DEF FsripInv, PhaseInv, Leaving
  <2> QED  BY <2>1, <2>2 DEF DumpInv
<1> QED  BY <1>1, InvHolds, PTL

\* The maps exist only where a walk of dumpfs went well, and the exit status is 0 exactly if
\* start returned 0, for every command line that asks for something.
THEOREM MapsFollowWalkAlways == Spec => []MapsFollowWalk
<1>1. FsripInv => MapsFollowWalk
  BY DEF FsripInv, PhaseInv, FilesInv, MapsFollowWalk, Leaving
<1> QED  BY <1>1, InvHolds, PTL

\* An inode map never lacks the runs, whether or not --disk-map-file is given.
THEOREM InodeMapHasRunsAlways == Spec => []InodeMapHasRuns
<1>1. FsripInv => InodeMapHasRuns
  <2> SUFFICES ASSUME FsripInv, files.inode # <<>>
               PROVE  "runs" \in {files.inode[n] : n \in DOMAIN files.inode}
    BY DEF InodeMapHasRuns
  <2>1. files.inode = <<"links", "runs">>
    BY DEF FsripInv, FilesInv
  <2>2. 2 \in DOMAIN files.inode /\ files.inode[2] = "runs"
    BY <2>1
  <2> QED  BY <2>2
<1> QED  BY <1>1, InvHolds, PTL

-----------------------------------------------------------------------------
(***************************************************************************)
(* The calls of a constructor or destructor: one for each of some handles. *)
(***************************************************************************)
Handle == {"img", "vs", "fs"} \X Nat

LibtskCalls == [op : {"open", "close"}, handle : Handle]

\* c makes the call op on each of the handles H once, and no other.
Once(c, op, H) ==
    /\ c \in Seq(LibtskCalls)
    /\ \A i \in 1 .. Len(c) : c[i].op = op /\ c[i].handle \in H
    /\ \A h \in H : \E i \in 1 .. Len(c) : c[i].handle = h
    /\ \A i, w \in 1 .. Len(c) : c[i].handle = c[w].handle => i = w

LEMMA OnceNone == ASSUME NEW op  PROVE Once(<<>>, op, {})
  BY DEF Once

LEMMA OnceOne ==
    ASSUME NEW op \in {"open", "close"}, NEW h \in Handle
    PROVE  Once(<<[op |-> op, handle |-> h]>>, op, {h})
<1> DEFINE x == [op |-> op, handle |-> h]
<1>1. x \in LibtskCalls /\ x.op = op /\ x.handle = h
  BY DEF LibtskCalls
<1> HIDE DEF x
<1>2. <<x>> \in Seq(LibtskCalls) /\ Len(<<x>>) = 1 /\ <<x>>[1] = x
  BY <1>1
<1>3. Once(<<x>>, op, {h})
  BY <1>1, <1>2 DEF Once
<1> QED  BY <1>3 DEF x

LEMMA OnceJoin ==
    ASSUME NEW op, NEW G, NEW H, G \cap H = {}, NEW c, NEW d, Once(c, op, G), Once(d, op, H)
    PROVE  Once(c \o d, op, G \cup H)
<1> DEFINE e == c \o d
           m == Len(c)
           n == Len(d)
<1>1. c \in Seq(LibtskCalls) /\ d \in Seq(LibtskCalls) /\ m \in Nat /\ n \in Nat
  BY DEF Once
<1>2. /\ e \in Seq(LibtskCalls) /\ Len(e) = m + n
      /\ \A i \in 1 .. m + n : e[i] = IF i <= m THEN c[i] ELSE d[i - m]
  BY <1>1, ConcatProperties, Zenon
<1> HIDE DEF e
<1>3. (\A i \in 1 .. m : e[i] = c[i]) /\ \A i \in 1 .. n : e[i + m] = d[i]
  <2>1. ASSUME NEW i \in 1 .. m  PROVE e[i] = c[i]
    BY <1>1, <1>2
  <2>2. ASSUME NEW i \in 1 .. n  PROVE e[i + m] = d[i]
    <3>1. i + m \in 1 .. m + n /\ ~(i + m <= m) /\ (i + m) - m = i
      BY <1>1
    <3> QED  BY <1>2, <3>1
  <2> QED  BY <2>1, <2>2
<1>4. \A i \in 1 .. m + n : i \in 1 .. m \/ (i - m \in 1 .. n /\ i = (i - m) + m)
  BY <1>1
<1>5. (\A i \in 1 .. m : i \in 1 .. m + n) /\ \A i \in 1 .. n : i + m \in 1 .. m + n
  BY <1>1
<1> HIDE DEF m, n
<1>6. /\ \A i \in 1 .. m : c[i].op = op /\ c[i].handle \in G
      /\ \A h \in G : \E i \in 1 .. m : c[i].handle = h
      /\ \A i, w \in 1 .. m : c[i].handle = c[w].handle => i = w
  BY DEF Once, m
<1>7. /\ \A i \in 1 .. n : d[i].op = op /\ d[i].handle \in H
      /\ \A h \in H : \E i \in 1 .. n : d[i].handle = h
      /\ \A i, w \in 1 .. n : d[i].handle = d[w].handle => i = w
  BY DEF Once, n
<1>8. ASSUME NEW i \in 1 .. m + n
      PROVE  e[i].op = op /\ (e[i].handle \in IF i \in 1 .. m THEN G ELSE H)
  BY <1>3, <1>4, <1>6, <1>7
<1>9. ASSUME NEW h \in G \cup H
      PROVE  \E i \in 1 .. m + n : e[i].handle = h
  <2>1. CASE h \in G
    <3>1. PICK i \in 1 .. m : c[i].handle = h
      BY <1>6, <2>1
    <3>2. i \in 1 .. m + n /\ e[i].handle = h
      BY <1>3, <1>5, <3>1
    <3> QED  BY <3>2
  <2>2. CASE h \in H
    <3>1. PICK i \in 1 .. n : d[i].handle = h
      BY <1>7, <2>2
    <3>2. i + m \in 1 .. m + n /\ e[i + m].handle = h
      BY <1>3, <1>5, <3>1
    <3> QED  BY <3>2
  <2> QED  BY <2>1, <2>2
<1>10. ASSUME NEW i \in 1 .. m + n, NEW w \in 1 .. m + n, e[i].handle = e[w].handle
       PROVE  i = w
  <2>1. CASE i \in 1 .. m /\ w \in 1 .. m
    BY <1>3, <1>6, <1>10, <2>1
  <2>2. CASE i \notin 1 .. m /\ w \notin 1 .. m
    <3>1. i - m \in 1 .. n /\ w - m \in 1 .. n /\ i = (i - m) + m /\ w = (w - m) + m
      BY <1>4, <2>2
    <3>2. d[i - m].handle = d[w - m].handle
      BY <1>3, <1>10, <3>1
    <3>3. i - m = w - m
      BY <1>7, <3>1, <3>2
    <3> QED  BY <3>1, <3>3
  <2>3. CASE (i \in 1 .. m) # (w \in 1 .. m)
    BY <1>8, <1>10, <2>3
  <2> QED  BY <2>1, <2>2, <2>3
<1>11. \A i \in 1 .. m + n : e[i].op = op /\ e[i].handle \in G \cup H
  BY <1>8
<1> QED  BY <1>2, <1>9, <1>10, <1>11 DEF Once, e

\* After the first of the calls, the rest is for the other handles.
LEMMA OnceTail ==
    ASSUME NEW op, NEW H, NEW c, Once(c, op, H), c # <<>>
    PROVE  /\ Head(c).op = op /\ Head(c).handle \in H
           /\ Once(Tail(c), op, H \ {Head(c).handle})
<1> DEFINE t == Tail(c)
           n == Len(c)
           x == Head(c).handle
<1>1. c \in Seq(LibtskCalls) /\ n \in Nat /\ n > 0 /\ Head(c) = c[1]
  BY DEF Once
<1>2. t \in Seq(LibtskCalls) /\ Len(t) = n - 1 /\ \A i \in 1 .. n - 1 : t[i] = c[i + 1]
  BY <1>1
<1> HIDE DEF t
<1>3. \A i \in 1 .. n - 1 : i + 1 \in 1 .. n /\ i + 1 # 1
  BY <1>1
<1>4. 1 \in 1 .. n /\ \A i \in 1 .. n : i # 1 => i - 1 \in 1 .. n - 1 /\ i = (i - 1) + 1
  BY <1>1
<1>5. \A i, w \in 1 .. n - 1 : i + 1 = w + 1 => i = w
  BY <1>1
<1>6. x = c[1].handle
  BY <1>1
<1> HIDE DEF n, x
<1>7. /\ \A i \in 1 .. n : c[i].op = op /\ c[i].handle \in H
      /\ \A h \in H : \E i \in 1 .. n : c[i].handle = h
      /\ \A i, w \in 1 .. n : c[i].handle = c[w].handle => i = w
  BY DEF Once, n
<1>8. \A i \in 1 .. n - 1 : t[i].op = op /\ t[i].handle \in H \ {x}
  BY <1>2, <1>3, <1>4, <1>6, <1>7
<1>9. ASSUME NEW h \in H \ {x}
      PROVE  \E i \in 1 .. n - 1 : t[i].handle = h
  <2>1. PICK i \in 1 .. n : c[i].handle = h
    BY <1>7
  <2>2. i # 1
    BY <1>6, <2>1
  <2>3. i - 1 \in 1 .. n - 1 /\ i = (i - 1) + 1
    BY <1>4, <2>2
  <2>4. t[i - 1].handle = h
    BY <1>2, <2>1, <2>3
  <2> QED  BY <2>3, <2>4
<1>10. ASSUME NEW i \in 1 .. n - 1, NEW w \in 1 .. n - 1, t[i].handle = t[w].handle
       PROVE  i = w
  <2>1. c[i + 1].handle = c[w + 1].handle
    BY <1>2, <1>10
  <2>2. i + 1 = w + 1
    BY <1>3, <1>7, <2>1
  <2> QED  BY <1>5, <2>2
<1>11. Once(t, op, H \ {x})
  BY <1>2, <1>8, <1>9, <1>10 DEF Once
<1> QED  BY <1>1, <1>4, <1>7, <1>11 DEF t, x

LEMMA OnceDone == ASSUME NEW op, NEW H, Once(<<>>, op, H)  PROVE H = {}
  BY DEF Once

-----------------------------------------------------------------------------
(***************************************************************************)
(* The calls of the constructors of volumes, one after the other.          *)
(***************************************************************************)

\* G has the members of the first N sets of H.
Covers(G, H, N) == \A h : h \in G <=> \E i \in 1 .. N : h \in H[i]

LEMMA OnceFlatten ==
    ASSUME NEW op, NEW N \in Nat, NEW s \in Seq(Seq(LibtskCalls)), Len(s) = N, NEW H,
           \A i \in 1 .. N : Once(s[i], op, H[i]),
           \A i, w \in 1 .. N : i # w => H[i] \cap H[w] = {},
           NEW G, Covers(G, H, N)
    PROVE  Once(FlattenSeq(s), op, G)
<1> DEFINE U(k) == UNION {H[i] : i \in 1 .. k}
<1>3. G = U(N)
  BY DEF Covers
<1>1. CASE N = 0
  <2>1. s = <<>>
    BY <1>1
  <2>2. FlattenSeq(s) = s
    BY <1>1 DEF FlattenSeq
  <2>3. U(0) = {}
    OBVIOUS
  <2> QED  BY <1>1, <1>3, <2>1, <2>2, <2>3, OnceNone
<1>2. CASE N # 0
  <2> DEFINE fl == CHOOSE f : f = [i \in 1 .. Len(s) |-> IF i = 1 THEN s[i] ELSE f[i - 1] \o s[i]]
  <2>1. FlattenSeq(s) = fl[N]
    BY <1>2 DEF FlattenSeq
  <2>2. Flattens(fl, s, N)
    <3>1. \E f : f = [i \in 1 .. Len(s) |-> IF i = 1 THEN s[i] ELSE f[i - 1] \o s[i]]
      BY FlattenExists DEF Flattens
    <3>2. fl = [i \in 1 .. Len(s) |-> IF i = 1 THEN s[i] ELSE fl[i - 1] \o s[i]]
      BY <3>1
    <3> QED  BY <3>2 DEF Flattens
  <2> HIDE DEF fl
  <2>3. \A i \in 1 .. N : fl[i] = IF i = 1 THEN s[i] ELSE fl[i - 1] \o s[i]
    BY <2>2 DEF Flattens
  <2> DEFINE S == {n \in Nat : n \in 1 .. N => Once(fl[n], op, U(n))}
  <2>4. 0 \in S
    OBVIOUS
  <2>5. ASSUME NEW n \in Nat, n \in S  PROVE n + 1 \in S
    <3> SUFFICES ASSUME n + 1 \in 1 .. N  PROVE Once(fl[n + 1], op, U(n + 1))
      OBVIOUS
    <3>1. U(n + 1) = U(n) \cup H[n + 1]
      <4>1. 1 .. n + 1 = 1 .. n \cup {n + 1}
        OBVIOUS
      <4> QED  BY <4>1, Zenon
    <3>2. CASE n = 0
      <4>1. fl[n + 1] = s[n + 1]
        BY <2>3, <3>2
      <4>2. U(n) = {}
        BY <3>2
      <4>3. U(n + 1) = H[n + 1]
        BY <3>1, <4>2
      <4> QED  BY <4>1, <4>3, Zenon
    <3>3. CASE n # 0
      <4>1. n \in 1 .. N /\ n + 1 # 1 /\ (n + 1) - 1 = n
        BY <3>3
      <4>2. fl[n + 1] = fl[n] \o s[n + 1]
        BY <2>3, <4>1
      <4>3. Once(fl[n], op, U(n))
        BY <2>5, <4>1
      <4>4. \A i \in 1 .. n : i \in 1 .. N /\ i # n + 1
        BY <4>1
      <4>5. U(n) \cap H[n + 1] = {}
        BY <4>4, ZenonT(30)
      <4> HIDE DEF U
      <4>6. Once(fl[n] \o s[n + 1], op, U(n) \cup H[n + 1])
        BY <4>3, <4>5, OnceJoin
      <4> QED  BY <3>1, <4>2, <4>6
    <3> QED  BY <3>2, <3>3
  <2>6. N \in S
    <3> HIDE DEF S
    <3> QED  BY <2>4, <2>5, SetInduction
  <2> QED  BY <1>2, <1>3, <2>1, <2>6
<1> QED  BY <1>1, <1>2

-----------------------------------------------------------------------------
(***************************************************************************)
(* What the wrappers of an image open, and close.                          *)
(***************************************************************************)
FsHandles == {FsHandle(n) : n \in {m \in 1 .. Len(img.parts) : img.parts[m]}}

Wrapped ==
    IF img.vs THEN {VsHandle} \cup FsHandles
    ELSE IF img.fs THEN {FsHandle(0)} ELSE {}

ImageOk == img \in Image

\* None of them is the image itself, and the file systems of volumes are not the one on it.
LEMMA WrappedHandles ==
    ASSUME ImageOk
    PROVE  /\ ImgHandle \in Handle /\ VsHandle \in Handle /\ Wrapped \subseteq Handle
           /\ ImgHandle \notin Wrapped /\ VsHandle \notin FsHandles
           /\ \A h \in Wrapped : Needs(h) \subseteq
                  {ImgHandle} \cup (IF h # VsHandle /\ VsHandle \in Wrapped THEN {VsHandle} ELSE {})
<1>1. img.vs \in BOOLEAN /\ img.fs \in BOOLEAN /\ img.parts \in Seq(BOOLEAN)
  BY DEF ImageOk, Image
<1>2. Len(img.parts) \in Nat
  BY <1>1
<1>3. /\ VsHandle \in Handle /\ ImgHandle \in Handle /\ VsHandle # ImgHandle
      /\ \A n \in Nat : FsHandle(n) \in Handle /\ FsHandle(n) # ImgHandle /\ FsHandle(n) # VsHandle
  BY DEF VsHandle, ImgHandle, FsHandle, Handle
<1>4. \A h \in FsHandles : \E n \in 1 .. Len(img.parts) : h = FsHandle(n)
  BY DEF FsHandles
<1>5. \A h \in FsHandles : h \in Handle /\ h # ImgHandle /\ h # VsHandle
  BY <1>2, <1>3, <1>4
<1>6. ASSUME NEW h \in Wrapped
      PROVE  Needs(h) \subseteq
                 {ImgHandle} \cup (IF h # VsHandle /\ VsHandle \in Wrapped THEN {VsHandle} ELSE {})
  <2>1. CASE h = VsHandle
    <3>1. h[1] = "vs"
      BY <2>1 DEF VsHandle
    <3>2. Needs(h) = {ImgHandle}
      BY <3>1 DEF Needs
    <3> QED  BY <3>2
  <2>2. CASE h # VsHandle /\ img.vs
    <3>1. h \in FsHandles /\ VsHandle \in Wrapped
      BY <2>2 DEF Wrapped
    <3>2. PICK n \in 1 .. Len(img.parts) : h = FsHandle(n)
      BY <1>4, <3>1
    <3>3. h[1] = "fs"
      BY <3>2 DEF FsHandle
    <3>4. Needs(h) \subseteq {ImgHandle, VsHandle}
      BY <3>3 DEF Needs
    <3> QED  BY <2>2, <3>1, <3>4
  <2>3. CASE ~img.vs
    <3>1. h = FsHandle(0)
      BY <2>3 DEF Wrapped
    <3>2. h[1] = "fs" /\ h[2] = 0
      BY <3>1 DEF FsHandle
    <3>3. Needs(h) = {ImgHandle}
      BY <3>2 DEF Needs
    <3> QED  BY <3>3
  <2> QED  BY <1>1, <2>1, <2>2, <2>3
<1> QED  BY <1>3, <1>5, <1>6 DEF Wrapped

\* One call for each volume with a file system.
LEMMA VolumeCallsOnce ==
    ASSUME ImageOk, NEW op \in {"open", "close"}
    PROVE  Once(FlattenSeq([n \in 1 .. Len(img.parts) |->
                                IF img.parts[n] THEN <<[op |-> op, handle |-> FsHandle(n)]>> ELSE <<>>]),
                op, FsHandles)
<1> DEFINE N == Len(img.parts)
           s == [n \in 1 .. N |->
                    IF img.parts[n] THEN <<[op |-> op, handle |-> FsHandle(n)]>> ELSE <<>>]
           H == [n \in 1 .. N |-> IF img.parts[n] THEN {FsHandle(n)} ELSE {}]
<1>1. img.parts \in Seq(BOOLEAN) /\ N \in Nat
  BY DEF ImageOk, Image
<1>2. ASSUME NEW n \in 1 .. N
      PROVE  Once(s[n], op, H[n])
  <2>1. CASE img.parts[n]
    <3>1. FsHandle(n) \in Handle
      BY <1>1 DEF FsHandle, Handle
    <3>2. s[n] = <<[op |-> op, handle |-> FsHandle(n)]>> /\ H[n] = {FsHandle(n)}
      BY <2>1
    <3> QED  BY <3>1, <3>2, OnceOne
  <2>2. CASE ~img.parts[n]
    <3>1. s[n] = <<>> /\ H[n] = {}
      BY <2>2
    <3> QED  BY <3>1, OnceNone
  <2> QED  BY <2>1, <2>2
<1>3. \A n \in 1 .. N : s[n] \in Seq(LibtskCalls)
  BY <1>2 DEF Once
<1>4. s = [n \in 1 .. N |-> s[n]]
  OBVIOUS
<1>5. ASSUME NEW i \in 1 .. N, NEW k \in 1 .. N, i # k
      PROVE  H[i] \cap H[k] = {}
  <2>1. FsHandle(i) # FsHandle(k)
    BY <1>5 DEF FsHandle
  <2> QED  BY <2>1
<1>6. Covers(FsHandles, H, N)
  BY DEF FsHandles, Covers
<1>7. (\A i \in 1 .. N : Once(s[i], op, H[i])) /\ \A i, k \in 1 .. N : i # k => H[i] \cap H[k] = {}
  BY <1>2, <1>5
<1> HIDE DEF N, H, s
<1>8. s \in Seq(Seq(LibtskCalls)) /\ Len(s) = N
  BY <1>1, <1>3, <1>4, FunctionIsSeq
<1> HIDE <1>4
<1>9. Once(FlattenSeq(s), op, FsHandles)
  BY <1>1, <1>6, <1>7, <1>8, OnceFlatten
<1> QED  BY <1>9, Zenon DEF s, N

\* Image's constructor opens each handle once, the volume system first.
LEMMA OpensOnce ==
    ASSUME ImageOk
    PROVE  /\ Once(ImageOpens, "open", Wrapped)
           /\ VsHandle \in Wrapped => Head(ImageOpens).handle = VsHandle
<1>1. img.vs \in BOOLEAN /\ img.fs \in BOOLEAN
  BY DEF ImageOk, Image
<1>2. CASE img.vs
  <2> DEFINE c == <<Open(VsHandle)>>
             d == VolumeSystemOpens
  <2>1. Once(c, "open", {VsHandle})
    BY WrappedHandles, OnceOne DEF Open
  <2>2. Once(d, "open", FsHandles)
    BY VolumeCallsOnce, Zenon DEF VolumeSystemOpens, VolumeOpens, Open
  <2>3. ImageOpens = c \o d /\ Wrapped = {VsHandle} \cup FsHandles
    BY <1>2 DEF ImageOpens, Wrapped
  <2>4. Head(c \o d) = Open(VsHandle)
    <3>1. Open(VsHandle) \in LibtskCalls
      BY WrappedHandles DEF Open, LibtskCalls
    <3>2. d \in Seq(LibtskCalls)
      BY <2>2 DEF Once
    <3> HIDE DEF d
    <3> QED  BY <3>1, <3>2
  <2>5. Open(VsHandle).handle = VsHandle
    BY DEF Open
  <2> HIDE DEF c, d
  <2>6. {VsHandle} \cap FsHandles = {}
    BY WrappedHandles
  <2>7. Once(c \o d, "open", {VsHandle} \cup FsHandles)
    BY <2>1, <2>2, <2>6, OnceJoin
  <2> QED  BY <2>3, <2>4, <2>5, <2>7
<1>3. CASE ~img.vs /\ img.fs
  <2>1. ImageOpens = <<Open(FsHandle(0))>> /\ Wrapped = {FsHandle(0)}
    BY <1>1, <1>3 DEF ImageOpens, Wrapped
  <2>2. FsHandle(0) \in Handle /\ FsHandle(0) # VsHandle
    BY DEF FsHandle, VsHandle, Handle
  <2> QED  BY <2>1, <2>2, OnceOne DEF Open
<1>4. CASE ~img.vs /\ ~img.fs
  <2>1. ImageOpens = <<>> /\ Wrapped = {}
    BY <1>1, <1>4 DEF ImageOpens, Wrapped
  <2> QED  BY <2>1, OnceNone
<1> QED  BY <1>1, <1>2, <1>3, <1>4

\* Its destructor closes each of them once, and not the image.
LEMMA ClosesOnce ==
    ASSUME ImageOk
    PROVE  Once(ImageCloses, "close", Wrapped)
<1>1. img.vs \in BOOLEAN /\ img.fs \in BOOLEAN
  BY DEF ImageOk, Image
<1>2. CASE img.vs
  <2> DEFINE c == <<Close(VsHandle)>>
             e == FlattenSeq([n \in 1 .. Len(img.parts) |-> VolumeCloses(n)])
  <2>1. Once(c, "close", {VsHandle})
    BY WrappedHandles, OnceOne DEF Close
  <2>2. Once(e, "close", FsHandles)
    BY VolumeCallsOnce, Zenon DEF VolumeCloses, Close
  <2>3. ImageCloses = <<>> \o (c \o e) /\ Wrapped = {VsHandle} \cup FsHandles
    BY <1>2 DEF ImageCloses, VolumeSystemCloses, ShouldClose, Wrapped
  <2> HIDE DEF c, e
  <2>4. {VsHandle} \cap FsHandles = {}
    BY WrappedHandles
  <2>5. Once(c \o e, "close", {VsHandle} \cup FsHandles)
    BY <2>1, <2>2, <2>4, OnceJoin
  <2>6. Once(<<>> \o (c \o e), "close", {} \cup ({VsHandle} \cup FsHandles))
    <3>1. Once(<<>>, "close", {}) /\ {} \cap ({VsHandle} \cup FsHandles) = {}
      BY OnceNone
    <3> QED  BY <2>5, <3>1, OnceJoin
  <2>7. {} \cup ({VsHandle} \cup FsHandles) = {VsHandle} \cup FsHandles
    OBVIOUS
  <2> QED  BY <2>3, <2>6, <2>7
<1>3. CASE ~img.vs /\ img.fs
  <2>1. ImageCloses = <<>> \o <<Close(FsHandle(0))>> /\ Wrapped = {FsHandle(0)}
    BY <1>1, <1>3 DEF ImageCloses, ShouldClose, Wrapped
  <2>2. <<>> \o <<Close(FsHandle(0))>> = <<Close(FsHandle(0))>>
    OBVIOUS
  <2>3. FsHandle(0) \in Handle
    BY DEF FsHandle, Handle
  <2> QED  BY <2>1, <2>2, <2>3, OnceOne DEF Close
<1>4. CASE ~img.vs /\ ~img.fs
  <2>1. ImageCloses = <<>> \o <<>> /\ Wrapped = {}
    BY <1>1, <1>4 DEF ImageCloses, ShouldClose, Wrapped
  <2>2. <<>> \o <<>> = <<>>
    OBVIOUS
  <2> QED  BY <2>1, <2>2, OnceNone
<1> QED  BY <1>1, <1>2, <1>3, <1>4

-----------------------------------------------------------------------------
(***************************************************************************)
(* The calls that are still to be made, and the handles that are open.     *)
(***************************************************************************)

\* Of the handles W that the wrappers of an image stand for, those that are not open yet are
\* opened by the calls, the volume system before its volumes.
OpensPending(c, hs, W) ==
    \E P \in SUBSET W :
        /\ Once(c, "open", P)
        /\ hs = {ImgHandle} \cup (W \ P)
        /\ VsHandle \in P => Head(c).handle = VsHandle

\* Those that are still open are closed by the calls.
ClosesPending(c, hs, W) ==
    \E P \in SUBSET W : Once(c, "close", P) /\ hs = {ImgHandle} \cup P

LEMMA OpensBegin ==
    ASSUME NEW W, NEW c, Once(c, "open", W), VsHandle \in W => Head(c).handle = VsHandle
    PROVE  OpensPending(c, {ImgHandle}, W)
<1>1. {ImgHandle} = {ImgHandle} \cup (W \ W) /\ W \in SUBSET W
  OBVIOUS
<1> QED  BY <1>1, Zenon DEF OpensPending

LEMMA OpensCall ==
    ASSUME NEW W, ImgHandle \notin W, NEW c, NEW hs, OpensPending(c, hs, W), c # <<>>
    PROVE  /\ Head(c).op = "open" /\ Head(c).handle \in W /\ Head(c).handle \notin hs
           /\ ImgHandle \in hs
           /\ Head(c).handle # VsHandle /\ VsHandle \in W => VsHandle \in hs
           /\ OpensPending(Tail(c), hs \cup {Head(c).handle}, W)
<1> DEFINE h == Head(c).handle
<1>1. PICK P \in SUBSET W : /\ Once(c, "open", P)
                            /\ hs = {ImgHandle} \cup (W \ P)
                            /\ VsHandle \in P => h = VsHandle
  BY Zenon DEF OpensPending
<1>2. Head(c).op = "open" /\ h \in P /\ Once(Tail(c), "open", P \ {h})
  BY <1>1, OnceTail
<1> HIDE DEF h
<1>3. /\ P \ {h} \in SUBSET W
      /\ hs \cup {h} = {ImgHandle} \cup (W \ (P \ {h}))
      /\ VsHandle \notin P \ {h}
  BY <1>1, <1>2
<1>4. OpensPending(Tail(c), hs \cup {h}, W)
  BY <1>2, <1>3, Zenon DEF OpensPending
<1>5. h \in W /\ h \notin hs /\ ImgHandle \in hs /\ (h # VsHandle /\ VsHandle \in W => VsHandle \in hs)
  BY <1>1, <1>2
<1> QED  BY <1>2, <1>4, <1>5 DEF h

LEMMA OpensEnd ==
    ASSUME NEW W, NEW hs, OpensPending(<<>>, hs, W)
    PROVE  hs = {ImgHandle} \cup W
<1>1. PICK P \in SUBSET W : Once(<<>>, "open", P) /\ hs = {ImgHandle} \cup (W \ P)
  BY Zenon DEF OpensPending
<1>2. P = {}
  BY <1>1, OnceDone
<1> QED  BY <1>1, <1>2

LEMMA ClosesBegin ==
    ASSUME NEW W, NEW c, Once(c, "close", W)
    PROVE  ClosesPending(c, {ImgHandle} \cup W, W)
<1>1. W \in SUBSET W
  OBVIOUS
<1> QED  BY <1>1, Zenon DEF ClosesPending

LEMMA ClosesCall ==
    ASSUME NEW W, ImgHandle \notin W, NEW c, NEW hs, ClosesPending(c, hs, W), c # <<>>
    PROVE  /\ Head(c).op = "close" /\ Head(c).handle \in hs
           /\ ClosesPending(Tail(c), hs \ {Head(c).handle}, W)
<1> DEFINE h == Head(c).handle
<1>1. PICK P \in SUBSET W : Once(c, "close", P) /\ hs = {ImgHandle} \cup P
  BY Zenon DEF ClosesPending
<1>2. Head(c).op = "close" /\ h \in P /\ Once(Tail(c), "close", P \ {h})
  BY <1>1, OnceTail
<1> HIDE DEF h
<1>3. P \ {h} \in SUBSET W /\ hs \ {h} = {ImgHandle} \cup (P \ {h}) /\ h \in hs
  BY <1>1, <1>2
<1>4. ClosesPending(Tail(c), hs \ {h}, W)
  BY <1>2, <1>3, Zenon DEF ClosesPending
<1> QED  BY <1>2, <1>3, <1>4 DEF h

LEMMA ClosesEnd ==
    ASSUME NEW W, NEW hs
    PROVE  ClosesPending(<<>>, hs, W) <=> hs = {ImgHandle}
<1>1. ASSUME ClosesPending(<<>>, hs, W)  PROVE hs = {ImgHandle}
  <2>1. PICK P \in SUBSET W : Once(<<>>, "close", P) /\ hs = {ImgHandle} \cup P
    BY <1>1, Zenon DEF ClosesPending
  <2>2. P = {}
    BY <2>1, OnceDone
  <2> QED  BY <2>1, <2>2
<1>2. ASSUME hs = {ImgHandle}  PROVE ClosesPending(<<>>, hs, W)
  <2>1. {} \in SUBSET W /\ hs = {ImgHandle} \cup {}
    BY <1>2
  <2> QED  BY <2>1, OnceNone, Zenon DEF ClosesPending
<1> QED  BY <1>1, <1>2

-----------------------------------------------------------------------------
(***************************************************************************)
(* Where the program is says which handles are open.                       *)
(***************************************************************************)
Constructing == {"print overview", "info"}
Destroying   == {"start", "started"}
Closed       == {"options", "usage", "open", "done"}
Reading      == {"overview", "dump"} \cup {"walk"} \cup Ending

HandlesInv ==
    /\ img \in Images
    /\ pc \in Closed => calls = <<>> /\ handles = {}
    /\ pc \in Reading => calls = <<>> /\ handles = {ImgHandle}
    /\ pc \in Constructing => OpensPending(calls, handles, Wrapped)
    /\ pc \in Destroying => ClosesPending(calls, handles, Wrapped)
    /\ pc = "exit" => calls = <<>> /\ handles = IF ret = NoRet THEN {} ELSE {ImgHandle}
    /\ pc = "close" => \/ calls = <<>> /\ handles = {}
                       \/ calls = <<Close(ImgHandle)>> /\ handles = {ImgHandle}

LEMMA InitHandles == Init => HandlesInv
  BY DEF Init, HandlesInv, Constructing, Destroying, Closed, Reading, Ending

LEMMA ImagesAreImages == img \in Images => ImageOk
  BY FsripAssumption DEF ImageOk

LEMMA WrappedSame == img' = img => Wrapped' = Wrapped
  BY DEF Wrapped, FsHandles

\* What a call leaves.
LEMMA CallStep ==
    ASSUME HandlesInv, Call, UNCHANGED <<pc, ret>>
    PROVE  HandlesInv'
<1> USE DEF Constructing, Destroying, Closed, Reading, Ending
<1> DEFINE h == Head(calls).handle
<1>1. /\ calls # <<>> /\ calls' = Tail(calls) /\ img' = img
      /\ handles' = IF Head(calls).op = "open" THEN handles \cup {h} ELSE handles \ {h}
  BY DEF Call
<1>2. Wrapped' = Wrapped /\ ImgHandle \notin Wrapped /\ img' \in Images
  BY <1>1, WrappedSame, ImagesAreImages, WrappedHandles DEF HandlesInv
<1>3. CASE pc \in Constructing
  <2>1. OpensPending(calls, handles, Wrapped)
    BY <1>3 DEF HandlesInv
  <2>2. Head(calls).op = "open" /\ OpensPending(Tail(calls), handles \cup {h}, Wrapped)
    BY <1>1, <1>2, <2>1, OpensCall
  <2>3. OpensPending(calls', handles', Wrapped')
    BY <1>1, <1>2, <2>2
  <2> QED  BY <1>2, <1>3, <2>3 DEF HandlesInv
<1>4. CASE pc \in Destroying
  <2>1. ClosesPending(calls, handles, Wrapped)
    BY <1>4 DEF HandlesInv
  <2>2. Head(calls).op = "close" /\ ClosesPending(Tail(calls), handles \ {h}, Wrapped)
    BY <1>1, <1>2, <2>1, ClosesCall
  <2>3. ClosesPending(calls', handles', Wrapped')
    BY <1>1, <1>2, <2>2
  <2> QED  BY <1>2, <1>4, <2>3 DEF HandlesInv
<1>5. CASE pc = "close"
  <2>1. calls = <<Close(ImgHandle)>> /\ handles = {ImgHandle}
    BY <1>1, <1>5 DEF HandlesInv
  <2>2. Head(calls) = Close(ImgHandle) /\ Tail(calls) = <<>>
    BY <2>1
  <2>3. Head(calls).op = "close" /\ h = ImgHandle
    BY <2>2 DEF Close
  <2>4. calls' = <<>> /\ handles' = {}
    BY <1>1, <2>1, <2>2, <2>3
  <2> QED  BY <1>2, <1>5, <2>4 DEF HandlesInv
<1>6. CASE pc \notin Constructing \cup Destroying \cup {"close"}
  <2>1. pc \notin Closed \cup Reading \cup {"exit"}
    BY <1>1 DEF HandlesInv
  <2> QED  BY <1>2, <1>6, <2>1 DEF HandlesInv
<1> QED  BY <1>3, <1>4, <1>5, <1>6

\* Once its calls are made a wrapper is there, or gone.
LEMMA Idle ==
    ASSUME HandlesInv, calls = <<>>
    PROVE  /\ pc \in Constructing => handles = {ImgHandle} \cup Wrapped
           /\ pc \in Destroying => handles = {ImgHandle}
  BY OpensEnd, ClosesEnd DEF HandlesInv

LEMMA HandlesStep == PhaseInv /\ HandlesInv /\ Next => HandlesInv'
<1> SUFFICES ASSUME PhaseInv, HandlesInv, Next  PROVE HandlesInv'
  OBVIOUS
<1> USE DEF Constructing, Destroying, Closed, Reading, Ending
<1>1. /\ Once(ImageOpens, "open", Wrapped)
      /\ VsHandle \in Wrapped => Head(ImageOpens).handle = VsHandle
      /\ Once(ImageCloses, "close", Wrapped)
  BY ImagesAreImages, OpensOnce, ClosesOnce DEF HandlesInv
<1>2. ASSUME ParseOptions  PROVE HandlesInv'
  <2>1. UNCHANGED <<img, handles, calls, ret>> /\ pc = "options" /\ pc' \in {"exit", "open", "usage"}
    BY <1>2 DEF ParseOptions, wrapperVars, dumpVars
  <2>2. ret = NoRet
    BY <2>1 DEF PhaseInv, Opening
  <2> QED  BY <2>1, <2>2 DEF HandlesInv
<1>3. ASSUME Usage  PROVE HandlesInv'
  <2>1. UNCHANGED <<img, handles, calls, ret>> /\ pc = "usage" /\ pc' = "exit"
    BY <1>3 DEF Usage, wrapperVars, dumpVars
  <2>2. ret = NoRet
    BY <2>1 DEF PhaseInv, Opening
  <2> QED  BY <2>1, <2>2 DEF HandlesInv
<1>4. ASSUME OpenImage  PROVE HandlesInv'
  <2>1. UNCHANGED <<img, calls, ret>> /\ pc = "open"
    BY <1>4 DEF OpenImage, dumpVars
  <2>2. ret = NoRet /\ calls = <<>> /\ handles = {}
    BY <2>1 DEF PhaseInv, Opening, HandlesInv
  <2>3. CASE handles' = {ImgHandle} /\ pc' \in {"overview", "start"}
    <3>1. ClosesPending(calls', handles', Wrapped')
      BY <2>1, <2>2, <2>3, ClosesEnd
    <3> QED  BY <2>1, <2>2, <2>3, <3>1 DEF HandlesInv
  <2>4. CASE handles' = handles /\ pc' = "exit"
    BY <2>1, <2>2, <2>4 DEF HandlesInv
  <2> QED  BY <1>4, <2>3, <2>4 DEF OpenImage
<1>5. ASSUME LibtskCall  PROVE HandlesInv'
  <2>1. Call /\ UNCHANGED <<pc, ret>>
    BY <1>5 DEF LibtskCall, dumpVars
  <2> QED  BY <2>1, CallStep
<1>6. ASSUME WrapImage  PROVE HandlesInv'
  <2>1. /\ pc = "overview" /\ pc' = "print overview" /\ calls' = ImageOpens
        /\ UNCHANGED <<img, handles, ret>>
    BY <1>6 DEF WrapImage, dumpVars
  <2>2. handles = {ImgHandle} /\ Wrapped' = Wrapped
    BY <2>1, WrappedSame DEF HandlesInv
  <2>3. OpensPending(calls', handles', Wrapped')
    BY <1>1, <2>1, <2>2, OpensBegin
  <2> QED  BY <2>1, <2>3 DEF HandlesInv
<1>7. ASSUME PrintOverview  PROVE HandlesInv'
  <2>1. /\ pc = "print overview" /\ pc' = "start" /\ calls = <<>> /\ calls' = ImageCloses
        /\ UNCHANGED <<img, handles, ret>>
    BY <1>7 DEF PrintOverview, dumpVars
  <2>2. handles = {ImgHandle} \cup Wrapped /\ Wrapped' = Wrapped
    BY <2>1, WrappedSame, Idle
  <2>3. ClosesPending(calls', handles', Wrapped')
    BY <1>1, <2>1, <2>2, ClosesBegin
  <2> QED  BY <2>1, <2>3 DEF HandlesInv
<1>8. ASSUME Start  PROVE HandlesInv'
  <2>1. /\ pc = "start" /\ calls = <<>> /\ UNCHANGED <<img, handles, ret>>
        /\ \/ pc' = "info" /\ calls' = ImageOpens
           \/ pc' \in {"dump", "walk"} /\ calls' = calls
    BY <1>8 DEF Start, dumpVars
  <2>2. handles = {ImgHandle} /\ Wrapped' = Wrapped
    BY <2>1, WrappedSame, Idle
  <2>3. CASE pc' = "info" /\ calls' = ImageOpens
    <3>1. OpensPending(calls', handles', Wrapped')
      BY <1>1, <2>1, <2>2, <2>3, OpensBegin
    <3> QED  BY <2>1, <2>3, <3>1 DEF HandlesInv
  <2>4. CASE pc' \in {"dump", "walk"} /\ calls' = calls
    BY <2>1, <2>2, <2>4 DEF HandlesInv
  <2> QED  BY <2>1, <2>3, <2>4
<1>9. ASSUME PrintInfo  PROVE HandlesInv'
  <2>1. /\ pc = "info" /\ pc' = "started" /\ calls = <<>> /\ calls' = ImageCloses
        /\ UNCHANGED <<img, handles>>
    BY <1>9 DEF PrintInfo
  <2>2. handles = {ImgHandle} \cup Wrapped /\ Wrapped' = Wrapped
    BY <2>1, WrappedSame, Idle
  <2>3. ClosesPending(calls', handles', Wrapped')
    BY <1>1, <2>1, <2>2, ClosesBegin
  <2> QED  BY <2>1, <2>3 DEF HandlesInv
<1>10. ASSUME DumpImage \/ WalkReturns  PROVE HandlesInv'
  <2>1. pc \in {"dump", "walk"} /\ pc' \in {"dump", "started"} /\ UNCHANGED <<img, handles, calls>>
    BY <1>10 DEF DumpImage, WalkReturns, wrapperVars
  <2>2. calls' = <<>> /\ handles' = {ImgHandle} /\ Wrapped' = Wrapped
    BY <2>1, WrappedSame DEF HandlesInv
  <2>3. ClosesPending(calls', handles', Wrapped')
    BY <2>2, ClosesEnd
  <2> QED  BY <2>1, <2>2, <2>3 DEF HandlesInv
<1>11. ASSUME ProcessFile \/ Terminated  PROVE HandlesInv'
  <2>1. UNCHANGED <<pc, img, handles, calls, ret>> /\ pc \in {"walk", "unallocated", "done"}
    BY <1>11 DEF ProcessFile, Terminated, vars, wrapperVars
  <2> QED  BY <2>1 DEF HandlesInv
<1>12. ASSUME StartFailed \/ StartUnallocated  PROVE HandlesInv'
  <2>1. /\ pc = "started" /\ calls = <<>> /\ UNCHANGED <<img, handles, calls, ret>>
        /\ pc' \in {"exit", "unallocated", "disk map"}
    BY <1>12 DEF StartFailed, StartUnallocated, wrapperVars, dumpVars
  <2>2. handles = {ImgHandle} /\ ret # NoRet
    BY <2>1, Idle DEF PhaseInv
  <2> QED  BY <2>1, <2>2 DEF HandlesInv
<1>13. ASSUME FinishWalk \/ OutputDiskMap \/ OutputInodeMap  PROVE HandlesInv'
  <2>1. /\ pc \in Ending /\ UNCHANGED <<img, handles, calls, ret>>
        /\ pc' \in {"disk map", "inode map", "exit"}
    BY <1>13 DEF FinishWalk, OutputDiskMap, OutputInodeMap, wrapperVars, dumpVars
  <2>2. ret' # NoRet
    <3>1. ret' = 0
      BY <2>1 DEF PhaseInv
    <3> QED  BY <3>1 DEF NoRet
  <2>3. calls' = <<>> /\ handles' = {ImgHandle} /\ img' \in Images
    BY <2>1 DEF HandlesInv
  <2> QED  BY <2>1, <2>2, <2>3 DEF HandlesInv
<1>14. ASSUME DestroyWalker  PROVE HandlesInv'
  <2>1. /\ pc = "exit" /\ pc' = "close" /\ UNCHANGED <<img, handles, ret>>
        /\ calls' = IF ret = NoRet THEN <<>> ELSE <<Close(ImgHandle)>>
    BY <1>14 DEF DestroyWalker, dumpVars
  <2> QED  BY <2>1 DEF HandlesInv
<1>15. ASSUME Exit  PROVE HandlesInv'
  <2>1. pc = "close" /\ calls = <<>> /\ pc' = "done" /\ UNCHANGED <<img, handles, calls>>
    BY <1>15 DEF Exit, wrapperVars
  <2>2. <<Close(ImgHandle)>> # <<>>
    OBVIOUS
  <2> QED  BY <2>1, <2>2 DEF HandlesInv
<1> QED  BY <1>2, <1>3, <1>4, <1>5, <1>6, <1>7, <1>8, <1>9, <1>10, <1>11, <1>12, <1>13, <1>14, <1>15
         DEF Next

-----------------------------------------------------------------------------
(***************************************************************************)
(* The types.                                                              *)
(***************************************************************************)
ValuesInv ==
    /\ opts \in CommandLines /\ size \in ImageSizes
    /\ records \in 0 .. MaxRecords
    /\ off \in 0 .. size
    /\ good \in BOOLEAN /\ filed \in BOOLEAN
    /\ ret \in {0, 1, MinusOne, NoRet} /\ status \in {0, 1, NoRet}
    /\ made \subseteq {"overview", "disk", "inode"}

LEMMA InitValues == Init => ValuesInv
<1> SUFFICES ASSUME Init  PROVE ValuesInv
  OBVIOUS
<1>1. records \in 0 .. MaxRecords
  BY FsripAssumption DEF Init
<1>2. off \in 0 .. size
  BY DumpAssumption DEF Init, DumpInit
<1> QED  BY <1>1, <1>2 DEF Init, DumpInit, ValuesInv

\* What becomes of the loop of dumpimg.
LEMMA DumpValues ==
    ASSUME ValuesInv, DumpNext, DumpInv
    PROVE  /\ size' \in ImageSizes /\ off' \in 0 .. size' /\ good' \in BOOLEAN
           /\ ret' \in {0, 1, MinusOne, NoRet}
<1>1. DumpInv'
  BY DumpStepInv
<1>2. size' = size /\ good' \in BOOLEAN
  <2>1. ASSUME Turn  PROVE size' = size /\ good' \in BOOLEAN
    BY <2>1 DEF Turn, ValuesInv
  <2> QED  BY <2>1 DEF DumpNext, ReadFails, Returns, ValuesInv
<1> QED  BY <1>1, <1>2 DEF DumpInv, ValuesInv

LEMMA ValuesStep == FsripInv /\ ValuesInv /\ Next => ValuesInv'
<1> SUFFICES ASSUME FsripInv, ValuesInv, Next  PROVE ValuesInv'
  OBVIOUS
<1>1. opts' = opts
  BY DEF Next, ParseOptions, Usage, OpenImage, LibtskCall, WrapImage, PrintOverview, Start,
         PrintInfo, DumpImage, ProcessFile, WalkReturns, StartFailed, StartUnallocated, FinishWalk,
         OutputDiskMap, OutputInodeMap, DestroyWalker, Exit, Terminated, vars
<1>2. records' \in 0 .. MaxRecords
  <2>1. ASSUME ProcessFile  PROVE records' \in 0 .. MaxRecords
    <3>1. records' = records + 1 /\ records < MaxRecords
      BY <2>1 DEF ProcessFile
    <3> QED  BY <3>1, FsripAssumption DEF ValuesInv
  <2>2. ASSUME ~ProcessFile  PROVE records' = records
    BY <2>2 DEF Next, ParseOptions, Usage, OpenImage, LibtskCall, WrapImage, PrintOverview, Start,
           PrintInfo, DumpImage, WalkReturns, StartFailed, StartUnallocated, FinishWalk,
           OutputDiskMap, OutputInodeMap, DestroyWalker, Exit, Terminated, vars
  <2> QED  BY <2>1, <2>2 DEF ValuesInv
<1>3. /\ size' \in ImageSizes /\ off' \in 0 .. size' /\ good' \in BOOLEAN
      /\ ret' \in {0, 1, MinusOne, NoRet}
  <2>1. CASE DumpImage
    <3>1. DumpNext /\ pc = "dump"
      BY <2>1 DEF DumpImage
    <3>2. DumpInv
      BY <3>1 DEF FsripInv, PhaseInv, DumpedInv
    <3> QED  BY <3>1, <3>2, DumpValues
  <2>2. ASSUME ~DumpImage
        PROVE  /\ UNCHANGED <<size, off>> /\ (good' = good \/ good' = FALSE)
               /\ ret' \in {ret, 0, 1}
    BY <2>2 DEF Next, ParseOptions, Usage, OpenImage, LibtskCall, WrapImage, PrintOverview, Start,
           PrintInfo, ProcessFile, WalkReturns, StartFailed, StartUnallocated, FinishWalk,
           OutputDiskMap, OutputInodeMap, DestroyWalker, Exit, Terminated, vars, dumpVars, outVars
  <2> QED  BY <2>1, <2>2 DEF ValuesInv
<1>4. filed' \in BOOLEAN /\ made' \subseteq {"overview", "disk", "inode"}
  <2>1. ASSUME NEW f \in {"overview", "disk", "inode"}, NEW text, WriteFile(f, text)
        PROVE  made' \subseteq made \cup {f}
    BY <2>1 DEF WriteFile
  <2>2. CASE PrintOverview
    BY <2>1, <2>2 DEF PrintOverview, ValuesInv
  <2>3. CASE OutputDiskMap
    BY <2>1, <2>3 DEF OutputDiskMap, fileVars, ValuesInv
  <2>4. CASE OutputInodeMap
    BY <2>1, <2>4 DEF OutputInodeMap, ValuesInv
  <2>5. ASSUME ~PrintOverview, ~OutputDiskMap, ~OutputInodeMap
        PROVE  UNCHANGED <<filed, made>>
    BY <2>5 DEF Next, ParseOptions, Usage, OpenImage, LibtskCall, WrapImage, Start, PrintInfo,
                DumpImage, ProcessFile, WalkReturns, StartFailed, StartUnallocated, FinishWalk,
                DestroyWalker, Exit, Terminated, vars, fileVars
  <2> QED  BY <2>2, <2>3, <2>4, <2>5 DEF ValuesInv
<1>5. status' \in {0, 1, NoRet}
  BY DEF Next, ParseOptions, Usage, OpenImage, LibtskCall, WrapImage, PrintOverview, Start,
         PrintInfo, DumpImage, ProcessFile, WalkReturns, StartFailed, StartUnallocated, FinishWalk,
         OutputDiskMap, OutputInodeMap, DestroyWalker, Exit, Terminated, vars, ValuesInv
<1> QED  BY <1>1, <1>2, <1>3, <1>4, <1>5 DEF ValuesInv

ProgramInv == FsripInv /\ HandlesInv /\ ValuesInv

LEMMA ProgramInvHolds == Spec => []ProgramInv
<1>1. Init => ProgramInv
  BY InitInv, InitHandles, InitValues DEF ProgramInv
<1>2. ASSUME ProgramInv, UNCHANGED vars  PROVE ProgramInv'
  <2>1. FsripInv'
    BY <1>2, Stutter DEF ProgramInv
  <2>2. UNCHANGED <<pc, opts, records, filed, made, status, img, handles, calls, size, off, good, ret>>
    BY <1>2 DEF vars, fileVars
  <2>3. Wrapped' = Wrapped
    BY <2>2, WrappedSame
  <2>4. HandlesInv'
    BY <1>2, <2>2, <2>3 DEF ProgramInv, HandlesInv
  <2>5. ValuesInv'
    BY <1>2, <2>2 DEF ProgramInv, ValuesInv
  <2> QED  BY <2>1, <2>4, <2>5 DEF ProgramInv
<1>3. ASSUME ProgramInv, Next  PROVE ProgramInv'
  <2>1. FsripInv'
    BY <1>3, PhaseStep, DumpedStep, FilesStep DEF ProgramInv, FsripInv
  <2>2. HandlesInv'
    BY <1>3, HandlesStep DEF ProgramInv, FsripInv
  <2>3. ValuesInv'
    BY <1>3, ValuesStep DEF ProgramInv
  <2> QED  BY <2>1, <2>2, <2>3 DEF ProgramInv
<1>4. ProgramInv /\ [Next]_vars => ProgramInv'
  BY <1>2, <1>3
<1> QED  BY <1>1, <1>4, PTL DEF Spec

\* The types of the variables, that a call of libtsk is pending only while a wrapper is made
\* or goes away or the image is closed, and that start has returned wherever its result is
\* looked at, for every command line and image.
THEOREM FsripTypeOK == Spec => []TypeOK
<1>1. ProgramInv => TypeOK
  <2> SUFFICES ASSUME ProgramInv  PROVE TypeOK
    OBVIOUS
  <2> USE DEF Opening, Ending, Leaving, Constructing, Destroying, Closed, Reading
  <2>1. pc \in {"options", "usage", "open", "overview", "print overview", "start", "info", "dump",
                "walk", "started", "unallocated", "disk map", "inode map", "exit", "close", "done"}
    BY DEF ProgramInv, FsripInv, PhaseInv
  <2>2. calls # <<>> => pc \in {"print overview", "start", "info", "started", "close"}
    BY <2>1 DEF ProgramInv, HandlesInv
  <2>3. pc \in {"started", "unallocated", "disk map", "inode map"} => ret # NoRet
    <3>1. 0 # NoRet
      BY DEF NoRet
    <3>2. pc # "started" => (pc \in Ending => ret = 0)
      BY DEF ProgramInv, FsripInv, PhaseInv
    <3>3. pc = "started" => ret # NoRet
      BY DEF ProgramInv, FsripInv, PhaseInv
    <3> QED  BY <3>1, <3>2, <3>3
  <2> QED  BY <2>1, <2>2, <2>3 DEF ProgramInv, HandlesInv, ValuesInv, TypeOK
<1> QED  BY <1>1, ProgramInvHolds, PTL

\* Whatever volumes and file systems an image has, each call of libtsk that the wrappers and
\* the walker make is on a handle in the state it needs: a handle is opened once, on handles
\* that are open, and what is closed is open.
THEOREM HandlesUsedOpenAlways == Spec => []HandlesUsedOpen
<1>1. ProgramInv => HandlesUsedOpen
  <2> SUFFICES ASSUME ProgramInv, calls # <<>>  PROVE Legal(Head(calls))
    BY DEF HandlesUsedOpen
  <2> USE DEF Opening, Ending, Leaving, Constructing, Destroying, Closed, Reading
  <2> DEFINE h == Head(calls).handle
  <2>1. HandlesInv /\ ImageOk
    BY ImagesAreImages DEF ProgramInv, HandlesInv
  <2>2. CASE pc \in Constructing
    <3>1. /\ Head(calls).op = "open" /\ h \in Wrapped /\ h \notin handles
          /\ ImgHandle \in handles
          /\ h # VsHandle /\ VsHandle \in Wrapped => VsHandle \in handles
      BY <2>1, <2>2, WrappedHandles, OpensCall DEF HandlesInv
    <3> HIDE DEF h
    <3>2. Needs(h) \subseteq
              {ImgHandle} \cup (IF h # VsHandle /\ VsHandle \in Wrapped THEN {VsHandle} ELSE {})
      BY <2>1, <3>1, WrappedHandles
    <3>3. Needs(h) \subseteq handles
      BY <3>1, <3>2
    <3> QED  BY <3>1, <3>3 DEF Legal, h
  <2>3. CASE pc \in Destroying
    <3>1. Head(calls).op = "close" /\ h \in handles
      BY <2>1, <2>3, WrappedHandles, ClosesCall DEF HandlesInv
    <3> QED  BY <3>1 DEF Legal
  <2>4. CASE pc = "close"
    <3>1. Head(calls) = Close(ImgHandle) /\ handles = {ImgHandle}
      BY <2>1, <2>4 DEF HandlesInv
    <3>2. Head(calls).op = "close" /\ h \in handles
      BY <3>1 DEF Close
    <3> QED  BY <3>2 DEF Legal
  <2>5. pc \in Constructing \cup Destroying \cup {"close"}
    BY <2>1 DEF ProgramInv, FsripInv, PhaseInv, HandlesInv
  <2> QED  BY <2>2, <2>3, <2>4, <2>5
<1> QED  BY <1>1, ProgramInvHolds, PTL

\* The image is open, and nothing else, while a walker reads it, and all that was opened is
\* closed on every way out, whatever volumes and file systems the image has.
THEOREM NothingLeftOpenAlways == Spec => []NothingLeftOpen
<1>1. ProgramInv => NothingLeftOpen
  BY DEF ProgramInv, HandlesInv, NothingLeftOpen, Closed, Reading, Ending
<1> QED  BY <1>1, ProgramInvHolds, PTL

-----------------------------------------------------------------------------
(***************************************************************************)
(* The members that the overview always has: keys in their order, and the  *)
(* set of them.  None of them is "filesystem".                             *)
(***************************************************************************)
FsKeys  == <<"numBlocks", "blockSize", "deviceBlockSize", "blockName", "littleEndian",
             "firstBlock", "firstInum", "flags", "fsID", "type", "typeName", "journalInum",
             "numInums", "lastBlock", "lastBlockAct", "lastInum", "byteOffset", "rootInum">>
FsNames == {"numBlocks", "blockSize", "deviceBlockSize", "blockName", "littleEndian",
            "firstBlock", "firstInum", "flags", "fsID", "type", "typeName", "journalInum",
            "numInums", "lastBlock", "lastBlockAct", "lastInum", "byteOffset", "rootInum"}

LEMMA FsMembers ==
    /\ Starts(plainPairs(FsKeys, TRUE), FsNames)
    /\ Lacks(plainPairs(FsKeys, TRUE), "filesystem")
  <1>1. Distinct(FsKeys, FsNames)
    BY DEF Distinct, FsKeys, FsNames
  <1>2. PlainAll(FsNames)
    BY Zenon DEF PlainAll, Plain, Marks, FsNames
  <1>3. "filesystem" \notin FsNames /\ "filesystem" # ","
    BY Zenon DEF FsNames
  <1>4. Starts(plainPairs(FsKeys, TRUE), FsNames)
    BY <1>1, <1>2, ListStarts, Zenon
  <1>5. Lacks(plainPairs(FsKeys, TRUE), "filesystem")
    BY <1>1, <1>3, LacksPlainPairs, Zenon
  <1> QED BY <1>4, <1>5, Zenon

VolumeKeys  == <<"description", "flags", "numBlocks", "slotNum", "startBlock", "tableNum">>
VolumeNames == {"description", "flags", "numBlocks", "slotNum", "startBlock", "tableNum"}

LEMMA VolumeMembers ==
    /\ Starts(plainPairs(VolumeKeys, TRUE), VolumeNames)
    /\ Lacks(plainPairs(VolumeKeys, TRUE), "filesystem")
  <1>1. Distinct(VolumeKeys, VolumeNames)
    BY DEF Distinct, VolumeKeys, VolumeNames
  <1>2. PlainAll(VolumeNames)
    BY Zenon DEF PlainAll, Plain, Marks, VolumeNames
  <1>3. "filesystem" \notin VolumeNames /\ "filesystem" # ","
    BY Zenon DEF VolumeNames
  <1>4. Starts(plainPairs(VolumeKeys, TRUE), VolumeNames)
    BY <1>1, <1>2, ListStarts, Zenon
  <1>5. Lacks(plainPairs(VolumeKeys, TRUE), "filesystem")
    BY <1>1, <1>3, LacksPlainPairs, Zenon
  <1> QED BY <1>4, <1>5, Zenon

SystemKeys  == <<"type", "description", "blockSize", "numVolumes", "offset">>
SystemNames == {"type", "description", "blockSize", "numVolumes", "offset"}

LEMMA SystemMembers ==
    /\ Starts(plainPairs(SystemKeys, TRUE), SystemNames)
    /\ Lacks(plainPairs(SystemKeys, TRUE), "filesystem")
  <1>1. Distinct(SystemKeys, SystemNames)
    BY DEF Distinct, SystemKeys, SystemNames
  <1>2. PlainAll(SystemNames)
    BY Zenon DEF PlainAll, Plain, Marks, SystemNames
  <1>3. "filesystem" \notin SystemNames /\ "filesystem" # ","
    BY Zenon DEF SystemNames
  <1>4. Starts(plainPairs(SystemKeys, TRUE), SystemNames)
    BY <1>1, <1>2, ListStarts, Zenon
  <1>5. Lacks(plainPairs(SystemKeys, TRUE), "filesystem")
    BY <1>1, <1>3, LacksPlainPairs, Zenon
  <1> QED BY <1>4, <1>5, Zenon

ImageKeys  == <<"description", "size", "sectorSize">>
ImageNames == {"description", "size", "sectorSize"}

LEMMA ImageMembers ==
    /\ Adds(plainPairs(ImageKeys, FALSE), ImageNames)
    /\ Lacks(plainPairs(ImageKeys, FALSE), "filesystem")
  <1>1. Distinct(ImageKeys, ImageNames)
    BY DEF Distinct, ImageKeys, ImageNames
  <1>2. PlainAll(ImageNames)
    BY Zenon DEF PlainAll, Plain, Marks, ImageNames
  <1>3. "filesystem" \notin ImageNames /\ "filesystem" # ","
    BY Zenon DEF ImageNames
  <1>4. Adds(plainPairs(ImageKeys, FALSE), ImageNames)
    BY <1>1, <1>2, ListAdds, Zenon
  <1>5. Lacks(plainPairs(ImageKeys, FALSE), "filesystem")
    BY <1>1, <1>3, LacksPlainPairs, Zenon
  <1> QED BY <1>4, <1>5, Zenon

-----------------------------------------------------------------------------
(***************************************************************************)
(* The overview is JSON.                                                   *)
(***************************************************************************)
LEMMA OverviewKeysArePlain == PlainAll({"files", "filesystem", "volumeSystem", "volumes"})
  BY Zenon DEF PlainAll, Plain, Marks

LEMMA FsAdds == Adds(outputFS, {"filesystem"})
  <1> DEFINE t1 == <<",", "filesystem", ":", "{">>
             t2 == t1 \o plainPairs(FsKeys, TRUE)
             t3 == t2 \o <<"}">>
  <1>1. outputFS = t3
    BY Zenon DEF outputFS, FsKeys
  <1>2. Plain("filesystem")
    BY OverviewKeysArePlain, Zenon DEF PlainAll
  <1>3. ASSUME NEW O, NEW L, Opens(O), Apart(L, {"filesystem"})
        PROVE  Leads(InObject(O, L), t3, InObject(O, L \cup {"filesystem"}))
    <2> DEFINE M == L \cup {"filesystem"}
               S == InObject(O, L)
    <2>1. "filesystem" \notin L
      BY <1>3, Zenon DEF Apart
    <2>2. Leads(S, t1, NewObject(Objects(O, M)))
      BY <1>2, <1>3, <2>1, LeadsNextInner, Zenon
    <2>3. Opens(Objects(O, M))
      BY <1>3, OpensWithin, Zenon
    <2> HIDE DEF M, S
    <2>4. Leads(S, t2, InObject(Objects(O, M), FsNames))
      BY <2>2, <2>3, FsMembers, LeadsStarts, Zenon
    <2>5. Leads(InObject(Objects(O, M), FsNames), <<"}">>, InObject(O, M))
      BY <1>3, LeadsUp, Zenon
    <2>6. Leads(S, t3, InObject(O, M))
      BY <2>4, <2>5, LeadsJoin, Zenon
    <2> QED BY <2>6, Zenon DEF M, S
  <1> HIDE DEF t3
  <1> QED BY <1>1, <1>3, Zenon DEF Adds

LEMMA VolumeValue ==
    ASSUME NEW hasFs
    PROVE  IsValue(volumeText(hasFs))
  <1> DEFINE inner == IF hasFs THEN outputFS ELSE <<>>
             t1 == <<"{">>
             t2 == t1 \o plainPairs(VolumeKeys, TRUE)
             t3 == t2 \o inner
             t4 == t3 \o <<"}">>
             K == VolumeNames \cup {"filesystem"}
  <1>1. volumeText(hasFs) = t4
    BY Zenon DEF volumeText, VolumeKeys
  <1>2. Adds(inner, {"filesystem"})
    BY FsAdds, NothingAdds, Zenon
  <1>3. Apart(VolumeNames, {"filesystem"})
    BY Zenon DEF Apart, VolumeNames
  <1> HIDE DEF inner
  <1>4. ASSUME NEW O, Opens(O)
        PROVE  Leads(Wanting(O), t4, Done(O))
    <2> DEFINE W == Wanting(O)
    <2>1. Leads(W, t1, NewObject(O))
      BY LeadsValue, Zenon
    <2> HIDE DEF W
    <2>2. Leads(W, t2, InObject(O, VolumeNames))
      BY <1>4, <2>1, VolumeMembers, LeadsStarts, Zenon
    <2>3. Leads(W, t3, InObject(O, K))
      BY <1>2, <1>3, <1>4, <2>2, LeadsAdds, Zenon
    <2> HIDE DEF K
    <2>4. Leads(InObject(O, K), <<"}">>, Done(O))
      BY <1>4, LeadsObjectEnd, Zenon
    <2>5. Leads(W, t4, Done(O))
      BY <2>3, <2>4, LeadsJoin, Zenon
    <2> QED BY <2>5, Zenon DEF W
  <1> HIDE DEF t4
  <1> QED BY <1>1, <1>4, Zenon DEF IsValue

\* The texts of the volumes.
LEMMA VolumeTexts ==
    ASSUME NEW parts, NEW N \in Nat, Len(parts) = N
    PROVE  \E f : /\ f = [i \in 1 .. N |-> f[i]]
                  /\ volumesText(parts) = writeSequence(f)
                  /\ \A i \in 1 .. N : f[i] = volumeText(parts[i])
  <1> DEFINE f == [i \in 1 .. N |-> volumeText(parts[i])]
  <1>1. \A i \in 1 .. N : f[i] = volumeText(parts[i])
    BY Zenon
  <1>2. volumesText(parts) = writeSequence(f)
    BY Zenon DEF volumesText
  <1>3. f = [i \in 1 .. N |-> f[i]]
    BY Zenon
  <1> HIDE DEF f
  <1> QED BY <1>1, <1>2, <1>3, Zenon

LEMMA VolumesAdd ==
    ASSUME NEW parts, Len(parts) \in Nat
    PROVE  Adds(<<",", "volumes", ":", "[">> \o volumesText(parts) \o <<"]">>, {"volumes"})
  <1> DEFINE t1 == <<",", "volumes", ":", "[">>
             t2 == t1 \o volumesText(parts)
             t3 == t2 \o <<"]">>
  <1>1. PICK f : /\ f = [i \in 1 .. Len(parts) |-> f[i]]
                 /\ volumesText(parts) = writeSequence(f)
                 /\ \A i \in 1 .. Len(parts) : f[i] = volumeText(parts[i])
    BY VolumeTexts, Zenon
  <1>2. \A i \in 1 .. Len(parts) : IsValue(f[i])
    BY <1>1, VolumeValue, Zenon
  <1>3. Plain("volumes")
    BY OverviewKeysArePlain, Zenon DEF PlainAll
  <1>4. ASSUME NEW O, NEW L, Opens(O), Apart(L, {"volumes"})
        PROVE  Leads(InObject(O, L), t3, InObject(O, L \cup {"volumes"}))
    <2> DEFINE M == L \cup {"volumes"}
               S == InObject(O, L)
               V == Objects(O, M)
    <2>1. "volumes" \notin L
      BY <1>4, Zenon DEF Apart
    <2>2. Leads(S, t1, NewArray(V))
      BY <1>3, <1>4, <2>1, LeadsNextInner, Zenon
    <2>3. Opens(V)
      BY <1>4, OpensWithin, Zenon
    <2>4. Leads(NewArray(V) \cup InArray(V), <<"]">>, InObject(O, M))
      BY <1>4, LeadsUpArray, Zenon
    <2> HIDE DEF V
    <2>5. Leads(NewArray(V), writeSequence(f), NewArray(V) \cup InArray(V))
      BY <1>1, <1>2, <2>3, FunctionLeads, Zenon
    <2> HIDE DEF M, S
    <2>6. Leads(S, t2, NewArray(V) \cup InArray(V))
      <3>1. Leads(NewArray(V), volumesText(parts), NewArray(V) \cup InArray(V))
        BY <1>1, <2>5, Zenon
      <3> QED BY <2>2, <3>1, LeadsJoin, Zenon
    <2>7. Leads(S, t3, InObject(O, M))
      BY <2>4, <2>6, LeadsJoin, Zenon
    <2> QED BY <2>7, Zenon DEF M, S
  <1> QED BY <1>4, Zenon DEF Adds

LEMMA SystemAdds ==
    ASSUME NEW image, Len(image.parts) \in Nat
    PROVE  Adds(volumeSystemText(image), {"volumeSystem"})
  <1> DEFINE inner == IF image.parts = <<>> THEN <<>>
                      ELSE <<",", "volumes", ":", "[">> \o volumesText(image.parts) \o <<"]">>
             t1 == <<",", "volumeSystem", ":", "{">>
             t2 == t1 \o plainPairs(SystemKeys, TRUE)
             t3 == t2 \o inner
             t4 == t3 \o <<"}">>
             K == SystemNames \cup {"volumes"}
  <1>1. volumeSystemText(image) = t4
    BY Zenon DEF volumeSystemText, SystemKeys
  <1>2. Adds(inner, {"volumes"})
    <2>1. Adds(<<",", "volumes", ":", "[">> \o volumesText(image.parts) \o <<"]">>, {"volumes"})
      BY VolumesAdd, Zenon
    <2> QED BY <2>1, NothingAdds, Zenon
  <1>3. Apart(SystemNames, {"volumes"})
    BY Zenon DEF Apart, SystemNames
  <1>4. Plain("volumeSystem")
    BY OverviewKeysArePlain, Zenon DEF PlainAll
  <1> HIDE DEF inner
  <1>5. ASSUME NEW O, NEW L, Opens(O), Apart(L, {"volumeSystem"})
        PROVE  Leads(InObject(O, L), t4, InObject(O, L \cup {"volumeSystem"}))
    <2> DEFINE M == L \cup {"volumeSystem"}
               S == InObject(O, L)
               V == Objects(O, M)
    <2>1. "volumeSystem" \notin L
      BY <1>5, Zenon DEF Apart
    <2>2. Leads(S, t1, NewObject(V))
      BY <1>4, <1>5, <2>1, LeadsNextInner, Zenon
    <2>3. Opens(V)
      BY <1>5, OpensWithin, Zenon
    <2>4. Leads(InObject(V, K), <<"}">>, InObject(O, M))
      BY <1>5, LeadsUp, Zenon
    <2> HIDE DEF M, S, V
    <2>5. Leads(S, t2, InObject(V, SystemNames))
      BY <2>2, <2>3, SystemMembers, LeadsStarts, Zenon
    <2>6. Leads(S, t3, InObject(V, K))
      BY <1>2, <1>3, <2>3, <2>5, LeadsAdds, Zenon
    <2> HIDE DEF K
    <2>7. Leads(S, t4, InObject(O, M))
      BY <2>4, <2>6, LeadsJoin, Zenon
    <2> QED BY <2>7, Zenon DEF M, S
  <1> HIDE DEF t4
  <1> QED BY <1>1, <1>5, Zenon DEF Adds

\* Names of segment files that need no escape.
PlainFiles(image) == \A n \in DOMAIN image.files : image.files[n] = "plain"

LEMMA FileTexts ==
    ASSUME NEW names, NEW N \in Nat, Len(names) = N
    PROVE  \E f : /\ f = [i \in 1 .. N |-> f[i]]
                  /\ writeSequence([i \in 1 .. Len(names) |-> j(names[i])]) = writeSequence(f)
                  /\ \A i \in 1 .. N : f[i] = j(names[i])
  <1> DEFINE f == [i \in 1 .. N |-> j(names[i])]
  <1>1. \A i \in 1 .. N : f[i] = j(names[i])
    BY Zenon
  <1>2. writeSequence([i \in 1 .. Len(names) |-> j(names[i])]) = writeSequence(f)
    BY Zenon
  <1>3. f = [i \in 1 .. N |-> f[i]]
    BY Zenon
  <1> HIDE DEF f
  <1> QED BY <1>1, <1>2, <1>3, Zenon

LEMMA LeadsNextFour ==
    ASSUME NEW S, NEW T, NEW U, NEW p, NEW q, NEW u, NEW v,
           Leads(S, <<p>>, T), Leads(T, <<q, u, v>>, U)
    PROVE  Leads(S, <<p, q, u, v>>, U)
  <1>1. <<p, q, u, v>> = <<p>> \o <<q, u, v>>
    BY SplitFirst
  <1>2. Leads(S, <<p>> \o <<q, u, v>>, U)
    BY LeadsJoin, Zenon
  <1> QED BY <1>1, <1>2, Zenon

LEMMA FilesLead ==
    ASSUME NEW names, Len(names) \in Nat, DOMAIN names = 1 .. Len(names),
           \A n \in DOMAIN names : names[n] = "plain"
    PROVE  Leads({Begin}, filesText(names), InObject(Doc, {"files"} \cup ImageNames))
  <1> DEFINE t1 == <<"{", "files", ":", "[">>
             t2 == t1 \o writeSequence([i \in 1 .. Len(names) |-> j(names[i])])
             t3 == t2 \o <<"]">>
             t4 == t3 \o plainPairs(ImageKeys, FALSE)
             F == Objects(Doc, {"files"})
             S == {Begin}
  <1>1. Opens(Doc) /\ Opens(F)
    <2>1. Opens(Doc)
      BY BeginWants, Zenon DEF Doc
    <2> QED BY <2>1, OpensWithin, Zenon
  <1>2. Leads(S, t1, NewArray(F))
    <2>1. Plain("files")
      BY OverviewKeysArePlain, Zenon DEF PlainAll
    <2>2. Leads(NewObject(Doc), <<"files", ":", "[">>, NewArray(F))
      BY <1>1, <2>1, LeadsFirstInner, Zenon
    <2> QED BY <2>2, DocStart, LeadsNextFour, Zenon
  <1>3. Leads(NewArray(F) \cup InArray(F), <<"]">>, InObject(Doc, {"files"}))
    BY <1>1, LeadsUpArray, Zenon
  <1>4. PICK f : /\ f = [i \in 1 .. Len(names) |-> f[i]]
                 /\ writeSequence([i \in 1 .. Len(names) |-> j(names[i])]) = writeSequence(f)
                 /\ \A i \in 1 .. Len(names) : f[i] = j(names[i])
    BY FileTexts, Zenon
  <1>5. \A i \in 1 .. Len(names) : IsValue(f[i])
    BY <1>4, StringValue, Zenon
  <1> HIDE DEF S, F
  <1>6. Leads(NewArray(F), writeSequence(f), NewArray(F) \cup InArray(F))
    BY <1>1, <1>4, <1>5, FunctionLeads, Zenon
  <1>7. Leads(S, t2, NewArray(F) \cup InArray(F))
    <2>1. Leads(NewArray(F), writeSequence([i \in 1 .. Len(names) |-> j(names[i])]),
                NewArray(F) \cup InArray(F))
      BY <1>4, <1>6, Zenon
    <2> QED BY <1>2, <2>1, LeadsJoin, Zenon
  <1> HIDE DEF t2
  <1>8. Leads(S, t3, InObject(Doc, {"files"}))
    BY <1>3, <1>7, LeadsJoin, Zenon
  <1> HIDE DEF t3
  <1>9. Leads(S, t4, InObject(Doc, {"files"} \cup ImageNames))
    <2>1. Apart({"files"}, ImageNames)
      BY Zenon DEF Apart, ImageNames
    <2> QED BY <1>1, <1>8, <2>1, ImageMembers, LeadsAdds, Zenon
  <1>10. filesText(names) = t4
    BY Zenon DEF filesText, ImageKeys, t3, t2
  <1> QED BY <1>9, <1>10, Zenon DEF S

LEMMA ImageJson ==
    ASSUME NEW image \in Image, PlainFiles(image)
    PROVE  IsJson(imageText(image))
  <1> DEFINE inner == IF image.vs THEN volumeSystemText(image)
                      ELSE IF image.fs THEN outputFS ELSE <<>>
             K == {"files"} \cup ImageNames
             L == {"volumeSystem", "filesystem"}
             t1 == filesText(image.files)
             t2 == t1 \o inner
             t3 == t2 \o <<"}">>
  <1>1. imageText(image) = t3
    BY Zenon DEF imageText
  <1>2. /\ Len(image.files) \in Nat /\ DOMAIN image.files = 1 .. Len(image.files)
        /\ Len(image.parts) \in Nat
    BY DEF Image
  <1>3. Leads({Begin}, t1, InObject(Doc, K))
    BY <1>2, FilesLead, Zenon DEF PlainFiles
  <1>4. Adds(inner, L)
    <2>1. Adds(volumeSystemText(image), L)
      <3>1. {"volumeSystem"} \subseteq L
        BY Zenon
      <3> QED BY <1>2, <3>1, SystemAdds, AddsWider, Zenon
    <2>2. Adds(outputFS, L)
      <3>1. {"filesystem"} \subseteq L
        BY Zenon
      <3> QED BY <3>1, FsAdds, AddsWider, Zenon
    <2> QED BY <2>1, <2>2, NothingAdds, Zenon
  <1>5. Apart(K, L)
    BY Zenon DEF Apart, ImageNames
  <1>6. Opens(Doc)
    BY BeginWants, Zenon DEF Doc
  <1> HIDE DEF inner, K, L, t1
  <1>7. Leads({Begin}, t2, InObject(Doc, K \cup L))
    BY <1>3, <1>4, <1>5, <1>6, LeadsAdds, Zenon
  <1>8. Leads(InObject(Doc, K \cup L), <<"}">>, Done(Doc))
    BY <1>6, LeadsObjectEnd, Zenon
  <1>9. Leads({Begin}, t3, Done(Doc))
    BY <1>7, <1>8, LeadsJoin, Zenon
  <1> HIDE DEF t3
  <1> QED BY <1>1, <1>9, ValueIsJson, Zenon DEF Doc

-----------------------------------------------------------------------------
(***************************************************************************)
(* The overview shows each file system once.                               *)
(***************************************************************************)
LEMMA LacksFour ==
    ASSUME NEW p, NEW q, NEW u, NEW v, NEW t, p # t, q # t, u # t, v # t
    PROVE  Lacks(<<p, q, u, v>>, t)
  <1>1. Lacks(<<p, q>>, t)
    BY LacksTwo, Zenon
  <1>2. Lacks(<<p, q, u>>, t)
    BY <1>1, LacksOne, LacksJoin, SplitThree, Zenon
  <1> QED BY <1>2, LacksOne, LacksJoin, SplitFour, Zenon

LEMMA HasMember ==
    ASSUME NEW p, NEW q, NEW u, NEW v, p # q, u # q, v # q
    PROVE  Has(<<p, q, u, v>>, q, 1)
  <1>1. Has(<<q>>, q, 1)
    BY HasOne, Zenon
  <1>2. Lacks(<<p>>, q) /\ Lacks(<<u>>, q) /\ Lacks(<<v>>, q)
    BY LacksOne, Zenon
  <1>3. Has(<<p, q>>, q, 1)
    <2>1. Has(<<p>> \o <<q>>, q, 1)
      BY <1>1, <1>2, HasLater, Zenon
    <2> QED BY <2>1, SplitTwo, Zenon
  <1>4. Has(<<p, q, u>>, q, 1)
    <2>1. Has(<<p, q>> \o <<u>>, q, 1)
      BY <1>2, <1>3, HasEarlier, Zenon
    <2> QED BY <2>1, SplitThree, Zenon
  <1>5. Has(<<p, q, u>> \o <<v>>, q, 1)
    BY <1>2, <1>4, HasEarlier, Zenon
  <1> QED BY <1>5, SplitFour, Zenon

LEMMA BracesLack ==
    /\ Lacks(<<>>, "filesystem") /\ Lacks(<<"{">>, "filesystem") /\ Lacks(<<"}">>, "filesystem")
    /\ Lacks(<<"]">>, "filesystem")
  <1>1. "{" # "filesystem" /\ "}" # "filesystem" /\ "]" # "filesystem"
    BY Zenon
  <1> QED BY <1>1, HasNone, LacksOne, Zenon DEF Lacks

LEMMA FsHas == Has(outputFS, "filesystem", 1)
  <1> DEFINE t1 == <<",", "filesystem", ":", "{">>
             t2 == t1 \o plainPairs(FsKeys, TRUE)
             t3 == t2 \o <<"}">>
  <1>1. outputFS = t3
    BY Zenon DEF outputFS, FsKeys
  <1>2. Has(t1, "filesystem", 1)
    <2>1. "," # "filesystem" /\ ":" # "filesystem" /\ "{" # "filesystem"
      BY Zenon
    <2> QED BY <2>1, HasMember, Zenon
  <1> HIDE DEF t1
  <1>3. Has(t2, "filesystem", 1)
    BY <1>2, FsMembers, HasEarlier, Zenon
  <1> HIDE DEF t2
  <1>4. Has(t3, "filesystem", 1)
    BY <1>3, BracesLack, HasEarlier, Zenon
  <1> QED BY <1>1, <1>4, Zenon

LEMMA VolumeHas ==
    ASSUME NEW hasFs
    PROVE  Has(volumeText(hasFs), "filesystem", IF hasFs THEN 1 ELSE 0)
  <1> DEFINE inner == IF hasFs THEN outputFS ELSE <<>>
             k == IF hasFs THEN 1 ELSE 0
             t2 == <<"{">> \o plainPairs(VolumeKeys, TRUE)
             t3 == t2 \o inner
             t4 == t3 \o <<"}">>
  <1>1. volumeText(hasFs) = t4
    BY Zenon DEF volumeText, VolumeKeys
  <1>2. Has(inner, "filesystem", k)
    <2>1. Has(<<>>, "filesystem", 0)
      BY BracesLack, Zenon DEF Lacks
    <2> QED BY <2>1, FsHas, Zenon
  <1> HIDE DEF inner, k
  <1>3. Lacks(t2, "filesystem")
    BY BracesLack, VolumeMembers, LacksJoin, Zenon
  <1> HIDE DEF t2
  <1>4. Has(t3, "filesystem", k)
    BY <1>2, <1>3, HasLater, Zenon
  <1> HIDE DEF t3
  <1>5. Has(t4, "filesystem", k)
    BY <1>4, BracesLack, HasEarlier, Zenon
  <1> QED BY <1>1, <1>5, Zenon DEF k

\* Q counts how often t is in s, element by element.
Counts(Q, s, t, N) ==
    /\ Q[0] = 0 /\ Q[N] = Occurs(s, t, N)
    /\ \A i \in 1 .. N : Q[i] = IF s[i] = t THEN Q[i - 1] + 1 ELSE Q[i - 1]
    /\ \A i \in 0 .. N : Q[i] \in Nat

LEMMA OccursStep ==
    ASSUME NEW s, NEW t, NEW N \in Nat
    PROVE  \E Q : Counts(Q, s, t, N)
  <1>0. PICK Q : Q = [i \in 0 .. N |-> Occurs(s, t, i)]
    BY Zenon
  <1>1. Q[0] = 0 /\ Q[N] = Occurs(s, t, N)
    <2>1. Occurs(s, t, 0) = 0
      BY OccursNone, Zenon
    <2> QED BY <1>0, <2>1
  <1>2. ASSUME NEW i \in 1 .. N
        PROVE  Q[i] = IF s[i] = t THEN Q[i - 1] + 1 ELSE Q[i - 1]
    <2>1. PICK n : n = i - 1
      OBVIOUS
    <2>2. n \in Nat /\ n + 1 = i /\ n \in 0 .. N /\ i \in 0 .. N
      BY <2>1
    <2>3. Occurs(s, t, n + 1) = IF s[n + 1] = t THEN Occurs(s, t, n) + 1 ELSE Occurs(s, t, n)
      BY <2>2, OccursNext, Zenon
    <2>4. Q[i] = Occurs(s, t, i) /\ Q[n] = Occurs(s, t, n)
      BY <1>0, <2>2, Zenon
    <2> QED BY <2>1, <2>2, <2>3, <2>4, Zenon
  <1>3. ASSUME NEW i \in 0 .. N
        PROVE  Q[i] \in Nat
    <2>1. i \in Nat /\ Q[i] = Occurs(s, t, i)
      BY <1>0
    <2> QED BY <2>1, OccursFinite, Zenon
  <1> QED BY <1>1, <1>2, <1>3, Zenon DEF Counts

LEMMA VolumesHave ==
    ASSUME NEW parts \in Seq(BOOLEAN)
    PROVE  Has(volumesText(parts), "filesystem", Occurs(parts, TRUE, Len(parts)))
  <1>1. PICK N : N = Len(parts)
    OBVIOUS
  <1>2. N \in Nat /\ \A i \in 1 .. N : parts[i] \in BOOLEAN
    BY <1>1
  <1>3. PICK f : /\ f = [i \in 1 .. N |-> f[i]]
                 /\ volumesText(parts) = writeSequence(f)
                 /\ \A i \in 1 .. N : f[i] = volumeText(parts[i])
    BY <1>1, <1>2, VolumeTexts, Zenon
  <1>4. PICK t : t = TRUE
    OBVIOUS
  <1>5. PICK Q : Counts(Q, parts, t, N)
    BY <1>2, OccursStep, Zenon
  <1>6. /\ Q[0] = 0 /\ Q[N] = Occurs(parts, t, N)
        /\ \A i \in 1 .. N : Q[i] = IF parts[i] = t THEN Q[i - 1] + 1 ELSE Q[i - 1]
        /\ \A i \in 0 .. N : Q[i] \in Nat
    BY <1>5, Zenon DEF Counts
  <1>7. ASSUME NEW i \in 1 .. N
        PROVE  \E k : Has(f[i], "filesystem", k) /\ Q[i] = Q[i - 1] + k
    <2>1. PICK q : q = Q[i - 1]
      BY Zenon
    <2>2. q + 0 = q
      <3>1. i - 1 \in 0 .. N
        BY <1>2
      <3>2. q \in Nat
        BY <1>6, <2>1, <3>1, Zenon
      <3> QED BY <3>2
    <2>3. CASE parts[i]
      <3>1. Has(f[i], "filesystem", 1)
        BY <1>3, <2>3, VolumeHas, Zenon
      <3>2. Q[i] = q + 1
        BY <1>2, <1>4, <1>6, <2>1, <2>3, Zenon
      <3> QED BY <2>1, <3>1, <3>2, Zenon
    <2>4. CASE ~parts[i]
      <3>1. Has(f[i], "filesystem", 0)
        BY <1>3, <2>4, VolumeHas, Zenon
      <3>2. Q[i] = q
        BY <1>2, <1>4, <1>6, <2>1, <2>4, Zenon
      <3> QED BY <2>1, <2>2, <3>1, <3>2, Zenon
    <2> QED BY <2>3, <2>4, Zenon
  <1>8. "filesystem" # ","
    BY Zenon
  <1>9. Has(writeSequence(f), "filesystem", Q[N])
    BY <1>2, <1>3, <1>6, <1>7, <1>8, HasSequence, Zenon
  <1> QED BY <1>1, <1>3, <1>4, <1>6, <1>9, Zenon

LEMMA SystemHas ==
    ASSUME NEW image, image.parts \in Seq(BOOLEAN)
    PROVE  Has(volumeSystemText(image), "filesystem", Occurs(image.parts, TRUE, Len(image.parts)))
  <1> DEFINE list == <<",", "volumes", ":", "[">> \o volumesText(image.parts) \o <<"]">>
             inner == IF image.parts = <<>> THEN <<>> ELSE list
             k == Occurs(image.parts, TRUE, Len(image.parts))
             t1 == <<",", "volumeSystem", ":", "{">>
             t2 == t1 \o plainPairs(SystemKeys, TRUE)
             t3 == t2 \o inner
             t4 == t3 \o <<"}">>
  <1>1. volumeSystemText(image) = t4
    BY Zenon DEF volumeSystemText, SystemKeys
  <1>2. "," # "filesystem" /\ ":" # "filesystem" /\ "{" # "filesystem" /\ "[" # "filesystem"
        /\ "volumes" # "filesystem" /\ "volumeSystem" # "filesystem"
    BY Zenon
  <1>3. Lacks(t1, "filesystem") /\ Lacks(<<",", "volumes", ":", "[">>, "filesystem")
    BY <1>2, LacksFour, Zenon
  <1>4. Has(volumesText(image.parts), "filesystem", k)
    BY VolumesHave, Zenon
  <1>5. image.parts = <<>> => k = 0
    <2>1. ASSUME image.parts = <<>>  PROVE Len(image.parts) = 0
      BY <2>1
    <2> QED BY <2>1, OccursNone, Zenon
  <1> HIDE DEF k
  <1>6. Has(list, "filesystem", k)
    <2>1. Has(<<",", "volumes", ":", "[">> \o volumesText(image.parts), "filesystem", k)
      BY <1>3, <1>4, HasLater, Zenon
    <2> QED BY <2>1, BracesLack, HasEarlier, Zenon
  <1> HIDE DEF t1, list
  <1>7. Has(inner, "filesystem", k)
    BY <1>5, <1>6, BracesLack, Zenon DEF Lacks
  <1> HIDE DEF inner
  <1>8. Lacks(t2, "filesystem")
    BY <1>3, SystemMembers, LacksJoin, Zenon
  <1> HIDE DEF t2
  <1>9. Has(t3, "filesystem", k)
    BY <1>7, <1>8, HasLater, Zenon
  <1> HIDE DEF t3
  <1>10. Has(t4, "filesystem", k)
    BY <1>9, BracesLack, HasEarlier, Zenon
  <1> QED BY <1>1, <1>10, Zenon DEF k

LEMMA ZerosStay ==
    ASSUME NEW N \in Nat, NEW Q, Q = [i \in 0 .. N |-> 0]
    PROVE  Q[0] = 0 /\ Q[N] = 0 /\ \A i \in 1 .. N : Q[i] = Q[i - 1] + 0
  OBVIOUS

LEMMA LacksSequence ==
    ASSUME NEW N \in Nat, NEW f, f = [i \in 1 .. N |-> f[i]], NEW t, t # ",",
           \A i \in 1 .. N : Lacks(f[i], t)
    PROVE  Lacks(writeSequence(f), t)
  <1>1. PICK Q : Q = [i \in 0 .. N |-> 0]
    BY Zenon
  <1>2. Q[0] = 0 /\ Q[N] = 0 /\ \A i \in 1 .. N : Q[i] = Q[i - 1] + 0
    BY <1>1, ZerosStay, Zenon
  <1>3. \A i \in 1 .. N : \E k : Has(f[i], t, k) /\ Q[i] = Q[i - 1] + k
    BY <1>2, Zenon DEF Lacks
  <1>4. Has(writeSequence(f), t, Q[N])
    BY <1>2, <1>3, HasSequence, Zenon
  <1> QED BY <1>2, <1>4, Zenon DEF Lacks

LEMMA FilesLack ==
    ASSUME NEW names, Len(names) \in Nat
    PROVE  Lacks(filesText(names), "filesystem")
  <1> DEFINE t1 == <<"{", "files", ":", "[">>
             t2 == t1 \o writeSequence([i \in 1 .. Len(names) |-> j(names[i])])
             t3 == t2 \o <<"]">>
             t4 == t3 \o plainPairs(ImageKeys, FALSE)
  <1>1. filesText(names) = t4
    BY Zenon DEF filesText, ImageKeys
  <1>2. "," # "filesystem" /\ ":" # "filesystem" /\ "{" # "filesystem" /\ "[" # "filesystem"
        /\ "files" # "filesystem" /\ "val" # "filesystem" /\ "junk" # "filesystem"
    BY Zenon
  <1>3. PICK f : /\ f = [i \in 1 .. Len(names) |-> f[i]]
                 /\ writeSequence([i \in 1 .. Len(names) |-> j(names[i])]) = writeSequence(f)
                 /\ \A i \in 1 .. Len(names) : f[i] = j(names[i])
    BY FileTexts, Zenon
  <1>4. Lacks(<<"val">>, "filesystem") /\ Lacks(<<"val", "junk">>, "filesystem")
    BY <1>2, LacksOne, LacksTwo, Zenon
  <1>5. \A i \in 1 .. Len(names) : Lacks(f[i], "filesystem")
    BY <1>3, <1>4, Zenon DEF j
  <1>6. Lacks(writeSequence(f), "filesystem")
    BY <1>2, <1>3, <1>5, LacksSequence, Zenon
  <1>7. Lacks(t1, "filesystem")
    BY <1>2, LacksFour, Zenon
  <1> HIDE DEF t1
  <1>8. Lacks(t2, "filesystem")
    BY <1>3, <1>6, <1>7, LacksJoin, Zenon
  <1> HIDE DEF t2
  <1>9. Lacks(t3, "filesystem")
    BY <1>8, BracesLack, LacksJoin, Zenon
  <1> HIDE DEF t3
  <1>10. Lacks(t4, "filesystem")
    BY <1>9, ImageMembers, LacksJoin, Zenon
  <1> QED BY <1>1, <1>10, Zenon

\* How many file systems libtsk finds.
FileSystems(image) ==
    IF image.vs THEN Cardinality({n \in DOMAIN image.parts : image.parts[n]})
    ELSE IF image.fs THEN 1 ELSE 0

LEMMA ImageShows ==
    ASSUME NEW image \in Image
    PROVE  Cardinality({n \in DOMAIN imageText(image) : imageText(image)[n] = "filesystem"})
               = FileSystems(image)
  <1> DEFINE inner == IF image.vs THEN volumeSystemText(image)
                      ELSE IF image.fs THEN outputFS ELSE <<>>
             k == FileSystems(image)
             t1 == filesText(image.files)
             t2 == t1 \o inner
             t3 == t2 \o <<"}">>
             parts == image.parts
  <1>1. imageText(image) = t3
    BY Zenon DEF imageText
  <1>2. Len(image.files) \in Nat /\ parts \in Seq(BOOLEAN)
    BY DEF Image
  <1>3. Cardinality({n \in DOMAIN parts : parts[n]}) = Occurs(parts, TRUE, Len(parts))
    <2>1. DOMAIN parts = 1 .. Len(parts) /\ \A n \in DOMAIN parts : parts[n] \in BOOLEAN
      BY <1>2
    <2>2. {n \in DOMAIN parts : parts[n]} = {n \in 1 .. Len(parts) : parts[n] = TRUE}
      BY <2>1, Zenon
    <2> QED BY <2>2, Zenon DEF Occurs
  <1>4. Has(inner, "filesystem", k)
    <2>1. Has(volumeSystemText(image), "filesystem", Occurs(parts, TRUE, Len(parts)))
      BY <1>2, SystemHas, Zenon
    <2>2. Has(<<>>, "filesystem", 0)
      BY BracesLack, Zenon DEF Lacks
    <2>3. CASE image.vs
      BY <1>3, <2>1, <2>3, Zenon DEF FileSystems
    <2>4. CASE ~image.vs /\ image.fs
      BY <2>4, FsHas, Zenon DEF FileSystems
    <2>5. CASE ~image.vs /\ ~image.fs
      BY <2>2, <2>5, Zenon DEF FileSystems
    <2> QED BY <2>3, <2>4, <2>5, Zenon
  <1>5. Lacks(t1, "filesystem")
    BY <1>2, FilesLack, Zenon
  <1> HIDE DEF inner, k, t1, parts
  <1>6. Has(t2, "filesystem", k)
    BY <1>4, <1>5, HasLater, Zenon
  <1> HIDE DEF t2
  <1>7. Has(t3, "filesystem", k)
    BY <1>6, BracesLack, HasEarlier, Zenon
  <1> HIDE DEF t3
  <1>8. Occurs(t3, "filesystem", Len(t3)) = k /\ DOMAIN t3 = 1 .. Len(t3)
    BY <1>7, TextIs, Zenon DEF Has
  <1> QED BY <1>1, <1>8, Zenon DEF Occurs, k

-----------------------------------------------------------------------------
(***************************************************************************)
(* What the overview file and "info" say, along the program.               *)
(***************************************************************************)
OverviewInv ==
    /\ files["overview"] \in {<<>>, imageText(img)}
    /\ pc \in {"walk", "unallocated"} => opts.command # "info"
    /\ pc = "started" /\ opts.command = "info" /\ good => Out = infoText(img)

\* The two printers have a text of a volume system each; they ask for volumes in ways of
\* their own.
LEMMA InfoSystemSame ==
    ASSUME NEW image, image.parts \in Seq(BOOLEAN)
    PROVE  infoVolumeSystem(image.parts) = volumeSystemText(image)
<1>1. (Len(image.parts) > 0) = (image.parts # <<>>)
  <2> DEFINE parts == image.parts
  <2>1. parts \in Seq(BOOLEAN)
    OBVIOUS
  <2> HIDE DEF parts
  <2>2. (Len(parts) > 0) = (parts # <<>>)
    BY <2>1
  <2> QED  BY <2>2 DEF parts
<1> DEFINE volumes == <<",", "volumes", ":", "[">> \o volumesText(image.parts) \o <<"]">>
           keys == <<"type", "description", "blockSize", "numVolumes", "offset">>
           shown == IF Len(image.parts) > 0 THEN volumes ELSE <<>>
           printed == IF image.parts = <<>> THEN <<>> ELSE volumes
<1>2. infoVolumeSystem(image.parts) =
          <<",", "volumeSystem", ":", "{">> \o plainPairs(keys, TRUE) \o shown \o <<"}">>
  BY Zenon DEF infoVolumeSystem, volumesText
<1>3. volumeSystemText(image) =
          <<",", "volumeSystem", ":", "{">> \o plainPairs(keys, TRUE) \o printed \o <<"}">>
  BY Zenon DEF volumeSystemText
<1> HIDE DEF volumes, keys
<1>4. shown = printed
  BY <1>1, Zenon
<1> HIDE DEF shown, printed
<1> QED  BY <1>2, <1>3, <1>4, Zenon

LEMMA InfoSame ==
    ASSUME NEW image \in Image
    PROVE  infoText(image) = imageText(image)
<1>0. infoVolumeSystem(image.parts) = volumeSystemText(image)
  <2>1. image.parts \in Seq(BOOLEAN)
    BY DEF Image
  <2> QED  BY <2>1, InfoSystemSame, Zenon
<1>1. (CASE image.vs -> infoVolumeSystem(image.parts)
         [] ~image.vs /\ image.fs -> outputFS
         [] OTHER -> <<>>)
      = IF image.vs THEN volumeSystemText(image) ELSE IF image.fs THEN outputFS ELSE <<>>
  <2>1. CASE image.vs
    BY <1>0, <2>1, Zenon
  <2>2. CASE ~image.vs /\ image.fs
    BY <2>2, Zenon
  <2>3. CASE ~image.vs /\ ~image.fs
    BY <2>3, Zenon
  <2> QED  BY <2>1, <2>2, <2>3, Zenon
<1> QED  BY <1>1, Zenon DEF infoText, imageText, filesText

LEMMA OverviewWritten ==
    ASSUME DOMAIN files = {"overview", "disk", "inode"},
           NEW f \in {"overview", "disk", "inode"}, NEW text, WriteFile(f, text)
    PROVE  /\ f # "overview" => files'["overview"] = files["overview"]
           /\ f = "overview" => files'["overview"] \in {files["overview"], <<>>, text}
<1>1. CASE UNCHANGED <<made, files>>
  BY <1>1
<1>2. CASE /\ made' = made \cup {f}
           /\ files' \in {[files EXCEPT ![f] = t] : t \in {<<>>, text}}
  <2>1. PICK t \in {<<>>, text} : files' = [files EXCEPT ![f] = t]
    BY <1>2
  <2>2. /\ f # "overview" => files'["overview"] = files["overview"]
        /\ f = "overview" => files'["overview"] = t
    BY <2>1
  <2> QED  BY <2>1, <2>2
<1> QED  BY <1>1, <1>2 DEF WriteFile

LEMMA InitOverview == Init => OverviewInv
<1> SUFFICES ASSUME Init  PROVE OverviewInv
  OBVIOUS
<1>1. files["overview"] = <<>> /\ pc = "options"
  BY DEF Init
<1> QED  BY <1>1 DEF OverviewInv

LEMMA SameImage == Next => img' = img /\ opts' = opts
  BY DEF Next, ParseOptions, Usage, OpenImage, LibtskCall, Call, WrapImage, PrintOverview, Start,
         PrintInfo, DumpImage, ProcessFile, WalkReturns, StartFailed, StartUnallocated, FinishWalk,
         OutputDiskMap, OutputInodeMap, DestroyWalker, Exit, Terminated, vars, wrapperVars

LEMMA OverviewFileStep ==
    FilesInv /\ OverviewInv /\ Next => files'["overview"] \in {<<>>, imageText(img)}
<1> SUFFICES ASSUME FilesInv, OverviewInv, Next
             PROVE  files'["overview"] \in {files["overview"], <<>>, imageText(img)}
  BY Zenon DEF OverviewInv
<1>1. DOMAIN files = {"overview", "disk", "inode"}
  BY DEF FilesInv
<1>2. ASSUME PrintOverview  PROVE files'["overview"] \in {files["overview"], <<>>, imageText(img)}
  <2>1. WriteFile("overview", imageText(img))
    BY <1>2, Zenon DEF PrintOverview
  <2>2. "overview" \in {"overview", "disk", "inode"}
    BY Zenon
  <2> QED  BY <1>1, <2>1, <2>2, OverviewWritten, Zenon
<1>3. ASSUME OutputDiskMap  PROVE files'["overview"] = files["overview"]
  <2>1. WriteFile("disk", <<"segments">>) \/ UNCHANGED files
    BY <1>3, Zenon DEF OutputDiskMap, fileVars
  <2>2. "disk" \in {"overview", "disk", "inode"} /\ "disk" # "overview"
    BY Zenon
  <2> QED  BY <1>1, <2>1, <2>2, OverviewWritten, Zenon
<1>4. ASSUME OutputInodeMap  PROVE files'["overview"] = files["overview"]
  <2>1. (\E text : WriteFile("inode", text)) \/ UNCHANGED files
    BY <1>4, Zenon DEF OutputInodeMap
  <2>2. "inode" \in {"overview", "disk", "inode"} /\ "inode" # "overview"
    BY Zenon
  <2> QED  BY <1>1, <2>1, <2>2, OverviewWritten, Zenon
<1>5. ASSUME ~PrintOverview, ~OutputDiskMap, ~OutputInodeMap  PROVE files' = files
  BY <1>5 DEF Next, ParseOptions, Usage, OpenImage, LibtskCall, WrapImage, Start, PrintInfo,
              DumpImage, ProcessFile, WalkReturns, StartFailed, StartUnallocated, FinishWalk,
              DestroyWalker, Exit, Terminated, vars, fileVars
<1> QED  BY <1>2, <1>3, <1>4, <1>5, Zenon

\* Where start is done, and which commands get there.
LEMMA OverviewPhaseStep ==
    PhaseInv /\ OverviewInv /\ Next =>
        /\ pc' \in {"walk", "unallocated"} => opts.command # "info"
        /\ pc' = "started" /\ opts.command = "info" /\ good' => Out' = infoText(img)
<1> SUFFICES ASSUME PhaseInv, OverviewInv, Next
             PROVE  /\ pc' \in {"walk", "unallocated"} => opts.command # "info"
                    /\ pc' = "started" /\ opts.command = "info" /\ good' => Out' = infoText(img)
  OBVIOUS
<1>1. pc' \in {"walk", "unallocated"} => opts.command # "info"
  BY DEF OverviewInv, Next, ParseOptions, Usage, OpenImage, LibtskCall, WrapImage, PrintOverview,
         Start, PrintInfo, DumpImage, ProcessFile, WalkReturns, StartFailed, StartUnallocated,
         FinishWalk, OutputDiskMap, OutputInodeMap, DestroyWalker, Exit, Terminated, vars, Walks
<1>2. PrintInfo /\ good' => Out' = infoText(img)
  BY Zenon DEF PrintInfo
<1>3. pc = "dump" => opts.command # "info"
  BY DEF PhaseInv
<1>4. pc' = "started" => \/ PrintInfo
                         \/ pc = "started" /\ Out' = Out /\ good' = good
                         \/ pc \in {"dump", "walk"}
  BY DEF Next, ParseOptions, Usage, OpenImage, LibtskCall, WrapImage, PrintOverview, Start,
         DumpImage, ProcessFile, WalkReturns, StartFailed, StartUnallocated, FinishWalk,
         OutputDiskMap, OutputInodeMap, DestroyWalker, Exit, Terminated, vars, dumpVars
<1>5. pc' = "started" /\ opts.command = "info" /\ good' => Out' = infoText(img)
  <2> SUFFICES ASSUME pc' = "started", opts.command = "info", good'
               PROVE  Out' = infoText(img)
    BY Zenon
  <2>1. CASE PrintInfo
    BY <1>2, <2>1, Zenon
  <2>2. CASE pc = "started" /\ Out' = Out /\ good' = good
    BY <2>2, Zenon DEF OverviewInv
  <2>3. CASE pc \in {"dump", "walk"}
    BY <1>3, <2>3, Zenon DEF OverviewInv
  <2> QED  BY <1>4, <2>1, <2>2, <2>3, Zenon
<1> QED  BY <1>1, <1>5, Zenon

LEMMA OverviewStep == FsripInv /\ OverviewInv /\ [Next]_vars => OverviewInv'
<1> SUFFICES ASSUME FsripInv, OverviewInv, [Next]_vars  PROVE OverviewInv'
  OBVIOUS
<1>1. CASE Next
  BY <1>1, SameImage, OverviewFileStep, OverviewPhaseStep, Zenon DEF FsripInv, OverviewInv
<1>2. CASE UNCHANGED vars
  <2>1. UNCHANGED <<pc, opts, files, img, Out, good>>
    BY <1>2, Zenon DEF vars, fileVars
  <2> QED  BY <2>1, Zenon DEF OverviewInv
<1> QED  BY <1>1, <1>2, Zenon

LEMMA OverviewHolds == Spec => []OverviewInv
<1>1. FsripInv /\ OverviewInv /\ [Next]_vars => OverviewInv'
  BY OverviewStep
<1> QED  BY <1>1, InitOverview, InvHolds, PTL DEF Spec

\* The image that is given stays.
ImageGiven == img \in Images

LEMMA ImageHolds == Spec => []ImageGiven
<1>1. Init => ImageGiven
  BY Zenon DEF Init, ImageGiven
<1>2. ImageGiven /\ [Next]_vars => ImageGiven'
  <2>1. UNCHANGED vars => img' = img
    BY Zenon DEF vars
  <2> QED  BY <2>1, SameImage, Zenon DEF ImageGiven
<1> QED  BY <1>1, <1>2, PTL DEF Spec

\* Whatever the names of the segment files, what is in the overview file shows each file system
\* that libtsk finds, once, and "info" prints the same text.
OverviewShows ==
    /\ files["overview"] # <<>> =>
           Cardinality({n \in DOMAIN files["overview"] : files["overview"][n] = "filesystem"})
               = FileSystems(img)
    /\ pc = "started" /\ opts.command = "info" /\ good /\ files["overview"] # <<>> =>
           Out = files["overview"]

LEMMA OverviewInvShows == OverviewInv /\ ImageGiven => OverviewShows
<1> SUFFICES ASSUME OverviewInv, ImageGiven  PROVE OverviewShows
  OBVIOUS
<1>0. img \in Image
  BY FsripAssumption, Zenon DEF ImageGiven
<1>1. files["overview"] # <<>> => files["overview"] = imageText(img)
  BY Zenon DEF OverviewInv
<1>2. Cardinality({n \in DOMAIN imageText(img) : imageText(img)[n] = "filesystem"}) = FileSystems(img)
  BY <1>0, ImageShows, Zenon
<1>3. pc = "started" /\ opts.command = "info" /\ good => Out = imageText(img)
  BY <1>0, InfoSame, Zenon DEF OverviewInv
<1> QED  BY <1>1, <1>2, <1>3, Zenon DEF OverviewShows

\* The overview file shows each file system that libtsk finds in the image, once, and "info"
\* prints the same text although by code of its own: for every image and command line.
THEOREM OverviewShowsAlways == Spec => []OverviewShows
<1>1. OverviewInv /\ ImageGiven => OverviewShows
  BY OverviewInvShows
<1> QED  BY <1>1, OverviewHolds, ImageHolds, PTL

\* And it is one JSON value, as long as no name of a segment file needs an escape, of however
\* many files, volumes and file systems.
THEOREM OverviewIsJsonAlways ==
    ASSUME \A image \in Images : PlainFiles(image)
    PROVE  Spec => []OverviewIsJson
<1>1. OverviewInv /\ ImageGiven => OverviewIsJson
  <2> SUFFICES ASSUME OverviewInv, ImageGiven  PROVE OverviewIsJson
    OBVIOUS
  <2>1. img \in Image /\ PlainFiles(img)
    BY FsripAssumption, Zenon DEF ImageGiven
  <2>2. IsJson(imageText(img))
    BY <2>1, ImageJson, Zenon
  <2>3. files.overview # <<>> => files.overview = imageText(img)
    BY Zenon DEF OverviewInv
  <2>4. OverviewShows
    BY OverviewInvShows, Zenon
  <2> QED  BY <2>2, <2>3, <2>4, Zenon DEF OverviewIsJson, OverviewShows, FileSystems
<1> QED  BY <1>1, OverviewHolds, ImageHolds, PTL
=============================================================================
