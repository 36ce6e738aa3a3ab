------------------------------ MODULE Wrappers ------------------------------
(***************************************************************************)
(* The wrappers of libtsk's handles (tsk.cpp): Image, VolumeSystem, Volume *)
(* and Filesystem open what they wrap in their constructors and close it   *)
(* in their destructors.                                                   *)
(*                                                                         *)
(* A handle is "img", "vs" or "fs" with the number of its volume, 0 for a  *)
(* file system on the image itself.  A constructor or destructor comes to  *)
(* a sequence of calls of libtsk, which are made one at a time.            *)
(***************************************************************************)
EXTENDS Integers, SequencesExt

CONSTANT Images     \* records as in Overview

VARIABLES
    img,        \* the image that the program is given
    handles,    \* the handles that are open
    calls       \* the calls of libtsk still to be made

wrapperVars == <<img, handles, calls>>

Open(h)  == [op |-> "open", handle |-> h]
Close(h) == [op |-> "close", handle |-> h]

ImgHandle == <<"img", 0>>
VsHandle  == <<"vs", 0>>
FsHandle(n) == <<"fs", n>>

\* Volume's constructor wraps the file system that libtsk finds, if it does.
VolumeOpens(n)  == IF img.parts[n] THEN <<Open(FsHandle(n))>> ELSE <<>>
VolumeCloses(n) == IF img.parts[n] THEN <<Close(FsHandle(n))>> ELSE <<>>

\* VolumeSystem's constructor, and its destructor: the body first, then the members. The
\* volumes go in the order in which a vector destroys its elements, first to last.
VolumeSystemOpens  == FlattenSeq([n \in 1 .. Len(img.parts) |-> VolumeOpens(n)])
VolumeSystemCloses == <<Close(VsHandle)>> \o FlattenSeq([n \in 1 .. Len(img.parts) |-> VolumeCloses(n)])

\* Mutant of ImageOpens: a file system on the image is looked for in any case.
ImageOpensBoth ==
    IF img.vs THEN <<Open(VsHandle)>> \o VolumeSystemOpens \o <<Open(FsHandle(0))>>
    ELSE <<Open(FsHandle(0))>>

\* Image's constructor.
ImageOpens ==
    CASE img.vs -> <<Open(VsHandle)>> \o VolumeSystemOpens
      [] ~img.vs /\ img.fs -> <<Open(FsHandle(0))>>
      [] OTHER -> <<>>

\* Mutant of ShouldClose: the wrapper closes the image of the walker that it is made for.
ShouldCloseWrapped == TRUE

\* LbtTskAuto::getImage and ImageInfo::start wrap the walker's image.
ShouldClose == FALSE

\* Image's destructor: Fs, then VS, in reverse order of declaration.
ImageCloses ==
    (IF ShouldClose THEN <<Close(ImgHandle)>> ELSE <<>>)
        \o (CASE img.vs -> VolumeSystemCloses
              [] ~img.vs /\ img.fs -> <<Close(FsHandle(0))>>
              [] OTHER -> <<>>)

-----------------------------------------------------------------------------
\* What a call needs to be open: the image, and for a volume's file system the volume
\* system whose part it is opened from.
Needs(h) ==
    CASE h[1] = "img" -> {}
      [] h[1] = "vs"  -> {ImgHandle}
      [] h[1] = "fs"  -> {ImgHandle} \cup (IF h[2] = 0 THEN {} ELSE {VsHandle})

\* An open handle is closed; one that is not open is opened, on handles that are.
Legal(call) ==
    LET h == call.handle
    IN  CASE call.op = "open"  -> h \notin handles /\ Needs(h) \subseteq handles
          [] call.op = "close" -> h \in handles

Call ==
    /\ calls # <<>>
    /\ handles' = IF Head(calls).op = "open" THEN handles \cup {Head(calls).handle}
                  ELSE handles \ {Head(calls).handle}
    /\ calls' = Tail(calls)
    /\ UNCHANGED img
=============================================================================
