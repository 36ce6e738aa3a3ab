----------------------------- MODULE ImageDump ------------------------------
(***************************************************************************)
(* ImageDumper, the command dumpimg: the image is read into a buffer and   *)
(* written to a stream, until its end or an error.                         *)
(***************************************************************************)
EXTENDS Integers, Sequences

CONSTANTS
    ImageSizes,  \* the sizes of images
    BufSize,     \* sizeof(buf)
    ZeroReads    \* whether libtsk may read nothing before the end of the image

ASSUME DumpAssumption ==
    /\ ImageSizes \subseteq Nat
    /\ BufSize \in Nat \ {0}
    /\ ZeroReads \in BOOLEAN

VARIABLES
    size,   \* m_img_info->size
    off,
    Out,    \* what the stream has taken: the offsets in the image of its bytes
    good,   \* Out.good()
    ret     \* what start returned, NoRet before that

dumpVars == <<size, off, Out, good, ret>>

MinusOne == 255     \* return -1, of a uint8_t
NoRet    == 256

\* The bytes of the image from offset a to before b.
Bytes(a, b) == [i \in 1 .. b - a |-> a + i - 1]

\* What tsk_img_read may say that it has read, at an offset inside of the image.
ReadLengths ==
    {n \in 0 .. BufSize : n <= size - off /\ (n = 0 => ZeroReads)}

DumpInit ==
    /\ size \in ImageSizes
    /\ off = 0 /\ Out = <<>> /\ good = TRUE /\ ret = NoRet

ReadFails ==
    /\ ret = NoRet /\ off < size
    /\ ret' = MinusOne
    /\ UNCHANGED <<size, off, Out, good>>

\* Mutant of nextOffset: a short read counts as a whole buffer.
nextOffsetByBuffer(rlen) == off + BufSize

nextOffset(rlen) == off + rlen

\* A turn of the loop; of the bytes that are written, a stream that fails takes some.
Turn ==
    /\ ret = NoRet /\ off < size
    /\ \E rlen \in ReadLengths :
          /\ off' = nextOffset(rlen)
          /\ \/ /\ good
                /\ Out' = Out \o Bytes(off, off + rlen)
                /\ UNCHANGED <<good, ret>>
             \/ /\ \E n \in 0 .. rlen : Out' = Out \o Bytes(off, off + n)
                /\ good' = FALSE
                /\ ret' = MinusOne
    /\ UNCHANGED size

\* Mutant of Returns: the last byte is left out.
ReturnsEarly ==
    /\ ret = NoRet /\ off + 1 >= size
    /\ ret' = 0
    /\ UNCHANGED <<size, off, Out, good>>

Returns ==
    /\ ret = NoRet /\ off >= size
    /\ ret' = 0
    /\ UNCHANGED <<size, off, Out, good>>

DumpNext == ReadFails \/ Turn \/ Returns

Dump == DumpInit /\ [][DumpNext]_dumpVars /\ WF_dumpVars(DumpNext)

-----------------------------------------------------------------------------
\* What comes out is the beginning of the image, each byte once and in order, however
\* reads and writes are cut short; and start returns 0 only when all of it is out.
DumpIsImage ==
    /\ Out = Bytes(0, Len(Out))
    /\ ret = 0 => Out = Bytes(0, size)
=============================================================================
