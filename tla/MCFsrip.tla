------------------------------ MODULE MCFsrip -------------------------------
(***************************************************************************)
(* Every command with and without each file, on images with and without    *)
(* volumes and file systems.                                               *)
(***************************************************************************)
EXTENDS Fsrip

Line(command, unallocated, overview, disk, inode) ==
    [parses |-> TRUE, help |-> FALSE, command |-> command, evFiles |-> TRUE,
     unallocated |-> unallocated, overview |-> overview, disk |-> disk, inode |-> inode]

\* The commands of README.md, of which createVisitor does not know "count".
Documented == {"info", "count", "dumpfs", "dumpfiles", "dumpimg"}

Refused == Line("dumpimg", "none", TRUE, FALSE, FALSE)

MCCommandLines ==
    {Line(c, u, v, d, i) : c \in Documented \cup {"", "dump"}, u \in {"none", "block"},
                           v \in BOOLEAN, d \in BOOLEAN, i \in BOOLEAN}
        \cup {[Refused EXCEPT !.parses = FALSE], [Refused EXCEPT !.evFiles = FALSE],
              [Refused EXCEPT !.help = TRUE]}

Files == <<"plain", "plain">>

MCImages ==
    {[files |-> <<"plain">>, vs |-> TRUE, parts |-> p, fs |-> FALSE] :
         p \in {<<>>, <<TRUE>>, <<FALSE, TRUE>>, <<TRUE, FALSE, TRUE>>}}
        \cup {[files |-> Files, vs |-> FALSE, parts |-> <<>>, fs |-> b] : b \in BOOLEAN}
=============================================================================
