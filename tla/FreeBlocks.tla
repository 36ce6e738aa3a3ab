----------------------------- MODULE FreeBlocks -----------------------------
(***************************************************************************)
(* What the second walk of fsrip promises of the blocks of file systems:   *)
(* once the first blocks are handed out to an unallocated entry, it is     *)
(* settled which ones files have, and none of those is handed out.  Each   *)
(* entry gets blocks that follow one another, behind all those that went   *)
(* out before in its file system, so that none goes out twice.             *)
(*                                                                         *)
(* A block is a pair: the index of its file system, and its address.       *)
(***************************************************************************)
EXTENDS Integers

VARIABLES used,     \* the blocks that files have
          given     \* the entries: pairs of a name and the set of blocks it got

vars == <<used, given>>

Init == used = {} /\ given = {}

Use ==
    /\ given = {} /\ given' = {}
    /\ used \subseteq used'

\* All blocks between two of S, in one file system, are in S.
Consecutive(S) == \A x, y \in S : x[1] = y[1] /\ {x[1]} \X (x[2] .. y[2]) \subseteq S

\* In no file system has S a block that is behind, or the same as, one that T has.
Ascend(S, T) == \A x \in S, y \in T : x[1] = y[1] => x[2] < y[2]

HandOut ==
    \E e \in given' \ given :
        /\ given' = given \cup {e} /\ used' = used
        /\ e[2] # {} /\ Consecutive(e[2])
        /\ e[2] \cap used = {}
        /\ \A d \in given : Ascend(d[2], e[2])

Spec == Init /\ [][Use \/ HandOut]_vars
=============================================================================
