------------------------------- MODULE IdTree -------------------------------
(***************************************************************************)
(* What fsrip promises of the identifiers of its records: they number the  *)
(* entries of a tree that is met in depth-first order.                     *)
(*                                                                         *)
(* An entry is known by its position: the number of its ancestors, from    *)
(* the top, and its own, among the entries of their directory.  Each new   *)
(* entry is the first in the entry before it or the next one of the same   *)
(* directory or of one further up.  A record may be lost, its position is  *)
(* then not used again.                                                    *)
(***************************************************************************)
EXTENDS Integers, Sequences

VARIABLES here,     \* the position of the last entry
          records   \* the records written

vars == <<here, records>>

Position == Seq(Nat)

\* Ids, and the key that is the prefix of the ids of an entry's children: a record type,
\* the level, and numbers.
Level(pos) == IF pos = <<>> THEN 0 ELSE Len(pos) - 1

Id(pos) == <<0, Level(pos)>> \o pos

Key(pos) == <<0, Len(pos)>> \o pos

Above(pos) == SubSeq(pos, 1, Len(pos) - 1)

RecordAt(pos) == [id |-> Id(pos), parent |-> Id(Above(pos)), children |-> Key(pos)]

\* The position after pos, in the directory that is n levels deep.
Sibling(pos, n) == [i \in 1 .. n |-> IF i = n THEN pos[i] + 1 ELSE pos[i]]

Following(pos) == {Append(pos, 0)} \cup {Sibling(pos, n) : n \in 1 .. Len(pos)}

Init == here = <<>> /\ records = <<>>

Visit ==
    \E pos \in Following(here) :
        /\ here' = pos
        /\ records' = records \/ records' = Append(records, RecordAt(pos))

Spec == Init /\ [][Visit]_vars
=============================================================================
