------------------------- MODULE MCWriterUnallocated -------------------------
(***************************************************************************)
(* The two walks together: a bare file system, and one that is the last of *)
(* two volumes, whose files occupy some of the blocks.                     *)
(***************************************************************************)
EXTENDS SecondWalkBlocks

BareFs == [offset |-> 0, bs |-> 2, first |-> 1, last |-> 7]
PartFs == [offset |-> 8, bs |-> 2, first |-> 0, last |-> 5]

Vol(flag, beg, len, fs) ==
    [flag |-> flag, table |-> 0, slot |-> 0, start |-> beg, len |-> len, fs |-> fs]

MCImages ==
    {[size |-> 16, sectorSize |-> 2, fs |-> BareFs, vols |-> <<>>],
     [size |-> 20, sectorSize |-> 2, fs |-> NoFs,
      vols |-> <<Vol("meta", 0, 1, NoFs), Vol("alloc", 4, 6, PartFs)>>]}

Run(addr, len) == [addr |-> addr, len |-> len, flags |-> "none"]

Attr(size, runs) ==
    [id |-> 0, inuse |-> TRUE, res |-> FALSE, nonres |-> TRUE, comp |-> FALSE,
     initsize |-> size, allocsize |-> size, skiplen |-> 0, runs |-> runs]

File(name, addr, attrs) ==
    [name |-> PlainName(name), type |-> "reg", alloc |-> TRUE,
     meta |-> [addr |-> addr, used |-> TRUE, type |-> "reg", attrs |-> attrs]]

MCEntries ==
    {File("f", 2, <<Attr(3, <<Run(2, 2)>>)>>),
     File("g", 3, <<Attr(3, <<Run(4, 1), Run(1, 1)>>)>>),
     [name |-> PlainName("d"), type |-> "dir", alloc |-> TRUE, meta |-> NoMeta]}

\* The premises under which the proofs of UnallocatedIsFree, EntryWithinMax and, with the
\* second of them and no faults, UnallocatedComplete hold.
ASSUME NamesAssumption   == NamesKept
ASSUME InodesAssumption  == InodesKept
ASSUME AddressAssumption == BytesAddressed
ASSUME BlocksAssumption  == BlocksWhole
ASSUME MaximumAssumption == MaximumMeant \/ MaxUcBlocks = {0}  \* {0} asks what happens otherwise.

(***************************************************************************)
(* Spec, its fairness spelled out: infinitely often no step that changes   *)
(* something is enabled, or infinitely many such steps are taken.  None is *)
(* enabled where the program has stopped, nor where the loop over the      *)
(* extents comes round to the state it was in, which no other action       *)
(* leaves.  Every other action changes vars, but for an error of a walk    *)
(* that has met one already, and such a walk may end as well; and no state *)
(* is a deadlock.  TLC takes far longer to find that out for itself,       *)
(* action by action.                                                       *)
(***************************************************************************)
GoesRound == pc = "flush" /\ ~ENABLED <<NextFragment>>_vars

FairSpec == Init /\ [][Next]_vars /\ ([]<>(Stopped \/ GoesRound) \/ []<><<Next>>_vars)
=============================================================================
