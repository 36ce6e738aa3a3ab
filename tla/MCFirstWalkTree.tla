--------------------------- MODULE MCFirstWalkTree ---------------------------
(***************************************************************************)
(* The walk over the files of two volumes, with records that get lost.     *)
(***************************************************************************)
EXTENDS FirstWalkTree, MCWriterIds

MCTwoVolumes ==
    {[size |-> 16, sectorSize |-> 2, fs |-> NoFs,
      vols |-> <<Vol("alloc", 0, 0, 2, 3, Fs1), Vol("alloc", 0, 1, 6, 2, Fs2)>>]}
=============================================================================
