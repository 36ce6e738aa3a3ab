---------------------------- MODULE MCWriterRuns ----------------------------
(***************************************************************************)
(* Where the data is: files with slack, a sparse run, a filler, skipped    *)
(* bytes, compression, two attributes, two names, or another file's block, *)
(* in a bare file system and in one at an offset.                          *)
(***************************************************************************)
EXTENDS WriterProperties

BareFs == [offset |-> 0, bs |-> 3, first |-> 0, last |-> 5]
PartFs == [offset |-> 4, bs |-> 3, first |-> 0, last |-> 4]

MCImages ==
    {[size |-> 18, sectorSize |-> 2, fs |-> BareFs, vols |-> <<>>],
     [size |-> 19, sectorSize |-> 2, fs |-> NoFs,
      vols |-> <<[flag |-> "alloc", table |-> 0, slot |-> 0, start |-> 2, len |-> 8,
                  fs |-> PartFs]>>]}

Run(addr, len, flags) == [addr |-> addr, len |-> len, flags |-> flags]

Attr(i, size, skip, runs) ==
    [id |-> i, inuse |-> TRUE, res |-> FALSE, nonres |-> TRUE, comp |-> FALSE,
     initsize |-> size, allocsize |-> 3 * size, skiplen |-> skip, runs |-> runs]

File(name, addr, attrs) ==
    [name |-> PlainName(name), type |-> "reg", alloc |-> TRUE,
     meta |-> [addr |-> addr, used |-> TRUE, type |-> "reg", attrs |-> attrs]]

Resident == [Attr(1, 2, 0, <<>>) EXCEPT !.res = TRUE, !.nonres = FALSE]

Sparse  == <<Attr(0, 7, 0, <<Run(3, 1, "none"), Run(0, 1, "sparse"), Run(1, 2, "none")>>)>>
Skipped == <<Attr(0, 4, 2, <<Run(4, 1, "none"), Run(9, 1, "filler"), Run(2, 1, "none")>>), Resident>>
Shared  == <<[Attr(0, 1, 0, <<Run(0, 2, "none")>>) EXCEPT !.comp = TRUE],
             Attr(2, 0, 0, <<Run(2, 1, "none")>>),
             [Attr(3, 9, 0, <<Run(0, 5, "none")>>) EXCEPT !.inuse = FALSE]>>

MCEntries ==
    {File("sparse", 1, Sparse), File("skipped", 3, Skipped), File("link", 3, Skipped),
     File("shared", 4, Shared)}

\* The premises under which the proof of InodeRunsFaithful holds.
ASSUME NamesAssumption   == NamesKept
ASSUME MaximumAssumption == MaximumMeant
ASSUME AddressAssumption == BytesAddressed
ASSUME BlocksAssumption  == BlocksWhole
ASSUME RangeAssumption   == DataInRange
=============================================================================
