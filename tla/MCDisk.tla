------------------------------- MODULE MCDisk -------------------------------
(***************************************************************************)
(* Two usable blocks of four sectors.  A disk of four sectors has a boot   *)
(* record, a sector for FSInfo and the FAT, and a root directory of two    *)
(* sectors at cluster 1.                                                   *)
(***************************************************************************)
EXTENDS FAT32, TLC

\* Names of two characters.
a == <<65, 65>>
b == <<65, 66>>
c == <<66, 65>>
SomeNames == {a, b, c}

Record(root, per) ==
  [rootclnum |-> root, secpercl |-> per, FSInfosec |-> 1, ressec |-> 1,
   secperFAT |-> 1]

\* Two sectors to a cluster, and a root directory that does not exist.
SomeRecords == {Record(1, 2), Record(9, 1)}

Boot(record) == [kind |-> "boot", record |-> record]
File(name, attr, cl) == [name |-> name, attr |-> attr, cl |-> cl]
Dir(entries) == [kind |-> "dir", entries |-> entries]

\* A long name, a file with attributes, a directory without any (the root
\* directory itself) and a file; then the same name again.
DirectoryA == Dir(<<File(a, 15, 8), File(a, 32, 7), File(a, 0, 1), File(b, 0, 4)>>)
DirectoryB == Dir(<<File(a, 0, 2)>>)

SomeWrites ==
  {[start |-> 0, data |-> <<Boot(Record(1, 2))>>],
   [start |-> 2, data |-> <<DirectoryA, DirectoryB>>],
   [start |-> 4, data |-> <<DirectoryA>>],
   [start |-> 8, data |-> [k \in 1 .. 26 |-> DirectoryB]]}

ZeroSector == [kind |-> "zero"]
ForeignSector == [kind |-> "foreign"]

SomeReads == {[start |-> 3, count |-> 1], [start |-> 3, count |-> 2]}

SomePaths == {<<a>>, <<b>>, <<c>>, <<a, b>>}

\* Bound on the calls of rdiskinit and rdiskdeinit.
MaxFormats == 4

\* Bound: states in which memory is shared, a uint32_t has wrapped round, the
\* boot record has decayed outside a look-up or the disk was made or removed
\* more than MaxFormats times are checked but not continued; others hold at
\* most two blocks.
Bounded ==
  /\ Sound /\ (decayed => search # None) /\ formats <= MaxFormats
  /\ Cardinality(OtherSectors) <= 2 * BlockSectors
=============================================================================
