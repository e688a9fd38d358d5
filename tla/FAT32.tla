-------------------------------- MODULE FAT32 --------------------------------
(***************************************************************************)
(* The FAT32 reader, kernel/disk/fat32.c, on the RAM disk: fat32init reads *)
(* the boot record, locateFileCl looks a path up, one round per directory. *)
(*                                                                         *)
(* A sector is a record with a kind: "boot" has the boot record's fields,  *)
(* "dir" has entries [name, attr, cl]; names that are looked up occur in   *)
(* directories only.  A name is a sequence of 11 characters; in a path     *)
(* there is a separator between two names and a 0 behind the last one.     *)
(*                                                                         *)
(* BRec points into the stack frame of fat32init, which has returned: what *)
(* it points to may turn into anything (Decay).                            *)
(***************************************************************************)
EXTENDS RamDisk, Utils

CONSTANTS
  NameLength, \* characters in a name (11)
  Paths,      \* the paths that are looked up
  Names,      \* the names that occur
  Records,    \* the boot records [rootclnum, secpercl, ...] that memory may show
  FatSector,  \* the sector at 0x12345678, where fat32init puts the FAT
  MaxRounds   \* bound: directories in one look-up

\* A sector that is a boot record or a directory has the fields of one.
Readable(sector) ==
  /\ sector.kind = "boot" => sector.record \in Records
  /\ sector.kind = "dir" =>
       sector.entries \in Seq([name : [1 .. NameLength -> Nat], attr : Nat, cl : Nat])

\* What memory shows of a boot record are numbers, whoever wrote them; there
\* is no 0 in a path before its end.
ASSUME FAT32Assumption ==
  /\ NameLength \in Nat \ {0} /\ FatSector \in Nat
  /\ Paths \subseteq Seq([1 .. NameLength -> Nat \ {0}])
  /\ Records \subseteq [rootclnum : Nat, secpercl : Nat, FSInfosec : Nat,
                       ressec : Nat, secperFAT : Nat]
  /\ \A w \in Writes : \A i \in DOMAIN w.data : Readable(w.data[i])
  /\ Readable(Zero) /\ Readable(Foreign)

VARIABLES
  BRec,       \* the boot record, or None before fat32init
  search,     \* the look-up in progress, or None
  answer,     \* the look-up that has just returned, or None
  decayed     \* ghost: BRec is not what fat32init has read

fatVars == <<BRec, search, answer, decayed>>
vars == <<diskVars, fatVars>>

None == [kind |-> "none"]

LongName == 15     \* 0x0F: a part of a long name

FatInit ==
  /\ Init
  /\ BRec = None /\ search = None /\ answer = None /\ decayed = FALSE

\* The first sector as a boot record: what it is not in, can be anything.
RecordsIn(sector) ==
  IF sector.kind = "boot" THEN {sector.record} ELSE Records

\* The reads in the order of the code; the first that is over the limit
\* panics, and the later ones do not happen.
fat32init ==
  /\ ~panicked /\ search = None
  /\ IF Over(0, 1)
     THEN /\ panicked' = TRUE /\ Refusal(0, 1)
          /\ UNCHANGED <<mem, BRec, decayed, wrapped>>
     ELSE \E record \in RecordsIn(mem[Sector(0, 0)]) :
            /\ BRec' = record /\ decayed' = FALSE
            /\ panicked' = (\/ Over(record.FSInfosec, 1)
                            \/ Over(record.ressec, record.secperFAT))
            /\ IF Over(record.FSInfosec, 1) THEN Refusal(record.FSInfosec, 1)
               ELSE Refusal(record.ressec, record.secperFAT)
            /\ mem' = IF panicked' THEN mem
                      ELSE [s \in Sectors |->
                        IF s - FatSector \in Span(record.secperFAT)
                        THEN mem[Sector(record.ressec, s - FatSector)] ELSE mem[s]]
            /\ wrapped' = (\/ wrapped
                           \/ ~panicked' /\ Wraps(record.ressec, record.secperFAT))
  /\ answer' = None
  /\ UNCHANGED <<pmm_map, ramdisk, ramdiskblocks, others, ghosts, search>>

\* The stack that BRec points into is used by others.
Decay ==
  /\ BRec # None /\ \E record \in Records : BRec' = record
  /\ decayed' = TRUE
  /\ UNCHANGED <<diskVars, search, answer>>

BufferBlocks == (BRec.secpercl \div BlockSectors) + 1

\* locateFileCl up to newloop1: the buffer, cleared, and the root directory.
locateFileCl(path) ==
  /\ ~panicked /\ search = None /\ BRec # None
  /\ pmm_map' = Marked(BufferBlocks) /\ mem' = ClearedBy(BufferBlocks)
  /\ search' = [kind |-> "search", path |-> path, round |-> 0,
                ccl |-> BRec.rootclnum, cdire |-> FirstFit(BufferBlocks),
                blocks |-> BufferBlocks, before |-> pmm_map]
  /\ answer' = None
  /\ UNCHANGED <<ramdisk, ramdiskblocks, panicked, others, ghosts, refused,
                 wrapped, BRec, decayed>>

DirectorySector == (search.ccl * BRec.secpercl) % CountMod

\* A sector read as a part of a directory.
EntriesOf(sector) == IF sector.kind = "dir" THEN sector.entries ELSE <<>>

\* The entries of the directory's cluster, sector by sector.
Entries(first) ==
  LET upto[k \in 0 .. BRec.secpercl] ==
        IF k = 0 THEN <<>> ELSE upto[k - 1] \o EntriesOf(mem[Sector(first, k - 1)])
  IN  upto[BRec.secpercl]

\* An entry's name with what follows it in memory: the attributes.  There is
\* no 0 between them, so that the name is found only if these are 0.
EntryString(entry) == entry.name \o <<entry.attr>>

\* The entry has the name: strcmp(cdire[i].entr.name, tempstr) is 0, tempstr
\* the name with a 0 behind it.
Hit(entry, name) ==
  entry.attr # LongName /\ strcmp(EntryString(entry), name \o <<0>>) = 0

\* Faulty variant: the last entry with the name counts.
FirstHitLast(entries, name) ==
  Max({i \in DOMAIN entries : Hit(entries[i], name)})

FirstHit(entries, name) ==
  Min({i \in DOMAIN entries : Hit(entries[i], name)})

\* The name at dir + stroffset; behind the path lies memory of any content.
NamesAt(round) ==
  IF round < Len(search.path) THEN {search.path[round + 1]} ELSE Names

\* dir[(stroffset/11*11)+11] = 0.  The path's 0 is at 12n - 1; the index is
\* right in the first round only.
EndTests(round) ==
  LET stroffset == round * (NameLength + 1)
      index == (stroffset \div NameLength) * NameLength + NameLength
      end == Len(search.path) * (NameLength + 1) - 1
  IN  IF index = end THEN {TRUE} ELSE IF index < end THEN {FALSE} ELSE BOOLEAN

Answer(cl, map) ==
  answer' = [kind |-> "answer", path |-> search.path, cl |-> cl,
             cdire |-> search.cdire, blocks |-> search.blocks,
             kept |-> map = search.before]

BufferFilled ==
  [s \in Sectors |->
     IF s - search.cdire * BlockSectors \in Span(BRec.secpercl)
     THEN mem[Sector(DirectorySector, s - search.cdire * BlockSectors)]
     ELSE mem[s]]

\* Faulty variant: the buffer is given back as one block too few.
GivenBackLess ==
  pmm_map \ RegionBits(search.cdire, (BRec.secpercl \div BlockSectors))

\* pfree((uint64_t)cdire, ...): pmm_unreg's uint32_t drops what hhdm added.
GivenBack == pmm_map \ RegionBits(search.cdire, BufferBlocks)

\* The directory's sectors do not exist: rdiskread panics.
RoundOver ==
  /\ search # None /\ ~panicked
  /\ Over(DirectorySector, BRec.secpercl)
  /\ panicked' = TRUE /\ Refusal(DirectorySector, BRec.secpercl)
  /\ UNCHANGED <<pmm_map, mem, ramdisk, ramdiskblocks, others, ghosts,
                 wrapped, fatVars>>

Reading ==
  /\ search # None /\ ~panicked
  /\ ~Over(DirectorySector, BRec.secpercl)
  /\ mem' = BufferFilled
  /\ wrapped' = (wrapped \/ Wraps(DirectorySector, BRec.secpercl))
  /\ UNCHANGED <<ramdisk, ramdiskblocks, panicked, others, ghosts, refused,
                 BRec, decayed>>

\* No entry has the name: return 0, with the buffer kept.
RoundMiss ==
  /\ Reading
  /\ \E name \in NamesAt(search.round) :
       \A i \in DOMAIN Entries(DirectorySector) :
         ~Hit(Entries(DirectorySector)[i], name)
  /\ Answer(0, pmm_map)
  /\ search' = None
  /\ UNCHANGED pmm_map

\* An entry has the name: return its cluster, or go on there.
RoundHit ==
  /\ Reading
  /\ LET entries == Entries(DirectorySector)
     IN  \E name \in NamesAt(search.round), end \in EndTests(search.round) :
           /\ \E i \in DOMAIN entries : Hit(entries[i], name)
           /\ LET cl == entries[FirstHit(entries, name)].cl
              IN  IF end
                  THEN /\ pmm_map' = GivenBack
                       /\ Answer(cl, pmm_map')
                       /\ search' = None
                  ELSE /\ search.round < MaxRounds
                       /\ search' = [search EXCEPT !.round = @ + 1, !.ccl = cl]
                       /\ UNCHANGED <<pmm_map, answer>>

\* What the next round fills: the buffer, or more than it if the boot record
\* has decayed meanwhile.
FillSectors == {search.cdire * BlockSectors + k : k \in Span(BRec.secpercl)}

BufferSectors ==
  IF search = None THEN {}
  ELSE SectorsOf(search.cdire, search.blocks) \cup FillSectors

FatSectors ==
  IF BRec = None THEN {} ELSE {FatSector + k : k \in Span(BRec.secperFAT)}

\* The disk is used by one caller at a time: nothing runs inside a look-up.
Step ==
  \/ search = None /\ DiskNext /\ answer' = None /\ UNCHANGED <<BRec, search, decayed>>
  \/ fat32init \/ Decay
  \/ \E path \in Paths : locateFileCl(path)
  \/ RoundOver \/ RoundMiss \/ RoundHit

Next ==
  /\ Step
  /\ shared' = (\/ shared \/ Overlap'
                \/ (BufferSectors \cap (DiskSectors \cup OtherSectors))' # {}
                \/ (FatSectors \cap (DiskSectors \cup OtherSectors))' # {})

Spec == FatInit /\ [][Next]_vars

-----------------------------------------------------------------------------
(* Properties *)

RootSectors ==
  (BRec.rootclnum * BRec.secpercl) .. ((BRec.rootclnum + 1) * BRec.secpercl - 1)

\* The entries of the root directory, as the disk's users have written it.
RootEntries ==
  LET upto[k \in 0 .. BRec.secpercl] ==
        IF k = 0 THEN <<>>
        ELSE upto[k - 1] \o written[BRec.rootclnum * BRec.secpercl + k - 1].entries
  IN  upto[BRec.secpercl]

\* A name that is looked up in the root directory is answered with the
\* cluster of the first entry that has the name and no attributes, and with 0
\* only when there is none: the answer follows what was last written to the
\* disk, by way of the buffer, in spite of long names, other files' entries
\* and earlier look-ups - as long as the boot record has not decayed.
LocateFinds ==
  /\ Sound /\ ~decayed /\ answer # None
  /\ Len(answer.path) = 1
  /\ \A s \in RootSectors : s \in DOMAIN written /\ written[s].kind = "dir"
  =>
  LET plain == {i \in DOMAIN RootEntries :
                  RootEntries[i].name = answer.path[1] /\ RootEntries[i].attr = 0}
  IN  answer.cl = IF plain = {} THEN 0 ELSE RootEntries[Min(plain)].cl

\* A look-up that found its file leaves every block as free or as used as it
\* was, if it was granted a buffer and this was one block (clusters smaller
\* than a block).  One that found nothing keeps its buffer for good, and one
\* that was refused a buffer frees block 0: nothing is said of these.
BufferReturned ==
  /\ Sound /\ ~decayed /\ answer # None
  /\ answer.cl # 0 /\ answer.cdire # 0 /\ answer.blocks = 1
  => answer.kept

\* The abstract disk: what memory shows of it, whoever wrote it.
DiskContent ==
  [s \in {k \in 0 .. (ramdiskblocks - 1) : ramdisk + k \in DOMAIN mem} |-> mem[ramdisk + s]]

Store == INSTANCE SectorStore
           WITH Sizes <- DiskSizes, size <- ramdiskblocks, content <- DiskContent,
                stopped <- panicked, lost <- ~Sound

\* The disk is its users' alone: between rdiskinit and the next rdiskinit or
\* rdiskdeinit all of its sectors, those that nobody has written too, change by
\* rdiskwrite only, where it was asked to write and nowhere else, whatever a
\* look-up, fat32init or pmalloc's other callers do to the memory around it.
\* A write ends on the disk, and except is called only for an access that ends
\* behind it, never for one that the disk could serve; then nothing has been
\* written.  So it is until memory has two owners or a uint32_t wraps round.
RefinesStore == Store!Spec

=============================================================================
