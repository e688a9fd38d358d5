----------------------------- MODULE DiskProofs -----------------------------
(***************************************************************************)
(* What holds of the RAM disk and of the look-ups on it, for any amount of *)
(* memory, any sectors, disks, writes and paths: until a sector of memory  *)
(* has two owners or a uint32_t wraps round, the disk's sectors and the    *)
(* memory of others keep their content, a look-up finds the file that the  *)
(* directory last written has, and leaves the bitmap as it was.            *)
(*                                                                         *)
(* The strengthening says who owns what: the disk, the other callers and   *)
(* what the look-up is about to fill are apart in every state, so that     *)
(* each step writes to sectors of one owner only.  What a look-up reads    *)
(* lies on the disk, hence in memory, and has the fields it is read for.   *)
(***************************************************************************)
EXTENDS FAT32, TLAPS, FiniteSetTheorems, WellFoundedInduction, NaturalsInduction

-----------------------------------------------------------------------------
(* Numbers *)

\* A set of numbers has a least one, and Min finds it.
LEMMA LeastNumber ==
  ASSUME NEW S, S \subseteq Nat, S # {}
  PROVE  Min(S) \in S /\ \A y \in S : Min(S) <= y
<1> DEFINE R == {p \in Nat \X Nat : p[1] < p[2]}
<1>0. OpToRel(<, Nat) = R
  BY Zenon DEF OpToRel
<1>1. IsWellFoundedOn(R, Nat)
  BY <1>0, NatLessThanWellFounded, Zenon
<1> HIDE DEF R
<1>2. PICK x \in S : \A y \in S : <<y, x>> \notin R
  BY <1>1, WFMin, Zenon
<1>3. ASSUME NEW y \in S PROVE x <= y
  <2>1. <<y, x>> \in Nat \X Nat /\ <<y, x>> \notin R
    BY <1>2
  <2>2. ~(<<y, x>>[1] < <<y, x>>[2])
    BY <2>1, Zenon DEF R
  <2>3. ~(y < x)
    BY <2>2
  <2>4. x \in Nat /\ y \in Nat
    OBVIOUS
  <2> QED
    BY <2>3, <2>4
<1> QED
  BY <1>3 DEF Min

\* A greater factor by at least 1 is a greater product by at least one.
LEMMA Monotone ==
  ASSUME NEW a \in Nat, NEW b \in Nat, NEW w \in Nat, a + 1 <= b
  PROVE  a * w + w <= b * w /\ a * w \in Nat
<1>1. PICK d \in Nat : b = a + 1 + d
  <2>1. b - (a + 1) \in Nat /\ b = a + 1 + (b - (a + 1))
    OBVIOUS
  <2> QED
    BY <2>1
<1>2. b * w = a * w + w + d * w
  BY <1>1
<1>3. a * w \in Nat /\ d * w \in Nat
  OBVIOUS
<1> QED
  BY <1>2, <1>3

\* The same of factors that may be equal.
LEMMA MonotoneWeak ==
  ASSUME NEW a \in Nat, NEW b \in Nat, NEW w \in Nat, a <= b
  PROVE  a * w <= b * w /\ a * w \in Nat /\ b * w \in Nat
<1>1. CASE a = b
  BY <1>1
<1>2. CASE a # b
  <2>1. a + 1 <= b
    BY <1>2
  <2>2. a * w + w <= b * w /\ a * w \in Nat
    BY <2>1, Monotone
  <2>3. b * w \in Nat
    OBVIOUS
  <2> QED
    BY <2>2, <2>3
<1> QED
  BY <1>1, <1>2

\* How often one number goes into another.
LEMMA Quotient ==
  ASSUME NEW n \in Nat, NEW w \in Nat \ {0}
  PROVE  n \div w \in Nat /\ (n \div w) * w <= n
<1>1. (n \div w) * w + (n % w) = n
  OBVIOUS
<1>2. n \div w \in Nat /\ n % w \in Nat
  OBVIOUS
<1>3. (n \div w) * w \in Nat
  BY <1>2
<1> QED
  BY <1>1, <1>2, <1>3

-----------------------------------------------------------------------------
(* pmalloc *)

\* The run that pmalloc finds lies in memory and is free.
LEMMA FirstFitIs ==
  ASSUME NEW blocks \in Nat
  PROVE  /\ FirstFit(blocks) \in Nat
         /\ Granted(blocks) =>
              /\ blocks # 0 /\ FirstFit(blocks) + blocks <= TotalBlocks
              /\ FirstFit(blocks) \notin pmm_map
         /\ ~Granted(blocks) => FirstFit(blocks) = 0
<1>1. TotalBlocks \in Nat
  BY RamDiskAssumption
<1>2. CASE Granted(blocks)
  <2>1. FreeRuns(blocks) \subseteq Nat /\ FreeRuns(blocks) # {} /\ blocks # 0
    BY <1>1, <1>2 DEF FreeRuns, Granted
  <2>2. FirstFit(blocks) \in FreeRuns(blocks)
    BY <2>1, LeastNumber DEF FirstFit
  <2>3. FirstFit(blocks) \in FirstFit(blocks) .. (FirstFit(blocks) + blocks - 1)
    BY <2>1, <2>2
  <2> QED
    BY <1>1, <1>2, <2>1, <2>2, <2>3 DEF FreeRuns
<1>3. CASE ~Granted(blocks)
  BY <1>3 DEF Granted, FirstFit
<1> QED
  BY <1>2, <1>3

\* The sectors of a run in memory are sectors of memory, the first block's
\* among them.
LEMMA RunSectors ==
  ASSUME NEW start \in Nat, NEW blocks \in Nat \ {0}
  PROVE  /\ SectorsOf(start, 1) \subseteq SectorsOf(start, blocks)
         /\ start + blocks <= TotalBlocks => SectorsOf(start, blocks) \subseteq Sectors
<1>1. BlockSectors \in Nat \ {0} /\ TotalBlocks \in Nat
  BY RamDiskAssumption
<1>2. start * BlockSectors \in Nat
  BY <1>1
<1>3. /\ (start + 1) * BlockSectors <= (start + blocks) * BlockSectors
      /\ (start + 1) * BlockSectors \in Nat /\ (start + blocks) * BlockSectors \in Nat
  <2>1. start + 1 \in Nat /\ start + blocks \in Nat /\ start + 1 <= start + blocks
    OBVIOUS
  <2> QED
    BY <1>1, <2>1, MonotoneWeak
<1>4. ASSUME start + blocks <= TotalBlocks
      PROVE  /\ (start + blocks) * BlockSectors <= TotalBlocks * BlockSectors
             /\ TotalBlocks * BlockSectors \in Nat
  <2>1. start + blocks \in Nat
    OBVIOUS
  <2> QED
    BY <1>1, <1>4, <2>1, MonotoneWeak
<1> QED
  BY <1>2, <1>3, <1>4 DEF SectorsOf, Sectors

\* Of a run of one block its own bit is marked.
LEMMA OneBit ==
  ASSUME NEW b \in Nat
  PROVE  RegionBits(b, 1) = {b}
<1>1. ByteBits \in Nat \ {0}
  BY RamDiskAssumption
<1>2. (b \div ByteBits) * ByteBits + (b % ByteBits) = b
  BY <1>1
<1>3. 0 .. (1 - 1) = {0} /\ b + 0 = b
  OBVIOUS
<1>4. RegionBits(b, 1) = {((b + k) \div ByteBits) * ByteBits + (b % ByteBits) : k \in {0}}
  BY <1>3 DEF RegionBits
<1> QED
  BY <1>2, <1>3, <1>4

-----------------------------------------------------------------------------
(* The strengthening *)

Entry == [name : [1 .. NameLength -> Nat], attr : Nat, cl : Nat]

TypeInv ==
  /\ DOMAIN mem = Sectors
  /\ ramdisk \in Nat /\ ramdiskblocks \in 0 .. (CountMod - 1)
  /\ \A o \in others : /\ o.start \in Nat /\ o.blocks \in Nat \ {0}
                       /\ o.start + o.blocks <= TotalBlocks

\* The owners are apart.
Apart ==
  /\ ~Overlap
  /\ BufferSectors \cap (DiskSectors \cup OtherSectors) = {}
  /\ FatSectors \cap (DiskSectors \cup OtherSectors) = {}

\* What the disk and the others hold is as they wrote it.
Kept ==
  /\ DOMAIN written \subseteq 0 .. (ramdiskblocks - 1)
  /\ \A s \in DOMAIN written : mem[ramdisk + s] = written[s]
  /\ DOMAIN theirs \subseteq OtherSectors
  /\ \A s \in DOMAIN theirs : mem[s] = Foreign /\ theirs[s] = Foreign

LookUpFields == {"kind", "path", "round", "ccl", "cdire", "blocks", "before"}

\* What a look-up reads has the fields it is read for.
Legible ==
  /\ \A s \in Sectors : Readable(mem[s])
  /\ BRec # None => BRec \in Records
  /\ search # None => /\ DOMAIN search = LookUpFields
                      /\ search.cdire \in Nat /\ search.ccl \in Nat
                      /\ search.blocks \in Nat \ {0}
                      /\ BRec # None

IInv ==
  /\ TypeInv
  /\ ~shared => Apart
  /\ Sound => Kept /\ Legible

\* A step that leaves the disk's sectors as they are.
DiskUntouched == \A s \in DiskSectors : mem'[s] = mem[s]

-----------------------------------------------------------------------------
(* What the parts of the strengthening say *)

\* What the others hold is memory.
LEMMA OthersInMemory ==
  ASSUME TypeInv
  PROVE  OtherSectors \subseteq Sectors
<1>1. ASSUME NEW o \in others PROVE SectorsOf(o.start, o.blocks) \subseteq Sectors
  BY RunSectors DEF TypeInv
<1> QED
  BY <1>1 DEF OtherSectors

\* An access that passes the limit and does not wrap round stays on the disk.
LEMMA Within ==
  ASSUME TypeInv, NEW start \in Nat, NEW count \in Nat,
         ~Over(start, count), ~Wraps(start, count)
  PROVE  /\ start + count <= ramdiskblocks
         /\ Span(count) = 0 .. (count - 1)
         /\ \A k \in Span(count) : /\ Sector(start, k) = ramdisk + start + k
                                   /\ Sector(start, k) \in DiskSectors
<1>1. /\ SpanMod \in Nat \ {0} /\ CountMod \in Nat /\ 2 * SpanMod <= CountMod
      /\ ramdisk \in Nat /\ ramdiskblocks \in Nat
  BY RamDiskAssumption DEF TypeInv
<1>2. start < SpanMod /\ count < SpanMod
  BY <1>1 DEF Wraps
<1>3. start % SpanMod = start /\ count % SpanMod = count
  BY <1>1, <1>2
<1>4. (start + count) % CountMod = start + count
  <2>1. start + count \in Nat /\ start + count < CountMod
    BY <1>1, <1>2
  <2> QED
    BY <1>1, <2>1
<1>5. start + count <= ramdiskblocks
  BY <1>1, <1>4 DEF Over
<1>6. Span(count) = 0 .. (count - 1)
  BY <1>3 DEF Span
<1>7. ASSUME NEW k \in Span(count)
      PROVE  /\ Sector(start, k) = ramdisk + start + k
             /\ Sector(start, k) \in DiskSectors
  <2>1. k \in 0 .. (count - 1)
    BY <1>6
  <2> QED
    BY <1>1, <1>3, <1>5, <2>1 DEF Sector, DiskSectors
<1> QED
  BY <1>5, <1>6, <1>7

\* A step that leaves the owners and their sectors alone keeps what they
\* wrote.
LEMMA KeptFrame ==
  ASSUME TypeInv, Kept, UNCHANGED <<ramdisk, ramdiskblocks, others, written, theirs>>,
         \A s \in DiskSectors \cup OtherSectors : mem'[s] = mem[s]
  PROVE  Kept'
<1>1. /\ ramdisk' = ramdisk /\ ramdiskblocks' = ramdiskblocks /\ others' = others
      /\ written' = written /\ theirs' = theirs
  OBVIOUS
<1>2. OtherSectors' = OtherSectors
  BY <1>1 DEF OtherSectors
<1>3. ASSUME NEW s \in DOMAIN written PROVE mem'[ramdisk + s] = written[s]
  <2>1. s \in 0 .. (ramdiskblocks - 1) /\ mem[ramdisk + s] = written[s]
    BY DEF Kept
  <2>2. ramdisk + s \in DiskSectors
    BY <2>1 DEF DiskSectors, TypeInv
  <2> QED
    BY <2>1, <2>2
<1>4. ASSUME NEW s \in DOMAIN theirs PROVE mem'[s] = Foreign /\ theirs[s] = Foreign
  BY DEF Kept
<1> QED
  BY <1>1, <1>2, <1>3, <1>4 DEF Kept

\* Filling other sectors leaves a sector as it is.
LEMMA FilledIs ==
  ASSUME TypeInv, NEW S, NEW v
  PROVE  /\ DOMAIN Filled(mem, S, v) = Sectors
         /\ \A s \in Sectors : Filled(mem, S, v)[s] = IF s \in S THEN v ELSE mem[s]
BY DEF Filled, TypeInv

\* The same of the block that pmalloc clears.
LEMMA ClearedByIs ==
  ASSUME TypeInv, NEW blocks \in Nat
  PROVE  /\ DOMAIN ClearedBy(blocks) = Sectors
         /\ \A s \in Sectors :
              \/ ClearedBy(blocks)[s] = mem[s]
              \/ /\ Granted(blocks) /\ s \in SectorsOf(FirstFit(blocks), 1)
                 /\ ClearedBy(blocks)[s] = Zero
<1>1. DOMAIN mem = Sectors
  BY DEF TypeInv
<1>2. CASE Granted(blocks)
  <2>1. ClearedBy(blocks) = Filled(mem, SectorsOf(FirstFit(blocks), 1), Zero)
    BY <1>2 DEF ClearedBy
  <2> QED
    BY <1>2, <2>1, FilledIs
<1>3. CASE ~Granted(blocks)
  <2>1. ClearedBy(blocks) = mem
    BY <1>3 DEF ClearedBy
  <2> QED
    BY <1>1, <2>1
<1> QED
  BY <1>2, <1>3

-----------------------------------------------------------------------------
(* The disk's steps *)

\* The initial states.
LEMMA DiskInit == FatInit => IInv
<1> SUFFICES ASSUME FatInit PROVE IInv
  OBVIOUS
<1>1. /\ mem = [s \in Sectors |-> Zero] /\ ramdisk = 0 /\ ramdiskblocks = 0
      /\ others = {} /\ DOMAIN written = {} /\ DOMAIN theirs = {}
      /\ BRec = None /\ search = None
  BY DEF FatInit, Init
<1>2. CountMod \in Nat /\ CountMod > 0
  BY RamDiskAssumption
<1>3. TypeInv
  BY <1>1, <1>2 DEF TypeInv
<1>4. DiskSectors = {} /\ OtherSectors = {}
  BY <1>1 DEF DiskSectors, OtherSectors
<1>5. Apart
  BY <1>1, <1>4 DEF Apart, Overlap
<1>6. Kept
  BY <1>1 DEF Kept
<1>7. Legible
  BY <1>1, FAT32Assumption DEF Legible
<1> QED
  BY <1>3, <1>5, <1>6, <1>7 DEF IInv

\* Memory stays memory, and the disk's size one that a uint32_t holds.
LEMMA TypeStep ==
  ASSUME TypeInv, Next
  PROVE  TypeInv'
<1>1. /\ DOMAIN mem = Sectors /\ ramdisk \in Nat /\ ramdiskblocks \in 0 .. (CountMod - 1)
      /\ BlockSectors \in Nat \ {0} /\ CountMod \in Nat /\ CountMod > 0
  BY RamDiskAssumption DEF TypeInv
<1>2. ASSUME NEW size \in DiskSizes, rdiskinit(size) PROVE TypeInv'
  <2> DEFINE blocks == size \div BlockSectors
  <2>1. size \in 0 .. (CountMod - 1) /\ size \in Nat
    BY <1>1, RamDiskAssumption
  <2>2. blocks \in Nat
    BY <1>1, <2>1, Quotient
  <2>3. /\ mem' = ClearedBy(blocks) /\ ramdisk' = FirstFit(blocks) * BlockSectors
        /\ ramdiskblocks' = size /\ others' = others
    BY <1>2 DEF rdiskinit
  <2> HIDE DEF blocks
  <2>4. DOMAIN mem' = Sectors
    BY <2>2, <2>3, ClearedByIs
  <2>5. ramdisk' \in Nat
    <3>1. FirstFit(blocks) \in Nat
      BY <2>2, FirstFitIs
    <3> QED
      BY <1>1, <2>3, <3>1
  <2> QED
    BY <2>1, <2>3, <2>4, <2>5 DEF TypeInv
<1>3. ASSUME rdiskdeinit PROVE TypeInv'
  BY <1>1, <1>3 DEF rdiskdeinit, TypeInv
<1>4. ASSUME NEW data, NEW start, rdiskwrite(data, start) PROVE TypeInv'
  <2>1. DOMAIN mem' = Sectors
    BY <1>1, <1>4 DEF rdiskwrite
  <2> QED
    BY <1>4, <2>1 DEF rdiskwrite, TypeInv
<1>5. ASSUME NEW start, NEW count, rdiskread(start, count) PROVE TypeInv'
  BY <1>5 DEF rdiskread, TypeInv
<1>6. ASSUME NEW blocks \in OtherRuns, OtherTakes(blocks) PROVE TypeInv'
  <2>1. blocks \in Nat /\ Granted(blocks)
    BY <1>6, RamDiskAssumption DEF OtherTakes
  <2>2. /\ FirstFit(blocks) \in Nat /\ blocks # 0
        /\ FirstFit(blocks) + blocks <= TotalBlocks
    BY <2>1, FirstFitIs
  <2>3. /\ others' = others \cup {[start |-> FirstFit(blocks), blocks |-> blocks]}
        /\ mem' = Filled(mem, SectorsOf(FirstFit(blocks), blocks), Foreign)
        /\ ramdisk' = ramdisk /\ ramdiskblocks' = ramdiskblocks
    BY <1>6 DEF OtherTakes
  <2>4. DOMAIN mem' = Sectors
    BY <2>3, FilledIs
  <2> QED
    BY <2>1, <2>2, <2>3, <2>4 DEF TypeInv
<1>7. ASSUME NEW o, OtherReturns(o) PROVE TypeInv'
  BY <1>7 DEF OtherReturns, TypeInv
<1>8. ASSUME fat32init PROVE TypeInv'
  <2>1. /\ ramdisk' = ramdisk /\ ramdiskblocks' = ramdiskblocks /\ others' = others
        /\ DOMAIN mem' = Sectors
    <3>1. CASE Over(0, 1)
      BY <1>1, <1>8, <3>1 DEF fat32init
    <3>2. CASE ~Over(0, 1)
      <4>1. PICK record : mem' = IF panicked' THEN mem
                      ELSE [s \in Sectors |->
                        IF s - FatSector \in Span(record.secperFAT)
                        THEN mem[Sector(record.ressec, s - FatSector)] ELSE mem[s]]
        BY <1>8, <3>2 DEF fat32init
      <4>2. DOMAIN mem' = Sectors
        BY <1>1, <4>1
      <4> QED
        BY <1>8, <4>2 DEF fat32init
    <3> QED
      BY <3>1, <3>2
  <2> QED
    BY <2>1 DEF TypeInv
<1>9. ASSUME Decay PROVE TypeInv'
  BY <1>9 DEF Decay, diskVars, TypeInv
<1>10. ASSUME NEW path, locateFileCl(path) PROVE TypeInv'
  <2>1. mem' = ClearedBy(BufferBlocks)
    BY <1>10 DEF locateFileCl
  <2>2. DOMAIN mem' = Sectors
    BY <1>1, <2>1 DEF ClearedBy, Filled
  <2> QED
    BY <1>10, <2>2 DEF locateFileCl, TypeInv
<1>11. ASSUME RoundOver PROVE TypeInv'
  BY <1>11 DEF RoundOver, TypeInv
<1>12. ASSUME Reading PROVE TypeInv'
  BY <1>1, <1>12 DEF Reading, BufferFilled, TypeInv
<1>13. ASSUME DiskNext PROVE TypeInv'
  BY <1>2, <1>3, <1>4, <1>5, <1>6, <1>7, <1>13 DEF DiskNext
<1>14. Step
  BY DEF Next
<1>15. ASSUME RoundMiss \/ RoundHit PROVE Reading
  BY <1>15 DEF RoundMiss, RoundHit
<1> QED
  BY <1>8, <1>9, <1>10, <1>11, <1>12, <1>13, <1>14, <1>15 DEF Step

\* The sectors of the disk and of the others are memory.
LEMMA OwnedIsMemory ==
  ASSUME TypeInv, Apart
  PROVE  DiskSectors \cup OtherSectors \subseteq Sectors
BY OthersInMemory DEF Apart, Overlap

\* Memory stays legible when what is written is.
LEMMA LegibleFrame ==
  ASSUME Legible, search' = None, UNCHANGED BRec,
         \A s \in Sectors : mem'[s] = mem[s] \/ Readable(mem'[s])
  PROVE  Legible'
BY DEF Legible

\* rdiskinit: the new disk is empty, and what pmalloc clears is its own.
LEMMA InitStep ==
  ASSUME TypeInv, Apart, Apart', Kept, Legible, NEW size \in DiskSizes, rdiskinit(size),
         search = None, UNCHANGED <<BRec, search>>
  PROVE  Kept' /\ Legible'
<1> DEFINE blocks == size \div BlockSectors
<1>1. /\ BlockSectors \in Nat \ {0} /\ size \in Nat
  BY RamDiskAssumption
<1>2. blocks \in Nat /\ blocks * BlockSectors <= size
  BY <1>1, Quotient
<1>3. /\ mem' = ClearedBy(blocks) /\ ramdisk' = FirstFit(blocks) * BlockSectors
      /\ ramdiskblocks' = size /\ others' = others /\ theirs' = theirs
      /\ DOMAIN written' = {}
  BY DEF rdiskinit
<1> HIDE DEF blocks
<1>4. OtherSectors' = OtherSectors
  BY <1>3 DEF OtherSectors
<1>5. ASSUME Granted(blocks), NEW s \in SectorsOf(FirstFit(blocks), 1)
      PROVE  s \in DiskSectors'
  <2>1. /\ FirstFit(blocks) \in Nat /\ blocks # 0
    BY <1>2, <1>5, FirstFitIs
  <2>2. PICK f \in Nat : f = FirstFit(blocks)
    BY <2>1
  <2>3. f * BlockSectors \in Nat /\ (f + 1) * BlockSectors = f * BlockSectors + BlockSectors
    BY <1>1
  <2>4. 1 * BlockSectors <= blocks * BlockSectors /\ blocks * BlockSectors \in Nat
    BY <1>1, <1>2, <2>1, MonotoneWeak
  <2>5. s \in (f * BlockSectors) .. (f * BlockSectors + BlockSectors - 1)
    <3>1. s \in SectorsOf(f, 1)
      BY <1>5, <2>2
    <3>2. s \in (f * BlockSectors) .. ((f + 1) * BlockSectors - 1)
      BY <3>1 DEF SectorsOf
    <3>3. PICK g \in Nat, e \in Nat : g = f * BlockSectors /\ e = (f + 1) * BlockSectors
      BY <1>1, <2>3
    <3>4. s \in g .. (e - 1) /\ e = g + BlockSectors
      BY <2>3, <3>2, <3>3
    <3>5. s \in g .. (g + BlockSectors - 1)
      BY <1>1, <3>4
    <3> QED
      BY <3>3, <3>5
  <2>6. DiskSectors' = (f * BlockSectors) .. (f * BlockSectors + size - 1)
    BY <1>3, <2>2 DEF DiskSectors
  <2>7. BlockSectors <= size
    BY <1>1, <1>2, <2>4
  <2> QED
    BY <1>1, <2>3, <2>5, <2>6, <2>7
<1>6. ASSUME NEW s \in OtherSectors PROVE mem'[s] = mem[s]
  <2>1. s \in Sectors
    BY OthersInMemory
  <2>2. s \notin DiskSectors'
    BY <1>4 DEF Apart, Overlap
  <2> QED
    BY <1>2, <1>3, <1>5, <2>1, <2>2, ClearedByIs
<1>7. Kept'
  <2>1. ASSUME NEW s \in DOMAIN theirs PROVE mem'[s] = Foreign /\ theirs[s] = Foreign
    BY <1>6 DEF Kept
  <2> QED
    BY <1>3, <1>4, <2>1 DEF Kept
<1>8. Legible'
  <2>1. \A s \in Sectors : mem'[s] = mem[s] \/ Readable(mem'[s])
    BY <1>2, <1>3, ClearedByIs, FAT32Assumption
  <2> QED
    BY <2>1, LegibleFrame
<1> QED
  BY <1>7, <1>8

\* rdiskdeinit: no sector is the disk's any more.
LEMMA DeinitStep ==
  ASSUME TypeInv, Kept, Legible, rdiskdeinit, search = None, UNCHANGED <<BRec, search>>
  PROVE  Kept' /\ Legible'
<1>1. /\ mem' = mem /\ others' = others /\ theirs' = theirs /\ DOMAIN written' = {}
  BY DEF rdiskdeinit
<1>2. OtherSectors' = OtherSectors
  BY <1>1 DEF OtherSectors
<1>3. Kept'
  BY <1>1, <1>2 DEF Kept
<1>4. Legible'
  BY <1>1, LegibleFrame
<1> QED
  BY <1>3, <1>4

\* rdiskread changes nothing.
LEMMA ReadStep ==
  ASSUME TypeInv, Kept, Legible, NEW start, NEW count, rdiskread(start, count),
         search = None, UNCHANGED <<BRec, search>>
  PROVE  Kept' /\ Legible'
<1>1. UNCHANGED <<mem, ramdisk, ramdiskblocks, others, written, theirs>>
  BY DEF rdiskread, ghosts
<1>2. Kept'
  BY <1>1, KeptFrame
<1>3. Legible'
  BY <1>1, LegibleFrame
<1> QED
  BY <1>2, <1>3

\* rdiskwrite, when it passes the limit: the sectors of memory at which the
\* data are now, and that all others are as they were.
LEMMA WriteEffect ==
  ASSUME TypeInv, NEW w \in Writes, rdiskwrite(w.data, w.start),
         ~wrapped', ~Over(w.start, Len(w.data))
  PROVE  /\ w.start + Len(w.data) <= ramdiskblocks
         /\ \A s \in Sectors :
              mem'[s] = IF s - (ramdisk + w.start) \in 0 .. (Len(w.data) - 1)
                        THEN w.data[s - (ramdisk + w.start) + 1] ELSE mem[s]
<1> DEFINE data == w.data
           start == w.start
           count == Len(w.data)
<1>1. start \in Nat /\ count \in Nat
  BY RamDiskAssumption
<1>2. /\ mem' = [s \in Sectors |->
                  IF \E k \in Span(count) : s = Sector(start, k)
                  THEN data[s - Sector(start, 0) + 1] ELSE mem[s]]
      /\ wrapped' = (wrapped \/ Wraps(start, count))
  <2>1. ~panicked'
    BY DEF rdiskwrite
  <2> QED
    BY <2>1 DEF rdiskwrite
<1>3. ~Wraps(start, count)
  BY <1>2
<1>4. /\ start + count <= ramdiskblocks /\ Span(count) = 0 .. (count - 1)
      /\ \A k \in Span(count) : /\ Sector(start, k) = ramdisk + start + k
                                /\ Sector(start, k) \in DiskSectors
  BY <1>1, <1>3, Within
<1>5. ramdisk \in Nat /\ ramdiskblocks \in Nat
  BY DEF TypeInv
<1> HIDE DEF data, start, count
<1>6. ASSUME count # 0 PROVE Sector(start, 0) = ramdisk + start
  <2>1. 0 \in Span(count)
    BY <1>1, <1>4, <1>6
  <2> QED
    BY <1>1, <1>4, <1>5, <2>1
<1>7. ASSUME NEW s \in Sectors
      PROVE  mem'[s] = IF s - (ramdisk + start) \in 0 .. (count - 1)
                       THEN data[s - (ramdisk + start) + 1] ELSE mem[s]
  <2>1. s \in Int
    BY DEF Sectors
  <2>2. (\E k \in Span(count) : s = Sector(start, k)) <=> s - (ramdisk + start) \in 0 .. (count - 1)
    <3>1. ASSUME NEW k \in Span(count), s = Sector(start, k)
          PROVE  s - (ramdisk + start) \in 0 .. (count - 1)
      BY <1>1, <1>4, <1>5, <3>1
    <3>2. ASSUME s - (ramdisk + start) \in 0 .. (count - 1)
          PROVE  \E k \in Span(count) : s = Sector(start, k)
      <4>1. s - (ramdisk + start) \in Span(count)
        BY <1>4, <3>2
      <4>2. s = ramdisk + start + (s - (ramdisk + start))
        BY <1>1, <1>5, <2>1
      <4> QED
        BY <1>4, <4>1, <4>2
    <3> QED
      BY <3>1, <3>2
  <2>3. ASSUME s - (ramdisk + start) \in 0 .. (count - 1)
        PROVE  Sector(start, 0) = ramdisk + start
    BY <1>1, <1>6, <2>3
  <2> QED
    BY <1>2, <2>2, <2>3
<1> QED
  BY <1>4, <1>7 DEF data, start, count

\* rdiskwrite: the sectors asked for, each on the disk, hold the data.
LEMMA WriteStep ==
  ASSUME TypeInv, Apart, Kept, Legible, NEW w \in Writes, rdiskwrite(w.data, w.start),
         ~wrapped', search = None, UNCHANGED <<BRec, search>>
  PROVE  Kept' /\ Legible'
<1> DEFINE data == w.data
           start == w.start
           count == Len(w.data)
           asked == start .. (start + count - 1)
<1>1. /\ start \in Nat /\ count \in Nat /\ DOMAIN data = 1 .. count
      /\ \A i \in 1 .. count : Readable(data[i])
  BY RamDiskAssumption, FAT32Assumption
<1>2. /\ ramdisk' = ramdisk /\ ramdiskblocks' = ramdiskblocks /\ others' = others
      /\ theirs' = theirs
  BY DEF rdiskwrite
<1>3. CASE Over(start, count)
  <2>1. panicked' = TRUE
    BY <1>3 DEF rdiskwrite
  <2>2. mem' = mem /\ written' = written
    BY <2>1 DEF rdiskwrite
  <2>3. Kept'
    BY <1>2, <2>2, KeptFrame
  <2>4. Legible'
    BY <2>2, LegibleFrame
  <2> QED
    BY <2>3, <2>4
<1>4. CASE ~Over(start, count)
  <2>1. ~panicked'
    BY <1>4 DEF rdiskwrite
  <2>2. /\ mem' = [s \in Sectors |->
                    IF \E k \in Span(count) : s = Sector(start, k)
                    THEN data[s - Sector(start, 0) + 1] ELSE mem[s]]
        /\ written' = [s \in DOMAIN written \cup asked |->
                    IF s \in asked THEN data[s - start + 1] ELSE written[s]]
        /\ wrapped' = (wrapped \/ Wraps(start, count))
    BY <2>1 DEF rdiskwrite
  <2>3. ~Wraps(start, count)
    BY <2>2
  <2>4. /\ start + count <= ramdiskblocks /\ Span(count) = 0 .. (count - 1)
        /\ \A k \in Span(count) : /\ Sector(start, k) = ramdisk + start + k
                                  /\ Sector(start, k) \in DiskSectors
    BY <1>1, <1>4, <2>3, Within
  <2>5. ramdisk \in Nat /\ ramdiskblocks \in Nat
    BY DEF TypeInv
  <2>7. ASSUME NEW s \in Sectors
        PROVE  mem'[s] = IF s - (ramdisk + start) \in 0 .. (count - 1)
                         THEN data[s - (ramdisk + start) + 1] ELSE mem[s]
    BY <1>4, <2>7, WriteEffect
  <2> HIDE DEF data, start, count
  <2>8. DiskSectors \subseteq Sectors /\ OtherSectors \subseteq Sectors
    BY OwnedIsMemory
  <2>9. ASSUME NEW x \in DOMAIN written'
        PROVE  x \in 0 .. (ramdiskblocks - 1) /\ mem'[ramdisk + x] = written'[x]
    <3>1. x \in DOMAIN written \/ x \in asked
      BY <2>2
    <3>2. x \in 0 .. (ramdiskblocks - 1)
      BY <1>1, <2>4, <2>5, <3>1 DEF Kept
    <3>3. ramdisk + x \in Sectors /\ x \in Int
      BY <2>5, <2>8, <3>2 DEF DiskSectors
    <3>4. mem'[ramdisk + x] = IF (ramdisk + x) - (ramdisk + start) \in 0 .. (count - 1)
                              THEN data[(ramdisk + x) - (ramdisk + start) + 1]
                              ELSE mem[ramdisk + x]
      <4>1. PICK s \in Sectors : s = ramdisk + x
        BY <3>3
      <4> QED
        BY <2>7, <4>1, Zenon
    <3>5. (ramdisk + x) - (ramdisk + start) = x - start
      BY <1>1, <2>5, <3>3
    <3>6. x \in asked <=> x - start \in 0 .. (count - 1)
      BY <1>1, <3>3
    <3>7. x \notin asked => mem[ramdisk + x] = written[x]
      BY <3>1 DEF Kept
    <3>8. written'[x] = IF x \in asked THEN data[x - start + 1] ELSE written[x]
      BY <2>2, <3>1
    <3> HIDE DEF asked
    <3>9. mem'[ramdisk + x] = IF x \in asked THEN data[x - start + 1] ELSE mem[ramdisk + x]
      <4>1. (ramdisk + x) - (ramdisk + start) = x - start
        BY <3>5
      <4>2. mem'[ramdisk + x] = IF x - start \in 0 .. (count - 1)
                                THEN data[x - start + 1] ELSE mem[ramdisk + x]
        BY <3>4, <4>1, Zenon
      <4> QED
        BY <3>6, <4>2, Zenon
    <3> QED
      BY <3>2, <3>7, <3>8, <3>9
  <2>10. ASSUME NEW s \in OtherSectors PROVE mem'[s] = mem[s]
    <3>1. s \notin DiskSectors /\ s \in Sectors
      BY <2>8 DEF Apart, Overlap
    <3>2. \A k \in Span(count) : s # Sector(start, k)
      BY <2>4, <3>1
    <3> QED
      BY <2>2, <3>1, <3>2
  <2>11. OtherSectors' = OtherSectors
    BY <1>2 DEF OtherSectors
  <2>12. Kept'
    <3>1. ASSUME NEW s \in DOMAIN theirs PROVE mem'[s] = Foreign /\ theirs[s] = Foreign
      BY <2>10 DEF Kept
    <3>2. DOMAIN theirs' \subseteq OtherSectors'
      BY <1>2, <2>11 DEF Kept
    <3>3. \A x \in DOMAIN written' : mem'[ramdisk' + x] = written'[x]
      BY <1>2, <2>9
    <3>4. DOMAIN written' \subseteq 0 .. (ramdiskblocks' - 1)
      BY <1>2, <2>9
    <3> QED
      BY <1>2, <3>1, <3>2, <3>3, <3>4 DEF Kept
  <2>13. Legible'
    <3>1. ASSUME NEW s \in Sectors PROVE mem'[s] = mem[s] \/ Readable(mem'[s])
      <4>1. CASE s - (ramdisk + start) \in 0 .. (count - 1)
        <5>1. s - (ramdisk + start) + 1 \in 1 .. count
          BY <1>1, <4>1
        <5> QED
          BY <1>1, <2>7, <4>1, <5>1
      <4>2. CASE ~(s - (ramdisk + start) \in 0 .. (count - 1))
        BY <2>7, <4>2
      <4> QED
        BY <4>1, <4>2
    <3> QED
      BY <3>1, LegibleFrame
  <2> QED
    BY <2>12, <2>13
<1> QED
  BY <1>3, <1>4

\* Another caller fills the run it is given, none of it the disk's.
LEMMA TakesStep ==
  ASSUME TypeInv, Apart, Apart', Kept, Legible, NEW blocks \in OtherRuns, OtherTakes(blocks),
         search = None, UNCHANGED <<BRec, search>>
  PROVE  Kept' /\ Legible' /\ DiskUntouched
<1> DEFINE run == SectorsOf(FirstFit(blocks), blocks)
<1>1. /\ others' = others \cup {[start |-> FirstFit(blocks), blocks |-> blocks]}
      /\ mem' = Filled(mem, run, Foreign)
      /\ theirs' = [s \in DOMAIN theirs \cup run |-> Foreign]
      /\ ramdisk' = ramdisk /\ ramdiskblocks' = ramdiskblocks /\ written' = written
  BY DEF OtherTakes
<1>2. blocks \in Nat /\ Granted(blocks)
  BY RamDiskAssumption DEF OtherTakes
<1>3. run \subseteq Sectors
  BY <1>2, FirstFitIs, RunSectors
<1>4. OtherSectors' = OtherSectors \cup run
  <2> DEFINE new == [start |-> FirstFit(blocks), blocks |-> blocks]
  <2>1. OtherSectors' = UNION {SectorsOf(o.start, o.blocks) : o \in others \cup {new}}
    BY <1>1 DEF OtherSectors
  <2>2. SectorsOf(new.start, new.blocks) = run
    OBVIOUS
  <2> HIDE DEF new, run
  <2> QED
    BY <2>1, <2>2 DEF OtherSectors
<1>5. DiskSectors' = DiskSectors
  BY <1>1 DEF DiskSectors
<1> HIDE DEF run
<1>6. \A s \in Sectors : mem'[s] = IF s \in run THEN Foreign ELSE mem[s]
  BY <1>1, FilledIs
<1>7. ASSUME NEW s \in DOMAIN theirs' PROVE mem'[s] = Foreign /\ theirs'[s] = Foreign
  <2>1. s \in DOMAIN theirs \/ s \in run
    BY <1>1
  <2>2. s \in Sectors
    BY <1>3, <2>1, OthersInMemory DEF Kept
  <2>3. theirs'[s] = Foreign
    BY <1>1, <2>1
  <2> QED
    BY <1>6, <2>1, <2>2, <2>3 DEF Kept
<1>8. ASSUME NEW s \in DOMAIN written PROVE mem'[ramdisk + s] = written[s]
  <2>1. ramdisk + s \in DiskSectors /\ mem[ramdisk + s] = written[s]
    BY DEF Kept, DiskSectors, TypeInv
  <2>2. ramdisk + s \notin run
    BY <1>4, <1>5, <2>1 DEF Apart, Overlap
  <2>3. ramdisk + s \in Sectors
    BY <2>1, OwnedIsMemory
  <2> QED
    BY <1>6, <2>1, <2>2, <2>3
<1>9. DOMAIN theirs' \subseteq OtherSectors'
  BY <1>1, <1>4 DEF Kept
<1>10. Kept'
  BY <1>1, <1>7, <1>8, <1>9 DEF Kept
<1>11. Legible'
  BY <1>6, LegibleFrame, FAT32Assumption
<1>12. ASSUME NEW s \in DiskSectors PROVE mem'[s] = mem[s]
  <2>1. s \notin run
    BY <1>4, <1>5, <1>12 DEF Apart, Overlap
  <2>2. s \in Sectors
    BY <1>12, OwnedIsMemory
  <2> QED
    BY <1>6, <2>1, <2>2
<1> QED
  BY <1>10, <1>11, <1>12 DEF DiskUntouched

\* Another caller gives its run back.
LEMMA ReturnsStep ==
  ASSUME TypeInv, Kept, Legible, NEW o \in others, OtherReturns(o),
         search = None, UNCHANGED <<BRec, search>>
  PROVE  Kept' /\ Legible'
<1>1. /\ mem' = mem /\ ramdisk' = ramdisk /\ ramdiskblocks' = ramdiskblocks
      /\ written' = written /\ others' = others \ {o}
      /\ theirs' = [s \in DOMAIN theirs \ SectorsOf(o.start, o.blocks) |-> theirs[s]]
  BY DEF OtherReturns, Without
<1>2. OtherSectors \ SectorsOf(o.start, o.blocks) \subseteq OtherSectors'
  BY <1>1 DEF OtherSectors
<1>3. DOMAIN theirs' \subseteq OtherSectors'
  BY <1>1, <1>2 DEF Kept
<1>4. Kept'
  BY <1>1, <1>3 DEF Kept
<1>5. Legible'
  BY <1>1, LegibleFrame
<1> QED
  BY <1>4, <1>5

-----------------------------------------------------------------------------
(* Directories *)

\* Sequences can be put together one after the other.
LEMMA ConcatExists ==
  ASSUME NEW g, NEW n \in Nat
  PROVE  \E f : f = [k \in 0 .. n |-> IF k = 0 THEN <<>> ELSE f[k - 1] \o g[k - 1]]
<1> DEFINE Is(f, m) ==
             f = [k \in 0 .. m |-> IF k = 0 THEN <<>> ELSE f[k - 1] \o g[k - 1]]
           S == {m \in Nat : ~ \E f : Is(f, m)}
<1>1. S = {}
  <2>1. SUFFICES ASSUME S # {} PROVE FALSE
    OBVIOUS
  <2>2. PICK m \in S : \A y \in S : m <= y
    <3>1. S \subseteq Nat
      OBVIOUS
    <3> HIDE DEF S
    <3> QED
      BY <2>1, <3>1, LeastNumber
  <2>3. m # 0
    <3> DEFINE f == [k \in 0 .. 0 |-> <<>>]
    <3>1. f = [k \in 0 .. 0 |-> IF k = 0 THEN <<>> ELSE f[k - 1] \o g[k - 1]]
      OBVIOUS
    <3> QED
      BY <3>1
  <2>4. m - 1 \in Nat /\ m - 1 \notin S
    <3>1. m \in Nat
      OBVIOUS
    <3>2. m - 1 \in Nat /\ ~(m <= m - 1)
      BY <2>3, <3>1
    <3> HIDE DEF S
    <3> QED
      BY <2>2, <3>2
  <2>5. PICK f : Is(f, m - 1)
    BY <2>4
  <2> DEFINE h == [k \in 0 .. m |-> IF k = m THEN f[m - 1] \o g[m - 1] ELSE f[k]]
  <2>6. ASSUME NEW k \in 0 .. m
        PROVE  h[k] = IF k = 0 THEN <<>> ELSE h[k - 1] \o g[k - 1]
    <3>1. \A j \in 0 .. (m - 1) : h[j] = f[j]
      BY <2>4
    <3>2. CASE k = m
      <4>1. h[k] = f[m - 1] \o g[m - 1]
        BY <3>2
      <4>2. h[k - 1] = f[m - 1]
        BY <2>4, <3>1, <3>2
      <4> QED
        BY <2>3, <3>2, <4>1, <4>2
    <3>3. CASE k # m
      <4>1. k \in 0 .. (m - 1) /\ (k # 0 => k - 1 \in 0 .. (m - 1))
        BY <2>4, <3>3
      <4>2. f[k] = IF k = 0 THEN <<>> ELSE f[k - 1] \o g[k - 1]
        BY <2>5, <4>1
      <4> HIDE DEF h
      <4> QED
        BY <3>1, <4>1, <4>2
    <3> QED
      BY <3>2, <3>3
  <2>7. Is(h, m)
    BY <2>6
  <2> HIDE DEF h
  <2> QED
    BY <2>7
<1> QED
  BY <1>1

\* The directory is what its sectors hold, one after the other.
LEMMA EntriesAre ==
  ASSUME BRec.secpercl \in Nat, NEW first
  PROVE  \E f : /\ f = [k \in 0 .. BRec.secpercl |->
                         IF k = 0 THEN <<>>
                         ELSE f[k - 1] \o EntriesOf(mem[Sector(first, k - 1)])]
                /\ Entries(first) = f[BRec.secpercl]
<1> DEFINE n == BRec.secpercl
           g == [k \in 0 .. n |-> EntriesOf(mem[Sector(first, k)])]
           u == CHOOSE f : f = [k \in 0 .. n |->
                             IF k = 0 THEN <<>>
                             ELSE f[k - 1] \o EntriesOf(mem[Sector(first, k - 1)])]
<1>1. n \in Nat
  OBVIOUS
<1> HIDE DEF n
<1>2. PICK f : f = [k \in 0 .. n |-> IF k = 0 THEN <<>> ELSE f[k - 1] \o g[k - 1]]
  <2> HIDE DEF g
  <2> QED
    BY <1>1, ConcatExists
<1>3. \A k \in 0 .. n : k # 0 => g[k - 1] = EntriesOf(mem[Sector(first, k - 1)])
  <2>1. \A k \in 0 .. n : k # 0 => k - 1 \in 0 .. n
    BY <1>1
  <2> QED
    BY <2>1
<1>4. f = [k \in 0 .. n |->
             IF k = 0 THEN <<>> ELSE f[k - 1] \o EntriesOf(mem[Sector(first, k - 1)])]
  <2> HIDE DEF g
  <2> QED
    BY <1>2, <1>3
<1>5. u = [k \in 0 .. n |->
             IF k = 0 THEN <<>> ELSE u[k - 1] \o EntriesOf(mem[Sector(first, k - 1)])]
  BY <1>4, Zenon
<1>6. Entries(first) = u[n]
  BY Zenon DEF Entries, n
<1> HIDE DEF u
<1> QED
  BY <1>5, <1>6 DEF n

\* Read from the disk, it is a sequence of entries.
LEMMA EntriesType ==
  ASSUME TypeInv, Apart, Legible, BRec.secpercl \in Nat, NEW first \in Nat,
         ~Over(first, BRec.secpercl), ~Wraps(first, BRec.secpercl)
  PROVE  Entries(first) \in Seq(Entry)
<1>1. PICK n \in Nat : n = BRec.secpercl
  OBVIOUS
<1>2. PICK f : /\ f = [k \in 0 .. n |->
                         IF k = 0 THEN <<>>
                         ELSE f[k - 1] \o EntriesOf(mem[Sector(first, k - 1)])]
               /\ Entries(first) = f[n]
  BY <1>1, EntriesAre
<1>3. ASSUME NEW k \in 0 .. n, k # 0
      PROVE  EntriesOf(mem[Sector(first, k - 1)]) \in Seq(Entry)
  <2>1. k - 1 \in Span(n)
    BY <1>1, <1>3, Within
  <2>2. Sector(first, k - 1) \in Sectors
    BY <1>1, <2>1, Within, OwnedIsMemory
  <2>3. Readable(mem[Sector(first, k - 1)])
    BY <2>2 DEF Legible
  <2>4. <<>> \in Seq(Entry)
    OBVIOUS
  <2> QED
    BY <2>3, <2>4 DEF Readable, EntriesOf, Entry
<1> DEFINE S == {k \in 0 .. n : f[k] \notin Seq(Entry)}
<1>4. S = {}
  <2>1. SUFFICES ASSUME S # {} PROVE FALSE
    OBVIOUS
  <2>2. PICK k \in S : \A y \in S : k <= y
    <3>1. S \subseteq Nat
      OBVIOUS
    <3> HIDE DEF S
    <3> QED
      BY <2>1, <3>1, LeastNumber
  <2>3. k \in 0 .. n /\ f[k] \notin Seq(Entry)
    OBVIOUS
  <2>4. k # 0
    <3>1. <<>> \in Seq(Entry)
      OBVIOUS
    <3>2. f[0] = <<>>
      BY <1>2, <1>1
    <3> QED
      BY <2>3, <3>1, <3>2
  <2>5. k - 1 \in 0 .. n /\ ~(k <= k - 1)
    BY <2>3, <2>4
  <2>6. f[k - 1] \in Seq(Entry)
    BY <2>2, <2>5
  <2>7. f[k] = f[k - 1] \o EntriesOf(mem[Sector(first, k - 1)])
    BY <1>2, <2>3, <2>4
  <2>8. EntriesOf(mem[Sector(first, k - 1)]) \in Seq(Entry)
    BY <1>3, <2>3, <2>4
  <2>9. f[k - 1] \o EntriesOf(mem[Sector(first, k - 1)]) \in Seq(Entry)
    BY <2>6, <2>8
  <2> QED
    BY <2>3, <2>7, <2>9
<1> QED
  BY <1>2, <1>4

\* The entry that is taken is one of the directory's.
LEMMA FirstHitIs ==
  ASSUME NEW entries \in Seq(Entry), NEW name, \E i \in DOMAIN entries : Hit(entries[i], name)
  PROVE  /\ FirstHit(entries, name) \in DOMAIN entries
         /\ Hit(entries[FirstHit(entries, name)], name)
         /\ \A i \in DOMAIN entries : Hit(entries[i], name) => FirstHit(entries, name) <= i
         /\ entries[FirstHit(entries, name)].cl \in Nat
<1> DEFINE S == {i \in DOMAIN entries : Hit(entries[i], name)}
<1>1. S \subseteq Nat /\ S # {}
  OBVIOUS
<1>2. FirstHit(entries, name) = Min(S)
  BY DEF FirstHit
<1>3. Min(S) \in S /\ \A y \in S : Min(S) <= y
  BY <1>1, LeastNumber
<1>4. entries[FirstHit(entries, name)] \in Entry
  BY <1>2, <1>3
<1> QED
  BY <1>2, <1>3, <1>4 DEF Entry

-----------------------------------------------------------------------------
(* The steps of the look-up *)

\* What a boot record says are numbers.
LEMMA RecordNumbers ==
  ASSUME NEW record \in Records
  PROVE  /\ record.rootclnum \in Nat /\ record.secpercl \in Nat
         /\ record.FSInfosec \in Nat /\ record.ressec \in Nat
         /\ record.secperFAT \in Nat
         /\ record # None
<1>1. record \in [rootclnum : Nat, secpercl : Nat, FSInfosec : Nat,
                  ressec : Nat, secperFAT : Nat]
  BY FAT32Assumption
<1>2. DOMAIN record # DOMAIN None
  BY <1>1 DEF None
<1> QED
  BY <1>1, <1>2

\* What fat32init takes for the boot record, with the first sector on the disk,
\* is one.
LEMMA BootRecordIs ==
  ASSUME TypeInv, Apart, Legible, ~Over(0, 1), NEW record \in RecordsIn(mem[Sector(0, 0)])
  PROVE  record \in Records
<1>1. /\ SpanMod \in Nat \ {0} /\ CountMod \in Nat /\ 2 * SpanMod <= CountMod
      /\ ramdisk \in Nat /\ ramdiskblocks \in Nat
  BY RamDiskAssumption DEF TypeInv
<1>2. (0 + 1) % CountMod = 1 /\ 0 % SpanMod = 0
  BY <1>1
<1>3. Sector(0, 0) = ramdisk /\ ~(1 > ramdiskblocks)
  BY <1>1, <1>2 DEF Sector, Over
<1>4. Sector(0, 0) \in DiskSectors
  BY <1>1, <1>3 DEF DiskSectors
<1>5. Sector(0, 0) \in Sectors
  BY <1>4, OwnedIsMemory
<1>6. Readable(mem[Sector(0, 0)])
  BY <1>5 DEF Legible
<1> QED
  BY <1>6 DEF Readable, RecordsIn

\* fat32init: the FAT lies apart from the disk and from what others hold, and
\* what it is read from is the disk.
LEMMA Fat32InitStep ==
  ASSUME TypeInv, Apart, Apart', Kept, Legible, fat32init, ~wrapped'
  PROVE  Kept' /\ Legible' /\ DiskUntouched
<1>1. /\ UNCHANGED <<ramdisk, ramdiskblocks, others, written, theirs>>
      /\ search = None /\ search' = None
  BY DEF fat32init, ghosts
<1>2. CASE Over(0, 1)
  <2>1. mem' = mem /\ BRec' = BRec
    BY <1>2 DEF fat32init
  <2>2. Kept'
    BY <1>1, <2>1, KeptFrame
  <2>3. Legible'
    BY <1>1, <2>1 DEF Legible
  <2> QED
    BY <2>1, <2>2, <2>3 DEF DiskUntouched
<1>3. CASE ~Over(0, 1)
  <2>1. PICK record \in RecordsIn(mem[Sector(0, 0)]) :
          /\ BRec' = record
          /\ panicked' = (\/ Over(record.FSInfosec, 1)
                          \/ Over(record.ressec, record.secperFAT))
          /\ mem' = IF panicked' THEN mem
                    ELSE [s \in Sectors |->
                      IF s - FatSector \in Span(record.secperFAT)
                      THEN mem[Sector(record.ressec, s - FatSector)] ELSE mem[s]]
          /\ wrapped' = (\/ wrapped
                         \/ ~panicked' /\ Wraps(record.ressec, record.secperFAT))
    BY <1>3 DEF fat32init
  <2>3. record \in Records
    BY <1>3, <2>1, BootRecordIs
  <2>4. CASE panicked'
    <3>1. mem' = mem
      BY <2>1, <2>4
    <3>2. Kept'
      BY <1>1, <3>1, KeptFrame
    <3>3. Legible'
      BY <1>1, <2>1, <2>3, <3>1 DEF Legible
    <3> QED
      BY <3>1, <3>2, <3>3 DEF DiskUntouched
  <2>5. CASE ~panicked'
    <3>1. ~Over(record.ressec, record.secperFAT) /\ ~Wraps(record.ressec, record.secperFAT)
      BY <2>1, <2>5
    <3>2. mem' = [s \in Sectors |->
                    IF s - FatSector \in Span(record.secperFAT)
                    THEN mem[Sector(record.ressec, s - FatSector)] ELSE mem[s]]
      BY <2>1, <2>5
    <3>3. record.ressec \in Nat /\ record.secperFAT \in Nat
      BY <2>3, RecordNumbers
    <3>4. ASSUME NEW s \in Sectors, s - FatSector \in Span(record.secperFAT)
          PROVE  s \in FatSectors' /\ Readable(mem'[s])
      <4>1. mem'[s] = mem[Sector(record.ressec, s - FatSector)]
        BY <3>2, <3>4
      <4>2. Sector(record.ressec, s - FatSector) \in Sectors
        BY <3>1, <3>3, <3>4, Within, OwnedIsMemory
      <4>3. s = FatSector + (s - FatSector)
        BY FAT32Assumption DEF Sectors
      <4>4. s \in FatSectors'
        BY <2>1, <2>3, <3>4, <4>3, RecordNumbers DEF FatSectors, Span
      <4> QED
        BY <4>1, <4>2, <4>4 DEF Legible
    <3>5. ASSUME NEW s \in DiskSectors \cup OtherSectors PROVE mem'[s] = mem[s]
      <4>1. s \in Sectors
        BY OwnedIsMemory
      <4>2. s \in DiskSectors' \cup OtherSectors'
        BY <1>1 DEF DiskSectors, OtherSectors
      <4>3. s \notin FatSectors'
        BY <4>2 DEF Apart
      <4> QED
        BY <3>2, <3>4, <4>1, <4>3
    <3>6. Kept'
      BY <1>1, <3>5, KeptFrame
    <3>7. \A s \in Sectors : Readable(mem'[s])
      BY <3>2, <3>4 DEF Legible
    <3>8. Legible'
      BY <1>1, <2>1, <2>3, <3>7 DEF Legible
    <3> QED
      BY <3>5, <3>6, <3>8 DEF DiskUntouched
  <2> QED
    BY <2>4, <2>5
<1> QED
  BY <1>2, <1>3

\* The boot record decays: only what BRec says changes.
LEMMA DecayStep ==
  ASSUME TypeInv, Kept, Legible, Decay
  PROVE  Kept' /\ Legible'
<1>1. /\ mem' = mem /\ search' = search /\ BRec # None
      /\ UNCHANGED <<ramdisk, ramdiskblocks, others, written, theirs>>
      /\ BRec' \in Records
  BY DEF Decay, diskVars
<1>2. Kept'
  BY <1>1, KeptFrame
<1>3. Legible'
  BY <1>1, RecordNumbers DEF Legible
<1> QED
  BY <1>2, <1>3

\* locateFileCl: what pmalloc clears is the buffer's.
LEMMA LocateStep ==
  ASSUME TypeInv, Apart, Apart', Kept, Legible, NEW path, locateFileCl(path)
  PROVE  Kept' /\ Legible' /\ DiskUntouched
<1> DEFINE blocks == BufferBlocks
<1>1. /\ UNCHANGED <<ramdisk, ramdiskblocks, others, written, theirs>>
      /\ BRec # None /\ BRec' = BRec /\ mem' = ClearedBy(blocks)
      /\ search' = [kind |-> "search", path |-> path, round |-> 0,
                    ccl |-> BRec.rootclnum, cdire |-> FirstFit(blocks),
                    blocks |-> blocks, before |-> pmm_map]
  BY DEF locateFileCl, ghosts
<1>2. BRec.secpercl \in Nat /\ BRec.rootclnum \in Nat /\ BRec \in Records
  BY <1>1, RecordNumbers DEF Legible
<1>3. blocks \in Nat \ {0}
  <2>1. BlockSectors \in Nat \ {0}
    BY RamDiskAssumption
  <2>2. BRec.secpercl \div BlockSectors \in Nat
    BY <1>2, <2>1, Quotient
  <2> QED
    BY <2>2 DEF BufferBlocks
<1> HIDE DEF blocks
<1>4. FirstFit(blocks) \in Nat
  BY <1>3, FirstFitIs
<1>5. /\ search' # None /\ search'.cdire = FirstFit(blocks)
      /\ search'.blocks = blocks /\ search'.ccl = BRec.rootclnum
  <2>1. search'.kind = "search" /\ None.kind = "none"
    BY <1>1 DEF None
  <2> QED
    BY <1>1, <2>1
<1>6. SectorsOf(FirstFit(blocks), 1) \subseteq BufferSectors'
  <2>1. SectorsOf(FirstFit(blocks), 1) \subseteq SectorsOf(FirstFit(blocks), blocks)
    BY <1>3, <1>4, RunSectors
  <2>2. BufferSectors' = SectorsOf(search'.cdire, search'.blocks) \cup FillSectors'
    BY <1>5 DEF BufferSectors
  <2> QED
    BY <1>5, <2>1, <2>2
<1>7. ASSUME NEW s \in DiskSectors \cup OtherSectors PROVE mem'[s] = mem[s]
  <2>1. s \in Sectors
    BY OwnedIsMemory
  <2>2. s \in DiskSectors' \cup OtherSectors'
    BY <1>1 DEF DiskSectors, OtherSectors
  <2>3. s \notin SectorsOf(FirstFit(blocks), 1)
    BY <1>6, <2>2 DEF Apart
  <2> QED
    BY <1>1, <1>3, <2>1, <2>3, ClearedByIs
<1>8. Kept'
  BY <1>1, <1>7, KeptFrame
<1>9. \A s \in Sectors : Readable(mem'[s])
  <2>1. Readable(Zero)
    BY FAT32Assumption
  <2> QED
    BY <1>1, <1>3, <2>1, ClearedByIs DEF Legible
<1>10. Legible'
  <2>1. DOMAIN search' = LookUpFields
    BY <1>1 DEF LookUpFields
  <2> QED
    BY <1>1, <1>2, <1>3, <1>4, <1>5, <1>9, <2>1 DEF Legible
<1> QED
  BY <1>7, <1>8, <1>10 DEF DiskUntouched

\* The first sector of the directory is a number.
LEMMA DirectoryNumber ==
  ASSUME Legible, search # None
  PROVE  DirectorySector \in Nat /\ BRec.secpercl \in Nat /\ BRec \in Records
<1>1. CountMod \in Nat \ {0}
  BY RamDiskAssumption
<1>2. search.ccl \in Nat /\ BRec.secpercl \in Nat /\ BRec \in Records
  BY RecordNumbers DEF Legible
<1>3. search.ccl * BRec.secpercl \in Nat
  BY <1>2
<1> QED
  BY <1>1, <1>2, <1>3 DEF DirectorySector

\* A round fills the buffer from the disk.
LEMMA ReadingKeeps ==
  ASSUME TypeInv, Apart, Kept, Legible, Reading, ~wrapped'
  PROVE  /\ Kept'
         /\ \A s \in Sectors : Readable(mem'[s])
         /\ ~Wraps(DirectorySector, BRec.secpercl)
         /\ DiskUntouched
<1>1. /\ search # None /\ ~Over(DirectorySector, BRec.secpercl)
      /\ mem' = BufferFilled
      /\ wrapped' = (wrapped \/ Wraps(DirectorySector, BRec.secpercl))
      /\ UNCHANGED <<ramdisk, ramdiskblocks, others, written, theirs>>
  BY DEF Reading, ghosts
<1>2. ~Wraps(DirectorySector, BRec.secpercl)
  BY <1>1
<1>3. DirectorySector \in Nat /\ BRec.secpercl \in Nat
  BY <1>1, DirectoryNumber
<1> DEFINE base == search.cdire * BlockSectors
<1>4. base \in Nat
  BY <1>1, RamDiskAssumption DEF Legible
<1>5. ASSUME NEW s \in Sectors
      PROVE  mem'[s] = IF s - base \in Span(BRec.secpercl)
                       THEN mem[Sector(DirectorySector, s - base)] ELSE mem[s]
  BY <1>1 DEF BufferFilled
<1> HIDE DEF base
<1>6. ASSUME NEW s \in Sectors, s - base \in Span(BRec.secpercl)
      PROVE  s \in BufferSectors /\ Readable(mem'[s])
  <2>1. s = base + (s - base)
    BY <1>4 DEF Sectors
  <2>2. s \in BufferSectors
    BY <1>1, <1>6, <2>1 DEF BufferSectors, FillSectors, base
  <2>3. Sector(DirectorySector, s - base) \in Sectors
    BY <1>1, <1>2, <1>3, <1>6, Within, OwnedIsMemory
  <2> QED
    BY <1>5, <1>6, <2>2, <2>3 DEF Legible
<1>7. ASSUME NEW s \in DiskSectors \cup OtherSectors PROVE mem'[s] = mem[s]
  <2>1. s \in Sectors /\ s \notin BufferSectors
    BY OwnedIsMemory DEF Apart
  <2> QED
    BY <1>5, <1>6, <2>1
<1>8. Kept'
  BY <1>1, <1>7, KeptFrame
<1>9. \A s \in Sectors : Readable(mem'[s])
  BY <1>5, <1>6 DEF Legible
<1> QED
  BY <1>2, <1>7, <1>8, <1>9 DEF DiskUntouched

\* A round whose directory does not exist panics.
LEMMA RoundOverStep ==
  ASSUME TypeInv, Kept, Legible, RoundOver
  PROVE  Kept' /\ Legible'
<1>1. /\ mem' = mem /\ search' = search /\ BRec' = BRec
      /\ UNCHANGED <<ramdisk, ramdiskblocks, others, written, theirs>>
  BY DEF RoundOver, fatVars, ghosts
<1>2. Kept'
  BY <1>1, KeptFrame
<1>3. Legible'
  BY <1>1 DEF Legible
<1> QED
  BY <1>2, <1>3

\* A round without a hit.
LEMMA RoundMissStep ==
  ASSUME TypeInv, Apart, Kept, Legible, RoundMiss, ~wrapped'
  PROVE  Kept' /\ Legible'
<1>1. Reading /\ search' = None /\ BRec' = BRec
  BY DEF RoundMiss, Reading
<1>2. Kept' /\ \A s \in Sectors : Readable(mem'[s])
  BY <1>1, ReadingKeeps
<1>3. Legible'
  BY <1>1, <1>2 DEF Legible
<1> QED
  BY <1>2, <1>3

\* A round with one: it goes on in the cluster of an entry that it has read.
LEMMA RoundHitStep ==
  ASSUME TypeInv, Apart, Kept, Legible, RoundHit, ~wrapped'
  PROVE  Kept' /\ Legible'
<1>1. Reading /\ BRec' = BRec /\ search # None
  BY DEF RoundHit, Reading
<1>2. /\ Kept' /\ \A s \in Sectors : Readable(mem'[s])
      /\ ~Wraps(DirectorySector, BRec.secpercl)
  BY <1>1, ReadingKeeps
<1>3. PICK entries : entries = Entries(DirectorySector)
  OBVIOUS
<1>4. entries \in Seq(Entry)
  BY <1>1, <1>2, <1>3, DirectoryNumber, EntriesType DEF Reading
<1>5. PICK name, end :
        /\ \E i \in DOMAIN entries : Hit(entries[i], name)
        /\ LET cl == entries[FirstHit(entries, name)].cl
           IN  IF end
               THEN search' = None
               ELSE search' = [search EXCEPT !.round = @ + 1, !.ccl = cl]
  BY <1>3, Zenon DEF RoundHit
<1>6. entries[FirstHit(entries, name)].cl \in Nat
  BY <1>4, <1>5, FirstHitIs
<1>7. CASE search' = None
  BY <1>1, <1>2, <1>7 DEF Legible
<1>8. CASE search' = [search EXCEPT !.round = @ + 1, !.ccl = entries[FirstHit(entries, name)].cl]
  <2>1. /\ search'.cdire = search.cdire /\ search'.blocks = search.blocks
        /\ search'.ccl \in Nat /\ DOMAIN search' = DOMAIN search
    <3>1. "ccl" \in DOMAIN search
      BY <1>1 DEF Legible, LookUpFields
    <3> QED
      BY <1>6, <1>8, <3>1 DEF Legible
  <2> QED
    BY <1>1, <1>2, <2>1 DEF Legible
<1> QED
  BY <1>2, <1>5, <1>7, <1>8

-----------------------------------------------------------------------------
(* Sectors stay *)

\* A state that is still sound comes from one.
LEMMA SoundBefore ==
  ASSUME Next, Sound'
  PROVE  ~shared /\ ~wrapped /\ Apart'
<1>1. ~shared' /\ ~wrapped'
  BY DEF Sound
<1>2. ~shared /\ Apart'
  BY <1>1 DEF Next, Apart
<1>3. ~wrapped
  <2>1. ASSUME NEW size, rdiskinit(size) PROVE ~wrapped
    BY <1>1, <2>1 DEF rdiskinit
  <2>2. ASSUME rdiskdeinit PROVE ~wrapped
    BY <1>1, <2>2 DEF rdiskdeinit
  <2>3. ASSUME NEW data, NEW start, rdiskwrite(data, start) PROVE ~wrapped
    <3>1. CASE panicked'
      BY <1>1, <2>3, <3>1 DEF rdiskwrite
    <3>2. CASE ~panicked'
      BY <1>1, <2>3, <3>2 DEF rdiskwrite
    <3> QED
      BY <3>1, <3>2
  <2>4. ASSUME NEW start, NEW count, rdiskread(start, count) PROVE ~wrapped
    BY <1>1, <2>4 DEF rdiskread
  <2>5. ASSUME NEW blocks, OtherTakes(blocks) PROVE ~wrapped
    BY <1>1, <2>5 DEF OtherTakes
  <2>6. ASSUME NEW o, OtherReturns(o) PROVE ~wrapped
    BY <1>1, <2>6 DEF OtherReturns
  <2>7. ASSUME fat32init PROVE ~wrapped
    <3>1. CASE Over(0, 1)
      BY <1>1, <2>7, <3>1 DEF fat32init
    <3>2. CASE ~Over(0, 1)
      BY <1>1, <2>7, <3>2 DEF fat32init
    <3> QED
      BY <3>1, <3>2
  <2>8. ASSUME Decay PROVE ~wrapped
    BY <1>1, <2>8 DEF Decay, diskVars
  <2>9. ASSUME NEW path, locateFileCl(path) PROVE ~wrapped
    BY <1>1, <2>9 DEF locateFileCl
  <2>10. ASSUME RoundOver PROVE ~wrapped
    BY <1>1, <2>10 DEF RoundOver
  <2>11. ASSUME Reading PROVE ~wrapped
    BY <1>1, <2>11 DEF Reading
  <2>12. ASSUME DiskNext PROVE ~wrapped
    BY <2>1, <2>2, <2>3, <2>4, <2>5, <2>6, <2>12 DEF DiskNext
  <2>13. ASSUME RoundMiss \/ RoundHit PROVE Reading
    BY <2>13 DEF RoundMiss, RoundHit
  <2>14. Step
    BY DEF Next
  <2> QED
    BY <2>7, <2>8, <2>9, <2>10, <2>11, <2>12, <2>13, <2>14 DEF Step
<1> QED
  BY <1>2, <1>3

\* Every step keeps the strengthening.
LEMMA DiskStep == IInv /\ [Next]_vars => IInv'
<1> SUFFICES ASSUME IInv, [Next]_vars PROVE IInv'
  OBVIOUS
<1>1. CASE UNCHANGED vars
  <2>1. /\ mem' = mem /\ ramdisk' = ramdisk /\ ramdiskblocks' = ramdiskblocks
        /\ others' = others /\ written' = written /\ theirs' = theirs
        /\ BRec' = BRec /\ search' = search
    BY <1>1 DEF vars, diskVars, fatVars
  <2>2. UNCHANGED shared /\ UNCHANGED wrapped
    BY <1>1 DEF vars, diskVars, fatVars
  <2>3. TypeInv'
    BY <2>1 DEF IInv, TypeInv
  <2>4. Apart' <=> Apart
    BY <2>1 DEF Apart, Overlap, DiskSectors, OtherSectors, BufferSectors, FillSectors,
                FatSectors
  <2>5. Kept' <=> Kept
    BY <2>1 DEF Kept, OtherSectors
  <2>6. Legible' <=> Legible
    BY <2>1 DEF Legible
  <2>7. ~shared' => Apart'
    BY <2>2, <2>4 DEF IInv
  <2>8. Sound' => Kept' /\ Legible'
    BY <2>2, <2>5, <2>6 DEF IInv, Sound
  <2> QED
    BY <2>3, <2>7, <2>8 DEF IInv
<1>2. CASE Next
  <2>1. TypeInv /\ TypeInv'
    BY <1>2, TypeStep DEF IInv
  <2>2. ~shared' => Apart'
    BY <1>2 DEF Next, Apart
  <2>3. SUFFICES ASSUME Sound' PROVE Kept' /\ Legible'
    BY <2>1, <2>2 DEF IInv
  <2>4. ~shared /\ ~wrapped /\ Apart' /\ ~wrapped'
    BY <1>2, <2>3, SoundBefore DEF Sound
  <2>5. Apart /\ Kept /\ Legible
    BY <2>4 DEF IInv, Sound
  <2>6. CASE search = None /\ DiskNext /\ answer' = None /\ UNCHANGED <<BRec, search, decayed>>
    <3>1. search = None /\ UNCHANGED <<BRec, search>>
      BY <2>6
    <3>2. ASSUME NEW size \in DiskSizes, rdiskinit(size) PROVE Kept' /\ Legible'
      BY <2>1, <2>4, <2>5, <3>1, <3>2, InitStep
    <3>3. ASSUME rdiskdeinit PROVE Kept' /\ Legible'
      BY <2>1, <2>5, <3>1, <3>3, DeinitStep
    <3>4. ASSUME NEW w \in Writes, rdiskwrite(w.data, w.start) PROVE Kept' /\ Legible'
      BY <2>1, <2>4, <2>5, <3>1, <3>4, WriteStep
    <3>5. ASSUME NEW start, NEW count, rdiskread(start, count) PROVE Kept' /\ Legible'
      BY <2>1, <2>5, <3>1, <3>5, ReadStep
    <3>6. ASSUME NEW blocks \in OtherRuns, OtherTakes(blocks) PROVE Kept' /\ Legible'
      BY <2>1, <2>4, <2>5, <3>1, <3>6, TakesStep
    <3>7. ASSUME NEW o \in others, OtherReturns(o) PROVE Kept' /\ Legible'
      BY <2>1, <2>5, <3>1, <3>7, ReturnsStep
    <3> QED
      BY <2>6, <3>2, <3>3, <3>4, <3>5, <3>6, <3>7 DEF DiskNext
  <2>7. CASE fat32init
    BY <2>1, <2>4, <2>5, <2>7, Fat32InitStep
  <2>8. CASE Decay
    BY <2>1, <2>5, <2>8, DecayStep
  <2>9. ASSUME NEW path \in Paths, locateFileCl(path) PROVE Kept' /\ Legible'
    BY <2>1, <2>4, <2>5, <2>9, LocateStep
  <2>10. CASE RoundOver
    BY <2>1, <2>5, <2>10, RoundOverStep
  <2>11. CASE RoundMiss
    BY <2>1, <2>4, <2>5, <2>11, RoundMissStep
  <2>12. CASE RoundHit
    BY <2>1, <2>4, <2>5, <2>12, RoundHitStep
  <2>13. Step
    BY <1>2 DEF Next
  <2> QED
    BY <2>6, <2>7, <2>8, <2>9, <2>10, <2>11, <2>12, <2>13 DEF Step
<1> QED
  BY <1>1, <1>2

\* The strengthening holds in every state of every behaviour.
LEMMA DiskInvariant == Spec => []IInv
BY DiskInit, DiskStep, PTL DEF Spec

\* Each sector of the disk holds what a caller last wrote there, whatever was
\* written to other sectors and whoever took or returned memory meanwhile.
THEOREM SectorsKeptCorrect == Spec => []SectorsKept
<1>1. IInv => SectorsKept
  BY DEF IInv, Kept, SectorsKept
<1> QED
  BY <1>1, DiskInvariant, PTL

\* The disk never writes to memory that another caller holds.
THEOREM OthersKeptCorrect == Spec => []OthersKept
<1>1. IInv => OthersKept
  BY DEF IInv, Kept, OthersKept
<1> QED
  BY <1>1, DiskInvariant, PTL

-----------------------------------------------------------------------------
(* Buffers come back *)

\* A look-up under way has taken its buffer from pmalloc and nothing else,
\* and what it will give back is as much as it has taken.
BufferHeld ==
  search # None =>
    /\ ~decayed => search.blocks = BufferBlocks
    /\ search.cdire # 0 /\ search.blocks = 1 =>
         /\ pmm_map = search.before \cup {search.cdire}
         /\ search.cdire \notin search.before

BufferInv == IInv /\ (Sound => BufferHeld /\ BufferReturned)

\* A step outside a look-up that answers nothing.
LEMMA NothingAnswered ==
  ASSUME search' = None, answer' = None
  PROVE  BufferHeld' /\ BufferReturned'
BY DEF BufferHeld, BufferReturned

\* A look-up begins: of a run of one block its own bit is set, which was not.
LEMMA BufferTaken ==
  ASSUME Legible, NEW path, locateFileCl(path)
  PROVE  BufferHeld' /\ BufferReturned'
<1> DEFINE blocks == BufferBlocks
<1>1. /\ BRec # None /\ BRec' = BRec /\ decayed' = decayed /\ answer' = None
      /\ pmm_map' = Marked(blocks)
      /\ search' = [kind |-> "search", path |-> path, round |-> 0,
                    ccl |-> BRec.rootclnum, cdire |-> FirstFit(blocks),
                    blocks |-> blocks, before |-> pmm_map]
  BY DEF locateFileCl
<1>2. blocks \in Nat \ {0}
  <2>1. BlockSectors \in Nat \ {0} /\ BRec.secpercl \in Nat
    BY <1>1, RecordNumbers, RamDiskAssumption DEF Legible
  <2>2. BRec.secpercl \div BlockSectors \in Nat
    BY <2>1, Quotient
  <2> QED
    BY <2>2 DEF BufferBlocks
<1>3. BufferBlocks' = blocks
  BY <1>1 DEF BufferBlocks
<1> HIDE DEF blocks
<1>4. /\ search'.cdire = FirstFit(blocks) /\ search'.blocks = blocks
      /\ search'.before = pmm_map
  BY <1>1
<1>5. ASSUME FirstFit(blocks) # 0, blocks = 1
      PROVE  /\ pmm_map' = pmm_map \cup {FirstFit(blocks)}
             /\ FirstFit(blocks) \notin pmm_map
  <2>1. Granted(blocks) /\ FirstFit(blocks) \in Nat /\ FirstFit(blocks) \notin pmm_map
    BY <1>2, <1>5, FirstFitIs
  <2>2. pmm_map' = pmm_map \cup RegionBits(FirstFit(blocks), blocks)
    BY <1>1, <2>1 DEF Marked
  <2>3. RegionBits(FirstFit(blocks), 1) = {FirstFit(blocks)}
    BY <2>1, OneBit
  <2> QED
    BY <1>5, <2>1, <2>2, <2>3
<1>6. BufferHeld'
  BY <1>3, <1>4, <1>5 DEF BufferHeld
<1>7. BufferReturned'
  BY <1>1 DEF BufferReturned
<1> QED
  BY <1>6, <1>7

\* The boot record decays: nothing more is said of the look-up's size.
LEMMA BufferDecays ==
  ASSUME BufferHeld, Decay
  PROVE  BufferHeld' /\ BufferReturned'
<1>1. search' = search /\ pmm_map' = pmm_map /\ decayed' = TRUE
  BY DEF Decay, diskVars
<1>2. BufferHeld'
  BY <1>1 DEF BufferHeld
<1>3. BufferReturned'
  BY <1>1 DEF BufferReturned
<1> QED
  BY <1>2, <1>3

\* A round without a hit answers 0.
LEMMA BufferMissed ==
  ASSUME RoundMiss
  PROVE  BufferHeld' /\ BufferReturned'
<1>1. search' = None
  BY DEF RoundMiss
<1>2. answer'.cl = 0
  BY DEF RoundMiss, Answer
<1> QED
  BY <1>1, <1>2 DEF BufferHeld, BufferReturned

\* A round with one either goes on with the same buffer or clears the bit
\* that the look-up has set.
LEMMA BufferGivenBack ==
  ASSUME Legible, BufferHeld, BufferReturned, Sound, RoundHit
  PROVE  BufferHeld' /\ BufferReturned'
<1>1. search # None /\ BRec' = BRec /\ decayed' = decayed
  BY DEF RoundHit, Reading
<1>2. BufferBlocks' = BufferBlocks
  BY <1>1 DEF BufferBlocks
<1>3. PICK cl, end :
        IF end
        THEN pmm_map' = GivenBack /\ Answer(cl, pmm_map') /\ search' = None
        ELSE /\ search' = [search EXCEPT !.round = @ + 1, !.ccl = cl]
             /\ UNCHANGED <<pmm_map, answer>>
  BY Zenon DEF RoundHit
<1>4. CASE end
  <2>1. /\ pmm_map' = GivenBack /\ search' = None
        /\ answer' = [kind |-> "answer", path |-> search.path, cl |-> cl,
                      cdire |-> search.cdire, blocks |-> search.blocks,
                      kept |-> pmm_map' = search.before]
    BY <1>3, <1>4, Zenon DEF Answer
  <2>2. /\ answer'.cdire = search.cdire /\ answer'.blocks = search.blocks
        /\ answer'.kept = (pmm_map' = search.before)
    BY <2>1
  <2>3. ASSUME ~decayed, search.cdire # 0, search.blocks = 1
        PROVE  pmm_map' = search.before
    <3>1. /\ BufferBlocks = 1 /\ pmm_map = search.before \cup {search.cdire}
          /\ search.cdire \notin search.before /\ search.cdire \in Nat
      BY <1>1, <2>3 DEF BufferHeld, Legible
    <3>2. RegionBits(search.cdire, BufferBlocks) = {search.cdire}
      BY <3>1, OneBit
    <3> QED
      BY <2>1, <3>1, <3>2 DEF GivenBack
  <2>4. BufferReturned'
    BY <1>1, <2>2, <2>3, Zenon DEF BufferReturned
  <2> QED
    BY <2>1, <2>4 DEF BufferHeld
<1>5. CASE ~end
  <2>1. /\ search' = [search EXCEPT !.round = @ + 1, !.ccl = cl]
        /\ pmm_map' = pmm_map /\ answer' = answer
    BY <1>3, <1>5
  <2>2. /\ search'.cdire = search.cdire /\ search'.blocks = search.blocks
        /\ search'.before = search.before
    BY <2>1
  <2>3. BufferHeld'
    BY <1>1, <1>2, <2>1, <2>2 DEF BufferHeld
  <2>4. BufferReturned'
    BY <1>1, <2>1 DEF BufferReturned
  <2> QED
    BY <2>3, <2>4
<1> QED
  BY <1>4, <1>5

\* Every step keeps what is said of buffers.
LEMMA BufferStep == BufferInv /\ [Next]_vars => BufferInv'
<1> SUFFICES ASSUME BufferInv, [Next]_vars PROVE BufferInv'
  OBVIOUS
<1>1. IInv'
  BY DiskStep DEF BufferInv
<1>2. SUFFICES ASSUME Sound' PROVE BufferHeld' /\ BufferReturned'
  BY <1>1 DEF BufferInv
<1>3. CASE UNCHANGED vars
  <2>1. /\ search' = search /\ BRec' = BRec /\ decayed' = decayed /\ answer' = answer
        /\ pmm_map' = pmm_map
    BY <1>3 DEF vars, diskVars, fatVars
  <2>2. UNCHANGED shared /\ UNCHANGED wrapped
    BY <1>3 DEF vars, diskVars, fatVars
  <2>3. Sound
    BY <1>2, <2>2 DEF Sound
  <2>4. BufferHeld /\ BufferReturned
    BY <2>3 DEF BufferInv
  <2>5. BufferHeld'
    BY <2>1, <2>4 DEF BufferHeld, BufferBlocks
  <2>6. BufferReturned'
    BY <2>1, <2>3, <2>4 DEF BufferReturned
  <2> QED
    BY <2>5, <2>6
<1>4. CASE Next
  <2>1. Sound
    BY <1>2, <1>4, SoundBefore DEF Sound
  <2>2. Legible /\ BufferHeld /\ BufferReturned
    BY <2>1 DEF BufferInv, IInv
  <2>3. CASE search = None /\ DiskNext /\ answer' = None /\ UNCHANGED <<BRec, search, decayed>>
    BY <2>3, NothingAnswered
  <2>4. CASE fat32init
    BY <2>4, NothingAnswered DEF fat32init
  <2>5. CASE Decay
    BY <2>2, <2>5, BufferDecays
  <2>6. ASSUME NEW path \in Paths, locateFileCl(path) PROVE BufferHeld' /\ BufferReturned'
    BY <2>2, <2>6, BufferTaken
  <2>7. CASE RoundOver
    <3>1. /\ search' = search /\ BRec' = BRec /\ decayed' = decayed
          /\ answer' = answer /\ pmm_map' = pmm_map
      BY <2>7 DEF RoundOver, fatVars
    <3>2. BufferHeld'
      BY <2>2, <3>1 DEF BufferHeld, BufferBlocks
    <3>3. BufferReturned'
      BY <2>1, <2>2, <3>1 DEF BufferReturned
    <3> QED
      BY <3>2, <3>3
  <2>8. CASE RoundMiss
    BY <2>8, BufferMissed
  <2>9. CASE RoundHit
    BY <2>1, <2>2, <2>9, BufferGivenBack
  <2>10. Step
    BY <1>4 DEF Next
  <2> QED
    BY <2>3, <2>4, <2>5, <2>6, <2>7, <2>8, <2>9, <2>10 DEF Step
<1> QED
  BY <1>3, <1>4

\* A look-up that found its file leaves every block as free or as used as it
\* was, if it was granted a buffer of one block and the boot record is still
\* the one that the buffer was measured by.
THEOREM BufferReturnedCorrect == Spec => []BufferReturned
<1>1. FatInit => BufferInv
  <2>1. FatInit => search = None /\ answer = None
    BY DEF FatInit
  <2> QED
    BY <2>1, DiskInit DEF BufferInv, BufferHeld, BufferReturned
<1>2. Spec => []BufferInv
  BY <1>1, BufferStep, PTL DEF Spec
<1>3. BufferInv => BufferReturned
  BY DEF BufferInv, BufferReturned
<1> QED
  BY <1>2, <1>3, PTL

-----------------------------------------------------------------------------
(* Names *)

\* strcmp's answer is the difference of the first characters that differ or
\* end the first string.
LEMMA strcmpIs ==
  ASSUME NEW s1, NEW s2, NEW n \in Nat \ {0},
         \A i \in 1 .. n - 1 : s1[i] # 0 /\ s1[i] = s2[i],
         ~(s1[n] # 0 /\ s1[n] = s2[n])
  PROVE  strcmp(s1, s2) = s1[n] - s2[n]
<1> DEFINE same(i) == s1[i] # 0 /\ s1[i] = s2[i]
           Is(f) == f = [i \in Nat |-> IF s1[i] # 0 /\ s1[i] = s2[i]
                                       THEN f[i + 1] ELSE s1[i] - s2[i]]
           ends(i) == {j \in Nat : i <= j /\ ~same(j)}
           w == [i \in Nat |-> IF ends(i) = {} THEN 0
                               ELSE s1[Min(ends(i))] - s2[Min(ends(i))]]
           u == CHOOSE f : Is(f)
<1>1. ASSUME NEW i \in Nat
      PROVE  w[i] = IF same(i) THEN w[i + 1] ELSE s1[i] - s2[i]
  <2>1. CASE same(i)
    <3>1. ends(i) = ends(i + 1)
      <4>1. ASSUME NEW j \in Nat PROVE i <= j /\ ~same(j) <=> i + 1 <= j /\ ~same(j)
        <5>1. CASE j = i
          BY <2>1, <5>1
        <5>2. CASE j # i
          <6>1. i <= j <=> i + 1 <= j
            BY <5>2
          <6> HIDE DEF same
          <6> QED
            BY <6>1
        <5> QED
          BY <5>1, <5>2
      <4> HIDE DEF same
      <4> QED
        BY <4>1
    <3>2. i + 1 \in Nat
      OBVIOUS
    <3> HIDE DEF ends, same
    <3> QED
      BY <2>1, <3>1, <3>2
  <2>2. CASE ~same(i)
    <3>1. i \in ends(i) /\ ends(i) \subseteq Nat
      BY <2>2
    <3>2. \A j \in ends(i) : i <= j
      OBVIOUS
    <3> HIDE DEF ends
    <3>3. Min(ends(i)) \in ends(i) /\ Min(ends(i)) <= i
      <4>1. Min(ends(i)) \in ends(i) /\ \A y \in ends(i) : Min(ends(i)) <= y
        BY <3>1, LeastNumber
      <4> QED
        BY <3>1, <4>1
    <3>4. Min(ends(i)) = i
      BY <3>1, <3>2, <3>3
    <3> HIDE DEF same
    <3> QED
      BY <2>2, <3>1, <3>4
  <2> QED
    BY <2>1, <2>2
<1>2. Is(w)
  <2>1. w = [i \in Nat |-> w[i]]
    OBVIOUS
  <2> HIDE DEF w, ends
  <2> QED
    BY <1>1, <2>1
<1>3. Is(u)
  <2> HIDE DEF w
  <2> QED
    BY <1>2, Zenon
<1>4. strcmp(s1, s2) = u[1]
  BY Zenon DEF strcmp
<1>5. \A i \in Nat : u[i] = IF same(i) THEN u[i + 1] ELSE s1[i] - s2[i]
  <2> HIDE DEF u
  <2> QED
    BY <1>3
<1> HIDE DEF u, same
<1>6. u[1] = u[n]
  <2> DEFINE S == {i \in Nat : i \in 1 .. n /\ u[i] = u[n]}
  <2>1. S \subseteq Nat /\ n \in S
    OBVIOUS
  <2>2. PICK m \in S : \A y \in S : m <= y
    <3> HIDE DEF S
    <3> QED
      BY <2>1, LeastNumber
  <2>3. CASE m = 1
    BY <2>3
  <2>4. CASE m # 1
    <3>1. m \in 1 .. n /\ u[m] = u[n] /\ m - 1 \in 1 .. n - 1 /\ m - 1 \in Nat
      BY <2>4
    <3>2. u[m - 1] = u[(m - 1) + 1]
      BY <1>5, <3>1 DEF same
    <3>3. (m - 1) + 1 = m
      BY <3>1
    <3>4. m - 1 \in S
      BY <3>1, <3>2, <3>3
    <3> QED
      BY <2>2, <3>1, <3>4
  <2> QED
    BY <2>3, <2>4
<1>7. u[n] = s1[n] - s2[n]
  BY <1>5 DEF same
<1> QED
  BY <1>4, <1>6, <1>7

\* An entry is found under its name, all of it, if it has no attributes.
LEMMA HitIs ==
  ASSUME NEW entry \in Entry, NEW name \in [1 .. NameLength -> Nat \ {0}]
  PROVE  Hit(entry, name) <=> entry.name = name /\ entry.attr = 0
<1> DEFINE n == NameLength
           s1 == EntryString(entry)
           s2 == name \o <<0>>
<1>1. n \in Nat \ {0} /\ entry.name \in [1 .. n -> Nat] /\ entry.attr \in Nat
  BY FAT32Assumption DEF Entry
<1>2. /\ entry.name \in Seq(Nat) /\ Len(entry.name) = n
      /\ name \in Seq(Nat \ {0}) /\ Len(name) = n
  BY <1>1
<1>3. /\ \A i \in 1 .. n : s1[i] = entry.name[i] /\ s2[i] = name[i]
      /\ s1[n + 1] = entry.attr /\ s2[n + 1] = 0
  <2>1. /\ \A i \in 1 .. n : s2[i] = name[i]
        /\ s2[n + 1] = 0
    <3>1. name \in Seq(Nat) /\ <<0>> \in Seq(Nat) /\ Len(<<0>>) = 1
      BY <1>2
    <3> HIDE DEF n
    <3> QED
      BY <1>1, <1>2, <3>1
  <2>2. /\ \A i \in 1 .. n : s1[i] = entry.name[i]
        /\ s1[n + 1] = entry.attr
    <3>1. PICK full \in Seq(Nat), attr \in Nat : full = entry.name /\ attr = entry.attr
      BY <1>1, <1>2
    <3>2. <<attr>> \in Seq(Nat) /\ Len(<<attr>>) = 1 /\ Len(full) = n
      BY <1>2, <3>1
    <3>3. s1 = full \o <<attr>>
      BY <3>1 DEF EntryString
    <3> HIDE DEF n, s1
    <3>4. /\ \A i \in 1 .. n : s1[i] = full[i]
          /\ s1[n + 1] = attr
      BY <1>1, <3>2, <3>3
    <3> QED
      BY <3>1, <3>4
  <2> QED
    BY <2>1, <2>2
<1>4. /\ \A i \in 1 .. n : entry.name[i] \in Nat /\ name[i] \in Nat /\ name[i] # 0
  BY <1>1
<1> HIDE DEF n, s1, s2
<1>5. Hit(entry, name) <=> entry.attr # 15 /\ strcmp(s1, s2) = 0
  BY Zenon DEF Hit, LongName, s1, s2
<1>6. CASE entry.name = name
  <2>1. ~(s1[n + 1] # 0 /\ s1[n + 1] = s2[n + 1])
    BY <1>3
  <2>2. \A i \in 1 .. (n + 1) - 1 : s1[i] # 0 /\ s1[i] = s2[i]
    BY <1>1, <1>3, <1>4, <1>6
  <2>3. strcmp(s1, s2) = s1[n + 1] - s2[n + 1]
    <3>1. n + 1 \in Nat \ {0}
      BY <1>1
    <3> QED
      BY <2>1, <2>2, <3>1, strcmpIs
  <2>4. strcmp(s1, s2) = entry.attr
    BY <1>1, <1>3, <2>3
  <2> QED
    BY <1>5, <1>6, <2>4
<1>7. CASE entry.name # name
  <2> DEFINE S == {i \in 1 .. n : entry.name[i] # name[i]}
  <2>1. S \subseteq Nat /\ S # {}
    <3>1. \E i \in 1 .. n : entry.name[i] # name[i]
      <4>1. /\ entry.name = [i \in 1 .. n |-> entry.name[i]]
            /\ name = [i \in 1 .. n |-> name[i]]
        BY <1>1 DEF n
      <4> QED
        BY <1>7, <4>1
    <3> QED
      BY <1>1, <3>1
  <2>2. PICK m \in S : \A y \in S : m <= y
    <3> HIDE DEF S
    <3> QED
      BY <2>1, LeastNumber
  <2>3. m \in 1 .. n /\ m \in Nat \ {0} /\ entry.name[m] # name[m]
    BY <1>1
  <2>4. \A i \in 1 .. m - 1 : i \in 1 .. n /\ entry.name[i] = name[i]
    <3>1. ASSUME NEW i \in 1 .. m - 1 PROVE i \in 1 .. n /\ i \notin S
      BY <1>1, <2>2, <2>3
    <3> QED
      BY <3>1
  <2>5. \A i \in 1 .. m - 1 : s1[i] # 0 /\ s1[i] = s2[i]
    BY <1>3, <1>4, <2>4
  <2>6. ~(s1[m] # 0 /\ s1[m] = s2[m])
    BY <1>3, <2>3
  <2>7. strcmp(s1, s2) = s1[m] - s2[m]
    BY <2>3, <2>5, <2>6, strcmpIs
  <2>8. strcmp(s1, s2) # 0
    BY <1>3, <1>4, <2>3, <2>7
  <2> QED
    BY <1>5, <1>7, <2>8
<1> QED
  BY <1>6, <1>7

\* The root directory as it was written is, like the one that is read, its
\* sectors one after the other.
LEMMA RootEntriesAre ==
  ASSUME BRec.secpercl \in Nat
  PROVE  \E f : /\ f = [k \in 0 .. BRec.secpercl |->
                         IF k = 0 THEN <<>>
                         ELSE f[k - 1]
                              \o written[BRec.rootclnum * BRec.secpercl + k - 1].entries]
                /\ RootEntries = f[BRec.secpercl]
<1> DEFINE n == BRec.secpercl
           base == BRec.rootclnum * BRec.secpercl
           g == [k \in 0 .. n |-> written[base + (k + 1) - 1].entries]
           u == CHOOSE f : f = [k \in 0 .. n |->
                             IF k = 0 THEN <<>>
                             ELSE f[k - 1] \o written[base + k - 1].entries]
<1>1. n \in Nat
  OBVIOUS
<1> HIDE DEF n, base
<1>2. PICK f : f = [k \in 0 .. n |-> IF k = 0 THEN <<>> ELSE f[k - 1] \o g[k - 1]]
  <2> HIDE DEF g
  <2> QED
    BY <1>1, ConcatExists
<1>3. \A k \in 0 .. n : k # 0 => g[k - 1] = written[base + k - 1].entries
  <2>1. \A k \in 0 .. n : k # 0 => k - 1 \in 0 .. n /\ (k - 1) + 1 = k
    BY <1>1
  <2> QED
    BY <2>1
<1>4. f = [k \in 0 .. n |->
             IF k = 0 THEN <<>> ELSE f[k - 1] \o written[base + k - 1].entries]
  <2> HIDE DEF g
  <2> QED
    BY <1>2, <1>3
<1>5. u = [k \in 0 .. n |->
             IF k = 0 THEN <<>> ELSE u[k - 1] \o written[base + k - 1].entries]
  BY <1>4, Zenon
<1>6. RootEntries = u[n]
  BY Zenon DEF RootEntries, n, base
<1> HIDE DEF u
<1> QED
  BY <1>5, <1>6, Zenon DEF n, base

\* What a look-up reads of the root directory is what was written there.
LEMMA RootIsRead ==
  ASSUME TypeInv, Apart, Kept, Legible, search # None, search.ccl = BRec.rootclnum,
         ~Over(DirectorySector, BRec.secpercl), ~Wraps(DirectorySector, BRec.secpercl),
         \A s \in RootSectors : s \in DOMAIN written /\ written[s].kind = "dir"
  PROVE  Entries(DirectorySector) = RootEntries
<1>1. PICK n \in Nat, root \in Nat : n = BRec.secpercl /\ root = BRec.rootclnum
  BY DirectoryNumber, RecordNumbers
<1>2. PICK base \in Nat : base = root * n
  OBVIOUS
<1>3. BRec.rootclnum * BRec.secpercl = base
  BY <1>1, <1>2
<1>4. PICK f : /\ f = [k \in 0 .. n |->
                         IF k = 0 THEN <<>>
                         ELSE f[k - 1] \o EntriesOf(mem[Sector(DirectorySector, k - 1)])]
               /\ Entries(DirectorySector) = f[n]
  BY <1>1, EntriesAre
<1>5. PICK h : /\ h = [k \in 0 .. n |->
                         IF k = 0 THEN <<>>
                         ELSE h[k - 1]
                              \o written[BRec.rootclnum * BRec.secpercl + k - 1].entries]
               /\ RootEntries = h[n]
  BY <1>1, RootEntriesAre
<1>6. ASSUME NEW k \in 0 .. n, k # 0
      PROVE  EntriesOf(mem[Sector(DirectorySector, k - 1)]) = written[base + k - 1].entries
  <2>1. base + k - 1 \in RootSectors
    <3>1. (root + 1) * n = base + n
      BY <1>2
    <3>2. RootSectors = base .. ((root + 1) * n - 1)
      BY <1>1, <1>3 DEF RootSectors
    <3>3. base + k - 1 \in base .. (base + n - 1)
      BY <1>6
    <3> QED
      BY <3>1, <3>2, <3>3
  <2>2. base + k - 1 \in DOMAIN written /\ written[base + k - 1].kind = "dir"
    BY <2>1
  <2>3. /\ base + k - 1 \in 0 .. (ramdiskblocks - 1)
        /\ mem[ramdisk + (base + k - 1)] = written[base + k - 1]
    BY <2>2 DEF Kept
  <2>4. base < CountMod /\ CountMod \in Nat \ {0}
    BY <1>6, <2>3, RamDiskAssumption DEF TypeInv
  <2>5. DirectorySector = base
    <3>1. DirectorySector = base % CountMod
      BY <1>3 DEF DirectorySector
    <3> QED
      BY <2>4, <3>1
  <2>6. k - 1 \in Span(n) /\ base \in Nat
    <3>1. Span(n) = 0 .. (n - 1)
      BY <1>1, <2>5, Within
    <3> QED
      BY <1>6, <3>1
  <2>7. Sector(DirectorySector, k - 1) = ramdisk + base + (k - 1)
    BY <1>1, <2>5, <2>6, Within
  <2>8. ramdisk + base + (k - 1) = ramdisk + (base + k - 1)
    BY <1>6 DEF TypeInv
  <2>9. mem[Sector(DirectorySector, k - 1)] = written[base + k - 1]
    BY <2>3, <2>7, <2>8
  <2> QED
    BY <2>2, <2>9 DEF EntriesOf
<1> DEFINE S == {k \in 0 .. n : f[k] # h[k]}
<1>7. S = {}
  <2>1. SUFFICES ASSUME S # {} PROVE FALSE
    OBVIOUS
  <2>2. PICK k \in S : \A y \in S : k <= y
    <3>1. S \subseteq Nat
      OBVIOUS
    <3> HIDE DEF S
    <3> QED
      BY <2>1, <3>1, LeastNumber
  <2>3. k \in 0 .. n /\ f[k] # h[k]
    OBVIOUS
  <2>4. k # 0
    <3>1. f[0] = <<>> /\ h[0] = <<>>
      BY <1>4, <1>5
    <3> QED
      BY <2>3, <3>1
  <2>5. k - 1 \in 0 .. n /\ ~(k <= k - 1)
    BY <2>3, <2>4
  <2>6. f[k - 1] = h[k - 1]
    BY <2>2, <2>5
  <2>7. f[k] = f[k - 1] \o EntriesOf(mem[Sector(DirectorySector, k - 1)])
    BY <1>4, <2>3, <2>4
  <2>8. h[k] = h[k - 1] \o written[base + k - 1].entries
    BY <1>3, <1>5, <2>3, <2>4
  <2> QED
    BY <1>6, <2>3, <2>4, <2>6, <2>7, <2>8
<1> QED
  BY <1>4, <1>5, <1>7

-----------------------------------------------------------------------------
(* Files are found *)

\* A look-up in its first round reads the root directory, and one of a single
\* name has no other round.
Rooted ==
  search # None =>
    /\ search.path \in Paths /\ search.round \in Nat
    /\ search.round = 0 /\ ~decayed => search.ccl = BRec.rootclnum
    /\ Len(search.path) = 1 => search.round = 0

FindInv == IInv /\ (Sound => Rooted /\ LocateFinds)

\* The answer that LocateFinds asks for.
Found(name) ==
  LET plain == {i \in DOMAIN RootEntries :
                  RootEntries[i].name = name /\ RootEntries[i].attr = 0}
  IN  IF plain = {} THEN 0 ELSE RootEntries[Min(plain)].cl

\* What is found among entries is the first one with the name and without
\* attributes.
LEMMA FirstPlain ==
  ASSUME NEW name \in [1 .. NameLength -> Nat \ {0}], RootEntries \in Seq(Entry)
  PROVE  /\ (\A i \in DOMAIN RootEntries : ~Hit(RootEntries[i], name)) => Found(name) = 0
         /\ (\E i \in DOMAIN RootEntries : Hit(RootEntries[i], name))
              => Found(name) = RootEntries[FirstHit(RootEntries, name)].cl
<1>1. \A i \in DOMAIN RootEntries :
        Hit(RootEntries[i], name) <=> RootEntries[i].name = name /\ RootEntries[i].attr = 0
  BY HitIs
<1> DEFINE plain == {i \in DOMAIN RootEntries :
                       RootEntries[i].name = name /\ RootEntries[i].attr = 0}
           hits == {i \in DOMAIN RootEntries : Hit(RootEntries[i], name)}
<1>2. plain = hits
  BY <1>1
<1>3. Found(name) = IF plain = {} THEN 0 ELSE RootEntries[Min(plain)].cl
  BY DEF Found
<1>4. FirstHit(RootEntries, name) = Min(hits)
  BY DEF FirstHit
<1>5. /\ (\A i \in DOMAIN RootEntries : ~Hit(RootEntries[i], name)) <=> hits = {}
  OBVIOUS
<1> HIDE DEF plain, hits
<1> QED
  BY <1>2, <1>3, <1>4, <1>5

\* A round of a look-up for a single name: the name is that one, and the
\* round is the last.
LEMMA SingleName ==
  ASSUME search # None, Rooted, Len(search.path) = 1
  PROVE  /\ NamesAt(search.round) = {search.path[1]}
         /\ EndTests(search.round) = {TRUE}
         /\ search.path[1] \in [1 .. NameLength -> Nat \ {0}]
<1>1. search.round = 0 /\ search.path \in Seq([1 .. NameLength -> Nat \ {0}])
  BY FAT32Assumption DEF Rooted
<1>2. NamesAt(search.round) = {search.path[1]}
  BY <1>1 DEF NamesAt
<1>3. PICK n \in Nat \ {0} : n = NameLength
  BY FAT32Assumption
<1>4. 0 * (n + 1) = 0 /\ (0 \div n) * n + n = n /\ 1 * (n + 1) - 1 = n
  OBVIOUS
<1>5. EndTests(search.round) = {TRUE}
  BY <1>1, <1>3, <1>4 DEF EndTests
<1>6. search.path[1] \in [1 .. NameLength -> Nat \ {0}]
  <2>1. PICK path \in Seq([1 .. NameLength -> Nat \ {0}]) : path = search.path
    BY <1>1
  <2>2. 1 \in 1 .. Len(path)
    BY <2>1
  <2>3. path[1] \in [1 .. NameLength -> Nat \ {0}]
    BY <2>1, <2>2
  <2> QED
    BY <2>1, <2>3
<1> QED
  BY <1>2, <1>5, <1>6

\* In the last round of a look-up for a single name, what is read is what was
\* written, and a sequence of entries.
LEMMA RoundReadsRoot ==
  ASSUME TypeInv, Apart, Kept, Legible, Rooted, Reading, ~wrapped', ~decayed,
         Len(search.path) = 1,
         \A s \in RootSectors : s \in DOMAIN written /\ written[s].kind = "dir"
  PROVE  /\ Entries(DirectorySector) = RootEntries
         /\ RootEntries \in Seq(Entry)
<1>1. search # None /\ ~Over(DirectorySector, BRec.secpercl)
  BY DEF Reading
<1>2. ~Wraps(DirectorySector, BRec.secpercl)
  BY ReadingKeeps
<1>3. search.ccl = BRec.rootclnum
  BY <1>1 DEF Rooted
<1>4. Entries(DirectorySector) = RootEntries
  BY <1>1, <1>2, <1>3, RootIsRead
<1>5. Entries(DirectorySector) \in Seq(Entry)
  BY <1>1, <1>2, DirectoryNumber, EntriesType
<1> QED
  BY <1>4, <1>5

\* LocateFinds, in other words.
LEMMA FindsIs ==
  LocateFinds <=>
    (/\ Sound /\ ~decayed /\ answer # None /\ Len(answer.path) = 1
     /\ \A s \in RootSectors : s \in DOMAIN written /\ written[s].kind = "dir"
     => answer.cl = Found(answer.path[1]))
BY Zenon DEF LocateFinds, Found

\* A step that answers nothing.
LEMMA NothingFound ==
  ASSUME answer' = None
  PROVE  LocateFinds'
BY DEF LocateFinds

\* A step that leaves the answer, the boot record and the disk as they are.
LEMMA FindsFrame ==
  ASSUME Sound, LocateFinds,
         answer' = answer, BRec' = BRec, written' = written, decayed' = decayed
  PROVE  LocateFinds'
<1>1. RootEntries' = RootEntries /\ RootSectors' = RootSectors
  BY DEF RootEntries, RootSectors
<1>2. SUFFICES ASSUME /\ ~decayed' /\ answer' # None /\ Len(answer'.path) = 1
                      /\ \A s \in RootSectors' :
                           s \in DOMAIN written' /\ written'[s].kind = "dir"
               PROVE  answer'.cl = LET plain == {i \in DOMAIN RootEntries' :
                                         /\ RootEntries'[i].name = answer'.path[1]
                                         /\ RootEntries'[i].attr = 0}
                                   IN  IF plain = {} THEN 0 ELSE RootEntries'[Min(plain)].cl
  BY DEF LocateFinds
<1>3. answer.cl = Found(answer.path[1])
  BY <1>1, <1>2, FindsIs
<1> QED
  BY <1>1, <1>3 DEF Found

\* The round answers what is found.
LEMMA AnswerFinds ==
  ASSUME Reading, NEW cl, NEW map, Answer(cl, map),
         /\ ~decayed /\ Len(search.path) = 1
         /\ \A s \in RootSectors : s \in DOMAIN written /\ written[s].kind = "dir"
         => cl = Found(search.path[1])
  PROVE  LocateFinds'
<1>1. BRec' = BRec /\ written' = written /\ decayed' = decayed
  BY DEF Reading, ghosts
<1>2. RootEntries' = RootEntries /\ RootSectors' = RootSectors
  BY <1>1 DEF RootEntries, RootSectors
<1>3. answer'.path = search.path /\ answer'.cl = cl
  BY DEF Answer
<1>4. SUFFICES ASSUME /\ ~decayed' /\ answer' # None /\ Len(answer'.path) = 1
                      /\ \A s \in RootSectors' :
                           s \in DOMAIN written' /\ written'[s].kind = "dir"
               PROVE  answer'.cl = LET plain == {i \in DOMAIN RootEntries' :
                                         /\ RootEntries'[i].name = answer'.path[1]
                                         /\ RootEntries'[i].attr = 0}
                                   IN  IF plain = {} THEN 0 ELSE RootEntries'[Min(plain)].cl
  BY DEF LocateFinds
<1>5. cl = Found(search.path[1])
  BY <1>1, <1>2, <1>3, <1>4
<1> QED
  BY <1>2, <1>3, <1>5 DEF Found

\* A round without a hit answers 0, and the directory has no such entry.
LEMMA MissFinds ==
  ASSUME TypeInv, Apart, Kept, Legible, Rooted, RoundMiss, ~wrapped'
  PROVE  LocateFinds'
<1>1. Reading /\ Answer(0, pmm_map) /\ search # None
  BY DEF RoundMiss, Reading
<1>2. ASSUME ~decayed, Len(search.path) = 1,
             \A s \in RootSectors : s \in DOMAIN written /\ written[s].kind = "dir"
      PROVE  0 = Found(search.path[1])
  <2>1. Entries(DirectorySector) = RootEntries /\ RootEntries \in Seq(Entry)
    BY <1>1, <1>2, RoundReadsRoot
  <2>2. \E name \in NamesAt(search.round) :
          \A i \in DOMAIN RootEntries : ~Hit(RootEntries[i], name)
    BY <2>1 DEF RoundMiss
  <2>3. /\ NamesAt(search.round) = {search.path[1]}
        /\ search.path[1] \in [1 .. NameLength -> Nat \ {0}]
    BY <1>1, <1>2, SingleName
  <2>4. \A i \in DOMAIN RootEntries : ~Hit(RootEntries[i], search.path[1])
    BY <2>2, <2>3
  <2> QED
    BY <2>1, <2>3, <2>4, FirstPlain
<1> QED
  BY <1>1, <1>2, AnswerFinds

\* A round with one answers the first such entry's cluster, and does not go
\* on.
LEMMA HitFinds ==
  ASSUME TypeInv, Apart, Kept, Legible, Rooted, LocateFinds, Sound, RoundHit, ~wrapped'
  PROVE  /\ LocateFinds'
         /\ search' # None => Len(search.path) # 1
         /\ search' # None => search' = [search EXCEPT !.round = @ + 1, !.ccl = search'.ccl]
<1>1. Reading /\ search # None
  BY DEF RoundHit, Reading
<1>2. PICK entries : entries = Entries(DirectorySector)
  OBVIOUS
<1>3. PICK name \in NamesAt(search.round), end \in EndTests(search.round) :
        /\ \E i \in DOMAIN entries : Hit(entries[i], name)
        /\ LET cl == entries[FirstHit(entries, name)].cl
           IN  IF end
               THEN /\ pmm_map' = GivenBack
                    /\ Answer(cl, pmm_map')
                    /\ search' = None
               ELSE /\ search.round < MaxRounds
                    /\ search' = [search EXCEPT !.round = @ + 1, !.ccl = cl]
                    /\ UNCHANGED <<pmm_map, answer>>
  BY <1>2, Zenon DEF RoundHit
<1>4. ASSUME Len(search.path) = 1
      PROVE  end = TRUE /\ name = search.path[1]
             /\ search.path[1] \in [1 .. NameLength -> Nat \ {0}]
  BY <1>1, <1>3, <1>4, SingleName
<1>5. CASE end
  <2>1. /\ Answer(entries[FirstHit(entries, name)].cl, pmm_map') /\ search' = None
    BY <1>3, <1>5
  <2>2. ASSUME ~decayed, Len(search.path) = 1,
               \A s \in RootSectors : s \in DOMAIN written /\ written[s].kind = "dir"
        PROVE  entries[FirstHit(entries, name)].cl = Found(search.path[1])
    <3>1. entries = RootEntries /\ RootEntries \in Seq(Entry)
      BY <1>1, <1>2, <2>2, RoundReadsRoot
    <3>2. /\ name = search.path[1]
          /\ search.path[1] \in [1 .. NameLength -> Nat \ {0}]
      BY <1>4, <2>2
    <3>3. \E i \in DOMAIN RootEntries : Hit(RootEntries[i], search.path[1])
      BY <1>3, <3>1, <3>2
    <3>4. Found(search.path[1]) = RootEntries[FirstHit(RootEntries, search.path[1])].cl
      BY <3>1, <3>2, <3>3, FirstPlain
    <3> QED
      BY <3>1, <3>2, <3>4
  <2>3. PICK cl, map : cl = entries[FirstHit(entries, name)].cl /\ map = pmm_map'
    OBVIOUS
  <2>4. Answer(cl, map)
    BY <2>1, <2>3
  <2>5. LocateFinds'
    BY <1>1, <2>2, <2>3, <2>4, AnswerFinds
  <2> QED
    BY <2>1, <2>5
<1>6. CASE ~end
  <2>1. /\ search' = [search EXCEPT !.round = @ + 1,
                                    !.ccl = entries[FirstHit(entries, name)].cl]
        /\ answer' = answer
    BY <1>3, <1>6
  <2>2. Len(search.path) # 1
    BY <1>4, <1>6
  <2>3. BRec' = BRec /\ written' = written /\ decayed' = decayed
    BY <1>1 DEF Reading, ghosts
  <2>4. LocateFinds'
    BY <2>1, <2>3, FindsFrame
  <2>5. search' = [search EXCEPT !.round = @ + 1, !.ccl = search'.ccl]
    <3>1. search' = [search EXCEPT !.round = search.round + 1,
                                   !.ccl = entries[FirstHit(entries, name)].cl]
      BY <2>1
    <3> QED
      BY <3>1, Zenon
  <2> QED
    BY <2>2, <2>4, <2>5
<1> QED
  BY <1>5, <1>6

\* What is said of look-ups under way.
LEMMA RootedFrame ==
  ASSUME Rooted, search' = search, decayed' = decayed \/ decayed' = TRUE,
         BRec' = BRec \/ decayed' = TRUE
  PROVE  Rooted'
BY DEF Rooted

\* Every step keeps what is said of answers.
LEMMA FindStep == FindInv /\ [Next]_vars => FindInv'
<1> SUFFICES ASSUME FindInv, [Next]_vars PROVE FindInv'
  OBVIOUS
<1>1. IInv'
  BY DiskStep DEF FindInv
<1>2. SUFFICES ASSUME Sound' PROVE Rooted' /\ LocateFinds'
  BY <1>1 DEF FindInv
<1>3. CASE UNCHANGED vars
  <2>1. /\ search' = search /\ BRec' = BRec /\ decayed' = decayed /\ answer' = answer
        /\ written' = written
    BY <1>3 DEF vars, diskVars, fatVars
  <2>2. UNCHANGED shared /\ UNCHANGED wrapped
    BY <1>3 DEF vars, diskVars, fatVars
  <2>3. Sound
    BY <1>2, <2>2 DEF Sound
  <2>4. Rooted /\ LocateFinds
    BY <2>3 DEF FindInv
  <2>5. Rooted'
    BY <2>1, <2>4, RootedFrame
  <2>6. LocateFinds'
    BY <2>1, <2>3, <2>4, FindsFrame
  <2> QED
    BY <2>5, <2>6
<1>4. CASE Next
  <2>1. Sound /\ Apart /\ ~wrapped'
    BY <1>2, <1>4, SoundBefore DEF Sound, FindInv, IInv
  <2>2. TypeInv /\ Kept /\ Legible /\ Rooted /\ LocateFinds
    BY <2>1 DEF FindInv, IInv
  <2>3. CASE search = None /\ DiskNext /\ answer' = None /\ UNCHANGED <<BRec, search, decayed>>
    BY <2>3, NothingFound DEF Rooted
  <2>4. CASE fat32init
    <3>1. search' = None /\ answer' = None
      BY <2>4 DEF fat32init
    <3> QED
      BY <3>1, NothingFound DEF Rooted
  <2>5. CASE Decay
    <3>1. search' = search /\ decayed' = TRUE
      BY <2>5 DEF Decay
    <3>2. Rooted'
      BY <2>2, <3>1, RootedFrame
    <3> QED
      BY <3>1, <3>2 DEF LocateFinds
  <2>6. ASSUME NEW path \in Paths, locateFileCl(path) PROVE Rooted' /\ LocateFinds'
    <3>1. /\ BRec' = BRec /\ answer' = None
          /\ search' = [kind |-> "search", path |-> path, round |-> 0,
                        ccl |-> BRec.rootclnum, cdire |-> FirstFit(BufferBlocks),
                        blocks |-> BufferBlocks, before |-> pmm_map]
      BY <2>6 DEF locateFileCl
    <3>2. search'.path = path /\ search'.round = 0 /\ search'.ccl = BRec.rootclnum
      BY <3>1
    <3>3. Rooted'
      BY <3>1, <3>2 DEF Rooted
    <3> QED
      BY <3>1, <3>3, NothingFound
  <2>7. CASE RoundOver
    <3>1. /\ search' = search /\ BRec' = BRec /\ decayed' = decayed
          /\ answer' = answer /\ written' = written
      BY <2>7 DEF RoundOver, fatVars, ghosts
    <3>2. Rooted'
      BY <2>2, <3>1, RootedFrame
    <3>3. LocateFinds'
      BY <2>1, <2>2, <3>1, FindsFrame
    <3> QED
      BY <3>2, <3>3
  <2>8. CASE RoundMiss
    <3>1. search' = None
      BY <2>8 DEF RoundMiss
    <3> QED
      BY <2>1, <2>2, <2>8, <3>1, MissFinds DEF Rooted
  <2>9. CASE RoundHit
    <3>1. /\ LocateFinds'
          /\ search' # None => Len(search.path) # 1
          /\ search' # None => search' = [search EXCEPT !.round = @ + 1, !.ccl = search'.ccl]
      BY <2>1, <2>2, <2>9, HitFinds
    <3>2. ASSUME search' # None PROVE Rooted'
      <4>1. search # None /\ search.round \in Nat /\ search.path \in Paths
        BY <2>2, <2>9 DEF Rooted, RoundHit, Reading
      <4>2. PICK ccl : search' = [search EXCEPT !.round = search.round + 1, !.ccl = ccl]
        BY <3>1, <3>2, Zenon
      <4>3. search' = [[search EXCEPT !.round = search.round + 1] EXCEPT !.ccl = ccl]
        BY <4>2
      <4>4. search'.path = search.path
        BY <4>2
      <4>5. search'.round \in Nat \ {0}
        <5>1. "round" \in DOMAIN search
          BY <2>2, <4>1 DEF Legible, LookUpFields
        <5> QED
          BY <4>1, <4>2, <5>1
      <4> QED
        BY <3>1, <3>2, <4>1, <4>4, <4>5 DEF Rooted
    <3> QED
      BY <3>1, <3>2 DEF Rooted
  <2>10. Step
    BY <1>4 DEF Next
  <2> QED
    BY <2>3, <2>4, <2>5, <2>6, <2>7, <2>8, <2>9, <2>10 DEF Step
<1> QED
  BY <1>3, <1>4

\* A name that is looked up in the root directory is answered with the
\* cluster of the first entry that has the name and no attributes, as the
\* disk's users last wrote the directory, and with 0 only when there is none.
THEOREM LocateFindsCorrect == Spec => []LocateFinds
<1>1. FatInit => FindInv
  <2>1. FatInit => search = None /\ answer = None
    BY DEF FatInit
  <2> QED
    BY <2>1, DiskInit DEF FindInv, Rooted, LocateFinds
<1>2. Spec => []FindInv
  BY <1>1, FindStep, PTL DEF Spec
<1>3. FindInv => LocateFinds
  BY DEF FindInv, LocateFinds
<1> QED
  BY <1>2, <1>3, PTL

-----------------------------------------------------------------------------
(* The abstract disk *)

\* While the owners are apart, the abstract disk has all the disk's sectors.
LEMMA ContentIs ==
  TypeInv /\ Apart
  => /\ DiskContent = [s \in 0 .. (ramdiskblocks - 1) |-> mem[ramdisk + s]]
     /\ DOMAIN DiskContent = 0 .. (ramdiskblocks - 1)
     /\ \A s \in 0 .. (ramdiskblocks - 1) :
          DiskContent[s] = mem[ramdisk + s] /\ ramdisk + s \in DiskSectors
<1> SUFFICES ASSUME TypeInv, Apart
             PROVE  /\ DiskContent = [s \in 0 .. (ramdiskblocks - 1) |-> mem[ramdisk + s]]
                    /\ DOMAIN DiskContent = 0 .. (ramdiskblocks - 1)
                    /\ \A s \in 0 .. (ramdiskblocks - 1) :
                         DiskContent[s] = mem[ramdisk + s] /\ ramdisk + s \in DiskSectors
  OBVIOUS
<1>1. ramdisk \in Nat /\ ramdiskblocks \in Nat /\ DOMAIN mem = Sectors
  BY RamDiskAssumption DEF TypeInv
<1>2. DiskSectors \subseteq Sectors
  BY OwnedIsMemory
<1>3. ASSUME NEW s \in 0 .. (ramdiskblocks - 1) PROVE ramdisk + s \in DiskSectors
  BY <1>1 DEF DiskSectors
<1>4. {k \in 0 .. (ramdiskblocks - 1) : ramdisk + k \in DOMAIN mem} = 0 .. (ramdiskblocks - 1)
  BY <1>1, <1>2, <1>3
<1>5. DiskContent = [s \in 0 .. (ramdiskblocks - 1) |-> mem[ramdisk + s]]
  BY <1>4, Zenon DEF DiskContent
<1> QED
  BY <1>3, <1>5

\* The abstract disk is as it was when the disk's sectors are.
LEMMA ContentFrame ==
  ASSUME TypeInv, TypeInv', Apart, DiskUntouched, UNCHANGED <<ramdisk, ramdiskblocks>>
  PROVE  DiskContent' = DiskContent
<1>1. DOMAIN mem' = DOMAIN mem /\ ramdisk' = ramdisk /\ ramdiskblocks' = ramdiskblocks
  BY DEF TypeInv
<1> DEFINE D == {k \in 0 .. (ramdiskblocks - 1) : ramdisk + k \in DOMAIN mem}
<1>2. DiskContent = [s \in D |-> mem[ramdisk + s]]
  BY Zenon DEF DiskContent
<1>3. DiskContent' = [s \in D |-> mem'[ramdisk + s]]
  BY <1>1 DEF DiskContent
<1>4. ASSUME NEW s \in D PROVE mem'[ramdisk + s] = mem[ramdisk + s]
  <2>1. ramdisk + s \in DiskSectors
    BY <1>4, ContentIs
  <2> QED
    BY <2>1 DEF DiskUntouched
<1> HIDE DEF D
<1> QED
  BY <1>2, <1>3, <1>4

\* The step is none of the abstract disk's; `lost` is left aside.
StoreAsBefore ==
  /\ ramdiskblocks' = ramdiskblocks /\ DiskContent' = DiskContent
  /\ formats' = formats /\ panicked' = panicked /\ refused' = refused

\* What the refinement needs of a state besides IInv: that it is known whether
\* the system has panicked.
StoreInv == IInv /\ panicked \in BOOLEAN

\* The test against the limit is true or false.
LEMMA OverIsTest ==
  ASSUME NEW start, NEW count
  PROVE  /\ Over(start, count) \in BOOLEAN
         /\ ~Over(start, count) => Over(start, count) = FALSE
<1>1. Over(start, count) \in BOOLEAN
  BY DEF Over
<1> QED
  BY <1>1, Zenon

\* panicked is set to what a comparison says, or left alone.
LEMMA PanickedType ==
  ASSUME panicked \in BOOLEAN, Next
  PROVE  panicked' \in BOOLEAN
<1>1. ASSUME NEW start, NEW count PROVE Over(start, count) \in BOOLEAN
  BY OverIsTest
<1>2. ASSUME DiskNext PROVE panicked' \in BOOLEAN
  <2>1. ASSUME NEW size, rdiskinit(size) PROVE panicked' \in BOOLEAN
    BY <2>1 DEF rdiskinit
  <2>2. ASSUME rdiskdeinit PROVE panicked' \in BOOLEAN
    BY <2>2 DEF rdiskdeinit
  <2>3. ASSUME NEW w, rdiskwrite(w.data, w.start) PROVE panicked' \in BOOLEAN
    <3>1. panicked' = Over(w.start, Len(w.data))
      BY <2>3, Zenon DEF rdiskwrite
    <3> QED
      BY <1>1, <3>1, Zenon
  <2>4. ASSUME NEW r, rdiskread(r.start, r.count) PROVE panicked' \in BOOLEAN
    <3>1. panicked' = Over(r.start, r.count)
      BY <2>4, Zenon DEF rdiskread
    <3> QED
      BY <1>1, <3>1, Zenon
  <2>5. ASSUME NEW blocks, OtherTakes(blocks) PROVE panicked' \in BOOLEAN
    BY <2>5 DEF OtherTakes
  <2>6. ASSUME NEW o, OtherReturns(o) PROVE panicked' \in BOOLEAN
    BY <2>6 DEF OtherReturns
  <2> QED
    BY <1>2, <2>1, <2>2, <2>3, <2>4, <2>5, <2>6 DEF DiskNext
<1>3. ASSUME fat32init PROVE panicked' \in BOOLEAN
  <2>1. CASE Over(0, 1)
    BY <1>3, <2>1 DEF fat32init
  <2>2. CASE ~Over(0, 1)
    <3>1. PICK record : panicked' = (\/ Over(record.FSInfosec, 1)
                                     \/ Over(record.ressec, record.secperFAT))
      BY <1>3, <2>2, Zenon DEF fat32init
    <3> QED
      BY <3>1, Zenon
  <2> QED
    BY <2>1, <2>2
<1>4. ASSUME Decay PROVE panicked' \in BOOLEAN
  BY <1>4 DEF Decay, diskVars
<1>5. ASSUME NEW path, locateFileCl(path) PROVE panicked' \in BOOLEAN
  BY <1>5 DEF locateFileCl
<1>6. ASSUME RoundOver PROVE panicked' \in BOOLEAN
  BY <1>6 DEF RoundOver
<1>7. ASSUME RoundMiss \/ RoundHit PROVE panicked' \in BOOLEAN
  BY <1>7 DEF RoundMiss, RoundHit, Reading
<1>8. Step
  BY DEF Next
<1> QED
  BY <1>2, <1>3, <1>4, <1>5, <1>6, <1>7, <1>8 DEF Step

\* rdiskinit makes a disk, rdiskdeinit removes it.
LEMMA FormatSteps ==
  ASSUME TypeInv', Apart', Sound, Sound'
  PROVE  /\ \A n \in DiskSizes : rdiskinit(n) => Store!Format(n)
         /\ rdiskdeinit => Store!Format(0)
<1>1. (~Sound)' = ~Sound
  OBVIOUS
<1>2. DOMAIN DiskContent' = 0 .. (ramdiskblocks' - 1)
  <2>1. (TypeInv /\ Apart => DOMAIN DiskContent = 0 .. (ramdiskblocks - 1))'
    BY ContentIs, PTL
  <2> QED
    BY <2>1
<1>3. ASSUME NEW n \in DiskSizes, rdiskinit(n) PROVE Store!Format(n)
  <2>1. /\ ~panicked /\ panicked' = panicked /\ ramdiskblocks' = n
        /\ formats' = formats + 1 /\ refused' = refused
    BY <1>3 DEF rdiskinit
  <2> QED
    BY <1>1, <1>2, <2>1, Zenon DEF Store!Format
<1>4. ASSUME rdiskdeinit PROVE Store!Format(0)
  <2>1. /\ ~panicked /\ panicked' = panicked /\ ramdiskblocks' = 0
        /\ formats' = formats + 1 /\ refused' = refused
    BY <1>4 DEF rdiskdeinit
  <2> QED
    BY <1>1, <1>2, <2>1, Zenon DEF Store!Format
<1> QED
  BY <1>3, <1>4

\* An access that is over the limit ends behind the disk: a remainder is no
\* greater than the number.
LEMMA OverIsBehind ==
  ASSUME TypeInv, NEW start \in Nat, NEW count \in Nat, Over(start, count)
  PROVE  start + count > ramdiskblocks
<1>1. CountMod \in Nat \ {0} /\ ramdiskblocks \in Nat
  BY RamDiskAssumption DEF TypeInv
<1>2. PICK n \in Nat : n = start + count
  OBVIOUS
<1>3. n % CountMod <= n /\ n % CountMod \in Nat
  BY <1>1
<1>4. n % CountMod > ramdiskblocks
  BY <1>2 DEF Over
<1> QED
  BY <1>1, <1>2, <1>3, <1>4

\* An access over the limit is refused: nothing but panicked and refused
\* changes, and the access that refused shows ends behind the disk.
LEMMA RefusedStep ==
  ASSUME TypeInv, TypeInv', Apart, Sound, Sound', ~panicked, panicked' = TRUE,
         NEW start \in Nat, NEW count \in Nat,
         Over(start, count), Refusal(start, count),
         UNCHANGED <<mem, ramdisk, ramdiskblocks, formats>>
  PROVE  Store!Refuse
<1>1. (~Sound)' = ~Sound
  OBVIOUS
<1>2. DiskContent' = DiskContent
  <2>1. DiskUntouched
    BY DEF DiskUntouched
  <2> QED
    BY <2>1, ContentFrame
<1>3. refused'.start + refused'.count > ramdiskblocks
  <2>1. refused' = [start |-> start, count |-> count]
    BY DEF Refusal
  <2>2. refused'.start = start /\ refused'.count = count
    BY <2>1
  <2> QED
    BY <2>2, OverIsBehind
<1>4. ramdiskblocks' = ramdiskblocks /\ formats' = formats
  OBVIOUS
<1> QED
  BY <1>1, <1>2, <1>3, <1>4, Zenon DEF Store!Refuse

\* An access within the limit is not shown as refused.
LEMMA ServedStep ==
  ASSUME NEW start, NEW count, ~Over(start, count), Refusal(start, count)
  PROVE  refused' = refused
BY DEF Refusal

\* rdiskwrite writes what it is asked to write, or is refused.
LEMMA StoreWriteStep ==
  ASSUME TypeInv, TypeInv', Apart, Apart', Sound, Sound', panicked \in BOOLEAN,
         NEW w \in Writes, rdiskwrite(w.data, w.start)
  PROVE  Store!Write(w.start, w.data) \/ Store!Refuse
<1> DEFINE asked == w.start .. (w.start + Len(w.data) - 1)
           last == ramdiskblocks - 1
<1>1. (~Sound)' = ~Sound /\ ~wrapped'
  BY DEF Sound
<1>2. /\ ~panicked /\ ramdisk' = ramdisk /\ ramdiskblocks' = ramdiskblocks
      /\ formats' = formats /\ Refusal(w.start, Len(w.data))
  BY DEF rdiskwrite
<1>3. CASE Over(w.start, Len(w.data))
  <2>1. panicked' = Over(w.start, Len(w.data))
    BY Zenon DEF rdiskwrite
  <2>2. panicked' = TRUE
    BY <1>3, <2>1 DEF Over
  <2>3. mem' = mem
    BY <2>2 DEF rdiskwrite
  <2>4. w.start \in Nat /\ Len(w.data) \in Nat
    BY RamDiskAssumption
  <2> QED
    BY <1>2, <1>3, <2>2, <2>3, <2>4, RefusedStep
<1>4. CASE ~Over(w.start, Len(w.data))
  <2>1. /\ w.start + Len(w.data) <= ramdiskblocks
        /\ \A s \in Sectors :
             mem'[s] = IF s - (ramdisk + w.start) \in 0 .. (Len(w.data) - 1)
                       THEN w.data[s - (ramdisk + w.start) + 1] ELSE mem[s]
    BY <1>1, <1>4, WriteEffect
  <2>2. /\ DiskContent = [s \in 0 .. last |-> mem[ramdisk + s]]
        /\ \A s \in 0 .. last : ramdisk + s \in Sectors
    BY ContentIs, OwnedIsMemory
  <2>3. DiskContent' = [s \in 0 .. last |-> mem'[ramdisk + s]]
    <3>1. (TypeInv /\ Apart
           => DiskContent = [s \in 0 .. (ramdiskblocks - 1) |-> mem[ramdisk + s]])'
      BY ContentIs, PTL
    <3> QED
      BY <1>2, <3>1
  <2>4. ASSUME NEW s \in 0 .. last
        PROVE  mem'[ramdisk + s] = IF s \in asked THEN w.data[s - w.start + 1]
                                   ELSE DiskContent[s]
    <3>1. w.start \in Nat /\ Len(w.data) \in Nat /\ ramdisk \in Nat /\ s \in Int
      BY RamDiskAssumption DEF TypeInv
    <3>2. PICK a \in Sectors : a = ramdisk + s
      BY <2>2
    <3>3. a - (ramdisk + w.start) = s - w.start
      BY <3>1, <3>2
    <3>4. s - w.start \in 0 .. (Len(w.data) - 1) <=> s \in asked
      BY <3>1
    <3>5. DiskContent[s] = mem[a]
      BY <2>2, <3>2
    <3>6. mem'[a] = IF s - w.start \in 0 .. (Len(w.data) - 1)
                    THEN w.data[s - w.start + 1] ELSE mem[a]
      BY <2>1, <3>3, Zenon
    <3> HIDE DEF asked
    <3> QED
      BY <3>2, <3>4, <3>5, <3>6, Zenon
  <2>5. DiskContent' = [s \in DOMAIN DiskContent |->
                          IF s \in asked THEN w.data[s - w.start + 1] ELSE DiskContent[s]]
    <3> HIDE DEF asked, last
    <3>1. DOMAIN DiskContent = 0 .. last
      BY <2>2
    <3> QED
      BY <2>3, <2>4, <3>1
  <2>6. panicked' = panicked /\ refused' = refused
    <3>1. panicked' = Over(w.start, Len(w.data))
      BY Zenon DEF rdiskwrite
    <3>2. panicked' = FALSE
      BY <1>4, <3>1, OverIsTest, Zenon
    <3>3. panicked = FALSE
      BY <1>2
    <3>4. refused' = refused
      BY <1>2, <1>4, ServedStep
    <3> QED
      BY <3>2, <3>3, <3>4
  <2> QED
    BY <1>1, <1>2, <2>1, <2>5, <2>6, Zenon DEF Store!Write
<1> QED
  BY <1>3, <1>4

\* A step that leaves the disk's sectors alone, and does not panic, is none of
\* the abstract disk's.
LEMMA StoreFrame ==
  ASSUME TypeInv, TypeInv', Apart, DiskUntouched, panicked' = panicked,
         UNCHANGED <<ramdisk, ramdiskblocks, formats, refused>>
  PROVE  StoreAsBefore
<1>1. DiskContent' = DiskContent
  BY ContentFrame
<1>2. /\ ramdiskblocks' = ramdiskblocks
      /\ formats' = formats /\ refused' = refused
  OBVIOUS
<1> QED
  BY <1>1, <1>2, Zenon DEF StoreAsBefore

\* rdiskread is refused, or changes nothing.
LEMMA StoreReadStep ==
  ASSUME TypeInv, TypeInv', Apart, Sound, Sound', panicked \in BOOLEAN,
         NEW r \in Reads, rdiskread(r.start, r.count)
  PROVE  Store!Refuse \/ StoreAsBefore
<1>1. /\ ~panicked /\ UNCHANGED <<mem, ramdisk, ramdiskblocks, formats>>
      /\ Refusal(r.start, r.count)
  BY DEF rdiskread, ghosts
<1>2. panicked' = Over(r.start, r.count)
  BY Zenon DEF rdiskread
<1>3. CASE Over(r.start, r.count)
  <2>1. panicked' = TRUE
    BY <1>2, <1>3 DEF Over
  <2>2. r.start \in Nat /\ r.count \in Nat
    BY RamDiskAssumption
  <2> QED
    BY <1>1, <1>3, <2>1, <2>2, RefusedStep
<1>4. CASE ~Over(r.start, r.count)
  <2>1. panicked' = FALSE
    BY <1>2, <1>4, OverIsTest, Zenon
  <2>2. panicked' = panicked
    BY <1>1, <2>1
  <2>3. DiskUntouched
    BY <1>1 DEF DiskUntouched
  <2>4. refused' = refused
    BY <1>1, <1>4, ServedStep
  <2> QED
    BY <1>1, <2>2, <2>3, <2>4, StoreFrame
<1> QED
  BY <1>3, <1>4

\* fat32init reads the boot record, FSInfo and the FAT, or one of these reads
\* is refused.
LEMMA StoreFat32InitStep ==
  ASSUME TypeInv, TypeInv', Apart, Apart', Kept, Legible, Sound, Sound',
         panicked \in BOOLEAN, fat32init
  PROVE  Store!Refuse \/ StoreAsBefore
<1>1. ~panicked /\ UNCHANGED <<ramdisk, ramdiskblocks, formats>>
  BY DEF fat32init, ghosts
<1>2. CASE Over(0, 1)
  <2>1. panicked' = TRUE /\ Refusal(0, 1) /\ mem' = mem
    BY <1>2 DEF fat32init
  <2>2. 0 \in Nat /\ 1 \in Nat
    OBVIOUS
  <2> QED
    BY <1>1, <1>2, <2>1, <2>2, RefusedStep
<1>3. CASE ~Over(0, 1)
  <2>1. PICK record \in RecordsIn(mem[Sector(0, 0)]) :
          /\ panicked' = (\/ Over(record.FSInfosec, 1)
                          \/ Over(record.ressec, record.secperFAT))
          /\ IF Over(record.FSInfosec, 1) THEN Refusal(record.FSInfosec, 1)
             ELSE Refusal(record.ressec, record.secperFAT)
          /\ panicked' => mem' = mem
    BY <1>3, Zenon DEF fat32init
  <2>2. /\ record.FSInfosec \in Nat /\ 1 \in Nat
        /\ record.ressec \in Nat /\ record.secperFAT \in Nat
    <3>1. record \in Records
      BY <1>3, <2>1, BootRecordIs
    <3> QED
      BY <3>1, RecordNumbers
  <2>3. CASE Over(record.FSInfosec, 1)
    <3>1. panicked' = TRUE /\ Refusal(record.FSInfosec, 1)
      BY <2>1, <2>3, Zenon
    <3>2. mem' = mem
      BY <2>1, <3>1
    <3> QED
      BY <1>1, <2>2, <2>3, <3>1, <3>2, RefusedStep
  <2>4. CASE ~Over(record.FSInfosec, 1) /\ Over(record.ressec, record.secperFAT)
    <3>1. panicked' = TRUE /\ Refusal(record.ressec, record.secperFAT)
      BY <2>1, <2>4, Zenon
    <3>2. mem' = mem
      BY <2>1, <3>1
    <3> QED
      BY <1>1, <2>2, <2>4, <3>1, <3>2, RefusedStep
  <2>5. CASE ~Over(record.FSInfosec, 1) /\ ~Over(record.ressec, record.secperFAT)
    <3>1. panicked' = FALSE /\ Refusal(record.ressec, record.secperFAT)
      BY <2>1, <2>5, Zenon
    <3>2. panicked' = panicked
      BY <1>1, <3>1
    <3>3. refused' = refused
      BY <2>5, <3>1, ServedStep
    <3>4. DiskUntouched
      <4>1. ~wrapped'
        BY DEF Sound
      <4> QED
        BY <4>1, Fat32InitStep
    <3> QED
      BY <1>1, <3>2, <3>3, <3>4, StoreFrame
  <2> QED
    BY <2>3, <2>4, <2>5
<1> QED
  BY <1>2, <1>3

\* A look-up reads clusters, or is refused one.
LEMMA StoreRoundOverStep ==
  ASSUME TypeInv, TypeInv', Apart, Legible, Sound, Sound', RoundOver
  PROVE  Store!Refuse
<1>1. /\ search # None /\ ~panicked /\ panicked' = TRUE
      /\ Over(DirectorySector, BRec.secpercl)
      /\ Refusal(DirectorySector, BRec.secpercl)
      /\ UNCHANGED <<mem, ramdisk, ramdiskblocks, formats>>
  BY DEF RoundOver, ghosts
<1>2. BRec \in Records
  BY <1>1, DirectoryNumber
<1>3. BRec.secpercl \in Nat
  BY <1>2, RecordNumbers
<1>4. DirectorySector \in Nat
  <2>1. CountMod \in Nat \ {0}
    BY RamDiskAssumption
  <2>2. search.ccl * BRec.secpercl \in Nat
    BY <1>1, <1>2, RecordNumbers DEF Legible
  <2> QED
    BY <2>1, <2>2 DEF DirectorySector
<1> QED
  BY <1>1, <1>3, <1>4, RefusedStep

\* Every step, while the disk is its users' alone, is one of the abstract disk
\* or none.
LEMMA StoreStep ==
  ASSUME StoreInv, TypeInv', Next, Sound'
  PROVE  Store!Next \/ (StoreAsBefore /\ (~Sound)' = ~Sound)
<1>1. /\ ~shared /\ ~wrapped /\ Apart' /\ ~wrapped' /\ Sound
  BY SoundBefore DEF Sound
<1>2. TypeInv /\ Apart /\ Kept /\ Legible /\ panicked \in BOOLEAN
  BY <1>1 DEF StoreInv, IInv
<1>3. (~Sound)' = ~Sound
  BY <1>1
<1>4. ASSUME NEW n \in DiskSizes, rdiskinit(n) PROVE Store!Next
  BY <1>1, <1>4, FormatSteps DEF Store!Next
<1>5. ASSUME rdiskdeinit PROVE Store!Next
  BY <1>1, <1>5, FormatSteps DEF Store!Next
<1>6. ASSUME NEW w \in Writes, rdiskwrite(w.data, w.start) PROVE Store!Next
  BY <1>1, <1>2, <1>6, StoreWriteStep DEF Store!Next
<1>7. ASSUME Store!Refuse PROVE Store!Next
  BY <1>7 DEF Store!Next
<1>8. ASSUME NEW r \in Reads, rdiskread(r.start, r.count) PROVE Store!Next \/ StoreAsBefore
  BY <1>1, <1>2, <1>7, <1>8, StoreReadStep
<1>9. ASSUME NEW blocks \in OtherRuns, OtherTakes(blocks),
             search = None, UNCHANGED <<BRec, search>>
      PROVE  StoreAsBefore
  <2>1. DiskUntouched
    BY <1>1, <1>2, <1>9, TakesStep
  <2>2. panicked' = panicked /\ UNCHANGED <<ramdisk, ramdiskblocks, formats, refused>>
    BY <1>9 DEF OtherTakes
  <2> QED
    BY <1>2, <2>1, <2>2, StoreFrame
<1>10. ASSUME NEW o \in others, OtherReturns(o) PROVE StoreAsBefore
  <2>1. panicked' = panicked /\ UNCHANGED <<mem, ramdisk, ramdiskblocks, formats, refused>>
    BY <1>10 DEF OtherReturns
  <2>2. DiskUntouched
    BY <2>1 DEF DiskUntouched
  <2> QED
    BY <1>2, <2>1, <2>2, StoreFrame
<1>11. CASE search = None /\ DiskNext /\ answer' = None /\ UNCHANGED <<BRec, search, decayed>>
  BY <1>3, <1>4, <1>5, <1>6, <1>8, <1>9, <1>10, <1>11 DEF DiskNext
<1>12. CASE fat32init
  BY <1>1, <1>2, <1>3, <1>7, <1>12, StoreFat32InitStep
<1>13. CASE Decay
  <2>1. panicked' = panicked /\ UNCHANGED <<mem, ramdisk, ramdiskblocks, formats, refused>>
    BY <1>13 DEF Decay, diskVars
  <2>2. DiskUntouched
    BY <2>1 DEF DiskUntouched
  <2> QED
    BY <1>2, <1>3, <2>1, <2>2, StoreFrame
<1>14. ASSUME NEW path \in Paths, locateFileCl(path) PROVE StoreAsBefore
  <2>1. DiskUntouched
    BY <1>1, <1>2, <1>14, LocateStep
  <2>2. panicked' = panicked /\ UNCHANGED <<ramdisk, ramdiskblocks, formats, refused>>
    BY <1>14 DEF locateFileCl, ghosts
  <2> QED
    BY <1>2, <2>1, <2>2, StoreFrame
<1>15. CASE RoundOver
  BY <1>1, <1>2, <1>7, <1>15, StoreRoundOverStep
<1>16. CASE RoundMiss \/ RoundHit
  <2>1. Reading
    BY <1>16 DEF RoundMiss, RoundHit
  <2>2. DiskUntouched
    BY <1>1, <1>2, <2>1, ReadingKeeps
  <2>3. panicked' = panicked /\ UNCHANGED <<ramdisk, ramdiskblocks, formats, refused>>
    BY <2>1 DEF Reading, ghosts
  <2> QED
    BY <1>2, <1>3, <2>2, <2>3, StoreFrame
<1>17. Step
  BY DEF Next
<1> QED
  BY <1>3, <1>11, <1>12, <1>13, <1>14, <1>15, <1>16, <1>17 DEF Step

\* The disk, wherever it lies and whatever else uses the memory around it, is a
\* store of sectors: from one call of rdiskinit or rdiskdeinit to the next only
\* rdiskwrite changes a sector, written before or not, and only the ones it
\* names; every access that rdiskread, rdiskwrite, fat32init or a look-up is
\* refused ends behind the last sector; and nothing is left in between by a
\* look-up, fat32init or another caller of pmalloc.
THEOREM StoreRefinement == Spec => RefinesStore
<1>1. FatInit => Store!Init /\ StoreInv
  <2> SUFFICES ASSUME FatInit PROVE Store!Init /\ StoreInv
    OBVIOUS
  <2>1. /\ ramdiskblocks = 0 /\ formats = 0 /\ panicked = FALSE
        /\ refused = [start |-> 0, count |-> 0] /\ shared = FALSE /\ wrapped = FALSE
    BY DEF FatInit, Init
  <2>2. DOMAIN DiskContent = {}
    <3>1. {k \in 0 .. (ramdiskblocks - 1) : ramdisk + k \in DOMAIN mem} = {}
      BY <2>1
    <3>2. DiskContent = [s \in {} |-> mem[ramdisk + s]]
      BY <3>1, Zenon DEF DiskContent
    <3> QED
      BY <3>2
  <2>3. (~Sound) = FALSE
    BY <2>1 DEF Sound
  <2>4. Store!Init
    BY <2>1, <2>2, <2>3, Zenon DEF Store!Init
  <2> QED
    BY <2>1, <2>4, DiskInit DEF StoreInv
<1>2. StoreInv /\ [Next]_vars => StoreInv'
  <2> SUFFICES ASSUME StoreInv, [Next]_vars PROVE StoreInv'
    OBVIOUS
  <2>1. IInv'
    BY DiskStep DEF StoreInv
  <2>2. panicked' \in BOOLEAN
    <3>1. CASE UNCHANGED vars
      BY <3>1 DEF StoreInv, vars, diskVars
    <3>2. CASE Next
      BY <3>2, PanickedType DEF StoreInv
    <3> QED
      BY <3>1, <3>2
  <2> QED
    BY <2>1, <2>2 DEF StoreInv
<1>3. StoreInv /\ [Next]_vars
      => [Store!Next]_<<ramdiskblocks, DiskContent, formats, panicked, refused, ~Sound>>
  <2> SUFFICES ASSUME StoreInv, [Next]_vars
               PROVE  \/ Store!Next
                      \/ StoreAsBefore /\ (~Sound)' = ~Sound
    BY Zenon DEF StoreAsBefore
  <2>1. CASE UNCHANGED vars
    <3>1. /\ mem' = mem /\ ramdisk' = ramdisk /\ ramdiskblocks' = ramdiskblocks
          /\ formats' = formats /\ refused' = refused
      BY <2>1 DEF vars, diskVars
    <3>2. panicked' = panicked
      BY <2>1, Zenon DEF vars, diskVars
    <3>3. (~Sound)' = ~Sound
      <4>1. shared' = shared /\ wrapped' = wrapped
        BY <2>1, Zenon DEF vars, diskVars
      <4> QED
        BY <4>1, Zenon DEF Sound
    <3>4. DiskContent' = DiskContent
      BY <3>1 DEF DiskContent
    <3>5. StoreAsBefore
      BY <3>1, <3>2, <3>4, Zenon DEF StoreAsBefore
    <3> QED
      BY <3>3, <3>5
  <2>2. CASE Next /\ Sound'
    <3>1. TypeInv'
      BY <2>2, TypeStep DEF StoreInv, IInv
    <3> QED
      BY <2>2, <3>1, StoreStep
  <2>3. CASE ~Sound'
    <3>1. (~Sound)' = TRUE
      BY <2>3
    <3> QED
      BY <3>1, Zenon DEF Store!Next, Store!Lose
  <2> QED
    BY <2>1, <2>2, <2>3
<1> QED
  BY <1>1, <1>2, <1>3, PTL DEF Spec, RefinesStore, Store!Spec

=============================================================================
