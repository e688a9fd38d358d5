------------------------------- MODULE RamDisk -------------------------------
(***************************************************************************)
(* The RAM disk, kernel/disk/ramdisk.c: sectors of 512 bytes in a run of   *)
(* blocks that pmalloc gives, 8 to a block, with other callers of pmalloc  *)
(* beside it.  Memory is counted in sectors.                               *)
(*                                                                         *)
(* pmalloc is the first-fit search that module PMM has bit by bit, with    *)
(* the bits it marks for a run: of a run inside one byte of the bitmap     *)
(* only the first block's, so that others may be given the disk's second   *)
(* block while it is in use (shared).                                      *)
(***************************************************************************)
EXTENDS Integers, Sequences, FiniteSetsExt

CONSTANTS
  ByteBits,      \* blocks to a byte of the bitmap (8)
  BlockSectors,  \* sectors in a block (8)
  TotalBlocks,   \* blocks of memory
  Unusable,      \* the blocks that are never free, block 0 among them
  CountMod,      \* the values of a uint32_t (2^32)
  SpanMod,       \* sectors whose bytes a uint32_t can count (2^23)
  DiskSizes,     \* the sizes, in sectors, rdiskinit is called with
  Writes,        \* the writes [start, data] and
  Reads,         \* the reads [start, count] that callers make
  OtherRuns,     \* the sizes, in blocks, others ask pmalloc for
  Zero, Foreign  \* a cleared sector, and one that another caller wrote

ASSUME RamDiskAssumption ==
  /\ ByteBits \in Nat \ {0} /\ BlockSectors \in Nat \ {0}
  /\ TotalBlocks \in Nat /\ TotalBlocks % ByteBits = 0
  /\ 0 \in Unusable
  /\ SpanMod \in Nat \ {0} /\ CountMod \in Nat /\ 2 * SpanMod <= CountMod
  /\ DiskSizes \subseteq 0 .. (CountMod - 1) /\ OtherRuns \subseteq Nat \ {0}
  /\ \A w \in Writes : /\ w.start \in Nat
                       /\ Len(w.data) \in Nat /\ DOMAIN w.data = 1 .. Len(w.data)
  /\ \A r \in Reads : r.start \in Nat /\ r.count \in Nat

VARIABLES
  pmm_map,        \* the blocks whose bit is set
  mem,            \* what each sector of memory holds
  ramdisk,        \* the sector the disk starts at, or 0
  ramdiskblocks,  \* the size of the disk, in sectors
  panicked,       \* except() was called: nothing goes on
  others,         \* the runs [start, blocks] other callers hold
  written,        \* ghost: the disk's sectors as callers last wrote them
  theirs,         \* ghost: the others' sectors as they last wrote them
  formats,        \* ghost: how often rdiskinit and rdiskdeinit were called
  refused,        \* ghost: the access [start, count] that panicked
  shared,         \* ghost: a sector had two owners, or the disk one outside memory
  wrapped         \* ghost: an access beyond what a uint32_t counts went through

ghosts == <<written, theirs, formats>>
diskVars == <<pmm_map, mem, ramdisk, ramdiskblocks, panicked, others,
              written, theirs, formats, refused, shared, wrapped>>

Blocks == 0 .. (TotalBlocks - 1)
Sectors == 0 .. (TotalBlocks * BlockSectors - 1)

SectorsOf(start, blocks) ==
  (start * BlockSectors) .. ((start + blocks) * BlockSectors - 1)

\* A function without the arguments in S, and one with f's arguments in S
\* mapped to v.
Without(f, S) == [s \in DOMAIN f \ S |-> f[s]]

Filled(f, S, v) == [s \in DOMAIN f |-> IF s \in S THEN v ELSE f[s]]

RegionBits(block, blocks) ==
  {((block + k) \div ByteBits) * ByteBits + (block % ByteBits) : k \in 0 .. (blocks - 1)}

FreeRuns(blocks) ==
  {s \in 0 .. (TotalBlocks - blocks) :
     \A b \in s .. (s + blocks - 1) : b \notin pmm_map}

\* What pmalloc(blocks) returns: no run has 0 blocks, and then it is 0.
FirstFit(blocks) ==
  IF blocks = 0 \/ FreeRuns(blocks) = {} THEN 0 ELSE Min(FreeRuns(blocks))

Granted(blocks) == blocks # 0 /\ FreeRuns(blocks) # {}

Marked(blocks) ==
  IF Granted(blocks)
  THEN pmm_map \cup RegionBits(FirstFit(blocks), blocks) ELSE pmm_map

\* memset: only the first block is cleared.
ClearedBy(blocks) ==
  IF Granted(blocks)
  THEN Filled(mem, SectorsOf(FirstFit(blocks), 1), Zero) ELSE mem

Init ==
  /\ pmm_map = Unusable /\ mem = [s \in Sectors |-> Zero]
  /\ ramdisk = 0 /\ ramdiskblocks = 0 /\ panicked = FALSE
  /\ others = {}
  /\ written = [s \in {} |-> Zero] /\ theirs = [s \in {} |-> Zero]
  /\ formats = 0 /\ refused = [start |-> 0, count |-> 0]
  /\ shared = FALSE /\ wrapped = FALSE

DiskSectors == ramdisk .. (ramdisk + ramdiskblocks - 1)

OtherSectors == UNION {SectorsOf(o.start, o.blocks) : o \in others}

-----------------------------------------------------------------------------

\* rdiskinit(blocknum), the size in sectors; the blocks are rounded down, and
\* pmalloc's refusal is not looked at.
rdiskinit(blocknum) ==
  LET blocks == blocknum \div BlockSectors
  IN  /\ ~panicked
      /\ pmm_map' = Marked(blocks) /\ mem' = ClearedBy(blocks)
      /\ ramdisk' = FirstFit(blocks) * BlockSectors
      /\ ramdiskblocks' = blocknum
      /\ written' = [s \in {} |-> Zero] /\ formats' = formats + 1
      /\ UNCHANGED <<panicked, others, theirs, refused, wrapped>>

rdiskdeinit ==
  /\ ~panicked
  /\ pmm_map' = pmm_map \
       RegionBits(ramdisk \div BlockSectors, ramdiskblocks \div BlockSectors)
  /\ ramdisk' = 0 /\ ramdiskblocks' = 0
  /\ written' = [s \in {} |-> Zero] /\ formats' = formats + 1
  /\ UNCHANGED <<mem, panicked, others, theirs, refused, wrapped>>

\* Faulty variant: the limit is off by one.
OverByOne(start, count) == (start + count) % CountMod > ramdiskblocks + 1

\* Faulty variant: the disk's last sector is out of reach.
OverAtLimit(start, count) == (start + count) % CountMod >= ramdiskblocks

\* The test against the limit; start + count is a uint32_t.
Over(start, count) == (start + count) % CountMod > ramdiskblocks

\* ramdisk + start * 512, the product a uint32_t, and k sectors on.
Sector(start, k) == ramdisk + (start % SpanMod) + k

\* 512 * count, again a uint32_t.
Span(count) == 0 .. ((count % SpanMod) - 1)

\* One of the two products is more than a uint32_t counts.
Wraps(start, count) == start >= SpanMod \/ count >= SpanMod

\* `refused` tells of an access that panics, as the caller asked for it.
Refusal(start, count) ==
  refused' = IF Over(start, count) THEN [start |-> start, count |-> count]
             ELSE refused

\* rdiskread(buf, start, count), buf the caller's own.
rdiskread(start, count) ==
  /\ ~panicked
  /\ panicked' = Over(start, count) /\ Refusal(start, count)
  /\ wrapped' = (wrapped \/ (~panicked' /\ Wraps(start, count)))
  /\ UNCHANGED <<pmm_map, mem, ramdisk, ramdiskblocks, others, ghosts>>

\* rdiskwrite(data, start, Len(data)).
rdiskwrite(data, start) ==
  LET count == Len(data)
      asked == start .. (start + count - 1)
  IN  /\ ~panicked
      /\ panicked' = Over(start, count) /\ Refusal(start, count)
      /\ IF panicked'
         THEN UNCHANGED <<mem, written, wrapped>>
         ELSE /\ mem' = [s \in Sectors |->
                  IF \E k \in Span(count) : s = Sector(start, k)
                  THEN data[s - Sector(start, 0) + 1] ELSE mem[s]]
              /\ written' = [s \in DOMAIN written \cup asked |->
                  IF s \in asked THEN data[s - start + 1] ELSE written[s]]
              /\ wrapped' = (wrapped \/ Wraps(start, count))
      /\ UNCHANGED <<pmm_map, ramdisk, ramdiskblocks, others, theirs, formats>>

\* Another caller asks for blocks and fills what it is given, or returns it.
OtherTakes(blocks) ==
  /\ ~panicked /\ Granted(blocks)
  /\ LET start == FirstFit(blocks)
     IN  /\ others' = others \cup {[start |-> start, blocks |-> blocks]}
         /\ mem' = Filled(mem, SectorsOf(start, blocks), Foreign)
         /\ theirs' = [s \in DOMAIN theirs \cup SectorsOf(start, blocks) |-> Foreign]
  /\ pmm_map' = Marked(blocks)
  /\ UNCHANGED <<ramdisk, ramdiskblocks, panicked, written, formats, refused, wrapped>>

OtherReturns(o) ==
  /\ ~panicked
  /\ others' = others \ {o}
  /\ pmm_map' = pmm_map \ RegionBits(o.start, o.blocks)
  /\ theirs' = Without(theirs, SectorsOf(o.start, o.blocks))
  /\ UNCHANGED <<mem, ramdisk, ramdiskblocks, panicked, written, formats, refused,
                 wrapped>>

DiskNext ==
  \/ \E size \in DiskSizes : rdiskinit(size)
  \/ rdiskdeinit
  \/ \E w \in Writes : rdiskwrite(w.data, w.start)
  \/ \E r \in Reads : rdiskread(r.start, r.count)
  \/ \E blocks \in OtherRuns : OtherTakes(blocks)
  \/ \E o \in others : OtherReturns(o)

\* Two owners: the disk and someone else, or two others.  A disk that was
\* refused its blocks begins at 0, and may end where there is no memory.
Overlap ==
  \/ ~(DiskSectors \subseteq Sectors)
  \/ DiskSectors \cap OtherSectors # {}
  \/ \E o, q \in others :
       o # q /\ SectorsOf(o.start, o.blocks) \cap SectorsOf(q.start, q.blocks) # {}

-----------------------------------------------------------------------------
(* Properties.  Until a sector of memory has two owners, or a uint32_t has *)
(* wrapped round in an access that was let through: *)

Sound == ~shared /\ ~wrapped

\* Each sector of the disk holds what a caller last wrote there, whatever was
\* written to other sectors and whoever took or returned memory meanwhile.
SectorsKept ==
  Sound => \A s \in DOMAIN written : mem[ramdisk + s] = written[s]

\* The disk never writes to memory that another caller holds: no access that
\* passes the limit reaches behind the disk.
OthersKept ==
  Sound => \A s \in DOMAIN theirs : mem[s] = theirs[s]

=============================================================================
