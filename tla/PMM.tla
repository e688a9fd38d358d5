-------------------------------- MODULE PMM --------------------------------
(***************************************************************************)
(* The physical memory manager, kernel/mem/pmm_mem.c: a bitmap with one    *)
(* bit per 4 KiB block (1 = used), built by pmm_init from the bootloader's *)
(* memory map, searched first-fit by pmalloc, cleared by pfree.            *)
(*                                                                         *)
(* pmm_map is the set of blocks whose bit is 1.  The bit of block b is bit *)
(* b % ByteBits of byte b \div ByteBits.  pmalloc's loop runs one bit per  *)
(* step, because that is where "freebl" and "p" can go wrong; nothing in   *)
(* the kernel interrupts one memory call with another (no interrupt        *)
(* handler allocates), so one call is in progress at a time.               *)
(*                                                                         *)
(* The bitmap itself lives in RAM, in the first usable region, and         *)
(* pmm_init leaves that region's first block free: pmalloc hands it out    *)
(* like any other and clears it.  The model follows the code there.  What  *)
(* the callers then write into it is cut down to all zeroes or all ones.   *)
(***************************************************************************)
EXTENDS Integers, Sequences

CONSTANTS
  ByteBits,     \* bits in a byte of the bitmap (8)
  BlockBytes,   \* bytes in a block (4096)
  AlignBytes,   \* the granularity of the ALIGN macro (0x400)
  Hhdm,         \* where the higher-half direct map starts, in bytes
  Memmaps,      \* the memory maps the bootloader may report
  PastEnd,      \* what memmap[entries], one past the end, may hold
  Requests      \* the block counts callers pass to pmalloc

ASSUME GeometryAssumption ==
  /\ ByteBits \in Nat \ {0}
  /\ BlockBytes \in Nat \ {0}
  /\ AlignBytes \in Nat \ {0}
  /\ Hhdm \in Nat
  /\ PastEnd \subseteq Nat
  /\ Requests \subseteq Nat \ {0}

ASSUME MemmapAssumption ==
  Memmaps \subseteq Seq([base : Nat, length : Nat, usable : BOOLEAN])

VARIABLES
  memmap,         \* the reported memory map
  mapbase,        \* the physical address of the bitmap (pmm_map - hhdm)
  pmm_map_size,   \* bytes in the bitmap
  pmm_map,        \* the blocks whose bit is set
  call,           \* the block count of the pmalloc in progress, or Idle
  i, freebl, p,   \* pmalloc's loop variables
  held,           \* ghost: the runs [start, blocks] callers hold
  lost            \* ghost: a caller was given memory of the bitmap

vars == <<memmap, mapbase, pmm_map_size, pmm_map, call, i, freebl, p,
          held, lost>>

layout == <<memmap, mapbase, pmm_map_size>>

loop == <<call, i, freebl, p>>

Idle == 0

ALIGN(addr) == addr - (addr % AlignBytes)

TOBLOCKS(addr) == ALIGN(addr) \div BlockBytes

\* The bootloader never reports the first block of memory as usable.
ASSUME FirstBlockAssumption ==
  \A m \in Memmaps : \A e \in DOMAIN m :
    m[e].usable => TOBLOCKS(m[e].base) # 0

Bits == 0 .. (pmm_map_size * ByteBits - 1)

Run(a) == a.start .. (a.start + a.blocks - 1)

\* The bits of the bitmap that are stored in the given blocks.
BitsIn(blocks) ==
  {b \in Bits : (mapbase + b \div ByteBits) \div BlockBytes \in blocks}

\* Faulty variant: the bit of the last block is used for every byte.
RegionBitsOfLast(block, blocks) ==
  {((block + k) \div ByteBits) * ByteBits + ((block + blocks) % ByteBits)
     : k \in 0 .. (blocks - 1)}

\* Faulty variant: the first bit of every byte.
RegionBitsFirst(block, blocks) ==
  {((block + k) \div ByteBits) * ByteBits : k \in 0 .. (blocks - 1)}

(***************************************************************************)
(* The bits that pmm_ureg sets, and pmm_unreg clears, for a region.  The   *)
(* byte moves with the block, the bit within the byte stays that of the    *)
(* first block: 1 << (block % 8), not 1 << ((block + i) % 8).              *)
(***************************************************************************)
RegionBits(block, blocks) ==
  {((block + k) \div ByteBits) * ByteBits + (block % ByteBits)
     : k \in 0 .. (blocks - 1)}

-----------------------------------------------------------------------------
(* pmm_init *)

End(e) == e.base + e.length

\* The first usable entry long enough for a bitmap of `need` bytes.
HoldsBitmap(m, need, e) ==
  LET fits(k) == m[k].usable /\ m[k].length >= need
  IN  fits(e) /\ \A k \in 1 .. (e - 1) : ~fits(k)

\* The entries that pmm_init unregisters.  mapAddr is the bitmap's virtual
\* address, base and End are physical: the test compares the two.
Unregistered(m, mapAddr, need) ==
  {e \in DOMAIN m :
     /\ m[e].usable
     /\ (m[e].base > mapAddr + need \/ End(m[e]) < mapAddr)}

pmm_init(m, past) ==
  LET tops == {End(m[e]) : e \in DOMAIN m} \cup {past}
  IN  \E highestb \in tops, e \in DOMAIN m :
        /\ \A t \in tops : t <= highestb
        /\ pmm_map_size = TOBLOCKS(highestb) \div ByteBits
        /\ HoldsBitmap(m, pmm_map_size, e)
        /\ mapbase = m[e].base
        /\ pmm_map = Bits \ UNION
             {RegionBits(TOBLOCKS(m[u].base), TOBLOCKS(m[u].length)) :
                u \in Unregistered(m, mapbase + Hhdm, pmm_map_size)}

Init ==
  /\ memmap \in Memmaps
  /\ \E past \in PastEnd : pmm_init(memmap, past)
  /\ call = Idle /\ i = 0 /\ freebl = 0 /\ p = 0
  /\ held = {} /\ lost = FALSE

-----------------------------------------------------------------------------
(* pmalloc *)

Pmalloc(n) ==
  /\ call = Idle
  /\ call' = n
  /\ i' = 0 /\ freebl' = 0 /\ p' = 0
  /\ UNCHANGED <<layout, pmm_map, held, lost>>

Return ==
  call' = Idle /\ i' = 0 /\ freebl' = 0 /\ p' = 0

\* Faulty variants: the loop runs one bit too far, or stops one bit early.
ScanningLong == call # Idle /\ i <= pmm_map_size * ByteBits
ScanningShort == call # Idle /\ i < pmm_map_size * ByteBits - 1

Scanning == call # Idle /\ i < pmm_map_size * ByteBits

RunStart == IF freebl = 0 THEN i ELSE p

\* Faulty variant: a used block does not reset the run.
ScanUsedNoReset ==
  /\ Scanning /\ i \in pmm_map
  /\ i' = i + 1 /\ UNCHANGED <<freebl, p>>
  /\ UNCHANGED <<layout, pmm_map, call, held, lost>>

\* PMM_REGU(i): the run of free blocks is broken.
ScanUsed ==
  /\ Scanning /\ i \in pmm_map
  /\ i' = i + 1 /\ freebl' = 0 /\ p' = 0
  /\ UNCHANGED <<layout, pmm_map, call, held, lost>>

\* A free block that does not complete the run yet.
ScanFree ==
  /\ Scanning /\ i \notin pmm_map
  /\ freebl + 1 # call
  /\ i' = i + 1 /\ freebl' = freebl + 1 /\ p' = RunStart
  /\ UNCHANGED <<layout, pmm_map, call, held, lost>>

\* The block that completes the run: pmm_ureg(p, freebl), then memset of one
\* block at the address returned, whatever the size of the run.
ScanHit ==
  /\ Scanning /\ i \notin pmm_map
  /\ freebl + 1 = call
  /\ pmm_map' = (pmm_map \cup RegionBits(RunStart, call)) \ BitsIn({RunStart})
  /\ LET a == [start |-> RunStart, blocks |-> call]
     IN  /\ held' = held \cup {a}
         /\ lost' = (lost \/ BitsIn(Run(a)) # {})
  /\ Return
  /\ UNCHANGED layout

\* The loop ends without a run: return 0.
ScanMiss ==
  /\ call # Idle /\ ~Scanning
  /\ Return
  /\ UNCHANGED <<layout, pmm_map, held, lost>>

\* Faulty variant: the block after the one given is released.
PfreeNext(a) ==
  /\ call = Idle
  /\ pmm_map' = pmm_map \ RegionBits(a.start + 1, a.blocks)
  /\ held' = held \ {a}
  /\ UNCHANGED <<layout, loop, lost>>

\* pfree(p, blocks), called with what pmalloc returned and was asked for.
Pfree(a) ==
  /\ call = Idle
  /\ pmm_map' = pmm_map \ RegionBits(a.start, a.blocks)
  /\ held' = held \ {a}
  /\ UNCHANGED <<layout, loop, lost>>

\* A caller writes to the block it was given, and the bitmap is in it.
CallerOverwrites(a) ==
  /\ call = Idle
  /\ BitsIn(Run(a)) # {}
  /\ pmm_map' \in {pmm_map \ BitsIn(Run(a)), pmm_map \cup BitsIn(Run(a))}
  /\ UNCHANGED <<layout, loop, held, lost>>

Next ==
  \/ \E n \in Requests : Pmalloc(n)
  \/ ScanUsed \/ ScanFree \/ ScanHit \/ ScanMiss
  \/ \E a \in held : Pfree(a) \/ CallerOverwrites(a)

Spec == Init /\ [][Next]_vars

-----------------------------------------------------------------------------
(* Properties *)

\* The variables have their types; every bit and every loop index stays
\* inside the bitmap that pmm_init sized.
TypeOK ==
  /\ memmap \in Memmaps
  /\ mapbase \in Nat
  /\ pmm_map_size \in Nat
  /\ pmm_map \subseteq Bits
  /\ call \in Requests \cup {Idle}
  /\ i \in 0 .. (pmm_map_size * ByteBits)
  /\ freebl \in Nat
  /\ p \in Nat
  /\ held \subseteq [start : Nat, blocks : Requests]
  /\ lost \in BOOLEAN

\* What pmalloc's loop knows between two bits: the `freebl` blocks before i
\* are free, start at p and are preceded by a used block, and no run of
\* `call` free blocks lies entirely below i.
LoopInv ==
  call # Idle =>
    /\ freebl < call
    /\ freebl <= i
    /\ freebl > 0 => p = i - freebl
    /\ \A b \in (i - freebl) .. (i - 1) : b \notin pmm_map
    /\ freebl < i => (i - freebl - 1) \in pmm_map
    /\ \A s \in 0 .. (i - call) :
         \E b \in s .. (s + call - 1) : b \in pmm_map

\* pmalloc returns 0 only when the bitmap has no run of that many free
\* blocks, wherever in the map the run might be.
RefusedOnlyWhenFull ==
  [][ScanMiss =>
       \A s \in 0 .. (pmm_map_size * ByteBits - call) :
         \E b \in s .. (s + call - 1) : b \in pmm_map]_vars

\* While the bitmap is intact an address that pmalloc returns is never 0, so
\* that a caller can tell an answer from a refusal.
ZeroIsRefusal ==
  ~lost => \A a \in held : a.start # 0

\* While the bitmap is intact every block of a run that a caller holds is
\* marked used, so that no later pmalloc can find it free.
HeldIsMarked ==
  ~lost => \A a \in held : Run(a) \subseteq pmm_map

\* While the bitmap is intact pmalloc never hands out a block that someone
\* holds: two runs returned and not freed yet share no block.
AllocationsDisjoint ==
  ~lost => \A a, b \in held : a # b => Run(a) \cap Run(b) = {}

\* The regions for which pmm_unreg is right: with the bit of the first block
\* it clears, in the byte of the last block, a bit that is not beyond the end.
StaysInside(e) ==
  e.usable =>
    TOBLOCKS(e.base) % ByteBits <=
      (TOBLOCKS(e.base) + TOBLOCKS(e.length) - 1) % ByteBits

\* While the bitmap is intact a caller holds only blocks that the memory map
\* reports as usable RAM, whatever sequence of requests and releases led there
\* and whatever garbage lies behind the map - if no usable region ends below
\* the position that its first block has in a byte.
HeldIsUsable ==
  ~lost /\ (\A e \in DOMAIN memmap : StaysInside(memmap[e])) =>
    \A a \in held : \A b \in Run(a) :
      \E e \in DOMAIN memmap :
        /\ memmap[e].usable
        /\ b >= TOBLOCKS(memmap[e].base)
        /\ b < TOBLOCKS(End(memmap[e]))

\* The abstract allocator: the free blocks are those whose bit is clear.
Blocks == INSTANCE BlockAllocator WITH free <- Bits \ pmm_map

\* The bitmap allocator implements the abstract one: a request takes free
\* blocks and nothing else changes hands, a release gives exactly those back,
\* until the bitmap itself is handed out.
RefinesAllocator == Blocks!Spec

=============================================================================
