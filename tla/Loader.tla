------------------------------- MODULE Loader -------------------------------
(***************************************************************************)
(* What run_elf (tasks.c) puts into memory: the stack, the segments of the *)
(* ELF file and the frame the process starts from, for one process after   *)
(* the other.  Memory is kept byte by byte, because that is where sizes    *)
(* and places can be wrong.                                                *)
(*                                                                         *)
(* pmalloc is the first-fit allocator of module PMM, by its promise; an    *)
(* address space is a map from pages to blocks, as module VMM implements   *)
(* it, and the tables it takes on the way are some blocks nobody else has. *)
(* How the timer interrupts run_elf is the subject of module Kernel.       *)
(***************************************************************************)
EXTENDS Integers, Sequences, FiniteSets, FiniteSetsExt

CONSTANTS
  BlockBytes,   \* bytes in a block and in a page (4096)
  StateBytes,   \* sizeof(ProcessState) (176)
  StackBlocks,  \* stackbytes / 4096, as _start calls run_elf (1)
  TopPage,      \* the stack's highest page (0x7FFF)
  TotalBlocks,  \* the blocks that pmalloc hands out are 1 .. TotalBlocks
  Files,        \* the files that may be loaded
  Image,        \* file -> [fails, segments]
  Loads         \* bound: how many processes are started

\* A program header: whether it is PT_LOAD, where it goes and how long it is.
ProgramHeader == [load : BOOLEAN, vaddr : Nat, filesz : Nat, memsz : Nat]

\* The tests of run_elf, numbered as it returns them: the size of the file,
\* then the fields magic, inset, bits, endianness and type of its header.
Tests == 1 .. 6

ElfFile(e) ==
  /\ e.fails \subseteq Tests
  /\ e.segments \in Seq(ProgramHeader)
  /\ \A s \in DOMAIN e.segments : e.segments[s].filesz <= e.segments[s].memsz

ASSUME LoaderAssumption ==
  /\ BlockBytes \in Nat \ {0} /\ StateBytes \in 1 .. BlockBytes
  /\ StackBlocks \in Nat \ {0} /\ TopPage \in Nat /\ TopPage >= StackBlocks
  /\ TotalBlocks \in Nat /\ Loads \in Nat
  /\ \A f \in Files : ElfFile(Image[f])

VARIABLES
  mem,          \* physical address -> byte
  free,         \* the blocks nobody has taken
  pc, file,     \* where run_elf is, and with which file
  next,         \* the program header it looks at next
  map,          \* its cr3: the pages mapped so far
  stackregion,  \* its stack's first block
  processes,    \* process -> its file and its address space
  result,       \* what run_elf returned last
  exhausted,    \* history: pmalloc has returned 0
  overrun       \* history: a segment did not fit the block it got

vars == <<mem, free, pc, file, next, map, stackregion, processes, result,
          exhausted, overrun>>

Blocks == 1 .. TotalBlocks

Addresses == 0 .. ((TotalBlocks + 1) * BlockBytes - 1)

\* Bytes: cleared, never written, byte k of segment s of file f, and byte k
\* of the first frame of a process that runs f.
Zero == <<>>
Junk == <<0>>
FileByte(f, s, k) == <<f, s, k>>
StateByte(f, k) == <<f, k>>

Segments(f) == Image[f].segments

Init ==
  /\ mem = [a \in Addresses |-> Junk]
  /\ free = Blocks
  /\ pc = "idle" /\ file \in Files /\ next = 1
  /\ map = <<>> /\ stackregion = 0
  /\ processes = <<>> /\ result = 0
  /\ exhausted = FALSE /\ overrun = FALSE

-----------------------------------------------------------------------------
(* Memory *)

\* pmalloc(n): the lowest run of n free blocks among S, or 0.
Got(n, S) ==
  LET starts == {b \in S : b .. (b + n - 1) \subseteq S}
  IN  IF starts = {} THEN 0 ELSE Min(starts)

\* Faulty variant: the blocks are not marked as used.
LeftUnmarked(n, S) == S

\* What is left of S after pmalloc(n).
Left(n, S) == IF Got(n, S) = 0 THEN S ELSE S \ (Got(n, S) .. (Got(n, S) + n - 1))

\* memset of blocks.
Cleared(m, blocks) ==
  [a \in Addresses |-> IF a \div BlockBytes \in blocks THEN Zero ELSE m[a]]

\* The k lowest blocks of S: what map_block takes for tables.
Tables(k, S) == {b \in S : Cardinality({c \in S : c < b}) < k}

\* The levels of tables below the pml4.
MaxTables == 3

\* The tables that map_block takes for n blocks just allocated: k of them.
TablesFor(n, k) == Tables(k, Left(n, free))

\* pmalloc(n), then map_block for its blocks.
TakeAndMap(n, k) ==
  /\ free' = Left(n, free) \ TablesFor(n, k)
  /\ exhausted' = (exhausted \/ Got(n, free) = 0 \/ Cardinality(TablesFor(n, k)) < k)

\* Memory once pmalloc has cleared the first block of the n, and k tables.
ClearedFor(n, k) == Cleared(mem, TablesFor(n, k) \cup ({Got(n, free)} \ {0}))

\* map_block for some pages: the map with them, in place of what they were.
Mapped(pages) ==
  [v \in DOMAIN pages \cup DOMAIN map |->
     IF v \in DOMAIN pages THEN pages[v] ELSE map[v]]

-----------------------------------------------------------------------------
(* run_elf *)

\* A test fails: its number is returned and nothing has been taken.
Reject(f) ==
  /\ pc = "idle" /\ Len(processes) < Loads
  /\ Image[f].fails # {}
  /\ file' = f /\ result' = Min(Image[f].fails)
  /\ UNCHANGED <<mem, free, pc, next, map, stackregion, processes, exhausted, overrun>>

\* newpml4
NewSpace(f) ==
  /\ pc = "idle" /\ Len(processes) < Loads
  /\ Image[f].fails = {}
  /\ file' = f /\ map' = <<>> /\ pc' = "stack"
  /\ free' = Left(1, free)
  /\ mem' = Cleared(mem, {Got(1, free)})
  /\ exhausted' = (exhausted \/ Got(1, free) = 0)
  /\ UNCHANGED <<next, stackregion, processes, result, overrun>>

\* The stack: its blocks are mapped downwards from the top page.
Stack ==
  /\ pc = "stack" /\ pc' = "segments" /\ next' = 1
  /\ stackregion' = Got(StackBlocks, free)
  /\ map' = Mapped([v \in (TopPage - StackBlocks + 1) .. TopPage |->
                      stackregion' + (TopPage - v)])
  /\ \E k \in 0 .. MaxTables :
       TakeAndMap(StackBlocks, k) /\ mem' = ClearedFor(StackBlocks, k)
  /\ UNCHANGED <<file, processes, result, overrun>>

Current == Segments(file)[next]

AtSegment == pc = "segments" /\ next <= Len(Segments(file))

\* A header that is not PT_LOAD, or an empty segment.
SkipSegment ==
  /\ AtSegment
  /\ ~Current.load \/ Current.memsz = 0
  /\ next' = next + 1
  /\ UNCHANGED <<mem, free, pc, file, map, stackregion, processes, result,
                 exhausted, overrun>>

\* ALIGNUP: the conditional takes in the whole sum.
ALIGNUP(size) == IF size # 0 THEN 1 ELSE 0

\* Faulty variant: the bytes are taken from the start of the file.
FilledFromStart(m, b, s) ==
  [a \in Addresses |->
     LET k == a - b * BlockBytes
         seg == Segments(file)[s]
     IN  IF k \in 0 .. (seg.filesz - 1) THEN FileByte(file, 1, k)
         ELSE IF k \in seg.filesz .. (seg.memsz - 1) THEN Zero
         ELSE m[a]]

\* memcpy of segment s to block b, then memset of the rest of its size.
Filled(m, b, s) ==
  [a \in Addresses |->
     LET k == a - b * BlockBytes
         seg == Segments(file)[s]
     IN  IF k \in 0 .. (seg.filesz - 1) THEN FileByte(file, s, k)
         ELSE IF k \in seg.filesz .. (seg.memsz - 1) THEN Zero
         ELSE m[a]]

LoadSegment ==
  /\ AtSegment /\ Current.load /\ Current.memsz > 0
  /\ LET n == ALIGNUP(Current.memsz)
         b == Got(n, free)
         page == Current.vaddr \div BlockBytes
     IN  /\ map' = Mapped([v \in page .. (page + n - 1) |-> b + (v - page)])
         /\ overrun' = (overrun \/ Current.memsz > n * BlockBytes)
         /\ \E k \in 0 .. MaxTables :
              TakeAndMap(n, k) /\ mem' = Filled(ClearedFor(n, k), b, next)
  /\ next' = next + 1
  /\ UNCHANGED <<pc, file, stackregion, processes, result>>

rsp == (TopPage + 1) * BlockBytes - StateBytes

\* Faulty variant: the frame is copied below where rsp points.
FrameStartBelow == stackregion * BlockBytes

\* The frame is copied to the end of the stack's physical memory.
FrameStart == (stackregion + StackBlocks) * BlockBytes - StateBytes

Frame ==
  /\ pc = "segments" /\ next > Len(Segments(file))
  /\ mem' = [a \in Addresses |->
               IF a - FrameStart \in 0 .. (StateBytes - 1)
               THEN StateByte(file, a - FrameStart) ELSE mem[a]]
  /\ pc' = "publish"
  /\ UNCHANGED <<free, file, next, map, stackregion, processes, result,
                 exhausted, overrun>>

\* processes[], processesinfo[], processnum
Publish ==
  /\ pc = "publish" /\ pc' = "idle"
  /\ processes' = Append(processes, [file |-> file, map |-> map])
  /\ result' = 0
  /\ UNCHANGED <<mem, free, file, next, map, stackregion, exhausted, overrun>>

Next ==
  \/ \E f \in Files : Reject(f) \/ NewSpace(f)
  \/ Stack \/ SkipSegment \/ LoadSegment \/ Frame \/ Publish

Spec == Init /\ [][Next]_vars

-----------------------------------------------------------------------------
(* Properties *)

\* Up to here everything that was allocated was there and large enough.
Sound == ~exhausted /\ ~overrun

Pages(seg) == {a \div BlockBytes : a \in seg.vaddr .. (seg.vaddr + seg.memsz - 1)}

StackPages == (TopPage - StackBlocks + 1) .. TopPage

\* A segment that begins at a page's start and has its pages for itself.
Alone(f, s) ==
  LET seg == Segments(f)[s]
  IN  /\ seg.load /\ seg.vaddr % BlockBytes = 0
      /\ Pages(seg) \cap StackPages = {}
      /\ \A t \in DOMAIN Segments(f) \ {s} :
           Segments(f)[t].load => Pages(seg) \cap Pages(Segments(f)[t]) = {}

\* The byte that a process finds at a virtual address.
Finds(p, addr) == mem[p.map[addr \div BlockBytes] * BlockBytes + (addr % BlockBytes)]

\* Every process finds its program in place, the bytes of the file followed
\* by zeroes, and still does after any number of other processes have been
\* loaded - as long as memory lasted and no segment was longer than a block.
ImageInPlace ==
  Sound =>
    \A n \in DOMAIN processes :
      LET p == processes[n]
      IN  \A s \in DOMAIN Segments(p.file) :
            Alone(p.file, s) =>
              LET seg == Segments(p.file)[s]
              IN  \A k \in 0 .. (seg.memsz - 1) :
                    Finds(p, seg.vaddr + k) =
                      IF k < seg.filesz THEN FileByte(p.file, s, k) ELSE Zero

\* The frame that the clock stub will pop lies where the process's rsp points.
FrameAtRsp ==
  Sound =>
    \A n \in DOMAIN processes : \A k \in 0 .. (StateBytes - 1) :
      Finds(processes[n], rsp + k) = StateByte(processes[n].file, k)

MappedBlocks(m) == {m[v] : v \in DOMAIN m}

\* No block of one process is mapped by another, nor is it free.
NothingShared ==
  Sound =>
    \A n \in DOMAIN processes :
      /\ MappedBlocks(processes[n].map) \cap free = {}
      /\ \A o \in DOMAIN processes \ {n} :
           MappedBlocks(processes[n].map) \cap MappedBlocks(processes[o].map) = {}
=============================================================================
