# KalixOS: models and proofs

TLA+ models of the KalixOS kernel (`src/kernel`), TLC configurations that check
them on small instances, and proofs that TLAPS checks. File names below are
relative to `src/kernel`, line numbers are those of the commit beside this
directory.

## 1. The system

| Component | State | Operations | Hard to test |
|---|---|---|---|
| Physical memory manager, `mem/pmm_mem.c` | bitmap `pmm_map`, `pmm_map_size` | `pmm_init`, `pmalloc`, `pfree` (`pmm_ureg`, `pmm_unreg`) | bit arithmetic at region and run ends; the bitmap lives in the memory it describes; 0 is both an address and "none" |
| Virtual memory manager, `mem/vmm_mem.c` | page tables in frames, `start_pml4` | `vmm_init`, `newpml4`, `map_block` | tables shared or stale after a sequence of mappings; allocation failing in mid-walk |
| Process loader, `tasks/tasks.c` `run_elf` | the process's memory, `processes[]`, `processesinfo[]`, `processnum` | load an ELF image, publish it | the timer strikes between the writes that publish; sizes and offsets of segments and frame |
| Scheduler, `clock_handler`, `kernelasm.asm` | `process`, `ticks`, cr3 | dispatch at every timer interrupt | wrap of the round robin, layout of the frame, EOI |
| Interrupts and panic, `drivers/interrupts.c` | IDT, PICs, `panicked` | handlers, `pic_ack`, `except` | nesting, missing EOI, vectors without a gate, a panic anywhere |
| Interrupt stubs, `kernelasm.asm` | registers and stack | push, call, pop, `iretq` | pushes, pops, error codes and arguments must match |
| Boot flow, `kernel.c` `_start` | - | brings everything up, loads one process, idles | interrupts are on from `install_idt`, before the rest is ready |
| Mouse driver, `drivers/mouse.c` | packet assembly, pointer | `init_mouse`, `_mouse_int` | polling a port whose interrupts are on; timeouts; packet alignment |
| Keyboard driver and typed line, `drivers/keyboard.c`, `kernel.c` | modifiers, `xytest` | `_keyboard_int`, `keyboard_int` | lost scan codes, late handling, `_start` printing into the same row |
| Slab allocator, `mem/pmm_mem.c:67-95` | a list through the free objects, a count in each page, `slabH` | `spmalloc`, `spfree` | a long sequence of calls in any order; the count is looked for at a 1 KiB boundary |
| Console, `drivers/vga.c` | framebuffer | `printc`, `prints`, `printsl`, `pixel` | rows written by `_start`, a handler and a panic at once |
| RAM disk, `disk/ramdisk.c` | `ramdisk`, `ramdiskblocks`, the sectors | init, deinit, read, write | wrap of `start + count`, sizes rounded to blocks, refused memory |
| FAT32, `disk/fat32.c` | `BRec`, a buffer per look-up | `fat32init`, `locateFileCl` | a pointer into a stack frame that is gone; buffers not given back |
| Utilities, `misc/utils.c` | - | copying, comparing, number formatting | the edges of the number formats |
| GDT, debugging page, bootloader interface | - | - | none |

How they interact. There is one processor and no lock. `_start` calls the
memory managers, then `install_idt`, which enables interrupts; from there on
`init_mouse` and `run_elf` run with every handler able to interrupt them. All
gates are interrupt gates, so handlers never nest and each is atomic to
everybody else. No handler allocates memory, so calls of the memory managers do
not interleave. `_start` and the clock handler share `processes[]`,
`processesinfo[]` and `processnum`; `init_mouse` and the two input handlers
share port 0x60; `_start` and the keyboard handler share the top row of the
screen. The first dispatch abandons `_start`: the clock handler never saves the
context it interrupted, and every dispatch starts a process from its first
frame again (README.md:14 leaves "Preemptive multitasker" unchecked).

What makes each part correct:
memory is given to one owner at a time and only if it is RAM and not the bitmap;
page tables form a forest and implement independent address spaces that all see
the kernel; a process finds its program in place and keeps it; only finished
processes are dispatched, each in its turn; every interrupt is acknowledged and
gives the context it interrupted its registers back; a panic is final and can be
read; `init_mouse` ends and the pointer follows the mouse; the rows show what was
typed and printed; what is written to an object or a sector stays there.

## 2. The modules

| Module | Models | Notes |
|---|---|---|
| `PMM` | `pmm_init`, `pmalloc`, `pfree` | `pmalloc`'s loop one bit per step |
| `BlockAllocator` | what an allocator promises | abstract; `PMM` implements it |
| `VMM` | `newpml4`, `map_block`, `get_alloc_next` | one table level per step |
| `AddressSpaces` | what address spaces promise | abstract; `VMM` implements it |
| `Loader` | `run_elf`'s memory image | byte by byte, uses the promises of the two above |
| `Stubs` | `kernelasm.asm` | an instruction is an operator on registers and stack |
| `Kernel` | `_start`, publication, clock handler, IDT, PICs, handlers, system call, panic | `_start` cut where a handler can see a difference; uses `Stubs` |
| `Mouse` | `init_mouse`, `_mouse_int`, `mouse_int`, the PS/2 controller | handlers race the poll for each byte |
| `Console` | `printc`, `prints`, `printsl` | operators on a grid of characters |
| `Utils` | `strcmp`, `uitoa`, `reverse` | recursive functions |
| `Keyboard` | `_keyboard_int`, `keyboard_int`, what `_start` and a page fault print | from keys to the screen; uses `Console`, `Utils` |
| `Slab` | `spmalloc`, `spfree` | word by word |
| `ChunkPool` | what a lender of memory promises, whatever the sizes asked for | abstract; `Slab` implements it until a count strays |
| `RamDisk` | `ramdisk.c` and other callers of `pmalloc` | sector by sector |
| `FAT32` | `fat32init`, `locateFileCl` on the RAM disk | extends `RamDisk`; uses `Utils` |
| `SectorStore` | what a disk promises | abstract; `FAT32` with `RamDisk` implements it while nothing is shared and nothing wraps |
| `PMMProofs`, `VMMProofs`, `LoaderProofs`, `KernelProofs`, `MouseProofs`, `KeyboardProofs`, `SlabProofs` | theorems about the module they are named after | TLAPS, section 5 |
| `DiskProofs` | theorems about `RamDisk` and `FAT32` | TLAPS, section 5 |
| `MC*` | small instances of the above | sets of inputs and bounds for TLC |

A definition whose comment says "Faulty variant" is a plausible mistake in the
definition after it. Nothing uses it; putting it in place of its neighbour must
make one property fail, which shows that the property is about the code.

### PMM

`pmm_map` is the set of blocks whose bit is 1. `RegionBits(block, blocks)` are
the bits that `pmm_ureg` and `pmm_unreg` touch: as in the code, the byte moves
with the block while the bit within it stays `block % 8`. `pmm_init` is the
initial predicate, including `memmap[entries]` (`PastEnd`) and the comparison of
the virtual `pmm_map` with physical addresses. `Pmalloc`, `ScanUsed`,
`ScanFree`, `ScanHit`, `ScanMiss` are `pmalloc` (call, the three cases of the
loop body, the end). `held` and `lost` are history: the runs callers hold, and
whether one was given the memory of the bitmap. `ScanHit` clears the block it
returns even if the bitmap is in it, and `CallerOverwrites` writes there
(all zeroes or all ones stand for everything a caller may write). Nothing is
promised once `lost`.

Left out: the bytes behind the bitmap (`pmm_init` rounds its size down and may
write past it when memory is no multiple of 32 KiB) and `ramb`.

### VMM

A virtual page is its four table indices; `mem[f]` is frame `f` read as a
table. `map_block`, `NextPresent`, `NextAllocated`, `SetLeaf` are the call, the
two cases of `get_alloc_next`, and the last write. Allocation is `pmalloc(1)` as
`PMM` shows it, with an intact bitmap: the lowest free frame, cleared, or 0.
Flags and the TLB are left out. `exhausted` is history: an allocation returned
0. The code goes on to use address 0 as a table then; nothing is promised any
more. The refinement maps `trans` of `AddressSpaces` to the processor's walk and
shows it the request: `call` keeps the `pt`, `virt` and `phys` that `map_block` was
called with, so that the abstract `Map` has to map that page of that space to that
frame, and an entry written at another index or in another table is no step of it.

### Loader

`Reject`, `NewSpace`, `Stack`, `SkipSegment`, `LoadSegment`, `Frame`, `Publish`
are `run_elf` in order. A byte is named by where it comes from, so that a wrong
offset or place shows. `ALIGNUP` is 1 for every size, as its precedence makes
it. `overrun` and `exhausted` are history: a segment longer than its block was
copied, memory ran out. The model keeps going after both, the properties do not.
The loader writes with and without `hhdm`; both reach the same memory
(the bootloader maps low memory one to one), which is assumed.

### Kernel

`pc` is where `_start` is, `regs` the registers of whoever runs; `Build` are the
steps of `run_elf` up to the first frame, `SetEntry`, `SetInfo`, `Count` the
three writes that publish. `irr` and
`isr` are the requests and the services of the two 8259As; `Accept` is the
processor taking a line, `AcceptUnhandled` a vector without a gate, which
becomes a double fault and a panic. `ClockIdle` and `ClockSwitch` are
`clock_handler` with its stub, `Fault` the exceptions of a process, `except` the
panic. `FrameFields` is `struct ProcessState`, `PopOrder` what the stub pops.
`SystemCall` is int 128 from a process that has loaded its registers. The
processes' own instructions, other than these and faults, are left out, and what
a system call prints.

`Stubs` names a value by the register or field it came from: `push_all`,
`pop_all`, `iretq` and the call in between are functions on a machine of
registers and a stack, so that a register that comes back in another's place, an
error code left on the stack or an argument in the wrong register shows. The
stubs of vectors with an error code pop it into `rsi` and so lose the
interrupted `rsi`; none of them returns, which is why nothing follows from it.

### Mouse

`Script` is `init_mouse`, one operation per step; `Read` is `mouse_read` with
its poll: it ends when a byte is ready or when the polls run out, and takes what
the register holds, new or old. `Transfer`, `KeyPress`, `MouseMoves` are the
controller and the devices, reduced to what the driver relies on; they and mouse
commands that get no answer are external. `FlagsByte`, `XByte`, `YByte` are the
cases of `_mouse_int`, `mouse_int` and `pixel` what a packet draws. History:
`original`, `disturbed` (a key before the configuration was read), `settled`
(everything was quiet once, after the warm-up and between packets), `wx`, `wy`
(where the packets sent since put the pointer), `wdrawn` (the pixel they draw).
Assumed of the hardware: the register keeps its last byte, a pending interrupt
stays pending when its byte is read, and the controller takes commands and
answers for itself within the 100000 polls.

### Keyboard

`codes` are scan codes on their way; `_keyboard_int` handles one, `Steal` is
`init_mouse` reading one away, `PrintChar` is one round of `printsl`'s or
`prints`'s loop in `_start`, which prints its message and, after `run_elf`, the
result code and the module's bytes (`jobs`). `PageFault` is the page fault's
branch of `interrupt_handler` with the panic behind it: error code, address,
message and reason, each over what the rows showed. The user's side (`Press`,
`Repeat`, `Release`, `down`, `capsOn`, `line`) is history that the properties
compare the driver with. Escape and enter have the codes 0xFF and 0xFD; `char`
is signed, they pass the test `keyboardc < 0x7f` (`interrupts.c:115`), and
`printc` indexes the font with a negative number: the cell shows `Junk`.

`Console` wraps where the code does: at `fb_width`, which is in pixels, while
columns are characters (`vga.c:60`). A line is cut off at the screen's edge, and
the character at which it wraps is dropped. Left out of the screen: the debug
lines of `run_elf` and the clock handler (rows 4, 7 to 9 and 15), what a system
call prints, and the mouse's pixels over text.

`TextsAssumption` says what the strings are: the panic's two are one line each,
none is longer than `fb_width` (a longer one loses the character at which it
wraps), and a number's digits fit a row. `Height >= 4` gives each of the four
strings of a page fault a row of the screen. The kernel's strings and a screen of
at least 16 columns meet both; for the module's bytes it is a restriction.

### Slab

Memory is words; `mem` holds the counts and the links where the code puts them.
`spmallocNew` and `spmallocPop` are the two branches of `spmalloc`, `spfreeLast`
and `spfreePush` those of `spfree`; holders write into their objects and other
callers take pages and fill them. `ALIGN` rounds to 1 KiB: from the seventeenth
object of a page on, another object's word is taken for the count. The model
does that too and records it in `strayed`; the properties speak of the states
before. One of the consequences is that a page is given back while an object in
it is held. The page's last object always strays (`SlabAssumption`: it begins
after the first granule, word 497 of 512 in the code), so before a count has
strayed the list cannot run empty and the slab has one page at most.

The refinement shows `ChunkPool` two kinds of chunk, the objects that are held and
the pages that other callers have, each with what memory holds there (`Lent`, read
from `mem`, not from the ghost `held`). `spmalloc` and `pmalloc` lend, `spfree` and
`pfree` return, holders write; a step that lends a chunk must leave every word of
the others as it is, and the new one must share none with them. Once the slab is
not `Sound` the pool is `lost`. Other callers fill a page when they take it and do
not write to it later, which is why `ChunkPool`'s writes are the objects' only.

### RamDisk and FAT32

`rdiskinit`, `rdiskdeinit`, `rdiskread`, `rdiskwrite` are the functions; others
take runs of blocks from the same bitmap and fill them. `uint32_t` is modelled by
remainders: `CountMod` for `start + count`, `SpanMod` for the byte counts. An
access over the limit panics. `fat32init` and `locateFileCl` with its rounds
(`RoundOver`, `RoundMiss`, `RoundHit`) run on that disk. `Decay` is what others
do to the stack frame that `BRec` still points into. `shared`, `wrapped` and
`decayed` are history: memory had two owners (the bitmap's fault, see `PMM`), or
the disk or what `fat32init` and a round of a look-up fill was not the disk's
memory or the look-up's buffer; an access of more than a `uint32_t` counts passed
the test; the boot record is gone. Nothing is promised after these (of `decayed`:
no answer is); how they come about is in the model.

The refinement shows `SectorStore` the disk as its users read it (`DiskContent`,
from `mem`). `rdiskinit` and `rdiskdeinit` format, `rdiskwrite` writes exactly what
it is given; reading, a look-up, `fat32init` and whatever the other callers of
`pmalloc` do must change nothing, or the disk is `lost`. Two ghosts exist for the
refinement only. `formats` counts the calls of `rdiskinit` and `rdiskdeinit`: a new
disk may have any content, and without the count a change of the content by any
other step would pass as a new disk of the same size. `refused` is the access that
panicked, as its caller asked for it: the store accepts a panic only with an access
that ends behind the last sector, so that a limit that is too low is no step of it.
That every read behind the disk is refused is not said by the store, which has no
answers to reads; the limit is one test for reads and writes, and a write that it
lets through has to end on the disk.

## 3. The runs

| Run | Question | Instance | Result |
|---|---|---|---|
| `pmm` | is `pmalloc`'s search right? | three memory maps of 40 blocks, requests of 1 to 3, states with more than 2 runs held not continued | pass |
| `pmm_single` | with the requests the kernel makes, is what is held marked and usable, and does the bitmap implement an allocator? | the same maps, requests of 1, 4 runs | pass |
| `pmm_multi` | are two runs disjoint? | requests of 1 and 2 | violated: `pmm_mem.c:10` |
| `vmm` | do the tables implement address spaces? | two-entry tables, 9 frames, 2 spaces, 2 data frames, 4 pages that share every combination of levels, clear and dirty memory | pass |
| `loader` | is each program in place and alone, with its frame at `rsp`? | blocks of 3 bytes, 14 blocks, 6 files, 2 processes | pass |
| `kernel` | do interrupts, stubs, loading, scheduling and panic agree? | lines 0, 1, 12, 14; 2 processes | pass |
| `kernel_entry` | does a process start at its entry point? | lines 0, 1; 1 process | violated: `tasks.c:84` |
| `kernel_panic` | does a key restart after a panic? | lines 0, 1; 1 process, with fairness | violated: `interrupts.c:78` |
| `mouse` | does initialisation survive the race, do pointer and pixels follow? | screen 2 by 2 in rows of 3, warm-up of 1 tick, keyboard interrupt on and off, 3 packets | pass |
| `keyboard` | do the rows show what was typed, printed and reported? | 5 keys, 2 codes on their way, 2 characters, a screen of 2 by 5 characters | pass |
| `slab` | do list, counts and pages agree with what is held, and do they implement a pool of chunks? | 2 pages of 12 words, 5 objects each, of which 3 keep their count | pass |
| `disk` | do sectors, others' memory and look-ups survive each other, and do they implement a store of sectors? | 4 blocks of 4 sectors, 2 of them usable, disks of 1, 4, 5 and 8 sectors, directories of two sectors, states after more than 4 calls of `rdiskinit` and `rdiskdeinit` not continued | pass |

Why the bounds are enough. The maps of `pmm` have bits that cross bytes, regions
that end inside a byte, a bitmap of five bytes over several blocks, and gaps of
every length requested; two held runs are what disjointness needs, and each
state beyond the bound is still checked. Two-entry tables have one user and one
kernel half; the four pages share three, two, one and no lower levels; nine
frames are enough for two spaces with their tables and data, so both outcomes of
every allocation occur. Two processes show the wrap of the round robin and the
loading of one while another could run (the kernel itself loads one). Lines 0,
1, 12 and 14 are one of each kind: timer, keyboard, a mouse vector of the second
controller, and a line without a gate; the others differ in their number only (9
has the same handler as 12). In `loader` the files have every kind of segment,
and memory is short enough to run out at each allocation. In `mouse` each packet
moves the pointer against an edge or is discarded; movements of more than 128 to
the left or down, whose sign the cast to `int8_t` loses (`mouse.c:94`), are left
out: with one, `PointerFollowsMouse` fails. In `keyboard`, enter is the negative
character, the message is longer than the screen and wraps, the module's bytes
have a line break, the result has one digit or two, and states after a lost
code, an overprinted line or a page fault are checked and not continued. In
`slab` three objects of the page can be held before a count strays, in every
order, and either page can be the slab's while the other one is free or another
caller's. In `disk` the counts are small enough for `start + count` and the byte
counts to wrap, and other callers take one block or two, at most two blocks
together; a boot record that decays during a look-up is followed to the look-up's
end, one that decays outside is not.

Deadlock is checked except in `kernel` and its two violation runs (a panic stops
the machine), `loader` (the number of processes is bounded), `disk` (an access
over the limit panics, which stops the machine) and `mouse` (with the keyboard's
interrupt off, a key byte stays in the register for good).

Fairness. `Kernel`: `_start` and the handlers run on (one processor, which does
nothing else), the timer ticks (it is programmed to 10 kHz), and a line that is
deliverable again and again is taken (strong fairness, because higher lines and
closed interrupt windows disable it in between). Nothing is assumed of other
devices or of processes. `KeysAreHandled` is conditional on the clock handler
leaving gaps between ticks, without which IRQ 0 starves all others, and both
liveness properties except a processor that has stopped listening: a panic, a
process whose flags keep interrupts off, `_start` without a framebuffer.
`Mouse`: `_start` runs on, the controller passes bytes on and pending interrupts
are served.

## 4. What disagrees with the repository's own words

1. `pmm_ureg` (comment "use region", `mem/pmm_mem.c:9`) uses bit `block % 8` for
   every block of a run: a second block is never marked, and `pmm_multi` shows it
   given away twice. `pmm_unreg` does the same. The kernel asks for one block at
   a time, where both are right.
2. `run_elf` writes a frame with `intno` and `ec` (`tasks/tasks.h:14`), the clock
   stub pops neither: a process starts at a field nobody set (`kernel_entry`),
   while `tasks/tasks.c:33` says "runs elf".
3. "PRESS ANY KEY TO RESTART" (`drivers/interrupts.c:74`) is followed by a `hlt`
   loop with interrupts off (`kernel_panic`).

Seen while modelling, followed by the models where they reach it, and not the
subject of a run:

- `pmm_unreg` frees blocks beside the regions of the memory map that do not begin
  and end at multiples of eight blocks (`pmm_mem.c:12`; the map `Misaligned`).
- `pmm_init` compares the bitmap's virtual address with physical regions
  (`pmm_mem.c:61`): the bitmap's own memory is free memory (`lost` in `PMM`).
- `run_elf`: the result codes 1 and 2 are swapped against the names in
  `tasks/tasks.h:5`; `ALIGNUP` is 1 for every size; segments that begin inside a
  page are copied to its start; the frame and `rsp` agree for a stack of one
  block only, because the blocks are mapped downwards.
- Interrupts: the page fault's address is formatted into physical page 0 by way
  of `hhdm`; vector 4 prints the interrupted `rsi` as an error code; case 13 of
  `interrupt_handler` has no gate.
- Slab: the count strays from the seventeenth object on, and with `pmalloc`'s
  refusal the slab is laid out at address 0.
- RAM disk: the size is rounded down to blocks (`disk/ramdisk.c:6`) and a refusal
  is not looked at, so that sectors within the limit lie outside the disk's
  memory; `start + count` wraps.
- FAT32: a name is found only if the entry's attributes are 0; the end of the
  path is looked for at the wrong place from the second name on; directories are
  read from `cluster * secpercl` without the data region's start; the FAT is
  written to the fixed address 0x12345678; a look-up that fails keeps its buffer,
  one that was refused a buffer and succeeds frees block 0.
- The pointer may stand one past the right or lower edge; `pixel` draws nothing
  there.

## 5. The proofs

`PMMProofs` proves, for every geometry, memory map, request size and content
behind the map, under the assumptions named in `PMM` (sizes are positive, the
first block of memory is not reported usable):

- `TypeCorrect`: `[]TypeOK`. The search never leaves the bitmap.
- `SearchCorrect`: `[]LoopInv`, pmalloc's loop invariant.
- `RefusalCorrect`: `RefusedOnlyWhenFull`, from the loop invariant at the exit.
- `ZeroIsRefusalCorrect`: `[]ZeroIsRefusal`.

and, with `Requests = {1}`, what the kernel uses,

- `HeldIsMarkedCorrect`: `[]HeldIsMarked`.
- `HeldIsUsableCorrect`: `[]HeldIsUsable`, for every memory map.
- `Refinement`: `Spec => Blocks!Spec`, the bitmap implements `BlockAllocator`.

The argument. `LoopInv` is inductive together with `TypeOK`: the map does not
change during a search, `ScanUsed` starts the run again at a used bit, which no
run can contain, and `ScanFree` extends it. Bit 0 needs an argument of its own:
it is never cleared, because a region or run that does not begin in block 0
touches only bits that are congruent to its first block or lie in later bytes,
and block 0 is never free for a run to start there; that is the strengthening
used for `ZeroIsRefusal`. For single blocks `RegionBits` is exactly the block,
which is lemma and assumption of the last three theorems; without it
`HeldIsMarked` is false (run `pmm_multi`). `HeldIsUsable` needs
to know of the free blocks what it says of the held ones (`UsableInv`): at boot,
that `pmm_unreg` clears only bits of its region. For a region that satisfies
`StaysInside` a cleared bit lies between the region's first block and its last,
whatever the alignment of either; a search then takes a free block, and `pfree`
of one block gives back the same one. The refinement maps every search step to a stutter,
`ScanHit` to `Allocate`, `Pfree` to `Release`, and whatever destroys the bitmap
to `LoseBooks`.

`KernelProofs` proves, for every number of processes, size of the tables and set
of interrupt lines that includes the timer and the keyboard, under
`LoadsAssumption` (the processes loaded fit into the tables, which the code does
not test):

- `TypeCorrect`: `[]TypeOK`. No table is indexed outside its bounds.
- `NothingLeftInServiceCorrect`: `[]NothingLeftInService`.
- `DispatchedIsFinishedCorrect`: `[]DispatchedIsFinished`.
- `PanicIsFinalCorrect`: `PanicIsFinal`, on every step.
- `RegistersAreKeptCorrect`: `[]RegistersAreKept`.
- `ArgumentsArriveCorrect`: `[]ArgumentsArrive`.

The argument. None of these is inductive by itself. `ServiceInv` says what is in
service while a handler runs: its line, and line 2 of the first controller if
the line is the second one's; each `pic_ack` is shown to end exactly that
(`TimerEnds`, `KeyboardEnds`, `MouseEnds`). `RunInv` ties the scheduler's index,
cr3 and the context together: `_start` runs only while nothing has been
dispatched, because it is never returned to. `LoadInv` says how far `run_elf` is
with the process after the last one counted, so that the counter, raised last,
only ever covers entries that are written; `FinishedInv` keeps this for what has
been counted and for what has been dispatched, which a panic separates, since it
resets the counter. The four together with `TypeOK` are `IInv`; there is one
lemma for each kind of step.

The last two are about `Stubs`. `pop_all` pops in the reverse order of
`push_all`, and so does `iretq` of what the interrupt pushed (`OrdersAre`,
`ReturnOrdersAre`); what is popped so is what was pushed (`PopPushed`), whatever
the registers hold in between (`InterruptUndone`). Hence each stub gives back the
whole file of registers (`StubsUndone`), the clock's the one it built for the
process. `RegistersAreKept` is then inductive, with `RegsInv`, that the registers
are a file, and with `IInv`, which says who runs. `ArgumentsArrive` is what the
stubs do to a file of registers (`StubArguments`).

`VMMProofs` proves, for tables of every size, any set of frames and user pages
and whatever memory held before,

- `TypeCorrect`: `[]TypeOK`, with or without memory.
- `TablesFormForestCorrect`: `[]TablesFormForest`.
- `KernelHalfSharedCorrect`: `[]KernelHalfShared`.
- `Refinement`: `Spec => RefinesAddressSpaces`.

The argument. Every frame has a rank: 5 free, 4 to 1 a table of that level, 0
process memory. The invariant says that entries lead from a rank to the next
one, that no two entries lead to the same table, and that the walk of `map_block`
stands at a table on the way of the space it was called for. A table that is
allocated is cleared, so the processor's walks are unchanged until `SetLeaf` writes
the last entry. No two pages share it (`WalksApart`), and it is the entry of the
page and the space of the call: the page translates to the frame of the call
afterwards, and every other page as before (`LeafTranslation`). The levels of the
walk leave the request alone (`WalkKeepsRequest`) and are stutters of
`AddressSpaces`. `IdleAssumption` says that no call of `map_block` is mistaken for
`Idle`.

`LoaderProofs` proves, for blocks of any size, any memory, any files and any
number of processes,

- `NothingSharedCorrect`: `[]NothingShared`.
- `ImageInPlaceCorrect`: `[]ImageInPlace`.
- `FrameAtRspCorrect`: `[]FrameAtRsp`, under `StackIsOwn`: the stack is one block,
  as `_start` asks for, and no file has a segment in its page. Without it the
  theorem is false.

The argument. The properties speak of published processes, and what becomes one
is put together over many steps. `ApartInv` gives the unfinished map its own
blocks (`Mine`), apart from the free ones and from every process's. `Untouched`
then shows that a step writes to free blocks, and `Frame` to the unfinished
stack, and to nothing else; so a segment or a frame that is in place in any other
block stays (`HoldsStill`, `FramedStill`). `ContentInv` and `FrameInv` carry what
the unfinished process has in place so far to the moment it is published. All
this holds while nothing ran out and every segment fitted its block, which is
what the properties say.

`MouseProofs` proves, for every screen, warm-up, configuration and set of packets,

- `TypeCorrect`: `[]TypeOK`; the pointer stays on the screen or its edge.
- `ConfigKeptCorrect`: `[]ConfigKept`.
- `PointerFollowsMouseCorrect`, `PixelsFollowMouseCorrect`: the two properties,
  under `PacketsAreShort` (bit 3 is set, no movement left or down exceeds 128).

The argument. While `init_mouse` runs, the invariant follows its script: which
bytes may be in the register or on their way at each step, and whose they are, so
that the byte the poll ends with is the controller's answer whoever read it. For
the pointer, `FollowInv` compares the bytes still on their way with what the
packets sent will make of the pointer: they are a whole number of packets behind
what `_mouse_int` has put together (`InStep`), unless the interrupt of the
keyboard is off and one of its bytes blocks the register for good (`Stuck`).

`KeyboardProofs` proves, for every set of keys, any number of codes on their way
and a screen of any size,

- `ModifiersAreHeldCorrect`: `[]ModifiersAreHeld`.
- `TypedIsShownCorrect`: `[]TypedIsShown`.
- `uitoaCorrect`: for every number and every base from 2 to 32, `uitoa` writes
  digits, at least one, that denote the number.
- `TypeCorrect`: `[]TypeOK`.
- `PanicIsShownCorrect`: `[]PanicIsShown`.
- `PrintedStaysCorrect`: `[]PrintedStays`.
- `printsCorrect`: `prints`, for every string whose lines fit, puts every character
  where `InPlace` wants it and leaves every other cell alone.

The argument for the first two. The driver is behind the user while codes are on their way. The
strengthening is a history that leads from where the driver is to where the user
is, one state of modifiers and line per code; a key that is struck adds to its
end, the handler takes its beginning away, and with no codes left both ends meet.

For the others. `uitoa` is recursive functions; that there are such functions
(`Recursion`) and that theirs are the right values (`LowDigitsIs`, `DenotedUpto`)
is shown by the least number for which it fails, from the library's `WFMin`.
`ScreenInv` has the types of the screen and of what is still to be printed; with
it a round of `prints` or `printsl` changes one cell, and a whole call, by its
characters, one row (`PrintsRow`). A page fault writes four rows, each over what
the earlier ones left, and each row reads as its string because the four are
different (`PanicRowsIs`). `PrintInv` follows `_start` through the result: the
first n digits, or all of them and the first n characters of the module's text,
are in place, and what is still to be printed is the rest, at the column and row
where character n + 1 belongs (`NextPlace`: breaks move it as the loop does). No
later character is drawn where an earlier one is (`PlacesDiffer`), and the
keyboard handler draws in the top row, which is none of theirs (`TopRowApart`).
`printsCorrect` is about `Console` by itself: the screen after n rounds is said in
full (`TextShows`: the character that belongs in a cell, of which there is one at
most, or what was there), each round is shown to lead from one to the next
(`TextRound`), and `prints` is then the last by the least round that differs. It
covers strings with line breaks and of any length, from the left edge on, where
all that the kernel prints at run time begins.

`SlabProofs` proves, for pages, granules and objects of any size, any pages and
whatever holders write,

- `FreeIsListedCorrect`: `[]FreeIsListed`.
- `PagesAccountedCorrect`: `[]PagesAccounted`.
- `ContentKeptCorrect`: `[]ContentKept`.
- `PoolRefinement`: `Spec => RefinesPool`, `Slab` implements `ChunkPool`.

The argument. `Link` follows the links, which says nothing of a list that might
be a cycle. The strengthening has the list in hand: a numbering of n different
free objects, each linked to the next, the head first and the page's last object
at the end, n in the count and every other object held (`Numbers`). `spmalloc`
drops the first number, `spfree` adds one in front; neither can reach the last
object's end without `ALIGN` straying there, so `OneInUse` or `NoneInUse` holds in
every sound state and `spfree` never takes one page's count for another's.
`Link` is then the numbering, followed by 0 (`LinkOfOne`).

For the refinement, the strengthening places what is held in one usable page that
is neither free nor another caller's (`Placed`), so chunks share no word
(`ChunksApart`). Each step of the slab writes to that page only, or to the free one
it lays out (`OnlyIn`): the other callers' pages stay (`PagesKept`), and an object
that stays held is, before and after, what its holder left there (`ObjectKept`, from
`HeldInv` on both sides). A new chunk begins in a page where nothing of another's is
(`NoPage`, `NoObject`); a step after which the slab is not sound is `Lose`, and such
a slab does not become sound again (`SoundBefore`).

`DiskProofs` proves, for any memory, disks, writes, paths and boot records,

- `SectorsKeptCorrect`: `[]SectorsKept`.
- `OthersKeptCorrect`: `[]OthersKept`.
- `BufferReturnedCorrect`: `[]BufferReturned`.
- `LocateFindsCorrect`: `[]LocateFinds`.
- `StoreRefinement`: `Spec => RefinesStore`, the disk implements `SectorStore`.

The argument. The disk, the other callers and what a look-up or `fat32init`
fills are apart (`Apart`); an access that passes the limit and does not wrap stays
on the disk (`Within`), so each step writes to one owner's sectors (`Kept`).
`Legible` says what a look-up needs of what it reads: numbers in the boot record,
entries in a directory. The first two theorems follow. For the third, `BufferHeld`
remembers the bitmap as it was before the look-up and the buffer's bit in it. For
the last, `strcmp` is shown to be 0 exactly for the name with attributes 0
(`HitIs`), the sectors read are the ones last written (`RootIsRead`), so that the
round answers with `FirstHit` of the root's entries (`Rooted`); a second round has
left the root, and a path of one name has none.

For the refinement, what memory holds in the disk's sectors is followed over every
step: a step that leaves these sectors alone (`DiskUntouched`) shows the store the
content it had (`StoreFrame`), and `rdiskwrite` changes them by what it was given
(`WriteEffect`), which is within the store's size because the test for the end did
not wrap. Each of the six accesses that can panic, `rdiskread`, `rdiskwrite`, the
three of `fat32init` in their order and that of a round, sets `refused` to itself,
and since a remainder is no greater than the number, what is over the limit ends
behind the disk (`OverIsBehind`, `RefusedStep`). Only `rdiskinit` and `rdiskdeinit`
change `formats` (`FormatSteps`), so no other step can be a new disk. `StoreInv`
adds to `IInv` that `panicked` is a truth value, for the store's `stopped`.

What the attempts found. The test for an access that wraps missed a count of
exactly `SpanMod` sectors from the first one on: the byte count wraps to 0.
A look-up whose boot record decays to a larger `secpercl` fills more than the
buffer it was given (`FillSectors`), which the runs had not followed. A disk that
was refused its blocks and is larger than memory reaches behind it
(`Overlap`). And the slab has never more than one page before a count strays: the
runs' `InUse` has at most one element, which nobody had said.

`SectorsKept` and `ContentKept` say with the ghosts `written` and `held` what
`RefinesStore` and `RefinesPool` say with the abstract modules' content; they are
theorems, and steps of the proofs of the refinements, and no run checks them beside
the refinements.

Only model-checked: liveness (`ProcessesTakeTurns`, `KeysAreHandled`,
`PortIsServed`, `InitEnds`), since the prover handles neither fairness nor
ENABLED. Every invariant of a passing run is stated by a theorem. The theorems
have the conditions of the runs: `HeldIsMarked`, `HeldIsUsable` and the refinement
of `BlockAllocator` are proved for requests of one block, as run `pmm_single`
checks them; `FrameAtRsp` for a stack of one block; the pointer's two for
short packets. `strcmp`, `uitoa`, `Denoted`, `Link` and the entries of a directory
are recursive functions, about which a proof by least counterexample says what
the library's induction theorems would; no module uses a RECURSIVE operator.

## 6. Not modelled

- `pagecontent` and `showpage` (`mem/pmm_mem.c:97-142`): nothing calls them, they
  only print (`showpage` takes 100 blocks and gives back 4).
- `itoa`, `strlen`, `strcpy`, `strcat`, `min`, `max`, `clear`, `rectangle`:
  nothing calls them.
- `getVolumeLabel` copies eleven bytes; `listDir` is commented out.
- Fonts and colours; the mouse's pixels over text.
- `drivers/gdt.c` (it defines nothing), the bootloader and its structures other than
  the memory map, `stivale2.h`, the build files.
- Port writes are modelled by what the device does with them, `reboot` by the
  flag `rebooted`.

## 7. Plan

1. Done: every component with behaviour at run time has a module; every
   invariant of a passing run has a theorem.
2. Done: every component that keeps memory or data for others implements an
   abstract specification (`BlockAllocator`, `AddressSpaces`, `ChunkPool`,
   `SectorStore`).
3. Open: strings that begin right of the left edge (`printsCorrect` is from column 0
   on), and liveness, which stays with TLC.
