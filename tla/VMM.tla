-------------------------------- MODULE VMM --------------------------------
(***************************************************************************)
(* The virtual memory manager, kernel/mem/vmm_mem.c: four-level page       *)
(* tables built in frames that pmalloc hands out.  newpml4 makes an        *)
(* address space whose upper half is copied from the bootloader's tables,  *)
(* map_block walks three levels, allocating what is missing, and writes    *)
(* the fourth.                                                             *)
(*                                                                         *)
(* A virtual page is the four indices that getidx takes out of its         *)
(* address.  pmalloc is the first-fit allocator of module PMM restricted   *)
(* to single blocks: the lowest free frame, cleared, or 0 when there is    *)
(* none; 0 is frame 0 to everyone who goes on to use it.  A page table     *)
(* entry is a frame or Absent; the flags are left out.                     *)
(***************************************************************************)
EXTENDS Integers, FiniteSets

CONSTANTS
  Entries,      \* entries in a table (512)
  Frames,       \* the frames pmalloc can hand out
  BootFrames,   \* frames of the bootloader's tables, outside the allocator
  UserPages,    \* the virtual pages callers map, all in the lower half
  Garbage,      \* what a frame may hold before it is cleared
  Absent,       \* a table entry without the present bit
  Idle          \* no map_block in progress

Index == 0 .. (Entries - 1)

\* The upper half of a top-level table: base_pml4 + 256.
KernelIndex == {x \in Index : 2 * x >= Entries}

AllFrames == Frames \cup BootFrames \cup {0}

Tables == [Index -> AllFrames \cup {Absent}]

Page == [1 .. 4 -> Index]

ASSUME FramesAssumption ==
  /\ Entries \in Nat \ {0, 1}
  /\ Frames \subseteq Nat \ {0} /\ IsFiniteSet(Frames)
  /\ BootFrames \subseteq Nat \ {0} /\ BootFrames \cap Frames = {}
  /\ Absent \notin AllFrames

ASSUME PagesAssumption ==
  /\ UserPages \subseteq {v \in Page : v[4] \notin KernelIndex}
  /\ Garbage \subseteq [Index -> Frames \cup {0, Absent}]

ASSUME IdleAssumption ==
  Idle \notin [space : AllFrames, cur : AllFrames, level : 1 .. 4,
               virt : Page, phys : AllFrames]

VARIABLES
  start_pml4,   \* the upper half of the bootloader's top-level table
  mem,          \* frame -> its contents read as a table
  free,         \* the frames nobody owns
  spaces,       \* the address spaces that newpml4 returned
  data,         \* frames handed out as process memory
  call,         \* the map_block in progress: its arguments, `space` for the
                \* pml4 among them, and the table `cur` to look in at `level`
  exhausted     \* ghost: an allocation has returned 0

vars == <<start_pml4, mem, free, spaces, data, call, exhausted>>

Zeroed == [x \in Index |-> Absent]

\* The address that pmalloc(1) returns, and the memory behind its memset.
Got == IF free = {} THEN 0 ELSE CHOOSE f \in free : \A g \in free : f <= g

Cleared == IF free = {} THEN mem ELSE [mem EXCEPT ![Got] = Zeroed]

\* What else pmalloc(1) does.
Pmalloc ==
  /\ free' = free \ {Got}
  /\ exhausted' = (exhausted \/ free = {})

Init ==
  /\ start_pml4 \in [KernelIndex -> BootFrames \cup {Absent}]
  /\ mem \in {[f \in AllFrames |-> g] : g \in Garbage}
  /\ free = Frames
  /\ spaces = {} /\ data = {}
  /\ call = Idle
  /\ exhausted = FALSE

-----------------------------------------------------------------------------

\* Faulty variant: the upper half is cleared and the lower half copied.
FreshPml4Swapped ==
  [x \in Index |-> IF x \in KernelIndex THEN Absent
                   ELSE start_pml4[Entries - 1 - x]]

\* The lower half cleared, the upper half the kernel's.
FreshPml4 ==
  [x \in Index |-> IF x \in KernelIndex THEN start_pml4[x] ELSE Absent]

newpml4 ==
  /\ call = Idle
  /\ mem' = [Cleared EXCEPT ![Got] = FreshPml4]
  /\ spaces' = spaces \cup {Got}
  /\ Pmalloc
  /\ UNCHANGED <<start_pml4, data, call>>

\* The loader takes a frame for a stack or a segment.
AllocData ==
  /\ call = Idle
  /\ mem' = Cleared
  /\ data' = data \cup {Got}
  /\ Pmalloc
  /\ UNCHANGED <<start_pml4, spaces, call>>

map_block(pt, virt, phys) ==
  /\ call = Idle
  /\ call' = [space |-> pt, cur |-> pt, level |-> 4, virt |-> virt, phys |-> phys]
  /\ UNCHANGED <<start_pml4, mem, free, spaces, data, exhausted>>

Idx == call.virt[call.level]

Descend(table) == call' = [call EXCEPT !.cur = table, !.level = @ - 1]

\* Faulty variant: the walk goes one level too far.
NextPresentTooFar ==
  /\ call # Idle /\ call.level >= 1
  /\ mem[call.cur][Idx] # Absent
  /\ Descend(mem[call.cur][Idx])
  /\ UNCHANGED <<start_pml4, mem, free, spaces, data, exhausted>>

\* get_alloc_next finds the entry present.
NextPresent ==
  /\ call # Idle /\ call.level > 1
  /\ mem[call.cur][Idx] # Absent
  /\ Descend(mem[call.cur][Idx])
  /\ UNCHANGED <<start_pml4, mem, free, spaces, data, exhausted>>

\* Faulty variant: the frame becomes a table without being cleared.
NextAllocatedDirty ==
  /\ call # Idle /\ call.level > 1
  /\ mem[call.cur][Idx] = Absent
  /\ mem' = [mem EXCEPT ![call.cur][Idx] = Got]
  /\ Descend(Got)
  /\ Pmalloc
  /\ UNCHANGED <<start_pml4, spaces, data>>

\* Faulty variant: the frame is written into the table and not taken.
NextAllocatedUntaken ==
  /\ call # Idle /\ call.level > 1
  /\ mem[call.cur][Idx] = Absent
  /\ mem' = [Cleared EXCEPT ![call.cur][Idx] = Got]
  /\ Descend(Got)
  /\ UNCHANGED <<start_pml4, free, spaces, data, exhausted>>

\* get_alloc_next finds the entry absent and allocates the next table.
NextAllocated ==
  /\ call # Idle /\ call.level > 1
  /\ mem[call.cur][Idx] = Absent
  /\ mem' = [Cleared EXCEPT ![call.cur][Idx] = Got]
  /\ Descend(Got)
  /\ Pmalloc
  /\ UNCHANGED <<start_pml4, spaces, data>>

\* Faulty variant: the last table is indexed with another level's index.
SetLeafElsewhere ==
  /\ call # Idle /\ call.level = 1
  /\ mem' = [mem EXCEPT ![call.cur][call.virt[2]] = call.phys]
  /\ call' = Idle
  /\ UNCHANGED <<start_pml4, free, spaces, data, exhausted>>

\* p1[getidx(virt, 1)] = phys.
SetLeaf ==
  /\ call # Idle /\ call.level = 1
  /\ mem' = [mem EXCEPT ![call.cur][Idx] = call.phys]
  /\ call' = Idle
  /\ UNCHANGED <<start_pml4, free, spaces, data, exhausted>>

Next ==
  \/ newpml4 \/ AllocData
  \/ \E pt \in spaces, virt \in UserPages, phys \in data :
       map_block(pt, virt, phys)
  \/ NextPresent \/ NextAllocated \/ SetLeaf

Spec == Init /\ [][Next]_vars

-----------------------------------------------------------------------------
(* Properties *)

\* The frames that the user half of the tables in T refers to, at level 4 and
\* at the levels below.
TopRefs(T) == {mem[t][x] : t \in T, x \in Index \ KernelIndex} \ {Absent}
Refs(T) == {mem[t][x] : t \in T, x \in Index} \ {Absent}

\* The entries of the tables in T that refer to frame f.
Referring(T, f) == {e \in T \X Index : mem[e[1]][e[2]] = f}

Level4 == spaces
Level3 == TopRefs(Level4)
Level2 == Refs(Level3)
Level1 == Refs(Level2)
Leaves == Refs(Level1)

\* The variables have their types.
TypeOK ==
  /\ start_pml4 \in [KernelIndex -> BootFrames \cup {Absent}]
  /\ mem \in [AllFrames -> Tables]
  /\ free \subseteq Frames
  /\ spaces \subseteq Frames \cup {0}
  /\ data \subseteq Frames \cup {0}
  /\ \/ call = Idle
     \/ call \in [space : spaces, cur : AllFrames, level : 1 .. 4,
                  virt : UserPages, phys : data]
  /\ exhausted \in BOOLEAN

\* Until an allocation fails, the tables of all spaces form a forest: a frame
\* is a table of one level only, is neither free nor process memory, and has
\* one entry that refers to it; the last level refers to process memory only.
TablesFormForest ==
  ~exhausted =>
    /\ \A f \in Level3 : Cardinality(Referring(Level4, f)) = 1
    /\ \A f \in Level2 : Cardinality(Referring(Level3, f)) = 1
    /\ \A f \in Level1 : Cardinality(Referring(Level2, f)) = 1
    /\ Level4 \cap (Level3 \cup Level2 \cup Level1) = {}
    /\ Level3 \cap (Level2 \cup Level1) = {}
    /\ Level2 \cap Level1 = {}
    /\ (Level4 \cup Level3 \cup Level2 \cup Level1) \cap (free \cup data) = {}
    /\ Leaves \subseteq data

\* Every address space sees the kernel: the upper half of its top-level table
\* is the bootloader's, whatever has been mapped since.
KernelHalfShared ==
  ~exhausted => \A s \in spaces : \A x \in KernelIndex : mem[s][x] = start_pml4[x]

\* What the processor finds for a user page of a space.
Entry(table, x) == IF table = Absent THEN Absent ELSE mem[table][x]

Translate(s, v) ==
  Entry(Entry(Entry(Entry(s, v[4]), v[3]), v[2]), v[1])

\* What the map_block in progress was called for.
Request ==
  IF call = Idle THEN {}
  ELSE {[space |-> call.space, page |-> call.virt, frame |-> call.phys]}

Spaces == INSTANCE AddressSpaces WITH
  trans <- [s \in spaces |-> [v \in UserPages |-> Translate(s, v)]],
  asked <- Request

\* The tables implement address spaces: allocating the tables on the way to a
\* page maps nothing, and the last write of map_block(pt, virt, phys) makes the
\* page virt of space pt translate to phys and leaves every other page of every
\* space as it was.
RefinesAddressSpaces == Spaces!Spec

=============================================================================
