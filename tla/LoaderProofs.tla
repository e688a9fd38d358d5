---------------------------- MODULE LoaderProofs ----------------------------
(***************************************************************************)
(* What holds of the memory that run_elf fills, for blocks of any size,    *)
(* any amount of memory, any files and any number of processes: while      *)
(* memory lasts no two processes map the same block, nor one that is free, *)
(* and every process keeps its segments and its first frame.               *)
(*                                                                         *)
(* The properties speak of the processes that are published.  They are not *)
(* inductive: what run_elf is putting together becomes a process in one    *)
(* step.  The strengthening gives the unfinished map its own blocks, apart *)
(* from the free ones and from those of every process, and keeps the three *)
(* apart while pmalloc takes blocks from the free ones only.  A step then  *)
(* writes to free blocks and to the unfinished stack alone, so that what   *)
(* is in place anywhere else stays.                                        *)
(***************************************************************************)
EXTENDS Loader, TLAPS, FiniteSetTheorems, WellFoundedInduction, NaturalsInduction

\* The lowest element of a set of numbers is in it and is the lowest.
LEMMA MinInSet ==
  ASSUME NEW S, S \subseteq Nat, S # {}
  PROVE  Min(S) \in S /\ \A x \in S : Min(S) <= x
<1> DEFINE R == {p \in Nat \X Nat : p[1] < p[2]}
<1>0. OpToRel(<, Nat) = R
  BY Zenon DEF OpToRel
<1>1. IsWellFoundedOn(R, Nat)
  BY <1>0, NatLessThanWellFounded, Zenon
<1> HIDE DEF R
<1>2. PICK x \in S : \A y \in S : <<y, x>> \notin R
  BY <1>1, WFMin, Zenon
<1>3. ASSUME NEW y \in S PROVE x <= y
  <2>1. <<y, x>> \in Nat \X Nat /\ <<y, x>> \notin R
    BY <1>2
  <2>2. ~(<<y, x>>[1] < <<y, x>>[2])
    BY <2>1, Zenon DEF R
  <2>3. ~(y < x)
    BY <2>2
  <2>4. x \in Nat /\ y \in Nat
    OBVIOUS
  <2> QED
    BY <2>3, <2>4
<1> QED
  BY <1>2, <1>3 DEF Min

-----------------------------------------------------------------------------
(* pmalloc *)

Run(b, n) == b .. (b + n - 1)

\* pmalloc returns a run of free blocks, or 0, which is none of them.
LEMMA GotRun ==
  ASSUME NEW S, S \subseteq Blocks, NEW n \in Nat \ {0}
  PROVE  /\ Got(n, S) \in Nat
         /\ Got(n, S) # 0 => Run(Got(n, S), n) \subseteq S
<1> DEFINE starts == {b \in S : b .. (b + n - 1) \subseteq S}
<1>1. S \subseteq Nat \ {0}
  BY LoaderAssumption DEF Blocks
<1>2. CASE starts = {}
  BY <1>2 DEF Got
<1>3. CASE starts # {}
  <2>1. starts \subseteq Nat
    BY <1>1
  <2>2. Min(starts) \in starts
    BY <1>3, <2>1, MinInSet
  <2>3. Got(n, S) = Min(starts)
    BY <1>3 DEF Got
  <2> QED
    BY <1>1, <2>2, <2>3 DEF Run
<1> QED
  BY <1>2, <1>3

\* Blocks are taken from the free ones only.
LEMMA LeftSubset ==
  ASSUME NEW S, NEW n, NEW k
  PROVE  /\ Left(n, S) \subseteq S
         /\ Tables(k, S) \subseteq S
BY DEF Left, Tables

\* What pmalloc has returned is not left.
LEMMA LeftApart ==
  ASSUME NEW S, NEW n, Got(n, S) # 0
  PROVE  Run(Got(n, S), n) \cap Left(n, S) = {}
BY DEF Left, Run

-----------------------------------------------------------------------------
(* Types *)

\* What an address space maps: some pages to blocks.
Mappings == UNION {[D -> Nat] : D \in SUBSET Nat}

TypeInv ==
  /\ free \subseteq Blocks
  /\ pc \in {"idle", "stack", "segments", "publish"}
  /\ file \in Files /\ next \in Nat \ {0}
  /\ map \in Mappings /\ stackregion \in Nat
  /\ processes \in Seq([file : Files, map : Mappings])
  /\ exhausted \in BOOLEAN /\ overrun \in BOOLEAN

\* A function from pages to blocks is one, and has its values.
LEMMA MappingType ==
  ASSUME NEW D, D \subseteq Nat, NEW f \in [D -> Nat]
  PROVE  f \in Mappings
<1>1. [D -> Nat] \in {[E -> Nat] : E \in SUBSET Nat}
  OBVIOUS
<1> QED
  BY <1>1 DEF Mappings

\* The other way round.
LEMMA MappingIs ==
  ASSUME NEW f \in Mappings
  PROVE  DOMAIN f \subseteq Nat /\ \A v \in DOMAIN f : f[v] \in Nat
<1>1. PICK D \in SUBSET Nat : f \in [D -> Nat]
  BY DEF Mappings
<1> QED
  BY <1>1

\* The empty map.
LEMMA EmptyMapping == <<>> \in Mappings /\ DOMAIN <<>> = {}
<1>1. <<>> \in [{} -> Nat]
  OBVIOUS
<1> QED
  BY <1>1, MappingType

\* Pages that are mapped now, in place of what they were.
LEMMA MappedType ==
  ASSUME TypeInv, NEW pages \in Mappings
  PROVE  Mapped(pages) \in Mappings
<1>1. DOMAIN pages \cup DOMAIN map \subseteq Nat
  BY MappingIs DEF TypeInv
<1>2. Mapped(pages) \in [DOMAIN pages \cup DOMAIN map -> Nat]
  BY MappingIs DEF TypeInv, Mapped
<1> QED
  BY <1>1, <1>2, MappingType

\* A program header of the file in hand.
LEMMA CurrentType ==
  ASSUME TypeInv, AtSegment
  PROVE  /\ Current.vaddr \in Nat /\ Current.filesz \in Nat /\ Current.memsz \in Nat
         /\ Current.filesz <= Current.memsz
         /\ next \in DOMAIN Segments(file)
<1>1. ElfFile(Image[file])
  BY LoaderAssumption DEF TypeInv
<1>2. Segments(file) \in Seq(ProgramHeader) /\ next \in 1 .. Len(Segments(file))
  BY <1>1 DEF ElfFile, Segments, AtSegment, TypeInv
<1>3. next \in DOMAIN Segments(file) /\ Segments(file)[next] \in ProgramHeader
  BY <1>2
<1>4. Current \in ProgramHeader
  BY <1>3 DEF Current
<1>5. Image[file].segments[next].filesz <= Image[file].segments[next].memsz
  BY <1>1, <1>3 DEF ElfFile, Segments
<1> QED
  BY <1>3, <1>4, <1>5 DEF ProgramHeader, Current, Segments

\* A segment is given one block, and its page.
LEMMA SegmentPages ==
  ASSUME TypeInv, AtSegment, Current.memsz > 0,
         NEW n, n = ALIGNUP(Current.memsz), NEW b \in Nat,
         NEW page, page = Current.vaddr \div BlockBytes
  PROVE  /\ n = 1 /\ page \in Nat /\ page .. (page + n - 1) = {page}
         /\ [v \in page .. (page + n - 1) |-> b + (v - page)] \in Mappings
<1>1. Current.vaddr \in Nat /\ Current.memsz \in Nat /\ BlockBytes \in Nat \ {0}
  BY CurrentType, LoaderAssumption
<1>2. n = 1
  BY <1>1 DEF ALIGNUP
<1>3. page \in Nat
  BY <1>1
<1>4. page .. (page + n - 1) = {page}
  BY <1>2, <1>3
<1>5. [v \in page .. (page + n - 1) |-> b + (v - page)] \in [{page} -> Nat]
  BY <1>3, <1>4
<1> QED
  BY <1>2, <1>3, <1>4, <1>5, MappingType

\* The stack's pages and the blocks they are mapped to.
LEMMA StackPagesType ==
  ASSUME NEW b \in Nat
  PROVE  [v \in (TopPage - StackBlocks + 1) .. TopPage |-> b + (TopPage - v)] \in Mappings
<1>1. TopPage \in Nat /\ StackBlocks \in Nat \ {0} /\ TopPage >= StackBlocks
  BY LoaderAssumption
<1>2. (TopPage - StackBlocks + 1) .. TopPage \subseteq Nat
  BY <1>1
<1>3. [v \in (TopPage - StackBlocks + 1) .. TopPage |-> b + (TopPage - v)]
        \in [(TopPage - StackBlocks + 1) .. TopPage -> Nat]
  BY <1>1
<1> QED
  BY <1>2, <1>3, MappingType

\* A process that is loaded.
LEMMA ProcessType ==
  ASSUME TypeInv, NEW n \in DOMAIN processes
  PROVE  processes[n].file \in Files /\ processes[n].map \in Mappings
<1> DEFINE P == [file : Files, map : Mappings]
<1>1. processes \in Seq(P)
  BY DEF TypeInv
<1>2. \A e \in P : e.file \in Files /\ e.map \in Mappings
  OBVIOUS
<1> HIDE DEF P
<1>3. processes[n] \in P
  BY <1>1
<1> QED
  BY <1>2, <1>3

\* Every step keeps the types.
LEMMA TypeStep == TypeInv /\ [Next]_vars => TypeInv'
<1> SUFFICES ASSUME TypeInv, [Next]_vars PROVE TypeInv'
  OBVIOUS
<1>1. ASSUME NEW f \in Files, Reject(f) PROVE TypeInv'
  BY <1>1 DEF Reject, TypeInv
<1>2. ASSUME NEW f \in Files, NewSpace(f) PROVE TypeInv'
  <2>1. free' \subseteq Blocks
    BY <1>2, LeftSubset DEF NewSpace, TypeInv
  <2>2. map' \in Mappings
    BY <1>2, EmptyMapping DEF NewSpace
  <2>3. exhausted' \in BOOLEAN
    BY <1>2 DEF NewSpace
  <2> QED
    BY <1>2, <2>1, <2>2, <2>3 DEF NewSpace, TypeInv
<1>3. CASE Stack
  <2>1. stackregion' \in Nat
    BY <1>3, GotRun, LoaderAssumption DEF Stack, TypeInv
  <2>2. map' \in Mappings
    <3>1. PICK b : b = stackregion'
      OBVIOUS
    <3>2. map' = Mapped([v \in (TopPage - StackBlocks + 1) .. TopPage |-> b + (TopPage - v)])
      BY <1>3, <3>1 DEF Stack
    <3> QED
      BY <2>1, <3>1, <3>2, StackPagesType, MappedType
  <2>3. free' \subseteq Blocks /\ exhausted' \in BOOLEAN
    BY <1>3, LeftSubset DEF Stack, TakeAndMap, TypeInv
  <2> QED
    BY <1>3, <2>1, <2>2, <2>3 DEF Stack, TypeInv
<1>4. CASE SkipSegment
  BY <1>4 DEF SkipSegment, TypeInv
<1>5. CASE LoadSegment
  <2>1. PICK n, b, page : /\ n = ALIGNUP(Current.memsz)
                          /\ b = Got(n, free)
                          /\ page = Current.vaddr \div BlockBytes
    OBVIOUS
  <2>2. AtSegment /\ Current.memsz > 0
    BY <1>5 DEF LoadSegment
  <2>3. n \in Nat \ {0}
    BY <2>1, <2>2, CurrentType DEF ALIGNUP
  <2>4. b \in Nat
    BY <2>1, <2>3, GotRun DEF TypeInv
  <2>5. map' = Mapped([v \in page .. (page + n - 1) |-> b + (v - page)])
    BY <1>5, <2>1 DEF LoadSegment
  <2>6. [v \in page .. (page + n - 1) |-> b + (v - page)] \in Mappings
    BY <2>1, <2>2, <2>4, SegmentPages
  <2>7. map' \in Mappings
    BY <2>5, <2>6, MappedType
  <2>8. free' \subseteq Blocks
    BY <1>5, LeftSubset DEF LoadSegment, TakeAndMap, TypeInv
  <2>9. exhausted' \in BOOLEAN
    BY <1>5 DEF LoadSegment, TakeAndMap
  <2>10. overrun' \in BOOLEAN
    BY <1>5 DEF LoadSegment
  <2> QED
    BY <1>5, <2>7, <2>8, <2>9, <2>10 DEF LoadSegment, TypeInv
<1>6. CASE Frame
  BY <1>6 DEF Frame, TypeInv
<1>7. CASE Publish
  <2>1. [file |-> file, map |-> map] \in [file : Files, map : Mappings]
    BY DEF TypeInv
  <2> QED
    BY <1>7, <2>1 DEF Publish, TypeInv
<1>8. CASE UNCHANGED vars
  BY <1>8 DEF vars, TypeInv
<1> QED
  BY <1>1, <1>2, <1>3, <1>4, <1>5, <1>6, <1>7, <1>8 DEF Next

\* They hold at first.
LEMMA TypeInit == Init => TypeInv
<1> SUFFICES ASSUME Init PROVE TypeInv
  OBVIOUS
<1>1. exhausted \in BOOLEAN /\ overrun \in BOOLEAN
  BY Zenon DEF Init
<1>2. /\ pc = "idle" /\ file \in Files /\ next = 1 /\ free = Blocks /\ processes = <<>>
      /\ stackregion = 0
  BY DEF Init
<1>3. map \in Mappings
  BY EmptyMapping DEF Init
<1> QED
  BY <1>1, <1>2, <1>3 DEF TypeInv

-----------------------------------------------------------------------------
(* Blocks *)

StackRun == Run(stackregion, StackBlocks)

BlocksOf(n) == MappedBlocks(processes[n].map)

\* The blocks that belong to the process that is being loaded.
Mine ==
  IF pc \in {"segments", "publish"} THEN MappedBlocks(map) \cup StackRun ELSE {}

Apart ==
  /\ pc = "stack" => map = <<>>
  /\ Mine \subseteq Blocks \ free
  /\ \A n \in DOMAIN processes : BlocksOf(n) \subseteq Blocks \ (free \cup Mine)
  /\ \A n, o \in DOMAIN processes : n # o => BlocksOf(n) \cap BlocksOf(o) = {}

ApartInv == ~exhausted => Apart

\* What is mapped in addition is all that a map gains.
LEMMA MappedAdds ==
  ASSUME NEW pages
  PROVE  MappedBlocks(Mapped(pages)) \subseteq MappedBlocks(pages) \cup MappedBlocks(map)
<1>1. DOMAIN Mapped(pages) = DOMAIN pages \cup DOMAIN map
  BY DEF Mapped
<1>2. ASSUME NEW v \in DOMAIN Mapped(pages)
      PROVE  Mapped(pages)[v] \in MappedBlocks(pages) \cup MappedBlocks(map)
  BY <1>1 DEF Mapped, MappedBlocks
<1> QED
  BY <1>2 DEF MappedBlocks

\* An empty map maps nothing.
LEMMA EmptyMaps == MappedBlocks(<<>>) = {}
BY EmptyMapping DEF MappedBlocks

\* The stack's pages are mapped to the run that pmalloc gave for them.
LEMMA StackTakes ==
  ASSUME TypeInv, Stack, ~exhausted', map = <<>>
  PROVE  /\ free' \subseteq free
         /\ MappedBlocks(map)' \cup StackRun' \subseteq free \ free'
         /\ StackRun' \subseteq free
<1>1. PICK b : b = Got(StackBlocks, free)
  OBVIOUS
<1>2. StackBlocks \in Nat \ {0} /\ TopPage \in Nat /\ TopPage >= StackBlocks
  BY LoaderAssumption
<1>3. \E k \in 0 .. MaxTables :
        /\ stackregion' = b /\ b # 0
        /\ free' = Left(StackBlocks, free) \ TablesFor(StackBlocks, k)
  BY <1>1 DEF Stack, TakeAndMap
<1>4. stackregion' = b /\ b # 0 /\ free' \subseteq Left(StackBlocks, free)
  BY <1>3
<1>5. Run(b, StackBlocks) \subseteq free /\ b \in Nat
  BY <1>1, <1>2, <1>4, GotRun DEF TypeInv
<1>6. Run(b, StackBlocks) \cap free' = {}
  BY <1>1, <1>4, LeftApart
<1>7. free' \subseteq free
  BY <1>4, LeftSubset
<1> DEFINE pages == [v \in (TopPage - StackBlocks + 1) .. TopPage |-> b + (TopPage - v)]
<1>8. MappedBlocks(pages) \subseteq Run(b, StackBlocks)
  <2>1. ASSUME NEW v \in (TopPage - StackBlocks + 1) .. TopPage
        PROVE  b + (TopPage - v) \in b .. (b + StackBlocks - 1)
    BY <1>2, <1>5
  <2> QED
    BY <2>1 DEF MappedBlocks, Run
<1>9. map' = Mapped(pages)
  BY <1>4 DEF Stack
<1> HIDE DEF pages
<1>10. MappedBlocks(map)' \subseteq MappedBlocks(pages) \cup MappedBlocks(map)
  <2>1. MappedBlocks(map)' = MappedBlocks(Mapped(pages))
    BY <1>9 DEF MappedBlocks
  <2> QED
    BY <2>1, MappedAdds
<1>11. MappedBlocks(map)' \subseteq Run(b, StackBlocks)
  BY <1>8, <1>10, EmptyMaps
<1>12. StackRun' = Run(b, StackBlocks)
  BY <1>4 DEF StackRun, Run
<1> QED
  BY <1>5, <1>6, <1>7, <1>11, <1>12

\* A segment's page is mapped to the block that pmalloc gave for it.
LEMMA LoadTakes ==
  ASSUME TypeInv, LoadSegment, ~exhausted',
         NEW b, b = Got(1, free), NEW page, page = Current.vaddr \div BlockBytes
  PROVE  /\ free' \subseteq free /\ b \in free \ free'
         /\ map' = Mapped([v \in {page} |-> b])
         /\ MappedBlocks(map)' \subseteq {b} \cup MappedBlocks(map)
<1>1. AtSegment /\ Current.memsz > 0
  BY DEF LoadSegment
<1>2. PICK n : n = ALIGNUP(Current.memsz)
  OBVIOUS
<1>3. n = 1
  BY <1>1, <1>2, CurrentType DEF ALIGNUP
<1>4. \E k \in 0 .. MaxTables : TakeAndMap(1, k)
  BY <1>2, <1>3 DEF LoadSegment
<1>5. b # 0 /\ free' \subseteq Left(1, free)
  BY <1>4 DEF TakeAndMap
<1>6. Run(b, 1) \subseteq free /\ b \in Nat
  BY <1>5, GotRun DEF TypeInv
<1>7. Run(b, 1) \cap free' = {}
  BY <1>5, LeftApart
<1>8. b \in Run(b, 1)
  BY <1>6 DEF Run
<1>9. free' \subseteq free
  BY <1>5, LeftSubset
<1>10. page \in Nat /\ page .. (page + n - 1) = {page}
  BY <1>1, <1>2, <1>6, SegmentPages
<1>11. map' = Mapped([v \in page .. (page + n - 1) |-> b + (v - page)])
  BY <1>2, <1>3 DEF LoadSegment
<1>12. [v \in page .. (page + n - 1) |-> b + (v - page)] = [v \in {page} |-> b]
  <2>1. \A v \in {page} : b + (v - page) = b
    BY <1>6, <1>10
  <2> QED
    BY <1>10, <2>1
<1>13. map' = Mapped([v \in {page} |-> b])
  BY <1>11, <1>12
<1>14. MappedBlocks([v \in {page} |-> b]) = {b}
  BY DEF MappedBlocks
<1>15. MappedBlocks(map)' = MappedBlocks(Mapped([v \in {page} |-> b]))
  BY <1>13 DEF MappedBlocks
<1>16. MappedBlocks(map)' \subseteq {b} \cup MappedBlocks(map)
  BY <1>14, <1>15, MappedAdds
<1> QED
  BY <1>6, <1>7, <1>8, <1>9, <1>13, <1>16

\* What is taken from the free blocks is nobody else's.
LEMMA ApartWith ==
  ASSUME TypeInv, Apart, free' \subseteq free, Mine' \subseteq Mine \cup (free \ free'),
         processes' = processes, pc' = "stack" => map' = <<>>
  PROVE  Apart'
<1>1. Mine' \subseteq Blocks \ free'
  BY DEF Apart, TypeInv
<1>2. \A n : BlocksOf(n)' = BlocksOf(n)
  BY DEF BlocksOf
<1>3. ASSUME NEW n \in DOMAIN processes
      PROVE  BlocksOf(n) \subseteq Blocks \ (free' \cup Mine')
  BY DEF Apart
<1>4. \A n, o \in DOMAIN processes' : n # o => BlocksOf(n)' \cap BlocksOf(o)' = {}
  BY <1>2 DEF Apart
<1>5. Blocks' = Blocks
  BY DEF Blocks
<1> QED
  BY <1>1, <1>2, <1>3, <1>4, <1>5 DEF Apart

\* At first there is no process and nothing is mapped.
LEMMA ApartInit == Init => ApartInv
<1> SUFFICES ASSUME Init PROVE Apart
  BY DEF ApartInv
<1>1. Mine = {} /\ DOMAIN processes = {} /\ pc # "stack"
  BY DEF Init, Mine
<1> QED
  BY <1>1 DEF Apart

\* Every step keeps the blocks of processes, of the one being loaded and the
\* free ones apart.
LEMMA ApartStep == TypeInv /\ ApartInv /\ [Next]_vars => ApartInv'
<1> SUFFICES ASSUME TypeInv, ApartInv, [Next]_vars, ~exhausted' PROVE Apart'
  BY DEF ApartInv
<1>0. exhausted \in BOOLEAN
  BY DEF TypeInv
<1>1. ASSUME NEW f \in Files, NewSpace(f) PROVE Apart'
  <2>1. Apart
    BY <1>1 DEF NewSpace, ApartInv
  <2>2. free' \subseteq free
    BY <1>1, LeftSubset DEF NewSpace
  <2>3. Mine' = {} /\ map' = <<>> /\ processes' = processes
    BY <1>1 DEF NewSpace, Mine
  <2> QED
    BY <2>1, <2>2, <2>3, ApartWith
<1>2. CASE Stack
  <2>1. Apart
    BY <1>2 DEF Stack, TakeAndMap, ApartInv
  <2>2. map = <<>>
    BY <1>2, <2>1 DEF Stack, Apart
  <2>3. free' \subseteq free /\ MappedBlocks(map)' \cup StackRun' \subseteq free \ free'
    BY <1>2, <2>2, StackTakes
  <2>4. Mine' = MappedBlocks(map)' \cup StackRun' /\ pc' # "stack" /\ processes' = processes
    BY <1>2 DEF Stack, Mine
  <2> QED
    BY <2>1, <2>3, <2>4, ApartWith
<1>3. CASE LoadSegment
  <2>1. Apart
    BY <1>3 DEF LoadSegment, TakeAndMap, ApartInv
  <2>2. PICK b, page : b = Got(1, free) /\ page = Current.vaddr \div BlockBytes
    OBVIOUS
  <2>3. /\ free' \subseteq free /\ b \in free \ free'
        /\ MappedBlocks(map)' \subseteq {b} \cup MappedBlocks(map)
    BY <1>3, <2>2, LoadTakes
  <2>4. StackRun' = StackRun /\ pc = "segments" /\ pc' = "segments" /\ processes' = processes
    BY <1>3 DEF LoadSegment, AtSegment, StackRun
  <2>5. Mine' \subseteq Mine \cup (free \ free')
    BY <2>3, <2>4 DEF Mine
  <2> QED
    BY <2>1, <2>3, <2>4, <2>5, ApartWith
<1>4. CASE SkipSegment \/ Frame \/ UNCHANGED vars
  <2>1. /\ UNCHANGED <<free, processes, map, stackregion, exhausted>>
        /\ pc' = pc \/ (pc = "segments" /\ pc' = "publish")
    BY <1>4 DEF SkipSegment, Frame, vars
  <2>2. Apart
    BY <2>1 DEF ApartInv
  <2>3. Mine' = Mine
    BY <2>1 DEF Mine, StackRun, MappedBlocks
  <2>4. pc' = "stack" => map' = <<>>
    BY <2>1, <2>2 DEF Apart
  <2> QED
    BY <2>1, <2>2, <2>3, <2>4, ApartWith
<1>5. ASSUME NEW f \in Files, Reject(f) PROVE Apart'
  <2>1. UNCHANGED <<free, processes, map, stackregion, exhausted, pc>>
    BY <1>5 DEF Reject
  <2>2. Apart
    BY <2>1 DEF ApartInv
  <2>3. Mine' = Mine
    BY <2>1 DEF Mine, StackRun, MappedBlocks
  <2> QED
    BY <2>1, <2>2, <2>3, ApartWith DEF Apart
<1>6. CASE Publish
  <2>1. Apart
    BY <1>6 DEF Publish, ApartInv
  <2>2. Mine' = {} /\ pc' # "stack" /\ free' = free
    BY <1>6 DEF Publish, Mine
  <2>3. PICK new \in Nat : new = Len(processes) + 1
    BY DEF TypeInv
  <2>4. /\ DOMAIN processes' = DOMAIN processes \cup {new}
        /\ new \notin DOMAIN processes
        /\ processes'[new] = [file |-> file, map |-> map]
        /\ \A n \in DOMAIN processes : processes'[n] = processes[n]
    BY <1>6, <2>3 DEF Publish, TypeInv
  <2>5. \A n \in DOMAIN processes : BlocksOf(n)' = BlocksOf(n)
    BY <2>4 DEF BlocksOf
  <2>6. BlocksOf(new)' = MappedBlocks(map)
    BY <2>4 DEF BlocksOf
  <2>7. BlocksOf(new)' \subseteq Mine
    BY <1>6, <2>6 DEF Publish, Mine
  <2>8. \A n \in DOMAIN processes' : BlocksOf(n)' \subseteq Blocks \ (free' \cup Mine')
    BY <2>1, <2>2, <2>4, <2>5, <2>7 DEF Apart
  <2>9. \A n, o \in DOMAIN processes' : n # o => BlocksOf(n)' \cap BlocksOf(o)' = {}
    <3>1. \A n \in DOMAIN processes : BlocksOf(n)' \cap BlocksOf(new)' = {}
      BY <2>1, <2>5, <2>7 DEF Apart
    <3>2. \A n, o \in DOMAIN processes : n # o => BlocksOf(n)' \cap BlocksOf(o)' = {}
      BY <2>1, <2>5 DEF Apart
    <3> QED
      BY <2>4, <3>1, <3>2
  <2> QED
    BY <2>2, <2>8, <2>9 DEF Apart, Blocks
<1> QED
  BY <1>1, <1>2, <1>3, <1>4, <1>5, <1>6 DEF Next

\* While memory lasts no block of a process is free or mapped by another
\* process, however many are loaded, and whatever their segments.
THEOREM NothingSharedCorrect == Spec => []NothingShared
<1>1. TypeInv /\ ApartInv => NothingShared
  <2> SUFFICES ASSUME ApartInv, ~exhausted, NEW n \in DOMAIN processes
               PROVE  /\ BlocksOf(n) \cap free = {}
                      /\ \A o \in DOMAIN processes \ {n} : BlocksOf(n) \cap BlocksOf(o) = {}
    BY DEF NothingShared, Sound, BlocksOf
  <2> QED
    BY DEF ApartInv, Apart
<1>2. TypeInv /\ ApartInv /\ [Next]_vars => TypeInv' /\ ApartInv'
  BY TypeStep, ApartStep
<1> QED
  BY <1>1, <1>2, TypeInit, ApartInit, PTL DEF Spec

-----------------------------------------------------------------------------
(* Bytes *)

\* A byte of a block: the block and the place in it can be told from its
\* address.
LEMMA BlockArithmetic ==
  ASSUME NEW B \in Nat \ {0}, NEW q \in Nat, NEW k \in 0 .. (B - 1)
  PROVE  (q * B + k) \div B = q /\ (q * B + k) % B = k
OBVIOUS

\* The blocks that pmalloc hands out lie in memory.
LEMMA InMemory ==
  ASSUME NEW b \in Blocks, NEW k \in 0 .. (BlockBytes - 1)
  PROVE  /\ b * BlockBytes + k \in Addresses
         /\ (b * BlockBytes + k) \div BlockBytes = b
<1>1. BlockBytes \in Nat \ {0} /\ TotalBlocks \in Nat
  BY LoaderAssumption
<1>2. b \in Nat /\ b <= TotalBlocks
  BY <1>1 DEF Blocks
<1>3. PICK d \in Nat : d = TotalBlocks - b
  BY <1>1, <1>2
<1>4. (TotalBlocks + 1) * BlockBytes = b * BlockBytes + d * BlockBytes + BlockBytes
  BY <1>1, <1>2, <1>3
<1>5. b * BlockBytes \in Nat /\ d * BlockBytes \in Nat
  BY <1>1, <1>2
<1>6. b * BlockBytes + k \in Addresses
  BY <1>1, <1>4, <1>5 DEF Addresses
<1> QED
  BY <1>1, <1>2, <1>6, BlockArithmetic

\* An address in a page's first bytes, when a segment begins at the page.
LEMMA InPage ==
  ASSUME NEW vaddr \in Nat, vaddr % BlockBytes = 0, NEW k \in 0 .. (BlockBytes - 1)
  PROVE  /\ (vaddr + k) \div BlockBytes = vaddr \div BlockBytes
         /\ (vaddr + k) % BlockBytes = k
<1>1. BlockBytes \in Nat \ {0}
  BY LoaderAssumption
<1>2. PICK q \in Nat : q = vaddr \div BlockBytes
  BY <1>1
<1>3. vaddr = q * BlockBytes
  BY <1>1, <1>2
<1>4. (q * BlockBytes + k) \div BlockBytes = q /\ (q * BlockBytes + k) % BlockBytes = k
  BY <1>1, BlockArithmetic
<1> QED
  BY <1>2, <1>3, <1>4

\* The memory that a step may write to: free blocks, and, when the segments
\* are in place, the stack of the process that is being loaded.
Scratch == free \cup (IF pc = "segments" THEN StackRun ELSE {})

MemInv == DOMAIN mem = Addresses

\* Clearing blocks changes no other.
LEMMA ClearedKeeps ==
  ASSUME NEW m, NEW W, NEW a \in Addresses, a \div BlockBytes \notin W
  PROVE  Cleared(m, W)[a] = m[a]
BY DEF Cleared

\* What run_elf clears for a stack or a segment are free blocks.
LEMMA ClearedForKeeps ==
  ASSUME TypeInv, NEW n \in Nat \ {0}, NEW k, NEW a \in Addresses, a \div BlockBytes \notin free
  PROVE  ClearedFor(n, k)[a] = mem[a]
<1>1. TablesFor(n, k) \subseteq free
  BY LeftSubset DEF TablesFor
<1>2. {Got(n, free)} \ {0} \subseteq free
  <2>1. Got(n, free) \in Nat /\ (Got(n, free) # 0 => Run(Got(n, free), n) \subseteq free)
    BY GotRun DEF TypeInv
  <2>2. Got(n, free) # 0 => Got(n, free) \in Run(Got(n, free), n)
    BY <2>1 DEF Run
  <2> QED
    BY <2>1, <2>2
<1> QED
  BY <1>1, <1>2, ClearedKeeps DEF ClearedFor

\* A segment that fits its block is copied into that block.
LEMMA FilledKeeps ==
  ASSUME TypeInv, AtSegment, Current.memsz <= BlockBytes, NEW m, NEW b \in Nat,
         NEW a \in Addresses, a \div BlockBytes # b
  PROVE  Filled(m, b, next)[a] = m[a]
<1>1. BlockBytes \in Nat \ {0} /\ a \in Nat /\ b * BlockBytes \in Nat
  BY LoaderAssumption DEF Addresses
<1>2. /\ Current.filesz \in Nat /\ Current.memsz \in Nat
      /\ Current.filesz <= Current.memsz /\ Current = Segments(file)[next]
  BY CurrentType DEF Current
<1>3. a - b * BlockBytes \notin 0 .. (BlockBytes - 1)
  <2> SUFFICES ASSUME a - b * BlockBytes \in 0 .. (BlockBytes - 1) PROVE FALSE
    OBVIOUS
  <2>1. PICK k \in 0 .. (BlockBytes - 1) : k = a - b * BlockBytes
    OBVIOUS
  <2>2. a = b * BlockBytes + k
    BY <1>1, <2>1
  <2>3. (b * BlockBytes + k) \div BlockBytes = b
    BY <1>1, BlockArithmetic
  <2> QED
    BY <2>2, <2>3
<1>4. a - b * BlockBytes \in Int
  BY <1>1
<1>5. /\ a - b * BlockBytes \notin 0 .. (Current.filesz - 1)
      /\ a - b * BlockBytes \notin Current.filesz .. (Current.memsz - 1)
  BY <1>1, <1>2, <1>3, <1>4
<1> QED
  BY <1>2, <1>5 DEF Filled

\* A step writes to scratch memory only, while memory lasts and segments fit.
LEMMA Untouched ==
  ASSUME TypeInv, ApartInv, MemInv, [Next]_vars, ~exhausted', ~overrun',
         NEW a \in Addresses, a \div BlockBytes \notin Scratch
  PROVE  mem'[a] = mem[a]
<1>0. a \div BlockBytes \notin free /\ BlockBytes \in Nat \ {0} /\ a \in Nat
  BY LoaderAssumption DEF Scratch, Addresses
<1>1. ASSUME NEW f \in Files, NewSpace(f) PROVE mem'[a] = mem[a]
  <2>1. Got(1, free) # 0
    BY <1>1 DEF NewSpace
  <2>2. Got(1, free) \in Nat /\ Run(Got(1, free), 1) \subseteq free
    BY <2>1, GotRun DEF TypeInv
  <2>3. Got(1, free) \in free
    BY <2>2 DEF Run
  <2>4. mem' = Cleared(mem, {Got(1, free)})
    BY <1>1 DEF NewSpace
  <2> QED
    BY <1>0, <2>3, <2>4, ClearedKeeps
<1>2. CASE Stack
  <2>1. PICK k : mem' = ClearedFor(StackBlocks, k)
    BY <1>2 DEF Stack
  <2>2. StackBlocks \in Nat \ {0}
    BY LoaderAssumption
  <2> QED
    BY <1>0, <2>1, <2>2, ClearedForKeeps
<1>3. CASE LoadSegment
  <2>1. AtSegment /\ Current.memsz > 0
    BY <1>3 DEF LoadSegment
  <2>2. ALIGNUP(Current.memsz) = 1
    BY <2>1, CurrentType DEF ALIGNUP
  <2>3. PICK b, page : b = Got(1, free) /\ page = Current.vaddr \div BlockBytes
    OBVIOUS
  <2>4. b \in free /\ b \in Nat
    <3>1. b \in free
      BY <1>3, <2>3, LoadTakes
    <3> QED
      BY <3>1, LoaderAssumption DEF TypeInv, Blocks
  <2>5. PICK k : mem' = Filled(ClearedFor(1, k), b, next)
    BY <1>3, <2>2, <2>3 DEF LoadSegment
  <2>6. Current.memsz <= BlockBytes
    <3>1. ~(Current.memsz > 1 * BlockBytes)
      BY <1>3, <2>2 DEF LoadSegment
    <3> QED
      BY <1>0, <2>1, <3>1, CurrentType
  <2>7. a \div BlockBytes # b
    BY <1>0, <2>4
  <2>8. mem'[a] = ClearedFor(1, k)[a]
    BY <2>1, <2>4, <2>5, <2>6, <2>7, FilledKeeps
  <2> QED
    BY <1>0, <2>8, ClearedForKeeps
<1>4. CASE Frame
  <2>1. Apart /\ pc = "segments"
    BY <1>4 DEF Frame, ApartInv
  <2>2. mem' = [c \in Addresses |->
                 IF c - FrameStart \in 0 .. (StateBytes - 1)
                 THEN StateByte(file, c - FrameStart) ELSE mem[c]]
    BY <1>4 DEF Frame
  <2>3. PICK last : last = stackregion + StackBlocks - 1
    OBVIOUS
  <2>4. stackregion \in Nat /\ last \in Nat /\ last \in StackRun
    <3>1. StackBlocks \in Nat \ {0}
      BY LoaderAssumption
    <3>2. stackregion \in Nat
      BY <1>4 DEF Frame, TypeInv
    <3> QED
      BY <2>3, <3>1, <3>2 DEF StackRun, Run
  <2>5. a \div BlockBytes # last
    BY <2>1, <2>4 DEF Scratch
  <2>6. a - FrameStart \notin 0 .. (StateBytes - 1)
    <3> SUFFICES ASSUME a - FrameStart \in 0 .. (StateBytes - 1) PROVE FALSE
      OBVIOUS
    <3>1. PICK k \in 0 .. (StateBytes - 1) : k = a - FrameStart
      OBVIOUS
    <3>2. StateBytes \in 1 .. BlockBytes /\ StackBlocks \in Nat \ {0}
      BY LoaderAssumption
    <3>3. FrameStart = last * BlockBytes + BlockBytes - StateBytes
      BY <1>0, <2>3, <2>4, <3>2 DEF FrameStart
    <3>4. PICK j \in 0 .. (BlockBytes - 1) : j = BlockBytes - StateBytes + k
      BY <1>0, <3>2
    <3>5. a = last * BlockBytes + j
      BY <1>0, <2>4, <3>1, <3>2, <3>3, <3>4
    <3>6. (last * BlockBytes + j) \div BlockBytes = last
      BY <1>0, <2>4, BlockArithmetic
    <3> QED
      BY <2>5, <3>5, <3>6
  <2> QED
    BY <2>2, <2>6
<1>5. CASE SkipSegment \/ Publish \/ UNCHANGED vars
  BY <1>5 DEF SkipSegment, Publish, vars
<1>6. ASSUME NEW f \in Files, Reject(f) PROVE mem'[a] = mem[a]
  BY <1>6 DEF Reject
<1> QED
  BY <1>1, <1>2, <1>3, <1>4, <1>5, <1>6 DEF Next

-----------------------------------------------------------------------------
(* Segments *)

PageOf(f, s) == Segments(f)[s].vaddr \div BlockBytes

\* The segments that ImageInPlace speaks of and that have a byte.
Counts(f, s) == Alone(f, s) /\ Segments(f)[s].memsz > 0

\* A block holds a segment.
Holds(b, f, s) ==
  /\ Segments(f)[s].memsz <= BlockBytes
  /\ \A k \in 0 .. (Segments(f)[s].memsz - 1) :
       mem[b * BlockBytes + k] =
         IF k < Segments(f)[s].filesz THEN FileByte(f, s, k) ELSE Zero

InPlace(m, f, s) == PageOf(f, s) \in DOMAIN m /\ Holds(m[PageOf(f, s)], f, s)

Loaded ==
  \A n \in DOMAIN processes : \A s \in DOMAIN Segments(processes[n].file) :
    Counts(processes[n].file, s) => InPlace(processes[n].map, processes[n].file, s)

\* The segments of the process that is being loaded, as far as run_elf is.
Loading ==
  /\ pc \in {"segments", "publish"} =>
       \A s \in DOMAIN Segments(file) :
         s < next /\ Counts(file, s) =>
           InPlace(map, file, s) /\ map[PageOf(file, s)] \notin StackRun
  /\ pc = "publish" => next > Len(Segments(file))

ContentInv == Sound => Loaded /\ Loading

\* The fields of a program header are numbers.
LEMMA SegmentType ==
  ASSUME NEW f \in Files, NEW s \in DOMAIN Segments(f)
  PROVE  /\ Segments(f)[s].vaddr \in Nat
         /\ Segments(f)[s].filesz \in Nat /\ Segments(f)[s].memsz \in Nat
         /\ Segments(f)[s].filesz <= Segments(f)[s].memsz
         /\ s \in Nat /\ Len(Segments(f)) \in Nat /\ DOMAIN Segments(f) = 1 .. Len(Segments(f))
<1>1. ElfFile(Image[f])
  BY LoaderAssumption
<1>2. Segments(f) \in Seq(ProgramHeader)
  BY <1>1 DEF ElfFile, Segments
<1>3. Segments(f)[s] \in ProgramHeader
  BY <1>2
<1>4. Image[f].segments[s].filesz <= Image[f].segments[s].memsz
  BY <1>1 DEF ElfFile, Segments
<1>5. Segments(f)[s].filesz <= Segments(f)[s].memsz
  BY <1>4 DEF Segments
<1>6. s \in Nat /\ Len(Segments(f)) \in Nat /\ DOMAIN Segments(f) = 1 .. Len(Segments(f))
  BY <1>2
<1> QED
  BY <1>3, <1>5, <1>6 DEF ProgramHeader

\* A block outside of scratch memory goes on holding its segment.
LEMMA HoldsStill ==
  ASSUME TypeInv, ApartInv, MemInv, [Next]_vars, ~exhausted', ~overrun',
         NEW b \in Blocks, b \notin Scratch,
         NEW f \in Files, NEW s \in DOMAIN Segments(f), Holds(b, f, s)
  PROVE  Holds(b, f, s)'
<1>1. BlockBytes \in Nat \ {0} /\ Segments(f)[s].memsz \in Nat
  BY LoaderAssumption, SegmentType
<1>2. ASSUME NEW k \in 0 .. (Segments(f)[s].memsz - 1)
      PROVE  mem'[b * BlockBytes + k] = mem[b * BlockBytes + k]
  <2>1. k \in 0 .. (BlockBytes - 1)
    BY <1>1 DEF Holds
  <2>2. /\ b * BlockBytes + k \in Addresses
        /\ (b * BlockBytes + k) \div BlockBytes = b
    BY <2>1, InMemory
  <2> QED
    BY <2>2, Untouched
<1> QED
  BY <1>2 DEF Holds

\* What a map has in place, in blocks outside of scratch memory, stays there.
LEMMA InPlaceStill ==
  ASSUME TypeInv, ApartInv, MemInv, [Next]_vars, ~exhausted', ~overrun',
         NEW m, NEW f \in Files, NEW s \in DOMAIN Segments(f), InPlace(m, f, s),
         MappedBlocks(m) \subseteq Blocks, m[PageOf(f, s)] \notin Scratch
  PROVE  InPlace(m, f, s)'
<1>1. PICK b : b = m[PageOf(f, s)]
  OBVIOUS
<1>2. b \in Blocks /\ b \notin Scratch /\ Holds(b, f, s)
  BY <1>1 DEF InPlace, MappedBlocks
<1>3. Holds(b, f, s)'
  BY <1>2, HoldsStill
<1> QED
  BY <1>1, <1>3 DEF InPlace, PageOf, Segments

\* No step takes back that memory ran out or a segment did not fit.
LEMMA SoundBefore == ASSUME TypeInv, [Next]_vars, Sound' PROVE Sound
<1>1. ~exhausted' /\ ~overrun'
  BY DEF Sound
<1>2. CASE Stack
  BY <1>1, <1>2 DEF Stack, TakeAndMap, Sound
<1>3. CASE LoadSegment
  BY <1>1, <1>3 DEF LoadSegment, TakeAndMap, Sound
<1>4. CASE SkipSegment \/ Frame \/ Publish \/ UNCHANGED vars
  BY <1>1, <1>4 DEF SkipSegment, Frame, Publish, vars, Sound
<1>5. ASSUME NEW f \in Files, Reject(f) PROVE Sound
  BY <1>1, <1>5 DEF Reject, Sound
<1>6. ASSUME NEW f \in Files, NewSpace(f) PROVE Sound
  <2>1. ~overrun
    BY <1>1, <1>6 DEF NewSpace
  <2>2. ~exhausted
    BY <1>1, <1>6 DEF NewSpace
  <2> QED
    BY <2>1, <2>2 DEF Sound
<1> QED
  BY <1>2, <1>3, <1>4, <1>5, <1>6 DEF Next

\* Memory stays memory.
LEMMA MemStep == MemInv /\ [Next]_vars => MemInv'
<1> SUFFICES ASSUME MemInv, [Next]_vars PROVE DOMAIN mem' = Addresses
  BY DEF MemInv, Addresses
<1>1. CASE Stack
  BY <1>1 DEF Stack, ClearedFor, Cleared
<1>2. CASE LoadSegment
  BY <1>2 DEF LoadSegment, Filled
<1>3. CASE SkipSegment \/ Frame \/ Publish \/ UNCHANGED vars
  BY <1>3 DEF SkipSegment, Frame, Publish, vars, MemInv
<1>4. ASSUME NEW f \in Files, Reject(f) \/ NewSpace(f) PROVE DOMAIN mem' = Addresses
  BY <1>4 DEF Reject, NewSpace, Cleared, MemInv
<1> QED
  BY <1>1, <1>2, <1>3, <1>4 DEF Next

\* Loading other processes leaves those that are loaded in place.
LEMMA LoadedStill ==
  ASSUME TypeInv, ApartInv, MemInv, [Next]_vars, Sound', Loaded, processes' = processes
  PROVE  Loaded'
<1>1. Apart /\ ~exhausted' /\ ~overrun'
  BY SoundBefore DEF Sound, ApartInv
<1>2. ASSUME NEW n \in DOMAIN processes, NEW s \in DOMAIN Segments(processes[n].file),
             Counts(processes[n].file, s)
      PROVE  InPlace(processes[n].map, processes[n].file, s)'
  <2>1. PICK m, f : m = processes[n].map /\ f = processes[n].file
    OBVIOUS
  <2>2. f \in Files
    BY <1>2, <2>1, ProcessType
  <2>3. InPlace(m, f, s)
    BY <1>2, <2>1 DEF Loaded
  <2>4. MappedBlocks(m) \subseteq Blocks \ (free \cup Mine)
    BY <1>1, <2>1 DEF Apart, BlocksOf
  <2>5. m[PageOf(f, s)] \in MappedBlocks(m)
    BY <2>3 DEF InPlace, MappedBlocks
  <2>6. Scratch \subseteq free \cup Mine
    BY DEF Scratch, Mine
  <2>7. MappedBlocks(m) \subseteq Blocks /\ m[PageOf(f, s)] \notin Scratch
    BY <2>4, <2>5, <2>6
  <2>8. s \in DOMAIN Segments(f)
    BY <2>1
  <2>9. InPlace(m, f, s)'
    BY <1>1, <2>2, <2>3, <2>7, <2>8, InPlaceStill
  <2> QED
    BY <2>1, <2>9 DEF InPlace, Holds, PageOf, Segments
<1>3. \A f, s : Counts(f, s)' <=> Counts(f, s)
  BY DEF Counts, Alone, Segments, Pages, StackPages
<1>4. \A f : Segments(f)' = Segments(f)
  BY DEF Segments
<1> QED
  BY <1>2, <1>3, <1>4 DEF Loaded

\* The segment that is loaded is in place, in a block that is not the stack's.
LEMMA SegmentInPlace ==
  ASSUME TypeInv, Apart, LoadSegment, Sound', NEW f, f = file, NEW s, s = next
  PROVE  InPlace(map, f, s)' /\ map'[PageOf(f, s)] \notin StackRun
<1>1. PICK b, page : b = Got(1, free) /\ page = Current.vaddr \div BlockBytes
  OBVIOUS
<1>2. AtSegment /\ Current.memsz > 0 /\ ~exhausted' /\ ~overrun' /\ pc = "segments"
  BY DEF LoadSegment, Sound, AtSegment
<1>3. b \in free /\ map' = Mapped([v \in {page} |-> b])
  BY <1>1, <1>2, LoadTakes
<1>4. PageOf(file, next) = page
  BY <1>1 DEF PageOf, Current
<1>5. page \in DOMAIN map' /\ map'[page] = b
  BY <1>3 DEF Mapped
<1>6. b \notin StackRun
  BY <1>2, <1>3 DEF Apart, Mine
<1>7. /\ Current.filesz \in Nat /\ Current.memsz \in Nat /\ Current = Segments(file)[next]
      /\ BlockBytes \in Nat \ {0} /\ b \in Blocks /\ b \in Nat
  <2>1. b \in Blocks
    BY <1>3 DEF TypeInv
  <2> QED
    BY <1>2, <2>1, CurrentType, LoaderAssumption DEF Current, Blocks
<1>8. ALIGNUP(Current.memsz) = 1
  BY <1>2, <1>7 DEF ALIGNUP
<1>9. Current.memsz <= BlockBytes
  <2>1. ~(Current.memsz > 1 * BlockBytes)
    BY <1>2, <1>8 DEF LoadSegment
  <2> QED
    BY <1>7, <2>1
<1>10. PICK j : mem' = Filled(ClearedFor(1, j), b, next)
  BY <1>1, <1>8 DEF LoadSegment
<1>11. ASSUME NEW k \in 0 .. (Current.memsz - 1)
       PROVE  mem'[b * BlockBytes + k] =
                IF k < Current.filesz THEN FileByte(file, next, k) ELSE Zero
  <2>1. b * BlockBytes + k \in Addresses
    <3>1. k \in 0 .. (BlockBytes - 1)
      BY <1>7, <1>9
    <3> QED
      BY <1>7, <3>1, InMemory
  <2>2. (b * BlockBytes + k) - b * BlockBytes = k
    BY <1>7
  <2>3. mem'[b * BlockBytes + k] =
          IF k \in 0 .. (Current.filesz - 1) THEN FileByte(file, next, k)
          ELSE IF k \in Current.filesz .. (Current.memsz - 1) THEN Zero
          ELSE ClearedFor(1, j)[b * BlockBytes + k]
    BY <1>7, <1>10, <2>1, <2>2 DEF Filled
  <2>4. CASE k < Current.filesz
    <3>1. k \in 0 .. (Current.filesz - 1)
      BY <1>7, <2>4
    <3> QED
      BY <2>3, <2>4, <3>1
  <2>5. CASE ~(k < Current.filesz)
    <3>1. k \notin 0 .. (Current.filesz - 1) /\ k \in Current.filesz .. (Current.memsz - 1)
      BY <1>7, <2>5
    <3> QED
      BY <2>3, <2>5, <3>1
  <2> QED
    BY <2>4, <2>5
<1>12. Holds(b, f, s)'
  BY <1>7, <1>9, <1>11 DEF Holds, Segments
<1>13. InPlace(map, f, s)'
  BY <1>4, <1>5, <1>12 DEF InPlace, PageOf, Segments
<1> QED
  BY <1>4, <1>5, <1>6, <1>13

\* What the current process has in place so far stays where it is.
LEMMA LoadingKept ==
  ASSUME TypeInv, ApartInv, MemInv, [Next]_vars, Sound', Loading,
         pc \in {"segments", "publish"}, NEW m, m = map,
         NEW f, f = file, NEW s \in DOMAIN Segments(f), s < next, Counts(f, s)
  PROVE  InPlace(m, f, s)' /\ m[PageOf(f, s)] \notin StackRun
<1>1. Apart /\ ~exhausted' /\ ~overrun'
  BY SoundBefore DEF Sound, ApartInv
<1>2. InPlace(m, f, s) /\ m[PageOf(f, s)] \notin StackRun
  BY DEF Loading
<1>3. m[PageOf(f, s)] \in MappedBlocks(m)
  BY <1>2 DEF InPlace, MappedBlocks
<1>4. MappedBlocks(m) \subseteq Blocks \ free
  BY <1>1 DEF Apart, Mine
<1>5. m[PageOf(f, s)] \notin Scratch
  BY <1>2, <1>3, <1>4 DEF Scratch
<1>6. f \in Files
  BY DEF TypeInv
<1> QED
  BY <1>1, <1>2, <1>4, <1>5, <1>6, InPlaceStill

\* What Loading says after a step, of the file and the map there are then.
LEMMA LoadingAfter ==
  ASSUME NEW f, f = file', NEW m, m = map',
         pc' \in {"segments", "publish"} =>
           \A s \in DOMAIN Segments(f) :
             s < next' /\ Counts(f, s) =>
               InPlace(m, f, s)' /\ m[PageOf(f, s)] \notin StackRun',
         pc' = "publish" => next' > Len(Segments(f))
  PROVE  Loading'
BY DEF Loading, Counts, Alone, Segments, Pages, StackPages, InPlace, Holds, PageOf

\* A step that moves on in the file, or not at all, keeps what is in place.
LEMMA LoadingGoesOn ==
  ASSUME TypeInv, ApartInv, MemInv, [Next]_vars, Sound', Loading,
         file' = file, map' = map, stackregion' = stackregion,
         pc \in {"segments", "publish"},
         \A s \in DOMAIN Segments(file) : s < next' /\ Counts(file, s) => s < next,
         pc' = "publish" => next' > Len(Segments(file))
  PROVE  Loading'
<1>1. PICK f, m : f = file /\ m = map
  OBVIOUS
<1>2. StackRun' = StackRun
  BY DEF StackRun, Run
<1>3. ASSUME NEW s \in DOMAIN Segments(f), s < next', Counts(f, s)
      PROVE  InPlace(m, f, s)' /\ m[PageOf(f, s)] \notin StackRun'
  <2>1. s < next
    BY <1>1, <1>3
  <2> QED
    BY <1>1, <1>2, <1>3, <2>1, LoadingKept
<1> QED
  BY <1>1, <1>3, LoadingAfter

\* A segment that is alone in its pages is not where another is loaded.
LEMMA OtherPage ==
  ASSUME TypeInv, AtSegment, Current.load, Current.memsz > 0, NEW f, f = file,
         NEW s \in DOMAIN Segments(f), s # next, Counts(f, s)
  PROVE  PageOf(f, s) # PageOf(f, next)
<1>1. f \in Files /\ next \in DOMAIN Segments(f) /\ Current = Segments(f)[next]
  BY CurrentType DEF TypeInv, Current
<1>2. PageOf(f, next) \in Pages(Segments(f)[next])
  BY <1>1, SegmentType DEF PageOf, Pages
<1>3. PageOf(f, s) \in Pages(Segments(f)[s])
  BY <1>1, SegmentType DEF PageOf, Pages, Counts
<1>4. Pages(Segments(f)[s]) \cap Pages(Segments(f)[next]) = {}
  BY <1>1 DEF Counts, Alone
<1> QED
  BY <1>2, <1>3, <1>4

\* Every step keeps the part of the program that is loaded in place.
LEMMA LoadingStep ==
  ASSUME TypeInv, ApartInv, MemInv, [Next]_vars, Sound', Loading
  PROVE  Loading'
<1>0. next \in Nat \ {0} /\ file \in Files
  BY DEF TypeInv
<1>1. CASE pc' \notin {"segments", "publish"}
  BY <1>1 DEF Loading
<1>2. CASE Stack
  <2>1. pc' = "segments" /\ next' = 1 /\ file' = file
    BY <1>2 DEF Stack
  <2>2. PICK f, m : f = file' /\ m = map'
    OBVIOUS
  <2>3. \A s \in DOMAIN Segments(f) : ~(s < 1)
    BY <1>0, <2>1, <2>2, SegmentType
  <2> QED
    BY <2>1, <2>2, <2>3, LoadingAfter
<1>3. CASE SkipSegment
  <2>1. /\ file' = file /\ map' = map /\ stackregion' = stackregion /\ pc' = pc
        /\ pc = "segments" /\ next' = next + 1
        /\ ~Current.load \/ Current.memsz = 0
    BY <1>3 DEF SkipSegment, AtSegment
  <2>2. ~Counts(file, next)
    BY <2>1 DEF Counts, Alone, Current
  <2>3. \A s \in DOMAIN Segments(file) : s < next' /\ Counts(file, s) => s < next
    BY <1>0, <2>1, <2>2, SegmentType
  <2> QED
    BY <2>1, <2>3, LoadingGoesOn
<1>4. CASE LoadSegment
  <2>1. /\ pc = "segments" /\ pc' = "segments" /\ next' = next + 1 /\ file' = file
        /\ stackregion' = stackregion /\ AtSegment /\ Current.load /\ Current.memsz > 0
    BY <1>4 DEF LoadSegment, AtSegment
  <2>2. Apart /\ ~exhausted'
    BY SoundBefore DEF Sound, ApartInv
  <2>3. PICK f, m, old, last, page, b :
          /\ f = file /\ m = map' /\ old = map /\ last = next
          /\ page = Current.vaddr \div BlockBytes /\ b = Got(1, free)
    OBVIOUS
  <2>4. StackRun' = StackRun
    BY <2>1 DEF StackRun, Run
  <2>5. m = Mapped([v \in {page} |-> b]) /\ page = PageOf(f, last)
    BY <1>4, <2>2, <2>3, LoadTakes DEF PageOf, Current
  <2>6. ASSUME NEW s \in DOMAIN Segments(f), s < next', Counts(f, s)
        PROVE  InPlace(m, f, s)' /\ m[PageOf(f, s)] \notin StackRun'
    <3>1. CASE s = last
      <4>1. InPlace(map, f, s)' /\ map'[PageOf(f, s)] \notin StackRun
        BY <1>4, <2>2, <2>3, <3>1, SegmentInPlace
      <4> QED
        BY <2>3, <2>4, <4>1 DEF InPlace
    <3>2. CASE s # last
      <4>1. s < next
        BY <1>0, <2>1, <2>3, <2>6, <3>2, SegmentType
      <4>2. InPlace(old, f, s)' /\ old[PageOf(f, s)] \notin StackRun
        BY <2>1, <2>3, <2>6, <4>1, LoadingKept
      <4>3. PageOf(f, s) # page
        BY <2>1, <2>3, <2>5, <2>6, <3>2, OtherPage
      <4>4. PageOf(f, s) \in DOMAIN old
        BY <4>2 DEF InPlace, PageOf, Segments
      <4>5. PageOf(f, s) \in DOMAIN m /\ m[PageOf(f, s)] = old[PageOf(f, s)]
        BY <2>3, <2>5, <4>3, <4>4 DEF Mapped
      <4> QED
        BY <2>4, <4>2, <4>5 DEF InPlace, PageOf, Segments
    <3> QED
      BY <3>1, <3>2
  <2> QED
    BY <2>1, <2>3, <2>6, LoadingAfter
<1>5. CASE Frame
  <2>1. /\ pc = "segments" /\ file' = file /\ map' = map /\ stackregion' = stackregion
        /\ next' = next /\ next > Len(Segments(file))
    BY <1>5 DEF Frame
  <2> QED
    BY <2>1, LoadingGoesOn
<1>6. CASE Publish
  BY <1>1, <1>6 DEF Publish
<1>7. CASE (\E f \in Files : Reject(f) \/ NewSpace(f))
  BY <1>1, <1>7 DEF Reject, NewSpace
<1>8. CASE UNCHANGED vars
  <2>1. /\ file' = file /\ map' = map /\ stackregion' = stackregion
        /\ next' = next /\ pc' = pc
    BY <1>8 DEF vars
  <2>2. pc = "publish" => next > Len(Segments(file))
    BY DEF Loading
  <2> QED
    BY <1>1, <2>1, <2>2, LoadingGoesOn
<1> QED
  BY <1>2, <1>3, <1>4, <1>5, <1>6, <1>7, <1>8 DEF Next

\* What a process is given when it is published is what was loaded.
LEMMA LoadedStep ==
  ASSUME TypeInv, ApartInv, MemInv, [Next]_vars, Sound', Loaded, Loading
  PROVE  Loaded'
<1>1. CASE processes' = processes
  BY <1>1, LoadedStill
<1>2. CASE Publish
  <2>1. /\ mem' = mem /\ pc = "publish" /\ next > Len(Segments(file))
        /\ processes' = Append(processes, [file |-> file, map |-> map])
    BY <1>2 DEF Publish, Loading
  <2>2. PICK new : new = Len(processes) + 1
    OBVIOUS
  <2>3. /\ DOMAIN processes' = DOMAIN processes \cup {new}
        /\ processes'[new] = [file |-> file, map |-> map]
        /\ \A n \in DOMAIN processes : processes'[n] = processes[n]
    BY <2>1, <2>2 DEF TypeInv
  <2>4. \A m, f, s : InPlace(m, f, s)' = InPlace(m, f, s)
    BY <2>1 DEF InPlace, Holds, PageOf, Segments
  <2>5. ASSUME NEW s \in DOMAIN Segments(file), Counts(file, s)
        PROVE  InPlace(map, file, s)
    <3>1. file \in Files /\ next \in Nat
      BY DEF TypeInv
    <3>2. s < next
      BY <2>1, <3>1, SegmentType
    <3> QED
      BY <2>1, <2>5, <3>2 DEF Loading
  <2>6. ASSUME NEW n \in DOMAIN processes', NEW m, NEW f,
               m = processes'[n].map, f = processes'[n].file,
               NEW s \in DOMAIN Segments(f), Counts(f, s)
        PROVE  InPlace(m, f, s)
    <3>1. CASE n = new
      <4>1. m = map /\ f = file
        BY <2>3, <2>6, <3>1
      <4> QED
        BY <2>5, <2>6, <4>1
    <3>2. CASE n \in DOMAIN processes
      <4>1. m = processes[n].map /\ f = processes[n].file
        BY <2>3, <2>6, <3>2
      <4> QED
        BY <2>6, <3>2, <4>1 DEF Loaded
    <3> QED
      BY <2>3, <3>1, <3>2
  <2>7. ASSUME NEW n \in DOMAIN processes',
               NEW s \in DOMAIN Segments(processes'[n].file), Counts(processes'[n].file, s)
        PROVE  InPlace(processes[n].map, processes[n].file, s)'
    <3>1. PICK m, f : m = processes'[n].map /\ f = processes'[n].file
      OBVIOUS
    <3>2. InPlace(m, f, s)
      BY <2>6, <2>7, <3>1
    <3> QED
      BY <2>1, <3>1, <3>2 DEF InPlace, Holds, PageOf, Segments
  <2> QED
    BY <2>7 DEF Loaded, Counts, Alone, Segments, Pages, StackPages
<1>3. processes' = processes \/ Publish
  BY DEF Next, Reject, NewSpace, Stack, SkipSegment, LoadSegment, Frame, vars
<1> QED
  BY <1>1, <1>2, <1>3

\* Segments stay in place, as long as memory lasts and they fit.
LEMMA ContentStep ==
  TypeInv /\ ApartInv /\ MemInv /\ ContentInv /\ [Next]_vars => ContentInv'
<1> SUFFICES ASSUME TypeInv, ApartInv, MemInv, ContentInv, [Next]_vars, Sound'
             PROVE  Loaded' /\ Loading'
  BY DEF ContentInv
<1>1. Loaded /\ Loading
  BY SoundBefore DEF ContentInv
<1> QED
  BY <1>1, LoadedStep, LoadingStep

\* At first there is nothing to be in place.
LEMMA ContentInit == Init => MemInv /\ ContentInv
<1> SUFFICES ASSUME Init PROVE MemInv /\ Loaded /\ Loading
  BY DEF ContentInv
<1>1. MemInv
  BY DEF Init, MemInv
<1>2. DOMAIN processes = {} /\ pc = "idle"
  BY DEF Init
<1> QED
  BY <1>1, <1>2 DEF Loaded, Loading

\* Every process finds the segments of its file in place, the bytes of the
\* file and then zeroes, however many processes are loaded after it: for
\* segments that begin a page and share it with nothing, while memory lasts
\* and no segment is longer than a block.
THEOREM ImageInPlaceCorrect == Spec => []ImageInPlace
<1>1. TypeInv /\ ContentInv => ImageInPlace
  <2> SUFFICES ASSUME TypeInv, Loaded, NEW n \in DOMAIN processes,
                      NEW f, f = processes[n].file, NEW m, m = processes[n].map,
                      NEW s \in DOMAIN Segments(f), Alone(f, s),
                      NEW k \in 0 .. (Segments(f)[s].memsz - 1)
               PROVE  Finds(processes[n], Segments(f)[s].vaddr + k) =
                        IF k < Segments(f)[s].filesz THEN FileByte(f, s, k) ELSE Zero
    BY DEF ImageInPlace, ContentInv
  <2>1. f \in Files
    BY ProcessType
  <2>2. PICK seg : seg = Segments(f)[s]
    OBVIOUS
  <2>3. seg.vaddr \in Nat /\ seg.memsz \in Nat /\ seg.vaddr % BlockBytes = 0
    BY <2>1, <2>2, SegmentType DEF Alone
  <2>4. Counts(f, s)
    BY <2>2, <2>3 DEF Counts
  <2>5. Holds(m[PageOf(f, s)], f, s)
    BY <2>4 DEF Loaded, InPlace
  <2>6. BlockBytes \in Nat \ {0} /\ seg.memsz <= BlockBytes
    BY <2>2, <2>5, LoaderAssumption DEF Holds
  <2>7. k \in 0 .. (BlockBytes - 1)
    BY <2>2, <2>3, <2>6
  <2>8. /\ (seg.vaddr + k) \div BlockBytes = PageOf(f, s)
        /\ (seg.vaddr + k) % BlockBytes = k
    BY <2>2, <2>3, <2>7, InPage DEF PageOf
  <2>9. Finds(processes[n], seg.vaddr + k) = mem[m[PageOf(f, s)] * BlockBytes + k]
    BY <2>8 DEF Finds
  <2> QED
    BY <2>2, <2>5, <2>9 DEF Holds
<1>2. /\ TypeInv /\ ApartInv /\ MemInv /\ ContentInv /\ [Next]_vars
      => TypeInv' /\ ApartInv' /\ MemInv' /\ ContentInv'
  BY TypeStep, ApartStep, MemStep, ContentStep
<1> QED
  BY <1>1, <1>2, TypeInit, ApartInit, ContentInit, PTL DEF Spec

-----------------------------------------------------------------------------
(* Frames *)

\* A block ends with the frame of a process that runs a file.
Framed(b, f) ==
  \A k \in 0 .. (StateBytes - 1) :
    mem[b * BlockBytes + (BlockBytes - StateBytes + k)] = StateByte(f, k)

FrameIn(m, f) == TopPage \in DOMAIN m /\ Framed(m[TopPage], f)

\* The stack's page of the current map, and the frame once it is written.
FrameSoFar ==
  /\ pc \in {"segments", "publish"} => TopPage \in DOMAIN map /\ map[TopPage] = stackregion
  /\ pc = "publish" => Framed(stackregion, file)

FramesKept == \A n \in DOMAIN processes : FrameIn(processes[n].map, processes[n].file)

FrameInv == Sound => FrameSoFar /\ FramesKept

\* What the files must be for the frame to be found: no segment is loaded
\* into the stack's page, and the stack, whose blocks are mapped downwards
\* while the frame is copied to the end of the run, is one block, which is
\* how _start calls run_elf.
StackIsOwn ==
  /\ StackBlocks = 1
  /\ \A f \in Files : \A s \in DOMAIN Segments(f) :
       Segments(f)[s].load => PageOf(f, s) # TopPage

\* A block outside of scratch memory goes on ending with its frame.
LEMMA FramedStill ==
  ASSUME TypeInv, ApartInv, MemInv, [Next]_vars, ~exhausted', ~overrun',
         NEW b \in Blocks, b \notin Scratch, NEW f, Framed(b, f)
  PROVE  Framed(b, f)'
<1>1. StateBytes \in 1 .. BlockBytes /\ BlockBytes \in Nat \ {0}
  BY LoaderAssumption
<1>2. ASSUME NEW k \in 0 .. (StateBytes - 1)
      PROVE  mem'[b * BlockBytes + (BlockBytes - StateBytes + k)] =
               mem[b * BlockBytes + (BlockBytes - StateBytes + k)]
  <2>1. PICK j \in 0 .. (BlockBytes - 1) : j = BlockBytes - StateBytes + k
    BY <1>1
  <2>2. /\ b * BlockBytes + j \in Addresses
        /\ (b * BlockBytes + j) \div BlockBytes = b
    BY InMemory
  <2> QED
    BY <2>1, <2>2, Untouched
<1> QED
  BY <1>2 DEF Framed

\* The frame is written to the end of the stack's block.
LEMMA FrameWritten ==
  ASSUME TypeInv, ApartInv, Frame, Sound, StackBlocks = 1, NEW f, f = file
  PROVE  Framed(stackregion, f)'
<1>1. StateBytes \in 1 .. BlockBytes /\ BlockBytes \in Nat \ {0}
  BY LoaderAssumption
<1>2. Apart /\ pc = "segments" /\ stackregion \in Nat /\ stackregion' = stackregion
  BY DEF ApartInv, Sound, Frame, TypeInv
<1>3. stackregion \in Blocks
  <2>1. stackregion \in StackRun
    BY <1>2 DEF StackRun, Run
  <2> QED
    BY <1>2, <2>1 DEF Apart, Mine
<1>4. PICK base : base = stackregion * BlockBytes
  OBVIOUS
<1>5. base \in Nat
  BY <1>1, <1>2, <1>4
<1>6. FrameStart = base + BlockBytes - StateBytes
  BY <1>1, <1>2, <1>4 DEF FrameStart
<1>7. ASSUME NEW k \in 0 .. (StateBytes - 1)
      PROVE  mem'[base + (BlockBytes - StateBytes + k)] = StateByte(f, k)
  <2>1. PICK j \in 0 .. (BlockBytes - 1) : j = BlockBytes - StateBytes + k
    BY <1>1
  <2>2. base + j \in Addresses
    BY <1>3, <1>4, InMemory
  <2>3. (base + j) - FrameStart = k
    BY <1>1, <1>5, <1>6, <2>1
  <2>4. mem' = [a \in Addresses |->
                 IF a - FrameStart \in 0 .. (StateBytes - 1)
                 THEN StateByte(file, a - FrameStart) ELSE mem[a]]
    BY DEF Frame
  <2>5. mem'[base + j] = StateByte(file, k)
    BY <2>2, <2>3, <2>4
  <2> QED
    BY <2>1, <2>5
<1> QED
  BY <1>2, <1>4, <1>7 DEF Framed

\* Loading other processes leaves the frames of those that are loaded.
LEMMA FramesStill ==
  ASSUME TypeInv, ApartInv, MemInv, [Next]_vars, Sound', FramesKept, NEW n \in DOMAIN processes,
         NEW m, m = processes[n].map, NEW f, f = processes[n].file
  PROVE  FrameIn(m, f)'
<1>1. Apart /\ ~exhausted' /\ ~overrun'
  BY SoundBefore DEF Sound, ApartInv
<1>2. PICK b : b = m[TopPage]
  OBVIOUS
<1>3. TopPage \in DOMAIN m /\ Framed(b, f)
  BY <1>2 DEF FramesKept, FrameIn
<1>4. b \in BlocksOf(n)
  BY <1>2, <1>3 DEF BlocksOf, MappedBlocks
<1>5. b \in Blocks /\ b \notin Scratch
  BY <1>1, <1>4 DEF Apart, Scratch, Mine
<1>6. Framed(b, f)'
  BY <1>1, <1>3, <1>5, FramedStill
<1> QED
  BY <1>2, <1>3, <1>6 DEF FrameIn

\* The stack's page is mapped to the stack's block, which gets the frame.
LEMMA FrameSoFarStep ==
  ASSUME TypeInv, ApartInv, MemInv, [Next]_vars, Sound', FrameSoFar, StackIsOwn
  PROVE  FrameSoFar'
<1>0. Sound /\ StackBlocks = 1 /\ TopPage \in Nat
  BY SoundBefore, LoaderAssumption DEF StackIsOwn
<1>1. CASE pc' \notin {"segments", "publish"}
  BY <1>1 DEF FrameSoFar
<1>2. CASE Stack
  <2>1. PICK b : b = stackregion'
    OBVIOUS
  <2>2. b \in Nat
    <3>1. b = Got(StackBlocks, free) /\ StackBlocks \in Nat \ {0} /\ free \subseteq Blocks
      BY <1>2, <2>1, LoaderAssumption DEF Stack, TypeInv
    <3> QED
      BY <3>1, GotRun
  <2>3. map' = Mapped([v \in (TopPage - StackBlocks + 1) .. TopPage |-> b + (TopPage - v)])
    BY <1>2, <2>1 DEF Stack
  <2>4. TopPage \in (TopPage - StackBlocks + 1) .. TopPage /\ b + (TopPage - TopPage) = b
    BY <1>0, <2>2
  <2>5. TopPage \in DOMAIN map' /\ map'[TopPage] = b
    BY <2>3, <2>4 DEF Mapped
  <2> QED
    BY <1>2, <2>1, <2>5 DEF Stack, FrameSoFar
<1>3. CASE SkipSegment
  BY <1>3 DEF SkipSegment, AtSegment, FrameSoFar
<1>4. CASE LoadSegment
  <2>1. /\ pc = "segments" /\ pc' = "segments" /\ stackregion' = stackregion
        /\ AtSegment /\ Current.load
    BY <1>4 DEF LoadSegment, AtSegment
  <2>2. PICK b, page : b = Got(1, free) /\ page = Current.vaddr \div BlockBytes
    OBVIOUS
  <2>3. map' = Mapped([v \in {page} |-> b])
    BY <1>4, <2>2, LoadTakes DEF Sound
  <2>4. page # TopPage
    <3>1. next \in DOMAIN Segments(file) /\ file \in Files
      BY <2>1, CurrentType DEF TypeInv
    <3> QED
      BY <2>1, <2>2, <3>1 DEF StackIsOwn, PageOf, Current
  <2>5. TopPage \in DOMAIN map' /\ map'[TopPage] = stackregion
    BY <2>1, <2>3, <2>4 DEF Mapped, FrameSoFar
  <2> QED
    BY <2>1, <2>5 DEF FrameSoFar
<1>5. CASE Frame
  <2>1. PICK f : f = file
    OBVIOUS
  <2>2. Framed(stackregion, f)'
    BY <1>0, <1>5, <2>1, FrameWritten
  <2>3. /\ pc = "segments" /\ file' = file /\ map' = map /\ stackregion' = stackregion
    BY <1>5 DEF Frame
  <2> QED
    BY <2>1, <2>2, <2>3 DEF FrameSoFar, Framed
<1>6. CASE Publish
  BY <1>1, <1>6 DEF Publish
<1>7. CASE (\E f \in Files : Reject(f) \/ NewSpace(f))
  BY <1>1, <1>7 DEF Reject, NewSpace
<1>8. CASE UNCHANGED vars
  BY <1>8 DEF vars, FrameSoFar, Framed
<1> QED
  BY <1>2, <1>3, <1>4, <1>5, <1>6, <1>7, <1>8 DEF Next

\* A process that is published has its frame.
LEMMA FramesKeptStep ==
  ASSUME TypeInv, ApartInv, MemInv, [Next]_vars, Sound', FrameSoFar, FramesKept
  PROVE  FramesKept'
<1>1. ASSUME NEW n \in DOMAIN processes, processes'[n] = processes[n]
      PROVE  FrameIn(processes[n].map, processes[n].file)'
  <2>1. PICK m, f : m = processes[n].map /\ f = processes[n].file
    OBVIOUS
  <2>2. FrameIn(m, f)'
    BY <2>1, FramesStill
  <2> QED
    BY <1>1, <2>1, <2>2 DEF FrameIn, Framed
<1>2. CASE processes' = processes
  BY <1>1, <1>2 DEF FramesKept
<1>3. CASE Publish
  <2>1. /\ mem' = mem /\ pc = "publish"
        /\ processes' = Append(processes, [file |-> file, map |-> map])
    BY <1>3 DEF Publish
  <2>2. PICK new : new = Len(processes) + 1
    OBVIOUS
  <2>3. /\ DOMAIN processes' = DOMAIN processes \cup {new}
        /\ processes'[new] = [file |-> file, map |-> map]
        /\ \A n \in DOMAIN processes : processes'[n] = processes[n]
    BY <2>1, <2>2 DEF TypeInv
  <2>4. FrameIn(processes[new].map, processes[new].file)'
    BY <2>1, <2>3 DEF FrameSoFar, FrameIn, Framed
  <2>5. \A n \in DOMAIN processes : FrameIn(processes[n].map, processes[n].file)'
    BY <1>1, <2>3
  <2> QED
    BY <2>3, <2>4, <2>5 DEF FramesKept
<1>4. processes' = processes \/ Publish
  BY DEF Next, Reject, NewSpace, Stack, SkipSegment, LoadSegment, Frame, vars
<1> QED
  BY <1>2, <1>3, <1>4

\* The frame that the clock stub pops is where the process's rsp points, for
\* a stack of one block whose page no segment is loaded into.
THEOREM FrameAtRspCorrect == ASSUME StackIsOwn PROVE Spec => []FrameAtRsp
<1>1. TypeInv /\ FrameInv => FrameAtRsp
  <2> SUFFICES ASSUME FramesKept, NEW n \in DOMAIN processes,
                      NEW k \in 0 .. (StateBytes - 1)
               PROVE  Finds(processes[n], rsp + k) = StateByte(processes[n].file, k)
    BY DEF FrameAtRsp, FrameInv
  <2>1. StateBytes \in 1 .. BlockBytes /\ BlockBytes \in Nat \ {0} /\ TopPage \in Nat
    BY LoaderAssumption
  <2>2. PICK j \in 0 .. (BlockBytes - 1) : j = BlockBytes - StateBytes + k
    BY <2>1
  <2>3. rsp + k = TopPage * BlockBytes + j
    <3>1. PICK base \in Nat : base = TopPage * BlockBytes
      BY <2>1
    <3>2. (TopPage + 1) * BlockBytes = base + BlockBytes
      BY <2>1, <3>1
    <3> QED
      BY <2>1, <2>2, <3>1, <3>2 DEF rsp
  <2>4. (rsp + k) \div BlockBytes = TopPage /\ (rsp + k) % BlockBytes = j
    BY <2>1, <2>3, BlockArithmetic
  <2>5. Framed(processes[n].map[TopPage], processes[n].file)
    BY DEF FramesKept, FrameIn
  <2> QED
    BY <2>2, <2>4, <2>5 DEF Finds, Framed
<1>2. Init => FrameInv
  BY DEF Init, FrameInv, FrameSoFar, FramesKept
<1>3. TypeInv /\ ApartInv /\ MemInv /\ FrameInv /\ [Next]_vars => FrameInv'
  <2> SUFFICES ASSUME TypeInv, ApartInv, MemInv, FrameInv, [Next]_vars, Sound'
               PROVE  FrameSoFar' /\ FramesKept'
    BY DEF FrameInv
  <2>1. FrameSoFar /\ FramesKept
    BY SoundBefore DEF FrameInv
  <2> QED
    BY <2>1, FrameSoFarStep, FramesKeptStep
<1>4. /\ TypeInv /\ ApartInv /\ MemInv /\ FrameInv /\ [Next]_vars
      => TypeInv' /\ ApartInv' /\ MemInv' /\ FrameInv'
  BY <1>3, TypeStep, ApartStep, MemStep
<1>5. Init => MemInv
  BY ContentInit
<1> QED
  BY <1>1, <1>2, <1>4, <1>5, TypeInit, ApartInit, PTL DEF Spec

=============================================================================
