----------------------------- MODULE PMMProofs -----------------------------
(***************************************************************************)
(* What holds of the physical memory manager for every bitmap size, every  *)
(* memory map and every request.  pmalloc's search is right whatever is    *)
(* asked for; the bookkeeping is right, and what is held is usable memory, *)
(* when every request is for a single block, which is all that the         *)
(* kernel's boot path asks for, and as long as the memory of the bitmap    *)
(* itself has not been handed out.                                         *)
(***************************************************************************)
EXTENDS PMM, TLAPS

\* A region of one block is one bit: the block's own.
LEMMA RegionOfOne ==
  ASSUME NEW b \in Nat
  PROVE  RegionBits(b, 1) = {b}
<1>1. (b \div ByteBits) * ByteBits + (b % ByteBits) = b
  BY GeometryAssumption
<1>2. 0 .. (1 - 1) = {0}
  OBVIOUS
<1>3. RegionBits(b, 1) = {((b + k) \div ByteBits) * ByteBits + (b % ByteBits) : k \in {0}}
  BY <1>2 DEF RegionBits
<1> QED
  BY <1>1, <1>3

\* The bits of a region that lies inside the bitmap lie inside it too.
LEMMA RegionInside ==
  ASSUME NEW b \in Nat, NEW n \in Nat, NEW size \in Nat,
         b + n <= size * ByteBits
  PROVE  RegionBits(b, n) \subseteq 0 .. (size * ByteBits - 1)
<1> SUFFICES ASSUME NEW k \in 0 .. (n - 1)
             PROVE  ((b + k) \div ByteBits) * ByteBits + (b % ByteBits)
                       \in 0 .. (size * ByteBits - 1)
  BY DEF RegionBits
<1> DEFINE q == (b + k) \div ByteBits
           r == b % ByteBits
<1>1. q \in Nat /\ q * ByteBits <= b + k
  BY GeometryAssumption
<1>2. r \in Nat /\ r < ByteBits
  BY GeometryAssumption
<1>3. q < size
  <2>1. SUFFICES ASSUME q >= size PROVE FALSE
    BY <1>1
  <2>2. q * ByteBits >= size * ByteBits
    BY <1>1, <2>1, GeometryAssumption
  <2> QED
    BY <1>1, <2>2, GeometryAssumption
<1>4. (q + 1) * ByteBits <= size * ByteBits
  BY <1>1, <1>3, GeometryAssumption
<1>5. q * ByteBits \in Nat /\ (q + 1) * ByteBits = q * ByteBits + ByteBits
  BY <1>1, GeometryAssumption
<1>6. q * ByteBits + r \in Nat /\ q * ByteBits + r <= size * ByteBits - 1
  <2> HIDE DEF q, r
  <2> QED
    BY <1>1, <1>2, <1>4, <1>5, GeometryAssumption
<1> QED
  BY <1>6, GeometryAssumption

\* A region contains its first block, and never block 0 unless it starts there.
LEMMA RegionStart ==
  ASSUME NEW b \in Nat, NEW n \in Nat
  PROVE  /\ n > 0 => b \in RegionBits(b, n)
         /\ b # 0 => 0 \notin RegionBits(b, n)
<1>1. ASSUME n > 0 PROVE b \in RegionBits(b, n)
  <2>1. 0 \in 0 .. (n - 1) /\ b + 0 = b
    BY <1>1
  <2>2. ((b + 0) \div ByteBits) * ByteBits + (b % ByteBits) = b
    BY <2>1, GeometryAssumption
  <2> QED
    BY <2>1, <2>2 DEF RegionBits
<1>2. ASSUME b # 0, 0 \in RegionBits(b, n) PROVE FALSE
  <2>1. PICK k \in 0 .. (n - 1) :
          0 = ((b + k) \div ByteBits) * ByteBits + (b % ByteBits)
    BY <1>2 DEF RegionBits
  <2> DEFINE q == (b + k) \div ByteBits
             r == b % ByteBits
  <2>2. q \in Nat /\ r \in Nat /\ r < ByteBits
    BY GeometryAssumption
  <2>3. q * ByteBits \in Nat
    BY <2>2, GeometryAssumption
  <2>4. r = 0 /\ q * ByteBits = 0
    <3> HIDE DEF q, r
    <3> QED
      BY <2>1, <2>2, <2>3 DEF q, r
  <2>5. b + k < ByteBits
    <3>1. q = 0
      <4> HIDE DEF q
      <4> QED
        BY <2>2, <2>4, GeometryAssumption
    <3> QED
      BY <3>1, GeometryAssumption
  <2>6. b % ByteBits = b
    BY <2>5, GeometryAssumption
  <2> QED
    BY <1>2, <2>4, <2>6
<1> QED
  BY <1>1, <1>2

-----------------------------------------------------------------------------
(* The search: whatever the bitmap holds, whatever is asked for *)

\* Block counts, addresses and the bitmap's size are numbers.
LEMMA ToBlocksNat ==
  ASSUME NEW addr \in Nat
  PROVE  TOBLOCKS(addr) \in Nat
<1>1. addr % AlignBytes \in Nat /\ addr % AlignBytes <= addr
  BY GeometryAssumption
<1>2. ALIGN(addr) \in Nat
  BY <1>1 DEF ALIGN
<1> QED
  BY <1>2, GeometryAssumption DEF TOBLOCKS

\* What the memory map guarantees of an entry.
LEMMA EntryType ==
  ASSUME NEW m \in Memmaps, NEW e \in DOMAIN m
  PROVE  /\ m[e] \in [base : Nat, length : Nat, usable : BOOLEAN]
         /\ m[e].base \in Nat /\ m[e].length \in Nat
         /\ End(m[e]) \in Nat
<1> DEFINE Entries == [base : Nat, length : Nat, usable : BOOLEAN]
<1>1. m \in Seq(Entries)
  BY MemmapAssumption
<1>2. m[e] \in Entries
  <2> HIDE DEF Entries
  <2> QED
    BY <1>1
<1> QED
  BY <1>2 DEF End

\* The run that pmalloc is about to return ends at i.
LEMMA RunStartIs ==
  ASSUME TypeOK, LoopInv, call # Idle
  PROVE  /\ RunStart = i - freebl
         /\ RunStart \in Nat
BY GeometryAssumption DEF TypeOK, LoopInv, RunStart, Idle, Bits

\* pmm_init leaves no search under way.
LEMMA SearchInit ==
  Init => TypeOK /\ LoopInv
<1> SUFFICES ASSUME Init PROVE TypeOK /\ LoopInv
  OBVIOUS
<1>1. PICK past \in PastEnd : pmm_init(memmap, past)
  BY DEF Init
<1> DEFINE tops == {End(memmap[e]) : e \in DOMAIN memmap} \cup {past}
<1>2. PICK highestb \in tops, e \in DOMAIN memmap :
        /\ pmm_map_size = TOBLOCKS(highestb) \div ByteBits
        /\ mapbase = memmap[e].base
  BY <1>1 DEF pmm_init
<1>3. memmap \in Memmaps
  BY DEF Init
<1>4. highestb \in Nat
  BY <1>2, <1>3, EntryType, GeometryAssumption
<1>5. pmm_map_size \in Nat
  BY <1>2, <1>4, ToBlocksNat, GeometryAssumption
<1>6. mapbase \in Nat
  BY <1>2, <1>3, EntryType
<1>7. pmm_map \subseteq Bits
  BY <1>1 DEF pmm_init
<1>8. pmm_map_size * ByteBits \in Nat
  BY <1>5, GeometryAssumption
<1>9. TypeOK
  <2>1. i \in 0 .. (pmm_map_size * ByteBits)
    BY <1>8 DEF Init
  <2>2. held \subseteq [start : Nat, blocks : Requests]
    BY DEF Init
  <2> QED
    BY <1>3, <1>5, <1>6, <1>7, <2>1, <2>2 DEF Init, TypeOK
<1>10. LoopInv
  BY DEF Init, LoopInv
<1> QED
  BY <1>9, <1>10

\* The loop stays inside the bitmap and finds the first run that is free.
LEMMA SearchStep ==
  TypeOK /\ LoopInv /\ [Next]_vars => TypeOK' /\ LoopInv'
<1> SUFFICES ASSUME TypeOK, LoopInv, [Next]_vars
             PROVE  TypeOK' /\ LoopInv'
  OBVIOUS
<1> DEFINE size == pmm_map_size * ByteBits
<1>0. /\ size \in Nat
      /\ Requests \subseteq Nat \ {0}
      /\ i \in 0 .. size
  BY GeometryAssumption DEF TypeOK
<1>1. ASSUME NEW n \in Requests, Pmalloc(n)
      PROVE  TypeOK' /\ LoopInv'
  <2>1. TypeOK'
    BY <1>0, <1>1 DEF Pmalloc, TypeOK, layout, Bits
  <2>2. n \in Nat \ {0}
    BY <1>0
  <2> QED
    BY <1>1, <2>1, <2>2 DEF Pmalloc, LoopInv
<1>2. ASSUME ScanUsed
      PROVE  TypeOK' /\ LoopInv'
  <2>1. call \in Nat /\ call # Idle /\ i \in Nat /\ i < size
    BY <1>0, <1>2 DEF ScanUsed, Scanning, TypeOK, Idle
  <2>2. TypeOK'
    BY <1>0, <1>2, <2>1 DEF ScanUsed, TypeOK, layout, Bits
  <2>3. ASSUME NEW s \in 0 .. (i + 1 - call)
        PROVE  \E b \in s .. (s + call - 1) : b \in pmm_map
    <3>1. CASE s + call - 1 = i
      <4>1. i \in s .. (s + call - 1)
        BY <1>0, <2>1, <3>1 DEF Idle
      <4> QED
        BY <1>2, <4>1 DEF ScanUsed
    <3>2. CASE s + call - 1 # i
      <4>1. s \in 0 .. (i - call)
        BY <2>1, <3>2
      <4> QED
        BY <2>1, <4>1 DEF LoopInv
    <3> QED
      BY <3>1, <3>2
  <2>4. call > 0
    BY <1>0, <2>1 DEF Idle, TypeOK
  <2>5. LoopInv'
    BY <1>2, <2>1, <2>3, <2>4 DEF ScanUsed, LoopInv
  <2> QED
    BY <2>2, <2>5
<1>3. ASSUME ScanFree
      PROVE  TypeOK' /\ LoopInv'
  <2>1. call \in Nat /\ call # Idle /\ i \in Nat /\ i < size
    BY <1>0, <1>3 DEF ScanFree, Scanning, TypeOK, Idle
  <2>2. RunStart = i - freebl /\ RunStart \in Nat /\ freebl \in Nat
    BY <2>1, RunStartIs DEF TypeOK
  <2>3. TypeOK'
    BY <1>0, <1>3, <2>1, <2>2 DEF ScanFree, TypeOK, layout, Bits
  <2>4. freebl < call /\ freebl + 1 # call /\ freebl <= i
    BY <1>3, <2>1 DEF ScanFree, LoopInv
  <2>5. ASSUME NEW s \in 0 .. (i + 1 - call)
        PROVE  \E b \in s .. (s + call - 1) : b \in pmm_map
    <3>1. CASE s + call - 1 = i
      <4>1. i - freebl - 1 \in s .. (s + call - 1) /\ freebl < i
        BY <2>1, <2>2, <2>4, <3>1
      <4> QED
        BY <2>1, <4>1 DEF LoopInv
    <3>2. CASE s + call - 1 # i
      <4>1. s \in 0 .. (i - call)
        BY <2>1, <3>2
      <4> QED
        BY <2>1, <4>1 DEF LoopInv
    <3> QED
      BY <3>1, <3>2
  <2>6. \A b \in (i - freebl) .. i : b \notin pmm_map
    BY <1>3, <2>1, <2>2 DEF ScanFree, LoopInv
  <2>7. freebl < i => (i - freebl - 1) \in pmm_map
    BY <2>1 DEF LoopInv
  <2>8. /\ call' = call /\ i' = i + 1 /\ freebl' = freebl + 1
        /\ p' = i - freebl /\ pmm_map' = pmm_map
    BY <1>3, <2>2 DEF ScanFree
  <2>9. /\ i' - freebl' = i - freebl /\ i' - 1 = i
        /\ freebl' < call' /\ freebl' <= i' /\ (freebl' < i' => freebl < i)
    BY <2>1, <2>2, <2>4, <2>8
  <2>10. \A s \in 0 .. (i' - call') :
            \E b \in s .. (s + call' - 1) : b \in pmm_map'
    <3> SUFFICES ASSUME NEW s \in 0 .. (i' - call')
                 PROVE  \E b \in s .. (s + call' - 1) : b \in pmm_map'
      OBVIOUS
    <3>1. s \in 0 .. (i + 1 - call)
      BY <2>1, <2>8
    <3>2. PICK b \in s .. (s + call - 1) : b \in pmm_map
      BY <3>1, <2>5
    <3> QED
      BY <3>2, <2>8
  <2>11. /\ \A b \in (i' - freebl') .. (i' - 1) : b \notin pmm_map'
         /\ freebl' < i' => (i' - freebl' - 1) \in pmm_map'
    BY <2>6, <2>7, <2>8, <2>9
  <2>12. p' = i' - freebl'
    BY <2>8, <2>9
  <2>13. LoopInv'
    BY ONLY <2>9, <2>10, <2>11, <2>12 DEF LoopInv
  <2> QED
    BY <2>3, <2>13
<1>4. ASSUME ScanHit
      PROVE  TypeOK' /\ LoopInv'
  <2>1. call \in Requests /\ call \in Nat /\ i < size /\ call # Idle
    BY <1>0, <1>4 DEF ScanHit, Scanning, TypeOK, Idle
  <2>2. RunStart \in Nat /\ RunStart = i - freebl /\ freebl \in Nat
    BY <2>1, RunStartIs DEF TypeOK
  <2>3. freebl + 1 = call
    BY <1>4 DEF ScanHit
  <2>4. RunStart + call <= size
    BY <1>0, <2>1, <2>2, <2>3
  <2>5. RegionBits(RunStart, call) \subseteq Bits
    BY <2>1, <2>2, <2>4, RegionInside DEF TypeOK, Bits
  <2>6. pmm_map' \subseteq Bits /\ Bits' = Bits
    BY <1>4, <2>5 DEF ScanHit, TypeOK, layout, Bits
  <2>7. held' \subseteq [start : Nat, blocks : Requests]
    <3>1. [start |-> RunStart, blocks |-> call] \in [start : Nat, blocks : Requests]
      BY <2>1, <2>2
    <3> QED
      BY <1>4, <3>1 DEF ScanHit, TypeOK
  <2>8. lost' \in BOOLEAN
    BY <1>4 DEF ScanHit, TypeOK
  <2>9. /\ call' = Idle /\ i' = 0 /\ freebl' = 0 /\ p' = 0
        /\ UNCHANGED <<memmap, mapbase, pmm_map_size>>
    BY <1>4 DEF ScanHit, Return, layout
  <2>10. TypeOK'
    BY <1>0, <2>6, <2>7, <2>8, <2>9 DEF TypeOK
  <2> QED
    BY <2>9, <2>10 DEF LoopInv
<1>5. ASSUME ScanMiss
      PROVE  TypeOK' /\ LoopInv'
  BY <1>0, <1>5 DEF ScanMiss, Return, TypeOK, LoopInv, layout, Bits
<1>6. ASSUME NEW a \in held, Pfree(a)
      PROVE  TypeOK' /\ LoopInv'
  BY <1>6 DEF Pfree, TypeOK, LoopInv, layout, loop, Bits
<1>7. ASSUME NEW a \in held, CallerOverwrites(a)
      PROVE  TypeOK' /\ LoopInv'
  <2>1. BitsIn(Run(a)) \subseteq Bits
    BY DEF BitsIn
  <2> QED
    BY <1>7, <2>1 DEF CallerOverwrites, TypeOK, LoopInv, layout, loop, Bits
<1>8. CASE UNCHANGED vars
  BY <1>8 DEF vars, TypeOK, LoopInv, Bits
<1> QED
  BY <1>1, <1>2, <1>3, <1>4, <1>5, <1>6, <1>7, <1>8 DEF Next

\* pmalloc and pfree keep every variable in its type: no bit outside the
\* bitmap is ever read or set, whatever block counts callers ask for.
THEOREM TypeCorrect == Spec => []TypeOK
<1>1. Spec => [](TypeOK /\ LoopInv)
  BY SearchInit, SearchStep, PTL DEF Spec
<1> QED
  BY <1>1, PTL

\* pmalloc's loop invariant, for every bitmap and every request.
THEOREM SearchCorrect == Spec => []LoopInv
<1>1. Spec => [](TypeOK /\ LoopInv)
  BY SearchInit, SearchStep, PTL DEF Spec
<1> QED
  BY <1>1, PTL

\* pmalloc returns 0 only if no run of the requested length is free.
THEOREM RefusalCorrect == Spec => RefusedOnlyWhenFull
<1> DEFINE NoRun == \A s \in 0 .. (pmm_map_size * ByteBits - call) :
                      \E b \in s .. (s + call - 1) : b \in pmm_map
<1>1. TypeOK /\ LoopInv /\ ScanMiss => NoRun
  <2> SUFFICES ASSUME TypeOK, LoopInv, ScanMiss PROVE NoRun
    OBVIOUS
  <2>1. pmm_map_size * ByteBits \in Nat
    BY GeometryAssumption DEF TypeOK
  <2>2. i = pmm_map_size * ByteBits /\ call # Idle
    BY <2>1 DEF ScanMiss, Scanning, TypeOK
  <2> QED
    BY <2>2 DEF LoopInv
<1>2. Spec => [](TypeOK /\ LoopInv)
  BY SearchInit, SearchStep, PTL DEF Spec
<1>3. TypeOK /\ LoopInv /\ [Next]_vars => [ScanMiss => NoRun]_vars
  BY <1>1
<1> QED
  BY <1>2, <1>3, PTL DEF Spec, RefusedOnlyWhenFull

-----------------------------------------------------------------------------
(* Block 0: whatever is asked for *)

\* Block 0 stays marked, so nobody is ever given it, and while the bitmap is
\* intact nobody holds a part of it.
ZeroInv ==
  ~lost => /\ 0 \in Bits => 0 \in pmm_map
           /\ \A a \in held : a.start # 0 /\ BitsIn(Run(a)) = {}

\* The block that completes a run is the end of a run of free blocks.
LEMMA HitIsFree ==
  ASSUME TypeOK, LoopInv, ScanHit
  PROVE  /\ call \in Nat \ {0} /\ call \in Requests
         /\ RunStart \in Bits \ pmm_map
<1>1. call \in Nat \ {0} /\ call \in Requests /\ call # Idle
  BY GeometryAssumption DEF ScanHit, Scanning, TypeOK, Idle
<1>2. RunStart = i - freebl /\ RunStart \in Nat /\ freebl \in Nat
  BY <1>1, RunStartIs DEF TypeOK
<1>3. i \in Nat /\ i < pmm_map_size * ByteBits /\ i \notin pmm_map
  BY GeometryAssumption DEF ScanHit, Scanning, TypeOK
<1>4. RunStart \in Bits
  BY <1>2, <1>3, GeometryAssumption DEF Bits, TypeOK
<1>5. RunStart \notin pmm_map
  <2>1. CASE freebl = 0
    BY <1>3, <2>1 DEF RunStart
  <2>2. CASE freebl > 0
    BY <1>1, <1>2, <1>3, <2>2 DEF LoopInv
  <2> QED
    BY <1>2, <2>1, <2>2
<1> QED
  BY <1>1, <1>4, <1>5

\* pmm_init takes block 0 for the kernel.
LEMMA ZeroInit ==
  Init => ZeroInv
<1> SUFFICES ASSUME Init PROVE ZeroInv
  OBVIOUS
<1>1. memmap \in Memmaps /\ \E past \in PastEnd : pmm_init(memmap, past)
  BY DEF Init
<1>2. PICK e \in DOMAIN memmap :
        pmm_map = Bits \ UNION
          {RegionBits(TOBLOCKS(memmap[u].base), TOBLOCKS(memmap[u].length)) :
             u \in Unregistered(memmap, mapbase + Hhdm, pmm_map_size)}
  BY <1>1 DEF pmm_init
<1>3. ASSUME NEW u \in Unregistered(memmap, mapbase + Hhdm, pmm_map_size)
      PROVE  0 \notin RegionBits(TOBLOCKS(memmap[u].base),
                                TOBLOCKS(memmap[u].length))
  <2>1. u \in DOMAIN memmap /\ memmap[u].usable
    BY DEF Unregistered
  <2>2. /\ TOBLOCKS(memmap[u].base) \in Nat /\ TOBLOCKS(memmap[u].length) \in Nat
    BY <1>1, <2>1, EntryType, ToBlocksNat
  <2>3. TOBLOCKS(memmap[u].base) # 0
    BY <1>1, <2>1, FirstBlockAssumption
  <2> QED
    BY <2>2, <2>3, RegionStart
<1>4. 0 \in Bits => 0 \in pmm_map
  BY <1>2, <1>3
<1> QED
  BY <1>4 DEF Init, ZeroInv

\* Every step keeps block 0 taken, and no search returns it.
LEMMA ZeroStep ==
  TypeOK /\ LoopInv /\ ZeroInv /\ [Next]_vars => ZeroInv'
<1> SUFFICES ASSUME TypeOK, LoopInv, ZeroInv, [Next]_vars, ~lost'
             PROVE  /\ 0 \in Bits' => 0 \in pmm_map'
                    /\ \A a \in held' : a.start # 0 /\ BitsIn(Run(a))' = {}
  BY DEF ZeroInv
<1>1. ASSUME UNCHANGED <<layout, pmm_map, held, lost>>
      PROVE  ZeroInv'
  BY <1>1 DEF layout, ZeroInv, Bits, BitsIn
<1>2. ASSUME ScanHit
      PROVE  ZeroInv'
  <2> DEFINE new == [start |-> RunStart, blocks |-> call]
  <2>1. ~lost /\ BitsIn(Run(new)) = {}
    BY <1>2 DEF ScanHit
  <2>2. call \in Nat \ {0} /\ RunStart \in Bits \ pmm_map
    BY <1>2, HitIsFree
  <2>3. Bits \subseteq Nat
    BY DEF Bits
  <2>4. RunStart # 0
    BY <2>1, <2>2 DEF ZeroInv
  <2>5. RunStart \in Run(new)
    BY <2>2, <2>3 DEF Run
  <2>6. BitsIn({RunStart}) = {}
    BY <2>1, <2>5 DEF BitsIn
  <2>7. pmm_map \subseteq pmm_map' /\ held' = held \cup {new} /\ UNCHANGED layout
    BY <1>2, <2>6 DEF ScanHit
  <2>8. Bits' = Bits /\ \A a : BitsIn(Run(a))' = BitsIn(Run(a))
    BY <2>7 DEF layout, Bits, BitsIn, Run
  <2>9. \A a \in held' : a.start # 0 /\ BitsIn(Run(a)) = {}
    BY <2>1, <2>4, <2>7 DEF ZeroInv
  <2>10. 0 \in Bits => 0 \in pmm_map'
    BY <2>1, <2>7 DEF ZeroInv
  <2> QED
    BY <2>8, <2>9, <2>10 DEF ZeroInv
<1>3. ASSUME NEW a \in held, Pfree(a)
      PROVE  ZeroInv'
  <2>1. ~lost /\ a.start \in Nat /\ a.blocks \in Nat
    BY <1>3, GeometryAssumption DEF Pfree, TypeOK
  <2>2. a.start # 0
    BY <2>1 DEF ZeroInv
  <2>3. 0 \notin RegionBits(a.start, a.blocks)
    BY <2>1, <2>2, RegionStart
  <2> QED
    BY <1>3, <2>1, <2>3 DEF Pfree, ZeroInv, layout, Bits, BitsIn
<1>4. ASSUME NEW a \in held, CallerOverwrites(a)
      PROVE  FALSE
  BY <1>4 DEF CallerOverwrites, ZeroInv
<1>5. (\E n \in Requests : Pmalloc(n)) \/ ScanUsed \/ ScanFree \/ ScanMiss
        \/ UNCHANGED vars
      => UNCHANGED <<layout, pmm_map, held, lost>>
  BY DEF Pmalloc, ScanUsed, ScanFree, ScanMiss, vars, layout
<1>6. ZeroInv'
  BY <1>1, <1>2, <1>3, <1>4, <1>5 DEF Next
<1> QED
  BY <1>6 DEF ZeroInv

\* While the bitmap is intact pmalloc's answer 0 is always a refusal.
THEOREM ZeroIsRefusalCorrect == Spec => []ZeroIsRefusal
<1>1. Init => TypeOK /\ LoopInv /\ ZeroInv
  BY SearchInit, ZeroInit
<1>2. TypeOK /\ LoopInv /\ ZeroInv /\ [Next]_vars
        => TypeOK' /\ LoopInv' /\ ZeroInv'
  BY SearchStep, ZeroStep
<1>3. ZeroInv => ZeroIsRefusal
  BY DEF ZeroInv, ZeroIsRefusal
<1> QED
  BY <1>1, <1>2, <1>3, PTL DEF Spec

-----------------------------------------------------------------------------
(* The bookkeeping, when every request is for one block *)

\* A run of one block is that block.
LEMMA SingleRun ==
  ASSUME TypeOK, Requests = {1}, NEW a \in held
  PROVE  /\ a.start \in Nat /\ a.blocks = 1
         /\ a = [start |-> a.start, blocks |-> 1]
         /\ Run(a) = {a.start}
         /\ RegionBits(a.start, a.blocks) = {a.start}
<1>1. a \in [start : Nat, blocks : {1}]
  BY DEF TypeOK
<1>2. a.start \in Nat /\ a.blocks = 1 /\ a = [start |-> a.start, blocks |-> 1]
  BY <1>1
<1>3. Run(a) = {a.start}
  BY <1>2 DEF Run
<1> QED
  BY <1>2, <1>3, RegionOfOne

\* What a call that succeeds does to the bitmap when the bitmap survives it.
LEMMA SingleHit ==
  ASSUME TypeOK, LoopInv, Requests = {1}, ScanHit, ~lost'
  PROVE  /\ call = 1 /\ ~lost
         /\ RunStart \in Bits \ pmm_map
         /\ pmm_map' = pmm_map \cup {RunStart}
         /\ held' = held \cup {[start |-> RunStart, blocks |-> 1]}
         /\ Run([start |-> RunStart, blocks |-> 1]) = {RunStart}
<1>1. call = 1 /\ RunStart \in Bits \ pmm_map
  BY HitIsFree
<1>2. RunStart \in Nat
  BY <1>1 DEF Bits
<1>3. Run([start |-> RunStart, blocks |-> 1]) = {RunStart}
  BY <1>2 DEF Run
<1>4. ~lost /\ BitsIn({RunStart}) = {}
  BY <1>1, <1>3 DEF ScanHit
<1>5. RegionBits(RunStart, 1) = {RunStart}
  BY <1>2, RegionOfOne
<1>6. pmm_map' = (pmm_map \cup {RunStart}) \ {}
  BY <1>1, <1>4, <1>5 DEF ScanHit
<1>7. held' = held \cup {[start |-> RunStart, blocks |-> 1]}
  BY <1>1 DEF ScanHit
<1> QED
  BY <1>1, <1>3, <1>4, <1>6, <1>7

\* With requests for single blocks every step keeps the held blocks marked.
LEMMA SingleStep ==
  ASSUME Requests = {1}
  PROVE  TypeOK /\ LoopInv /\ ZeroInv /\ HeldIsMarked /\ [Next]_vars
           => HeldIsMarked'
<1> SUFFICES ASSUME TypeOK, LoopInv, ZeroInv, HeldIsMarked, [Next]_vars
             PROVE  HeldIsMarked'
  OBVIOUS
<1>1. ASSUME UNCHANGED <<layout, pmm_map, held, lost>>
      PROVE  HeldIsMarked'
  BY <1>1 DEF HeldIsMarked, Run
<1>2. ASSUME ScanHit, ~lost'
      PROVE  HeldIsMarked'
  BY <1>2, SingleHit DEF HeldIsMarked, Run
<1>3. ASSUME NEW a \in held, Pfree(a), ~lost'
      PROVE  HeldIsMarked'
  <2>1. /\ ~lost /\ held' = held \ {a}
        /\ pmm_map' = pmm_map \ {a.start}
    BY <1>3, SingleRun DEF Pfree
  <2>2. ASSUME NEW b \in held'
        PROVE  Run(b) \subseteq pmm_map'
    <3>1. b \in held /\ b # a
      BY <2>1
    <3>2. Run(b) = {b.start} /\ b.start # a.start
      BY <3>1, SingleRun
    <3>3. b.start \in pmm_map
      BY <2>1, <3>1, <3>2 DEF HeldIsMarked
    <3> QED
      BY <2>1, <3>2, <3>3
  <2> QED
    BY <2>2 DEF HeldIsMarked, Run
<1>4. ASSUME NEW a \in held, CallerOverwrites(a), ~lost'
      PROVE  FALSE
  BY <1>4 DEF CallerOverwrites, ZeroInv
<1>5. (\E n \in Requests : Pmalloc(n)) \/ ScanUsed \/ ScanFree \/ ScanMiss
        \/ UNCHANGED vars
      => UNCHANGED <<layout, pmm_map, held, lost>>
  BY DEF Pmalloc, ScanUsed, ScanFree, ScanMiss, vars, layout
<1>6. lost' => HeldIsMarked'
  BY DEF HeldIsMarked
<1> QED
  BY <1>1, <1>2, <1>3, <1>4, <1>5, <1>6 DEF Next

\* The whole inductive invariant of the single-block allocator.
LEMMA SingleInvariant ==
  ASSUME Requests = {1}
  PROVE  Spec => [](TypeOK /\ LoopInv /\ ZeroInv /\ HeldIsMarked)
<1>1. Init => TypeOK /\ LoopInv /\ ZeroInv /\ HeldIsMarked
  BY SearchInit, ZeroInit DEF Init, HeldIsMarked
<1>2. TypeOK /\ LoopInv /\ ZeroInv /\ HeldIsMarked /\ [Next]_vars
        => TypeOK' /\ LoopInv' /\ ZeroInv' /\ HeldIsMarked'
  BY SearchStep, ZeroStep, SingleStep
<1> QED
  BY <1>1, <1>2, PTL DEF Spec

\* With single-block requests, and while the bitmap is intact, every block
\* that a caller holds is marked used.
THEOREM HeldIsMarkedCorrect ==
  ASSUME Requests = {1}
  PROVE  Spec => []HeldIsMarked
<1>1. Spec => [](TypeOK /\ LoopInv /\ ZeroInv /\ HeldIsMarked)
  BY SingleInvariant
<1> QED
  BY <1>1, PTL

\* With single-block requests the bitmap allocator implements the abstract
\* one: pmalloc takes a free block, pfree gives exactly that block back.
THEOREM Refinement ==
  ASSUME Requests = {1}
  PROVE  Spec => RefinesAllocator
<1> DEFINE IInv == TypeOK /\ LoopInv /\ ZeroInv /\ HeldIsMarked
           free == Bits \ pmm_map
<1>1. Init => Blocks!Init
  BY DEF Init, Blocks!Init, Bits
<1>2. IInv /\ [Next]_vars => [Blocks!Next]_<<free, held, lost>>
  <2> SUFFICES ASSUME IInv, [Next]_vars
               PROVE  [Blocks!Next]_<<free, held, lost>>
    OBVIOUS
  <2>1. ASSUME UNCHANGED <<layout, pmm_map, held, lost>>
        PROVE  UNCHANGED <<free, held, lost>>
    BY <2>1 DEF layout, Bits
  <2>2. ASSUME lost'
        PROVE  Blocks!Next
    <3>1. lost' \in BOOLEAN
      BY SearchStep DEF TypeOK
    <3> QED
      BY <2>2, <3>1 DEF Blocks!Next, Blocks!LoseBooks
  <2>3. ASSUME ScanHit, ~lost'
        PROVE  Blocks!Next
    <3>1. /\ RunStart \in Bits \ pmm_map
          /\ pmm_map' = pmm_map \cup {RunStart}
          /\ held' = held \cup {[start |-> RunStart, blocks |-> 1]}
      BY <2>3, SingleHit
    <3>2. Bits' = Bits /\ RunStart \in Nat
      BY <2>3, <3>1 DEF ScanHit, layout, Bits
    <3>3. Blocks!RunFrom(RunStart, 1) = {RunStart}
      BY <3>2 DEF Blocks!RunFrom
    <3>4. lost' = lost
      BY <2>3, SingleHit DEF TypeOK, ScanHit
    <3>5. free' = free \ {RunStart}
      BY <3>1, <3>2
    <3>6. Blocks!Allocate(1)
      BY <3>1, <3>3, <3>4, <3>5 DEF Blocks!Allocate
    <3> QED
      BY <3>6 DEF Blocks!Next
  <2>4. ASSUME NEW a \in held, Pfree(a), ~lost'
        PROVE  Blocks!Next
    <3>1. a.start \in pmm_map /\ pmm_map \subseteq Bits /\ Bits' = Bits
      BY <2>4, SingleRun DEF Pfree, HeldIsMarked, TypeOK, layout, Bits
    <3>2. pmm_map' = pmm_map \ {a.start} /\ held' = held \ {a} /\ lost' = lost
      BY <2>4, SingleRun DEF Pfree
    <3>3. Blocks!Run(a) = {a.start}
      BY SingleRun DEF Blocks!Run, Blocks!RunFrom
    <3>4. free' = free \cup {a.start}
      BY <3>1, <3>2
    <3>5. Blocks!Release(a)
      BY <3>2, <3>3, <3>4 DEF Blocks!Release
    <3> QED
      BY <3>5 DEF Blocks!Next
  <2>5. ASSUME NEW a \in held, CallerOverwrites(a), ~lost'
        PROVE  FALSE
    BY <2>5 DEF CallerOverwrites, ZeroInv
  <2>6. (\E n \in Requests : Pmalloc(n)) \/ ScanUsed \/ ScanFree \/ ScanMiss
          \/ UNCHANGED vars
        => UNCHANGED <<layout, pmm_map, held, lost>>
    BY DEF Pmalloc, ScanUsed, ScanFree, ScanMiss, vars, layout
  <2> QED
    BY <2>1, <2>2, <2>3, <2>4, <2>5, <2>6 DEF Next
<1>3. Spec => []IInv
  BY SingleInvariant
<1> QED
  BY <1>1, <1>2, <1>3, PTL DEF Spec, RefinesAllocator, Blocks!Spec

-----------------------------------------------------------------------------
(* The memory map, when every request is for one block *)

\* Equal products have no room between them: a number below w more than a
\* multiple of w is below the next multiple.
LEMMA NextMultiple ==
  ASSUME NEW w \in Nat \ {0}, NEW a \in Nat, NEW b \in Nat, a < b
  PROVE  a * w + w <= b * w
<1>1. PICK d \in Nat : b = a + 1 + d
  <2>1. b - (a + 1) \in Nat /\ b = a + 1 + (b - (a + 1))
    OBVIOUS
  <2> QED
    BY <2>1
<1>2. b * w = a * w + w + d * w /\ d * w \in Nat /\ a * w \in Nat
  BY <1>1
<1> QED
  BY <1>2

\* How often w goes into a number: as often as the multiple of w says that
\* comes next below it.
LEMMA QuotientIs ==
  ASSUME NEW w \in Nat \ {0}, NEW n \in Nat
  PROVE  /\ n \div w \in Nat /\ n % w \in 0 .. (w - 1)
         /\ n = (n \div w) * w + (n % w)
OBVIOUS

\* More goes in at least as often.
LEMMA QuotientMonotone ==
  ASSUME NEW w \in Nat \ {0}, NEW m \in Nat, NEW n \in Nat, m <= n
  PROVE  m \div w <= n \div w
<1> DEFINE a == n \div w
           b == m \div w
           r == n % w
           t == m % w
<1>1. a \in Nat /\ r \in 0 .. (w - 1) /\ n = a * w + r
  BY QuotientIs
<1>2. b \in Nat /\ t \in 0 .. (w - 1) /\ m = b * w + t
  BY QuotientIs
<1> HIDE DEF a, b, r, t
<1> SUFFICES ASSUME a < b PROVE FALSE
  BY <1>1, <1>2 DEF a, b
<1>3. a * w + w <= b * w
  BY <1>1, <1>2, NextMultiple
<1>4. a * w \in Nat /\ b * w \in Nat
  BY <1>1, <1>2
<1> QED
  BY <1>1, <1>2, <1>3, <1>4

\* The blocks of two regions one after the other are not more than the blocks
\* of both together.
LEMMA QuotientSum ==
  ASSUME NEW w \in Nat \ {0}, NEW m \in Nat, NEW n \in Nat
  PROVE  (m \div w) + (n \div w) <= (m + n) \div w
<1> DEFINE a == m \div w
           b == n \div w
           c == (m + n) \div w
           r == m % w
           t == n % w
           u == (m + n) % w
<1>1. a \in Nat /\ r \in 0 .. (w - 1) /\ m = a * w + r
  BY QuotientIs
<1>2. b \in Nat /\ t \in 0 .. (w - 1) /\ n = b * w + t
  BY QuotientIs
<1>3. c \in Nat /\ u \in 0 .. (w - 1) /\ m + n = c * w + u
  <2>1. m + n \in Nat
    OBVIOUS
  <2> QED
    BY <2>1, QuotientIs
<1> HIDE DEF a, b, c, r, t, u
<1> SUFFICES ASSUME c < a + b PROVE FALSE
  BY <1>1, <1>2, <1>3 DEF a, b, c
<1>4. a + b \in Nat
  BY <1>1, <1>2
<1>5. c * w + w <= (a + b) * w
  BY <1>3, <1>4, NextMultiple
<1>6. (a + b) * w = a * w + b * w /\ a * w \in Nat /\ b * w \in Nat /\ c * w \in Nat
  BY <1>1, <1>2, <1>3
<1> QED
  BY <1>1, <1>2, <1>3, <1>5, <1>6

\* The blocks that TOBLOCKS counts in a region end where it says that the
\* region ends, or before.
LEMMA ToBlocksSum ==
  ASSUME NEW base \in Nat, NEW length \in Nat
  PROVE  TOBLOCKS(base) + TOBLOCKS(length) <= TOBLOCKS(base + length)
<1>1. AlignBytes \in Nat \ {0} /\ BlockBytes \in Nat \ {0}
  BY GeometryAssumption
<1>2. ASSUME NEW n \in Nat
      PROVE  ALIGN(n) = (n \div AlignBytes) * AlignBytes /\ ALIGN(n) \in Nat
  <2> DEFINE q == n \div AlignBytes
             r == n % AlignBytes
  <2>1. q \in Nat /\ r \in 0 .. (AlignBytes - 1) /\ n = q * AlignBytes + r
    BY <1>1, QuotientIs
  <2>2. ALIGN(n) = n - r
    BY DEF ALIGN
  <2> HIDE DEF q, r
  <2>3. q * AlignBytes \in Nat
    BY <1>1, <2>1
  <2>4. ALIGN(n) = q * AlignBytes
    BY <1>1, <2>1, <2>2, <2>3
  <2> QED
    BY <2>3, <2>4 DEF q
<1> DEFINE x == base \div AlignBytes
           y == length \div AlignBytes
           z == (base + length) \div AlignBytes
<1>3. x \in Nat /\ y \in Nat /\ z \in Nat /\ x + y <= z /\ base + length \in Nat
  BY <1>1, QuotientSum
<1> HIDE DEF x, y, z
<1>4. x * AlignBytes + y * AlignBytes <= z * AlignBytes
  <2>1. PICK d \in Nat : z = x + y + d
    <3>1. z - (x + y) \in Nat /\ z = x + y + (z - (x + y))
      BY <1>3
    <3> QED
      BY <3>1
  <2>2. z * AlignBytes = x * AlignBytes + y * AlignBytes + d * AlignBytes
    BY <1>1, <1>3, <2>1
  <2>3. d * AlignBytes \in Nat /\ x * AlignBytes \in Nat /\ y * AlignBytes \in Nat
    BY <1>1, <1>3, <2>1
  <2> QED
    BY <2>2, <2>3
<1>5. /\ ALIGN(base) \in Nat /\ ALIGN(length) \in Nat /\ ALIGN(base + length) \in Nat
      /\ ALIGN(base) + ALIGN(length) <= ALIGN(base + length)
  BY <1>2, <1>3, <1>4 DEF x, y, z
<1>6. PICK g \in Nat, h \in Nat, k \in Nat :
        /\ g = ALIGN(base) /\ h = ALIGN(length) /\ k = ALIGN(base + length)
  BY <1>5
<1>7. g + h \in Nat /\ g + h <= k
  BY <1>5, <1>6
<1>8. (g \div BlockBytes) + (h \div BlockBytes) <= (g + h) \div BlockBytes
  BY <1>1, QuotientSum
<1>9. (g + h) \div BlockBytes <= k \div BlockBytes
  BY <1>1, <1>7, QuotientMonotone
<1>10. /\ g \div BlockBytes \in Nat /\ h \div BlockBytes \in Nat
       /\ (g + h) \div BlockBytes \in Nat /\ k \div BlockBytes \in Nat
  BY <1>1, <1>7, QuotientIs
<1> QED
  BY <1>6, <1>8, <1>9, <1>10 DEF TOBLOCKS

\* A region that does not end below the position of its first block in a byte
\* has only bits of its own: the bit of each byte is that of a block of it.
LEMMA RegionStays ==
  ASSUME NEW block \in Nat, NEW blocks \in Nat \ {0},
         block % ByteBits <= (block + blocks - 1) % ByteBits
  PROVE  RegionBits(block, blocks) \subseteq block .. (block + blocks - 1)
<1> SUFFICES ASSUME NEW k \in 0 .. (blocks - 1)
             PROVE  ((block + k) \div ByteBits) * ByteBits + (block % ByteBits)
                       \in block .. (block + blocks - 1)
  BY DEF RegionBits
<1>1. ByteBits \in Nat \ {0} /\ block + k \in Nat /\ block + blocks - 1 \in Nat
  BY GeometryAssumption
<1> DEFINE w == ByteBits
           last == block + blocks - 1
           a == block \div w
           b == (block + k) \div w
           c == last \div w
           r == block % w
           t == (block + k) % w
           u == last % w
<1>2. a \in Nat /\ r \in 0 .. (w - 1) /\ block = a * w + r
  BY <1>1, QuotientIs
<1>3. b \in Nat /\ t \in 0 .. (w - 1) /\ block + k = b * w + t
  BY <1>1, QuotientIs
<1>4. c \in Nat /\ u \in 0 .. (w - 1) /\ last = c * w + u
  BY <1>1, QuotientIs
<1>5. a <= b
  <2>1. block <= block + k
    OBVIOUS
  <2> QED
    BY <1>1, <2>1, QuotientMonotone
<1>6. b <= c
  <2>1. block + k <= last
    OBVIOUS
  <2> QED
    BY <1>1, <2>1, QuotientMonotone
<1>7. r <= u
  OBVIOUS
<1>8. block \in Nat /\ k \in Nat /\ last = block + blocks - 1 /\ last \in Nat
  BY <1>1
<1> HIDE DEF w, a, b, c, r, t, u, last
<1>9. w \in Nat \ {0}
  BY <1>1 DEF w
<1>10. a * w \in Nat /\ b * w \in Nat /\ c * w \in Nat
  BY <1>2, <1>3, <1>4, <1>9
<1>11. a * w <= b * w
  <2>1. a < b => a * w + w <= b * w
    BY <1>2, <1>3, <1>9, NextMultiple
  <2> QED
    BY <1>2, <1>3, <1>5, <1>9, <1>10, <2>1
<1>12. b < c => b * w + w <= c * w
  BY <1>3, <1>4, <1>9, NextMultiple
<1>13. block <= b * w + r
  BY <1>2, <1>8, <1>10, <1>11
<1>14. b * w + r <= last
  <2>1. CASE b = c
    BY <1>2, <1>4, <1>7, <1>10, <2>1
  <2>2. CASE b < c
    BY <1>2, <1>4, <1>9, <1>10, <1>12, <2>2
  <2> QED
    BY <1>3, <1>4, <1>6, <2>1, <2>2
<1>15. b * w + r \in Int
  BY <1>2, <1>10
<1> QED
  BY <1>8, <1>13, <1>14, <1>15 DEF w, b, r, last

\* The block belongs to a region that the memory map reports as usable.
UsableBlock(b) ==
  \E e \in DOMAIN memmap :
    /\ memmap[e].usable
    /\ b >= TOBLOCKS(memmap[e].base)
    /\ b < TOBLOCKS(End(memmap[e]))

AllStay == \A e \in DOMAIN memmap : StaysInside(memmap[e])

\* What is free, and what has been given away, is usable memory.
UsableInv ==
  ~lost /\ AllStay =>
    /\ \A b \in Bits \ pmm_map : UsableBlock(b)
    /\ \A a \in held : UsableBlock(a.start)

\* pmm_init frees only blocks of usable memory.
LEMMA UsableInit ==
  ASSUME Init
  PROVE  UsableInv
<1>1. memmap \in Memmaps /\ held = {}
  BY DEF Init
<1>2. PICK past \in PastEnd : pmm_init(memmap, past)
  BY DEF Init
<1>3. pmm_map = Bits \ UNION
        {RegionBits(TOBLOCKS(memmap[u].base), TOBLOCKS(memmap[u].length)) :
           u \in Unregistered(memmap, mapbase + Hhdm, pmm_map_size)}
  BY <1>2 DEF pmm_init
<1>4. SUFFICES ASSUME AllStay, NEW b \in Bits \ pmm_map PROVE UsableBlock(b)
  BY <1>1 DEF UsableInv
<1>5. PICK u \in Unregistered(memmap, mapbase + Hhdm, pmm_map_size) :
        b \in RegionBits(TOBLOCKS(memmap[u].base), TOBLOCKS(memmap[u].length))
  BY <1>3, <1>4
<1>6. u \in DOMAIN memmap /\ memmap[u].usable
  BY DEF Unregistered
<1>7. PICK base \in Nat, length \in Nat : base = memmap[u].base /\ length = memmap[u].length
  BY <1>1, <1>6, EntryType
<1>8. PICK block \in Nat, blocks \in Nat :
        block = TOBLOCKS(base) /\ blocks = TOBLOCKS(length)
  BY ToBlocksNat
<1>9. b \in RegionBits(block, blocks)
  BY <1>5, <1>7, <1>8
<1>10. blocks # 0
  BY <1>9 DEF RegionBits
<1>11. block % ByteBits <= (block + blocks - 1) % ByteBits
  BY <1>4, <1>6, <1>7, <1>8 DEF AllStay, StaysInside
<1>12. b \in block .. (block + blocks - 1)
  BY <1>9, <1>10, <1>11, RegionStays
<1>13. block + blocks <= TOBLOCKS(End(memmap[u])) /\ TOBLOCKS(End(memmap[u])) \in Nat
  <2>1. base + length \in Nat /\ End(memmap[u]) = base + length
    BY <1>7 DEF End
  <2> QED
    BY <1>8, <2>1, ToBlocksNat, ToBlocksSum
<1>14. b >= block /\ b < TOBLOCKS(End(memmap[u]))
  BY <1>12, <1>13
<1> QED
  BY <1>6, <1>7, <1>8, <1>14 DEF UsableBlock

\* With requests for single blocks every step gives away, and takes back,
\* blocks of usable memory only.
LEMMA UsableStep ==
  ASSUME Requests = {1}, TypeOK, LoopInv, ZeroInv, UsableInv, [Next]_vars
  PROVE  UsableInv'
<1>1. memmap' = memmap /\ Bits' = Bits
  BY DEF Next, Pmalloc, ScanUsed, ScanFree, ScanHit, ScanMiss, Pfree, CallerOverwrites,
         vars, layout, Bits
<1>2. (AllStay' <=> AllStay) /\ \A b : UsableBlock(b)' <=> UsableBlock(b)
  BY <1>1 DEF AllStay, UsableBlock
<1>3. SUFFICES ASSUME ~lost', AllStay
               PROVE  /\ \A b \in Bits \ pmm_map' : UsableBlock(b)
                      /\ \A a \in held' : UsableBlock(a.start)
  BY <1>1, <1>2 DEF UsableInv
<1>4. ASSUME UNCHANGED <<layout, pmm_map, held, lost>>
      PROVE  /\ \A b \in Bits \ pmm_map' : UsableBlock(b)
             /\ \A a \in held' : UsableBlock(a.start)
  BY <1>3, <1>4 DEF UsableInv
<1>5. ASSUME ScanHit
      PROVE  /\ \A b \in Bits \ pmm_map' : UsableBlock(b)
             /\ \A a \in held' : UsableBlock(a.start)
  <2>1. /\ ~lost /\ RunStart \in Bits \ pmm_map
        /\ pmm_map' = pmm_map \cup {RunStart}
        /\ held' = held \cup {[start |-> RunStart, blocks |-> 1]}
    BY <1>3, <1>5, SingleHit
  <2> QED
    BY <1>3, <2>1 DEF UsableInv
<1>6. ASSUME NEW a \in held, Pfree(a)
      PROVE  /\ \A b \in Bits \ pmm_map' : UsableBlock(b)
             /\ \A c \in held' : UsableBlock(c.start)
  <2>1. /\ ~lost /\ held' = held \ {a} /\ pmm_map' = pmm_map \ {a.start}
    BY <1>3, <1>6, SingleRun DEF Pfree
  <2> QED
    BY <1>3, <2>1 DEF UsableInv
<1>7. ASSUME NEW a \in held, CallerOverwrites(a)
      PROVE  FALSE
  BY <1>3, <1>7 DEF CallerOverwrites, ZeroInv
<1>8. (\E n \in Requests : Pmalloc(n)) \/ ScanUsed \/ ScanFree \/ ScanMiss
        \/ UNCHANGED vars
      => UNCHANGED <<layout, pmm_map, held, lost>>
  BY DEF Pmalloc, ScanUsed, ScanFree, ScanMiss, vars, layout
<1> QED
  BY <1>4, <1>5, <1>6, <1>7, <1>8 DEF Next

\* With single-block requests, and while the bitmap is intact, a caller holds
\* only blocks that the memory map reports as usable, if no usable region ends
\* below the position that its first block has in a byte: then the bits that
\* pmm_init clears are those of the region's own blocks.
THEOREM HeldIsUsableCorrect ==
  ASSUME Requests = {1}
  PROVE  Spec => []HeldIsUsable
<1> DEFINE IInv == TypeOK /\ LoopInv /\ ZeroInv /\ HeldIsMarked
<1>1. Spec => []IInv
  BY SingleInvariant
<1>2. Init => UsableInv
  BY UsableInit
<1>3. IInv /\ UsableInv /\ [Next]_vars => UsableInv'
  BY UsableStep
<1>4. IInv /\ UsableInv => HeldIsUsable
  <2> SUFFICES ASSUME IInv, UsableInv PROVE HeldIsUsable
    OBVIOUS
  <2>1. \A a \in held : Run(a) = {a.start}
    BY SingleRun
  <2>2. ASSUME ~lost, AllStay, NEW a \in held, NEW b \in Run(a) PROVE UsableBlock(b)
    BY <2>1, <2>2 DEF UsableInv
  <2> QED
    BY <2>2 DEF HeldIsUsable, AllStay, UsableBlock
<1> QED
  BY <1>1, <1>2, <1>3, <1>4, PTL DEF Spec

=============================================================================
