----------------------------- MODULE VMMProofs -----------------------------
(***************************************************************************)
(* What holds of the virtual memory manager for tables of every size, any  *)
(* number of frames, any user pages and whatever memory held before it was *)
(* cleared: the tables of all spaces form a forest, every space sees the   *)
(* kernel, and the tables implement independent address spaces, as long as *)
(* no allocation has failed.                                               *)
(*                                                                         *)
(* The strengthening is a rank of frames: 5 free, 4 to 1 a table of that   *)
(* level, 0 process memory.  Entries lead from a rank to the next, no two  *)
(* entries to the same table, and the walk of map_block stands where the   *)
(* processor's walk of some space comes by.                                *)
(***************************************************************************)
EXTENDS VMM, FiniteSetTheorems, WellFoundedInduction, TLAPS

\* pmalloc takes a free frame if there is one.
LEMMA GotIsFree ==
  ASSUME free \subseteq Frames, free # {}
  PROVE  Got \in free
<1>1. free \subseteq Nat
  BY FramesAssumption
<1>2. PICK f \in free : \A g \in free : ~ (<<g, f>> \in OpToRel(<, Nat))
  BY <1>1, NatLessThanWellFounded, WFMin, Zenon
<1>3. \A g \in free : ~ (g < f)
  BY <1>1, <1>2 DEF OpToRel
<1>4. \A g \in free : f <= g
  BY <1>1, <1>3
<1> QED
  BY <1>4 DEF Got

\* The address it returns is that of a frame, or 0.
LEMMA GotType ==
  ASSUME free \subseteq Frames
  PROVE  /\ Got \in Frames \cup {0}
         /\ Got \in AllFrames
         /\ free # {} => Got \in free
<1>1. free # {} => Got \in free
  BY GotIsFree
<1>2. free = {} => Got = 0
  BY DEF Got
<1> QED
  BY <1>1, <1>2 DEF AllFrames

\* What allocations write into a frame is a table.
LEMMA TablesTypes ==
  ASSUME start_pml4 \in [KernelIndex -> BootFrames \cup {Absent}]
  PROVE  Zeroed \in Tables /\ FreshPml4 \in Tables
BY DEF Zeroed, Tables, FreshPml4, AllFrames

\* pmalloc's memset leaves memory typed.
LEMMA ClearedType ==
  ASSUME TypeOK
  PROVE  Cleared \in [AllFrames -> Tables]
<1>1. Got \in AllFrames /\ Zeroed \in Tables
  BY GotType, TablesTypes DEF TypeOK
<1> QED
  BY <1>1 DEF Cleared, TypeOK

\* TypeOK is inductive: it holds at first, and every step keeps it.
LEMMA TypeInit == Init => TypeOK
<1> SUFFICES ASSUME Init PROVE TypeOK
  OBVIOUS
<1>1. PICK g \in Garbage : mem = [f \in AllFrames |-> g]
  BY DEF Init
<1>2. g \in Tables
  BY <1>1, PagesAssumption DEF Tables, AllFrames
<1>3. mem \in [AllFrames -> Tables]
  BY <1>1, <1>2
<1> QED
  BY <1>3 DEF Init, TypeOK

\* Every step keeps the types.
LEMMA TypeStep == TypeOK /\ [Next]_vars => TypeOK'
<1> SUFFICES ASSUME TypeOK, [Next]_vars PROVE TypeOK'
  OBVIOUS
<1>g. /\ Got \in Frames \cup {0} /\ Got \in AllFrames
      /\ Cleared \in [AllFrames -> Tables]
  BY GotType, ClearedType DEF TypeOK
<1>0. ASSUME Pmalloc PROVE free' \subseteq Frames /\ exhausted' \in BOOLEAN
  BY <1>0 DEF Pmalloc, TypeOK
<1>1. CASE newpml4
  <2>1. FreshPml4 \in Tables
    BY TablesTypes DEF TypeOK
  <2>2. mem' \in [AllFrames -> Tables]
    BY <1>1, <1>g, <2>1 DEF newpml4
  <2>3. call' = call /\ data' = data /\ start_pml4' = start_pml4 /\ spaces' \subseteq Frames \cup {0}
    BY <1>1, <1>g DEF newpml4, TypeOK
  <2> QED
    BY <1>0, <1>1, <2>2, <2>3 DEF newpml4, TypeOK
<1>2. CASE AllocData
  <2>1. /\ call' = Idle /\ start_pml4' = start_pml4 /\ spaces' = spaces
        /\ data' \subseteq Frames \cup {0} /\ mem' \in [AllFrames -> Tables]
    BY <1>2, <1>g DEF AllocData, TypeOK
  <2> QED
    BY <1>0, <1>2, <2>1 DEF AllocData, TypeOK
<1>3. ASSUME NEW pt \in spaces, NEW virt \in UserPages, NEW phys \in data,
             map_block(pt, virt, phys)
      PROVE  TypeOK'
  <2>1. pt \in AllFrames
    BY DEF TypeOK, AllFrames
  <2> QED
    BY <1>3, <2>1 DEF map_block, TypeOK
<1>w. ASSUME call # Idle
      PROVE  /\ call \in [space : spaces, cur : AllFrames, level : 1 .. 4,
                          virt : UserPages, phys : data]
             /\ Idx \in Index
             /\ mem[call.cur] \in Tables
             /\ mem[call.cur][Idx] \in AllFrames \cup {Absent}
  <2>1. call \in [space : spaces, cur : AllFrames, level : 1 .. 4,
                  virt : UserPages, phys : data]
    BY <1>w DEF TypeOK
  <2>2. call.virt \in Page /\ call.level \in 1 .. 4 /\ call.cur \in AllFrames
    BY <2>1, PagesAssumption
  <2>3. Idx \in Index
    BY <2>2 DEF Page, Idx
  <2>4. mem[call.cur] \in Tables
    BY <2>2 DEF TypeOK
  <2> QED
    BY <2>1, <2>3, <2>4 DEF Tables
<1>d. ASSUME NEW f \in AllFrames, call # Idle, call.level > 1, Descend(f)
      PROVE  call' \in [space : spaces, cur : AllFrames, level : 1 .. 4,
                        virt : UserPages, phys : data]
  <2>1. call.level - 1 \in 1 .. 4
    BY <1>w, <1>d
  <2> QED
    BY <1>w, <1>d, <2>1 DEF Descend
<1>4. CASE NextPresent
  <2>1. mem[call.cur][Idx] \in AllFrames
    BY <1>4, <1>w DEF NextPresent
  <2>2. call' \in [space : spaces, cur : AllFrames, level : 1 .. 4,
                   virt : UserPages, phys : data]
    BY <1>4, <1>d, <2>1 DEF NextPresent
  <2> QED
    BY <1>4, <2>2 DEF NextPresent, TypeOK
<1>5. CASE NextAllocated
  <2>1. call' \in [space : spaces, cur : AllFrames, level : 1 .. 4,
                   virt : UserPages, phys : data]
    BY <1>5, <1>g, <1>d DEF NextAllocated
  <2>2. [Cleared[call.cur] EXCEPT ![Idx] = Got] \in Tables
    BY <1>5, <1>g, <1>w DEF Tables, NextAllocated
  <2>3. mem' = [Cleared EXCEPT ![call.cur] = [Cleared[call.cur] EXCEPT ![Idx] = Got]]
    BY <1>5 DEF NextAllocated
  <2>4. mem' \in [AllFrames -> Tables]
    BY <1>g, <2>2, <2>3
  <2>5. start_pml4' = start_pml4 /\ spaces' = spaces /\ data' = data
    BY <1>5 DEF NextAllocated
  <2> QED
    BY <1>0, <1>5, <2>1, <2>4, <2>5 DEF NextAllocated, TypeOK
<1>6. CASE SetLeaf
  <2>1. call.phys \in AllFrames
    BY <1>6, <1>w DEF SetLeaf, TypeOK, AllFrames
  <2>2. [mem[call.cur] EXCEPT ![Idx] = call.phys] \in Tables
    BY <1>6, <1>w, <2>1 DEF Tables, SetLeaf
  <2>3. mem' = [mem EXCEPT ![call.cur] = [mem[call.cur] EXCEPT ![Idx] = call.phys]]
    BY <1>6 DEF SetLeaf
  <2>4. mem' \in [AllFrames -> Tables]
    BY <2>2, <2>3 DEF TypeOK
  <2> QED
    BY <1>6, <2>4 DEF SetLeaf, TypeOK
<1>7. CASE UNCHANGED vars
  BY <1>7 DEF vars, TypeOK
<1> QED
  BY <1>1, <1>2, <1>3, <1>4, <1>5, <1>6, <1>7 DEF Next

\* The variables have their types, whether or not an allocation has failed: no
\* walk of map_block leaves memory or looks in an entry a table does not have.
THEOREM TypeCorrect == Spec => []TypeOK
BY TypeInit, TypeStep, PTL DEF Spec

-----------------------------------------------------------------------------
(* The inductive invariant *)

Ranks == [Frames -> 0 .. 5]

\* An entry that the rank speaks of: in a top-level table, a user entry.
Ruled(r, x) == x \in Index /\ (r = 4 => x \notin KernelIndex)

\* Every frame is what its rank says.
Owned(rank) ==
  /\ free = {f \in Frames : rank[f] = 5}
  /\ data = {f \in Frames : rank[f] = 0}
  /\ spaces = {f \in Frames : rank[f] = 4}

\* Entries lead from a table to one of the next level, and at last to data.
Descending(rank) ==
  \A f \in Frames, x \in Index :
    rank[f] \in 1 .. 4 /\ Ruled(rank[f], x) /\ mem[f][x] # Absent
      => mem[f][x] \in Frames /\ rank[mem[f][x]] = rank[f] - 1

\* No two entries lead to the same table.
Unshared(rank) ==
  \A f, g \in Frames : \A x, y \in Index :
    /\ rank[f] \in 2 .. 4 /\ Ruled(rank[f], x) /\ mem[f][x] # Absent
    /\ rank[g] \in 2 .. 4 /\ Ruled(rank[g], y) /\ mem[f][x] = mem[g][y]
    => f = g /\ x = y

KernelKept == \A s \in spaces : \A x \in KernelIndex : mem[s][x] = start_pml4[x]

\* The tables that the processor's walk of space s to page v comes by.
Table3(s, v) == Entry(s, v[4])
Table2(s, v) == Entry(Table3(s, v), v[3])
Table1(s, v) == Entry(Table2(s, v), v[2])

ComesBy(s) ==
  /\ call.level = 4 => call.cur = s
  /\ call.level = 3 => call.cur = Table3(s, call.virt)
  /\ call.level = 2 => call.cur = Table2(s, call.virt)
  /\ call.level = 1 => call.cur = Table1(s, call.virt)

\* map_block has reached a table of the level it is at, on the way of the space
\* it was called for.
OnTheWay(rank) ==
  call # Idle =>
    /\ call.cur \in Frames /\ rank[call.cur] = call.level
    /\ call.space \in spaces /\ ComesBy(call.space)

Ranked(rank) ==
  /\ Owned(rank) /\ Descending(rank) /\ Unshared(rank)
  /\ KernelKept /\ OnTheWay(rank)

ForestInv == ~exhausted => \E rank \in Ranks : Ranked(rank)

\* What map_block is working on has the types of TypeOK.
LEMMA CallType ==
  ASSUME TypeOK, call # Idle
  PROVE  /\ call \in [space : spaces, cur : AllFrames, level : 1 .. 4,
                      virt : UserPages, phys : data]
         /\ call.virt \in Page /\ call.virt[4] \notin KernelIndex
         /\ Idx \in Index
         /\ call.level = 4 => Idx \notin KernelIndex
<1>1. call \in [space : spaces, cur : AllFrames, level : 1 .. 4,
                virt : UserPages, phys : data]
  BY DEF TypeOK
<1>2. call.virt \in Page /\ call.virt[4] \notin KernelIndex
  BY <1>1, PagesAssumption
<1> QED
  BY <1>1, <1>2 DEF Idx, Page

\* Frames, the bootloader's frames, 0 and Absent are different things.
LEMMA Numbers ==
  /\ Frames \subseteq AllFrames /\ 0 \notin Frames /\ Absent \notin Frames
  /\ \A f \in Frames : f \notin BootFrames
BY FramesAssumption DEF AllFrames

\* At first every frame is free.
LEMMA RankedInit ==
  ASSUME Init
  PROVE  Ranked([f \in Frames |-> 5])
BY DEF Init, Ranked, Owned, Descending, Unshared, KernelKept, OnTheWay

\* newpml4 gives the frame it got the rank of a top-level table.
LEMMA RankedNew ==
  ASSUME TypeOK, NEW rank \in Ranks, Ranked(rank), newpml4, free # {}
  PROVE  \E after \in Ranks : Ranked(after)'
<1>1. Got \in free /\ Got \in Frames /\ rank[Got] = 5
  BY GotIsFree DEF TypeOK, Ranked, Owned
<1>2. /\ \A f \in Frames : f # Got => mem'[f] = mem[f]
      /\ mem'[Got] = FreshPml4
  BY <1>1, Numbers, ClearedType DEF newpml4, Cleared, TypeOK
<1>3. PICK after \in Ranks :
        \A f \in Frames : after[f] = IF f = Got THEN 4 ELSE rank[f]
  <2>1. [rank EXCEPT ![Got] = 4] \in Ranks
    BY <1>1 DEF Ranks
  <2> QED
    BY <1>1, <2>1 DEF Ranks
<1>4. Owned(after)'
  BY <1>1, <1>3 DEF Owned, Ranked, newpml4, Pmalloc
<1>5. \A x \in Index : Ruled(4, x) => FreshPml4[x] = Absent
  BY DEF Ruled, FreshPml4
<1>6. Descending(after)'
  BY <1>1, <1>2, <1>3, <1>5 DEF Descending, Ranked, Ruled, Ranks
<1>7. Unshared(after)'
  BY <1>1, <1>2, <1>3, <1>5 DEF Unshared, Ranked, Ruled, Ranks
<1>8. KernelKept'
  BY <1>1, <1>2 DEF KernelKept, Ranked, Owned, newpml4, FreshPml4, KernelIndex
<1>9. OnTheWay(after)'
  BY DEF newpml4, OnTheWay
<1> QED
  BY <1>4, <1>6, <1>7, <1>8, <1>9 DEF Ranked

\* The frame that the loader takes becomes data.
LEMMA RankedData ==
  ASSUME TypeOK, NEW rank \in Ranks, Ranked(rank), AllocData, free # {}
  PROVE  \E after \in Ranks : Ranked(after)'
<1>1. Got \in free /\ Got \in Frames /\ rank[Got] = 5
  BY GotIsFree DEF TypeOK, Ranked, Owned
<1>2. \A f \in Frames : f # Got => mem'[f] = mem[f]
  BY <1>1, Numbers DEF AllocData, Cleared, TypeOK
<1>3. PICK after \in Ranks :
        \A f \in Frames : after[f] = IF f = Got THEN 0 ELSE rank[f]
  <2>1. [rank EXCEPT ![Got] = 0] \in Ranks
    BY <1>1 DEF Ranks
  <2> QED
    BY <1>1, <2>1 DEF Ranks
<1>4. Owned(after)'
  BY <1>1, <1>3 DEF Owned, Ranked, AllocData, Pmalloc
<1>6. Descending(after)'
  BY <1>1, <1>2, <1>3 DEF Descending, Ranked, Ruled, Ranks
<1>7. Unshared(after)'
  BY <1>1, <1>2, <1>3 DEF Unshared, Ranked, Ruled, Ranks
<1>8. KernelKept'
  BY <1>1, <1>2 DEF KernelKept, Ranked, Owned, AllocData
<1>9. OnTheWay(after)'
  BY DEF AllocData, OnTheWay
<1> QED
  BY <1>4, <1>6, <1>7, <1>8, <1>9 DEF Ranked

\* A call begins at the table it is given, which is that of a space.
LEMMA RankedCall ==
  ASSUME TypeOK, NEW rank \in Ranks, Ranked(rank),
         NEW pt \in spaces, NEW virt \in UserPages, NEW phys \in data,
         map_block(pt, virt, phys)
  PROVE  Ranked(rank)'
<1>1. UNCHANGED <<mem, free, data, spaces, start_pml4>>
  BY DEF map_block
<1>2. Owned(rank)' /\ Descending(rank)' /\ Unshared(rank)' /\ KernelKept'
  BY <1>1 DEF Ranked, Owned, Descending, Unshared, KernelKept
<1>3. pt \in Frames /\ rank[pt] = 4
  BY DEF Ranked, Owned
<1>4. call' = [space |-> pt, cur |-> pt, level |-> 4, virt |-> virt, phys |-> phys]
  BY DEF map_block
<1>5. ComesBy(pt)'
  BY <1>4 DEF ComesBy
<1>6. OnTheWay(rank)'
  BY <1>1, <1>3, <1>4, <1>5 DEF OnTheWay
<1> QED
  BY <1>2, <1>6 DEF Ranked

\* The processor's walk stays in the levels: at each it finds a table of that
\* level, or nothing from there on.
LEMMA WalkDescends ==
  ASSUME TypeOK, NEW rank \in Ranks, Ranked(rank),
         NEW s \in spaces, NEW v \in Page, v[4] \notin KernelIndex
  PROVE  /\ s \in Frames /\ rank[s] = 4
         /\ Table3(s, v) # Absent =>
              /\ Table3(s, v) = mem[s][v[4]]
              /\ Table3(s, v) \in Frames /\ rank[Table3(s, v)] = 3
         /\ Table2(s, v) # Absent =>
              /\ Table3(s, v) # Absent /\ Table2(s, v) = mem[Table3(s, v)][v[3]]
              /\ Table2(s, v) \in Frames /\ rank[Table2(s, v)] = 2
         /\ Table1(s, v) # Absent =>
              /\ Table2(s, v) # Absent /\ Table1(s, v) = mem[Table2(s, v)][v[2]]
              /\ Table1(s, v) \in Frames /\ rank[Table1(s, v)] = 1
<1>1. s \in Frames /\ rank[s] = 4 /\ s # Absent
  BY Numbers DEF Ranked, Owned
<1>2. v[4] \in Index /\ v[3] \in Index /\ v[2] \in Index
  BY DEF Page
<1>3. \A f \in Frames, x \in Index :
        rank[f] \in 1 .. 4 /\ (rank[f] = 4 => x \notin KernelIndex) /\ mem[f][x] # Absent
          => mem[f][x] \in Frames /\ rank[mem[f][x]] = rank[f] - 1
  BY DEF Ranked, Descending, Ruled
<1>4. Table3(s, v) = mem[s][v[4]]
  BY <1>1 DEF Table3, Entry
<1>5. Table3(s, v) # Absent => Table3(s, v) \in Frames /\ rank[Table3(s, v)] = 3
  BY <1>1, <1>2, <1>3, <1>4
<1>6. Table2(s, v) # Absent =>
        Table3(s, v) # Absent /\ Table2(s, v) = mem[Table3(s, v)][v[3]]
  BY DEF Table2, Entry
<1>7. Table2(s, v) # Absent => Table2(s, v) \in Frames /\ rank[Table2(s, v)] = 2
  BY <1>2, <1>3, <1>5, <1>6
<1>8. Table1(s, v) # Absent =>
        Table2(s, v) # Absent /\ Table1(s, v) = mem[Table2(s, v)][v[2]]
  BY DEF Table1, Entry
<1>9. Table1(s, v) # Absent => Table1(s, v) \in Frames /\ rank[Table1(s, v)] = 1
  BY <1>2, <1>3, <1>7, <1>8
<1> QED
  BY <1>1, <1>4, <1>5, <1>6, <1>7, <1>8, <1>9

\* An entry that is present leads to a table of the next level, and the walk
\* of the space comes by there as well.
LEMMA RankedPresent ==
  ASSUME TypeOK, NEW rank \in Ranks, Ranked(rank), NextPresent
  PROVE  Ranked(rank)'
<1>1. UNCHANGED <<mem, free, data, spaces, start_pml4>> /\ call # Idle /\ call.level > 1
  BY DEF NextPresent
<1>2. Owned(rank)' /\ Descending(rank)' /\ Unshared(rank)' /\ KernelKept'
  BY <1>1 DEF Ranked, Owned, Descending, Unshared, KernelKept
<1>3. PICK s \in spaces : s = call.space /\ ComesBy(s)
  BY <1>1 DEF Ranked, OnTheWay
<1>4. /\ call \in [space : spaces, cur : AllFrames, level : 1 .. 4,
                   virt : UserPages, phys : data]
      /\ Idx \in Index /\ (call.level = 4 => Idx \notin KernelIndex)
      /\ call.cur \in Frames /\ rank[call.cur] = call.level
  BY <1>1, CallType DEF Ranked, OnTheWay
<1>5. PICK next \in Frames :
        next = mem[call.cur][Idx] /\ rank[next] = call.level - 1
  BY <1>1, <1>4 DEF NextPresent, Ranked, Descending, Ruled
<1>6. /\ call'.cur = next /\ call'.level = call.level - 1
      /\ call'.virt = call.virt /\ call'.space = call.space
  BY <1>4, <1>5 DEF NextPresent, Descend
<1>7. PICK level \in 2 .. 4 : call.level = level
  BY <1>1, <1>4
<1>8. call.cur # Absent
  BY <1>4, Numbers
<1>9. ComesBy(s)'
  <2>1. CASE level = 4
    <3>1. next = Table3(s, call.virt)'
      BY <1>1, <1>3, <1>5, <1>6, <1>7, <1>8, <2>1 DEF ComesBy, Table3, Entry, Idx
    <3> QED
      BY <1>6, <1>7, <2>1, <3>1 DEF ComesBy
  <2>2. CASE level = 3
    <3>1. next = Table2(s, call.virt)'
      BY <1>1, <1>3, <1>5, <1>6, <1>7, <1>8, <2>2 DEF ComesBy, Table2, Table3, Entry, Idx
    <3> QED
      BY <1>6, <1>7, <2>2, <3>1 DEF ComesBy
  <2>3. CASE level = 2
    <3>1. call.cur = Table2(s, call.virt)
      BY <1>3, <1>7, <2>3 DEF ComesBy
    <3>2. Table2(s, call.virt)' = Table2(s, call.virt)
      BY <1>1, <1>6 DEF Table2, Table3, Entry
    <3>3. next = Entry(call.cur, call.virt[2])
      BY <1>5, <1>7, <1>8, <2>3 DEF Entry, Idx
    <3>4. next = Table1(s, call.virt)'
      BY <1>1, <1>6, <3>1, <3>2, <3>3 DEF Table1, Entry
    <3> QED
      BY <1>6, <1>7, <2>3, <3>4 DEF ComesBy
  <2> QED
    BY <1>7, <2>1, <2>2, <2>3
<1>10. OnTheWay(rank)'
  BY <1>1, <1>3, <1>5, <1>6, <1>9 DEF OnTheWay
<1> QED
  BY <1>2, <1>10 DEF Ranked

\* What NextAllocated does to memory, when it gets a frame: the frame is
\* cleared, and the entry at which the walk stands leads to it.
LEMMA AllocatedEffect ==
  ASSUME TypeOK, NEW rank \in Ranks, Ranked(rank), NextAllocated, free # {}
  PROVE  \E got \in Frames :
           /\ got = Got /\ rank[got] = 5 /\ got # call.cur
           /\ \A f \in AllFrames : f # got /\ f # call.cur => mem'[f] = mem[f]
           /\ mem'[got] = Zeroed
           /\ \A x \in Index : mem'[call.cur][x] = IF x = Idx THEN got ELSE mem[call.cur][x]
           /\ mem[call.cur][Idx] = Absent
           /\ call'.cur = got /\ call'.level = call.level - 1
           /\ call'.virt = call.virt /\ call'.space = call.space
<1>1. Got \in free /\ Got \in Frames /\ rank[Got] = 5
  BY GotIsFree DEF TypeOK, Ranked, Owned
<1>2. /\ call \in [space : spaces, cur : AllFrames, level : 1 .. 4,
                   virt : UserPages, phys : data]
      /\ call.cur \in Frames /\ rank[call.cur] = call.level /\ call # Idle
  BY CallType DEF NextAllocated, Ranked, OnTheWay
<1>3. Got # call.cur
  BY <1>1, <1>2
<1>4. Cleared = [mem EXCEPT ![Got] = Zeroed]
  BY DEF Cleared
<1>5. mem' = [Cleared EXCEPT ![call.cur] = [Cleared[call.cur] EXCEPT ![Idx] = Got]]
  BY DEF NextAllocated
<1>6. mem[call.cur] \in [Index -> AllFrames \cup {Absent}]
  BY <1>2 DEF TypeOK, Tables
<1>7. Cleared[call.cur] = mem[call.cur] /\ Cleared \in [AllFrames -> Tables]
  BY <1>2, <1>3, <1>4, ClearedType DEF TypeOK
<1>8. mem'[call.cur] = [mem[call.cur] EXCEPT ![Idx] = Got]
  BY <1>2, <1>5, <1>7
<1>9. \A f \in AllFrames : f # Got /\ f # call.cur => mem'[f] = mem[f]
  BY <1>4, <1>5, <1>7 DEF TypeOK
<1>10. mem'[Got] = Zeroed
  BY <1>1, <1>3, <1>4, <1>5, <1>7, Numbers DEF TypeOK
<1>11. /\ call'.cur = Got /\ call'.level = call.level - 1
       /\ call'.virt = call.virt /\ call'.space = call.space
  BY <1>2 DEF NextAllocated, Descend
<1>12. mem[call.cur][Idx] = Absent
  BY DEF NextAllocated
<1>13. \A x \in Index : mem'[call.cur][x] = IF x = Idx THEN Got ELSE mem[call.cur][x]
  BY <1>6, <1>8
<1> QED
  BY <1>1, <1>3, <1>9, <1>10, <1>11, <1>12, <1>13

\* The frame of a new table gets the rank below that of the table the walk
\* stands at, and the walk goes on there.
LEMMA RankedAllocated ==
  ASSUME TypeOK, NEW rank \in Ranks, Ranked(rank), NextAllocated, free # {}
  PROVE  \E after \in Ranks : Ranked(after)'
<1>1. PICK got \in Frames :
        /\ got = Got /\ rank[got] = 5 /\ got # call.cur
        /\ \A f \in AllFrames : f # got /\ f # call.cur => mem'[f] = mem[f]
        /\ mem'[got] = Zeroed
        /\ \A x \in Index : mem'[call.cur][x] = IF x = Idx THEN got ELSE mem[call.cur][x]
        /\ mem[call.cur][Idx] = Absent
        /\ call'.cur = got /\ call'.level = call.level - 1
        /\ call'.virt = call.virt /\ call'.space = call.space
  BY AllocatedEffect
<1>2. /\ call \in [space : spaces, cur : AllFrames, level : 1 .. 4,
                   virt : UserPages, phys : data]
      /\ call.virt \in Page /\ call.virt[4] \notin KernelIndex
      /\ Idx \in Index /\ (call.level = 4 => Idx \notin KernelIndex)
      /\ call.cur \in Frames /\ rank[call.cur] = call.level /\ call # Idle
  BY CallType DEF NextAllocated, Ranked, OnTheWay
<1>3. PICK level \in 2 .. 4 : call.level = level
  BY <1>2 DEF NextAllocated
<1>4. PICK after \in Ranks :
        \A f \in Frames : after[f] = IF f = got THEN level - 1 ELSE rank[f]
  <2>1. [rank EXCEPT ![got] = level - 1] \in Ranks
    BY <1>1 DEF Ranks
  <2> QED
    BY <1>1, <2>1 DEF Ranks
<1>5. UNCHANGED <<spaces, data, start_pml4>> /\ free' = free \ {got}
  BY <1>1 DEF NextAllocated, Pmalloc
<1>6. Owned(after)'
  BY <1>1, <1>3, <1>4, <1>5 DEF Owned, Ranked
<1>7. \A f \in Frames : f # got /\ f # call.cur => mem'[f] = mem[f]
  BY <1>1, Numbers
<1>8. \A x \in Index : mem'[got][x] = Absent
  BY <1>1 DEF Zeroed
<1>9. Descending(after)'
  <2> SUFFICES ASSUME NEW f \in Frames, NEW x \in Index,
                      after[f] \in 1 .. 4, Ruled(after[f], x), mem'[f][x] # Absent
               PROVE  mem'[f][x] \in Frames /\ after[mem'[f][x]] = after[f] - 1
    BY DEF Descending, Ruled
  <2>1. f # got
    BY <1>8
  <2>2. CASE f = call.cur /\ x = Idx
    BY <1>1, <1>2, <1>3, <1>4, <2>1, <2>2
  <2>3. CASE ~ (f = call.cur /\ x = Idx)
    <3>1. mem'[f][x] = mem[f][x] /\ after[f] = rank[f]
      BY <1>1, <1>4, <1>7, <2>1, <2>3
    <3>2. mem[f][x] \in Frames /\ rank[mem[f][x]] = rank[f] - 1
      BY <3>1 DEF Ranked, Descending
    <3>3. mem[f][x] # got
      BY <1>1, <3>1, <3>2
    <3> QED
      BY <1>4, <3>1, <3>2, <3>3
  <2> QED
    BY <2>2, <2>3
<1>10. Unshared(after)'
  <2> SUFFICES ASSUME NEW f \in Frames, NEW g \in Frames, NEW x \in Index, NEW y \in Index,
                      after[f] \in 2 .. 4, Ruled(after[f], x), mem'[f][x] # Absent,
                      after[g] \in 2 .. 4, Ruled(after[g], y), mem'[f][x] = mem'[g][y]
               PROVE  f = g /\ x = y
    BY DEF Unshared, Ruled
  <2>1. f # got /\ g # got /\ after[f] = rank[f] /\ after[g] = rank[g]
    BY <1>4, <1>8
  <2>2. \A h \in Frames, z \in Index :
          rank[h] \in 2 .. 4 /\ Ruled(rank[h], z) => mem[h][z] # got
    BY <1>1, Numbers DEF Ranked, Descending
  <2>3. \A h \in Frames, z \in Index :
          h # got => mem'[h][z] = IF h = call.cur /\ z = Idx THEN got ELSE mem[h][z]
    BY <1>1, <1>7
  <2>4. CASE f = call.cur /\ x = Idx
    BY <2>1, <2>2, <2>3, <2>4
  <2>5. CASE g = call.cur /\ y = Idx
    BY <2>1, <2>2, <2>3, <2>5
  <2>6. CASE ~ (f = call.cur /\ x = Idx) /\ ~ (g = call.cur /\ y = Idx)
    <3>1. mem[f][x] # Absent /\ mem[f][x] = mem[g][y]
      BY <2>1, <2>3, <2>6
    <3> QED
      BY <2>1, <3>1 DEF Ranked, Unshared
  <2> QED
    BY <2>4, <2>5, <2>6
<1>11. KernelKept'
  <2> SUFFICES ASSUME NEW s \in spaces, NEW x \in KernelIndex
               PROVE  mem'[s][x] = start_pml4[x]
    BY <1>5 DEF KernelKept
  <2>1. s \in Frames /\ rank[s] = 4 /\ s # got /\ x \in Index
    BY <1>1 DEF Ranked, Owned, KernelIndex
  <2>2. mem'[s][x] = mem[s][x]
    BY <1>1, <1>2, <1>7, <2>1
  <2> QED
    BY <2>2 DEF Ranked, KernelKept
<1>12. PICK s \in spaces : s = call.space /\ ComesBy(s)
  BY <1>2 DEF Ranked, OnTheWay
<1>13. call.cur # Absent /\ got # Absent
  BY <1>2, Numbers
<1>14. /\ s \in Frames /\ rank[s] = 4 /\ s # Absent
       /\ level = 3 => s # call.cur /\ mem'[s] = mem[s]
       /\ level = 2 =>
            LET t == Table3(s, call.virt)
            IN  /\ s # call.cur /\ mem'[s] = mem[s] /\ t = mem[s][call.virt[4]]
                /\ t \in Frames /\ t # Absent /\ mem'[t] = mem[t]
  <2>1. s \in Frames /\ rank[s] = 4 /\ s # Absent
    BY Numbers DEF Ranked, Owned
  <2>2. level # 4 => s # call.cur /\ mem'[s] = mem[s]
    BY <1>1, <1>2, <1>3, <1>7, <2>1
  <2>3. ASSUME level = 2
        PROVE  LET t == Table3(s, call.virt)
               IN  /\ t = mem[s][call.virt[4]]
                   /\ t \in Frames /\ t # Absent /\ mem'[t] = mem[t]
    <3> DEFINE t == Table3(s, call.virt)
    <3>1. Table2(s, call.virt) # Absent
      BY <1>3, <1>12, <1>13, <2>3 DEF ComesBy
    <3>2. /\ t = mem[s][call.virt[4]] /\ t # Absent
          /\ t \in Frames /\ rank[t] = 3
      BY <1>2, <3>1, WalkDescends
    <3>3. mem'[t] = mem[t]
      BY <1>1, <1>2, <1>3, <1>7, <2>3, <3>2
    <3> QED
      BY <3>2, <3>3
  <2> QED
    BY <2>1, <2>2, <2>3
<1>15. mem'[call.cur][Idx] = got
  BY <1>1, <1>2
<1>16. ComesBy(s)'
  <2>1. CASE level = 4
    <3>1. got = Table3(s, call.virt)'
      BY <1>1, <1>3, <1>12, <1>14, <1>15, <2>1 DEF ComesBy, Table3, Entry, Idx
    <3> QED
      BY <1>1, <1>3, <2>1, <3>1 DEF ComesBy
  <2>2. CASE level = 3
    <3>1. got = Table2(s, call.virt)'
      BY <1>1, <1>3, <1>12, <1>13, <1>14, <1>15, <2>2 DEF ComesBy, Table2, Table3, Entry, Idx
    <3> QED
      BY <1>1, <1>3, <2>2, <3>1 DEF ComesBy
  <2>3. CASE level = 2
    <3>1. call.cur = mem[Table3(s, call.virt)][call.virt[3]]
      BY <1>3, <1>12, <1>14, <2>3 DEF ComesBy, Table2, Entry
    <3>2. Table3(s, call.virt)' = Table3(s, call.virt)
      BY <1>1, <1>14, <2>3 DEF Table3, Entry
    <3>3. Table2(s, call.virt)' = call.cur
      BY <1>1, <1>14, <2>3, <3>1, <3>2 DEF Table2, Entry
    <3>4. got = Table1(s, call.virt)'
      BY <1>1, <1>3, <1>13, <1>15, <2>3, <3>3 DEF Table1, Entry, Idx
    <3> QED
      BY <1>1, <1>3, <2>3, <3>4 DEF ComesBy
  <2> QED
    BY <1>3, <2>1, <2>2, <2>3
<1>17. OnTheWay(after)'
  BY <1>1, <1>3, <1>4, <1>5, <1>12, <1>16 DEF OnTheWay
<1> QED
  BY <1>6, <1>9, <1>10, <1>11, <1>17 DEF Ranked

\* What SetLeaf does to memory.
LEMMA LeafEffect ==
  ASSUME TypeOK, NEW rank \in Ranks, Ranked(rank), SetLeaf
  PROVE  /\ call.cur \in Frames /\ rank[call.cur] = 1
         /\ call.phys \in data
         /\ \A f \in AllFrames : f # call.cur => mem'[f] = mem[f]
         /\ \A x \in Index : mem'[call.cur][x] = IF x = Idx THEN call.phys ELSE mem[call.cur][x]
<1>1. /\ call \in [space : spaces, cur : AllFrames, level : 1 .. 4,
                   virt : UserPages, phys : data]
      /\ call.cur \in Frames /\ rank[call.cur] = 1 /\ call # Idle
  BY CallType DEF SetLeaf, Ranked, OnTheWay
<1>2. mem[call.cur] \in [Index -> AllFrames \cup {Absent}]
  BY <1>1 DEF TypeOK, Tables
<1>3. mem' = [mem EXCEPT ![call.cur] = [mem[call.cur] EXCEPT ![Idx] = call.phys]]
  BY DEF SetLeaf
<1>4. mem'[call.cur] = [mem[call.cur] EXCEPT ![Idx] = call.phys]
  BY <1>1, <1>3 DEF TypeOK
<1>5. \A f \in AllFrames : f # call.cur => mem'[f] = mem[f]
  BY <1>3 DEF TypeOK
<1> QED
  BY <1>1, <1>2, <1>4, <1>5

\* The last write leads from a table of the last level to data.
LEMMA RankedLeaf ==
  ASSUME TypeOK, NEW rank \in Ranks, Ranked(rank), SetLeaf
  PROVE  Ranked(rank)'
<1>1. /\ call.cur \in Frames /\ rank[call.cur] = 1 /\ call.phys \in data
      /\ \A x \in Index : mem'[call.cur][x] = IF x = Idx THEN call.phys ELSE mem[call.cur][x]
  BY LeafEffect
<1>2. \A f \in Frames : f # call.cur => mem'[f] = mem[f]
  BY LeafEffect, Numbers
<1>3. UNCHANGED <<free, data, spaces, start_pml4>> /\ call' = Idle
  BY DEF SetLeaf
<1>4. call.phys \in Frames /\ rank[call.phys] = 0
  BY <1>1 DEF Ranked, Owned
<1>5. Owned(rank)'
  BY <1>3 DEF Ranked, Owned
<1>6. Descending(rank)'
  BY <1>1, <1>2, <1>4 DEF Ranked, Descending
<1>7. Unshared(rank)'
  BY <1>1, <1>2 DEF Ranked, Unshared
<1>8. KernelKept'
  BY <1>1, <1>2, <1>3 DEF Ranked, KernelKept, Owned
<1>9. OnTheWay(rank)'
  BY <1>3 DEF OnTheWay
<1> QED
  BY <1>5, <1>6, <1>7, <1>8, <1>9 DEF Ranked

-----------------------------------------------------------------------------
(* The invariant of the specification *)

\* An allocation that fails is remembered, so a step after which none has
\* failed had a frame to allocate.
LEMMA NotExhausted ==
  ASSUME TypeOK, [Next]_vars, ~exhausted'
  PROVE  /\ ~exhausted
         /\ newpml4 \/ AllocData \/ NextAllocated => free # {}
<1>1. CASE newpml4 \/ AllocData \/ NextAllocated
  BY <1>1 DEF newpml4, AllocData, NextAllocated, Pmalloc
<1>2. CASE ~ (newpml4 \/ AllocData \/ NextAllocated)
  <2>1. exhausted' = exhausted
    BY <1>2 DEF Next, map_block, NextPresent, SetLeaf, vars
  <2> QED
    BY <1>2, <2>1
<1> QED
  BY <1>1, <1>2

\* The ranks exist at first, and every step keeps them or gives the frame it
\* allocated a new one.
LEMMA ForestInit == Init => ForestInv
<1>1. [f \in Frames |-> 5] \in Ranks
  BY DEF Ranks
<1> QED
  BY <1>1, RankedInit DEF ForestInv

\* Every step keeps the tables a forest.
LEMMA ForestStep == TypeOK /\ ForestInv /\ [Next]_vars => ForestInv'
<1> SUFFICES ASSUME TypeOK, ForestInv, [Next]_vars, ~exhausted'
             PROVE  \E after \in Ranks : Ranked(after)'
  BY DEF ForestInv
<1>0. /\ ~exhausted
      /\ newpml4 \/ AllocData \/ NextAllocated => free # {}
  BY NotExhausted
<1>r. PICK rank \in Ranks : Ranked(rank)
  BY <1>0 DEF ForestInv
<1>1. CASE newpml4
  BY <1>0, <1>1, <1>r, RankedNew
<1>2. CASE AllocData
  BY <1>0, <1>2, <1>r, RankedData
<1>3. ASSUME NEW pt \in spaces, NEW virt \in UserPages, NEW phys \in data,
             map_block(pt, virt, phys)
      PROVE  Ranked(rank)'
  BY <1>3, <1>r, RankedCall
<1>4. CASE NextPresent
  BY <1>4, <1>r, RankedPresent
<1>5. CASE NextAllocated
  BY <1>0, <1>5, <1>r, RankedAllocated
<1>6. CASE SetLeaf
  BY <1>6, <1>r, RankedLeaf
<1>7. CASE UNCHANGED vars
  <2>1. /\ mem' = mem /\ free' = free /\ data' = data /\ spaces' = spaces
        /\ call' = call /\ start_pml4' = start_pml4
    BY <1>7 DEF vars
  <2>2. Owned(rank)' /\ KernelKept'
    BY <1>r, <2>1 DEF Ranked, Owned, KernelKept
  <2>3. Descending(rank)'
    BY <1>r, <2>1 DEF Ranked, Descending
  <2>4. Unshared(rank)'
    BY <1>r, <2>1 DEF Ranked, Unshared
  <2>5. \A s : ComesBy(s) => ComesBy(s)'
    BY <2>1 DEF ComesBy, Table1, Table2, Table3, Entry
  <2>6. OnTheWay(rank)'
    BY <1>r, <2>1, <2>5 DEF Ranked, OnTheWay
  <2>7. Ranked(rank)'
    BY <2>2, <2>3, <2>4, <2>6 DEF Ranked
  <2> QED
    BY <2>7
<1> QED
  BY <1>1, <1>2, <1>3, <1>4, <1>5, <1>6, <1>7, <1>r DEF Next

\* The inductive invariant holds.
LEMMA Invariant == Spec => [](TypeOK /\ ForestInv)
<1>1. TypeOK /\ ForestInv /\ [Next]_vars => TypeOK' /\ ForestInv'
  BY TypeStep, ForestStep
<1> QED
  BY <1>1, TypeInit, ForestInit, PTL DEF Spec

-----------------------------------------------------------------------------
(* The forest *)

\* The levels that the property speaks of are those of the rank.
LEMMA LevelsAreRanks ==
  ASSUME TypeOK, NEW rank \in Ranks, Ranked(rank)
  PROVE  /\ \A f \in Level4 : f \in Frames /\ rank[f] = 4
         /\ \A f \in Level3 : f \in Frames /\ rank[f] = 3
         /\ \A f \in Level2 : f \in Frames /\ rank[f] = 2
         /\ \A f \in Level1 : f \in Frames /\ rank[f] = 1
         /\ Leaves \subseteq data
<1>1. \A f \in Level4 : f \in Frames /\ rank[f] = 4
  BY DEF Level4, Ranked, Owned
<1>2. \A f \in Frames, x \in Index :
        rank[f] \in 1 .. 4 /\ (rank[f] = 4 => x \notin KernelIndex) /\ mem[f][x] # Absent
          => mem[f][x] \in Frames /\ rank[mem[f][x]] = rank[f] - 1
  BY DEF Ranked, Descending, Ruled
<1>3. \A f \in Level3 : f \in Frames /\ rank[f] = 3
  BY <1>1, <1>2 DEF Level3, TopRefs
<1>4. \A f \in Level2 : f \in Frames /\ rank[f] = 2
  BY <1>2, <1>3 DEF Level2, Refs
<1>5. \A f \in Level1 : f \in Frames /\ rank[f] = 1
  BY <1>2, <1>4 DEF Level1, Refs
<1>6. \A f \in Leaves : f \in Frames /\ rank[f] = 0
  BY <1>2, <1>5 DEF Leaves, Refs
<1> QED
  BY <1>1, <1>3, <1>4, <1>5, <1>6 DEF Ranked, Owned

\* A table has one entry that refers to it.
LEMMA OneReference ==
  ASSUME TypeOK, NEW rank \in Ranks, Ranked(rank), NEW level \in 2 .. 4,
         NEW T, \A t \in T : t \in Frames /\ rank[t] = level,
         NEW f \in Frames,
         NEW t \in T, NEW x \in Index, Ruled(level, x), mem[t][x] = f
  PROVE  Cardinality(Referring(T, f)) = 1
<1>1. ASSUME NEW e \in Referring(T, f)
      PROVE  e = <<t, x>>
  <2>1. /\ e = <<e[1], e[2]>> /\ e[1] \in T /\ e[2] \in Index
        /\ mem[e[1]][e[2]] = f
    BY DEF Referring
  <2>2. Ruled(level, e[2])
    <3>1. CASE level = 4 /\ e[2] \in KernelIndex
      <4>1. e[1] \in spaces
        BY <2>1, <3>1 DEF Ranked, Owned
      <4>2. f = start_pml4[e[2]]
        BY <2>1, <3>1, <4>1 DEF Ranked, KernelKept
      <4>3. f \in BootFrames \cup {Absent}
        BY <3>1, <4>2 DEF TypeOK
      <4> QED
        BY <4>3, Numbers
    <3> QED
      BY <2>1, <3>1 DEF Ruled
  <2>3. f # Absent
    BY Numbers
  <2>4. e[1] = t /\ e[2] = x
    BY <2>1, <2>2, <2>3 DEF Ranked, Unshared
  <2> QED
    BY <2>1, <2>4
<1>2. <<t, x>> \in Referring(T, f)
  BY DEF Referring
<1>3. Referring(T, f) = {<<t, x>>}
  BY <1>1, <1>2
<1> QED
  BY <1>3, FS_Singleton

\* The tables form a forest, whatever the number of spaces and pages.
THEOREM TablesFormForestCorrect == Spec => []TablesFormForest
<1>1. TypeOK /\ ForestInv => TablesFormForest
  <2> SUFFICES ASSUME TypeOK, ForestInv, ~exhausted PROVE TablesFormForest
    BY DEF TablesFormForest
  <2>1. PICK rank \in Ranks : Ranked(rank)
    BY DEF ForestInv
  <2>2. /\ \A f \in Level4 : f \in Frames /\ rank[f] = 4
        /\ \A f \in Level3 : f \in Frames /\ rank[f] = 3
        /\ \A f \in Level2 : f \in Frames /\ rank[f] = 2
        /\ \A f \in Level1 : f \in Frames /\ rank[f] = 1
        /\ Leaves \subseteq data
    BY <2>1, LevelsAreRanks
  <2>3. ASSUME NEW f \in Level3 PROVE Cardinality(Referring(Level4, f)) = 1
    <3>1. PICK t \in Level4, x \in Index \ KernelIndex : mem[t][x] = f
      BY DEF Level3, TopRefs
    <3>2. Ruled(4, x) /\ f \in Frames
      BY <2>2 DEF Ruled
    <3> QED
      BY <2>1, <2>2, <3>1, <3>2, OneReference
  <2>4. ASSUME NEW f \in Level2 PROVE Cardinality(Referring(Level3, f)) = 1
    <3>1. PICK t \in Level3, x \in Index : mem[t][x] = f
      BY DEF Level2, Refs
    <3>2. Ruled(3, x) /\ f \in Frames
      BY <2>2 DEF Ruled
    <3> QED
      BY <2>1, <2>2, <3>1, <3>2, OneReference
  <2>5. ASSUME NEW f \in Level1 PROVE Cardinality(Referring(Level2, f)) = 1
    <3>1. PICK t \in Level2, x \in Index : mem[t][x] = f
      BY DEF Level1, Refs
    <3>2. Ruled(2, x) /\ f \in Frames
      BY <2>2 DEF Ruled
    <3> QED
      BY <2>1, <2>2, <3>1, <3>2, OneReference
  <2>6. /\ Level4 \cap (Level3 \cup Level2 \cup Level1) = {}
        /\ Level3 \cap (Level2 \cup Level1) = {}
        /\ Level2 \cap Level1 = {}
    BY <2>2
  <2>7. \A f \in Frames : f \in free \cup data => rank[f] \in {0, 5}
    BY <2>1 DEF Ranked, Owned
  <2>8. (Level4 \cup Level3 \cup Level2 \cup Level1) \cap (free \cup data) = {}
    BY <2>2, <2>7
  <2> QED
    BY <2>2, <2>3, <2>4, <2>5, <2>6, <2>8 DEF TablesFormForest
<1> QED
  BY <1>1, Invariant, PTL

\* Every space sees the kernel, whatever has been mapped in which space.
THEOREM KernelHalfSharedCorrect == Spec => []KernelHalfShared
<1>1. TypeOK /\ ForestInv => KernelHalfShared
  BY DEF ForestInv, KernelHalfShared, Ranked, KernelKept
<1> QED
  BY <1>1, Invariant, PTL

-----------------------------------------------------------------------------
(* The refinement *)

\* Memory that agrees on the tables gives every space the same translation.
LEMMA SameTranslation ==
  ASSUME TypeOK, NEW rank \in Ranks, Ranked(rank),
         \A f \in Frames : rank[f] \in 1 .. 4 => mem'[f] = mem[f],
         NEW s \in spaces, NEW v \in UserPages
  PROVE  Translate(s, v)' = Translate(s, v)
<1>1. v \in Page /\ v[4] \notin KernelIndex
  BY PagesAssumption
<1>2. s \in Frames /\ rank[s] = 4 /\ s # Absent
  BY Numbers DEF Ranked, Owned
<1>3. Table3(s, v)' = Table3(s, v)
  BY <1>2 DEF Table3, Entry
<1>4. Table2(s, v)' = Table2(s, v)
  <2>1. CASE Table3(s, v) = Absent
    BY <1>3, <2>1 DEF Table2, Entry
  <2>2. CASE Table3(s, v) # Absent
    <3>1. mem'[Table3(s, v)] = mem[Table3(s, v)]
      BY <1>1, <2>2, WalkDescends
    <3> QED
      BY <1>3, <3>1 DEF Table2, Entry
  <2> QED
    BY <2>1, <2>2
<1>5. Table1(s, v)' = Table1(s, v)
  <2>1. CASE Table2(s, v) = Absent
    BY <1>4, <2>1 DEF Table1, Entry
  <2>2. CASE Table2(s, v) # Absent
    <3>1. mem'[Table2(s, v)] = mem[Table2(s, v)]
      BY <1>1, <2>2, WalkDescends
    <3> QED
      BY <1>4, <3>1 DEF Table1, Entry
  <2> QED
    BY <2>1, <2>2
<1>6. Translate(s, v) = Entry(Table1(s, v), v[1])
  BY DEF Translate, Table1, Table2, Table3
<1>7. Translate(s, v)' = Entry(Table1(s, v), v[1])'
  BY DEF Translate, Table1, Table2, Table3
<1>8. CASE Table1(s, v) = Absent
  BY <1>5, <1>6, <1>7, <1>8 DEF Entry
<1>9. CASE Table1(s, v) # Absent
  <2>1. mem'[Table1(s, v)] = mem[Table1(s, v)]
    BY <1>1, <1>9, WalkDescends
  <2> QED
    BY <1>5, <1>6, <1>7, <2>1 DEF Entry
<1> QED
  BY <1>8, <1>9

\* A table allocated on the way to a page maps nothing: the walks that come to
\* the new entry found nothing before and find an empty table now.
LEMMA AllocatedTranslation ==
  ASSUME TypeOK, NEW rank \in Ranks, Ranked(rank), NextAllocated, free # {},
         NEW s \in spaces, NEW v \in UserPages
  PROVE  Translate(s, v)' = Translate(s, v)
<1>1. PICK got \in Frames :
        /\ got = Got /\ rank[got] = 5 /\ got # call.cur
        /\ \A f \in AllFrames : f # got /\ f # call.cur => mem'[f] = mem[f]
        /\ mem'[got] = Zeroed
        /\ \A x \in Index : mem'[call.cur][x] = IF x = Idx THEN got ELSE mem[call.cur][x]
        /\ mem[call.cur][Idx] = Absent
        /\ call'.cur = got /\ call'.level = call.level - 1
        /\ call'.virt = call.virt /\ call'.space = call.space
  BY AllocatedEffect
<1>2. /\ v \in Page /\ v[4] \notin KernelIndex
      /\ v[4] \in Index /\ v[3] \in Index /\ v[2] \in Index /\ v[1] \in Index
  BY PagesAssumption DEF Page
<1>3. rank[call.cur] # 1
  BY CallType DEF NextAllocated, Ranked, OnTheWay
<1>4. \A f \in Frames : \A x \in Index :
        rank[f] \in 1 .. 4 =>
          \/ mem'[f][x] = mem[f][x]
          \/ f = call.cur /\ mem[f][x] = Absent /\ mem'[f][x] = got
  BY <1>1, Numbers
<1>5. \A x \in Index : mem'[got][x] = Absent
  BY <1>1 DEF Zeroed
<1>6. s \in Frames /\ rank[s] = 4 /\ s # Absent /\ got # Absent
  BY Numbers DEF Ranked, Owned
<1>7. \/ Table3(s, v)' = Table3(s, v)
      \/ Table3(s, v) = Absent /\ Table3(s, v)' = got
  BY <1>2, <1>4, <1>6 DEF Table3, Entry
<1>8. \/ Table2(s, v)' = Table2(s, v)
      \/ Table2(s, v) = Absent /\ Table2(s, v)' = got
  <2>1. CASE Table3(s, v) = Absent
    BY <1>2, <1>5, <1>7, <2>1 DEF Table2, Entry
  <2>2. CASE Table3(s, v) # Absent
    <3>1. Table3(s, v) \in Frames /\ rank[Table3(s, v)] = 3
      BY <1>2, <2>2, WalkDescends
    <3> QED
      BY <1>2, <1>4, <1>7, <2>2, <3>1 DEF Table2, Entry
  <2> QED
    BY <2>1, <2>2
<1>9. \/ Table1(s, v)' = Table1(s, v)
      \/ Table1(s, v) = Absent /\ Table1(s, v)' = got
  <2>1. CASE Table2(s, v) = Absent
    BY <1>2, <1>5, <1>8, <2>1 DEF Table1, Entry
  <2>2. CASE Table2(s, v) # Absent
    <3>1. Table2(s, v) \in Frames /\ rank[Table2(s, v)] = 2
      BY <1>2, <2>2, WalkDescends
    <3> QED
      BY <1>2, <1>4, <1>8, <2>2, <3>1 DEF Table1, Entry
  <2> QED
    BY <2>1, <2>2
<1>10. /\ Translate(s, v) = Entry(Table1(s, v), v[1])
       /\ Translate(s, v)' = Entry(Table1(s, v), v[1])'
  BY DEF Translate, Table1, Table2, Table3
<1>11. CASE Table1(s, v) = Absent
  BY <1>2, <1>5, <1>9, <1>10, <1>11 DEF Entry
<1>12. CASE Table1(s, v) # Absent
  <2>1. Table1(s, v) \in Frames /\ rank[Table1(s, v)] = 1
    BY <1>2, <1>12, WalkDescends
  <2>2. mem'[Table1(s, v)][v[1]] = mem[Table1(s, v)][v[1]]
    BY <1>2, <1>3, <1>4, <2>1
  <2> QED
    BY <1>9, <1>10, <1>12, <2>2 DEF Entry
<1> QED
  BY <1>11, <1>12

\* The walks of two pages end in the same table only in one space, and when
\* the pages differ in their last index at most.
LEMMA WalksApart ==
  ASSUME TypeOK, NEW rank \in Ranks, Ranked(rank),
         NEW s \in spaces, NEW v \in Page, v[4] \notin KernelIndex,
         NEW t \in spaces, NEW w \in Page, w[4] \notin KernelIndex,
         Table1(s, v) # Absent, Table1(s, v) = Table1(t, w)
  PROVE  s = t /\ v[4] = w[4] /\ v[3] = w[3] /\ v[2] = w[2]
<1>1. \A f, g \in Frames : \A x, y \in Index :
        /\ rank[f] \in 2 .. 4 /\ (rank[f] = 4 => x \notin KernelIndex) /\ mem[f][x] # Absent
        /\ rank[g] \in 2 .. 4 /\ (rank[g] = 4 => y \notin KernelIndex) /\ mem[f][x] = mem[g][y]
        => f = g /\ x = y
  BY DEF Ranked, Unshared, Ruled
<1>2. /\ v[4] \in Index /\ v[3] \in Index /\ v[2] \in Index
      /\ w[4] \in Index /\ w[3] \in Index /\ w[2] \in Index
  BY DEF Page
<1>3. /\ Table2(s, v) \in Frames /\ rank[Table2(s, v)] = 2
      /\ Table1(s, v) = mem[Table2(s, v)][v[2]]
      /\ Table3(s, v) \in Frames /\ rank[Table3(s, v)] = 3
      /\ Table2(s, v) = mem[Table3(s, v)][v[3]]
      /\ s \in Frames /\ rank[s] = 4 /\ Table3(s, v) = mem[s][v[4]]
      /\ Table2(s, v) # Absent /\ Table3(s, v) # Absent
  BY WalkDescends
<1>4. /\ Table2(t, w) \in Frames /\ rank[Table2(t, w)] = 2
      /\ Table1(t, w) = mem[Table2(t, w)][w[2]]
      /\ Table3(t, w) \in Frames /\ rank[Table3(t, w)] = 3
      /\ Table2(t, w) = mem[Table3(t, w)][w[3]]
      /\ t \in Frames /\ rank[t] = 4 /\ Table3(t, w) = mem[t][w[4]]
  BY WalkDescends
<1>5. Table2(s, v) = Table2(t, w) /\ v[2] = w[2]
  <2>1. mem[Table2(s, v)][v[2]] # Absent /\ mem[Table2(s, v)][v[2]] = mem[Table2(t, w)][w[2]]
    BY <1>3, <1>4
  <2>2. rank[Table2(s, v)] \in 2 .. 4 /\ rank[Table2(s, v)] # 4
    <3>1. rank[Table2(s, v)] = 2
      BY <1>3, Zenon
    <3> QED
      BY <3>1
  <2>3. rank[Table2(t, w)] \in 2 .. 4 /\ rank[Table2(t, w)] # 4
    <3>1. rank[Table2(t, w)] = 2
      BY <1>4, Zenon
    <3> QED
      BY <3>1
  <2>4. Table2(s, v) \in Frames /\ Table2(t, w) \in Frames
    BY <1>3, <1>4
  <2> QED
    BY <1>1, <1>2, <2>1, <2>2, <2>3, <2>4
<1>6. Table3(s, v) = Table3(t, w) /\ v[3] = w[3]
  <2>1. mem[Table3(s, v)][v[3]] # Absent /\ mem[Table3(s, v)][v[3]] = mem[Table3(t, w)][w[3]]
    BY <1>3, <1>4, <1>5
  <2>2. rank[Table3(s, v)] \in 2 .. 4 /\ rank[Table3(s, v)] # 4
    <3>1. rank[Table3(s, v)] = 3
      BY <1>3, Zenon
    <3> QED
      BY <3>1
  <2>3. rank[Table3(t, w)] \in 2 .. 4 /\ rank[Table3(t, w)] # 4
    <3>1. rank[Table3(t, w)] = 3
      BY <1>4, Zenon
    <3> QED
      BY <3>1
  <2>4. Table3(s, v) \in Frames /\ Table3(t, w) \in Frames
    BY <1>3, <1>4
  <2> QED
    BY <1>1, <1>2, <2>1, <2>2, <2>3, <2>4
<1>7. s = t /\ v[4] = w[4]
  <2>1. mem[s][v[4]] # Absent /\ mem[s][v[4]] = mem[t][w[4]]
    BY <1>3, <1>4, <1>6
  <2>2. s \in Frames /\ t \in Frames
    BY <1>3, <1>4
  <2>3. rank[s] = 4 /\ rank[t] = 4
    BY <1>3, <1>4, Zenon
  <2>4. rank[s] \in 2 .. 4 /\ rank[t] \in 2 .. 4
    BY <2>3
  <2> QED
    BY <1>1, <1>2, <2>1, <2>2, <2>4
<1> QED
  BY <1>5, <1>6, <1>7

\* The last write maps the page that map_block was called for, in the space it
\* was called for, to the frame it was called for, and no other page of any space.
LEMMA LeafTranslation ==
  ASSUME TypeOK, NEW rank \in Ranks, Ranked(rank), SetLeaf
  PROVE  /\ call.virt \in UserPages /\ call.space \in spaces
         /\ \A t \in spaces, w \in UserPages :
              t = call.space /\ w = call.virt => Translate(t, w)' = call.phys
         /\ \A t \in spaces, w \in UserPages :
              t # call.space \/ w # call.virt => Translate(t, w)' = Translate(t, w)
<1>1. /\ call \in [space : spaces, cur : AllFrames, level : 1 .. 4,
                   virt : UserPages, phys : data]
      /\ call.virt \in Page /\ call.virt[4] \notin KernelIndex
      /\ Idx \in Index /\ call # Idle /\ call.level = 1
  BY CallType DEF SetLeaf
<1>2. /\ call.cur \in Frames /\ rank[call.cur] = 1
      /\ \A f \in AllFrames : f # call.cur => mem'[f] = mem[f]
      /\ \A x \in Index : x # Idx => mem'[call.cur][x] = mem[call.cur][x]
      /\ mem'[call.cur][Idx] = call.phys
  BY <1>1, LeafEffect
<1>3. PICK s \in spaces : s = call.space /\ ComesBy(s)
  BY <1>1 DEF Ranked, OnTheWay
<1>4. call.cur = Table1(s, call.virt) /\ call.cur # Absent
  BY <1>1, <1>2, <1>3, Numbers DEF ComesBy
<1>5. ASSUME NEW t \in spaces, NEW w \in UserPages
      PROVE  /\ w \in Page /\ w[4] \notin KernelIndex /\ w[1] \in Index
             /\ Table1(t, w) # Absent => Table1(t, w) \in Frames
             /\ Table1(t, w)' = Table1(t, w)
             /\ Translate(t, w) = Entry(Table1(t, w), w[1])
             /\ Translate(t, w)' = Entry(Table1(t, w), w[1])'
  <2>1. w \in Page /\ w[4] \notin KernelIndex /\ w[1] \in Index
    BY PagesAssumption DEF Page
  <2>2. /\ t \in Frames /\ rank[t] = 4 /\ t # Absent
        /\ Table3(t, w) # Absent => Table3(t, w) \in Frames /\ rank[Table3(t, w)] = 3
        /\ Table2(t, w) # Absent => Table2(t, w) \in Frames /\ rank[Table2(t, w)] = 2
        /\ Table1(t, w) # Absent => Table1(t, w) \in Frames /\ rank[Table1(t, w)] = 1
    BY <2>1, WalkDescends, Numbers
  <2>3. \A f \in Frames : rank[f] # 1 => mem'[f] = mem[f]
    BY <1>2, Numbers
  <2>4. Table3(t, w)' = Table3(t, w)
    BY <2>2, <2>3 DEF Table3, Entry
  <2>5. Table2(t, w)' = Table2(t, w)
    BY <2>2, <2>3, <2>4 DEF Table2, Entry
  <2>6. Table1(t, w)' = Table1(t, w)
    BY <2>2, <2>3, <2>5 DEF Table1, Entry
  <2>7. /\ Translate(t, w) = Entry(Table1(t, w), w[1])
        /\ Translate(t, w)' = Entry(Table1(t, w), w[1])'
    BY DEF Translate, Table1, Table2, Table3
  <2> QED
    BY <2>1, <2>2, <2>6, <2>7
<1>6. ASSUME NEW t \in spaces, NEW w \in UserPages, t # s \/ w # call.virt
      PROVE  Translate(t, w)' = Translate(t, w)
  <2>1. CASE Table1(t, w) # call.cur
    BY <1>2, <1>5, <2>1, Numbers DEF Entry
  <2>2. CASE Table1(t, w) = call.cur
    <3>1. t = s /\ w[4] = call.virt[4] /\ w[3] = call.virt[3] /\ w[2] = call.virt[2]
      BY <1>1, <1>4, <1>5, <2>2, WalksApart
    <3>2. w # call.virt
      BY <1>6, <3>1
    <3>3. w[1] # call.virt[1]
      <4>1. ASSUME w[1] = call.virt[1] PROVE \A i \in 1 .. 4 : w[i] = call.virt[i]
        BY <3>1, <4>1
      <4> QED
        BY <1>1, <1>5, <3>2, <4>1 DEF Page
    <3>4. w[1] # Idx
      BY <1>1, <3>3 DEF Idx
    <3> QED
      BY <1>2, <1>5, <2>2, <3>4 DEF Entry
  <2> QED
    BY <2>1, <2>2
<1>7. ASSUME NEW t \in spaces, NEW w \in UserPages, t = s, w = call.virt
      PROVE  Translate(t, w)' = call.phys
  <2>1. Table1(t, w)' = call.cur /\ w[1] = Idx
    BY <1>1, <1>4, <1>5, <1>7 DEF Idx
  <2>2. Translate(t, w)' = mem'[call.cur][Idx]
    BY <1>4, <1>5, <2>1 DEF Entry
  <2> QED
    BY <1>2, <2>2
<1> QED
  BY <1>1, <1>3, <1>6, <1>7

\* A call of map_block is a request until it ends.
LEMMA RequestIsMade ==
  ASSUME TypeOK, NEW pt \in spaces, NEW virt \in UserPages, NEW phys \in data,
         map_block(pt, virt, phys)
  PROVE  Request' = {[space |-> pt, page |-> virt, frame |-> phys]}
<1>1. call' = [space |-> pt, cur |-> pt, level |-> 4, virt |-> virt, phys |-> phys]
  BY DEF map_block
<1>2. pt \in AllFrames /\ virt \in Page /\ phys \in AllFrames
  BY PagesAssumption DEF TypeOK, AllFrames
<1>3. call' # Idle
  BY <1>1, <1>2, IdleAssumption
<1> QED
  BY <1>1, <1>3 DEF Request

\* The walk goes on at a frame.
LEMMA TableReached ==
  ASSUME TypeOK, NextPresent \/ NextAllocated
  PROVE  \E table \in AllFrames : call' = [call EXCEPT !.cur = table, !.level = @ - 1]
<1>1. CASE NextPresent
  <2>1. call # Idle /\ mem[call.cur][Idx] # Absent
    BY <1>1 DEF NextPresent
  <2>2. call.cur \in AllFrames /\ Idx \in Index
    BY <2>1, CallType
  <2>3. mem[call.cur][Idx] \in AllFrames
    BY <2>1, <2>2 DEF TypeOK, Tables
  <2> QED
    BY <1>1, <2>3 DEF NextPresent, Descend
<1>2. CASE NextAllocated
  <2>1. Got \in AllFrames
    BY GotType DEF TypeOK
  <2> QED
    BY <1>2, <2>1 DEF NextAllocated, Descend
<1> QED
  BY <1>1, <1>2

\* No level of the walk changes what map_block was called for.
LEMMA WalkKeepsRequest ==
  ASSUME TypeOK, NextPresent \/ NextAllocated
  PROVE  Request' = Request
<1>1. /\ call # Idle /\ call.level > 1
      /\ \E table : call' = [call EXCEPT !.cur = table, !.level = @ - 1]
  BY DEF NextPresent, NextAllocated, Descend
<1>2. call \in [space : spaces, cur : AllFrames, level : 1 .. 4,
                virt : UserPages, phys : data]
  BY <1>1, CallType
<1>3. /\ call'.space = call.space /\ call'.virt = call.virt /\ call'.phys = call.phys
  BY <1>1, <1>2
<1>4. call' # Idle
  <2>1. PICK table \in AllFrames : call' = [call EXCEPT !.cur = table, !.level = @ - 1]
    BY TableReached
  <2>2. /\ call.space \in AllFrames /\ call.virt \in Page /\ call.phys \in AllFrames
        /\ call.level - 1 \in 1 .. 4
    BY <1>1, <1>2, PagesAssumption DEF TypeOK, AllFrames
  <2>3. call' = [space |-> call.space, cur |-> table, level |-> call.level - 1,
                 virt |-> call.virt, phys |-> call.phys]
    BY <1>2, <2>1
  <2> QED
    BY <2>2, <2>3, IdleAssumption
<1> QED
  BY <1>1, <1>3, <1>4 DEF Request

\* The tables implement address spaces that are independent of each other:
\* what is allocated on the way maps nothing, and map_block(pt, virt, phys) maps
\* the page virt of the space pt to phys and changes no other page of any space.
THEOREM Refinement == Spec => RefinesAddressSpaces
<1> DEFINE trans == [s \in spaces |-> [v \in UserPages |-> Translate(s, v)]]
<1>1. Init => Spaces!Init
  BY DEF Init, Spaces!Init, Request
<1>2. TypeOK /\ ForestInv /\ [Next]_vars => [Spaces!Next]_<<trans, Request, exhausted>>
  <2> SUFFICES ASSUME TypeOK, ForestInv, [Next]_vars
               PROVE  [Spaces!Next]_<<trans, Request, exhausted>>
    OBVIOUS
  <2>1. CASE exhausted'
    <3>1. exhausted' = TRUE
      BY <2>1, TypeStep DEF TypeOK
    <3> QED
      BY <3>1 DEF Spaces!Next
  <2>2. CASE ~exhausted'
    <3>1. /\ ~exhausted
          /\ newpml4 \/ AllocData \/ NextAllocated => free # {}
      BY <2>2, NotExhausted
    <3>2. exhausted' = exhausted
      BY <2>2, <3>1, TypeStep DEF TypeOK
    <3>3. PICK rank \in Ranks : Ranked(rank)
      BY <3>1 DEF ForestInv
    <3>4. ASSUME spaces' = spaces, Request' = Request,
                 \A s \in spaces, v \in UserPages : Translate(s, v)' = Translate(s, v)
          PROVE  UNCHANGED <<trans, Request, exhausted>>
      BY <3>2, <3>4
    <3>5. ASSUME UNCHANGED <<mem, spaces>> PROVE trans' = trans
      <4>1. \A f \in Frames : rank[f] \in 1 .. 4 => mem'[f] = mem[f]
        BY <3>5
      <4>2. \A s \in spaces, v \in UserPages : Translate(s, v)' = Translate(s, v)
        BY <3>3, <4>1, SameTranslation
      <4> QED
        BY <3>5, <4>2
    <3>6. CASE newpml4
      <4>1. Got \in free /\ Got \in Frames /\ rank[Got] = 5 /\ Got \notin spaces
        BY <3>1, <3>3, <3>6, GotIsFree DEF TypeOK, Ranked, Owned
      <4>2. PICK got : got = Got
        OBVIOUS
      <4>3. spaces' = spaces \cup {got} /\ got \notin spaces
        BY <3>6, <4>1, <4>2 DEF newpml4
      <4>4. /\ \A f \in Frames : f # got => mem'[f] = mem[f]
            /\ mem'[got] = FreshPml4
        BY <3>1, <3>6, <4>1, <4>2, Numbers, ClearedType DEF newpml4, Cleared, TypeOK
      <4>5. \A s \in spaces, v \in UserPages : Translate(s, v)' = Translate(s, v)
        BY <3>3, <4>1, <4>2, <4>4, SameTranslation
      <4>6. ASSUME NEW v \in UserPages PROVE Translate(got, v)' = Absent
        <5>1. v[4] \in Index /\ v[4] \notin KernelIndex
          BY PagesAssumption DEF Page
        <5>2. mem'[got][v[4]] = Absent
          BY <4>4, <5>1 DEF FreshPml4
        <5> QED
          BY <5>2 DEF Translate, Entry
      <4>7. DOMAIN trans = spaces /\ DOMAIN trans' = spaces \cup {got}
        BY <4>3
      <4>8. \A t \in spaces : trans'[t] = trans[t]
        BY <4>3, <4>5
      <4>9. trans'[got] = [v \in UserPages |-> Absent]
        BY <4>3, <4>6
      <4>10. Spaces!Create(got)
        BY <3>2, <3>6, <4>3, <4>7, <4>8, <4>9 DEF Spaces!Create, newpml4, Request
      <4>11. got \in DOMAIN trans' \ DOMAIN trans
        BY <4>3, <4>7
      <4> QED
        BY <4>10, <4>11 DEF Spaces!Next
    <3>7. CASE AllocData
      <4>1. Got \in free /\ Got \in Frames /\ rank[Got] = 5
        BY <3>1, <3>3, <3>7, GotIsFree DEF TypeOK, Ranked, Owned
      <4>2. \A f \in Frames : rank[f] \in 1 .. 4 => mem'[f] = mem[f]
        BY <3>7, <4>1, Numbers DEF AllocData, Cleared, TypeOK
      <4>3. Request' = Request
        BY <3>7 DEF AllocData, Request
      <4> QED
        BY <3>3, <3>4, <3>7, <4>2, <4>3, SameTranslation DEF AllocData
    <3>8. CASE NextAllocated
      <4>1. Request' = Request
        BY <3>3, <3>8, WalkKeepsRequest
      <4> QED
        BY <3>1, <3>3, <3>4, <3>8, <4>1, AllocatedTranslation DEF NextAllocated
    <3>9. CASE SetLeaf
      <4>1. PICK s \in spaces, v \in UserPages : s = call.space /\ v = call.virt
        BY <3>3, <3>9, LeafTranslation
      <4>2. /\ Translate(s, v)' = call.phys
            /\ \A t \in spaces, w \in UserPages :
                 t # s \/ w # v => Translate(t, w)' = Translate(t, w)
        BY <3>3, <3>9, <4>1, LeafTranslation
      <4>3. spaces' = spaces
        BY <3>9 DEF SetLeaf
      <4>4. trans' = [trans EXCEPT ![s][v] = call.phys]
        BY <4>2, <4>3
      <4>5. /\ Request' = {}
            /\ Request = {[space |-> s, page |-> v, frame |-> call.phys]}
        BY <3>9, <4>1 DEF SetLeaf, Request
      <4>6. \E r \in Request : trans' = [trans EXCEPT ![r.space][r.page] = r.frame]
        <5> HIDE DEF trans
        <5> QED
          BY <4>4, <4>5
      <4>7. Spaces!Map
        BY <3>2, <4>5, <4>6, Zenon DEF Spaces!Map
      <4> QED
        BY <4>7 DEF Spaces!Next
    <3>10. ASSUME NEW pt \in spaces, NEW virt \in UserPages, NEW phys \in data,
                  map_block(pt, virt, phys)
           PROVE  Spaces!Next
      <4>1. Request = {} /\ trans' = trans
        BY <3>5, <3>10 DEF map_block, Request
      <4>2. Request' = {[space |-> pt, page |-> virt, frame |-> phys]}
        BY <3>10, RequestIsMade
      <4>3. phys \in Frames /\ pt \in DOMAIN trans
        BY <3>3 DEF Ranked, Owned
      <4>4. Spaces!Ask(pt, virt, phys)
        BY <3>2, <4>1, <4>2 DEF Spaces!Ask
      <4> QED
        BY <4>3, <4>4 DEF Spaces!Next
    <3>11. CASE NextPresent
      <4>1. Request' = Request
        BY <3>3, <3>11, WalkKeepsRequest
      <4> QED
        BY <3>2, <3>5, <3>11, <4>1 DEF NextPresent
    <3>12. CASE UNCHANGED vars
      <4>1. Request' = Request /\ UNCHANGED <<mem, spaces>>
        BY <3>12 DEF vars, Request
      <4> QED
        BY <3>2, <3>5, <4>1
    <3> QED
      BY <3>6, <3>7, <3>8, <3>9, <3>10, <3>11, <3>12 DEF Next
  <2> QED
    BY <2>1, <2>2
<1> QED
  BY <1>1, <1>2, Invariant, PTL DEF Spec, RefinesAddressSpaces, Spaces!Spec

=============================================================================
