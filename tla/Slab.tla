-------------------------------- MODULE Slab --------------------------------
(***************************************************************************)
(* spmalloc and spfree, kernel/mem/pmm_mem.c: 64-byte objects cut from one *)
(* page that pmalloc gives.  The first word of the page counts its free    *)
(* objects, the first word of a free object links to the next free one,    *)
(* and slabH is the head of that list (0: none).                           *)
(*                                                                         *)
(* Memory is counted in words of 8 bytes.  The page's count is looked for  *)
(* at ALIGN(object), and ALIGN rounds down to 1 KiB, not to the page: from *)
(* the object at word AlignWords on it is another object's word.  That     *)
(* happens in the code and in the model (strayed); so does a page of the   *)
(* null address when pmalloc refuses (exhausted).                          *)
(***************************************************************************)
EXTENDS Integers, FiniteSets

CONSTANTS
  PageWords,    \* words in a block (512)
  AlignWords,   \* words in the granule of ALIGN (128), less than a block
  ObjectWords,  \* words in an object (8)
  WordMod,      \* the values a word has (2^64)
  UsablePages,  \* the blocks pmalloc can give
  Data          \* what holders of objects and of pages write

Objects == (PageWords - 1) \div ObjectWords

\* A page has the count and at least two objects, the last of which begins
\* after the page's first granule; a word holds any count.
ASSUME SlabAssumption ==
  /\ AlignWords \in Nat \ {0} /\ ObjectWords \in Nat \ {0}
  /\ PageWords \in Nat /\ PageWords > 2 * ObjectWords + 1
  /\ PageWords % AlignWords = 0
  /\ AlignWords <= 1 + (Objects - 1) * ObjectWords
  /\ WordMod \in Nat /\ Objects < WordMod
  /\ UsablePages \subseteq Nat \ {0}
  /\ Data \subseteq 0 .. (WordMod - 1)

VARIABLES
  mem,        \* what each word of memory holds
  slabH,      \* the head of the list of free objects, or 0
  free,       \* the pages pmalloc can give
  others,     \* the pages other callers of pmalloc hold
  held,       \* ghost: the objects held, with what their holders left there
  strayed,    \* ghost: a count was looked for where there is none
  exhausted   \* ghost: pmalloc refused, and spmalloc went on with address 0

vars == <<mem, slabH, free, others, held, strayed, exhausted>>

Pages == UsablePages \cup {0}

PageBase(page) == page * PageWords

PageOf(addr) == addr \div PageWords

WordsOf(page) == PageBase(page) .. (PageBase(page) + PageWords - 1)

ALIGN(addr) == addr - (addr % AlignWords)

\* One word for the count, then the objects.
ObjectsOf(page) ==
  {PageBase(page) + 1 + k * ObjectWords : k \in 0 .. (Objects - 1)}

FirstOf(page) == CHOOSE o \in ObjectsOf(page) : \A q \in ObjectsOf(page) : o <= q

LastOf(page) == CHOOSE o \in ObjectsOf(page) : \A q \in ObjectsOf(page) : q <= o

Contents(m, o) == [k \in 0 .. (ObjectWords - 1) |-> m[o + k]]

\* pmalloc(1): a free page, cleared, or 0.
Given == IF free = {} THEN {0} ELSE free

ClearedPage(page) ==
  IF page = 0 THEN mem
  ELSE [w \in DOMAIN mem |-> IF w \in WordsOf(page) THEN 0 ELSE mem[w]]

Init ==
  /\ mem = [w \in UNION {WordsOf(page) : page \in Pages} |-> 0]
  /\ slabH = 0 /\ free = UsablePages /\ others = {}
  /\ held = [o \in {} |-> 0]
  /\ strayed = FALSE /\ exhausted = FALSE

Hold(o, m) ==
  held' = [q \in DOMAIN held \cup {o} |->
             IF q = o THEN Contents(m, o) ELSE held[q]]

Release(o) == held' = [q \in DOMAIN held \ {o} |-> held[q]]

\* The page as spmalloc lays it out: every object but the first is free and
\* links to its neighbour, the last one to nothing.
FreshPage(page) ==
  [w \in DOMAIN mem |->
     IF w = PageBase(page) THEN Objects - 1
     ELSE IF w \in ObjectsOf(page) \ {FirstOf(page)}
          THEN IF w = LastOf(page) THEN 0 ELSE w + ObjectWords
          ELSE ClearedPage(page)[w]]

\* spmalloc without a list: a new page, whose first object is returned.
spmallocNew ==
  /\ slabH = 0
  /\ \E page \in Given :
       /\ mem' = FreshPage(page)
       /\ slabH' = FirstOf(page) + ObjectWords
       /\ free' = free \ {page}
       /\ Hold(FirstOf(page), mem')
       /\ exhausted' = (exhausted \/ free = {})
  /\ UNCHANGED <<others, strayed>>

Counted(addr, change) ==
  [mem EXCEPT ![ALIGN(addr)] = (@ + change) % WordMod]

Strays(addr) == ALIGN(addr) # PageBase(PageOf(addr))

\* spmalloc with a list: the head is counted off and returned.
spmallocPop ==
  /\ slabH # 0
  /\ mem' = Counted(slabH, -1)
  /\ slabH' = mem'[slabH]
  /\ Hold(slabH, mem')
  /\ strayed' = (strayed \/ Strays(slabH))
  /\ UNCHANGED <<free, others, exhausted>>

\* Faulty variant: the page whose objects are all free is not given back.
spfreeLastKeepsPage(addr) ==
  /\ Counted(addr, 1)[ALIGN(addr)] = Objects
  /\ mem' = Counted(addr, 1)
  /\ free' = free
  /\ slabH' = 0
  /\ Release(addr)
  /\ strayed' = (strayed \/ Strays(addr))
  /\ UNCHANGED <<others, exhausted>>

\* Faulty variant: the page goes back with an object still held.
spfreeLastEarly(addr) ==
  /\ Counted(addr, 1)[ALIGN(addr)] >= Objects - 1
  /\ mem' = Counted(addr, 1)
  /\ free' = free \cup {PageOf(addr)}
  /\ slabH' = 0
  /\ Release(addr)
  /\ strayed' = (strayed \/ Strays(addr))
  /\ UNCHANGED <<others, exhausted>>

\* spfree of the page's last object: the page goes back to pfree, which
\* takes the block the address lies in.
spfreeLast(addr) ==
  /\ Counted(addr, 1)[ALIGN(addr)] = Objects
  /\ mem' = Counted(addr, 1)
  /\ free' = free \cup {PageOf(addr)}
  /\ slabH' = 0
  /\ Release(addr)
  /\ strayed' = (strayed \/ Strays(addr))
  /\ UNCHANGED <<others, exhausted>>

\* Faulty variant: the head is moved before the link is written.
spfreePushSwapped(addr) ==
  /\ Counted(addr, 1)[ALIGN(addr)] # Objects
  /\ slabH' = addr
  /\ mem' = [Counted(addr, 1) EXCEPT ![addr] = slabH']
  /\ Release(addr)
  /\ strayed' = (strayed \/ Strays(addr))
  /\ UNCHANGED <<free, others, exhausted>>

\* spfree otherwise: the object becomes the head of the list.
spfreePush(addr) ==
  /\ Counted(addr, 1)[ALIGN(addr)] # Objects
  /\ mem' = [Counted(addr, 1) EXCEPT ![addr] = slabH]
  /\ slabH' = addr
  /\ Release(addr)
  /\ strayed' = (strayed \/ Strays(addr))
  /\ UNCHANGED <<free, others, exhausted>>

\* The holder of an object writes one of its words.
HolderWrites(o, k, d) ==
  /\ mem' = [mem EXCEPT ![o + k] = d]
  /\ held' = [held EXCEPT ![o][k] = d]
  /\ UNCHANGED <<slabH, free, others, strayed, exhausted>>

\* Another caller of pmalloc takes a page and fills it, or gives one back.
OtherTakes(page, d) ==
  /\ free' = free \ {page} /\ others' = others \cup {page}
  /\ mem' = [w \in DOMAIN mem |-> IF w \in WordsOf(page) THEN d ELSE mem[w]]
  /\ UNCHANGED <<slabH, held, strayed, exhausted>>

OtherReturns(page) ==
  /\ free' = free \cup {page} /\ others' = others \ {page}
  /\ UNCHANGED <<mem, slabH, held, strayed, exhausted>>

Next ==
  \/ spmallocNew \/ spmallocPop
  \/ \E o \in DOMAIN held : spfreeLast(o) \/ spfreePush(o)
  \/ \E o \in DOMAIN held, k \in 0 .. (ObjectWords - 1), d \in Data :
       HolderWrites(o, k, d)
  \/ \E page \in free, d \in Data : OtherTakes(page, d)
  \/ \E page \in others : OtherReturns(page)

Spec == Init /\ [][Next]_vars

-----------------------------------------------------------------------------
(* Properties.  Until a count strays or pmalloc refuses: *)

Sound == ~strayed /\ ~exhausted

InUse == {PageOf(o) : o \in DOMAIN held}

Link[n \in 0 .. Objects] ==
  IF n = 0 THEN slabH
  ELSE IF Link[n - 1] = 0 THEN 0 ELSE mem[Link[n - 1]]

\* After any sequence of spmalloc and spfree the list that starts at slabH
\* ends, and passes through exactly the objects nobody holds in the pages in
\* use: no object is given twice and none is lost.  And each page counts its
\* own, for spfree to tell its last object by.
FreeIsListed ==
  Sound =>
    /\ Link[Objects] = 0
    /\ {Link[n] : n \in 0 .. Objects} \ {0} =
         (UNION {ObjectsOf(page) : page \in InUse}) \ DOMAIN held
    /\ \A page \in InUse :
         mem[PageBase(page)] = Objects - Cardinality(DOMAIN held \cap ObjectsOf(page))

\* Every page is free, someone else's, or the slab's with an object held in
\* it, and only one of these: spfree leaks no page and frees none in use.
PagesAccounted ==
  Sound =>
    /\ free \cup others \cup InUse = UsablePages
    /\ free \cap others = {}
    /\ InUse \cap (free \cup others) = {}

\* What a holder wrote to its object stays until the object is freed,
\* whatever is allocated, freed, linked or counted meanwhile.
ContentKept ==
  Sound => \A o \in DOMAIN held : held[o] = Contents(mem, o)

\* The abstract allocator: objects and the pages of other callers are the
\* chunks that are lent, each with what memory holds there.
LentPages == {PageBase(page) : page \in others}

Lent ==
  [a \in DOMAIN held \cup LentPages |->
     [k \in 0 .. ((IF a \in DOMAIN held THEN ObjectWords ELSE PageWords) - 1) |-> mem[a + k]]]

Pool == INSTANCE ChunkPool
          WITH Starts <- UNION {WordsOf(page) : page \in UsablePages},
               Lengths <- {ObjectWords, PageWords},
               content <- Lent, lost <- ~Sound

\* Objects and pages that are lent at one time do not overlap, and the slab
\* keeps its books - counts, links, and what it clears - in no word of them:
\* what is in one changes only when its holder writes there.
RefinesPool == Pool!Spec

=============================================================================
