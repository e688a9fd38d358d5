----------------------------- MODULE SlabProofs -----------------------------
(***************************************************************************)
(* What holds of spmalloc and spfree, for pages, granules and objects of   *)
(* any size, any pages and any writes of the holders, until a count is     *)
(* looked for at the wrong address or pmalloc refuses.                     *)
(*                                                                         *)
(* The strengthening names the list: a numbering L of the free objects,    *)
(* each linked to the next, with the page's last object at the end.  ALIGN *)
(* strays at that one, so that spmalloc cannot take it and the list never  *)
(* runs empty: there is never a second page whose objects spfree could mix *)
(* with the first one's.                                                   *)
(***************************************************************************)
EXTENDS Slab, TLAPS, FiniteSetTheorems, WellFoundedInduction, NaturalsInduction

-----------------------------------------------------------------------------
(* Words and objects *)

\* A word of a page: the page can be told from its address.
LEMMA PageArithmetic ==
  ASSUME NEW B \in Nat \ {0}, NEW q \in Nat, NEW k \in 0 .. (B - 1)
  PROVE  (q * B + k) \div B = q
OBVIOUS

\* A greater factor by at least 1 is a greater product by at least one.
LEMMA Monotone ==
  ASSUME NEW a \in Nat, NEW b \in Nat, NEW w \in Nat, a + 1 <= b
  PROVE  a * w + w <= b * w /\ a * w \in Nat
<1>1. PICK d \in Nat : b = a + 1 + d
  <2>1. b - (a + 1) \in Nat /\ b = a + 1 + (b - (a + 1))
    OBVIOUS
  <2> QED
    BY <2>1
<1>2. b * w = a * w + w + d * w
  BY <1>1
<1>3. a * w \in Nat /\ d * w \in Nat
  OBVIOUS
<1> QED
  BY <1>2, <1>3

\* What goes twice into a number goes at least two times.
LEMMA Quotient ==
  ASSUME NEW n \in Nat, NEW w \in Nat \ {0}, n >= 2 * w
  PROVE  n \div w \in Nat /\ n \div w >= 2 /\ (n \div w) * w <= n
<1>1. PICK q \in Nat : q = n \div w
  OBVIOUS
<1>2. PICK r \in 0 .. (w - 1) : n = q * w + r
  BY <1>1
<1>3. q # 0 /\ q # 1
  BY <1>2
<1> QED
  BY <1>1, <1>2, <1>3

\* The size of a page's objects: there are two at least, they fit, and a
\* page is not empty.
LEMMA Sizes ==
  /\ ObjectWords \in Nat \ {0} /\ PageWords \in Nat \ {0}
  /\ Objects \in Nat /\ Objects >= 2
  /\ Objects * ObjectWords <= PageWords - 1
<1>1. /\ ObjectWords \in Nat \ {0} /\ PageWords \in Nat
      /\ PageWords > 2 * ObjectWords + 1
  BY SlabAssumption
<1>2. PageWords - 1 \in Nat /\ PageWords - 1 >= 2 * ObjectWords
  BY <1>1
<1> QED
  BY <1>1, <1>2, Quotient DEF Objects

\* The object at place k of a page.
At(page, k) == PageBase(page) + 1 + k * ObjectWords

\* The object at a place lies in its page, behind the count.
LEMMA ObjectInPage ==
  ASSUME NEW page \in Nat, NEW k \in 0 .. (Objects - 1)
  PROVE  /\ At(page, k) \in Nat
         /\ PageBase(page) \in Nat
         /\ PageBase(page) < At(page, k)
         /\ At(page, k) + ObjectWords <= PageBase(page) + PageWords
<1>1. PageBase(page) \in Nat
  BY Sizes DEF PageBase
<1>2. k \in Nat /\ k + 1 <= Objects
  BY Sizes
<1>3. k * ObjectWords + ObjectWords <= Objects * ObjectWords /\ k * ObjectWords \in Nat
  BY <1>2, Monotone, Sizes
<1> QED
  BY <1>1, <1>3, Sizes DEF At

\* An object is the object at some place, and its page is its own.
LEMMA ObjectFacts ==
  ASSUME NEW page \in Nat, NEW o \in ObjectsOf(page)
  PROVE  /\ o \in Nat /\ PageBase(page) \in Nat
         /\ PageBase(page) < o
         /\ o + ObjectWords <= PageBase(page) + PageWords
         /\ PageOf(o) = page
         /\ \E k \in 0 .. (Objects - 1) : o = At(page, k)
<1>1. PICK k \in 0 .. (Objects - 1) : o = At(page, k)
  BY DEF ObjectsOf, At
<1>2. /\ o \in Nat /\ PageBase(page) \in Nat /\ PageBase(page) < o
      /\ o + ObjectWords <= PageBase(page) + PageWords
  BY <1>1, ObjectInPage
<1>3. o - PageBase(page) \in 0 .. (PageWords - 1)
  BY <1>2, Sizes
<1>4. (page * PageWords + (o - PageBase(page))) \div PageWords = page
  BY <1>3, Sizes, PageArithmetic
<1>5. page * PageWords + (o - PageBase(page)) = o
  BY <1>2 DEF PageBase
<1> QED
  BY <1>1, <1>2, <1>4, <1>5 DEF PageOf

\* A page's count is a word of the page.
LEMMA CountFacts ==
  ASSUME NEW page \in Nat
  PROVE  PageBase(page) \in Nat /\ PageOf(PageBase(page)) = page
<1>1. PageBase(page) = page * PageWords + 0 /\ PageBase(page) \in Nat
  BY Sizes DEF PageBase
<1> QED
  BY <1>1, Sizes, PageArithmetic DEF PageOf

\* Objects at different places are as far apart as they are long.
LEMMA ObjectsApart ==
  ASSUME NEW page \in Nat, NEW j \in Nat, NEW k \in Nat, j < k
  PROVE  At(page, j) + ObjectWords <= At(page, k)
<1>1. j * ObjectWords + ObjectWords <= k * ObjectWords
  BY Monotone, Sizes
<1>2. PageBase(page) \in Nat /\ j * ObjectWords \in Nat /\ k * ObjectWords \in Nat
  BY Sizes DEF PageBase
<1> QED
  BY <1>1, <1>2, Sizes DEF At

\* Different objects of a page do not share a word.
LEMMA ObjectsDisjoint ==
  ASSUME NEW page \in Nat, NEW o \in ObjectsOf(page), NEW q \in ObjectsOf(page), o # q
  PROVE  o + ObjectWords <= q \/ q + ObjectWords <= o
<1>1. PICK j \in 0 .. (Objects - 1) : o = At(page, j)
  BY ObjectFacts
<1>2. PICK k \in 0 .. (Objects - 1) : q = At(page, k)
  BY ObjectFacts
<1>3. j \in Nat /\ k \in Nat /\ j # k
  BY <1>1, <1>2, Sizes
<1>4. j < k \/ k < j
  BY <1>3
<1> QED
  BY <1>1, <1>2, <1>3, <1>4, ObjectsApart

\* The first object follows the count.
LEMMA FirstIs ==
  ASSUME NEW page \in Nat
  PROVE  FirstOf(page) = At(page, 0) /\ FirstOf(page) \in ObjectsOf(page)
<1>1. At(page, 0) \in ObjectsOf(page)
  BY Sizes DEF ObjectsOf, At
<1>2. ASSUME NEW q \in ObjectsOf(page) PROVE At(page, 0) <= q
  <2>1. PICK k \in 0 .. (Objects - 1) : q = At(page, k)
    BY ObjectFacts
  <2>2. k = 0 \/ 0 < k
    BY Sizes
  <2>3. At(page, 0) \in Nat /\ At(page, k) \in Nat
    BY ObjectInPage, Sizes
  <2>4. CASE 0 < k
    <3>1. At(page, 0) + ObjectWords <= At(page, k)
      BY <2>4, ObjectsApart, Sizes
    <3> QED
      BY <2>1, <2>3, <3>1, Sizes
  <2> QED
    BY <2>1, <2>2, <2>3, <2>4
<1>3. ASSUME NEW o \in ObjectsOf(page), \A q \in ObjectsOf(page) : o <= q
      PROVE  o = At(page, 0)
  <2>1. o \in Nat /\ At(page, 0) \in Nat
    BY <1>1, ObjectFacts
  <2> QED
    BY <1>1, <1>2, <1>3, <2>1
<1> QED
  BY <1>1, <1>2, <1>3 DEF FirstOf

\* The last object.
LEMMA LastIs ==
  ASSUME NEW page \in Nat
  PROVE  LastOf(page) = At(page, Objects - 1) /\ LastOf(page) \in ObjectsOf(page)
<1>1. At(page, Objects - 1) \in ObjectsOf(page)
  BY Sizes DEF ObjectsOf, At
<1>2. ASSUME NEW q \in ObjectsOf(page) PROVE q <= At(page, Objects - 1)
  <2>1. PICK k \in 0 .. (Objects - 1) : q = At(page, k)
    BY ObjectFacts
  <2>2. k = Objects - 1 \/ k < Objects - 1
    BY Sizes
  <2>3. At(page, Objects - 1) \in Nat /\ At(page, k) \in Nat
    BY ObjectInPage, Sizes
  <2>4. CASE k < Objects - 1
    <3>1. At(page, k) + ObjectWords <= At(page, Objects - 1)
      BY <2>4, ObjectsApart, Sizes
    <3> QED
      BY <2>1, <2>3, <3>1, Sizes
  <2> QED
    BY <2>1, <2>2, <2>3, <2>4
<1>3. ASSUME NEW o \in ObjectsOf(page), \A q \in ObjectsOf(page) : q <= o
      PROVE  o = At(page, Objects - 1)
  <2>1. o \in Nat /\ At(page, Objects - 1) \in Nat
    BY <1>1, ObjectFacts
  <2> QED
    BY <1>1, <1>2, <1>3, <2>1
<1> QED
  BY <1>1, <1>2, <1>3 DEF LastOf

\* ALIGN does not find the count from the page's last object.
LEMMA LastStrays ==
  ASSUME NEW page \in Nat
  PROVE  ALIGN(LastOf(page)) # PageBase(page)
<1> DEFINE o == LastOf(page)
<1>1. o = PageBase(page) + 1 + (Objects - 1) * ObjectWords /\ o \in Nat
  BY LastIs, ObjectFacts DEF At
<1>2. PageBase(page) \in Nat /\ (Objects - 1) * ObjectWords \in Nat
  BY CountFacts, Sizes
<1>3. AlignWords \in Nat \ {0} /\ AlignWords <= 1 + (Objects - 1) * ObjectWords
  BY SlabAssumption
<1>4. o % AlignWords \in 0 .. (AlignWords - 1)
  BY <1>1, <1>3
<1> QED
  BY <1>1, <1>2, <1>3, <1>4 DEF ALIGN

\* A page has as many objects as there are places.
LEMMA ObjectsCounted ==
  ASSUME NEW page \in Nat
  PROVE  IsFiniteSet(ObjectsOf(page)) /\ Cardinality(ObjectsOf(page)) = Objects
<1> DEFINE f == [i \in 1 .. Objects |-> At(page, i - 1)]
<1>1. f \in [1 .. Objects -> ObjectsOf(page)]
  <2>1. ASSUME NEW i \in 1 .. Objects PROVE At(page, i - 1) \in ObjectsOf(page)
    <3>1. i - 1 \in 0 .. (Objects - 1)
      BY Sizes
    <3> QED
      BY <3>1 DEF ObjectsOf, At
  <2> QED
    BY <2>1
<1>2. ASSUME NEW i \in 1 .. Objects, NEW j \in 1 .. Objects, i < j PROVE f[i] # f[j]
  <2>1. At(page, i - 1) + ObjectWords <= At(page, j - 1)
    BY <1>2, ObjectsApart, Sizes
  <2>2. At(page, i - 1) \in Nat /\ At(page, j - 1) \in Nat
    BY ObjectInPage, Sizes
  <2> QED
    BY <2>1, <2>2, Sizes
<1>3. ASSUME NEW i \in 1 .. Objects, NEW j \in 1 .. Objects, i # j PROVE f[i] # f[j]
  <2>1. i < j \/ j < i
    BY <1>3, Sizes
  <2> QED
    BY <1>2, <2>1
<1>4. \A o \in ObjectsOf(page) : \E i \in 1 .. Objects : f[i] = o
  <2>1. SUFFICES ASSUME NEW o \in ObjectsOf(page)
                 PROVE  \E i \in 1 .. Objects : f[i] = o
    OBVIOUS
  <2>2. PICK k \in 0 .. (Objects - 1) : o = At(page, k)
    BY ObjectFacts
  <2>3. k + 1 \in 1 .. Objects /\ (k + 1) - 1 = k
    BY Sizes
  <2> QED
    BY <2>2, <2>3
<1> HIDE DEF f
<1>5. ExistsBijection(1 .. Objects, ObjectsOf(page))
  <2>1. f \in Bijection(1 .. Objects, ObjectsOf(page))
    BY <1>1, <1>3, <1>4, Zenon DEF Bijection, Injection, Surjection, IsInjective
  <2> QED
    BY <2>1 DEF ExistsBijection
<1> QED
  BY <1>5, Sizes, FS_CountingElements, FS_NatBijection


\* The words of a page are told from those of other pages.
LEMMA WordFacts ==
  ASSUME NEW page \in Nat, NEW w \in WordsOf(page)
  PROVE  w \in Nat /\ PageOf(w) = page
<1>1. PageBase(page) \in Nat
  BY CountFacts
<1>2. w - PageBase(page) \in 0 .. (PageWords - 1) /\ w \in Nat
  BY <1>1, Sizes DEF WordsOf
<1>3. (page * PageWords + (w - PageBase(page))) \div PageWords = page
  BY <1>2, Sizes, PageArithmetic
<1>4. page * PageWords + (w - PageBase(page)) = w
  BY <1>1, <1>2 DEF PageBase
<1> QED
  BY <1>2, <1>3, <1>4 DEF PageOf

-----------------------------------------------------------------------------
(* The strengthening *)

Words == UNION {WordsOf(page) : page \in Pages}

MemInv == mem = [w \in Words |-> mem[w]]

HeldInv ==
  /\ held = [o \in DOMAIN held |-> held[o]]
  /\ \A o \in DOMAIN held : held[o] = Contents(mem, o)

\* L numbers the n free objects of a page from the head of the list on.
Numbers(page, n, L) ==
  /\ L \in [1 .. n -> ObjectsOf(page)]
  /\ \A i, j \in 1 .. n : L[i] = L[j] => i = j
  /\ slabH = L[1] /\ L[n] = LastOf(page)
  /\ \A i \in 1 .. n : mem[L[i]] = IF i = n THEN 0 ELSE L[i + 1]
  /\ mem[PageBase(page)] = n
  /\ DOMAIN held = ObjectsOf(page) \ {L[i] : i \in 1 .. n}

\* No page is in use.
NoneInUse ==
  /\ slabH = 0 /\ DOMAIN held = {}
  /\ free \cup others = UsablePages

\* One page is, and an object of it is held.
OneInUse ==
  \E page \in UsablePages :
    /\ free \cup others = UsablePages \ {page}
    /\ DOMAIN held # {}
    /\ \E n \in 1 .. (Objects - 1) :
         \E L \in [1 .. n -> ObjectsOf(page)] : Numbers(page, n, L)

IInv ==
  /\ MemInv
  /\ Sound => /\ HeldInv
              /\ free \cap others = {}
              /\ NoneInUse \/ OneInUse

-----------------------------------------------------------------------------
(* What the parts of the strengthening say of memory *)

\* A word of a usable page, and each word of its objects, is memory.
LEMMA InMemory ==
  ASSUME NEW page \in UsablePages
  PROVE  /\ page \in Nat /\ page # 0
         /\ PageBase(page) \in Words
         /\ PageBase(page) \in WordsOf(page)
         /\ \A o \in ObjectsOf(page), k \in 0 .. (ObjectWords - 1) : o + k \in WordsOf(page)
         /\ ObjectsOf(page) \subseteq WordsOf(page)
         /\ WordsOf(page) \subseteq Words
<1>1. page \in Nat /\ page # 0 /\ page \in Pages
  BY SlabAssumption DEF Pages
<1>2. WordsOf(page) \subseteq Words
  BY <1>1 DEF Words
<1>3. PageBase(page) \in WordsOf(page)
  BY <1>1, CountFacts, Sizes DEF WordsOf
<1>4. ASSUME NEW o \in ObjectsOf(page), NEW k \in 0 .. (ObjectWords - 1)
      PROVE  o + k \in WordsOf(page) /\ o \in WordsOf(page)
  <2>1. /\ o \in Nat /\ PageBase(page) \in Nat /\ PageBase(page) < o
        /\ o + ObjectWords <= PageBase(page) + PageWords
    BY <1>1, ObjectFacts
  <2> QED
    BY <2>1, Sizes DEF WordsOf
<1>5. 0 \in 0 .. (ObjectWords - 1)
  BY Sizes
<1> QED
  BY <1>1, <1>2, <1>3, <1>4, <1>5

\* Memory that differs in no word of an object has the same contents there.
LEMMA ContentsSame ==
  ASSUME NEW m1, NEW m2, NEW o,
         \A k \in 0 .. (ObjectWords - 1) : m2[o + k] = m1[o + k]
  PROVE  Contents(m2, o) = Contents(m1, o)
BY DEF Contents

\* A page's count is no word of an object.
LEMMA CountApart ==
  ASSUME NEW page \in Nat, NEW o \in ObjectsOf(page), NEW k \in 0 .. (ObjectWords - 1)
  PROVE  o + k # PageBase(page)
<1>1. o \in Nat /\ PageBase(page) \in Nat /\ PageBase(page) < o /\ k \in Nat
  BY ObjectFacts, Sizes
<1> QED
  BY <1>1

\* Two objects share no word.
LEMMA WordsApart ==
  ASSUME NEW page \in Nat, NEW o \in ObjectsOf(page), NEW q \in ObjectsOf(page), o # q,
         NEW j \in 0 .. (ObjectWords - 1), NEW k \in 0 .. (ObjectWords - 1)
  PROVE  o + j # q + k
<1>1. o \in Nat /\ q \in Nat /\ j \in 0 .. (ObjectWords - 1) /\ k \in 0 .. (ObjectWords - 1)
  BY ObjectFacts
<1>2. o + ObjectWords <= q \/ q + ObjectWords <= o
  BY ObjectsDisjoint
<1> QED
  BY <1>1, <1>2, Sizes

\* An object is told from its first word.
LEMMA FirstWord ==
  ASSUME NEW o \in Nat
  PROVE  o + 0 = o /\ 0 \in 0 .. (ObjectWords - 1)
BY Sizes

\* Counted changes one word, and a remainder does not change a count.
LEMMA CountedIs ==
  ASSUME MemInv, NEW page \in UsablePages, NEW addr, ALIGN(addr) = PageBase(page),
         NEW n \in Nat, mem[PageBase(page)] = n,
         NEW change \in Int, n + change \in 0 .. Objects
  PROVE  /\ Counted(addr, change) = [w \in Words |-> Counted(addr, change)[w]]
         /\ Counted(addr, change)[PageBase(page)] = n + change
         /\ \A w \in Words \ {PageBase(page)} : Counted(addr, change)[w] = mem[w]
<1>1. PageBase(page) \in Words
  BY InMemory
<1>2. DOMAIN mem = Words
  BY DEF MemInv
<1>3. WordMod \in Nat /\ n + change < WordMod /\ n + change \in Nat
  BY SlabAssumption, Sizes
<1>4. (n + change) % WordMod = n + change
  BY <1>3
<1> QED
  BY <1>1, <1>2, <1>4 DEF Counted

\* The objects that are held and those that are free are all there are.
LEMMA HeldCount ==
  ASSUME NEW page \in UsablePages, NEW n \in 1 .. (Objects - 1), NEW L, Numbers(page, n, L)
  PROVE  /\ IsFiniteSet(DOMAIN held)
         /\ Cardinality(DOMAIN held) = Objects - n
<1> DEFINE R == {L[i] : i \in 1 .. n}
           H == DOMAIN held
<1>1. page \in Nat /\ n \in Nat
  BY InMemory, Sizes
<1>2. L \in [1 .. n -> R] /\ R \subseteq ObjectsOf(page)
  BY DEF Numbers
<1>3. H = ObjectsOf(page) \ R
  BY DEF Numbers
<1>4. IsFiniteSet(ObjectsOf(page)) /\ Cardinality(ObjectsOf(page)) = Objects
  BY <1>1, ObjectsCounted
<1>5. L \in Bijection(1 .. n, R)
  <2>1. \A i, j \in 1 .. n : L[i] = L[j] => i = j
    BY DEF Numbers
  <2>2. \A o \in R : \E i \in 1 .. n : L[i] = o
    OBVIOUS
  <2> HIDE DEF R
  <2> QED
    BY <1>2, <2>1, <2>2, Zenon DEF Bijection, Injection, Surjection, IsInjective
<1>6. ExistsBijection(1 .. n, R)
  BY <1>5, Zenon DEF ExistsBijection
<1> HIDE DEF R, H
<1>7. Cardinality(R) = n /\ IsFiniteSet(R)
  BY <1>1, <1>6, FS_CountingElements, FS_NatBijection
<1>8. IsFiniteSet(H)
  BY <1>3, <1>4, FS_Subset
<1>9. ObjectsOf(page) = H \cup R /\ H \cap R = {}
  BY <1>2, <1>3
<1>10. Cardinality(H \cup R) = Cardinality(H) + Cardinality(R) - Cardinality(H \cap R)
  BY <1>7, <1>8, FS_Union
<1>11. Cardinality(H \cap R) = 0
  BY <1>9, FS_EmptySet
<1>12. Cardinality(H) \in Nat
  BY <1>8, FS_CardinalityType
<1> QED
  BY <1>4, <1>7, <1>8, <1>9, <1>10, <1>11, <1>12, Sizes DEF H

-----------------------------------------------------------------------------
(* The steps *)

\* The initial states.
LEMMA SlabInit == Init => IInv
<1> SUFFICES ASSUME Init PROVE IInv
  OBVIOUS
<1>1. MemInv
  BY DEF Init, MemInv, Words
<1>2. DOMAIN held = {} /\ held = [o \in DOMAIN held |-> held[o]]
  BY DEF Init
<1>3. HeldInv
  BY <1>2 DEF HeldInv
<1>4. NoneInUse /\ free \cap others = {}
  BY <1>2 DEF Init, NoneInUse
<1> QED
  BY <1>1, <1>3, <1>4 DEF IInv

\* No step leaves memory, whether the counts are right or not.
LEMMA MemStep ==
  ASSUME MemInv, [Next]_vars
  PROVE  MemInv'
<1>1. DOMAIN mem = Words
  BY DEF MemInv
<1>2. CASE UNCHANGED vars
  BY <1>2 DEF vars, MemInv
<1>3. CASE spmallocNew
  <2>1. PICK page : mem' = FreshPage(page)
    BY <1>3 DEF spmallocNew
  <2> QED
    BY <1>1, <2>1 DEF FreshPage, MemInv
<1>4. CASE spmallocPop
  BY <1>1, <1>4 DEF spmallocPop, Counted, MemInv
<1>5. ASSUME NEW o, spfreeLast(o) \/ spfreePush(o) PROVE MemInv'
  BY <1>1, <1>5 DEF spfreeLast, spfreePush, Counted, MemInv
<1>6. ASSUME NEW o, NEW k, NEW d, HolderWrites(o, k, d) PROVE MemInv'
  BY <1>1, <1>6 DEF HolderWrites, MemInv
<1>7. ASSUME NEW page, NEW d, OtherTakes(page, d) PROVE MemInv'
  BY <1>1, <1>7 DEF OtherTakes, MemInv
<1>8. ASSUME NEW page, OtherReturns(page) PROVE MemInv'
  BY <1>8 DEF OtherReturns, MemInv
<1> QED
  BY <1>2, <1>3, <1>4, <1>5, <1>6, <1>7, <1>8 DEF Next

\* spmalloc without a list, while pmalloc has a page: the page's first object
\* is held, and the others are numbered in their order.
LEMMA NewStep ==
  ASSUME MemInv, NoneInUse, free \cap others = {}, spmallocNew, ~exhausted'
  PROVE  HeldInv' /\ (free \cap others = {})' /\ OneInUse'
<1>1. PICK page \in Given :
        /\ mem' = FreshPage(page)
        /\ slabH' = FirstOf(page) + ObjectWords
        /\ free' = free \ {page}
        /\ Hold(FirstOf(page), mem')
  BY DEF spmallocNew
<1>2. free # {} /\ others' = others
  BY DEF spmallocNew
<1>3. page \in free /\ page \in UsablePages
  BY <1>1, <1>2 DEF Given, NoneInUse
<1>4. page \in Nat
  BY <1>3, InMemory
<1> DEFINE n == Objects - 1
           L == [i \in 1 .. n |-> At(page, i)]
<1>5. n \in 1 .. (Objects - 1) /\ n \in Nat
  BY Sizes
<1>6. L \in [1 .. n -> ObjectsOf(page)]
  <2>1. ASSUME NEW i \in 1 .. n PROVE At(page, i) \in ObjectsOf(page)
    BY Sizes DEF ObjectsOf, At
  <2> QED
    BY <2>1
<1>7. \A i \in 1 .. n : L[i] = At(page, i)
  OBVIOUS
<1>8. FirstOf(page) = At(page, 0) /\ FirstOf(page) \in ObjectsOf(page)
  BY <1>4, FirstIs
<1>9. LastOf(page) = At(page, n)
  BY <1>4, LastIs
<1>10. ASSUME NEW i \in 0 .. n, NEW j \in 0 .. n, At(page, i) = At(page, j)
       PROVE  i = j
  <2>1. At(page, i) \in Nat /\ At(page, j) \in Nat
    BY <1>4, ObjectInPage
  <2>2. i \in Nat /\ j \in Nat
    BY <1>5
  <2>3. ~(i < j) /\ ~(j < i)
    BY <1>4, <1>10, <2>1, <2>2, ObjectsApart, Sizes
  <2> QED
    BY <2>2, <2>3
<1>11. slabH' = L[1]
  <2>1. At(page, 0) + ObjectWords = At(page, 1)
    BY <1>4, CountFacts, Sizes DEF At
  <2> QED
    BY <1>1, <1>5, <1>8, <2>1
<1>12. DOMAIN mem = Words /\ WordsOf(page) \subseteq Words
  BY <1>3, InMemory DEF MemInv
<1>13. ASSUME NEW i \in 1 .. n
       PROVE  mem'[L[i]] = IF i = n THEN 0 ELSE L[i + 1]
  <2>1. L[i] \in ObjectsOf(page) /\ L[i] \in Words
    BY <1>3, <1>6, <1>12, InMemory
  <2>2. L[i] # PageBase(page)
    <3>1. L[i] \in Nat /\ PageBase(page) \in Nat /\ PageBase(page) < L[i]
      BY <1>4, <2>1, ObjectFacts
    <3> QED
      BY <3>1
  <2>3. L[i] # FirstOf(page)
    <3>1. i \in 0 .. n /\ 0 \in 0 .. n /\ i # 0
      BY <1>5
    <3> QED
      BY <1>8, <1>10, <3>1
  <2>4. mem'[L[i]] = IF L[i] = LastOf(page) THEN 0 ELSE L[i] + ObjectWords
    BY <1>1, <1>12, <2>1, <2>2, <2>3 DEF FreshPage
  <2>5. (L[i] = LastOf(page)) <=> (i = n)
    <3>1. i \in 0 .. n /\ n \in 0 .. n
      BY <1>5
    <3> QED
      BY <1>9, <1>10, <3>1
  <2>6. ASSUME i # n PROVE L[i] + ObjectWords = L[i + 1]
    <3>1. i + 1 \in 1 .. n
      BY <1>5, <2>6
    <3>2. At(page, i) + ObjectWords = At(page, i + 1)
      BY <1>4, <1>5, CountFacts, Sizes DEF At
    <3> QED
      BY <3>1, <3>2
  <2> QED
    BY <2>4, <2>5, <2>6
<1>14. mem'[PageBase(page)] = n
  BY <1>1, <1>3, <1>12, InMemory DEF FreshPage
<1>15. /\ DOMAIN held' = {FirstOf(page)}
       /\ held' = [o \in DOMAIN held' |-> held'[o]]
       /\ held'[FirstOf(page)] = Contents(mem', FirstOf(page))
  BY <1>1 DEF Hold, NoneInUse
<1>16. {FirstOf(page)} = ObjectsOf(page) \ {L[i] : i \in 1 .. n}
  <2>1. ASSUME NEW i \in 1 .. n PROVE L[i] # FirstOf(page)
    <3>1. i \in 0 .. n /\ 0 \in 0 .. n /\ i # 0
      BY <1>5
    <3> QED
      BY <1>8, <1>10, <3>1
  <2>2. ASSUME NEW o \in ObjectsOf(page), o # FirstOf(page)
        PROVE  \E i \in 1 .. n : o = L[i]
    <3>1. PICK k \in 0 .. (Objects - 1) : o = At(page, k)
      BY <1>4, ObjectFacts
    <3>2. k \in 1 .. n
      BY <1>8, <2>2, <3>1, Sizes
    <3> QED
      BY <3>1, <3>2
  <2> HIDE DEF L
  <2> QED
    BY <1>8, <2>1, <2>2
<1>17. \A i, j \in 1 .. n : L[i] = L[j] => i = j
  <2>1. \A i \in 1 .. n : i \in 0 .. n
    BY <1>5
  <2> QED
    BY <1>7, <1>10, <2>1
<1>18. L[n] = LastOf(page)
  BY <1>5, <1>7, <1>9
<1> HIDE DEF n, L
<1>19. Numbers(page, n, L)'
  BY <1>6, <1>11, <1>13, <1>14, <1>15, <1>16, <1>17, <1>18 DEF Numbers
<1>20. OneInUse'
  <2>1. (free \cup others)' = UsablePages \ {page} /\ (free \cap others)' = {}
    BY <1>1, <1>2, <1>3 DEF NoneInUse
  <2>2. DOMAIN held' # {}
    BY <1>15
  <2> QED
    BY <1>3, <1>5, <1>6, <1>19, <2>1, <2>2 DEF OneInUse
<1>21. HeldInv'
  BY <1>15 DEF HeldInv
<1> QED
  BY <1>1, <1>2, <1>20, <1>21

\* spmalloc from the list: its head is counted off and held, the numbering
\* begins with the second object.  There is one, since ALIGN strays at the
\* last.
LEMMA PopStep ==
  ASSUME MemInv, HeldInv, free \cap others = {}, OneInUse, spmallocPop, ~strayed'
  PROVE  HeldInv' /\ (free \cap others = {})' /\ OneInUse'
<1>1. PICK page \in UsablePages :
        /\ free \cup others = UsablePages \ {page}
        /\ \E n \in 1 .. (Objects - 1) :
             \E L \in [1 .. n -> ObjectsOf(page)] : Numbers(page, n, L)
  BY DEF OneInUse
<1>2. PICK n \in 1 .. (Objects - 1) : \E L \in [1 .. n -> ObjectsOf(page)] : Numbers(page, n, L)
  BY <1>1
<1>3. PICK L \in [1 .. n -> ObjectsOf(page)] : Numbers(page, n, L)
  BY <1>2
<1>4. page \in Nat /\ n \in Nat /\ n >= 1
  BY InMemory, Sizes
<1>5. slabH = L[1] /\ slabH \in ObjectsOf(page) /\ PageOf(slabH) = page
  BY <1>3, <1>4, ObjectFacts DEF Numbers
<1>6. ALIGN(slabH) = PageBase(page)
  BY <1>5 DEF spmallocPop, Strays
<1>7. n # 1
  BY <1>3, <1>4, <1>5, <1>6, LastStrays DEF Numbers
<1> DEFINE m == n - 1
           M == [i \in 1 .. m |-> L[i + 1]]
<1>8. m \in 1 .. (Objects - 1) /\ m \in Nat /\ n = m + 1
  BY <1>4, <1>7, Sizes
<1>9. mem[PageBase(page)] = n
  BY <1>3 DEF Numbers
<1>10. n + (-1) = m /\ m \in 0 .. Objects
  BY <1>8, Sizes
<1>11. /\ mem'[PageBase(page)] = m
       /\ \A w \in Words \ {PageBase(page)} : mem'[w] = mem[w]
  BY <1>4, <1>6, <1>9, <1>10, CountedIs DEF spmallocPop
<1>12. ASSUME NEW o \in ObjectsOf(page), NEW k \in 0 .. (ObjectWords - 1)
       PROVE  mem'[o + k] = mem[o + k]
  BY <1>4, <1>11, InMemory, CountApart
<1>13. \A o \in ObjectsOf(page) : mem'[o] = mem[o]
  <2>1. SUFFICES ASSUME NEW o \in ObjectsOf(page) PROVE mem'[o] = mem[o]
    OBVIOUS
  <2>2. o + 0 = o /\ 0 \in 0 .. (ObjectWords - 1)
    BY <1>4, ObjectFacts, FirstWord
  <2>3. mem'[o + 0] = mem[o + 0]
    BY <1>12, <2>2
  <2> QED
    BY <2>2, <2>3
<1>14. \A o \in ObjectsOf(page) : Contents(mem', o) = Contents(mem, o)
  BY <1>12, ContentsSame
<1>15. M \in [1 .. m -> ObjectsOf(page)] /\ \A i \in 1 .. m : M[i] = L[i + 1]
  BY <1>8
<1>16. L[1] # 0 /\ \A i \in 1 .. n : mem[L[i]] = IF i = n THEN 0 ELSE L[i + 1]
  BY <1>3 , <1>4, <1>5, ObjectFacts DEF Numbers
<1>17. slabH' = M[1]
  <2>1. mem[L[1]] = L[2]
    BY <1>4, <1>7, <1>16
  <2> QED
    BY <1>5, <1>8, <1>13, <1>15, <2>1 DEF spmallocPop
<1>18. M[m] = LastOf(page)
  BY <1>3, <1>8, <1>15 DEF Numbers
<1>19. ASSUME NEW i \in 1 .. m
       PROVE  mem'[M[i]] = IF i = m THEN 0 ELSE M[i + 1]
  <2>1. mem'[M[i]] = mem[L[i + 1]]
    BY <1>13, <1>15
  <2>2. i + 1 \in 1 .. n /\ (i = m <=> i + 1 = n)
    BY <1>8
  <2>3. i # m => M[i + 1] = L[(i + 1) + 1]
    BY <1>8, <1>15
  <2> QED
    BY <1>16, <2>1, <2>2, <2>3
<1>20. \A i, j \in 1 .. n : L[i] = L[j] => i = j
  BY <1>3 DEF Numbers
<1>21. \A i, j \in 1 .. m : M[i] = M[j] => i = j
  <2>1. SUFFICES ASSUME NEW i \in 1 .. m, NEW j \in 1 .. m, M[i] = M[j] PROVE i = j
    OBVIOUS
  <2>2. i + 1 \in 1 .. n /\ j + 1 \in 1 .. n /\ L[i + 1] = L[j + 1]
    BY <1>8, <1>15, <2>1
  <2>3. i + 1 = j + 1
    BY <1>20, <2>2
  <2> QED
    BY <1>8, <2>3
<1>22. DOMAIN held' = DOMAIN held \cup {slabH}
  BY DEF spmallocPop, Hold
<1>23. DOMAIN held' = ObjectsOf(page) \ {M[i] : i \in 1 .. m}
  <2>1. DOMAIN held = ObjectsOf(page) \ {L[i] : i \in 1 .. n}
    BY <1>3 DEF Numbers
  <2>2. {L[i] : i \in 1 .. n} = {L[1]} \cup {M[i] : i \in 1 .. m}
    <3>1. ASSUME NEW i \in 1 .. n, i # 1 PROVE \E j \in 1 .. m : L[i] = M[j]
      <4>1. i - 1 \in 1 .. m /\ (i - 1) + 1 = i
        BY <1>8, <3>1
      <4> QED
        BY <1>15, <4>1
    <3>2. ASSUME NEW j \in 1 .. m PROVE \E i \in 1 .. n : M[j] = L[i]
      <4>1. j + 1 \in 1 .. n
        BY <1>8
      <4> QED
        BY <1>15, <4>1
    <3>3. 1 \in 1 .. n
      BY <1>4
    <3> HIDE DEF M
    <3> QED
      BY <3>1, <3>2, <3>3
  <2>3. ASSUME NEW j \in 1 .. m PROVE M[j] # L[1]
    <3>1. j + 1 \in 1 .. n /\ 1 \in 1 .. n /\ j + 1 # 1
      BY <1>8
    <3> QED
      BY <1>15, <1>20, <3>1
  <2> HIDE DEF M
  <2> QED
    BY <1>5, <1>22, <2>1, <2>2, <2>3
<1> HIDE DEF m, M
<1>24. Numbers(page, m, M)'
  BY <1>11, <1>15, <1>17, <1>18, <1>19, <1>21, <1>23 DEF Numbers
<1>25. OneInUse' /\ (free \cap others = {})'
  <2>1. free' = free /\ others' = others
    BY DEF spmallocPop
  <2>2. DOMAIN held' # {}
    BY <1>22
  <2> QED
    BY <1>1, <1>8, <1>15, <1>24, <2>1, <2>2 DEF OneInUse
<1>26. HeldInv'
  <2>1. held' = [q \in DOMAIN held \cup {slabH} |->
                   IF q = slabH THEN Contents(mem', slabH) ELSE held[q]]
    BY DEF spmallocPop, Hold
  <2>2. DOMAIN held \subseteq ObjectsOf(page)
    BY <1>3 DEF Numbers
  <2>3. ASSUME NEW q \in DOMAIN held' PROVE held'[q] = Contents(mem', q)
    BY <1>14, <1>22, <2>1, <2>2 DEF HeldInv
  <2> QED
    BY <1>22, <2>1, <2>3 DEF HeldInv
<1> QED
  BY <1>25, <1>26

\* spfree, what both branches have in common: the count goes up by one and
\* what is in the page's objects stays, until the link is written.
LEMMA FreeCounts ==
  ASSUME MemInv, NEW page \in UsablePages, NEW n \in 1 .. (Objects - 1), NEW L,
         Numbers(page, n, L), NEW addr \in DOMAIN held, ~Strays(addr)
  PROVE  /\ addr \in ObjectsOf(page) /\ PageOf(addr) = page
         /\ ALIGN(addr) = PageBase(page)
         /\ Counted(addr, 1) = [w \in Words |-> Counted(addr, 1)[w]]
         /\ Counted(addr, 1)[PageBase(page)] = n + 1
         /\ \A w \in Words \ {PageBase(page)} : Counted(addr, 1)[w] = mem[w]
<1>1. page \in Nat /\ n \in Nat /\ n + 1 \in 0 .. Objects
  BY InMemory, Sizes
<1>2. addr \in ObjectsOf(page) /\ mem[PageBase(page)] = n
  BY DEF Numbers
<1>3. PageOf(addr) = page /\ ALIGN(addr) = PageBase(page)
  BY <1>1, <1>2, ObjectFacts DEF Strays
<1> QED
  BY <1>1, <1>2, <1>3, CountedIs

\* spfree of the last object that is held: none is left, and the page is
\* given back.
LEMMA LastStep ==
  ASSUME MemInv, HeldInv, free \cap others = {}, OneInUse,
         NEW addr \in DOMAIN held, spfreeLast(addr), ~strayed'
  PROVE  HeldInv' /\ (free \cap others = {})' /\ NoneInUse'
<1>1. PICK page \in UsablePages :
        /\ free \cup others = UsablePages \ {page}
        /\ \E n \in 1 .. (Objects - 1) :
             \E L \in [1 .. n -> ObjectsOf(page)] : Numbers(page, n, L)
  BY DEF OneInUse
<1>2. PICK n \in 1 .. (Objects - 1) : \E L \in [1 .. n -> ObjectsOf(page)] : Numbers(page, n, L)
  BY <1>1
<1>3. PICK L \in [1 .. n -> ObjectsOf(page)] : Numbers(page, n, L)
  BY <1>2
<1>4. ~Strays(addr)
  BY DEF spfreeLast
<1>5. /\ PageOf(addr) = page /\ ALIGN(addr) = PageBase(page)
      /\ Counted(addr, 1)[PageBase(page)] = n + 1
  BY <1>3, <1>4, FreeCounts
<1>6. n + 1 = Objects
  BY <1>5 DEF spfreeLast
<1>7. IsFiniteSet(DOMAIN held) /\ Cardinality(DOMAIN held) = 1
  <2>1. IsFiniteSet(DOMAIN held) /\ Cardinality(DOMAIN held) = Objects - n
    BY <1>3, HeldCount
  <2> QED
    BY <1>6, <2>1, Sizes
<1>8. DOMAIN held = {addr}
  <2>1. PICK x : DOMAIN held = {x}
    BY <1>7, FS_Singleton
  <2> QED
    BY <2>1
<1>9. held' = [q \in DOMAIN held \ {addr} |-> held[q]]
  BY DEF spfreeLast, Release
<1>10. DOMAIN held' = {} /\ held' = [q \in DOMAIN held' |-> held'[q]]
  BY <1>8, <1>9
<1>11. HeldInv'
  BY <1>10 DEF HeldInv
<1>12. slabH' = 0 /\ free' = free \cup {page} /\ others' = others
  BY <1>5 DEF spfreeLast
<1> QED
  BY <1>1, <1>10, <1>11, <1>12 DEF NoneInUse

\* spfree of another object: it becomes the first of the numbering.  Another
\* one is still held, since the count tells.
LEMMA PushStep ==
  ASSUME MemInv, HeldInv, free \cap others = {}, OneInUse,
         NEW addr \in DOMAIN held, spfreePush(addr), ~strayed'
  PROVE  HeldInv' /\ (free \cap others = {})' /\ OneInUse'
<1>1. PICK page \in UsablePages :
        /\ free \cup others = UsablePages \ {page}
        /\ \E n \in 1 .. (Objects - 1) :
             \E L \in [1 .. n -> ObjectsOf(page)] : Numbers(page, n, L)
  BY DEF OneInUse
<1>2. PICK n \in 1 .. (Objects - 1) : \E L \in [1 .. n -> ObjectsOf(page)] : Numbers(page, n, L)
  BY <1>1
<1>3. PICK L \in [1 .. n -> ObjectsOf(page)] : Numbers(page, n, L)
  BY <1>2
<1>4. page \in Nat /\ n \in Nat /\ n >= 1
  BY InMemory, Sizes
<1> DEFINE C == Counted(addr, 1)
           m == n + 1
           M == [i \in 1 .. m |-> IF i = 1 THEN addr ELSE L[i - 1]]
<1>5. ~Strays(addr)
  BY DEF spfreePush
<1>6. /\ addr \in ObjectsOf(page) /\ ALIGN(addr) = PageBase(page)
      /\ C = [w \in Words |-> C[w]]
      /\ C[PageBase(page)] = n + 1
      /\ \A w \in Words \ {PageBase(page)} : C[w] = mem[w]
  BY <1>3, <1>5, FreeCounts
<1>7. mem' = [C EXCEPT ![addr] = slabH] /\ slabH' = addr
  BY DEF spfreePush
<1>8. m # Objects
  BY <1>6 DEF spfreePush
<1>9. m \in 1 .. (Objects - 1) /\ m \in Nat /\ m = n + 1
  BY <1>4, <1>8, Sizes
<1>10. /\ \A i, j \in 1 .. n : L[i] = L[j] => i = j
       /\ slabH = L[1] /\ L[n] = LastOf(page)
       /\ \A i \in 1 .. n : mem[L[i]] = IF i = n THEN 0 ELSE L[i + 1]
       /\ DOMAIN held = ObjectsOf(page) \ {L[i] : i \in 1 .. n}
  BY <1>3 DEF Numbers
<1>11. /\ PageBase(page) \in Words /\ ObjectsOf(page) \subseteq Words
       /\ \A o \in ObjectsOf(page), k \in 0 .. (ObjectWords - 1) : o + k \in Words
  BY InMemory
<1>12. addr # PageBase(page)
  <2>1. PageBase(page) < addr /\ PageBase(page) \in Nat /\ addr \in Nat
    BY <1>4, <1>6, ObjectFacts
  <2> QED
    BY <2>1
<1> HIDE DEF C
<1>13. /\ mem'[addr] = slabH
       /\ mem'[PageBase(page)] = m
       /\ \A w \in Words \ {PageBase(page), addr} : mem'[w] = mem[w]
  BY <1>6, <1>7, <1>11, <1>12
<1>14. ASSUME NEW o \in ObjectsOf(page), o # addr, NEW k \in 0 .. (ObjectWords - 1)
       PROVE  mem'[o + k] = mem[o + k]
  <2>1. o + k # PageBase(page) /\ o + k \in Words
    BY <1>4, <1>11, CountApart
  <2>2. addr + 0 = addr /\ 0 \in 0 .. (ObjectWords - 1)
    BY <1>4, <1>6, ObjectFacts, FirstWord
  <2>3. o + k # addr + 0
    BY <1>4, <1>6, <1>14, <2>2, WordsApart
  <2> QED
    BY <1>13, <2>1, <2>2, <2>3
<1>15. \A o \in ObjectsOf(page) : o # addr => mem'[o] = mem[o]
  <2>1. SUFFICES ASSUME NEW o \in ObjectsOf(page), o # addr PROVE mem'[o] = mem[o]
    OBVIOUS
  <2>2. o + 0 = o /\ 0 \in 0 .. (ObjectWords - 1)
    BY <1>4, ObjectFacts, FirstWord
  <2>3. mem'[o + 0] = mem[o + 0]
    BY <1>14, <2>1, <2>2
  <2> QED
    BY <2>2, <2>3
<1>16. \A o \in ObjectsOf(page) : o # addr => Contents(mem', o) = Contents(mem, o)
  BY <1>14, ContentsSame
<1>17. /\ M \in [1 .. m -> ObjectsOf(page)] /\ M[1] = addr
       /\ \A i \in 1 .. n : M[i + 1] = L[i]
  BY <1>4, <1>6, <1>9
<1>18. \A i \in 1 .. n : L[i] # addr
  BY <1>10
<1> HIDE DEF M
<1>19. M[m] = LastOf(page)
  BY <1>4, <1>9, <1>10, <1>17
<1>20. ASSUME NEW i \in 1 .. m
       PROVE  mem'[M[i]] = IF i = m THEN 0 ELSE M[i + 1]
  <2>1. CASE i = 1
    <3>1. mem'[M[i]] = L[1]
      BY <1>10, <1>13, <1>17, <2>1
    <3>2. M[1 + 1] = L[1] /\ i # m
      BY <1>4, <1>9, <1>17, <2>1
    <3> QED
      BY <2>1, <3>1, <3>2
  <2>2. CASE i # 1
    <3>1. PICK j \in 1 .. n : i = j + 1
      <4>1. i - 1 \in 1 .. n /\ i = (i - 1) + 1
        BY <1>9, <2>2
      <4> QED
        BY <4>1
    <3>2. mem'[M[i]] = mem[L[j]]
      BY <1>15, <1>17, <1>18, <3>1
    <3>3. j # n => M[i + 1] = L[j + 1]
      <4>1. j # n => j + 1 \in 1 .. n
        BY <1>4
      <4> QED
        BY <1>17, <3>1, <4>1
    <3>4. (i = m) <=> (j = n)
      BY <1>4, <1>9, <3>1
    <3> QED
      BY <1>10, <3>2, <3>3, <3>4
  <2> QED
    BY <2>1, <2>2
<1>21. \A i, j \in 1 .. m : M[i] = M[j] => i = j
  <2>1. SUFFICES ASSUME NEW i \in 1 .. m, NEW j \in 1 .. m, M[i] = M[j] PROVE i = j
    OBVIOUS
  <2>2. ASSUME NEW k \in 1 .. m, k # 1 PROVE k - 1 \in 1 .. n /\ M[k] = L[k - 1]
    <3>1. k - 1 \in 1 .. n /\ (k - 1) + 1 = k
      BY <1>9, <2>2
    <3> QED
      BY <1>17, <3>1
  <2>3. CASE i = 1 \/ j = 1
    BY <1>17, <1>18, <2>1, <2>2, <2>3
  <2>4. CASE i # 1 /\ j # 1
    <3>1. L[i - 1] = L[j - 1] /\ i - 1 \in 1 .. n /\ j - 1 \in 1 .. n
      BY <2>1, <2>2, <2>4
    <3>2. i - 1 = j - 1
      BY <1>10, <3>1
    <3> QED
      BY <1>9, <3>2
  <2> QED
    BY <2>3, <2>4
<1>22. held' = [q \in DOMAIN held \ {addr} |-> held[q]]
  BY DEF spfreePush, Release
<1>23. DOMAIN held' = ObjectsOf(page) \ {M[i] : i \in 1 .. m}
  <2>1. {M[i] : i \in 1 .. m} = {addr} \cup {L[i] : i \in 1 .. n}
    <3>1. ASSUME NEW i \in 1 .. m, i # 1 PROVE \E j \in 1 .. n : M[i] = L[j]
      <4>1. i - 1 \in 1 .. n /\ (i - 1) + 1 = i
        BY <1>9, <3>1
      <4> QED
        BY <1>17, <4>1
    <3>2. ASSUME NEW j \in 1 .. n PROVE \E i \in 1 .. m : L[j] = M[i]
      <4>1. j + 1 \in 1 .. m
        BY <1>9
      <4> QED
        BY <1>17, <4>1
    <3>3. 1 \in 1 .. m
      BY <1>9
    <3>4. \A x : (\E i \in 1 .. m : x = M[i]) <=> (x = addr \/ \E j \in 1 .. n : x = L[j])
      <4>1. M[1] = addr
        BY <1>17, <3>3
      <4> HIDE DEF m, M
      <4> QED
        BY <3>1, <3>2, <3>3, <4>1, Zenon
    <3> HIDE DEF m
    <3> QED
      BY <3>4
  <2> QED
    BY <1>10, <1>22, <2>1
<1>24. M[1] = slabH'
  BY <1>7, <1>17
<1> HIDE DEF m
<1>25. Numbers(page, m, M)'
  BY <1>13, <1>17, <1>19, <1>20, <1>21, <1>23, <1>24 DEF Numbers
<1>26. DOMAIN held' # {}
  <2>1. Cardinality(DOMAIN held) = Objects - n /\ IsFiniteSet(DOMAIN held)
    BY <1>3, HeldCount
  <2>2. Objects - n # 1
    BY <1>4, <1>8, <1>9, Sizes
  <2>3. DOMAIN held # {addr}
    BY <2>1, <2>2, FS_Singleton
  <2> QED
    BY <1>22, <2>3
<1>27. OneInUse' /\ (free \cap others = {})'
  <2>1. free' = free /\ others' = others
    BY DEF spfreePush
  <2> QED
    BY <1>1, <1>9, <1>17, <1>25, <1>26, <2>1 DEF OneInUse
<1>28. HeldInv'
  <2>1. ASSUME NEW q \in DOMAIN held' PROVE held'[q] = Contents(mem', q)
    <3>1. q \in DOMAIN held /\ q # addr /\ held'[q] = held[q] /\ q \in ObjectsOf(page)
      BY <1>10, <1>22
    <3> QED
      BY <1>16, <3>1 DEF HeldInv
  <2>2. held' = [q \in DOMAIN held' |-> held'[q]]
    BY <1>22
  <2> QED
    BY <2>1, <2>2 DEF HeldInv
<1> QED
  BY <1>27, <1>28

\* A step that leaves the list alone and writes to no free object and to no
\* count keeps the numbering.
LEMMA NumbersKept ==
  ASSUME NEW page \in UsablePages, NEW n \in 1 .. (Objects - 1), NEW L, Numbers(page, n, L),
         slabH' = slabH, DOMAIN held' = DOMAIN held,
         mem'[PageBase(page)] = mem[PageBase(page)],
         \A o \in ObjectsOf(page) \ DOMAIN held : mem'[o] = mem[o]
  PROVE  Numbers(page, n, L)'
<1>1. ASSUME NEW i \in 1 .. n PROVE L[i] \in ObjectsOf(page) \ DOMAIN held
  BY DEF Numbers
<1>2. ASSUME NEW i \in 1 .. n PROVE mem'[L[i]] = IF i = n THEN 0 ELSE L[i + 1]
  BY <1>1 DEF Numbers
<1> QED
  BY <1>2 DEF Numbers

\* A holder's write changes its object only.
LEMMA WriteStep ==
  ASSUME MemInv, HeldInv, free \cap others = {}, OneInUse,
         NEW o \in DOMAIN held, NEW k \in 0 .. (ObjectWords - 1), NEW d \in Data,
         HolderWrites(o, k, d)
  PROVE  HeldInv' /\ (free \cap others = {})' /\ OneInUse'
<1>1. PICK page \in UsablePages :
        /\ free \cup others = UsablePages \ {page}
        /\ \E n \in 1 .. (Objects - 1) :
             \E L \in [1 .. n -> ObjectsOf(page)] : Numbers(page, n, L)
  BY DEF OneInUse
<1>2. PICK n \in 1 .. (Objects - 1) : \E L \in [1 .. n -> ObjectsOf(page)] : Numbers(page, n, L)
  BY <1>1
<1>3. PICK L \in [1 .. n -> ObjectsOf(page)] : Numbers(page, n, L)
  BY <1>2
<1>4. page \in Nat
  BY InMemory
<1>5. DOMAIN held \subseteq ObjectsOf(page)
  BY <1>3 DEF Numbers
<1>6. /\ mem' = [mem EXCEPT ![o + k] = d] /\ slabH' = slabH
      /\ held' = [held EXCEPT ![o][k] = d]
      /\ free' = free /\ others' = others
  BY DEF HolderWrites
<1>7. DOMAIN mem = Words /\ o + k \in Words
  BY <1>5, InMemory DEF MemInv
<1>8. ASSUME NEW q \in ObjectsOf(page), q # o, NEW j \in 0 .. (ObjectWords - 1)
      PROVE  mem'[q + j] = mem[q + j]
  <2>1. q + j # o + k
    BY <1>4, <1>5, <1>8, WordsApart
  <2>2. q + j \in Words
    BY InMemory
  <2> QED
    BY <1>6, <1>7, <2>1, <2>2
<1>9. DOMAIN held' = DOMAIN held
  BY <1>6
<1>10. mem'[PageBase(page)] = mem[PageBase(page)]
  BY <1>4, <1>5, <1>6, <1>7, CountApart, InMemory
<1>11. \A q \in ObjectsOf(page) \ DOMAIN held : mem'[q] = mem[q]
  <2>1. SUFFICES ASSUME NEW q \in ObjectsOf(page) \ DOMAIN held PROVE mem'[q] = mem[q]
    OBVIOUS
  <2>2. q + 0 = q /\ 0 \in 0 .. (ObjectWords - 1) /\ q # o
    BY <1>4, ObjectFacts, FirstWord
  <2>3. mem'[q + 0] = mem[q + 0]
    BY <1>8, <2>2
  <2> QED
    BY <2>2, <2>3
<1>12. Numbers(page, n, L)'
  BY <1>3, <1>6, <1>9, <1>10, <1>11, NumbersKept
<1>13. OneInUse' /\ (free \cap others = {})'
  <2>1. DOMAIN held' # {}
    BY <1>9
  <2> QED
    BY <1>1, <1>6, <1>12, <2>1 DEF OneInUse
<1>14. ASSUME NEW q \in DOMAIN held' PROVE held'[q] = Contents(mem', q)
  <2>1. q \in ObjectsOf(page) /\ q \in DOMAIN held /\ held[q] = Contents(mem, q)
    BY <1>5, <1>9 DEF HeldInv
  <2>2. CASE q # o
    <3>1. held'[q] = held[q]
      BY <1>6, <2>1, <2>2
    <3>2. Contents(mem', q) = Contents(mem, q)
      BY <1>8, <2>1, <2>2, ContentsSame
    <3> QED
      BY <2>1, <3>1, <3>2
  <2>3. CASE q = o
    <3>1. held'[o] = [held[o] EXCEPT ![k] = d]
      BY <1>6
    <3>2. held[o] = [j \in 0 .. (ObjectWords - 1) |-> mem[o + j]]
      BY <2>1, <2>3 DEF Contents
    <3>3. ASSUME NEW j \in 0 .. (ObjectWords - 1)
          PROVE  mem'[o + j] = IF j = k THEN d ELSE mem[o + j]
      <4>1. o + j \in Words /\ o \in Nat
        BY <1>4, <1>5, ObjectFacts, InMemory
      <4>2. j # k => o + j # o + k
        BY <4>1
      <4> QED
        BY <1>6, <1>7, <4>1, <4>2
    <3> QED
      BY <2>3, <3>1, <3>2, <3>3 DEF Contents
  <2> QED
    BY <2>2, <2>3
<1>15. held' = [q \in DOMAIN held' |-> held'[q]]
  BY <1>6 DEF HeldInv
<1>16. HeldInv'
  BY <1>14, <1>15 DEF HeldInv
<1> QED
  BY <1>13, <1>16

\* What others do to a page that is not in use.
LEMMA OthersStep ==
  ASSUME MemInv, HeldInv, free \cap others = {}, NoneInUse \/ OneInUse,
         NEW page \in free \cup others, NEW d,
         \/ page \in free /\ OtherTakes(page, d)
         \/ page \in others /\ OtherReturns(page)
  PROVE  HeldInv' /\ (free \cap others = {})' /\ (NoneInUse' \/ OneInUse')
<1>1. /\ slabH' = slabH /\ held' = held
      /\ (free \cup others)' = free \cup others /\ (free \cap others)' = {}
  BY DEF OtherTakes, OtherReturns
<1>2. \A w \in Words : w \notin WordsOf(page) => mem'[w] = mem[w]
  BY DEF OtherTakes, OtherReturns, MemInv
<1>3. CASE NoneInUse
  <2>1. NoneInUse' /\ HeldInv'
    BY <1>1, <1>3 DEF NoneInUse, HeldInv
  <2> QED
    BY <1>1, <2>1
<1>4. CASE OneInUse
  <2>1. PICK p \in UsablePages :
          /\ free \cup others = UsablePages \ {p}
          /\ DOMAIN held # {}
          /\ \E n \in 1 .. (Objects - 1) :
               \E L \in [1 .. n -> ObjectsOf(p)] : Numbers(p, n, L)
    BY <1>4 DEF OneInUse
  <2>2. PICK n \in 1 .. (Objects - 1) : \E L \in [1 .. n -> ObjectsOf(p)] : Numbers(p, n, L)
    BY <2>1
  <2>3. PICK L \in [1 .. n -> ObjectsOf(p)] : Numbers(p, n, L)
    BY <2>2
  <2>4. page \in UsablePages /\ page # p
    BY <2>1
  <2>5. page \in Nat /\ p \in Nat
    BY <2>4, InMemory
  <2>6. ASSUME NEW w \in WordsOf(p) PROVE mem'[w] = mem[w]
    <3>1. PageOf(w) = p
      BY <2>5, WordFacts
    <3>2. w \notin WordsOf(page)
      BY <2>4, <2>5, <3>1, WordFacts
    <3>3. w \in Words
      BY InMemory
    <3> QED
      BY <1>2, <3>2, <3>3
  <2>7. PageBase(p) \in WordsOf(p)
    BY InMemory
  <2>8. /\ mem'[PageBase(p)] = mem[PageBase(p)]
        /\ \A o \in ObjectsOf(p) : mem'[o] = mem[o]
        /\ \A o \in ObjectsOf(p), k \in 0 .. (ObjectWords - 1) : mem'[o + k] = mem[o + k]
    BY <2>6, <2>7, InMemory
  <2>9. Numbers(p, n, L)'
    BY <1>1, <2>3, <2>8, NumbersKept
  <2>10. OneInUse'
    BY <1>1, <2>1, <2>9 DEF OneInUse
  <2>11. HeldInv'
    <3>1. DOMAIN held \subseteq ObjectsOf(p)
      BY <2>3 DEF Numbers
    <3>2. \A o \in ObjectsOf(p) : Contents(mem', o) = Contents(mem, o)
      BY <2>8, ContentsSame
    <3> QED
      BY <1>1, <3>1, <3>2 DEF HeldInv
  <2> QED
    BY <1>1, <2>10, <2>11
<1> QED
  BY <1>3, <1>4

\* Every step keeps the strengthening.
LEMMA SlabStep == IInv /\ [Next]_vars => IInv'
<1> SUFFICES ASSUME IInv, [Next]_vars PROVE IInv'
  OBVIOUS
<1>1. MemInv /\ MemInv'
  BY MemStep DEF IInv
<1>2. SUFFICES ASSUME Sound'
               PROVE  HeldInv' /\ (free \cap others = {})' /\ (NoneInUse' \/ OneInUse')
  BY <1>1 DEF IInv
<1>3. ~strayed' /\ ~exhausted'
  BY <1>2 DEF Sound
<1>4. CASE UNCHANGED vars
  <2>1. /\ mem' = mem /\ slabH' = slabH /\ free' = free /\ others' = others
        /\ held' = held
    BY <1>4 DEF vars
  <2>2. ~strayed /\ ~exhausted
    BY <1>3, <1>4, Zenon DEF vars
  <2>3. HeldInv /\ free \cap others = {} /\ (NoneInUse \/ OneInUse)
    BY <2>2 DEF IInv, Sound
  <2>4. HeldInv' /\ (free \cap others)' = {}
    BY <2>1, <2>3 DEF HeldInv
  <2>5. NoneInUse' <=> NoneInUse
    BY <2>1 DEF NoneInUse
  <2>6. OneInUse' <=> OneInUse
    BY <2>1 DEF OneInUse, Numbers
  <2> QED
    BY <2>3, <2>4, <2>5, <2>6
<1>5. CASE spmallocNew
  <2>1. ~strayed /\ ~exhausted /\ slabH = 0
    BY <1>3, <1>5 DEF spmallocNew
  <2>2. HeldInv /\ free \cap others = {} /\ (NoneInUse \/ OneInUse)
    BY <2>1 DEF IInv, Sound
  <2>3. ~OneInUse
    <3>1. SUFFICES ASSUME OneInUse PROVE FALSE
      OBVIOUS
    <3>2. PICK page \in UsablePages :
            \E n \in 1 .. (Objects - 1) :
              \E L \in [1 .. n -> ObjectsOf(page)] : Numbers(page, n, L)
      BY <3>1 DEF OneInUse
    <3>3. PICK n \in 1 .. (Objects - 1) :
            \E L \in [1 .. n -> ObjectsOf(page)] : Numbers(page, n, L)
      BY <3>2
    <3>4. slabH \in ObjectsOf(page) /\ page \in Nat
      BY <3>3, InMemory, Sizes DEF Numbers
    <3>5. slabH \in Nat /\ PageBase(page) \in Nat /\ PageBase(page) < slabH
      BY <3>4, ObjectFacts
    <3> QED
      BY <2>1, <3>5
  <2> QED
    BY <1>1, <1>3, <1>5, <2>2, <2>3, NewStep
<1>6. CASE spmallocPop
  <2>1. ~strayed /\ ~exhausted /\ slabH # 0
    BY <1>3, <1>6 DEF spmallocPop
  <2>2. HeldInv /\ free \cap others = {} /\ OneInUse
    BY <2>1 DEF IInv, Sound, NoneInUse
  <2> QED
    BY <1>1, <1>3, <1>6, <2>2, PopStep
<1>7. ASSUME NEW o \in DOMAIN held, spfreeLast(o) \/ spfreePush(o)
      PROVE  HeldInv' /\ (free \cap others = {})' /\ (NoneInUse' \/ OneInUse')
  <2>1. ~strayed /\ ~exhausted
    <3>1. CASE spfreeLast(o)
      BY <1>3, <3>1 DEF spfreeLast
    <3>2. CASE spfreePush(o)
      BY <1>3, <3>2 DEF spfreePush
    <3> QED
      BY <1>7, <3>1, <3>2
  <2>2. HeldInv /\ free \cap others = {} /\ OneInUse
    BY <2>1 DEF IInv, Sound, NoneInUse
  <2> QED
    BY <1>1, <1>3, <1>7, <2>2, LastStep, PushStep
<1>8. ASSUME NEW o \in DOMAIN held, NEW k \in 0 .. (ObjectWords - 1), NEW d \in Data,
             HolderWrites(o, k, d)
      PROVE  HeldInv' /\ (free \cap others = {})' /\ (NoneInUse' \/ OneInUse')
  <2>1. ~strayed /\ ~exhausted
    BY <1>3, <1>8 DEF HolderWrites
  <2>2. HeldInv /\ free \cap others = {} /\ OneInUse
    BY <2>1 DEF IInv, Sound, NoneInUse
  <2> QED
    BY <1>1, <1>8, <2>2, WriteStep
<1>9. ASSUME NEW page, NEW d,
             \/ page \in free /\ OtherTakes(page, d)
             \/ page \in others /\ OtherReturns(page)
      PROVE  HeldInv' /\ (free \cap others = {})' /\ (NoneInUse' \/ OneInUse')
  <2>1. ~strayed /\ ~exhausted
    BY <1>3, <1>9 DEF OtherTakes, OtherReturns
  <2>2. HeldInv /\ free \cap others = {} /\ (NoneInUse \/ OneInUse)
    BY <2>1 DEF IInv, Sound
  <2> QED
    BY <1>1, <1>9, <2>2, OthersStep
<1> QED
  BY <1>4, <1>5, <1>6, <1>7, <1>8, <1>9 DEF Next

\* The strengthening holds in every state of every behaviour.
LEMMA SlabInvariant == Spec => []IInv
BY SlabInit, SlabStep, PTL DEF Spec

-----------------------------------------------------------------------------
(* The properties *)

\* The pages in use are the one that has an object held.
LEMMA InUseIs ==
  ASSUME NEW page \in UsablePages, NEW n \in 1 .. (Objects - 1), NEW L,
         Numbers(page, n, L), DOMAIN held # {}
  PROVE  InUse = {page}
<1>1. page \in Nat /\ DOMAIN held \subseteq ObjectsOf(page)
  BY InMemory DEF Numbers
<1>2. \A o \in DOMAIN held : PageOf(o) = page
  BY <1>1, ObjectFacts
<1> QED
  BY <1>2 DEF InUse

\* Every page is free, another caller's, or the slab's with an object held in
\* it, and only one of these.
THEOREM PagesAccountedCorrect == Spec => []PagesAccounted
<1>1. IInv => PagesAccounted
  <2>1. SUFFICES ASSUME IInv, Sound
                 PROVE  /\ free \cup others \cup InUse = UsablePages
                        /\ free \cap others = {}
                        /\ InUse \cap (free \cup others) = {}
    BY DEF PagesAccounted
  <2>2. free \cap others = {} /\ (NoneInUse \/ OneInUse)
    BY <2>1 DEF IInv
  <2>3. CASE NoneInUse
    BY <2>2, <2>3 DEF NoneInUse, InUse
  <2>4. CASE OneInUse
    <3>1. PICK page \in UsablePages :
            /\ free \cup others = UsablePages \ {page}
            /\ DOMAIN held # {}
            /\ \E n \in 1 .. (Objects - 1) :
                 \E L \in [1 .. n -> ObjectsOf(page)] : Numbers(page, n, L)
      BY <2>4 DEF OneInUse
    <3>2. InUse = {page}
      BY <3>1, InUseIs
    <3> QED
      BY <2>2, <3>1, <3>2
  <2> QED
    BY <2>2, <2>3, <2>4
<1> QED
  BY <1>1, SlabInvariant, PTL

\* What a holder wrote to its object stays until the object is freed.
THEOREM ContentKeptCorrect == Spec => []ContentKept
<1>1. IInv => ContentKept
  BY DEF IInv, HeldInv, ContentKept
<1> QED
  BY <1>1, SlabInvariant, PTL

\* A set of numbers has a least one.
LEMMA LeastNumber ==
  ASSUME NEW S, S \subseteq Nat, S # {}
  PROVE  \E x \in S : \A y \in S : x <= y
<1> DEFINE R == {p \in Nat \X Nat : p[1] < p[2]}
<1>0. OpToRel(<, Nat) = R
  BY Zenon DEF OpToRel
<1>1. IsWellFoundedOn(R, Nat)
  BY <1>0, NatLessThanWellFounded, Zenon
<1> HIDE DEF R
<1>2. PICK x \in S : \A y \in S : <<y, x>> \notin R
  BY <1>1, WFMin, Zenon
<1>3. ASSUME NEW y \in S PROVE x <= y
  <2>1. <<y, x>> \in Nat \X Nat /\ <<y, x>> \notin R
    BY <1>2
  <2>2. ~(<<y, x>>[1] < <<y, x>>[2])
    BY <2>1, Zenon DEF R
  <2>3. ~(y < x)
    BY <2>2
  <2>4. x \in Nat /\ y \in Nat
    OBVIOUS
  <2> QED
    BY <2>3, <2>4
<1> QED
  BY <1>3

\* Following the links is the only way to number the list.
LEMMA LinkUnique ==
  ASSUME NEW f,
         f = [i \in 0 .. Objects |->
                IF i = 0 THEN slabH ELSE IF f[i - 1] = 0 THEN 0 ELSE mem[f[i - 1]]]
  PROVE  \A i \in 0 .. Objects : Link[i] = f[i]
<1>1. Link = [i \in 0 .. Objects |->
                IF i = 0 THEN slabH ELSE IF Link[i - 1] = 0 THEN 0 ELSE mem[Link[i - 1]]]
  BY Zenon DEF Link
<1> DEFINE S == {i \in 0 .. Objects : Link[i] # f[i]}
<1>2. SUFFICES ASSUME S # {} PROVE FALSE
  OBVIOUS
<1>3. PICK x \in S : \A y \in S : x <= y
  <2>1. S \subseteq Nat
    OBVIOUS
  <2> HIDE DEF S
  <2> QED
    BY <1>2, <2>1, LeastNumber
<1>4. x \in 0 .. Objects /\ Link[x] # f[x]
  OBVIOUS
<1>5. x # 0
  BY <1>1, <1>4, Sizes
<1>6. x - 1 \in 0 .. Objects /\ ~(x <= x - 1)
  BY <1>4, <1>5, Sizes
<1>7. Link[x - 1] = f[x - 1]
  BY <1>3, <1>6
<1>8. Link[x] = IF Link[x - 1] = 0 THEN 0 ELSE mem[Link[x - 1]]
  BY <1>1, <1>4, <1>5
<1>9. f[x] = IF f[x - 1] = 0 THEN 0 ELSE mem[f[x - 1]]
  BY <1>4, <1>5
<1> QED
  BY <1>4, <1>7, <1>8, <1>9

\* Without a list there is nothing to follow.
LEMMA LinkOfNone ==
  ASSUME slabH = 0
  PROVE  \A i \in 0 .. Objects : Link[i] = 0
<1> DEFINE f == [i \in 0 .. Objects |-> 0]
<1>1. f = [i \in 0 .. Objects |->
             IF i = 0 THEN slabH ELSE IF f[i - 1] = 0 THEN 0 ELSE mem[f[i - 1]]]
  <2>1. ASSUME NEW i \in 0 .. Objects, i # 0 PROVE f[i - 1] = 0
    <3>1. i - 1 \in 0 .. Objects
      BY <2>1, Sizes
    <3> QED
      BY <3>1
  <2> QED
    BY <2>1
<1>2. \A i \in 0 .. Objects : f[i] = 0
  OBVIOUS
<1> HIDE DEF f
<1> QED
  BY <1>1, <1>2, LinkUnique

\* The links pass through the numbered objects, then end.
LEMMA LinkOfOne ==
  ASSUME NEW page \in UsablePages, NEW n \in 1 .. (Objects - 1), NEW L, Numbers(page, n, L)
  PROVE  \A i \in 0 .. Objects : Link[i] = IF i < n THEN L[i + 1] ELSE 0
<1> DEFINE f == [i \in 0 .. Objects |-> IF i < n THEN L[i + 1] ELSE 0]
<1>1. n \in Nat /\ n >= 1 /\ n < Objects /\ page \in Nat
  BY InMemory, Sizes
<1>2. ASSUME NEW i \in 1 .. n PROVE L[i] # 0
  <2>1. L[i] \in ObjectsOf(page)
    BY DEF Numbers
  <2>2. L[i] \in Nat /\ PageBase(page) \in Nat /\ PageBase(page) < L[i]
    BY <1>1, <2>1, ObjectFacts
  <2> QED
    BY <2>2
<1>3. ASSUME NEW i \in 0 .. Objects
      PROVE  f[i] = IF i = 0 THEN slabH ELSE IF f[i - 1] = 0 THEN 0 ELSE mem[f[i - 1]]
  <2>1. f[i] = IF i < n THEN L[i + 1] ELSE 0
    OBVIOUS
  <2>2. CASE i = 0
    BY <1>1, <2>1, <2>2 DEF Numbers
  <2>3. CASE i # 0 /\ i <= n
    <3>1. i - 1 \in 0 .. Objects /\ i - 1 < n /\ (i - 1) + 1 = i /\ i \in 1 .. n
      BY <1>1, <2>3, Sizes
    <3>2. f[i - 1] = L[i] /\ L[i] # 0
      BY <1>2, <3>1
    <3>3. mem[L[i]] = IF i = n THEN 0 ELSE L[i + 1]
      BY <3>1 DEF Numbers
    <3>4. i # n => i < n
      BY <1>1, <2>3
    <3> HIDE DEF f
    <3> QED
      BY <1>1, <2>1, <2>3, <3>2, <3>3, <3>4
  <2>4. CASE i # 0 /\ ~(i <= n)
    <3>1. i - 1 \in 0 .. Objects /\ ~(i - 1 < n) /\ ~(i < n)
      BY <1>1, <2>4, Sizes
    <3> QED
      BY <2>4, <3>1
  <2> QED
    BY <2>2, <2>3, <2>4
<1>4. f = [i \in 0 .. Objects |->
             IF i = 0 THEN slabH ELSE IF f[i - 1] = 0 THEN 0 ELSE mem[f[i - 1]]]
  BY <1>3
<1>5. \A i \in 0 .. Objects : f[i] = IF i < n THEN L[i + 1] ELSE 0
  OBVIOUS
<1> HIDE DEF f
<1>6. \A i \in 0 .. Objects : Link[i] = f[i]
  BY <1>4, LinkUnique
<1> QED
  BY <1>5, <1>6

\* The list that starts at slabH ends, and passes through exactly the objects
\* nobody holds in the pages in use; each page counts its own.
THEOREM FreeIsListedCorrect == Spec => []FreeIsListed
<1>1. IInv => FreeIsListed
  <2>1. SUFFICES ASSUME IInv, Sound
                 PROVE  /\ Link[Objects] = 0
                        /\ {Link[n] : n \in 0 .. Objects} \ {0} =
                             (UNION {ObjectsOf(page) : page \in InUse}) \ DOMAIN held
                        /\ \A page \in InUse :
                             mem[PageBase(page)] =
                               Objects - Cardinality(DOMAIN held \cap ObjectsOf(page))
    BY DEF FreeIsListed
  <2>2. NoneInUse \/ OneInUse
    BY <2>1 DEF IInv
  <2>3. Objects \in 0 .. Objects
    BY Sizes
  <2>4. CASE NoneInUse
    <3>1. \A i \in 0 .. Objects : Link[i] = 0
      BY <2>4, LinkOfNone DEF NoneInUse
    <3>2. InUse = {}
      BY <2>4 DEF NoneInUse, InUse
    <3> QED
      BY <2>3, <3>1, <3>2
  <2>5. CASE OneInUse
    <3>1. PICK page \in UsablePages :
            /\ DOMAIN held # {}
            /\ \E n \in 1 .. (Objects - 1) :
                 \E L \in [1 .. n -> ObjectsOf(page)] : Numbers(page, n, L)
      BY <2>5 DEF OneInUse
    <3>2. PICK n \in 1 .. (Objects - 1) :
            \E L \in [1 .. n -> ObjectsOf(page)] : Numbers(page, n, L)
      BY <3>1
    <3>3. PICK L \in [1 .. n -> ObjectsOf(page)] : Numbers(page, n, L)
      BY <3>2
    <3>4. InUse = {page}
      BY <3>1, <3>3, InUseIs
    <3>5. \A i \in 0 .. Objects : Link[i] = IF i < n THEN L[i + 1] ELSE 0
      BY <3>3, LinkOfOne
    <3>6. n \in Nat /\ n >= 1 /\ n < Objects /\ page \in Nat
      BY InMemory, Sizes
    <3>7. Link[Objects] = 0
      BY <2>3, <3>5, <3>6
    <3>8. ASSUME NEW i \in 1 .. n PROVE L[i] # 0 /\ L[i] \in ObjectsOf(page)
      <4>1. L[i] \in ObjectsOf(page)
        BY <3>3 DEF Numbers
      <4>2. L[i] \in Nat /\ PageBase(page) \in Nat /\ PageBase(page) < L[i]
        BY <3>6, <4>1, ObjectFacts
      <4> QED
        BY <4>1, <4>2
    <3>9. \A x : (x # 0 /\ \E i \in 0 .. Objects : x = Link[i]) <=> \E i \in 1 .. n : x = L[i]
      <4>1. ASSUME NEW i \in 0 .. Objects, Link[i] # 0
            PROVE  \E j \in 1 .. n : Link[i] = L[j]
        <5>1. i < n /\ i + 1 \in 1 .. n
          BY <3>5, <3>6, <4>1
        <5> QED
          BY <3>5, <5>1
      <4>2. ASSUME NEW j \in 1 .. n
            PROVE  \E i \in 0 .. Objects : L[j] = Link[i]
        <5>1. j - 1 \in 0 .. Objects /\ j - 1 < n /\ (j - 1) + 1 = j
          BY <3>6, Sizes
        <5> QED
          BY <3>5, <5>1
      <4> QED
        BY <3>8, <4>1, <4>2, Zenon
    <3>10. {Link[i] : i \in 0 .. Objects} \ {0} = {L[i] : i \in 1 .. n}
      BY <3>9
    <3>11. DOMAIN held = ObjectsOf(page) \ {L[i] : i \in 1 .. n}
      BY <3>3 DEF Numbers
    <3>12. {L[i] : i \in 1 .. n} = ObjectsOf(page) \ DOMAIN held
      <4>1. {L[i] : i \in 1 .. n} \subseteq ObjectsOf(page)
        BY <3>8
      <4> QED
        BY <3>11, <4>1
    <3>13. UNION {ObjectsOf(p) : p \in InUse} = ObjectsOf(page)
      BY <3>4
    <3>14. DOMAIN held \cap ObjectsOf(page) = DOMAIN held
      BY <3>11
    <3>15. mem[PageBase(page)] = Objects - Cardinality(DOMAIN held)
      <4>1. Cardinality(DOMAIN held) = Objects - n /\ mem[PageBase(page)] = n
        BY <3>3, HeldCount DEF Numbers
      <4> QED
        BY <3>6, <4>1, Sizes
    <3>16. {Link[i] : i \in 0 .. Objects} \ {0} =
             (UNION {ObjectsOf(p) : p \in InUse}) \ DOMAIN held
      BY <3>10, <3>12, <3>13, Zenon
    <3>17. \A p \in InUse :
             mem[PageBase(p)] = Objects - Cardinality(DOMAIN held \cap ObjectsOf(p))
      <4>1. SUFFICES mem[PageBase(page)] =
                       Objects - Cardinality(DOMAIN held \cap ObjectsOf(page))
        BY <3>4
      <4> QED
        BY <3>14, <3>15, Zenon
    <3> QED
      BY <3>7, <3>16, <3>17, Zenon
  <2> QED
    BY <2>2, <2>4, <2>5
<1> QED
  BY <1>1, SlabInvariant, PTL

-----------------------------------------------------------------------------
(* The abstract allocator.  What is lent is memory that the slab's steps do  *)
(* not reach: they write to one page only, which is nobody else's, and in it *)
(* to the count and to an object that is not held.                           *)

\* The page that has the objects which are held.
HeldIn(page) ==
  /\ page \in UsablePages \ (free \cup others)
  /\ DOMAIN held \subseteq ObjectsOf(page)

Placed ==
  /\ free \subseteq UsablePages /\ others \subseteq UsablePages
  /\ free \cap others = {}
  /\ DOMAIN held = {} \/ \E page \in UsablePages : HeldIn(page)

\* What memory holds in a page.
PageContents(m, page) == [k \in 0 .. (PageWords - 1) |-> m[PageBase(page) + k]]

\* Nothing is written outside a page.
OnlyIn(page) == \A w \in Words : w \notin WordsOf(page) => mem'[w] = mem[w]

\* The strengthening places what is held.
LEMMA PlacedIs == IInv /\ Sound => Placed
<1> SUFFICES ASSUME IInv, Sound PROVE Placed
  OBVIOUS
<1>1. free \cap others = {} /\ (NoneInUse \/ OneInUse)
  BY DEF IInv
<1>2. CASE NoneInUse
  BY <1>1, <1>2 DEF NoneInUse, Placed
<1>3. CASE OneInUse
  <2>1. PICK page \in UsablePages :
          /\ free \cup others = UsablePages \ {page}
          /\ \E n \in 1 .. (Objects - 1) :
               \E L \in [1 .. n -> ObjectsOf(page)] : Numbers(page, n, L)
    BY <1>3 DEF OneInUse
  <2>2. DOMAIN held \subseteq ObjectsOf(page)
    BY <2>1 DEF Numbers
  <2>3. HeldIn(page)
    BY <2>1, <2>2 DEF HeldIn
  <2> QED
    BY <1>1, <2>1, <2>3 DEF Placed
<1> QED
  BY <1>1, <1>2, <1>3

\* While the list is not empty, its head is a free object of the page in use.
LEMMA HeadFree ==
  ASSUME IInv, Sound, slabH # 0
  PROVE  \E page \in UsablePages : HeldIn(page) /\ slabH \in ObjectsOf(page) \ DOMAIN held
<1>1. OneInUse
  BY DEF IInv, NoneInUse
<1>2. PICK page \in UsablePages :
        /\ free \cup others = UsablePages \ {page}
        /\ \E n \in 1 .. (Objects - 1) :
             \E L \in [1 .. n -> ObjectsOf(page)] : Numbers(page, n, L)
  BY <1>1 DEF OneInUse
<1>3. PICK n \in 1 .. (Objects - 1) : \E L \in [1 .. n -> ObjectsOf(page)] : Numbers(page, n, L)
  BY <1>2
<1>4. PICK L \in [1 .. n -> ObjectsOf(page)] : Numbers(page, n, L)
  BY <1>3
<1>5. 1 \in 1 .. n
  BY Sizes
<1>6. slabH \in ObjectsOf(page) /\ slabH \notin DOMAIN held /\ DOMAIN held \subseteq ObjectsOf(page)
  BY <1>4, <1>5 DEF Numbers
<1> QED
  BY <1>2, <1>6 DEF HeldIn

\* An object that is held does not begin where another caller's page does,
\* and lies in a page that no other caller has.
LEMMA HeldApart ==
  ASSUME Placed, NEW o \in DOMAIN held, NEW p \in others,
         NEW k \in 0 .. (ObjectWords - 1), NEW w \in WordsOf(p)
  PROVE  o + k # w
<1>1. PICK page \in UsablePages : HeldIn(page)
  BY DEF Placed
<1>2. o \in ObjectsOf(page) /\ page # p /\ p \in UsablePages
  BY <1>1 DEF HeldIn, Placed
<1>3. o + k \in WordsOf(page) /\ page \in Nat /\ p \in Nat
  BY <1>2, InMemory
<1>4. PageOf(o + k) = page /\ PageOf(w) = p
  BY <1>3, WordFacts
<1> QED
  BY <1>2, <1>4

\* The words of another caller's page, by their place in it.
LEMMA PageWord ==
  ASSUME NEW p \in UsablePages, NEW k \in 0 .. (PageWords - 1)
  PROVE  PageBase(p) + k \in WordsOf(p)
<1>1. PageBase(p) \in Nat
  BY InMemory, CountFacts
<1> QED
  BY <1>1, Sizes DEF WordsOf

\* No object that is held is the beginning of another caller's page.
LEMMA HeldNoPage ==
  ASSUME Placed, NEW o \in DOMAIN held, NEW p \in others
  PROVE  o # PageBase(p)
<1>1. PICK page \in UsablePages : HeldIn(page)
  BY DEF Placed
<1>2. o \in Nat
  BY <1>1, InMemory, ObjectFacts DEF HeldIn
<1>3. PageBase(p) \in WordsOf(p)
  BY InMemory DEF Placed
<1>4. o + 0 # PageBase(p)
  BY <1>2, <1>3, FirstWord, HeldApart
<1> QED
  BY <1>2, <1>4

\* What is lent, chunk by chunk.
LentAre ==
  /\ \A o \in DOMAIN held : Lent[o] = Contents(mem, o)
  /\ \A p \in others : Lent[PageBase(p)] = PageContents(mem, p)

LEMMA LentIs == Placed => LentAre
<1> SUFFICES ASSUME Placed PROVE LentAre
  OBVIOUS
<1>1. ASSUME NEW o \in DOMAIN held PROVE Lent[o] = Contents(mem, o)
  BY DEF Lent, Contents
<1>2. ASSUME NEW p \in others PROVE Lent[PageBase(p)] = PageContents(mem, p)
  <2>1. PageBase(p) \notin DOMAIN held /\ PageBase(p) \in LentPages
    BY HeldNoPage DEF LentPages
  <2> QED
    BY <2>1 DEF Lent, PageContents
<1> QED
  BY <1>1, <1>2 DEF LentAre

\* What is lent is a function of the objects that are held and of the pages
\* that other callers have.
LentMap ==
  /\ DOMAIN Lent = DOMAIN held \cup LentPages
  /\ Lent = [x \in DOMAIN Lent |-> Lent[x]]

LEMMA LentDomain == LentMap
BY DEF Lent, LentMap

\* Chunks that are lent share no word.
LentApart ==
  \A a, b \in DOMAIN Lent : a # b =>
    \A j \in DOMAIN Lent[a], k \in DOMAIN Lent[b] : a + j # b + k

LEMMA ChunksApart == Placed => LentApart
<1> SUFFICES ASSUME Placed,
                    NEW a \in DOMAIN Lent, NEW b \in DOMAIN Lent, a # b,
                    NEW j \in DOMAIN Lent[a], NEW k \in DOMAIN Lent[b]
             PROVE  a + j # b + k
  BY DEF LentApart
<1>1. LentAre
  BY LentIs
<1>2. \A o \in DOMAIN held : DOMAIN Lent[o] = 0 .. (ObjectWords - 1)
  BY <1>1 DEF LentAre, Contents
<1>3. ASSUME NEW p \in others, NEW c, c = PageBase(p), NEW i \in DOMAIN Lent[c]
      PROVE  c + i \in WordsOf(p) /\ p \in UsablePages
  <2>1. DOMAIN Lent[c] = 0 .. (PageWords - 1)
    BY <1>1, <1>3 DEF LentAre, PageContents
  <2>2. p \in UsablePages
    BY DEF Placed
  <2> QED
    BY <1>3, <2>1, <2>2, PageWord
<1>4. \A c \in DOMAIN Lent : c \notin DOMAIN held => \E p \in others : c = PageBase(p)
  BY LentDomain DEF LentMap, LentPages
<1>5. CASE a \in DOMAIN held /\ b \in DOMAIN held
  <2>1. PICK page \in UsablePages : HeldIn(page)
    BY <1>5 DEF Placed
  <2>2. page \in Nat /\ a \in ObjectsOf(page) /\ b \in ObjectsOf(page)
    BY <1>5, <2>1, InMemory DEF HeldIn
  <2> QED
    BY <1>2, <1>5, <2>2, WordsApart
<1>6. CASE a \in DOMAIN held /\ b \notin DOMAIN held
  <2>1. PICK p \in others : b = PageBase(p)
    BY <1>4, <1>6
  <2>2. b + k \in WordsOf(p) /\ j \in 0 .. (ObjectWords - 1)
    BY <1>2, <1>3, <1>6, <2>1
  <2> QED
    BY <1>6, <2>2, HeldApart
<1>7. CASE a \notin DOMAIN held /\ b \in DOMAIN held
  <2>1. PICK p \in others : a = PageBase(p)
    BY <1>4, <1>7
  <2>2. a + j \in WordsOf(p) /\ k \in 0 .. (ObjectWords - 1)
    BY <1>2, <1>3, <1>7, <2>1
  <2> QED
    BY <1>7, <2>2, HeldApart
<1>8. CASE a \notin DOMAIN held /\ b \notin DOMAIN held
  <2>1. PICK p \in others : a = PageBase(p)
    BY <1>4, <1>8
  <2>2. PICK q \in others : b = PageBase(q)
    BY <1>4, <1>8
  <2>3. /\ a + j \in WordsOf(p) /\ p \in UsablePages
        /\ b + k \in WordsOf(q) /\ q \in UsablePages
    BY <1>3, <2>1, <2>2
  <2>4. PageOf(a + j) = p /\ PageOf(b + k) = q
    BY <2>3, InMemory, WordFacts
  <2> QED
    BY <2>1, <2>2, <2>4
<1> QED
  BY <1>5, <1>6, <1>7, <1>8

\* What the pool is shown while the slab is sound, before a step and after it.
Both ==
  /\ MemInv /\ HeldInv /\ HeldInv'
  /\ Placed /\ Placed' /\ LentAre /\ LentAre' /\ LentApart'

\* A step that writes to one page, which no other caller has before or after
\* it, leaves what is in the other callers' pages.
LEMMA PagesKept ==
  ASSUME Both, NEW page \in UsablePages, OnlyIn(page),
         NEW p \in others, p \in others', p # page
  PROVE  Lent'[PageBase(p)] = Lent[PageBase(p)]
<1>1. p \in UsablePages
  BY DEF Both, Placed
<1>2. ASSUME NEW k \in 0 .. (PageWords - 1)
      PROVE  mem'[PageBase(p) + k] = mem[PageBase(p) + k]
  <2>1. PageBase(p) + k \in WordsOf(p)
    BY <1>1, PageWord
  <2>2. PageBase(p) + k \in Words
    BY <1>1, <2>1, InMemory
  <2>3. PageBase(p) + k \notin WordsOf(page)
    <3>1. PageOf(PageBase(p) + k) = p
      BY <1>1, <2>1, InMemory, WordFacts
    <3> QED
      BY <3>1, InMemory, WordFacts
  <2> QED
    BY <2>2, <2>3 DEF OnlyIn
<1>3. PageContents(mem', p) = PageContents(mem, p)
  BY <1>2 DEF PageContents
<1>4. Lent[PageBase(p)] = PageContents(mem, p) /\ Lent'[PageBase(p)] = PageContents(mem', p)
  BY DEF Both, LentAre
<1> QED
  BY <1>3, <1>4

\* An object that stays held, and of which the ghost record stays, keeps its
\* contents.
LEMMA ObjectKept ==
  ASSUME Both, NEW o \in DOMAIN held, o \in DOMAIN held', held'[o] = held[o]
  PROVE  Lent'[o] = Lent[o]
<1>1. held[o] = Contents(mem, o) /\ held'[o] = Contents(mem', o)
  BY DEF Both, HeldInv
<1>2. Lent[o] = Contents(mem, o) /\ Lent'[o] = Contents(mem', o)
  BY DEF Both, LentAre
<1> QED
  BY <1>1, <1>2

\* What is lent before and after a step, when the callers keep their pages.
LEMMA ObjectStep ==
  ASSUME Both, others \subseteq others',
         NEW page \in UsablePages, page \notin others, OnlyIn(page),
         NEW b \in DOMAIN Lent, b \in DOMAIN held => b \in DOMAIN held' /\ held'[b] = held[b]
  PROVE  Lent'[b] = Lent[b]
<1>1. CASE b \in DOMAIN held
  BY <1>1, ObjectKept
<1>2. CASE b \notin DOMAIN held
  <2>1. PICK p \in others : b = PageBase(p)
    BY <1>2, LentDomain DEF LentMap, LentPages
  <2> QED
    BY <2>1, PagesKept
<1> QED
  BY <1>1, <1>2

\* A chunk that is new is lent by the pool: it shares no word with the others,
\* which keep what is in them.
LEMMA Lends ==
  ASSUME Both, Sound, Sound',
         NEW a, a \notin DOMAIN Lent, DOMAIN Lent' = DOMAIN Lent \cup {a},
         NEW page \in UsablePages, a \in WordsOf(page),
         NEW n \in {ObjectWords, PageWords}, DOMAIN Lent'[a] = 0 .. (n - 1),
         \A b \in DOMAIN Lent : Lent'[b] = Lent[b]
  PROVE  Pool!Next
<1>1. ASSUME NEW b \in DOMAIN Lent, NEW w \in a .. (a + n - 1), w \in Pool!Chunk(b)
      PROVE  FALSE
  <2>1. PICK k \in DOMAIN Lent[b] : w = b + k
    BY <1>1 DEF Pool!Chunk
  <2>2. a \in Nat /\ n \in Nat
    BY InMemory, WordFacts, Sizes
  <2>3. w - a \in 0 .. (n - 1) /\ a + (w - a) = w
    BY <2>2
  <2>4. a # b /\ b \in DOMAIN Lent' /\ a \in DOMAIN Lent' /\ DOMAIN Lent'[b] = DOMAIN Lent[b]
    BY <1>1
  <2>5. a + (w - a) # b + k
    BY <2>1, <2>3, <2>4 DEF Both, LentApart
  <2> QED
    BY <2>1, <2>3, <2>5
<1>2. \A b \in DOMAIN Lent : (a .. (a + n - 1)) \cap Pool!Chunk(b) = {}
  BY <1>1
<1>3. (~Sound)' = ~Sound
  OBVIOUS
<1>4. Pool!Lend(a, n)
  BY <1>2, <1>3, Zenon DEF Pool!Lend
<1>5. a \in UNION {WordsOf(q) : q \in UsablePages}
  BY Zenon
<1>6. a \in (UNION {WordsOf(q) : q \in UsablePages}) \ DOMAIN Lent
  BY <1>5
<1> QED
  BY <1>4, <1>6, Zenon DEF Pool!Next

\* A chunk that is gone is returned to the pool.
LEMMA Returns ==
  ASSUME Sound, Sound', NEW a \in DOMAIN Lent, DOMAIN Lent' = DOMAIN Lent \ {a},
         \A b \in DOMAIN Lent \ {a} : Lent'[b] = Lent[b]
  PROVE  Pool!Next
<1>1. LentMap'
  BY LentDomain, PTL
<1>2. Lent' = [b \in DOMAIN Lent \ {a} |-> Lent[b]]
  BY <1>1 DEF LentMap
<1>3. (~Sound)' = ~Sound
  OBVIOUS
<1>4. Pool!Return(a)
  BY <1>2, <1>3, Zenon DEF Pool!Return
<1> QED
  BY <1>4, Zenon DEF Pool!Next

\* No other caller's page begins in a page that no other caller has.
LEMMA NoPage ==
  ASSUME Placed, NEW page \in UsablePages, page \notin others, NEW a \in WordsOf(page)
  PROVE  a \notin LentPages
<1>1. SUFFICES ASSUME NEW p \in others, a = PageBase(p) PROVE FALSE
  BY DEF LentPages
<1>2. page \in Nat /\ p \in Nat
  BY InMemory DEF Placed
<1>3. PageOf(a) = page /\ PageOf(a) = p
  BY <1>1, <1>2, WordFacts, CountFacts
<1> QED
  BY <1>3

\* No object that is held begins in a free page.
LEMMA NoObject ==
  ASSUME Placed, NEW page \in free, NEW a \in WordsOf(page)
  PROVE  a \notin DOMAIN held
<1>1. SUFFICES ASSUME a \in DOMAIN held PROVE FALSE
  OBVIOUS
<1>2. PICK p \in UsablePages : HeldIn(p)
  BY <1>1 DEF Placed
<1>3. p # page /\ p \in Nat /\ page \in Nat /\ a \in ObjectsOf(p)
  BY <1>1, <1>2, InMemory DEF HeldIn, Placed
<1>4. PageOf(a) = p /\ PageOf(a) = page
  BY <1>3, ObjectFacts, WordFacts
<1> QED
  BY <1>3, <1>4

\* An object that becomes held is lent.
LEMMA LendsObject ==
  ASSUME Both, Sound, Sound', others' = others,
         NEW page \in UsablePages, page \notin others, OnlyIn(page),
         NEW o \in ObjectsOf(page), o \notin DOMAIN held, Hold(o, mem')
  PROVE  Pool!Next
<1>1. o \in WordsOf(page)
  BY InMemory
<1>2. DOMAIN held' = DOMAIN held \cup {o} /\ \A q \in DOMAIN held : held'[q] = held[q]
  BY DEF Hold
<1>3. DOMAIN Lent = DOMAIN held \cup LentPages
  BY LentDomain DEF LentMap
<1>4. o \notin DOMAIN Lent
  BY <1>1, <1>3, NoPage DEF Both
<1>5. DOMAIN Lent' = DOMAIN Lent \cup {o}
  <2>1. LentMap'
    BY LentDomain, PTL
  <2>2. LentPages' = LentPages
    BY DEF LentPages
  <2> QED
    BY <1>2, <1>3, <2>1, <2>2 DEF LentMap
<1>6. DOMAIN Lent'[o] = 0 .. (ObjectWords - 1)
  <2>1. Lent'[o] = Contents(mem', o)
    BY <1>2 DEF Both, LentAre
  <2> QED
    BY <2>1 DEF Contents
<1>7. ASSUME NEW b \in DOMAIN Lent PROVE Lent'[b] = Lent[b]
  BY <1>2, ObjectStep
<1> QED
  BY <1>1, <1>4, <1>5, <1>6, <1>7, Lends

\* spmalloc without a list: the page that is laid out was free.
LEMMA PoolNew ==
  ASSUME Both, Sound, Sound', spmallocNew
  PROVE  Pool!Next
<1>1. PICK page \in Given : mem' = FreshPage(page) /\ Hold(FirstOf(page), mem')
  BY DEF spmallocNew
<1>2. free # {} /\ others' = others
  BY DEF spmallocNew, Sound
<1>3. page \in free /\ page \in UsablePages /\ page \notin others
  BY <1>1, <1>2 DEF Given, Both, Placed
<1>4. page \in Nat /\ FirstOf(page) \in ObjectsOf(page)
  BY <1>3, InMemory, FirstIs
<1>5. OnlyIn(page)
  <2>1. SUFFICES ASSUME NEW w \in Words, w \notin WordsOf(page) PROVE mem'[w] = mem[w]
    BY DEF OnlyIn
  <2>2. w # PageBase(page) /\ w \notin ObjectsOf(page) /\ DOMAIN mem = Words
    BY <1>3, <2>1, InMemory DEF Both, MemInv
  <2> QED
    BY <1>1, <2>1, <2>2 DEF FreshPage, ClearedPage
<1>6. FirstOf(page) \notin DOMAIN held
  BY <1>3, <1>4, InMemory, NoObject DEF Both
<1> QED
  BY <1>1, <1>2, <1>3, <1>4, <1>5, <1>6, LendsObject

\* spmalloc from the list: the page's count is the only word that changes.
LEMMA PoolPop ==
  ASSUME Both, IInv, Sound, Sound', spmallocPop
  PROVE  Pool!Next
<1>1. slabH # 0 /\ mem' = Counted(slabH, -1) /\ Hold(slabH, mem') /\ others' = others
  BY DEF spmallocPop
<1>2. PICK page \in UsablePages : HeldIn(page) /\ slabH \in ObjectsOf(page) \ DOMAIN held
  BY <1>1, HeadFree
<1>3. page \in Nat /\ PageOf(slabH) = page
  BY <1>2, InMemory, ObjectFacts
<1>4. ALIGN(slabH) = PageBase(page)
  BY <1>3 DEF spmallocPop, Sound, Strays
<1>5. OnlyIn(page)
  BY <1>1, <1>2, <1>4, InMemory DEF OnlyIn, Counted, Both, MemInv
<1>6. page \notin others
  BY <1>2 DEF HeldIn
<1> QED
  BY <1>1, <1>2, <1>5, <1>6, LendsObject

\* spfree: the count and the link are words of the page in use, and the object
\* is not lent any more.
LEMMA PoolFree ==
  ASSUME Both, Sound, Sound', NEW o \in DOMAIN held, spfreeLast(o) \/ spfreePush(o)
  PROVE  Pool!Next
<1>1. PICK page \in UsablePages : HeldIn(page)
  BY DEF Both, Placed
<1>2. page \in Nat /\ o \in ObjectsOf(page) /\ PageOf(o) = page /\ page \notin others
  BY <1>1, InMemory, ObjectFacts DEF HeldIn
<1>3. others' = others /\ Release(o) /\ ~Strays(o)
  <2>1. CASE spfreeLast(o)
    BY <2>1 DEF spfreeLast, Sound
  <2>2. CASE spfreePush(o)
    BY <2>2 DEF spfreePush, Sound
  <2> QED
    BY <2>1, <2>2
<1>4. ALIGN(o) = PageBase(page)
  BY <1>2, <1>3 DEF Strays
<1>5. OnlyIn(page)
  <2>1. SUFFICES ASSUME NEW w \in Words, w \notin WordsOf(page) PROVE mem'[w] = mem[w]
    BY DEF OnlyIn
  <2>2. w # PageBase(page) /\ w # o /\ DOMAIN mem = Words
    BY <1>2, <2>1, InMemory DEF Both, MemInv
  <2>3. CASE spfreeLast(o)
    BY <1>4, <2>2, <2>3 DEF spfreeLast, Counted
  <2>4. CASE spfreePush(o)
    BY <1>4, <2>2, <2>4 DEF spfreePush, Counted
  <2> QED
    BY <2>3, <2>4
<1>6. DOMAIN held' = DOMAIN held \ {o} /\ \A q \in DOMAIN held \ {o} : held'[q] = held[q]
  BY <1>3 DEF Release
<1>7. DOMAIN Lent = DOMAIN held \cup LentPages
  BY LentDomain DEF LentMap
<1>8. DOMAIN Lent' = DOMAIN Lent \ {o}
  <2>1. LentMap'
    BY LentDomain, PTL
  <2>2. LentPages' = LentPages
    BY <1>3 DEF LentPages
  <2>3. o \notin LentPages
    BY HeldNoPage DEF LentPages, Both
  <2> QED
    BY <1>6, <1>7, <2>1, <2>2, <2>3 DEF LentMap
<1>9. ASSUME NEW b \in DOMAIN Lent \ {o} PROVE Lent'[b] = Lent[b]
  BY <1>2, <1>3, <1>5, <1>6, ObjectStep
<1> QED
  BY <1>7, <1>8, <1>9, Returns

\* A holder's write is a write to its chunk.
LEMMA PoolWrite ==
  ASSUME Both, Sound, Sound', NEW o \in DOMAIN held, NEW k \in 0 .. (ObjectWords - 1),
         NEW d \in Data, HolderWrites(o, k, d)
  PROVE  Pool!Next
<1>1. PICK page \in UsablePages : HeldIn(page)
  BY DEF Both, Placed
<1>2. page \in Nat /\ o + k \in WordsOf(page) /\ page \notin others
  BY <1>1, InMemory DEF HeldIn
<1>3. /\ mem' = [mem EXCEPT ![o + k] = d] /\ others' = others
      /\ held' = [held EXCEPT ![o][k] = d]
  BY DEF HolderWrites
<1>4. OnlyIn(page)
  BY <1>2, <1>3 DEF OnlyIn, Both, MemInv
<1>5. /\ DOMAIN held' = DOMAIN held /\ \A q \in DOMAIN held \ {o} : held'[q] = held[q]
      /\ held'[o] = [held[o] EXCEPT ![k] = d]
  BY <1>3
<1>6. LentMap /\ LentMap'
  BY LentDomain, PTL
<1>7. DOMAIN Lent' = DOMAIN Lent
  BY <1>3, <1>5, <1>6 DEF LentMap, LentPages
<1>8. ASSUME NEW b \in DOMAIN Lent, b # o PROVE Lent'[b] = Lent[b]
  BY <1>2, <1>3, <1>4, <1>5, <1>8, ObjectStep
<1>9. Lent'[o] = [Lent[o] EXCEPT ![k] = d]
  <2>1. held[o] = Contents(mem, o) /\ held'[o] = Contents(mem', o)
    BY <1>5 DEF Both, HeldInv
  <2>2. Lent[o] = Contents(mem, o) /\ Lent'[o] = Contents(mem', o)
    BY <1>5 DEF Both, LentAre
  <2> QED
    BY <1>5, <2>1, <2>2
<1>10. Lent' = [Lent EXCEPT ![o][k] = d]
  BY <1>6, <1>7, <1>8, <1>9 DEF LentMap
<1>11. (~Sound)' = ~Sound
  OBVIOUS
<1>12. Pool!Write(o, k, d)
  BY <1>10, <1>11, Zenon DEF Pool!Write
<1>13. o \in DOMAIN Lent /\ k \in DOMAIN Lent[o]
  BY <1>6 DEF LentMap, Both, LentAre, Contents
<1> QED
  BY <1>12, <1>13, Zenon DEF Pool!Next

\* Another caller's page is lent to it: it was free, and no object is in it.
LEMMA PoolTakes ==
  ASSUME Both, Sound, Sound', NEW page \in free, NEW d, OtherTakes(page, d)
  PROVE  Pool!Next
<1> DEFINE a == PageBase(page)
<1>1. /\ page \in UsablePages /\ page \notin others
      /\ others' = others \cup {page} /\ held' = held
      /\ mem' = [w \in DOMAIN mem |-> IF w \in WordsOf(page) THEN d ELSE mem[w]]
  BY DEF OtherTakes, Both, Placed
<1>2. a \in WordsOf(page)
  BY <1>1, InMemory
<1>3. OnlyIn(page)
  BY <1>1 DEF OnlyIn, Both, MemInv
<1>4. LentMap /\ LentMap'
  BY LentDomain, PTL
<1>5. a \notin DOMAIN Lent
  <2>1. a \notin LentPages
    BY <1>1, <1>2, NoPage DEF Both
  <2>2. a \notin DOMAIN held
    BY <1>2, NoObject DEF Both
  <2> QED
    BY <1>4, <2>1, <2>2 DEF LentMap
<1>6. LentPages' = LentPages \cup {a}
  BY <1>1 DEF LentPages
<1>7. DOMAIN Lent' = DOMAIN Lent \cup {a}
  BY <1>1, <1>4, <1>6 DEF LentMap
<1>8. DOMAIN Lent'[a] = 0 .. (PageWords - 1)
  <2>1. Lent'[a] = PageContents(mem', page)
    BY <1>1 DEF Both, LentAre
  <2> QED
    BY <2>1 DEF PageContents
<1>9. ASSUME NEW b \in DOMAIN Lent PROVE Lent'[b] = Lent[b]
  BY <1>1, <1>3, ObjectStep
<1> HIDE DEF a
<1> QED
  BY <1>1, <1>2, <1>5, <1>7, <1>8, <1>9, Lends

\* A page that its caller gives back is returned.
LEMMA PoolReturns ==
  ASSUME Both, Sound, Sound', NEW page \in others, OtherReturns(page)
  PROVE  Pool!Next
<1> DEFINE a == PageBase(page)
<1>1. page \in UsablePages /\ others' = others \ {page} /\ held' = held /\ mem' = mem
  BY DEF OtherReturns, Both, Placed
<1>2. OnlyIn(page)
  BY <1>1 DEF OnlyIn
<1>3. LentMap /\ LentMap'
  BY LentDomain, PTL
<1>4. a \in DOMAIN Lent
  BY <1>3 DEF LentMap, LentPages
<1>5. ASSUME NEW p \in others, PageBase(p) = a PROVE p = page
  <2>1. p \in Nat /\ page \in Nat
    BY InMemory DEF Both, Placed
  <2>2. PageOf(PageBase(p)) = p /\ PageOf(PageBase(page)) = page
    BY <2>1, CountFacts
  <2> QED
    BY <1>5, <2>2
<1>6. LentPages' = LentPages \ {a}
  BY <1>1, <1>5 DEF LentPages
<1>7. a \notin DOMAIN held
  BY HeldNoPage DEF Both
<1>8. DOMAIN Lent' = DOMAIN Lent \ {a}
  BY <1>1, <1>3, <1>6, <1>7 DEF LentMap
<1>9. ASSUME NEW b \in DOMAIN Lent \ {a} PROVE Lent'[b] = Lent[b]
  <2>1. CASE b \in DOMAIN held
    BY <1>1, <2>1, ObjectKept
  <2>2. CASE b \notin DOMAIN held
    <3>1. PICK p \in others : b = PageBase(p)
      BY <1>3, <2>2 DEF LentMap, LentPages
    <3>2. p # page /\ p \in others'
      BY <1>1, <1>9, <3>1
    <3> QED
      BY <1>1, <1>2, <3>1, <3>2, PagesKept
  <2> QED
    BY <2>1, <2>2
<1> HIDE DEF a
<1> QED
  BY <1>4, <1>8, <1>9, Returns

\* Every step of spmalloc, spfree, the holders and the other callers, while the
\* slab is sound, is a step of the pool.
LEMMA PoolStep ==
  ASSUME Both, IInv, Sound, Sound', Next
  PROVE  Pool!Next
<1>1. ASSUME NEW o \in DOMAIN held, spfreeLast(o) \/ spfreePush(o) PROVE Pool!Next
  BY <1>1, PoolFree
<1>2. ASSUME NEW o \in DOMAIN held, NEW k \in 0 .. (ObjectWords - 1), NEW d \in Data,
             HolderWrites(o, k, d)
      PROVE  Pool!Next
  BY <1>2, PoolWrite
<1>3. ASSUME NEW page \in free, NEW d \in Data, OtherTakes(page, d) PROVE Pool!Next
  BY <1>3, PoolTakes
<1>4. ASSUME NEW page \in others, OtherReturns(page) PROVE Pool!Next
  BY <1>4, PoolReturns
<1>5. spmallocNew => Pool!Next
  BY PoolNew
<1>6. spmallocPop => Pool!Next
  BY PoolPop
<1> QED
  BY <1>1, <1>2, <1>3, <1>4, <1>5, <1>6, Zenon DEF Next

\* A slab that has lost track does not find it again.
LEMMA SoundBefore ==
  ASSUME Next, Sound'
  PROVE  Sound
<1>1. CASE spmallocNew
  BY <1>1 DEF spmallocNew, Sound
<1>2. CASE spmallocPop
  BY <1>2 DEF spmallocPop, Sound
<1>3. ASSUME NEW o, spfreeLast(o) PROVE Sound
  BY <1>3 DEF spfreeLast, Sound
<1>4. ASSUME NEW o, spfreePush(o) PROVE Sound
  BY <1>4 DEF spfreePush, Sound
<1>5. ASSUME NEW o, NEW k, NEW d, HolderWrites(o, k, d) PROVE Sound
  BY <1>5 DEF HolderWrites, Sound
<1>6. ASSUME NEW page, NEW d, OtherTakes(page, d) PROVE Sound
  BY <1>6 DEF OtherTakes, Sound
<1>7. ASSUME NEW page, OtherReturns(page) PROVE Sound
  BY <1>7 DEF OtherReturns, Sound
<1> QED
  BY <1>1, <1>2, <1>3, <1>4, <1>5, <1>6, <1>7, Zenon DEF Next

\* What is lent - objects and other callers' pages - never overlaps, and what
\* is in it changes only when its holder writes there: spmalloc, spfree and
\* what they do to counts, links and fresh pages implement the pool, until a
\* count strays or pmalloc refuses.
THEOREM PoolRefinement == Spec => RefinesPool
<1>1. Init => Pool!Init
  <2>1. Init => DOMAIN Lent = {}
    BY DEF Init, Lent, LentPages
  <2>2. Init => (~Sound) = FALSE
    BY DEF Init, Sound
  <2> QED
    BY <2>1, <2>2, Zenon DEF Pool!Init
<1>2. IInv /\ IInv' /\ [Next]_vars => [Pool!Next]_<<Lent, ~Sound>>
  <2>1. SUFFICES ASSUME IInv, IInv', [Next]_vars
                 PROVE  Pool!Next \/ UNCHANGED <<Lent, ~Sound>>
    BY Zenon
  <2>2. CASE UNCHANGED vars
    <3>1. Lent' = Lent
      BY <2>2 DEF vars, Lent, LentPages
    <3>2. (~Sound)' = ~Sound
      BY <2>2, Zenon DEF vars, Sound
    <3> QED
      BY <3>1, <3>2, Zenon
  <2>3. CASE ~Sound'
    <3>1. (~Sound)' = TRUE
      BY <2>3
    <3> QED
      BY <3>1, Zenon DEF Pool!Next, Pool!Lose
  <2>4. CASE Next /\ Sound'
    <3>1. Sound
      BY <2>4, SoundBefore
    <3>2. Placed /\ Placed' /\ LentAre /\ LentAre' /\ LentApart'
      <4>1. Placed
        BY <2>1, <3>1, PlacedIs
      <4>2. (IInv /\ Sound => Placed)' /\ (Placed => LentAre)' /\ (Placed => LentApart)'
        BY PlacedIs, LentIs, ChunksApart, PTL
      <4>3. LentAre
        BY <4>1, LentIs
      <4> QED
        BY <2>1, <2>4, <4>1, <4>2, <4>3
    <3>3. MemInv /\ HeldInv /\ HeldInv'
      BY <2>1, <2>4, <3>1 DEF IInv
    <3> QED
      BY <2>1, <2>4, <3>1, <3>2, <3>3, PoolStep DEF Both
  <2> QED
    BY <2>1, <2>2, <2>3, <2>4
<1> QED
  BY <1>1, <1>2, SlabInvariant, PTL DEF Spec, RefinesPool, Pool!Spec

=============================================================================
