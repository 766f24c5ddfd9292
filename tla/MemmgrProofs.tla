----------------------------- MODULE MemmgrProofs -----------------------------
(***************************************************************************)
(* Proofs about Memmgr for any memory, any bus address space and objects of*)
(* any size.  The lemmas about the single actions are also what the proofs *)
(* about Gtt rest on, which has other steps between them.                  *)
(***************************************************************************)
EXTENDS Memmgr, SequenceTheorems, TLAPS

Entry == [page : Frames, len : Nat \ {0}, first : Nat]

\* Types; the bounds on the entries follow from ListInv.
MemTypes ==
  /\ mm \in {"idle", "pages", "ready"}
  /\ num \in Sizes \cup {0}
  /\ pages \in Seq(Frames) /\ Len(pages) <= num
  /\ sg \in Seq(Entry)
  /\ dma \in Seq(BusFrames)
  /\ used \subseteq Frames
  /\ DOMAIN iommu \subseteq BusFrames
  /\ \A b \in DOMAIN iommu : iommu[b] \in Frames

\* The entries of the list follow each other, each stands for pages of the
\* object, the last one ends with the last page, and no page is left out.
ListInv ==
  /\ sg = <<>> <=> pages = <<>>
  /\ sg # <<>> => sg[Len(sg)].first + sg[Len(sg)].len = Len(pages)
  /\ \A k \in 1 .. Len(sg) : sg[k].first + sg[k].len <= Len(pages)
  /\ \A k, l \in 1 .. Len(sg) : k < l => sg[k].first + sg[k].len <= sg[l].first
  /\ sg # <<>> => sg[1].first = 0
  /\ \A k \in 2 .. Len(sg) : sg[k].first = sg[k - 1].first + sg[k - 1].len
  /\ \A k \in 1 .. Len(sg) : k <= sg[k].first + 1
  /\ \A k \in 1 .. Len(sg), j \in Nat :
       j < sg[k].len => pages[sg[k].first + j + 1] = sg[k].page + j
  /\ \A p \in 1 .. Len(pages) :
       \E k \in 1 .. Len(sg) : p - 1 \in sg[k].first .. sg[k].first + sg[k].len - 1

\* What has been handed out is used, and only once.
UsedInv ==
  /\ \A p \in 1 .. Len(pages) : pages[p] \in used
  /\ \A p, q \in 1 .. Len(pages) : pages[p] = pages[q] => p = q
  /\ \A b \in DOMAIN iommu : iommu[b] \in used
  /\ mm = "pages" =>
       \A b \in DOMAIN iommu, p \in 1 .. Len(pages) : iommu[b] # pages[p]

\* An object that is ready has a bus range behind every entry of its list.
ReadyInv ==
  mm = "ready" =>
    /\ Len(pages) = num /\ Len(dma) = Len(sg)
    /\ \A k \in 1 .. Len(sg), j \in Nat :
         j < sg[k].len => /\ dma[k] + j \in DOMAIN iommu
                          /\ iommu[dma[k] + j] = sg[k].page + j

MemInv ==
  MemTypes /\ ListInv /\ ListIsShort /\ UsedInv /\ ReadyInv /\ BusPagesDistinct
-----------------------------------------------------------------------------
\* An empty object keeps every promise about its list.
LEMMA EmptyList ==
  ASSUME pages = <<>>, sg = <<>>
  PROVE  ListInv /\ ListIsShort
<1>1. Len(pages) = 0 /\ Len(sg) = 0
  OBVIOUS
<1> QED
  BY <1>1 DEF ListInv, ListIsShort

\* Nothing is allocated yet.
LEMMA MemInitInv == MemInit => MemInv
<1> SUFFICES ASSUME MemInit PROVE MemInv
  OBVIOUS
<1>1. MemTypes
  BY MemmgrAssumption DEF MemInit, NoObject, MemTypes
<1>2. ListInv /\ ListIsShort
  BY EmptyList DEF MemInit, NoObject
<1>3. UsedInv /\ ReadyInv /\ BusPagesDistinct
  BY DEF MemInit, NoObject, UsedInv, ReadyInv, BusPagesDistinct
<1> QED
  BY <1>1, <1>2, <1>3 DEF MemInv

\* A call starts with an empty list, whatever the call before has left.
LEMMA AllocateInv ==
  ASSUME MemInv, NEW n \in Sizes, Allocate(n)
  PROVE  MemInv'
<1> USE DEF MemInv, Allocate, ListEmpty
<1>1. MemTypes'
  BY MemmgrAssumption DEF MemTypes
<1>2. (ListInv /\ ListIsShort)'
  <2>1. Len(pages') = 0 /\ Len(sg') = 0
    OBVIOUS
  <2> QED
    BY <2>1 DEF ListInv, ListIsShort
<1>3. UsedInv'
  BY DEF UsedInv
<1>4. ReadyInv' /\ BusPagesDistinct'
  BY DEF ReadyInv, BusPagesDistinct
<1> QED
  BY <1>1, <1>2, <1>3, <1>4

\* A failure leaves everything but the call itself as it is.
LEMMA FailInv ==
  ASSUME MemInv, Fail
  PROVE  MemInv'
<1> USE DEF MemInv, Fail, Kept, objVars
<1>1. MemTypes'
  BY DEF MemTypes
<1>2. ListInv' /\ ListIsShort'
  BY DEF ListInv, ListIsShort
<1>3. UsedInv' /\ ReadyInv' /\ BusPagesDistinct'
  BY DEF UsedInv, ReadyInv, BusPagesDistinct
<1> QED
  BY <1>1, <1>2, <1>3

\* So does a caller who takes the object.
LEMMA TakenInv ==
  ASSUME MemInv, mm' = "idle", UNCHANGED <<objVars, used, iommu>>
  PROVE  MemInv'
<1> USE DEF MemInv, objVars
<1>1. MemTypes'
  BY DEF MemTypes
<1>2. ListInv' /\ ListIsShort'
  BY DEF ListInv, ListIsShort
<1>3. UsedInv' /\ ReadyInv' /\ BusPagesDistinct'
  BY DEF UsedInv, ReadyInv, BusPagesDistinct
<1> QED
  BY <1>1, <1>2, <1>3
-----------------------------------------------------------------------------
\* A list whose last entry has one page more.
Longer(s) == [s EXCEPT ![Len(s)].len = @ + 1]

\* Increasing the length of the last entry changes nothing else in the list.
LEMMA LongerEntry ==
  ASSUME NEW s \in Seq(Entry), s # <<>>, NEW t, t = Longer(s)
  PROVE  /\ t \in Seq(Entry) /\ Len(t) = Len(s)
         /\ t[Len(s)].page = s[Len(s)].page /\ t[Len(s)].first = s[Len(s)].first
         /\ t[Len(s)].len = s[Len(s)].len + 1
         /\ \A k \in 1 .. Len(s) : k # Len(s) => t[k] = s[k]
<1> DEFINE e == [s[Len(s)] EXCEPT !.len = @ + 1]
<1>1. Len(s) \in 1 .. Len(s) /\ s[Len(s)] \in Entry
  OBVIOUS
<1>2. /\ e \in Entry /\ e.page = s[Len(s)].page /\ e.first = s[Len(s)].first
      /\ e.len = s[Len(s)].len + 1
  <2> DEFINE z == s[Len(s)]
             x == [z EXCEPT !.len = @ + 1]
  <2>1. z \in Entry
    BY <1>1
  <2> HIDE DEF z
  <2>2. x \in Entry /\ x.page = z.page /\ x.first = z.first /\ x.len = z.len + 1
    BY <2>1 DEF Entry
  <2> QED
    BY <2>2 DEF z
<1>3. t = [s EXCEPT ![Len(s)] = e]
  <2>1. t = [s EXCEPT ![Len(s)].len = @ + 1]
    BY DEF Longer
  <2> QED
    BY <2>1
<1> HIDE DEF e
<1>4. /\ t \in Seq(Entry) /\ Len(t) = Len(s) /\ t[Len(s)] = e
      /\ \A k \in 1 .. Len(s) : k # Len(s) => t[k] = s[k]
  BY <1>1, <1>2, <1>3, ExceptSeq
<1> QED
  BY <1>2, <1>4

\* One turn of the loop of allocate_object, whether it starts an entry or
\* lengthens the last one.
LEMMA GetPageInv ==
  ASSUME MemInv, NEW f \in Frames, GetPage(f)
  PROVE  MemInv'
<1> DEFINE n == Len(pages)
           L == Len(sg)
<1>t. /\ pages \in Seq(Frames) /\ sg \in Seq(Entry)
      /\ n \in Nat /\ L \in Nat /\ num \in Nat /\ n < num
      /\ \A k \in 1 .. L : /\ sg[k] \in Entry /\ sg[k].page \in Nat
                           /\ sg[k].len \in Nat \ {0} /\ sg[k].first \in Nat
  <2>1. pages \in Seq(Frames) /\ sg \in Seq(Entry) /\ num \in Sizes \cup {0}
    BY DEF MemInv, MemTypes
  <2>2. num \in Nat /\ n \in Nat /\ L \in Nat /\ n < num
    BY <2>1, MemmgrAssumption DEF GetPage
  <2>3. ASSUME NEW k \in 1 .. L
        PROVE  /\ sg[k] \in Entry /\ sg[k].page \in Nat
               /\ sg[k].len \in Nat \ {0} /\ sg[k].first \in Nat
    <3>1. sg[k] \in Entry
      BY <2>1
    <3> QED
      BY <3>1, MemmgrAssumption DEF Entry
  <2> QED
    BY <2>1, <2>2, <2>3
<1>1. /\ mm = "pages" /\ f \notin used /\ f \in Nat
      /\ pages' = Append(pages, f) /\ used' = used \cup {f}
      /\ UNCHANGED <<mm, num, dma, iommu>>
  BY MemmgrAssumption DEF GetPage
<1>2. /\ pages' \in Seq(Frames) /\ Len(pages') = n + 1 /\ pages'[n + 1] = f
      /\ \A p \in 1 .. n : pages'[p] = pages[p]
  BY <1>t, <1>1
<1>3. UsedInv'
  <2>1. \A p \in 1 .. n : pages[p] \in used
    BY DEF MemInv, UsedInv
  <2>2. \A p \in 1 .. n + 1 : p \in 1 .. n \/ p = n + 1
    BY <1>t
  <2>3. \A b \in DOMAIN iommu : iommu[b] \in used
    BY DEF MemInv, UsedInv
  <2>4. \A p \in 1 .. n + 1 : pages'[p] \in used'
    BY <1>1, <1>2, <2>1, <2>2
  <2>5. \A p, q \in 1 .. n + 1 : pages'[p] = pages'[q] => p = q
    BY <1>1, <1>2, <2>1, <2>2 DEF MemInv, UsedInv
  <2>6. \A b \in DOMAIN iommu, p \in 1 .. n + 1 : iommu[b] # pages'[p]
    BY <1>1, <1>2, <2>2, <2>3 DEF MemInv, UsedInv
  <2> QED
    BY <1>1, <1>2, <2>3, <2>4, <2>5, <2>6 DEF UsedInv
<1>4. ReadyInv' /\ BusPagesDistinct'
  BY <1>1 DEF MemInv, ReadyInv, BusPagesDistinct
<1>5. ASSUME sg' \in Seq(Entry) PROVE MemTypes'
  BY <1>t, <1>1, <1>2, <1>5 DEF MemInv, MemTypes
<1> DEFINE Entries(t) ==
             /\ t # <<>> /\ t[Len(t)].first + t[Len(t)].len = n + 1
             /\ \A k \in 1 .. Len(t) : t[k].first + t[k].len <= n + 1
             /\ \A k, l \in 1 .. Len(t) :
                  k < l => t[k].first + t[k].len <= t[l].first
           Row(t) ==
             /\ t[1].first = 0
             /\ \A k \in 2 .. Len(t) : t[k].first = t[k - 1].first + t[k - 1].len
             /\ \A k \in 1 .. Len(t) : k <= t[k].first + 1
           Pages(t) ==
             \A k \in 1 .. Len(t), j \in Nat :
               j < t[k].len => pages'[t[k].first + j + 1] = t[k].page + j
           Whole(t) ==
             \A p \in 1 .. n + 1 :
               \E k \in 1 .. Len(t) : p - 1 \in t[k].first .. t[k].first + t[k].len - 1
           Short(t) ==
             \A k \in 2 .. Len(t) : t[k].page # t[k - 1].page + t[k - 1].len
<1>6. ASSUME Entries(sg'), Row(sg'), Pages(sg'), Whole(sg'), Short(sg')
      PROVE  ListInv' /\ ListIsShort'
  <2>1. pages' # <<>>
    BY <1>2, <1>t
  <2> QED
    BY <1>2, <1>6, <2>1 DEF ListInv, ListIsShort
<1>o. /\ \A k \in 1 .. L : sg[k].first + sg[k].len <= n
      /\ \A k, l \in 1 .. L : k < l => sg[k].first + sg[k].len <= sg[l].first
      /\ \A k \in 1 .. L, j \in Nat :
           j < sg[k].len => pages[sg[k].first + j + 1] = sg[k].page + j
      /\ \A p \in 1 .. n :
           \E k \in 1 .. L : p - 1 \in sg[k].first .. sg[k].first + sg[k].len - 1
      /\ \A k \in 2 .. L : sg[k].page # sg[k - 1].page + sg[k - 1].len
  BY DEF MemInv, ListInv, ListIsShort
<1>k. \A k \in 1 .. L, j \in Nat :
        j < sg[k].len => /\ sg[k].first + j + 1 \in 1 .. n
                         /\ pages'[sg[k].first + j + 1] = sg[k].page + j
  <2> SUFFICES ASSUME NEW k \in 1 .. L, NEW j \in Nat, j < sg[k].len
               PROVE  /\ sg[k].first + j + 1 \in 1 .. n
                      /\ pages'[sg[k].first + j + 1] = sg[k].page + j
    OBVIOUS
  <2>1. sg[k].first + j + 1 \in 1 .. n
    <3> DEFINE a == sg[k].first
               b == sg[k].len
    <3>1. a \in Nat /\ b \in Nat /\ a + b <= n /\ j < b /\ n \in Nat
      BY <1>t, <1>o
    <3> HIDE DEF a, b, n
    <3>2. a + j + 1 \in 1 .. n
      BY <3>1
    <3> QED
      BY <3>2 DEF a
  <2> QED
    BY <1>2, <1>o, <2>1
<1>7. CASE pages # <<>> /\ Adjacent(f)
  <2>1. sg # <<>> /\ L >= 1 /\ sg[L].first + sg[L].len = n
    BY <1>7, <1>t DEF MemInv, ListInv
  <2>2. sg' = [sg EXCEPT ![L].len = @ + 1]
    BY <1>7 DEF GetPage
  <2>3. /\ sg' \in Seq(Entry) /\ Len(sg') = L
        /\ sg'[L].page = sg[L].page /\ sg'[L].first = sg[L].first
        /\ sg'[L].len = sg[L].len + 1
        /\ \A k \in 1 .. L : k # L => sg'[k] = sg[k]
    <3>1. sg \in Seq(Entry) /\ sg # <<>>
      BY <1>t, <2>1
    <3>2. sg' = Longer(sg)
      BY <2>2 DEF Longer
    <3> QED
      BY <3>1, <3>2, LongerEntry
  <2>e. /\ sg[L].page \in Nat /\ sg[L].first \in Nat /\ sg[L].len \in Nat \ {0}
        /\ L \in 1 .. L
    BY <1>t, <2>1
  <2>4. f = sg[L].page + sg[L].len
    <3>1. f = pages[n] + 1
      BY <1>7 DEF Adjacent, Last
    <3> DEFINE a == sg[L].first
               b == sg[L].len
               j == b - 1
    <3>2. j \in Nat /\ j < sg[L].len /\ sg[L].first + j + 1 = n
      <4>1. a \in Nat /\ b \in Nat \ {0} /\ a + b = n
        BY <2>1, <2>e
      <4> HIDE DEF a, b
      <4>2. j \in Nat /\ j < b /\ a + j + 1 = n
        BY <4>1
      <4> QED
        BY <4>2 DEF a, b
    <3>3. pages[n] = sg[L].page + j
      BY <1>o, <2>e, <3>2
    <3> QED
      BY <2>e, <3>1, <3>3
  <2>5. Entries(sg')
    <3>1. sg' # <<>>
      BY <2>3, <2>1
    <3>2. \A k \in 1 .. L : sg'[k].first = sg[k].first /\
                             (k # L => sg'[k].len = sg[k].len)
      BY <2>3
    <3>3. sg'[L].first + sg'[L].len = n + 1
      <4>1. sg'[L].first + sg'[L].len = sg[L].first + sg[L].len + 1
        BY <2>3, <2>e
      <4> QED
        BY <2>1, <4>1
    <3>4. \A k \in 1 .. L : sg'[k].first + sg'[k].len <= n + 1
      <4> SUFFICES ASSUME NEW k \in 1 .. L PROVE sg'[k].first + sg'[k].len <= n + 1
        OBVIOUS
      <4>1. CASE k = L
        BY <3>3, <4>1, <1>t
      <4>2. CASE k # L
        <5>1. sg[k].first \in Nat /\ sg[k].len \in Nat /\ sg[k].first + sg[k].len <= n
          BY <1>t, <1>o
        <5> QED
          BY <3>2, <4>2, <5>1, <1>t
      <4> QED
        BY <4>1, <4>2
    <3>5. ASSUME NEW k \in 1 .. L, NEW l \in 1 .. L, k < l
          PROVE  sg'[k].first + sg'[k].len <= sg'[l].first
      <4>1. k # L
        BY <1>t, <3>5
      <4>2. sg[k].first + sg[k].len <= sg[l].first
        BY <1>o, <3>5
      <4> QED
        BY <3>2, <4>1, <4>2
    <3> QED
      BY <2>3, <3>1, <3>3, <3>4, <3>5
  <2>6. Pages(sg')
    <3> SUFFICES ASSUME NEW k \in 1 .. L, NEW j \in Nat, j < sg'[k].len
                 PROVE  pages'[sg'[k].first + j + 1] = sg'[k].page + j
      BY <2>3
    <3>1. CASE k = L /\ j = sg[L].len
      <4>1. sg[L].first + j + 1 = n + 1
        BY <2>1, <3>1
      <4> QED
        BY <1>2, <2>3, <2>4, <3>1, <4>1
    <3>2. CASE k # L \/ j # sg[L].len
      <4>1. j < sg[k].len
        BY <2>3, <2>e, <3>2
      <4>2. sg'[k].first = sg[k].first /\ sg'[k].page = sg[k].page
        BY <2>3
      <4> QED
        BY <1>k, <4>1, <4>2
    <3> QED
      BY <3>1, <3>2
  <2>7. Whole(sg')
    <3> SUFFICES ASSUME NEW p \in 1 .. n + 1
                 PROVE  \E k \in 1 .. L : p - 1 \in sg'[k].first
                                            .. sg'[k].first + sg'[k].len - 1
      BY <2>3
    <3>1. CASE p = n + 1
      <4>1. p - 1 \in sg'[L].first .. sg'[L].first + sg'[L].len - 1
        BY <1>t, <2>1, <2>3, <2>e, <3>1
      <4> QED
        BY <2>e, <4>1
    <3>2. CASE p \in 1 .. n
      <4>1. PICK k \in 1 .. L : p - 1 \in sg[k].first .. sg[k].first + sg[k].len - 1
        BY <1>o, <3>2
      <4>2. sg[k].first \in Nat /\ sg[k].len \in Nat
        BY <1>t
      <4> DEFINE a == sg[k].first
                 b == sg[k].len
                 c == sg'[k].len
      <4>3. sg'[k].first = a /\ (c = b \/ c = b + 1)
        BY <2>3
      <4>4. p - 1 \in sg'[k].first .. sg'[k].first + sg'[k].len - 1
        <5>1. a \in Nat /\ b \in Nat /\ p - 1 \in a .. a + b - 1
          BY <4>1, <4>2
        <5> HIDE DEF a, b, c
        <5>2. p - 1 \in a .. a + c - 1
          BY <4>3, <5>1
        <5> QED
          BY <4>3, <5>2 DEF c
      <4> QED
        BY <4>4
    <3> QED
      BY <1>t, <3>1, <3>2
  <2>8. Short(sg')
    <3> SUFFICES ASSUME NEW k \in 2 .. L
                 PROVE  sg'[k].page # sg'[k - 1].page + sg'[k - 1].len
      BY <2>3
    <3>1. k - 1 \in 1 .. L /\ k - 1 # L /\ k \in 1 .. L
      BY <1>t
    <3>2. sg'[k - 1] = sg[k - 1] /\ sg'[k].page = sg[k].page
      BY <2>3, <3>1
    <3> QED
      BY <1>o, <3>2
  <2>9. Row(sg')
    <3>1. 1 \in 1 .. L /\ \A k \in 2 .. L : k \in 1 .. L /\ k - 1 \in 1 .. L /\ k - 1 # L
      BY <1>t, <2>1
    <3>2. \A k \in 1 .. L : sg'[k].first = sg[k].first
      BY <2>3
    <3>3. /\ sg[1].first = 0
          /\ \A k \in 2 .. L : sg[k].first = sg[k - 1].first + sg[k - 1].len
          /\ \A k \in 1 .. L : k <= sg[k].first + 1
      BY <2>1 DEF MemInv, ListInv
    <3>4. \A k \in 2 .. L : sg'[k].first = sg'[k - 1].first + sg'[k - 1].len
      <4> SUFFICES ASSUME NEW k \in 2 .. L
                   PROVE  sg'[k].first = sg'[k - 1].first + sg'[k - 1].len
        OBVIOUS
      <4>1. sg'[k - 1] = sg[k - 1] /\ sg'[k].first = sg[k].first
        BY <2>3, <3>1
      <4> QED
        BY <3>3, <4>1
    <3> QED
      BY <2>3, <3>1, <3>2, <3>3, <3>4
  <2> QED
    BY <1>3, <1>4, <1>5, <1>6, <2>3, <2>5, <2>6, <2>7, <2>8, <2>9 DEF MemInv
<1>8. CASE ~(pages # <<>> /\ Adjacent(f))
  <2> DEFINE e == [page |-> f, len |-> 1, first |-> n]
  <2>1. sg' = Append(sg, e)
    BY <1>8 DEF GetPage
  <2>2. e \in Entry /\ e.page = f /\ e.len = 1 /\ e.first = n
    BY <1>t DEF Entry
  <2> HIDE DEF e
  <2>3. /\ sg' \in Seq(Entry) /\ Len(sg') = L + 1 /\ sg'[L + 1] = e
        /\ \A k \in 1 .. L : sg'[k] = sg[k]
    BY <1>t, <2>1, <2>2
  <2>c. \A k \in 1 .. L + 1 : k \in 1 .. L \/ k = L + 1
    BY <1>t
  <2>5. Entries(sg')
    <3>1. sg' # <<>>
      BY <1>t, <2>3
    <3>2. sg'[L + 1].first + sg'[L + 1].len = n + 1
      BY <2>2, <2>3
    <3>3. \A k \in 1 .. L : /\ sg[k].first + sg[k].len \in Nat
                            /\ sg[k].first + sg[k].len <= n
      BY <1>t, <1>o
    <3>4. \A k \in 1 .. L + 1 : sg'[k].first + sg'[k].len <= n + 1
      <4>1. ASSUME NEW k \in 1 .. L PROVE sg'[k].first + sg'[k].len <= n + 1
        <5>1. sg[k].first + sg[k].len <= n + 1
          BY <1>t, <3>3
        <5> QED
          BY <2>3, <5>1
      <4>2. sg'[L + 1].first + sg'[L + 1].len <= n + 1
        BY <1>t, <3>2
      <4> QED
        BY <2>c, <4>1, <4>2
    <3>5. \A k, l \in 1 .. L + 1 : k < l => sg'[k].first + sg'[k].len <= sg'[l].first
      <4> SUFFICES ASSUME NEW k \in 1 .. L + 1, NEW l \in 1 .. L + 1, k < l
                   PROVE  sg'[k].first + sg'[k].len <= sg'[l].first
        OBVIOUS
      <4>1. k \in 1 .. L
        BY <1>t
      <4>2. CASE l = L + 1
        BY <2>2, <2>3, <3>3, <4>1, <4>2
      <4>3. CASE l \in 1 .. L
        BY <1>o, <2>3, <4>1, <4>3
      <4> QED
        BY <2>c, <4>2, <4>3
    <3> QED
      BY <2>3, <3>1, <3>2, <3>4, <3>5
  <2>6. Pages(sg')
    <3> SUFFICES ASSUME NEW k \in 1 .. L + 1, NEW j \in Nat, j < sg'[k].len
                 PROVE  pages'[sg'[k].first + j + 1] = sg'[k].page + j
      BY <2>3
    <3>1. CASE k = L + 1
      <4>1. j = 0 /\ sg'[k].first = n /\ sg'[k].page = f
        BY <2>2, <2>3, <3>1
      <4> QED
        BY <1>t, <1>1, <1>2, <4>1
    <3>2. CASE k \in 1 .. L
      BY <1>k, <2>3, <3>2
    <3> QED
      BY <2>c, <3>1, <3>2
  <2>7. Whole(sg')
    <3> SUFFICES ASSUME NEW p \in 1 .. n + 1
                 PROVE  \E k \in 1 .. L + 1 : p - 1 \in sg'[k].first
                                                .. sg'[k].first + sg'[k].len - 1
      BY <2>3
    <3>1. CASE p = n + 1
      <4>1. p - 1 \in sg'[L + 1].first .. sg'[L + 1].first + sg'[L + 1].len - 1
        BY <1>t, <2>2, <2>3, <3>1
      <4>2. L + 1 \in 1 .. L + 1
        BY <1>t
      <4> QED
        BY <4>1, <4>2
    <3>2. CASE p \in 1 .. n
      <4>1. PICK k \in 1 .. L : p - 1 \in sg[k].first .. sg[k].first + sg[k].len - 1
        BY <1>o, <3>2
      <4>2. k \in 1 .. L + 1 /\ sg'[k] = sg[k]
        BY <1>t, <2>3
      <4> QED
        BY <4>1, <4>2
    <3> QED
      BY <1>t, <3>1, <3>2
  <2>8. Short(sg')
    <3> SUFFICES ASSUME NEW k \in 2 .. L + 1
                 PROVE  sg'[k].page # sg'[k - 1].page + sg'[k - 1].len
      BY <2>3
    <3>1. k - 1 \in 1 .. L
      BY <1>t
    <3>2. CASE k \in 1 .. L
      <4>1. k \in 2 .. L
        BY <3>2, <1>t
      <4>2. sg'[k] = sg[k] /\ sg'[k - 1] = sg[k - 1]
        BY <2>3, <3>1, <3>2
      <4> QED
        BY <1>o, <4>1, <4>2
    <3>3. CASE k = L + 1
      <4>1. L \in 1 .. L /\ sg # <<>> /\ k - 1 = L
        BY <1>t, <3>1, <3>3
      <4>2. pages # <<>> /\ sg[L].first + sg[L].len = n
        BY <4>1 DEF MemInv, ListInv
      <4>3. sg[L].page \in Nat /\ sg[L].len \in Nat \ {0} /\ sg[L].first \in Nat
        BY <1>t, <4>1
      <4> DEFINE j == sg[L].len - 1
      <4>4. j \in Nat /\ j < sg[L].len /\ sg[L].first + j + 1 = n
        BY <4>2, <4>3
      <4>5. pages[n] = sg[L].page + j
        BY <1>o, <4>1, <4>4
      <4>6. f # pages[n] + 1
        BY <1>8, <4>2 DEF Adjacent, Last
      <4>7. f # sg[L].page + sg[L].len
        BY <4>3, <4>5, <4>6
      <4> QED
        BY <2>2, <2>3, <3>3, <4>1, <4>7
    <3> QED
      BY <2>c, <3>2, <3>3
  <2>9. Row(sg')
    <3>1. CASE sg = <<>>
      <4>1. L = 0 /\ n = 0
        BY <3>1 DEF MemInv, ListInv
      <4>2. Len(sg') = 1 /\ sg'[1].first = 0
        BY <2>2, <2>3, <4>1
      <4> QED
        BY <4>2
    <3>2. CASE sg # <<>>
      <4>1. L \in 1 .. L /\ 1 \in 1 .. L /\ sg[L].first + sg[L].len = n
        BY <1>t, <3>2 DEF MemInv, ListInv
      <4>2. /\ sg[1].first = 0
            /\ \A k \in 2 .. L : sg[k].first = sg[k - 1].first + sg[k - 1].len
            /\ \A k \in 1 .. L : k <= sg[k].first + 1
        BY <3>2 DEF MemInv, ListInv
      <4>3. sg'[1].first = 0
        BY <2>3, <4>1, <4>2
      <4>4. ASSUME NEW k \in 2 .. L + 1
            PROVE  sg'[k].first = sg'[k - 1].first + sg'[k - 1].len
        <5>1. k - 1 \in 1 .. L /\ sg'[k - 1] = sg[k - 1]
          BY <1>t, <2>3
        <5>2. CASE k = L + 1
          BY <2>2, <2>3, <4>1, <5>1, <5>2
        <5>3. CASE k \in 2 .. L
          BY <2>3, <4>2, <5>1, <5>3
        <5> QED
          BY <1>t, <5>2, <5>3
      <4>5. ASSUME NEW k \in 1 .. L + 1 PROVE k <= sg'[k].first + 1
        <5>1. CASE k \in 1 .. L
          BY <2>3, <4>2, <5>1
        <5>2. CASE k = L + 1
          <6>1. sg[L].len \in Nat \ {0} /\ sg[L].first \in Nat /\ L <= sg[L].first + 1
            BY <1>t, <4>1, <4>2
          <6>2. L <= n
            BY <1>t, <4>1, <6>1
          <6>3. sg'[k].first = n
            BY <2>2, <2>3, <5>2
          <6> QED
            BY <1>t, <5>2, <6>2, <6>3
        <5> QED
          BY <2>c, <5>1, <5>2
      <4> QED
        BY <2>3, <4>3, <4>4, <4>5
    <3> QED
      BY <3>1, <3>2
  <2> QED
    BY <1>3, <1>4, <1>5, <1>6, <2>3, <2>5, <2>6, <2>7, <2>8, <2>9 DEF MemInv
<1> QED
  BY <1>7, <1>8
-----------------------------------------------------------------------------
\* What dma_map_sg has set up: every page of the object behind a bus page that
\* was free, everything else as before.
LEMMA MappedPages ==
  ASSUME MemInv, NEW base \in [DOMAIN sg -> BusFrames], MapPages(base)
  PROVE  /\ \A k \in 1 .. Len(sg), j \in Nat :
              j < sg[k].len => /\ base[k] + j \in DOMAIN iommu'
                               /\ base[k] + j \in BusFrames \ DOMAIN iommu
                               /\ iommu'[base[k] + j] = sg[k].page + j
         /\ \A b \in DOMAIN iommu : b \in DOMAIN iommu' /\ iommu'[b] = iommu[b]
         /\ \A b \in DOMAIN iommu' :
              \/ b \in DOMAIN iommu
              \/ \E k \in 1 .. Len(sg), j \in Nat : j < sg[k].len /\ b = base[k] + j
<1> DEFINE L == Len(sg)
           new == UNION {BusRange(base, k) : k \in DOMAIN sg}
           entry(b) == CHOOSE k \in DOMAIN sg : b \in BusRange(base, k)
<1>1. /\ DOMAIN sg = 1 .. L /\ L \in Nat
      /\ \A k \in 1 .. L : /\ sg[k].len \in Nat /\ sg[k].page \in Nat
                           /\ base[k] \in BusFrames /\ base[k] \in Nat
  <2>1. sg \in Seq(Entry)
    BY DEF MemInv, MemTypes
  <2>2. DOMAIN sg = 1 .. L /\ L \in Nat
    BY <2>1
  <2>3. ASSUME NEW k \in 1 .. L
        PROVE  /\ sg[k].len \in Nat /\ sg[k].page \in Nat
               /\ base[k] \in BusFrames /\ base[k] \in Nat
    <3>1. sg[k] \in Entry
      BY <2>1
    <3>2. base[k] \in BusFrames
      BY <2>2
    <3> QED
      BY <3>1, <3>2, MemmgrAssumption DEF Entry
  <2> QED
    BY <2>2, <2>3
<1>2. /\ iommu' = [b \in new \cup DOMAIN iommu |->
                     IF b \in new THEN sg[entry(b)].page + b - base[entry(b)]
                                  ELSE iommu[b]]
      /\ Mapping(base)
  BY DEF MapPages
<1>3. /\ \A k \in 1 .. L : BusRange(base, k) \subseteq BusFrames \ DOMAIN iommu
      /\ \A k, l \in 1 .. L : k # l => BusRange(base, k) \cap BusRange(base, l) = {}
  BY <1>1, <1>2 DEF Mapping
<1>4. \A k \in 1 .. L : BusRange(base, k) \subseteq new
  BY <1>1
<1>5. \A b \in new : \E k \in 1 .. L : b \in BusRange(base, k)
  BY <1>1
<1>6. ASSUME NEW k \in 1 .. L, NEW b \in BusRange(base, k) PROVE entry(b) = k
  <2>1. entry(b) \in 1 .. L /\ b \in BusRange(base, entry(b))
    BY <1>1
  <2> QED
    BY <1>3, <2>1
<1> HIDE DEF new, entry
<1>7. ASSUME NEW k \in 1 .. L, NEW j \in Nat, j < sg[k].len
      PROVE  /\ base[k] + j \in DOMAIN iommu'
             /\ base[k] + j \in BusFrames \ DOMAIN iommu
             /\ iommu'[base[k] + j] = sg[k].page + j
  <2> DEFINE b == base[k] + j
  <2>1. b \in BusRange(base, k)
    BY <1>1, <1>7 DEF BusRange
  <2>2. b \in new /\ entry(b) = k /\ b \in BusFrames \ DOMAIN iommu
    BY <1>3, <1>4, <1>6, <2>1
  <2>3. b \in DOMAIN iommu' /\ iommu'[b] = sg[k].page + b - base[k]
    BY <1>2, <2>2
  <2>4. sg[k].page + b - base[k] = sg[k].page + j
    BY <1>1
  <2> QED
    BY <2>2, <2>3, <2>4
<1>8. ASSUME NEW b \in DOMAIN iommu
      PROVE  b \in DOMAIN iommu' /\ iommu'[b] = iommu[b]
  <2>1. b \notin new
    BY <1>3, <1>5
  <2> QED
    BY <1>2, <2>1
<1>9. ASSUME NEW b \in DOMAIN iommu', b \notin DOMAIN iommu
      PROVE  \E k \in 1 .. L, j \in Nat : j < sg[k].len /\ b = base[k] + j
  <2>1. b \in new
    BY <1>2, <1>9
  <2>2. PICK k \in 1 .. L : b \in BusRange(base, k)
    BY <1>5, <2>1
  <2> DEFINE j == b - base[k]
  <2>3. j \in Nat /\ j < sg[k].len /\ b = base[k] + j
    BY <1>1, <2>2 DEF BusRange
  <2> QED
    BY <2>3
<1> QED
  BY <1>7, <1>8, <1>9

\* Mapping the object keeps the invariant: the pages behind the new bus pages
\* are the object's, which nobody else has.
LEMMA MapPagesInv ==
  ASSUME MemInv, NEW base \in [DOMAIN sg -> BusFrames], MapPages(base)
  PROVE  MemInv'
<1> DEFINE L == Len(sg)
           n == Len(pages)
<1>1. /\ mm = "pages" /\ mm' = "ready" /\ n = num /\ dma' = base
      /\ UNCHANGED <<num, pages, sg, used>>
  BY DEF MapPages
<1>2. /\ pages \in Seq(Frames) /\ n \in Nat /\ L \in Nat /\ DOMAIN sg = 1 .. L
      /\ \A k \in 1 .. L : sg[k].len \in Nat /\ sg[k].first \in Nat
  <2>1. pages \in Seq(Frames) /\ sg \in Seq(Entry)
    BY DEF MemInv, MemTypes
  <2>2. \A k \in 1 .. L : sg[k] \in Entry
    BY <2>1
  <2> QED
    BY <2>1, <2>2 DEF Entry
<1>3. ASSUME NEW k \in 1 .. L, NEW j \in Nat, j < sg[k].len
      PROVE  /\ sg[k].first + j + 1 \in 1 .. n
             /\ iommu'[base[k] + j] = pages[sg[k].first + j + 1]
  <2>1. sg[k].first + sg[k].len <= n /\ pages[sg[k].first + j + 1] = sg[k].page + j
    BY <1>3 DEF MemInv, ListInv
  <2>2. sg[k].first \in Nat /\ sg[k].len \in Nat
    BY <1>2
  <2>3. sg[k].first + j + 1 \in 1 .. n
    BY <1>2, <1>3, <2>1, <2>2
  <2>4. iommu'[base[k] + j] = sg[k].page + j
    BY <1>3, MappedPages
  <2> QED
    BY <2>1, <2>3, <2>4
<1>4. ASSUME NEW b \in DOMAIN iommu', b \notin DOMAIN iommu
      PROVE  \E p \in 1 .. n : iommu'[b] = pages[p]
  <2>1. PICK k \in 1 .. L, j \in Nat : j < sg[k].len /\ b = base[k] + j
    BY <1>4, MappedPages
  <2> QED
    BY <1>3, <2>1
<1>5. MemTypes'
  <2>1. DOMAIN iommu' \subseteq BusFrames
    <3> SUFFICES ASSUME NEW b \in DOMAIN iommu' PROVE b \in BusFrames
      OBVIOUS
    <3>1. CASE b \in DOMAIN iommu
      BY <3>1 DEF MemInv, MemTypes
    <3>2. CASE b \notin DOMAIN iommu
      <4>1. PICK k \in 1 .. L, j \in Nat : j < sg[k].len /\ b = base[k] + j
        BY <3>2, MappedPages
      <4> QED
        BY <4>1, MappedPages
    <3> QED
      BY <3>1, <3>2
  <2>2. \A b \in DOMAIN iommu' : iommu'[b] \in Frames
    <3> SUFFICES ASSUME NEW b \in DOMAIN iommu' PROVE iommu'[b] \in Frames
      OBVIOUS
    <3>1. CASE b \in DOMAIN iommu
      BY <3>1, MappedPages DEF MemInv, MemTypes
    <3>2. CASE b \notin DOMAIN iommu
      BY <1>2, <1>4, <3>2
    <3> QED
      BY <3>1, <3>2
  <2>3. dma' \in Seq(BusFrames)
    BY <1>1, <1>2
  <2> QED
    BY <1>1, <2>1, <2>2, <2>3 DEF MemInv, MemTypes
<1>6. ListInv' /\ ListIsShort'
  BY <1>1 DEF MemInv, ListInv, ListIsShort
<1>7. UsedInv'
  <2>1. \A b \in DOMAIN iommu' : iommu'[b] \in used
    <3> SUFFICES ASSUME NEW b \in DOMAIN iommu' PROVE iommu'[b] \in used
      OBVIOUS
    <3>1. CASE b \in DOMAIN iommu
      BY <3>1, MappedPages DEF MemInv, UsedInv
    <3>2. CASE b \notin DOMAIN iommu
      BY <1>4, <3>2 DEF MemInv, UsedInv
    <3> QED
      BY <3>1, <3>2
  <2> QED
    BY <1>1, <2>1 DEF MemInv, UsedInv
<1>8. ReadyInv'
  <2>1. Len(dma') = Len(sg')
    BY <1>1, <1>2
  <2> QED
    BY <1>1, <2>1, MappedPages DEF ReadyInv
<1>9. BusPagesDistinct'
  <2> SUFFICES ASSUME NEW a \in DOMAIN iommu', NEW b \in DOMAIN iommu',
                      iommu'[a] = iommu'[b]
               PROVE  a = b
    BY DEF BusPagesDistinct
  <2>1. CASE a \in DOMAIN iommu /\ b \in DOMAIN iommu
    BY <2>1, MappedPages DEF MemInv, BusPagesDistinct
  <2>2. \A c \in DOMAIN iommu, d \in DOMAIN iommu' :
          d \notin DOMAIN iommu => iommu'[c] # iommu'[d]
    BY <1>1, <1>4, MappedPages DEF MemInv, UsedInv
  <2>3. CASE a \notin DOMAIN iommu /\ b \notin DOMAIN iommu
    <3>1. PICK k \in 1 .. L, i \in Nat : i < sg[k].len /\ a = base[k] + i
      BY <2>3, MappedPages
    <3>2. PICK l \in 1 .. L, j \in Nat : j < sg[l].len /\ b = base[l] + j
      BY <2>3, MappedPages
    <3>3. pages[sg[k].first + i + 1] = pages[sg[l].first + j + 1]
      BY <1>3, <3>1, <3>2
    <3>4. sg[k].first + i + 1 = sg[l].first + j + 1
      BY <1>3, <3>1, <3>2, <3>3 DEF MemInv, UsedInv
    <3>5. /\ sg[k].first \in Nat /\ sg[k].len \in Nat
          /\ sg[l].first \in Nat /\ sg[l].len \in Nat
      BY <1>2
    <3>6. /\ k < l => sg[k].first + sg[k].len <= sg[l].first
          /\ l < k => sg[l].first + sg[l].len <= sg[k].first
      BY DEF MemInv, ListInv
    <3> DEFINE p == sg[k].first
               q == sg[l].first
               m == sg[k].len
               r == sg[l].len
    <3>7. k = l /\ i = j
      <4>1. /\ p \in Nat /\ q \in Nat /\ m \in Nat /\ r \in Nat
            /\ p + i + 1 = q + j + 1 /\ i < m /\ j < r /\ (k = l => p = q)
            /\ (k < l => p + m <= q) /\ (l < k => q + r <= p)
        BY <3>1, <3>2, <3>4, <3>5, <3>6
      <4> HIDE DEF p, q, m, r
      <4>2. ~(k < l)
        BY <4>1
      <4>3. ~(l < k)
        BY <4>1
      <4>4. k \in Int /\ l \in Int
        BY <1>2
      <4>5. k = l
        BY <4>2, <4>3, <4>4
      <4> QED
        BY <4>1, <4>5
    <3> QED
      BY <3>1, <3>2, <3>7
  <2> QED
    BY <2>1, <2>2, <2>3
<1> QED
  BY <1>5, <1>6, <1>7, <1>8, <1>9 DEF MemInv

\* allocate_object from its first turn to its return.
LEMMA FillInv ==
  ASSUME MemInv, Fill
  PROVE  MemInv'
BY GetPageInv, FailInv, MapPagesInv DEF Fill

\* Every step of allocate_object keeps the invariant.
LEMMA MemStepInv == MemInv /\ [MemNext]_memVars => MemInv'
<1> SUFFICES ASSUME MemInv, [MemNext]_memVars PROVE MemInv'
  OBVIOUS
<1>1. CASE \E n \in Sizes : Allocate(n)
  BY <1>1, AllocateInv
<1>2. CASE Fill
  BY <1>2, FillInv
<1>3. CASE Release
  BY <1>3, TakenInv DEF Release
<1>4. CASE UNCHANGED memVars
  <2> USE <1>4 DEF memVars, objVars, MemInv
  <2>1. MemTypes' /\ ListInv' /\ ListIsShort'
    BY DEF MemTypes, ListInv, ListIsShort
  <2>2. UsedInv' /\ ReadyInv' /\ BusPagesDistinct'
    BY DEF UsedInv, ReadyInv, BusPagesDistinct
  <2> QED
    BY <2>1, <2>2
<1> QED
  BY <1>1, <1>2, <1>3, <1>4 DEF MemNext

\* The invariant holds of every run of the memory manager.
LEMMA MemInvariance == MemSpec => []MemInv
BY MemInitInv, MemStepInv, PTL DEF MemSpec
-----------------------------------------------------------------------------
\* The invariant implies the properties of the module.
LEMMA MemInvTypeOK == MemInv => MemTypeOK
<1> SUFFICES ASSUME MemInv PROVE MemTypeOK
  OBVIOUS
<1>1. pages \in Seq(Frames) /\ Len(pages) \in Nat /\ Len(pages) <= num
  BY DEF MemInv, MemTypes
<1>2. num \in Nat
  BY MemmgrAssumption DEF MemInv, MemTypes
<1> DEFINE Bounded == [page : Frames, len : 1 .. num, first : 0 .. num - 1]
<1>3. sg \in Seq(Bounded)
  <2>1. sg \in Seq(Entry)
    BY DEF MemInv, MemTypes
  <2>2. ASSUME NEW k \in 1 .. Len(sg)
        PROVE  sg[k] \in Bounded
    <3>1. sg[k] \in Entry /\ sg[k].first + sg[k].len <= Len(pages)
      BY <2>1 DEF MemInv, ListInv
    <3>2. sg[k].len \in Nat \ {0} /\ sg[k].first \in Nat
      BY <3>1 DEF Entry
    <3>3. sg[k].len \in 1 .. num /\ sg[k].first \in 0 .. num - 1
      BY <1>1, <1>2, <3>1, <3>2
    <3> QED
      BY <3>1, <3>3 DEF Entry
  <2> HIDE DEF Bounded
  <2> QED
    BY <2>1, <2>2
<1> QED
  BY <1>1, <1>3 DEF MemInv, MemTypes, MemTypeOK

\* The entries lie side by side and spell out the pages one by one.
LEMMA MemInvListIsPages == MemInv => ListIsPages
<1> SUFFICES ASSUME MemInv PROVE ListIsPages
  OBVIOUS
<1>1. /\ DOMAIN sg = 1 .. Len(sg) /\ Len(sg) \in Nat
      /\ Len(pages) \in Nat /\ num \in Nat
      /\ sg = <<>> <=> pages = <<>>
  BY MemmgrAssumption DEF MemInv, MemTypes, ListInv
<1>2. ASSUME NEW k \in DOMAIN sg
      PROVE  sg[k].first = IF k = 1 THEN 0 ELSE sg[k - 1].first + sg[k - 1].len
  <2>1. CASE k = 1
    BY <1>1, <2>1 DEF MemInv, ListInv
  <2>2. CASE k # 1
    <3>1. k \in 2 .. Len(sg)
      BY <1>1, <2>2
    <3> QED
      BY <2>2, <3>1 DEF MemInv, ListInv
  <2> QED
    BY <2>1, <2>2
<1>3. Len(pages) = IF sg = <<>> THEN 0 ELSE sg[Len(sg)].first + sg[Len(sg)].len
  <2>1. CASE sg = <<>>
    BY <1>1, <2>1
  <2>2. CASE sg # <<>>
    BY <2>2 DEF MemInv, ListInv
  <2> QED
    BY <2>1, <2>2
<1>4. ASSUME NEW k \in DOMAIN sg, NEW j \in 0 .. num, j < sg[k].len
      PROVE  pages[sg[k].first + j + 1] = sg[k].page + j
  <2>1. k \in 1 .. Len(sg) /\ j \in Nat
    BY <1>1
  <2> QED
    BY <1>4, <2>1 DEF MemInv, ListInv
<1> QED
  BY <1>2, <1>3, <1>4 DEF ListIsPages

\* Type correctness of allocate_object.
THEOREM MemmgrTypeCorrect == MemSpec => []MemTypeOK
BY MemInvariance, MemInvTypeOK, PTL

\* The entries lie side by side and are the pages in the order they were
\* allocated, for any number of pages and any frames: merging contiguous pages
\* neither drops, repeats nor reorders one.
THEOREM MemmgrListIsPages == MemSpec => []ListIsPages
BY MemInvariance, MemInvListIsPages, PTL

\* Contiguous pages always share an entry.
THEOREM MemmgrListIsShort == MemSpec => []ListIsShort
<1>1. MemInv => ListIsShort
  BY DEF MemInv
<1> QED
  BY <1>1, MemInvariance, PTL

\* No page is behind two bus pages, whatever allocations failed before.
THEOREM MemmgrBusPagesDistinct == MemSpec => []BusPagesDistinct
<1>1. MemInv => BusPagesDistinct
  BY DEF MemInv
<1> QED
  BY <1>1, MemInvariance, PTL
=============================================================================
