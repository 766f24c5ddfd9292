----------------------------- MODULE GttProofs -----------------------------
(***************************************************************************)
(* Proofs about Gtt for a table of any size, objects of any size, and any  *)
(* order in which stores leave the write-combining buffer and the device   *)
(* fills its TLB.                                                          *)
(***************************************************************************)
EXTENDS Gtt, MemmgrProofs

Object == [gfx : Nat, pages : Seq(Frames)]

GttTypes ==
  /\ scratch \in Dma32Frames
  /\ ins \in {"idle", "pte", "flush", "post", "oops"}
  /\ it \in [k : Nat \ {0}, off : Nat]
  /\ i \in 0 .. Entries
  /\ gttEntry \in 0 .. Entries
  /\ gsm \in [Table -> Ptes \cup {Junk}]
  /\ DOMAIN wc \subseteq Table /\ \A e \in DOMAIN wc : wc[e] \in Ptes
  /\ DOMAIN tlb \subseteq Table
  /\ \A e \in DOMAIN tlb : tlb[e] \in Ptes \cup {Junk}
  /\ flushing \in BOOLEAN
  /\ objects \in Seq(Object)

\* An insertion is about the object that is ready; what it has written is in
\* the table, and once the loop is over that is every page.
PhaseInv ==
  /\ ins # "idle" => mm = "ready"
  /\ mm # "idle" => num \in Sizes
  /\ ins # "idle" => i <= num /\ gttEntry + i <= Entries
  /\ ins \in {"flush", "post"} => i = num

\* The iterator stands at the page whose PTE comes next.  A store that faults
\* is one for a page of the object.
IterInv ==
  /\ ins = "oops" => i < num /\ gttEntry + i >= Entries
  /\ ins = "pte" =>
    \/ /\ it.k \in 1 .. Len(sg) /\ it.off < sg[it.k].len
       /\ sg[it.k].first + it.off = i
    \/ it.k = Len(sg) + 1 /\ i = num

\* What bounds every step of an insertion, wherever the pages are.
WalkInv == MemInv /\ GttTypes /\ PhaseInv /\ IterInv
-----------------------------------------------------------------------------
\* The constants and the object of a state of the invariant as numbers.
LEMMA WalkNumbers ==
  ASSUME WalkInv
  PROVE  /\ Entries \in Nat /\ num \in Nat /\ i \in Nat /\ gttEntry \in Nat
         /\ it.k \in Nat /\ it.off \in Nat
         /\ Len(pages) \in Nat /\ Len(sg) \in Nat
         /\ \A k \in 1 .. Len(sg) : /\ sg[k].len \in Nat \ {0} /\ sg[k].first \in Nat
                                    /\ sg[k].page \in Nat
                                    /\ sg[k].first + sg[k].len <= Len(pages)
                                    /\ k <= sg[k].first + 1
<1>1. Entries \in Nat /\ i \in Nat /\ gttEntry \in Nat /\ it.k \in Nat /\ it.off \in Nat
  <2>1. Entries \in Nat
    BY GttAssumption
  <2>2. /\ i \in 0 .. Entries /\ gttEntry \in 0 .. Entries
        /\ it \in [k : Nat \ {0}, off : Nat]
    BY DEF WalkInv, GttTypes
  <2> QED
    BY <2>1, <2>2
<1>2. num \in Nat /\ pages \in Seq(Frames) /\ sg \in Seq(Entry)
  BY MemmgrAssumption DEF WalkInv, MemInv, MemTypes
<1>3. \A k \in 1 .. Len(sg) :
        sg[k].first + sg[k].len <= Len(pages) /\ k <= sg[k].first + 1
  BY DEF WalkInv, MemInv, ListInv
<1>4. ASSUME NEW k \in 1 .. Len(sg)
      PROVE  sg[k].len \in Nat \ {0} /\ sg[k].first \in Nat /\ sg[k].page \in Nat
  <2>1. sg[k] \in Entry
    BY <1>2
  <2> QED
    BY <2>1, MemmgrAssumption DEF Entry
<1> QED
  BY <1>1, <1>2, <1>3, <1>4

\* The scratch page is the first one handed out, and mapped.
LEMMA GttInitWalk ==
  ASSUME Init
  PROVE  WalkInv
<1>1. PICK b \in BusFrames : iommu = [a \in {b} |-> scratch]
  BY DEF Init
<1>2. /\ mm = "idle" /\ num = 0 /\ pages = <<>> /\ sg = <<>> /\ dma = <<>>
      /\ scratch \in Frames /\ used = {scratch}
  BY GttAssumption DEF Init, NoObject
<1>3. MemTypes
  BY <1>1, <1>2, MemmgrAssumption DEF MemTypes
<1>4. ListInv /\ ListIsShort
  BY <1>2, EmptyList
<1>5. UsedInv /\ ReadyInv /\ BusPagesDistinct
  BY <1>1, <1>2 DEF UsedInv, ReadyInv, BusPagesDistinct
<1>6. GttTypes
  <2>1. Entries \in Nat
    BY GttAssumption
  <2>2. it \in [k : Nat \ {0}, off : Nat]
    BY DEF Init
  <2>3. i \in 0 .. Entries /\ gttEntry \in 0 .. Entries
    BY <2>1 DEF Init
  <2>4. gsm \in [Table -> Ptes \cup {Junk}] /\ DOMAIN wc = {} /\ DOMAIN tlb = {}
    BY DEF Init, Empty
  <2>5. objects \in Seq(Object)
    BY DEF Init
  <2> QED
    BY <2>2, <2>3, <2>4, <2>5 DEF Init, GttTypes
<1>7. PhaseInv /\ IterInv
  BY <1>2 DEF Init, PhaseInv, IterInv
<1> QED
  BY <1>3, <1>4, <1>5, <1>6, <1>7 DEF MemInv, WalkInv

\* Allocating and filling an object, while nothing is being inserted.
LEMMA WalkMemory ==
  ASSUME WalkInv, (\E n \in Sizes : AllocateObject(n)) \/ FillObject
  PROVE  WalkInv' /\ ins = "idle" /\ UNCHANGED gttVars
<1>1. CASE \E n \in Sizes : AllocateObject(n)
  <2>1. PICK n \in Sizes : AllocateObject(n)
    BY <1>1
  <2>2. /\ MemInv' /\ ins = "idle" /\ UNCHANGED gttVars /\ num' = n
    BY <2>1, AllocateInv DEF AllocateObject, WalkInv, Allocate
  <2>3. GttTypes' /\ PhaseInv' /\ IterInv'
    BY <2>2 DEF gttVars, callVars, tableVars, deviceVars, WalkInv, GttTypes,
       PhaseInv, IterInv
  <2> QED
    BY <2>2, <2>3 DEF WalkInv
<1>2. CASE FillObject
  <2>1. /\ MemInv' /\ UNCHANGED gttVars /\ mm = "pages" /\ num' = num
    BY <1>2, FillInv DEF FillObject, WalkInv, Fill, GetPage, Fail, MapPages, objVars
  <2>2. ins = "idle"
    BY <2>1 DEF WalkInv, PhaseInv
  <2>3. GttTypes' /\ PhaseInv' /\ IterInv'
    BY <2>1, <2>2 DEF gttVars, callVars, tableVars, deviceVars, WalkInv, GttTypes,
       PhaseInv, IterInv
  <2> QED
    BY <2>1, <2>2, <2>3 DEF WalkInv
<1> QED
  BY <1>1, <1>2

\* Steps that leave memory alone.
LEMMA MemUnchanged ==
  ASSUME MemInv, UNCHANGED memVars
  PROVE  MemInv'
BY MemStepInv

\* The page under the iterator is the page of the object whose turn it is, and
\* the device's address of it is mapped.
LEMMA PageUnderIterator ==
  ASSUME WalkInv, ins = "pte", it.k <= Len(sg)
  PROVE  /\ mm = "ready" /\ Len(pages) = num /\ i < num
         /\ it.k \in 1 .. Len(sg) /\ it.off < sg[it.k].len
         /\ sg[it.k].first + it.off = i
         /\ dma[it.k] + it.off \in DOMAIN iommu
         /\ iommu[dma[it.k] + it.off] = pages[i + 1]
<1>1. mm = "ready"
  BY DEF WalkInv, PhaseInv
<1>2. Len(pages) = num
  BY <1>1 DEF WalkInv, MemInv, ReadyInv
<1>3. /\ it.k \in 1 .. Len(sg) /\ it.off < sg[it.k].len
      /\ sg[it.k].first + it.off = i
  <2>1. it.k # Len(sg) + 1
    BY WalkNumbers
  <2> QED
    BY <2>1 DEF WalkInv, IterInv
<1>4. i < num
  <2>1. /\ sg[it.k].first \in Nat /\ sg[it.k].len \in Nat /\ it.off \in Nat
        /\ sg[it.k].first + sg[it.k].len <= num /\ num \in Nat /\ i \in Nat
    BY <1>2, <1>3, WalkNumbers
  <2> QED
    BY <1>3, <2>1
<1>5. it.off \in Nat
  BY WalkNumbers
<1>6. /\ dma[it.k] + it.off \in DOMAIN iommu
      /\ iommu[dma[it.k] + it.off] = sg[it.k].page + it.off
  BY <1>1, <1>3, <1>5 DEF WalkInv, MemInv, ReadyInv
<1>7. pages[sg[it.k].first + it.off + 1] = sg[it.k].page + it.off
  BY <1>3, <1>5 DEF WalkInv, MemInv, ListInv
<1> QED
  BY <1>1, <1>2, <1>3, <1>4, <1>6, <1>7

\* An encoding always is an entry.
LEMMA EncodeIsPte ==
  ASSUME NEW b \in Int
  PROVE  Encode(b) \in Ptes
<1>1. b % Low \in 0 .. Low - 1
  BY DEF Low
<1>2. (b \div Low) % High \in 0 .. High - 1
  <2>1. b \div Low \in Int
    BY DEF Low
  <2> QED
    BY <2>1 DEF High
<1> QED
  BY <1>1, <1>2 DEF Encode, Ptes

\* for_each_sg_page goes on to the next page of the object, within an entry of
\* the list or in the next one, and ends behind the last page.
LEMMA NextPageIterates ==
  ASSUME WalkInv, ins = "pte", it.k <= Len(sg)
  PROVE  /\ NextPage \in [k : Nat \ {0}, off : Nat]
         /\ \/ /\ NextPage.k \in 1 .. Len(sg) /\ NextPage.off < sg[NextPage.k].len
               /\ sg[NextPage.k].first + NextPage.off = i + 1
            \/ NextPage.k = Len(sg) + 1 /\ i + 1 = num
<1>1. /\ mm = "ready" /\ Len(pages) = num /\ i < num
      /\ it.k \in 1 .. Len(sg) /\ it.off < sg[it.k].len
      /\ sg[it.k].first + it.off = i
  BY PageUnderIterator
<1>4. /\ it.k \in Nat /\ it.off \in Nat /\ Len(sg) \in Nat
      /\ num \in Nat /\ i \in Nat
      /\ sg[it.k].len \in Nat \ {0} /\ sg[it.k].first \in Nat
  BY <1>1, WalkNumbers
<1>5. it \in [k : Nat \ {0}, off : Nat]
  BY DEF WalkInv, GttTypes
<1>r. sg[it.k].first + (it.off + 1) = i + 1
  BY <1>1, <1>4
<1>6. CASE it.off + 1 < sg[it.k].len
  <2>1. NextPage = [it EXCEPT !.off = it.off + 1]
    BY <1>6 DEF NextPage
  <2>2. it.off + 1 \in Nat
    BY <1>4
  <2>3. /\ NextPage \in [k : Nat \ {0}, off : Nat]
        /\ NextPage.k = it.k /\ NextPage.off = it.off + 1
    BY <1>5, <2>1, <2>2
  <2> QED
    BY <1>1, <1>6, <1>r, <2>3
<1>7. CASE ~(it.off + 1 < sg[it.k].len)
  <2>1. NextPage = [k |-> it.k + 1, off |-> 0]
    BY <1>7 DEF NextPage, NextEntry
  <2>2. it.k + 1 \in Nat \ {0}
    BY <1>4
  <2>3. /\ NextPage \in [k : Nat \ {0}, off : Nat]
        /\ NextPage.k = it.k + 1 /\ NextPage.off = 0
    BY <2>1, <2>2
  <2>4. it.off + 1 = sg[it.k].len
    BY <1>1, <1>4, <1>7
  <2>5. sg[it.k].first + sg[it.k].len = i + 1
    BY <1>r, <2>4
  <2>6. sg # <<>> /\ sg[Len(sg)].first + sg[Len(sg)].len = num
    <3>1. sg # <<>>
      BY <1>1
    <3> QED
      BY <1>1, <3>1 DEF WalkInv, MemInv, ListInv
  <2>7. CASE it.k = Len(sg)
    BY <2>3, <2>5, <2>6, <2>7
  <2>8. CASE it.k # Len(sg)
    <3>1. it.k + 1 \in 2 .. Len(sg)
      BY <1>1, <1>4, <2>8
    <3>2. sg[it.k + 1].first = sg[it.k].first + sg[it.k].len
      <4> DEFINE l == it.k + 1
      <4>1. sg[l].first = sg[l - 1].first + sg[l - 1].len
        BY <3>1 DEF WalkInv, MemInv, ListInv
      <4>2. l - 1 = it.k
        BY <1>4
      <4> QED
        BY <4>1, <4>2
    <3>3. sg[it.k + 1].len \in Nat \ {0} /\ sg[it.k + 1].first \in Nat
      <4>1. it.k + 1 \in 1 .. Len(sg)
        BY <1>4, <3>1
      <4> QED
        BY <4>1, WalkNumbers
    <3>4. 0 < sg[it.k + 1].len /\ sg[it.k + 1].first + 0 = i + 1
      BY <2>5, <3>2, <3>3
    <3>5. it.k + 1 \in 1 .. Len(sg)
      BY <1>4, <3>1
    <3> QED
      BY <2>3, <3>4, <3>5
  <2> QED
    BY <2>7, <2>8
<1> QED
  BY <1>6, <1>7

\* Letting stores land leaves types as they are.
LEMMA LandTypes ==
  ASSUME WalkInv, NEW stores \in SUBSET DOMAIN wc, Land(stores)
  PROVE  /\ gsm' \in [Table -> Ptes \cup {Junk}]
         /\ DOMAIN wc' \subseteq Table /\ \A e \in DOMAIN wc' : wc'[e] \in Ptes
BY DEF WalkInv, GttTypes, Land

\* The steps of an insertion, of the buffer and of the device.
LEMMA WalkInsert ==
  ASSUME WalkInv,
         \/ Insert \/ WritePte \/ WriteBeyond \/ Verify \/ Flush \/ Post
         \/ (\E e \in Table : Drain(e) \/ TlbFill(e)) \/ TlbFlush
  PROVE  WalkInv'
<1> USE DEF callVars, tableVars, deviceVars
<1>n. /\ Entries \in Nat /\ num \in Nat /\ i \in Nat /\ gttEntry \in Nat
      /\ Len(pages) \in Nat /\ Len(sg) \in Nat
  BY WalkNumbers
<1>t. GttTypes /\ PhaseInv /\ IterInv /\ MemInv
  BY DEF WalkInv
<1>1. CASE Insert
  <2>1. MemInv'
    BY <1>1, <1>t, MemUnchanged DEF Insert
  <2>2. it' = [k |-> 1, off |-> 0] /\ i' = 0 /\ ins' = "pte"
    BY <1>1 DEF Insert
  <2>3. it' \in [k : Nat \ {0}, off : Nat] /\ i' \in 0 .. Entries
    BY <1>n, <2>2
  <2>4. GttTypes'
    BY <1>1, <1>t, <2>3, <2>2 DEF Insert, GttTypes
  <2>5. mm = "ready" /\ mm' = mm /\ num' = num /\ gttEntry' = gttEntry /\ sg' = sg
    BY <1>1 DEF Insert, memVars, objVars
  <2>6. PhaseInv'
    <3>1. gttEntry + 0 <= Entries
      BY <1>t, <1>n DEF GttTypes
    <3> QED
      BY <1>t, <1>n, <2>2, <2>5, <3>1 DEF PhaseInv
  <2>7. num \in Sizes /\ Len(pages) = num
    BY <1>t, <2>5 DEF PhaseInv, MemInv, ReadyInv
  <2>8. sg # <<>> /\ 1 \in 1 .. Len(sg)
    <3>1. num # 0
      BY <2>7, MemmgrAssumption
    <3>2. pages # <<>>
      BY <2>7, <3>1
    <3>3. sg # <<>>
      BY <1>t, <3>2 DEF MemInv, ListInv
    <3> QED
      BY <3>3, <1>t, <1>n DEF MemInv, MemTypes
  <2>9. sg[1].first = 0 /\ sg[1].len \in Nat \ {0}
    BY <1>t, <2>8, WalkNumbers DEF MemInv, ListInv
  <2>10. it'.k \in 1 .. Len(sg) /\ it'.off < sg[it'.k].len /\ sg[it'.k].first + it'.off = 0
    BY <2>2, <2>8, <2>9
  <2>11. IterInv'
    BY <2>2, <2>5, <2>10 DEF IterInv
  <2> QED
    BY <2>1, <2>4, <2>6, <2>11 DEF WalkInv
<1>2. CASE WritePte
  <2>1. MemInv' /\ UNCHANGED memVars
    BY <1>2, <1>t, MemUnchanged DEF WritePte
  <2>2. ins = "pte" /\ it.k <= Len(sg) /\ it' = NextPage /\ i' = i + 1 /\ ins' = ins
    BY <1>2 DEF WritePte
  <2>3. /\ mm = "ready" /\ i < num /\ it.k \in 1 .. Len(sg)
        /\ dma[it.k] + it.off \in DOMAIN iommu
    BY <2>2, PageUnderIterator
  <2>4. gttEntry + i < Entries
    BY <1>2 DEF WritePte
  <2>5. i' \in 0 .. Entries /\ gttEntry + i \in Table
    BY <1>n, <2>2, <2>3, <2>4 DEF Table
  <2>6. dma[it.k] + it.off \in Int
    <3>1. DOMAIN iommu \subseteq BusFrames /\ BusFrames \subseteq Nat
      BY <1>t, MemmgrAssumption DEF MemInv, MemTypes
    <3> QED
      BY <2>3, <3>1
  <2>7. Encode(dma[it.k] + it.off) \in Ptes
    BY <2>6, EncodeIsPte
  <2>8. DOMAIN wc' \subseteq Table /\ \A e \in DOMAIN wc' : wc'[e] \in Ptes
    BY <1>2, <1>t, <2>5, <2>7 DEF WritePte, GttTypes
  <2>9. it' \in [k : Nat \ {0}, off : Nat]
    BY <2>2, NextPageIterates
  <2>10. GttTypes'
    BY <1>2, <1>t, <2>5, <2>8, <2>9 DEF WritePte, GttTypes
  <2>11. PhaseInv'
    <3>1. i' <= num /\ gttEntry + i' <= Entries
      BY <1>n, <2>2, <2>3, <2>4
    <3>2. UNCHANGED <<mm, num, gttEntry, ins>>
      BY <1>2, <2>1 DEF WritePte, memVars, objVars
    <3> QED
      BY <1>t, <2>2, <3>1, <3>2 DEF PhaseInv
  <2>12. IterInv'
    <3>1. sg' = sg /\ num' = num
      BY <2>1 DEF memVars, objVars
    <3> QED
      BY <2>2, <3>1, NextPageIterates DEF IterInv
  <2> QED
    BY <2>1, <2>10, <2>11, <2>12 DEF WalkInv
<1>9. CASE WriteBeyond
  <2>1. MemInv' /\ UNCHANGED memVars
    BY <1>9, <1>t, MemUnchanged DEF WriteBeyond
  <2>2. ins = "pte" /\ it.k <= Len(sg) /\ gttEntry + i >= Entries /\ ins' = "oops"
    BY <1>9 DEF WriteBeyond
  <2>3. i < num
    BY <2>2, PageUnderIterator
  <2>4. UNCHANGED <<mm, num, i, it, gttEntry, sg>>
    BY <1>9, <2>1 DEF WriteBeyond, memVars, objVars
  <2>5. GttTypes'
    BY <1>9, <1>t DEF WriteBeyond, GttTypes
  <2>6. PhaseInv' /\ IterInv'
    BY <1>t, <2>2, <2>3, <2>4 DEF PhaseInv, IterInv
  <2> QED
    BY <2>1, <2>5, <2>6 DEF WalkInv
<1>3. CASE Verify
  <2>1. MemInv' /\ UNCHANGED memVars
    BY <1>3, <1>t, MemUnchanged DEF Verify
  <2>2. /\ gsm' \in [Table -> Ptes \cup {Junk}]
        /\ DOMAIN wc' \subseteq Table /\ \A e \in DOMAIN wc' : wc'[e] \in Ptes
    BY <1>3, LandTypes DEF Verify
  <2>3. GttTypes'
    BY <1>3, <1>t, <2>2 DEF Verify, GttTypes
  <2>4. i = num
    <3>1. ins = "pte" /\ it.k > Len(sg)
      BY <1>3 DEF Verify
    <3>2. ~(it.k \in 1 .. Len(sg))
      BY <3>1, <1>n
    <3> QED
      BY <1>t, <3>1, <3>2 DEF IterInv
  <2>5. PhaseInv'
    <3>1. ins = "pte" /\ ins' = "flush" /\ UNCHANGED <<mm, num, i, gttEntry>>
      BY <1>3, <2>1 DEF Verify, memVars, objVars
    <3> QED
      BY <1>t, <2>4, <3>1 DEF PhaseInv
  <2>6. IterInv'
    BY <1>3 DEF Verify, IterInv
  <2> QED
    BY <2>1, <2>3, <2>5, <2>6 DEF WalkInv
<1>4. CASE Flush
  <2>1. MemInv' /\ UNCHANGED memVars
    BY <1>4, <1>t, MemUnchanged DEF Flush
  <2>2. /\ gsm' \in [Table -> Ptes \cup {Junk}]
        /\ DOMAIN wc' \subseteq Table /\ \A e \in DOMAIN wc' : wc'[e] \in Ptes
    BY <1>4, LandTypes DEF Flush
  <2>3. GttTypes'
    BY <1>4, <1>t, <2>2 DEF Flush, GttTypes, FlushEnable
  <2>5. PhaseInv' /\ IterInv'
    <3>1. ins = "flush" /\ ins' = "post" /\ UNCHANGED <<mm, num, i, gttEntry>>
      BY <1>4, <2>1 DEF Flush, memVars, objVars
    <3> QED
      BY <1>t, <3>1 DEF PhaseInv, IterInv
  <2> QED
    BY <2>1, <2>3, <2>5 DEF WalkInv
<1>5. CASE Post
  <2>1. MemInv'
    BY <1>5, <1>t, TakenInv DEF Post
  <2>2. ins = "post" /\ ins' = "idle" /\ mm' = "idle" /\ gttEntry' = gttEntry + i
    BY <1>5 DEF Post
  <2>3. i = num /\ gttEntry + i <= Entries
    BY <1>t, <2>2 DEF PhaseInv
  <2>4. gttEntry' \in 0 .. Entries
    BY <1>n, <2>2, <2>3
  <2>5. objects' \in Seq(Object)
    <3>1. pages \in Seq(Frames)
      BY <1>t DEF MemInv, MemTypes
    <3> DEFINE o == [gfx |-> gttEntry, pages |-> pages]
    <3>2. o \in Object
      BY <1>n, <3>1 DEF Object
    <3>3. objects' = Append(objects, o) /\ objects \in Seq(Object)
      BY <1>5, <1>t DEF Post, GttTypes
    <3> HIDE DEF o
    <3> QED
      BY <3>2, <3>3
  <2>6. GttTypes'
    BY <1>5, <1>t, <2>2, <2>4, <2>5 DEF Post, GttTypes
  <2>7. PhaseInv' /\ IterInv'
    BY <2>2 DEF PhaseInv, IterInv
  <2> QED
    BY <2>1, <2>6, <2>7 DEF WalkInv
<1>6. ASSUME NEW e \in Table, Drain(e) PROVE WalkInv'
  <2>1. MemInv' /\ UNCHANGED memVars
    BY <1>6, <1>t, MemUnchanged DEF Drain
  <2>2. /\ gsm' \in [Table -> Ptes \cup {Junk}]
        /\ DOMAIN wc' \subseteq Table /\ \A a \in DOMAIN wc' : wc'[a] \in Ptes
    BY <1>6, LandTypes DEF Drain
  <2>3. GttTypes'
    BY <1>6, <1>t, <2>2 DEF Drain, GttTypes
  <2>4. PhaseInv' /\ IterInv'
    BY <1>6, <1>t DEF Drain, memVars, objVars, PhaseInv, IterInv
  <2> QED
    BY <2>1, <2>3, <2>4 DEF WalkInv
<1>7. ASSUME NEW e \in Table, TlbFill(e) PROVE WalkInv'
  <2>1. MemInv' /\ UNCHANGED memVars
    BY <1>7, <1>t, MemUnchanged DEF TlbFill
  <2>2. /\ DOMAIN tlb' \subseteq Table
        /\ \A a \in DOMAIN tlb' : tlb'[a] \in Ptes \cup {Junk}
    BY <1>7, <1>t DEF TlbFill, GttTypes
  <2>3. GttTypes'
    BY <1>7, <1>t, <2>2 DEF TlbFill, GttTypes
  <2>4. PhaseInv' /\ IterInv'
    BY <1>7, <1>t DEF TlbFill, memVars, objVars, PhaseInv, IterInv
  <2> QED
    BY <2>1, <2>3, <2>4 DEF WalkInv
<1>8. CASE TlbFlush
  <2>1. MemInv' /\ UNCHANGED memVars
    BY <1>8, <1>t, MemUnchanged DEF TlbFlush
  <2>3. GttTypes'
    BY <1>8, <1>t DEF TlbFlush, GttTypes, Empty
  <2>4. PhaseInv' /\ IterInv'
    BY <1>8, <1>t DEF TlbFlush, memVars, objVars, PhaseInv, IterInv
  <2> QED
    BY <2>1, <2>3, <2>4 DEF WalkInv
<1> QED
  BY <1>1, <1>2, <1>3, <1>4, <1>5, <1>6, <1>7, <1>8, <1>9

\* An insertion stays within its object and within the table, also between
\* steps that change nothing.
LEMMA WalkStep == WalkInv /\ [Next]_vars => WalkInv'
<1> SUFFICES ASSUME WalkInv, [Next]_vars PROVE WalkInv'
  OBVIOUS
<1>1. CASE UNCHANGED vars
  <2>1. MemInv'
    BY <1>1, MemUnchanged DEF vars, WalkInv
  <2>2. GttTypes' /\ PhaseInv' /\ IterInv'
    BY <1>1 DEF vars, memVars, objVars, gttVars, callVars, tableVars, deviceVars,
       WalkInv, GttTypes, PhaseInv, IterInv
  <2> QED
    BY <2>1, <2>2 DEF WalkInv
<1>2. CASE Next
  BY <1>2, WalkMemory, WalkInsert DEF Next
<1> QED
  BY <1>1, <1>2

\* Type correctness, for any table and any bus addresses; among it that the
\* iterator stays in its list and writes no more entries than there are pages.
THEOREM GttTypeCorrect == Spec => []TypeOK
<1>1. Init => WalkInv
  BY GttInitWalk
<1>2. WalkInv => TypeOK
  <2> SUFFICES ASSUME WalkInv PROVE TypeOK
    OBVIOUS
  <2>1. ins = "pte" => it.k <= Len(sg) + 1
    BY WalkNumbers DEF WalkInv, IterInv
  <2>2. ins # "idle" => i <= num
    BY DEF WalkInv, PhaseInv
  <2> QED
    BY <2>1, <2>2, MemInvTypeOK DEF WalkInv, GttTypes, TypeOK
<1> QED
  BY <1>1, <1>2, WalkStep, PTL DEF Spec

\* What the memory manager promises of its lists and bus pages holds beside the
\* insertion, which reads them: it changes neither, also when it faults.
THEOREM GttListsKept == Spec => [](ListIsPages /\ ListIsShort /\ BusPagesDistinct)
<1>1. Init => WalkInv
  BY GttInitWalk
<1>2. WalkInv => ListIsPages /\ ListIsShort /\ BusPagesDistinct
  BY MemInvListIsPages DEF WalkInv, MemInv
<1> QED
  BY <1>1, <1>2, WalkStep, PTL DEF Spec

\* nugpgpu_gtt_insert has no test for room, and none is missed as long as the
\* objects fit: the loop over the scatter list writes one entry for every page
\* and stops.
THEOREM GttFaultOnlyWhenFull == Spec => []FaultOnlyWhenFull
<1>1. Init => WalkInv
  BY GttInitWalk
<1>2. WalkInv => FaultOnlyWhenFull
  <2> SUFFICES ASSUME WalkInv, ins = "oops" PROVE gttEntry + Len(pages) > Entries
    BY DEF FaultOnlyWhenFull
  <2>1. i < num /\ gttEntry + i >= Entries
    BY DEF WalkInv, IterInv
  <2>2. Len(pages) = num
    BY DEF WalkInv, PhaseInv, MemInv, ReadyInv
  <2> QED
    BY <2>1, <2>2, WalkNumbers
<1> QED
  BY <1>1, <1>2, WalkStep, PTL DEF Spec
-----------------------------------------------------------------------------
\* The PTE leads the device to the frame.
Leads(pte, frame) ==
  pte \in Ptes /\ Decode(pte) \in DOMAIN iommu /\ iommu[Decode(pte)] = frame

\* How many PTEs of the current object have been written, and where they are
\* as the processor sees them.
Count == IF ins = "idle" THEN 0 ELSE i
Stored(e) == IF e \in DOMAIN wc THEN wc[e] ELSE gsm[e]

\* The frame behind an entry of the table.
FrameOf(e) == iommu[Decode(gsm[e])]

\* The PTEs written so far, those still in the write-combining buffer among
\* them, lead to the pages of the object.  Nothing is written behind them, and
\* a buffered store is the first one to its entry.
TableInv ==
  /\ DOMAIN wc \subseteq gttEntry .. gttEntry + Count - 1
  /\ ins \in {"idle", "post"} => DOMAIN wc = {}
  /\ \A e \in DOMAIN wc : gsm[e] = Junk
  /\ \A e \in Table : e >= gttEntry + Count => gsm[e] = Junk
  /\ \A p \in 1 .. Count : Leads(Stored(gttEntry + p - 1), pages[p])

\* The TLB may lag behind the table, but only with what the firmware left, and
\* only at entries no caller has been told of.
TlbInv ==
  /\ DOMAIN tlb \subseteq Table
  /\ \A e \in DOMAIN tlb : tlb[e] = gsm[e] \/ tlb[e] = Junk
  /\ \A e \in DOMAIN tlb : e < gttEntry => tlb[e] = gsm[e]
  /\ flushing => ins = "post"
  /\ ins = "post" /\ ~flushing =>
       \A e \in DOMAIN tlb : e < gttEntry + i => tlb[e] = gsm[e]

\* What callers were given is in the table, and fills it up to gttEntry.
ObjectsInv ==
  /\ \A o \in 1 .. Len(objects) :
       /\ objects[o].gfx + Len(objects[o].pages) <= gttEntry
       /\ \A j \in 1 .. Len(objects[o].pages) :
            Leads(gsm[objects[o].gfx + j - 1], objects[o].pages[j])
  /\ \A e \in Table : e < gttEntry =>
       \E o \in 1 .. Len(objects) :
         e - objects[o].gfx + 1 \in 1 .. Len(objects[o].pages)

\* No two entries lead to the same frame, and none to a page of an object that
\* is not inserted yet.
DistinctInv ==
  /\ \A d, e \in 0 .. gttEntry - 1 : FrameOf(d) = FrameOf(e) => d = e
  /\ mm # "idle" =>
       \A e \in 0 .. gttEntry - 1, p \in 1 .. Len(pages) : FrameOf(e) # pages[p]

ViewInv == TableInv /\ TlbInv /\ ObjectsInv /\ DistinctInv
-----------------------------------------------------------------------------
\* The device reads out of an entry what nugpgpu_pte_encode was given.
LEMMA DecodeEncode ==
  ASSUME NEW b \in Nat, b < Low * High
  PROVE  Decode(Encode(b)) = b
<1> DEFINE q == b \div Low
           r == b % Low
<1>1. q \in Nat /\ q < High /\ b = q * Low + r
  BY DEF Low, High
<1>2. q % High = q
  <2> HIDE DEF q
  <2> QED
    BY <1>1 DEF High
<1> QED
  BY <1>1, <1>2 DEF Encode, Decode

\* Every entry below gttEntry leads to a page that has been handed out.
LEMMA EntryLeads ==
  ASSUME WalkInv, ViewInv, NEW e \in 0 .. gttEntry - 1
  PROVE  /\ e \in Table /\ gsm[e] \in Ptes
         /\ Decode(gsm[e]) \in DOMAIN iommu /\ FrameOf(e) \in used
<1>1. e \in Table
  <2>1. Entries \in Nat /\ gttEntry \in 0 .. Entries
    BY WalkNumbers DEF WalkInv, GttTypes
  <2> QED
    BY <2>1 DEF Table
<1>2. PICK o \in 1 .. Len(objects) :
        e - objects[o].gfx + 1 \in 1 .. Len(objects[o].pages)
  <2>1. e < gttEntry
    BY WalkNumbers
  <2> QED
    BY <1>1, <2>1 DEF ViewInv, ObjectsInv
<1> DEFINE j == e - objects[o].gfx + 1
<1>3. objects[o].gfx \in Nat
  <2>1. objects[o] \in Object
    BY DEF WalkInv, GttTypes
  <2> QED
    BY <2>1 DEF Object
<1>4. e = objects[o].gfx + j - 1
  BY <1>1, <1>3 DEF Table
<1>5. Leads(gsm[e], objects[o].pages[j])
  <2> HIDE DEF j
  <2>1. Leads(gsm[objects[o].gfx + j - 1], objects[o].pages[j])
    BY <1>2 DEF ViewInv, ObjectsInv, j
  <2> QED
    BY <1>4, <2>1
<1> QED
  BY <1>1, <1>5 DEF Leads, FrameOf, WalkInv, MemInv, UsedInv

\* dma_map_sg changes no mapping that exists.
LEMMA IommuGrows ==
  ASSUME WalkInv, (\E n \in Sizes : AllocateObject(n)) \/ FillObject
  PROVE  \A b \in DOMAIN iommu : b \in DOMAIN iommu' /\ iommu'[b] = iommu[b]
<1>1. CASE iommu' = iommu
  BY <1>1
<1>2. CASE \E base \in [DOMAIN sg -> BusFrames] : MapPages(base)
  BY <1>2, MappedPages DEF WalkInv
<1> QED
  BY <1>1, <1>2 DEF AllocateObject, Allocate, FillObject, Fill, GetPage, Fail

\* Nothing is in the table at first.
LEMMA GttInitView ==
  ASSUME Init
  PROVE  ViewInv
<1>1. /\ gttEntry = 0 /\ ins = "idle" /\ Count = 0 /\ objects = <<>> /\ mm = "idle"
      /\ DOMAIN wc = {} /\ DOMAIN tlb = {} /\ ~flushing
      /\ \A e \in Table : gsm[e] = Junk
  BY DEF Init, NoObject, Empty, Count
<1>2. TableInv /\ TlbInv
  BY <1>1 DEF TableInv, TlbInv
<1>3. ObjectsInv /\ DistinctInv
  <2>1. Entries \in Nat /\ Len(objects) = 0
    BY <1>1, GttAssumption
  <2>2. \A e \in Table : ~(e < gttEntry)
    BY <1>1, <2>1 DEF Table
  <2> QED
    BY <1>1, <2>1, <2>2 DEF ObjectsInv, DistinctInv
<1> QED
  BY <1>2, <1>3 DEF ViewInv

\* Allocating an object, also one that fails, changes nothing the device sees,
\* and its pages are new to the device.
LEMMA ViewMemory ==
  ASSUME WalkInv, ViewInv, (\E n \in Sizes : AllocateObject(n)) \/ FillObject
  PROVE  ViewInv'
<1>1. ins = "idle" /\ UNCHANGED gttVars
  BY WalkMemory
<1> USE DEF gttVars, callVars, tableVars, deviceVars
<1>2. \A b \in DOMAIN iommu : b \in DOMAIN iommu' /\ iommu'[b] = iommu[b]
  BY IommuGrows
<1>3. TableInv' /\ TlbInv'
  <2>1. Count = 0 /\ Count' = 0
    BY <1>1 DEF Count
  <2>2. TableInv'
    <3>1. \A p \in 1 .. 0 : FALSE
      OBVIOUS
    <3> QED
      BY <1>1, <2>1, <3>1 DEF ViewInv, TableInv
  <2> QED
    BY <1>1, <2>2 DEF ViewInv, TlbInv
<1>4. ObjectsInv'
  <2>1. ASSUME NEW pte, NEW f, Leads(pte, f)
        PROVE  /\ pte \in Ptes /\ Decode(pte) \in DOMAIN iommu'
               /\ iommu'[Decode(pte)] = f
    BY <1>2, <2>1 DEF Leads
  <2> QED
    BY <1>1, <2>1 DEF ViewInv, ObjectsInv, Leads
<1>5. \A e \in 0 .. gttEntry - 1 :
        iommu'[Decode(gsm[e])] = FrameOf(e) /\ FrameOf(e) \in used
  BY <1>2, EntryLeads DEF FrameOf
<1>6. ASSUME mm' # "idle", NEW e \in 0 .. gttEntry - 1, NEW p \in 1 .. Len(pages')
      PROVE  FrameOf(e) # pages'[p]
  <2>1. CASE \E n \in Sizes : AllocateObject(n)
    <3>1. pages' = <<>>
      BY <2>1 DEF AllocateObject, Allocate
    <3> QED
      BY <3>1
  <2>2. CASE pages' = pages /\ mm = "pages"
    BY <2>2 DEF ViewInv, DistinctInv
  <2>3. ASSUME NEW f \in Frames, GetPage(f) PROVE FrameOf(e) # pages'[p]
    <3>1. pages' = Append(pages, f) /\ f \notin used /\ pages \in Seq(Frames) /\ mm # "idle"
      BY <2>3 DEF GetPage, WalkInv, MemInv, MemTypes
    <3>2. CASE p \in 1 .. Len(pages)
      <4>1. pages'[p] = pages[p]
        BY <3>1, <3>2
      <4> QED
        BY <3>1, <3>2, <4>1 DEF ViewInv, DistinctInv
    <3>3. CASE p \notin 1 .. Len(pages)
      <4>1. pages'[p] = f
        BY <3>1, <3>3
      <4> QED
        BY <1>5, <3>1, <4>1
    <3> QED
      BY <3>2, <3>3
  <2> QED
    BY <1>6, <2>1, <2>2, <2>3 DEF FillObject, Fill, Fail, MapPages
<1>7. DistinctInv'
  BY <1>1, <1>5, <1>6 DEF ViewInv, DistinctInv, FrameOf
<1> QED
  BY <1>3, <1>4, <1>7 DEF ViewInv
-----------------------------------------------------------------------------
\* Stores that land change neither what the processor has stored nor what the
\* entries below gttEntry hold.
LEMMA LandView ==
  ASSUME WalkInv, ViewInv, NEW stores \in SUBSET DOMAIN wc, Land(stores),
         UNCHANGED <<memVars, callVars>>, ins = "idle" <=> ins' = "idle"
  PROVE  /\ DOMAIN wc' = DOMAIN wc \ stores
         /\ DOMAIN wc' \subseteq gttEntry .. gttEntry + Count' - 1
         /\ \A e \in DOMAIN wc' : gsm'[e] = Junk
         /\ \A e \in Table : e >= gttEntry + Count' => gsm'[e] = Junk
         /\ \A p \in 1 .. Count' : Leads(Stored(gttEntry + p - 1), pages[p])'
         /\ \A e \in Table : gsm[e] # Junk => gsm'[e] = gsm[e]
         /\ ObjectsInv' /\ DistinctInv'
<1> USE DEF memVars, objVars, callVars
<1>1. /\ gsm' = [e \in Table |-> IF e \in stores THEN wc[e] ELSE gsm[e]]
      /\ wc' = [e \in DOMAIN wc \ stores |-> wc[e]] /\ Count' = Count
  BY DEF Land, Count
<1>2. /\ DOMAIN wc \subseteq gttEntry .. gttEntry + Count - 1
      /\ \A e \in DOMAIN wc : gsm[e] = Junk
      /\ \A e \in Table : e >= gttEntry + Count => gsm[e] = Junk
      /\ \A p \in 1 .. Count : Leads(Stored(gttEntry + p - 1), pages[p])
  BY DEF ViewInv, TableInv
<1>3. DOMAIN wc \subseteq Table
  BY DEF WalkInv, GttTypes
<1>n. gttEntry \in Nat /\ Count \in Nat /\ gttEntry + Count <= Entries /\ Entries \in Nat
  <2>1. /\ gttEntry \in 0 .. Entries /\ i \in Nat /\ num \in Nat /\ Entries \in Nat
        /\ gttEntry \in Nat
    BY WalkNumbers DEF WalkInv, GttTypes
  <2>2. ins # "idle" => gttEntry + i <= Entries
    BY DEF WalkInv, PhaseInv
  <2>3. CASE ins = "idle"
    BY <2>1, <2>3 DEF Count
  <2>4. CASE ins # "idle"
    BY <2>1, <2>2, <2>4 DEF Count
  <2> QED
    BY <2>3, <2>4
<1>4. \A e \in DOMAIN wc' : gsm'[e] = Junk
  BY <1>1, <1>2, <1>3
<1>5. \A e \in Table : e >= gttEntry + Count => gsm'[e] = Junk
  <2> SUFFICES ASSUME NEW e \in Table, e >= gttEntry + Count PROVE gsm'[e] = Junk
    OBVIOUS
  <2>1. e \notin stores
    BY <1>n, <1>2
  <2> QED
    BY <1>1, <1>2, <2>1
<1>6. ASSUME NEW p \in 1 .. Count PROVE Leads(Stored(gttEntry + p - 1), pages[p])'
  <2> DEFINE e == gttEntry + p - 1
  <2>1. e \in Table
    BY <1>n DEF Table
  <2>2. Stored(e)' = Stored(e)
    <3>1. \A a \in Table : Stored(a)' = Stored(a)
      BY <1>1 DEF Stored
    <3>2. e' = e
      OBVIOUS
    <3> QED
      BY <2>1, <3>1, <3>2 DEF Stored
  <2>3. Leads(Stored(e), pages[p])
    BY <1>2
  <2>4. p' = p /\ gttEntry' = gttEntry /\ iommu' = iommu /\ pages' = pages
    OBVIOUS
  <2> QED
    BY <2>2, <2>3, <2>4 DEF Leads
<1>7. \A e \in Table : gsm[e] # Junk => gsm'[e] = gsm[e]
  BY <1>1, <1>2
<1>8. \A e \in 0 .. gttEntry - 1 : gsm'[e] = gsm[e]
  BY <1>7, EntryLeads, JunkAssumption
<1>9. ObjectsInv'
  <2>1. \A o \in 1 .. Len(objects) : \A j \in 1 .. Len(objects[o].pages) :
          gsm'[objects[o].gfx + j - 1] = gsm[objects[o].gfx + j - 1]
    <3> SUFFICES ASSUME NEW o \in 1 .. Len(objects), NEW j \in 1 .. Len(objects[o].pages)
                 PROVE  gsm'[objects[o].gfx + j - 1] = gsm[objects[o].gfx + j - 1]
      OBVIOUS
    <3>1. objects[o] \in Object
      BY DEF WalkInv, GttTypes
    <3>2. objects[o].gfx \in Nat /\ Len(objects[o].pages) \in Nat
      BY <3>1 DEF Object
    <3>3. objects[o].gfx + Len(objects[o].pages) <= gttEntry
      BY DEF ViewInv, ObjectsInv
    <3> DEFINE g == objects[o].gfx
               m == Len(objects[o].pages)
    <3>4. g + j - 1 \in 0 .. gttEntry - 1
      <4>1. g \in Nat /\ m \in Nat /\ j \in 1 .. m /\ g + m <= gttEntry /\ gttEntry \in Nat
        BY <1>n, <3>2, <3>3
      <4> HIDE DEF g, m
      <4> QED
        BY <4>1
    <3> QED
      BY <1>8, <3>4
  <2> QED
    BY <2>1 DEF ViewInv, ObjectsInv, Leads
<1>10. DistinctInv'
  BY <1>8 DEF ViewInv, DistinctInv, FrameOf
<1> QED
  BY <1>1, <1>2, <1>4, <1>5, <1>6, <1>7, <1>9, <1>10

\* The steps that only let stores land, or give the device its turn.
LEMMA ViewDevice ==
  ASSUME WalkInv, ViewInv,
         \/ Verify \/ Flush
         \/ (\E e \in Table : Drain(e) \/ TlbFill(e)) \/ TlbFlush
  PROVE  ViewInv'
<1> USE DEF memVars, objVars, callVars, tableVars, deviceVars
<1>t. /\ DOMAIN tlb \subseteq Table
      /\ \A e \in DOMAIN tlb : tlb[e] = gsm[e] \/ tlb[e] = Junk
      /\ \A e \in DOMAIN tlb : e < gttEntry => tlb[e] = gsm[e]
      /\ flushing => ins = "post"
      /\ ins = "post" /\ ~flushing =>
           \A e \in DOMAIN tlb : e < gttEntry + i => tlb[e] = gsm[e]
  BY DEF ViewInv, TlbInv
<1>e. \A e \in Table : e < gttEntry => gsm[e] # Junk
  <2> SUFFICES ASSUME NEW e \in Table, e < gttEntry PROVE gsm[e] # Junk
    OBVIOUS
  <2>1. e \in 0 .. gttEntry - 1
    BY WalkNumbers DEF Table
  <2> QED
    BY <2>1, EntryLeads, JunkAssumption
<1>1. CASE Verify
  <2> DEFINE stores == {gttEntry + i - 1} \cap DOMAIN wc
  <2>1. /\ ins = "pte" /\ ins' = "flush" /\ Land(stores)
        /\ UNCHANGED <<memVars, callVars>> /\ tlb' = tlb /\ flushing' = flushing
    BY <1>1 DEF Verify
  <2>2. stores \in SUBSET DOMAIN wc
    OBVIOUS
  <2> HIDE DEF stores
  <2>3. TableInv' /\ ObjectsInv' /\ DistinctInv'
    BY <2>1, <2>2, LandView DEF TableInv
  <2>4. \A e \in Table : gsm[e] # Junk => gsm'[e] = gsm[e]
    BY <2>1, <2>2, LandView
  <2>5. TlbInv'
    BY <1>t, <1>e, <2>1, <2>4 DEF TlbInv
  <2> QED
    BY <2>3, <2>5 DEF ViewInv
<1>2. CASE Flush
  <2>1. /\ ins = "flush" /\ ins' = "post" /\ Land(DOMAIN wc)
        /\ UNCHANGED <<memVars, callVars>> /\ tlb' = tlb /\ flushing'
    BY <1>2 DEF Flush, FlushEnable
  <2>2. DOMAIN wc' = {}
    BY <2>1 DEF Land
  <2>3. TableInv' /\ ObjectsInv' /\ DistinctInv'
    BY <2>1, <2>2, LandView DEF TableInv
  <2>4. \A e \in Table : gsm[e] # Junk => gsm'[e] = gsm[e]
    BY <2>1, LandView
  <2>5. TlbInv'
    BY <1>t, <1>e, <2>1, <2>4 DEF TlbInv
  <2> QED
    BY <2>3, <2>5 DEF ViewInv
<1>3. ASSUME NEW e \in Table, Drain(e) PROVE ViewInv'
  <2>1. /\ e \in DOMAIN wc /\ ins' = ins /\ Land({e})
        /\ UNCHANGED <<memVars, callVars>> /\ tlb' = tlb /\ flushing' = flushing
    BY <1>3 DEF Drain
  <2>2. ~(ins \in {"idle", "post"})
    BY <2>1 DEF ViewInv, TableInv
  <2>3. TableInv' /\ ObjectsInv' /\ DistinctInv'
    BY <2>1, <2>2, LandView DEF TableInv
  <2>4. \A a \in Table : gsm[a] # Junk => gsm'[a] = gsm[a]
    BY <2>1, LandView
  <2>5. TlbInv'
    BY <1>t, <1>e, <2>1, <2>2, <2>4 DEF TlbInv
  <2> QED
    BY <2>3, <2>5 DEF ViewInv
<1>4. ASSUME NEW e \in Table, TlbFill(e) PROVE ViewInv'
  <2>1. /\ UNCHANGED <<memVars, ins, callVars, tableVars, flushing>>
        /\ tlb' = [a \in DOMAIN tlb \cup {e} |-> IF a = e THEN gsm[e] ELSE tlb[a]]
    BY <1>4 DEF TlbFill
  <2>2. TableInv' /\ ObjectsInv' /\ DistinctInv'
    <3>1. TableInv'
      BY <2>1 DEF ViewInv, TableInv, Count, Stored, Leads
    <3>2. ObjectsInv'
      BY <2>1 DEF ViewInv, ObjectsInv, Leads
    <3>3. DistinctInv'
      BY <2>1 DEF ViewInv, DistinctInv, FrameOf
    <3> QED
      BY <3>1, <3>2, <3>3
  <2>3. TlbInv'
    BY <1>t, <2>1 DEF TlbInv
  <2> QED
    BY <2>2, <2>3 DEF ViewInv
<1>5. CASE TlbFlush
  <2>1. /\ UNCHANGED <<memVars, ins, callVars, tableVars>>
        /\ DOMAIN tlb' = {} /\ ~flushing'
    BY <1>5 DEF TlbFlush, Empty
  <2>2. TableInv' /\ ObjectsInv' /\ DistinctInv'
    BY <2>1 DEF ViewInv, TableInv, ObjectsInv, DistinctInv, Count, Stored, Leads, FrameOf
  <2>3. TlbInv'
    BY <2>1 DEF TlbInv
  <2> QED
    BY <2>2, <2>3 DEF ViewInv
<1> QED
  BY <1>1, <1>2, <1>3, <1>4, <1>5

\* A new insertion has written nothing.
LEMMA ViewInsert ==
  ASSUME WalkInv, ViewInv, Insert
  PROVE  ViewInv'
<1> USE DEF memVars, objVars, tableVars, deviceVars
<1>1. /\ ins = "idle" /\ ins' = "pte" /\ mm = "ready"
      /\ UNCHANGED <<memVars, gttEntry, objects, tableVars, deviceVars>>
      /\ Count = 0 /\ Count' = 0
  BY DEF Insert, Count
<1>2. TableInv'
  <2>1. \A p \in 1 .. 0 : FALSE
    OBVIOUS
  <2> QED
    BY <1>1, <2>1 DEF ViewInv, TableInv
<1>3. TlbInv' /\ ObjectsInv' /\ DistinctInv'
  BY <1>1 DEF ViewInv, TlbInv, ObjectsInv, DistinctInv, Leads, FrameOf
<1> QED
  BY <1>2, <1>3 DEF ViewInv

\* A store that faults stores nothing.
LEMMA ViewWriteBeyond ==
  ASSUME WalkInv, ViewInv, WriteBeyond
  PROVE  ViewInv'
<1>1. /\ ins = "pte" /\ ins' = "oops"
      /\ UNCHANGED <<memVars, callVars, tableVars, deviceVars>>
  BY DEF WriteBeyond
<1> USE DEF memVars, objVars, callVars, tableVars, deviceVars
<1>2. TableInv'
  BY <1>1 DEF ViewInv, TableInv, Count, Stored, Leads
<1>3. TlbInv' /\ ObjectsInv' /\ DistinctInv'
  BY <1>1 DEF ViewInv, TlbInv, ObjectsInv, DistinctInv, Leads, FrameOf
<1> QED
  BY <1>2, <1>3 DEF ViewInv

\* The PTE of the next page goes to the next entry, and leads there if the
\* entry has the bits for the address.
LEMMA ViewWritePte ==
  ASSUME Fits, WalkInv, ViewInv, WritePte
  PROVE  ViewInv'
<1> USE DEF memVars, objVars, deviceVars
<1> DEFINE entry == gttEntry + i
           pte == Encode(dma[it.k] + it.off)
<1>1. /\ ins = "pte" /\ ins' = ins /\ it.k <= Len(sg) /\ i' = i + 1
      /\ wc' = [e \in DOMAIN wc \cup {entry} |-> IF e = entry THEN pte ELSE wc[e]]
      /\ UNCHANGED <<memVars, gttEntry, objects, gsm, deviceVars>>
  BY DEF WritePte
<1>2. /\ i < num /\ dma[it.k] + it.off \in DOMAIN iommu
      /\ iommu[dma[it.k] + it.off] = pages[i + 1] /\ mm = "ready"
  BY <1>1, PageUnderIterator
<1>n. /\ gttEntry \in Nat /\ i \in Nat /\ num \in Nat /\ Entries \in Nat
      /\ Count = i /\ Count' = i + 1
  BY <1>1, WalkNumbers DEF Count
<1>3. entry \in Table /\ entry \in Nat
  <2>1. gttEntry + i < Entries
    BY DEF WritePte
  <2> QED
    BY <1>n, <2>1 DEF Table
<1>4. Leads(pte, pages[i + 1])
  <2> DEFINE b == dma[it.k] + it.off
  <2>1. b \in BusFrames /\ b \in Nat /\ b < Low * High
    BY <1>2, MemmgrAssumption DEF Fits, WalkInv, MemInv, MemTypes
  <2> HIDE DEF b
  <2>2. Encode(b) \in Ptes /\ Decode(Encode(b)) = b
    BY <2>1, EncodeIsPte, DecodeEncode
  <2> QED
    BY <1>2, <2>2 DEF Leads, b
<1>5. /\ DOMAIN wc \subseteq gttEntry .. gttEntry + i - 1
      /\ \A e \in DOMAIN wc : gsm[e] = Junk
      /\ \A e \in Table : e >= gttEntry + i => gsm[e] = Junk
      /\ \A p \in 1 .. i : Leads(Stored(gttEntry + p - 1), pages[p])
  BY <1>n DEF ViewInv, TableInv
<1> HIDE DEF pte
<1>6. TableInv'
  <2>1. DOMAIN wc' = DOMAIN wc \cup {entry}
    BY <1>1
  <2>2. DOMAIN wc' \subseteq gttEntry .. gttEntry + (i + 1) - 1
    BY <1>n, <1>5, <2>1
  <2>3. \A e \in DOMAIN wc' : gsm[e] = Junk
    BY <1>3, <1>5, <1>n, <2>1
  <2>4. \A e \in Table : e >= gttEntry + (i + 1) => gsm[e] = Junk
    <3> SUFFICES ASSUME NEW e \in Table, e >= gttEntry + (i + 1) PROVE gsm[e] = Junk
      OBVIOUS
    <3>1. e >= gttEntry + i
      BY <1>n DEF Table
    <3> QED
      BY <1>5, <3>1
  <2>5. ASSUME NEW p \in 1 .. i + 1
        PROVE  Leads(Stored(gttEntry + p - 1), pages[p])'
    <3> DEFINE S(e) == IF e \in DOMAIN wc' THEN wc'[e] ELSE gsm'[e]
    <3>1. Leads(S(gttEntry + p - 1), pages[p])
      <4>1. CASE p = i + 1
        <5>1. gttEntry + p - 1 = entry
          BY <1>n, <4>1
        <5>2. S(entry) = pte
          BY <1>1
        <5> QED
          BY <1>4, <4>1, <5>1, <5>2
      <4>2. CASE p \in 1 .. i
        <5> DEFINE e == gttEntry + p - 1
        <5>1. e # entry
          BY <1>n, <4>2
        <5>2. Leads(Stored(e), pages[p])
          BY <1>5, <4>2
        <5> HIDE DEF e
        <5>3. S(e) = Stored(e)
          BY <1>1, <5>1 DEF Stored
        <5> QED
          BY <5>2, <5>3 DEF e
      <4> QED
        BY <1>n, <4>1, <4>2
    <3>2. gttEntry' = gttEntry /\ iommu' = iommu /\ pages' = pages
      BY <1>1
    <3> QED
      BY <3>1, <3>2 DEF Leads, Stored
  <2> QED
    BY <1>1, <1>n, <2>2, <2>3, <2>4, <2>5 DEF TableInv
<1>7. TlbInv' /\ ObjectsInv' /\ DistinctInv'
  BY <1>1 DEF ViewInv, TlbInv, ObjectsInv, DistinctInv, Leads, FrameOf
<1> QED
  BY <1>6, <1>7 DEF ViewInv

\* The caller is given entries that lead to its pages in the table and, the
\* flush behind it, in the TLB.
LEMMA ViewPost ==
  ASSUME WalkInv, ViewInv, Post
  PROVE  ViewInv'
<1>1. /\ ins = "post" /\ ins' = "idle" /\ ~flushing /\ ~flushing' /\ mm' = "idle"
      /\ gttEntry' = gttEntry + i
      /\ objects' = Append(objects, [gfx |-> gttEntry, pages |-> pages])
      /\ UNCHANGED <<pages, iommu, gsm, wc, tlb>>
  BY DEF Post, objVars, tableVars, deviceVars
<1>2. mm = "ready" /\ i = num /\ gttEntry + i <= Entries /\ Len(pages) = num
  BY <1>1 DEF WalkInv, PhaseInv, MemInv, ReadyInv
<1>n. /\ gttEntry \in Nat /\ i \in Nat /\ num \in Nat /\ Entries \in Nat
      /\ Count = i /\ Count' = 0
  BY <1>1, WalkNumbers DEF Count
<1>3. /\ DOMAIN wc = {}
      /\ \A e \in Table : e >= gttEntry + i => gsm[e] = Junk
      /\ \A p \in 1 .. i : Leads(gsm[gttEntry + p - 1], pages[p])
  <2>1. DOMAIN wc = {}
    BY <1>1 DEF ViewInv, TableInv
  <2>2. /\ \A e \in Table : e >= gttEntry + i => gsm[e] = Junk
        /\ \A p \in 1 .. i : Leads(Stored(gttEntry + p - 1), pages[p])
    BY <1>n DEF ViewInv, TableInv
  <2> QED
    BY <2>1, <2>2 DEF Stored
<1>4. TableInv'
  <2>1. \A e \in Table : e >= gttEntry' + 0 => gsm[e] = Junk
    <3>1. gttEntry' + 0 = gttEntry + i
      BY <1>1, <1>n
    <3> QED
      BY <1>3, <3>1
  <2>2. \A p \in 1 .. 0 : FALSE
    OBVIOUS
  <2> QED
    BY <1>1, <1>n, <1>3, <2>1, <2>2 DEF TableInv
<1>5. TlbInv'
  BY <1>1 DEF ViewInv, TlbInv
<1>6. /\ objects \in Seq(Object) /\ Len(objects) \in Nat /\ Len(objects') = Len(objects) + 1
      /\ objects'[Len(objects) + 1].gfx = gttEntry
      /\ objects'[Len(objects) + 1].pages = pages
      /\ \A o \in 1 .. Len(objects) : objects'[o] = objects[o]
  <2>1. objects \in Seq(Object)
    BY DEF WalkInv, GttTypes
  <2> DEFINE new == [gfx |-> gttEntry, pages |-> pages]
  <2>2. new.gfx = gttEntry /\ new.pages = pages
    OBVIOUS
  <2>3. objects' = Append(objects, new)
    BY <1>1
  <2> HIDE DEF new
  <2>4. /\ Len(objects') = Len(objects) + 1 /\ objects'[Len(objects) + 1] = new
        /\ \A o \in 1 .. Len(objects) : objects'[o] = objects[o]
    BY <2>1, <2>3
  <2> QED
    BY <2>1, <2>2, <2>4
<1> DEFINE n == Len(objects) + 1
<1>7. \A o \in 1 .. n : o \in 1 .. Len(objects) \/ o = n
  BY <1>6
<1>8. ASSUME NEW o \in 1 .. Len(objects)
      PROVE  /\ objects[o].gfx \in Nat /\ Len(objects[o].pages) \in Nat
             /\ objects[o].gfx + Len(objects[o].pages) <= gttEntry
             /\ \A j \in 1 .. Len(objects[o].pages) :
                  Leads(gsm[objects[o].gfx + j - 1], objects[o].pages[j])
  <2>1. objects[o] \in Object
    BY <1>6
  <2> QED
    BY <2>1 DEF Object, ViewInv, ObjectsInv
<1>9. ObjectsInv'
  <2>1. ASSUME NEW o \in 1 .. n
        PROVE  /\ objects'[o].gfx + Len(objects'[o].pages) <= gttEntry'
               /\ \A j \in 1 .. Len(objects'[o].pages) :
                    Leads(gsm[objects'[o].gfx + j - 1], objects'[o].pages[j])
    <3>1. CASE o = n
      <4>1. objects'[o].gfx = gttEntry /\ objects'[o].pages = pages
        BY <1>6, <3>1
      <4> QED
        BY <1>1, <1>2, <1>3, <1>n, <4>1
    <3>2. CASE o \in 1 .. Len(objects)
      <4>1. objects'[o] = objects[o]
        BY <1>6, <3>2
      <4>2. objects[o].gfx + Len(objects[o].pages) <= gttEntry'
        BY <1>1, <1>8, <1>n, <3>2
      <4> QED
        BY <1>8, <3>2, <4>1, <4>2
    <3> QED
      BY <1>7, <3>1, <3>2
  <2>2. ASSUME NEW e \in Table, e < gttEntry'
        PROVE  \E o \in 1 .. n : e - objects'[o].gfx + 1 \in 1 .. Len(objects'[o].pages)
    <3>1. CASE e < gttEntry
      <4>1. PICK o \in 1 .. Len(objects) :
              e - objects[o].gfx + 1 \in 1 .. Len(objects[o].pages)
        BY <3>1 DEF ViewInv, ObjectsInv
      <4>2. o \in 1 .. n /\ objects'[o] = objects[o]
        BY <1>6, <4>1
      <4> QED
        BY <4>1, <4>2
    <3>2. CASE ~(e < gttEntry)
      <4>1. e - gttEntry + 1 \in 1 .. num
        BY <1>1, <1>2, <1>n, <2>2, <3>2 DEF Table
      <4>2. n \in 1 .. n /\ objects'[n].gfx = gttEntry /\ Len(objects'[n].pages) = num
        BY <1>2, <1>6
      <4> QED
        BY <4>1, <4>2
    <3> QED
      BY <3>1, <3>2
  <2> QED
    BY <1>1, <1>6, <2>1, <2>2 DEF ObjectsInv, Leads
<1>10. ASSUME NEW e \in 0 .. gttEntry' - 1
       PROVE  \/ e \in 0 .. gttEntry - 1 /\ \A p \in 1 .. num : FrameOf(e) # pages[p]
              \/ e - gttEntry + 1 \in 1 .. num /\ FrameOf(e) = pages[e - gttEntry + 1]
  <2>1. CASE e < gttEntry
    <3>1. e \in 0 .. gttEntry - 1
      BY <1>n, <1>1, <2>1
    <3> QED
      BY <1>2, <3>1 DEF ViewInv, DistinctInv
  <2>2. CASE ~(e < gttEntry)
    <3> DEFINE p == e - gttEntry + 1
    <3>1. p \in 1 .. num /\ gttEntry + p - 1 = e
      BY <1>1, <1>2, <1>n, <2>2
    <3>2. Leads(gsm[gttEntry + p - 1], pages[p])
      BY <1>2, <1>3, <3>1
    <3> HIDE DEF p
    <3>3. FrameOf(e) = pages[p]
      BY <3>1, <3>2 DEF Leads, FrameOf
    <3> QED
      BY <3>1, <3>3 DEF p
  <2> QED
    BY <2>1, <2>2
<1>11. ASSUME NEW d \in 0 .. gttEntry' - 1, NEW e \in 0 .. gttEntry' - 1,
              FrameOf(d) = FrameOf(e)
       PROVE  d = e
  <2>1. CASE d \in 0 .. gttEntry - 1 /\ e \in 0 .. gttEntry - 1
    BY <1>11, <2>1 DEF ViewInv, DistinctInv
  <2>2. CASE /\ d - gttEntry + 1 \in 1 .. num /\ FrameOf(d) = pages[d - gttEntry + 1]
             /\ e - gttEntry + 1 \in 1 .. num /\ FrameOf(e) = pages[e - gttEntry + 1]
    <3>1. \A p, q \in 1 .. num : pages[p] = pages[q] => p = q
      BY <1>2 DEF WalkInv, MemInv, UsedInv
    <3>2. d - gttEntry + 1 = e - gttEntry + 1
      BY <1>11, <2>2, <3>1
    <3> QED
      BY <1>1, <1>n, <3>2
  <2> QED
    BY <1>10, <1>11, <2>1, <2>2
<1>12. DistinctInv'
  <2>1. \A e : FrameOf(e)' = FrameOf(e)
    BY <1>1 DEF FrameOf
  <2> QED
    BY <1>1, <1>11, <2>1 DEF DistinctInv
<1> QED
  BY <1>4, <1>5, <1>9, <1>12 DEF ViewInv

\* Both invariants together are inductive when the bus addresses fit.
LEMMA GttStep ==
  ASSUME Fits
  PROVE  WalkInv /\ ViewInv /\ [Next]_vars => WalkInv' /\ ViewInv'
<1> SUFFICES ASSUME WalkInv, ViewInv, [Next]_vars PROVE WalkInv' /\ ViewInv'
  OBVIOUS
<1>1. CASE UNCHANGED vars
  <2>1. ViewInv'
    BY <1>1 DEF vars, memVars, objVars, gttVars, callVars, tableVars, deviceVars,
       ViewInv, TableInv, TlbInv, ObjectsInv, DistinctInv, Count, Stored, Leads, FrameOf
  <2> QED
    BY <2>1, WalkStep
<1>2. CASE Next
  BY <1>2, WalkStep, ViewMemory, ViewInsert, ViewWritePte, ViewWriteBeyond,
      ViewPost, ViewDevice DEF Next
<1> QED
  BY <1>1, <1>2

\* So they always hold.
LEMMA GttInvariance ==
  ASSUME Fits
  PROVE  Spec => [](WalkInv /\ ViewInv)
<1>1. Init => WalkInv /\ ViewInv
  BY GttInitWalk, GttInitView
<1>2. WalkInv /\ ViewInv /\ [Next]_vars => (WalkInv /\ ViewInv)'
  BY GttStep
<1> QED
  BY <1>1, <1>2, PTL DEF Spec
-----------------------------------------------------------------------------
\* Below gttEntry the device sees what the table says.
LEMMA ReachedBelow ==
  ASSUME WalkInv, ViewInv, NEW e \in 0 .. gttEntry - 1
  PROVE  Reached(e) = FrameOf(e) /\ FrameOf(e) \in Frames
<1>1. /\ gsm[e] \in Ptes /\ gsm[e] # Junk /\ Decode(gsm[e]) \in DOMAIN iommu
      /\ e < gttEntry
  BY EntryLeads, JunkAssumption, WalkNumbers
<1>2. Seen(e) = gsm[e]
  BY <1>1 DEF Seen, ViewInv, TlbInv
<1>3. iommu[Decode(gsm[e])] \in Frames
  BY <1>1 DEF WalkInv, MemInv, MemTypes
<1> QED
  BY <1>1, <1>2, <1>3 DEF Reached, FrameOf

\* A device that uses a graphics address its caller was given reaches the
\* caller's page.
LEMMA ViewMapped ==
  ASSUME WalkInv, ViewInv
  PROVE  ObjectMapped
<1> SUFFICES ASSUME NEW o \in Range(objects), NEW j \in 1 .. Entries,
                    j \in DOMAIN o.pages
             PROVE  Reached(o.gfx + j - 1) = o.pages[j]
  BY DEF ObjectMapped
<1>1. objects \in Seq(Object)
  BY DEF WalkInv, GttTypes
<1>2. PICK x \in 1 .. Len(objects) : o = objects[x]
  BY <1>1 DEF Range
<1>3. o \in Object
  BY <1>1, <1>2
<1>4. o.gfx \in Nat /\ Len(o.pages) \in Nat /\ j \in 1 .. Len(o.pages)
  BY <1>3 DEF Object
<1>5. o.gfx + Len(o.pages) <= gttEntry /\ Leads(gsm[o.gfx + j - 1], o.pages[j])
  <2>1. j \in 1 .. Len(objects[x].pages)
    BY <1>2, <1>4
  <2>2. /\ objects[x].gfx + Len(objects[x].pages) <= gttEntry
        /\ Leads(gsm[objects[x].gfx + j - 1], objects[x].pages[j])
    BY <1>2, <2>1 DEF ViewInv, ObjectsInv
  <2> QED
    BY <1>2, <2>2
<1>6. o.gfx + j - 1 \in 0 .. gttEntry - 1
  <2>1. gttEntry \in Nat
    BY WalkNumbers
  <2>2. o.gfx + Len(o.pages) <= gttEntry
    BY <1>5
  <2> QED
    BY <1>4, <2>1, <2>2
<1> QED
  BY <1>5, <1>6, ReachedBelow DEF Leads, FrameOf

\* The device reaches nothing but objects handed out or being inserted.
LEMMA ViewOnlyObjects ==
  ASSUME WalkInv, ViewInv
  PROVE  OnlyObjectsReachable
<1> SUFFICES ASSUME NEW e \in Table, Reached(e) # Junk
             PROVE  \/ \E o \in Range(objects) :
                         /\ e - o.gfx + 1 \in DOMAIN o.pages
                         /\ Reached(e) = o.pages[e - o.gfx + 1]
                    \/ /\ ins # "idle"
                       /\ e - gttEntry + 1 \in DOMAIN pages
                       /\ Reached(e) = pages[e - gttEntry + 1]
  BY DEF OnlyObjectsReachable
<1>n. /\ gttEntry \in Nat /\ i \in Nat /\ num \in Nat /\ Entries \in Nat
      /\ e \in Nat
  BY WalkNumbers DEF Table
<1>1. /\ Seen(e) # Junk /\ Seen(e) = gsm[e] /\ gsm[e] # Junk
      /\ Reached(e) = iommu[Decode(gsm[e])]
  <2>1. Seen(e) # Junk /\ Reached(e) = iommu[Decode(Seen(e))]
    BY DEF Reached
  <2>2. Seen(e) = gsm[e] \/ Seen(e) = Junk
    BY DEF Seen, ViewInv, TlbInv
  <2> QED
    BY <2>1, <2>2
<1>2. CASE e < gttEntry
  <2>1. PICK x \in 1 .. Len(objects) :
          e - objects[x].gfx + 1 \in 1 .. Len(objects[x].pages)
    BY <1>2 DEF ViewInv, ObjectsInv
  <2>2. objects \in Seq(Object)
    BY DEF WalkInv, GttTypes
  <2>3. objects[x] \in Object /\ objects[x] \in Range(objects)
    BY <2>1, <2>2 DEF Range
  <2>4. objects[x].gfx \in Nat /\ DOMAIN objects[x].pages = 1 .. Len(objects[x].pages)
    BY <2>3 DEF Object
  <2> DEFINE j == e - objects[x].gfx + 1
  <2>5. objects[x].gfx + j - 1 = e
    BY <1>n, <2>4
  <2> HIDE DEF j
  <2>6. Leads(gsm[objects[x].gfx + j - 1], objects[x].pages[j])
    BY <2>1 DEF ViewInv, ObjectsInv, j
  <2>7. Reached(e) = objects[x].pages[j]
    BY <1>1, <2>5, <2>6 DEF Leads
  <2> QED
    BY <2>1, <2>3, <2>4, <2>7 DEF j
<1>3. CASE ~(e < gttEntry)
  <2>1. ~(e >= gttEntry + Count)
    BY <1>1 DEF ViewInv, TableInv
  <2>2. ins # "idle" /\ Count = i
    <3>1. ASSUME ins = "idle" PROVE FALSE
      BY <1>3, <1>n, <2>1, <3>1 DEF Count
    <3> QED
      BY <3>1 DEF Count
  <2>3. mm = "ready" /\ i <= num /\ Len(pages) = num /\ pages \in Seq(Frames)
    BY <2>2 DEF WalkInv, PhaseInv, MemInv, MemTypes, ReadyInv
  <2> DEFINE p == e - gttEntry + 1
  <2>4. p \in 1 .. i /\ p \in 1 .. num /\ gttEntry + p - 1 = e
    BY <1>3, <1>n, <2>1, <2>2, <2>3
  <2> HIDE DEF p
  <2>5. Leads(Stored(gttEntry + p - 1), pages[p])
    BY <2>2, <2>4 DEF ViewInv, TableInv
  <2>6. e \notin DOMAIN wc
    BY <1>1 DEF ViewInv, TableInv
  <2>7. Reached(e) = pages[p]
    BY <1>1, <2>4, <2>5, <2>6 DEF Leads, Stored
  <2>8. p \in DOMAIN pages
    BY <2>3, <2>4
  <2> QED
    BY <2>2, <2>7, <2>8 DEF p
<1> QED
  BY <1>2, <1>3

\* Every page of every object a caller was given is where the device looks for
\* it, through scatter list, DMA mapping, write-combining buffer and TLB.
THEOREM GttObjectMapped ==
  ASSUME Fits
  PROVE  Spec => []ObjectMapped
BY GttInvariance, ViewMapped, PTL

\* No failed allocation, overlap or store on its way opens other memory.
THEOREM GttOnlyObjectsReachable ==
  ASSUME Fits
  PROVE  Spec => []OnlyObjectsReachable
BY GttInvariance, ViewOnlyObjects, PTL
-----------------------------------------------------------------------------
(* The refinement: insertion page by page, through a write-combining buffer  *)
(* and a TLB, is atomic insertion into a growing row of pages.               *)

\* No step changes what the device sees below gttEntry, and only the return of
\* nugpgpu_gtt_insert moves gttEntry.
LEMMA BelowKept ==
  ASSUME WalkInv, ViewInv, Next
  PROVE  /\ \A e \in 0 .. gttEntry - 1 : FrameOf(e)' = FrameOf(e)
         /\ gttEntry' = gttEntry \/ Post
<1>1. ASSUME NEW stores \in SUBSET DOMAIN wc, Land(stores),
             UNCHANGED <<memVars, callVars>>, ins = "idle" <=> ins' = "idle"
      PROVE  \A e \in 0 .. gttEntry - 1 : gsm'[e] = gsm[e]
  <2>1. \A e \in Table : gsm[e] # Junk => gsm'[e] = gsm[e]
    BY <1>1, LandView
  <2>2. \A e \in 0 .. gttEntry - 1 : e \in Table /\ gsm[e] # Junk
    BY EntryLeads, JunkAssumption
  <2> QED
    BY <2>1, <2>2
<1>2. ASSUME gsm' = gsm \/ (\A e \in 0 .. gttEntry - 1 : gsm'[e] = gsm[e]),
             \A b \in DOMAIN iommu : b \in DOMAIN iommu' /\ iommu'[b] = iommu[b]
      PROVE  \A e \in 0 .. gttEntry - 1 : FrameOf(e)' = FrameOf(e)
  BY <1>2, EntryLeads DEF FrameOf
<1> USE DEF memVars, objVars, callVars, tableVars, deviceVars
<1>3. CASE (\E n \in Sizes : AllocateObject(n)) \/ FillObject
  <2>1. gsm' = gsm /\ gttEntry' = gttEntry
    BY <1>3, WalkMemory DEF gttVars
  <2> QED
    BY <1>2, <1>3, <2>1, IommuGrows
<1>4. CASE \/ Insert \/ WritePte \/ WriteBeyond
           \/ (\E e \in Table : TlbFill(e)) \/ TlbFlush
  <2>1. gsm' = gsm /\ iommu' = iommu /\ gttEntry' = gttEntry
    BY <1>4 DEF Insert, WritePte, WriteBeyond, TlbFill, TlbFlush
  <2> QED
    BY <1>2, <2>1
<1>5. CASE Post
  <2>1. gsm' = gsm /\ iommu' = iommu
    BY <1>5 DEF Post
  <2> QED
    BY <1>2, <1>5, <2>1
<1>6. CASE Verify
  <2>1. /\ ins = "pte" /\ ins' = "flush" /\ Land({gttEntry + i - 1} \cap DOMAIN wc)
        /\ UNCHANGED <<memVars, callVars>>
    BY <1>6 DEF Verify
  <2> QED
    BY <1>1, <1>2, <2>1
<1>7. CASE Flush
  <2>1. /\ ins = "flush" /\ ins' = "post" /\ Land(DOMAIN wc)
        /\ UNCHANGED <<memVars, callVars>>
    BY <1>7 DEF Flush
  <2> QED
    BY <1>1, <1>2, <2>1
<1>8. ASSUME NEW e \in Table, Drain(e)
      PROVE  /\ \A a \in 0 .. gttEntry - 1 : FrameOf(a)' = FrameOf(a)
             /\ gttEntry' = gttEntry
  <2>1. e \in DOMAIN wc /\ ins' = ins /\ Land({e}) /\ UNCHANGED <<memVars, callVars>>
    BY <1>8 DEF Drain
  <2> QED
    BY <1>1, <1>2, <2>1
<1> QED
  BY <1>3, <1>4, <1>5, <1>6, <1>7, <1>8 DEF Next

\* The device's view of the addresses below gttEntry is what the table says.
SpaceOfTable ==
  /\ Space = [a \in 1 .. gttEntry |-> FrameOf(a - 1)]
  /\ Space \in Seq(Frames) /\ Len(Space) = gttEntry

\* The invariants make it so.
LEMMA SpaceIsTable == WalkInv /\ ViewInv => SpaceOfTable
<1> SUFFICES ASSUME WalkInv, ViewInv PROVE SpaceOfTable
  OBVIOUS
<1>1. gttEntry \in Nat
  BY WalkNumbers
<1>2. ASSUME NEW a \in 1 .. gttEntry
      PROVE  Reached(a - 1) = FrameOf(a - 1) /\ FrameOf(a - 1) \in Frames
  <2>1. a - 1 \in 0 .. gttEntry - 1
    BY <1>1
  <2> QED
    BY <2>1, ReachedBelow
<1>3. Space = [a \in 1 .. gttEntry |-> FrameOf(a - 1)]
  BY <1>2 DEF Space
<1>4. Space \in [1 .. gttEntry -> Frames]
  BY <1>2, <1>3
<1> QED
  BY <1>1, <1>3, <1>4 DEF SpaceOfTable

\* It stays so in the next state.
LEMMA SpaceStaysTable == WalkInv' /\ ViewInv' => SpaceOfTable'
<1>1. (WalkInv /\ ViewInv => SpaceOfTable)'
  BY SpaceIsTable, PTL
<1> QED
  BY <1>1

\* The return of nugpgpu_gtt_insert is the insertion.
LEMMA PostInserts ==
  ASSUME WalkInv, ViewInv, WalkInv', ViewInv', Post
  PROVE  Abs!Insert
<1> DEFINE old == [a \in 1 .. gttEntry |-> FrameOf(a - 1)]
           new == [a \in 1 .. gttEntry' |-> FrameOf(a - 1)']
<1>1. /\ gttEntry \in Nat /\ gttEntry' \in Nat /\ gttEntry < gttEntry'
  <2>1. gttEntry' = gttEntry + i /\ i = num /\ num \in Sizes
    BY DEF Post, WalkInv, PhaseInv
  <2>2. gttEntry \in Nat /\ num \in Nat \ {0}
    BY <2>1, WalkNumbers, MemmgrAssumption
  <2> QED
    BY <2>1, <2>2
<1>2. Space = old /\ Space \in Seq(Frames) /\ Len(Space) = gttEntry
  BY SpaceIsTable DEF SpaceOfTable
<1>3. Space' = new /\ Space' \in Seq(Frames) /\ Len(Space') = gttEntry'
  BY SpaceStaysTable DEF SpaceOfTable
<1>4. \A a \in 1 .. gttEntry : old[a] = new[a]
  <2> SUFFICES ASSUME NEW a \in 1 .. gttEntry PROVE FrameOf(a - 1) = FrameOf(a - 1)'
    BY <1>1
  <2>1. a - 1 \in 0 .. gttEntry - 1
    BY <1>1
  <2>2. Next
    BY DEF Next
  <2>3. \A e \in 0 .. gttEntry - 1 : FrameOf(e)' = FrameOf(e)
    BY <2>2, BelowKept
  <2> QED
    BY <2>1, <2>3
<1>5. Abs!IsInjective(Space')
  <2>1. \A d, e \in 0 .. gttEntry' - 1 : FrameOf(d)' = FrameOf(e)' => d = e
    BY DEF ViewInv, DistinctInv
  <2>0. \A c \in 1 .. gttEntry' : c - 1 \in 0 .. gttEntry' - 1
    <3>1. \A n \in Nat : \A c \in 1 .. n : c - 1 \in 0 .. n - 1
      OBVIOUS
    <3> QED
      BY <1>1, <3>1
  <2>2. ASSUME NEW a \in 1 .. gttEntry', NEW b \in 1 .. gttEntry', new[a] = new[b]
        PROVE  a = b
    <3>1. a - 1 \in 0 .. gttEntry' - 1 /\ b - 1 \in 0 .. gttEntry' - 1
      BY <2>0
    <3>2. FrameOf(a - 1)' = FrameOf(b - 1)'
      BY <2>2
    <3>3. a - 1 = b - 1
      BY <2>1, <3>1, <3>2
    <3> QED
      BY <1>1, <3>3
  <2>3. DOMAIN new = 1 .. gttEntry'
    OBVIOUS
  <2> HIDE DEF new
  <2> QED
    BY <1>3, <2>2, <2>3 DEF Abs!IsInjective
<1>6. Abs!IsStrictPrefix(Space, Space')
  <2> HIDE DEF old, new
  <2>1. SubSeq(Space, 1, Len(Space)) = Space
    BY <1>2
  <2>2. /\ SubSeq(Space', 1, gttEntry) \in Seq(Frames)
        /\ Len(SubSeq(Space', 1, gttEntry)) = gttEntry
        /\ \A a \in 1 .. gttEntry : SubSeq(Space', 1, gttEntry)[a] = Space'[a]
    BY <1>1, <1>3
  <2>3. SubSeq(Space', 1, gttEntry) = Space
    BY <1>2, <1>3, <1>4, <2>2, SeqEqual
  <2>4. Len(Space) <= Len(Space') /\ Space # Space'
    BY <1>1, <1>2, <1>3
  <2> QED
    BY <1>2, <2>1, <2>3, <2>4 DEF Abs!IsStrictPrefix, Abs!IsPrefix
<1> QED
  BY <1>3, <1>5, <1>6 DEF Abs!Insert

\* Every step is an insertion of the abstract address space or leaves it alone.
LEMMA SpaceStep ==
  ASSUME Fits
  PROVE  WalkInv /\ ViewInv /\ [Next]_vars => [Abs!Insert]_Space
<1> SUFFICES ASSUME WalkInv, ViewInv, [Next]_vars PROVE [Abs!Insert]_Space
  OBVIOUS
<1>1. WalkInv' /\ ViewInv'
  BY GttStep
<1>2. CASE Post
  BY <1>1, <1>2, PostInserts
<1>3. CASE ~Post
  <2>1. /\ \A e \in 0 .. gttEntry - 1 : FrameOf(e)' = FrameOf(e)
        /\ gttEntry' = gttEntry
    <3>1. CASE UNCHANGED vars
      BY <3>1 DEF vars, memVars, objVars, gttVars, callVars, tableVars, FrameOf
    <3>2. CASE Next
      BY <1>3, <3>2, BelowKept
    <3> QED
      BY <3>1, <3>2
  <2>2. gttEntry \in Nat
    BY WalkNumbers
  <2> DEFINE old == [a \in 1 .. gttEntry |-> FrameOf(a - 1)]
             new == [a \in 1 .. gttEntry' |-> FrameOf(a - 1)']
  <2>3. Space = old /\ Space' = new
    BY <1>1, SpaceIsTable, SpaceStaysTable DEF SpaceOfTable
  <2>4. \A a \in 1 .. gttEntry : FrameOf(a - 1) = FrameOf(a - 1)'
    <3>1. \A a \in 1 .. gttEntry : a - 1 \in 0 .. gttEntry - 1
      BY <2>2
    <3> QED
      BY <2>1, <3>1
  <2>5. old = new
    BY <2>1, <2>4
  <2> QED
    BY <2>3, <2>5
<1> QED
  BY <1>2, <1>3

\* To the device, page by page insertion is one atomic insertion that moves and
\* replaces nothing.
THEOREM GttRefinement ==
  ASSUME Fits
  PROVE  Spec => ImplementsAddressSpace
<1>1. Init => Abs!Init
  <2> SUFFICES ASSUME Init PROVE Space = <<>>
    BY DEF Abs!Init
  <2>1. gttEntry = 0
    BY DEF Init
  <2>2. Space \in Seq(Frames) /\ Len(Space) = 0
    BY <2>1, GttInitWalk, GttInitView, SpaceIsTable DEF SpaceOfTable
  <2> QED
    BY <2>2
<1>2. WalkInv /\ ViewInv /\ [Next]_vars => [Abs!Insert]_Space
  BY SpaceStep
<1> QED
  BY <1>1, <1>2, GttInvariance, PTL DEF Spec, ImplementsAddressSpace, Abs!Spec
=============================================================================
