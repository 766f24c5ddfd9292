-------------------------------- MODULE Gtt --------------------------------
(***************************************************************************)
(* The graphics translation table: nugpgpu_gtt_insert of nugpgpu_gtt.c.    *)
(*                                                                         *)
(* The table is memory behind a write-combining mapping: a store to it may *)
(* sit in the processor's buffer, and stores may reach the table in any    *)
(* order, until an uncached access pushes them out.  The device translates *)
(* through a TLB that it fills from the table whenever it likes, also from *)
(* entries nobody has written, and empties when the driver asks it to.     *)
(* The register accesses of this file are atomic here; RegRW is about them.*)
(* The module starts behind a nugpgpu_gtt_init that succeeded (GttProbe).  *)
(***************************************************************************)
EXTENDS Memmgr

CONSTANTS
  Entries,      \* number of entries of the table
  Dma32Frames,  \* frames of the zone the scratch page is taken from
  Junk          \* what the firmware left in an entry

ASSUME GttAssumption == Entries \in Nat /\ Dma32Frames \subseteq Frames

VARIABLES
  scratch,   \* gtt.scratchpage.page
  ins,       \* where nugpgpu_gtt_insert is: "idle", "pte", "flush", "post",
             \* or "oops" after a store behind the mapping
  it,        \* the sg page iterator: entry and offset
  i,         \* PTEs written
  gttEntry,  \* the next free entry (static)
  gsm,       \* the table
  wc,        \* stores on their way to the table: entry -> PTE
  tlb,       \* the device's TLB: entry -> PTE
  flushing,  \* GFX_FLSH_CNTL_EN is set
  objects    \* what callers were given: first page and pages (history)

callVars == <<it, i, gttEntry, objects>>
tableVars == <<gsm, wc>>
deviceVars == <<tlb, flushing>>
gttVars == <<scratch, ins, callVars, tableVars, deviceVars>>
vars == <<memVars, gttVars>>

Table == 0 .. Entries - 1
Empty == [e \in {} |-> Junk]

\* The address fields of an entry: bits 31:12 and 38:32 of a bus address.
Low == 2^20
High == 2^7
Ptes == [lo : 0 .. Low - 1, hi : 0 .. High - 1]

\* What the firmware left leads nowhere the driver could know.
ASSUME JunkAssumption == Junk \notin Ptes

\* An encoding without the high field.
EncodeLow(bus) == [lo |-> bus % Low, hi |-> 0]

\* nugpgpu_pte_encode, with no room for more address bits.  The valid and
\* cacheability bits are the same for every caller.
Encode(bus) == [lo |-> bus % Low, hi |-> (bus \div Low) % High]

\* The bus page the device reads out of an entry.
Decode(pte) == pte.hi * Low + pte.lo

\* scratchpage_setup has taken one page and mapped it.  It has written no PTE,
\* and nothing has been inserted.
Init ==
  /\ NoObject
  /\ scratch \in Dma32Frames /\ used = {scratch}
  /\ \E b \in BusFrames : iommu = [a \in {b} |-> scratch]
  /\ ins = "idle" /\ it = [k |-> 1, off |-> 0] /\ i = 0
  /\ gttEntry = 0 /\ objects = <<>>
  /\ gsm = [e \in Table |-> Junk] /\ wc = Empty
  /\ tlb = Empty /\ flushing = FALSE

\* A caller allocates, whether or not the table has room for the object: a
\* probe takes 34 of the 512K entries, and nothing counts the probes.
AllocateObject(n) == ins = "idle" /\ Allocate(n) /\ UNCHANGED gttVars

FillObject == Fill /\ UNCHANGED gttVars

\* nugpgpu_gtt_insert: the loop starts at the object's first page.
Insert ==
  /\ mm = "ready" /\ ins = "idle"
  /\ ins' = "pte"
  /\ it' = [k |-> 1, off |-> 0]
  /\ i' = 0
  /\ UNCHANGED <<memVars, scratch, gttEntry, objects, tableVars, deviceVars>>

\* Iterators that take each list entry for one page, or run one page beyond
\* the end of each.
NextEntry == [k |-> it.k + 1, off |-> 0]
NextPageBeyond == IF it.off < sg[it.k].len
                    THEN [it EXCEPT !.off = @ + 1] ELSE NextEntry

\* for_each_sg_page
NextPage == IF it.off + 1 < sg[it.k].len
              THEN [it EXCEPT !.off = @ + 1] ELSE NextEntry

\* One PTE for the page under the iterator.
WritePte ==
  /\ ins = "pte" /\ it.k <= Len(sg) /\ gttEntry + i < Entries
  /\ LET entry == gttEntry + i
         pte == Encode(dma[it.k] + it.off)
     IN  wc' = [e \in DOMAIN wc \cup {entry} |-> IF e = entry THEN pte ELSE wc[e]]
  /\ i' = i + 1
  /\ it' = NextPage
  /\ UNCHANGED <<memVars, scratch, ins, gttEntry, objects, gsm, deviceVars>>

\* iowrite32 behind the end of the mapping faults; the caller ends there.
WriteBeyond ==
  /\ ins = "pte" /\ it.k <= Len(sg) /\ gttEntry + i >= Entries
  /\ ins' = "oops"
  /\ UNCHANGED <<memVars, scratch, callVars, tableVars, deviceVars>>

\* Some of the stores reach the table.
Land(stores) ==
  /\ gsm' = [e \in Table |-> IF e \in stores THEN wc[e] ELSE gsm[e]]
  /\ wc' = [e \in DOMAIN wc \ stores |-> wc[e]]

\* WARN_ON(readl(...)): reading the last entry back brings it to the table.
Verify ==
  /\ ins = "pte" /\ it.k > Len(sg)
  /\ ins' = "flush"
  /\ Land({gttEntry + i - 1} \cap DOMAIN wc)
  /\ UNCHANGED <<memVars, scratch, callVars, deviceVars>>

\* A write to the flush register that does not ask for a flush.
FlushNothing == FALSE
FlushEnable == TRUE

\* NUGPGPU_WRITE(GFX_FLSH_CNTL): an uncached store, behind all the PTEs.
Flush ==
  /\ ins = "flush"
  /\ ins' = "post"
  /\ Land(DOMAIN wc)
  /\ flushing' = FlushEnable
  /\ UNCHANGED <<memVars, scratch, callVars, tlb>>

\* NUGPGPU_READ(GFX_FLSH_CNTL) comes back when the device has acted on the
\* write; the entry counter moves on and the caller has its address.
Post ==
  /\ ins = "post" /\ ~flushing
  /\ ins' = "idle" /\ mm' = "idle"
  /\ gttEntry' = gttEntry + i
  /\ objects' = Append(objects, [gfx |-> gttEntry, pages |-> pages])
  /\ UNCHANGED <<objVars, used, iommu, scratch, it, i, tableVars, deviceVars>>
-----------------------------------------------------------------------------
(* The processor's write-combining buffer, and the device *)

Drain(e) ==
  /\ e \in DOMAIN wc
  /\ Land({e})
  /\ UNCHANGED <<memVars, scratch, ins, callVars, deviceVars>>

TlbFill(e) ==
  /\ e \notin DOMAIN tlb
  /\ tlb' = [a \in DOMAIN tlb \cup {e} |-> IF a = e THEN gsm[e] ELSE tlb[a]]
  /\ UNCHANGED <<memVars, scratch, ins, callVars, tableVars, flushing>>

TlbFlush ==
  /\ flushing
  /\ tlb' = Empty
  /\ flushing' = FALSE
  /\ UNCHANGED <<memVars, scratch, ins, callVars, tableVars>>

Next ==
  \/ \E n \in Sizes : AllocateObject(n)
  \/ FillObject
  \/ Insert \/ WritePte \/ WriteBeyond \/ Verify \/ Flush \/ Post
  \/ \E e \in Table : Drain(e) \/ TlbFill(e)
  \/ TlbFlush

Spec == Init /\ [][Next]_vars
-----------------------------------------------------------------------------
TypeOK ==
  /\ MemTypeOK
  /\ scratch \in Dma32Frames
  /\ ins \in {"idle", "pte", "flush", "post", "oops"}
  /\ it \in [k : Nat \ {0}, off : Nat]
  /\ ins = "pte" => it.k <= Len(sg) + 1
  /\ i \in 0 .. Entries
  /\ ins # "idle" => i <= num
  /\ gttEntry \in 0 .. Entries
  /\ gsm \in [Table -> Ptes \cup {Junk}]
  /\ DOMAIN wc \subseteq Table /\ \A e \in DOMAIN wc : wc[e] \in Ptes
  /\ DOMAIN tlb \subseteq Table
  /\ \A e \in DOMAIN tlb : tlb[e] \in Ptes \cup {Junk}
  /\ flushing \in BOOLEAN

\* The frame the device reaches at graphics page e, Junk if the entry leads
\* to none.
Seen(e) == IF e \in DOMAIN tlb THEN tlb[e] ELSE gsm[e]
Reached(e) ==
  IF Seen(e) # Junk /\ Decode(Seen(e)) \in DOMAIN iommu
    THEN iommu[Decode(Seen(e))] ELSE Junk

\* From the moment a caller has its graphics address, the device that uses it
\* reaches the caller's pages, in the order in which they were allocated: the
\* scatter list, the DMA mapping, the table and the TLB agree, whatever was
\* allocated, dropped or inserted before and after.
ObjectMapped ==
  \A o \in Range(objects), j \in 1 .. Entries :
    j \in DOMAIN o.pages => Reached(o.gfx + j - 1) = o.pages[j]

\* The driver opens no page to the device but those of objects it hands out
\* or is about to: an allocation that failed half-way leaves no trace in the
\* table, objects have no address in common, and the scratch page stays out.
OnlyObjectsReachable ==
  \A e \in Table :
    \/ Reached(e) = Junk
    \/ \E o \in Range(objects) : /\ e - o.gfx + 1 \in DOMAIN o.pages
                                 /\ Reached(e) = o.pages[e - o.gfx + 1]
    \/ /\ ins # "idle"
       /\ e - gttEntry + 1 \in DOMAIN pages
       /\ Reached(e) = pages[e - gttEntry + 1]

\* Nothing tests that an object fits the table, but a store goes behind it
\* only when the object does not: the iterator ends with the object's pages,
\* however the list merges them, and the last entry of the table can be used.
FaultOnlyWhenFull == ins = "oops" => gttEntry + Len(pages) > Entries

\* The frames the device reaches at the addresses below gttEntry.
Space == [a \in 1 .. gttEntry |-> Reached(a - 1)]

Abs == INSTANCE AddressSpace WITH space <- Space

\* Page by page insertion looks like one atomic insertion to the device.
ImplementsAddressSpace == Abs!Spec

\* "scratchpage : All unused PTEs point to this blank page": once an object
\* has been inserted, an entry behind it leads to the scratch page.
UnusedReachScratch ==
  ins = "idle" /\ gttEntry > 0 =>
    \A e \in Table : e >= gttEntry => Reached(e) = scratch
-----------------------------------------------------------------------------
(* What theorems of GttProofs ask of the bus addresses *)

\* A bus address fits the address fields of an entry.  The driver asks for a
\* DMA mask of 40 bits and an entry has 39.
Fits == \A b \in BusFrames : b < Low * High
=============================================================================
