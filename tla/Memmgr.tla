------------------------------- MODULE Memmgr -------------------------------
(***************************************************************************)
(* Buffer objects: allocate_object of nugpgpu_memmgr.c.                    *)
(*                                                                         *)
(* An object is a number of pages, taken from the page allocator one at a  *)
(* time and recorded in a scatter list.  Physically contiguous pages share *)
(* one entry of the list; dma_map_sg then gives every entry one contiguous *)
(* range of bus addresses.                                                 *)
(***************************************************************************)
EXTENDS Integers, FiniteSets, SequencesExt

CONSTANTS
  Frames,     \* page frame numbers of system memory
  BusFrames,  \* bus page numbers the DMA mask allows
  Sizes       \* page counts the callers ask for

ASSUME MemmgrAssumption ==
  /\ Frames \subseteq Nat
  /\ BusFrames \subseteq Nat
  /\ Sizes \subseteq Nat \ {0}

VARIABLES
  mm,     \* where allocate_object is: "idle" (returned), "pages", "ready"
  num,    \* its argument
  pages,  \* pages of the object so far, in order (history)
  sg,     \* st->sgl: entries [page, len, first], first = index of its page
  dma,    \* sg_dma_address of each entry, once mapped
  used,   \* frames the page allocator has given away
  iommu   \* bus page -> frame, as dma_map_sg set it up

objVars == <<num, pages, sg, dma>>
memVars == <<mm, objVars, used, iommu>>

NoObject == mm = "idle" /\ num = 0 /\ pages = <<>> /\ sg = <<>> /\ dma = <<>>

MemInit == NoObject /\ used = {} /\ iommu = <<>>

\* A call that goes on in the list of the call before it.
ListKept == sg
ListEmpty == <<>>

\* The call: object, scatter table and its num entries are allocated, empty.
Allocate(n) ==
  /\ mm = "idle"
  /\ mm' = "pages"
  /\ num' = n
  /\ pages' = <<>> /\ sg' = ListEmpty /\ dma' = <<>>
  /\ UNCHANGED <<used, iommu>>

\* Loops that take any higher page for a neighbour, or that remember where
\* the entry starts and not the last page.
AdjacentAscending(f) == f > Last(pages)
AdjacentToStart(f) == f = Last(sg).page + 1

\* page_to_pfn(page) == last_pfn + 1
Adjacent(f) == f = Last(pages) + 1

\* One turn of the loop.
GetPage(f) ==
  /\ mm = "pages" /\ Len(pages) < num
  /\ f \notin used
  /\ sg' = IF pages # <<>> /\ Adjacent(f)
             THEN [sg EXCEPT ![Len(sg)].len = @ + 1]
             ELSE Append(sg, [page |-> f, len |-> 1, first |-> Len(pages)])
  /\ pages' = Append(pages, f)
  /\ used' = used \cup {f}
  /\ UNCHANGED <<mm, num, dma, iommu>>

\* A failure path that gives back more pages than the call has taken.
KeptNone == {}
Kept == used

\* kmalloc, sg_alloc_table, alloc_pages or dma_map_sg fails: the error is
\* returned, and the list and the pages taken so far are given up, not freed.
Fail ==
  /\ mm = "pages"
  /\ mm' = "idle"
  /\ used' = Kept
  /\ UNCHANGED <<objVars, iommu>>

BusRange(base, k) == base[k] .. base[k] + sg[k].len - 1

\* What dma_map_sg does: a free bus range for every entry.  Without an IOMMU
\* the range is the frames themselves, one of the choices here.
Mapping(base) ==
  /\ \A k \in DOMAIN sg : BusRange(base, k) \subseteq BusFrames \ DOMAIN iommu
  /\ \A k, l \in DOMAIN sg :
       k # l => BusRange(base, k) \cap BusRange(base, l) = {}

MapPages(base) ==
  /\ mm = "pages" /\ Len(pages) = num
  /\ Mapping(base)
  /\ dma' = base
  /\ LET new == UNION {BusRange(base, k) : k \in DOMAIN sg}
         entry(b) == CHOOSE k \in DOMAIN sg : b \in BusRange(base, k)
     IN  iommu' = [b \in new \cup DOMAIN iommu |->
                     IF b \in new THEN sg[entry(b)].page + b - base[entry(b)]
                                  ELSE iommu[b]]
  /\ mm' = "ready"
  /\ UNCHANGED <<num, pages, sg, used>>

Fill ==
  \/ \E f \in Frames : GetPage(f)
  \/ Fail
  \/ \E base \in [DOMAIN sg -> BusFrames] : MapPages(base)

\* The caller takes the object, here without putting it anywhere.
Release ==
  /\ mm = "ready"
  /\ mm' = "idle"
  /\ UNCHANGED <<objVars, used, iommu>>

MemNext == (\E n \in Sizes : Allocate(n)) \/ Fill \/ Release

MemSpec == MemInit /\ [][MemNext]_memVars
-----------------------------------------------------------------------------
MemTypeOK ==
  /\ mm \in {"idle", "pages", "ready"}
  /\ num \in Sizes \cup {0}
  /\ pages \in Seq(Frames) /\ Len(pages) <= num
  /\ sg \in Seq([page : Frames, len : 1 .. num, first : 0 .. num - 1])
  /\ dma \in Seq(BusFrames)
  /\ used \subseteq Frames
  /\ DOMAIN iommu \subseteq BusFrames
  /\ \A b \in DOMAIN iommu : iommu[b] \in Frames

\* After every turn of the loop the list, read entry by entry, is the pages in
\* the order they were allocated: each entry begins where the one before ended,
\* the last ends with the last page, and what an entry spans are the pages of
\* its place.  Merging contiguous pages neither drops, repeats nor reorders one
\* ("if pages are continous then we can increase the length of previous sg
\* entry").
ListIsPages ==
  /\ \A k \in DOMAIN sg :
       sg[k].first = IF k = 1 THEN 0 ELSE sg[k - 1].first + sg[k - 1].len
  /\ Len(pages) = IF sg = <<>> THEN 0 ELSE sg[Len(sg)].first + sg[Len(sg)].len
  /\ \A k \in DOMAIN sg, j \in 0 .. num :
       j < sg[k].len => pages[sg[k].first + j + 1] = sg[k].page + j

\* The list is as short as it can be: neighbours were merged, so that the
\* object needs one bus range per physically contiguous run.
ListIsShort ==
  \A k \in 2 .. Len(sg) : sg[k].page # sg[k - 1].page + sg[k - 1].len

\* A page that was handed out is never handed out again, also not to another
\* object or after an allocation that failed: what a device can reach of an
\* object belongs to that object alone.
BusPagesDistinct ==
  \A a, b \in DOMAIN iommu : iommu[a] = iommu[b] => a = b
=============================================================================
