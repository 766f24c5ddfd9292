------------------------------- MODULE GttProbe -------------------------------
(***************************************************************************)
(* Setting up the translation table: nugpgpu_gtt_init, nugpgpu_gtt_probe,  *)
(* scratchpage_setup and nugpgpu_check_stolen of nugpgpu_gtt.c.            *)
(*                                                                         *)
(* The sizes come out of one word of the configuration space that the      *)
(* firmware has filled in, the base of the stolen memory out of another.   *)
(* Sizes are in MB: the code's shifts by 25 and 20 bits are factors of 32  *)
(* and 1; the base is an address in bytes.  Most failures are logged and   *)
(* passed over; only the scratch page's is returned.                       *)
(***************************************************************************)
EXTENDS Integers

CONSTANTS
  StolenSizes,  \* what GMS may hold, in units of 32 MB
  TableSizes,   \* what GGMS may hold, in MB
  OtherBits,    \* values of the word with its bits 9:3 clear
  Bases,        \* where the stolen memory may begin, in MB
  LowBits,      \* what the bits 19:0 of the base register may hold
  BarLen,       \* length of BAR 0
  MmioLen       \* what nugpgpu_mmio_map takes of it

ASSUME GttProbeAssumption ==
  /\ StolenSizes \subseteq 0 .. 31 /\ TableSizes \subseteq 0 .. 3
  /\ BarLen \in Nat /\ MmioLen \in Nat

ASSUME OtherBitsAssumption ==
  \A o \in OtherBits : o \in Nat /\ o < 2^16 /\ (o \div 2^3) % 2^7 = 0

ASSUME BaseAssumption == Bases \subseteq Nat /\ LowBits \subseteq 0 .. 2^20 - 1

\* The device's BAR 0: each half holds the registers, and the largest table the
\* firmware can ask for.
ASSUME BarAssumption ==
  2 * MmioLen <= BarLen /\ \A t \in TableSizes : 2 * t <= BarLen

VARIABLES
  pc,        \* the call nugpgpu_gtt_probe or nugpgpu_gtt_init is at
  firmware,  \* the fields of the two registers as the firmware meant them
  mask,      \* bits of the DMA masks: [streaming, consistent]
  refused,   \* "pci_set_dma_mask failed" has been logged
  stolen,    \* stolen_size
  gttSize,   \* gtt_size
  total,     \* total_size
  gsm,       \* gtt.gsm: "null", "mapped", "gone" (unmapped, pointer kept)
  page,      \* the scratch page: "none", "taken", "mapped"
  ret,       \* the result
  region     \* what devm_request_mem_region was asked for: [base, len]

sizeVars == <<stolen, gttSize, total>>
vars == <<pc, firmware, mask, refused, sizeVars, gsm, page, ret, region>>

ENOMEM == 12
EINVAL == 22

Init ==
  /\ pc = "mask"
  /\ firmware \in [gms : StolenSizes, ggms : TableSizes, other : OtherBits,
                   base : Bases, low : LowBits]
  /\ mask = [streaming |-> 32, consistent |-> 32] /\ refused = FALSE
  /\ stolen = 0 /\ gttSize = 0 /\ total = 0
  /\ gsm = "null" /\ page = "none" /\ ret = 0
  /\ region = [base |-> 0, len |-> 0]

Step(from, to) == pc = from /\ pc' = to /\ UNCHANGED firmware

\* if (!pci_set_dma_mask(...)) { "... failed, trying consistent";
\* pci_set_consistent_dma_mask(...) }.  Zero means success.
SetDmaMask ==
  /\ Step("mask", "sizes")
  /\ \/ \* the mask is accepted; the second call may be refused
        /\ \E bits \in {mask.consistent, 40} :
             mask' = [streaming |-> 40, consistent |-> bits]
        /\ refused' = TRUE
     \/ UNCHANGED <<mask, refused>>
  /\ UNCHANGED <<sizeVars, gsm, page, ret, region>>

\* HSW_GMCH_CTRL: GGMS in bits 9:8, GMS in bits 7:3.
Word == firmware.other + 256 * firmware.ggms + 8 * firmware.gms

\* A table size that is read with the bits of its neighbour.
GgmsWide(word) == (word \div 2^8) % 16

\* HSW_GMCH_GMS_SHIFT and _MASK, HSW_GMCH_GGMS_SHIFT and _MASK
Gms(word)  == (word \div 2^3) % 32
Ggms(word) == (word \div 2^8) % 4

\* An entry has four bytes and maps a page of 4096.
ReadSizes ==
  /\ Step("sizes", "table")
  /\ stolen' = 32 * Gms(Word)
  /\ gttSize' = Ggms(Word)
  /\ total' = (gttSize' * 4096) \div 4
  /\ UNCHANGED <<mask, refused, gsm, page, ret, region>>

\* A table at the start of the BAR, where the registers are.
TableAtRegisters == 0

\* pci_resource_start(0) + pci_resource_len(0) / 2
TableStart == BarLen \div 2

\* ioremap_wc, which refuses a length of zero and may refuse any; "You're
\* doomed", and on.
MapTable ==
  /\ Step("table", "page")
  /\ gsm' \in IF gttSize = 0 THEN {"null"} ELSE {"null", "mapped"}
  /\ UNCHANGED <<mask, refused, sizeVars, page, ret, region>>

\* A probe that keeps the table when the scratch page has failed.
TableKept == gsm

\* iounmap(gsm), which passes over a null pointer.
Unmapped == IF gsm = "mapped" THEN "gone" ELSE gsm

\* scratchpage_setup returns an error.  A page it has taken is not given back.
ScratchFails ==
  /\ \/ Step("page", "aperture") /\ ret' = -ENOMEM
     \/ Step("dma", "aperture") /\ ret' = -EINVAL
  /\ gsm' = Unmapped
  /\ UNCHANGED <<mask, refused, sizeVars, page, region>>

\* alloc_page, then pci_map_page.
ScratchWorks ==
  /\ \/ Step("page", "dma") /\ page' = "taken"
     \/ Step("dma", "aperture") /\ page' = "mapped"
  /\ UNCHANGED <<mask, refused, sizeVars, gsm, ret, region>>

\* The dword at 0x5c: the base above bit 20, other fields below.
BaseDword == 2^20 * firmware.base + firmware.low

\* A base that is used as it was read.
BaseUnmasked(dword) == dword

\* base &= ~((1<<20) - 1)
Base(dword) == dword - (dword % 2^20)

\* nugpgpu_gtt_init: "Failed to probe GTT" and on; io_mapping_create_wc may
\* fail, which is logged; then nugpgpu_check_stolen asks for the stolen memory.
\* That somebody else has it is logged too.
InitRest ==
  /\ Step("aperture", "done")
  /\ region' = [base |-> Base(BaseDword), len |-> stolen]
  /\ UNCHANGED <<mask, refused, sizeVars, gsm, page, ret>>

Next ==
  SetDmaMask \/ ReadSizes \/ MapTable \/ ScratchFails \/ ScratchWorks \/ InitRest

Spec == Init /\ [][Next]_vars
-----------------------------------------------------------------------------
TypeOK ==
  /\ pc \in {"mask", "sizes", "table", "page", "dma", "aperture", "done"}
  /\ mask \in [streaming : {32, 40}, consistent : {32, 40}]
  /\ refused \in BOOLEAN
  /\ stolen \in 0 .. 1024 /\ gttSize \in 0 .. 3 /\ total \in 0 .. 4096
  /\ gsm \in {"null", "mapped", "gone"}
  /\ page \in {"none", "taken", "mapped"}
  /\ ret \in {0, -ENOMEM, -EINVAL}
  /\ region \in [base : Nat, len : 0 .. 1024]

\* The memory the driver reserves is the memory the firmware set aside, where
\* it begins and as long as it is, whatever the neighbouring bits of the two
\* registers say.
RegionIsStolen ==
  pc = "done" =>
    region = [base |-> 2^20 * firmware.base, len |-> 32 * firmware.gms]

\* A mapped table lies behind the registers and inside the BAR, and it has an
\* entry for every page of the address space the driver believes in.
TableInBar ==
  gsm = "mapped" =>
    /\ TableStart >= MmioLen /\ TableStart + gttSize <= BarLen
    /\ total = 1024 * firmware.ggms

\* What nugpgpu_pci_probe finds (module Driver): after an error there is no
\* mapped table and no scratch page; a table that is mapped has a scratch page
\* beside it; and the result is zero exactly if there is a scratch page, so that
\* it does not tell whether the table was ever mapped.
OutcomeKnown ==
  pc = "done" => /\ gsm = "mapped" => ret = 0 /\ page = "mapped"
                 /\ gsm = "gone" => ret # 0 /\ page # "mapped"
                 /\ ret = 0 <=> page = "mapped"

\* The log says "pci_set_dma_mask failed, trying consistent" when it failed.
MaskReportTrue == refused => mask.streaming = 32
=============================================================================
