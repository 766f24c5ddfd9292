---------------------------- MODULE GttProbeProofs ----------------------------
(***************************************************************************)
(* Proofs about GttProbe for any field values, any neighbouring bits in the*)
(* two configuration registers and any BAR that is laid out like the       *)
(* device's.                                                               *)
(***************************************************************************)
EXTENDS GttProbe, TLAPS

\* What the firmware may have meant.
FirmwareOK ==
  firmware \in [gms : StolenSizes, ggms : TableSizes, other : OtherBits,
                base : Bases, low : LowBits]

PlaceOK == pc \in {"mask", "sizes", "table", "page", "dma", "aperture", "done"}

MaskInv ==
  /\ mask \in [streaming : {32, 40}, consistent : {32, 40}]
  /\ refused \in BOOLEAN

\* The driver's sizes are the firmware's once the word has been read.
SizesInv ==
  IF pc \in {"mask", "sizes"}
    THEN stolen = 0 /\ gttSize = 0 /\ total = 0
    ELSE /\ stolen = 32 * firmware.gms
         /\ gttSize = firmware.ggms
         /\ total = 1024 * firmware.ggms

\* What the scratch page and the result say at each step, and how the table's
\* fate follows the scratch page's.
PageInv ==
  /\ pc \in {"mask", "sizes", "table", "page"} => page = "none" /\ ret = 0
  /\ pc = "dma" => page = "taken" /\ ret = 0
  /\ pc \in {"aperture", "done"} =>
       \/ page = "mapped" /\ ret = 0
       \/ page \in {"none", "taken"} /\ ret \in {-ENOMEM, -EINVAL}
  /\ pc \in {"mask", "sizes", "table"} => gsm = "null"
  /\ pc \in {"page", "dma"} => gsm \in {"null", "mapped"}
  /\ gsm \in {"null", "mapped", "gone"}
  /\ pc \in {"aperture", "done"} =>
       /\ gsm = "mapped" => page = "mapped"
       /\ gsm = "gone" => page # "mapped"

RegionInv ==
  region = IF pc = "done" THEN [base |-> 2^20 * firmware.base, len |-> stolen]
                          ELSE [base |-> 0, len |-> 0]

IInv ==
  FirmwareOK /\ PlaceOK /\ MaskInv /\ SizesInv /\ PageInv /\ RegionInv
-----------------------------------------------------------------------------
\* Division by the powers of two that the fields begin at.
LEMMA Divide ==
  ASSUME NEW a \in Nat, NEW q \in Nat, NEW r \in Nat
  PROVE  /\ a = 8 * q + r /\ r < 8 => a \div 8 = q
         /\ a = 256 * q + r /\ r < 256 => a \div 256 = q
         /\ a = 4 * q + r /\ r < 4 => a % 4 = r
         /\ a = 32 * q + r /\ r < 32 => a % 32 = r
<1>1. a = 8 * q + r /\ r < 8 => a \div 8 = q
  OBVIOUS
<1>2. a = 256 * q + r /\ r < 256 => a \div 256 = q
  OBVIOUS
<1>3. a = 4 * q + r /\ r < 4 => a % 4 = r
  OBVIOUS
<1>4. a = 32 * q + r /\ r < 32 => a % 32 = r
  OBVIOUS
<1> QED
  BY <1>1, <1>2, <1>3, <1>4

\* The powers of two in the masks and fields.
LEMMA Powers == 2^3 = 8 /\ 2^7 = 128 /\ 2^8 = 256 /\ 2^16 = 65536
<1>1. 2^3 = 8
  OBVIOUS
<1>2. 2^7 = 128
  OBVIOUS
<1>3. 2^8 = 256
  OBVIOUS
<1>4. 2^16 = 65536
  OBVIOUS
<1> QED
  BY <1>1, <1>2, <1>3, <1>4

\* The shifts and masks of nugpgpu_gtt_probe give the two fields back, whatever
\* the bits beside them are.
LEMMA FieldsRead ==
  ASSUME FirmwareOK
  PROVE  Gms(Word) = firmware.gms /\ Ggms(Word) = firmware.ggms
<1> DEFINE o == firmware.other
           g == firmware.ggms
           m == firmware.gms
<1>1. m \in 0 .. 31 /\ g \in 0 .. 3
  BY GttProbeAssumption DEF FirmwareOK
<1>2. o \in OtherBits
  BY DEF FirmwareOK
<1>3. Word = o + 256 * g + 8 * m
  BY DEF Word
<1> HIDE DEF o, g, m
<1>a. o \in Nat /\ (o \div 8) % 128 = 0
  <2>1. o \in Nat /\ (o \div 2^3) % 2^7 = 0
    BY <1>2, OtherBitsAssumption
  <2> QED
    BY <2>1
<1>4. PICK l \in 0 .. 7, h \in Nat : o = 1024 * h + l
  <2> DEFINE q == o \div 8
  <2>1. o = 8 * q + (o % 8)
    BY <1>a
  <2>2. q \in Nat
    BY <1>a
  <2>3. o % 8 \in 0 .. 7
    BY <1>a
  <2>4. q % 128 = 0
    BY <1>a
  <2> HIDE DEF q
  <2>5. q = 128 * (q \div 128) + (q % 128)
    BY <2>2
  <2>6. q \div 128 \in Nat
    BY <2>2
  <2>7. o = 1024 * (q \div 128) + (o % 8)
    BY <2>1, <2>4, <2>5, <2>2, <2>3, <2>6
  <2> QED
    BY <2>3, <2>6, <2>7
<1>5. Word \div 8 = 32 * (4 * h + g) + m
  <2>1. Word = 8 * (32 * (4 * h + g) + m) + l
    BY <1>1, <1>3, <1>4
  <2> QED
    BY <1>1, <1>4, <2>1, Divide
<1>6. Word \div 256 = 4 * h + g
  <2>1. Word = 256 * (4 * h + g) + (8 * m + l)
    BY <1>1, <1>3, <1>4
  <2> QED
    BY <1>1, <1>4, <2>1, Divide
<1>7. (Word \div 8) % 32 = m
  BY <1>1, <1>4, <1>5, Divide
<1>8. (Word \div 256) % 4 = g
  BY <1>1, <1>4, <1>6, Divide
<1> QED
  BY <1>7, <1>8, Powers DEF Gms, Ggms, m, g

\* What is left when the low part of a number is taken away.
LEMMA LowCleared ==
  ASSUME NEW m \in Nat \ {0}, NEW q \in Nat, NEW r \in 0 .. m - 1
  PROVE  (m * q + r) - ((m * q + r) % m) = m * q
<1>1. (m * q + r) % m = r
  BY Z3
<1>2. m * q \in Nat
  BY Z3
<1> QED
  BY <1>1, <1>2

\* The mask of nugpgpu_check_stolen gives the base back, whatever is below it.
LEMMA BaseRead ==
  ASSUME FirmwareOK
  PROVE  Base(BaseDword) = 2^20 * firmware.base
<1>1. 2^20 \in Nat \ {0}
  BY Z3
<1>2. firmware.base \in Nat /\ firmware.low \in 0 .. 2^20 - 1
  BY BaseAssumption DEF FirmwareOK
<1> QED
  BY <1>1, <1>2, LowCleared DEF Base, BaseDword
-----------------------------------------------------------------------------
\* nugpgpu_gtt_init begins with nothing read and nothing mapped.
LEMMA InitInv == Init => IInv
<1> SUFFICES ASSUME Init PROVE IInv
  OBVIOUS
<1>1. FirmwareOK /\ PlaceOK /\ MaskInv
  BY DEF Init, FirmwareOK, PlaceOK, MaskInv
<1>2. SizesInv /\ PageInv /\ RegionInv
  BY DEF Init, SizesInv, PageInv, RegionInv
<1> QED
  BY <1>1, <1>2 DEF IInv

\* Every call of nugpgpu_gtt_probe and nugpgpu_gtt_init keeps the invariant.
LEMMA StepInv == IInv /\ [Next]_vars => IInv'
<1> SUFFICES ASSUME IInv, [Next]_vars PROVE IInv'
  OBVIOUS
<1> USE DEF IInv, PlaceOK
<1>1. CASE SetDmaMask
  <2>1. MaskInv'
    <3>1. mask.consistent \in {32, 40} /\ mask' \in
            {mask} \cup [streaming : {40}, consistent : {mask.consistent, 40}]
      BY <1>1 DEF SetDmaMask, MaskInv
    <3> QED
      BY <1>1, <3>1 DEF SetDmaMask, MaskInv
  <2> QED
    BY <1>1, <2>1 DEF SetDmaMask, Step, FirmwareOK, SizesInv, PageInv, RegionInv,
                      sizeVars
<1>2. CASE ReadSizes
  <2>1. firmware.ggms \in 0 .. 3
    BY GttProbeAssumption DEF FirmwareOK
  <2>2. (firmware.ggms * 4096) \div 4 = 1024 * firmware.ggms
    BY <2>1
  <2>3. SizesInv'
    BY <1>2, <2>2, FieldsRead DEF ReadSizes, Step, SizesInv
  <2>4. RegionInv'
    BY <1>2 DEF ReadSizes, Step, RegionInv
  <2> QED
    BY <1>2, <2>3, <2>4 DEF ReadSizes, Step, FirmwareOK, MaskInv, PageInv
<1>3. CASE MapTable
  <2>1. PageInv'
    BY <1>3 DEF MapTable, Step, PageInv
  <2> QED
    BY <1>3, <2>1 DEF MapTable, Step, FirmwareOK, MaskInv, SizesInv, RegionInv,
                      sizeVars
<1>4. CASE ScratchFails
  <2>1. PageInv'
    BY <1>4 DEF ScratchFails, Step, PageInv, Unmapped
  <2> QED
    BY <1>4, <2>1 DEF ScratchFails, Step, FirmwareOK, MaskInv, SizesInv, RegionInv,
                      sizeVars
<1>5. CASE ScratchWorks
  <2>1. PageInv'
    BY <1>5 DEF ScratchWorks, Step, PageInv
  <2> QED
    BY <1>5, <2>1 DEF ScratchWorks, Step, FirmwareOK, MaskInv, SizesInv, RegionInv,
                      sizeVars
<1>6. CASE InitRest
  <2>1. RegionInv'
    BY <1>6, BaseRead DEF InitRest, Step, RegionInv, sizeVars
  <2> QED
    BY <1>6, <2>1 DEF InitRest, Step, FirmwareOK, MaskInv, SizesInv, PageInv, sizeVars
<1>7. CASE UNCHANGED vars
  BY <1>7 DEF vars, FirmwareOK, MaskInv, SizesInv, PageInv, RegionInv, sizeVars
<1> QED
  BY <1>1, <1>2, <1>3, <1>4, <1>5, <1>6, <1>7 DEF Next

\* The invariant holds throughout the set-up.
LEMMA Invariance == Spec => []IInv
BY InitInv, StepInv, PTL DEF Spec
-----------------------------------------------------------------------------
\* Type correctness: the sizes that nugpgpu_gtt_probe computes stay within what
\* the fields can say.
THEOREM GttProbeTypeCorrect == Spec => []TypeOK
<1>1. IInv => TypeOK
  <2> SUFFICES ASSUME IInv PROVE TypeOK
    OBVIOUS
  <2>1. firmware.gms \in 0 .. 31 /\ firmware.ggms \in 0 .. 3
    BY GttProbeAssumption DEF IInv, FirmwareOK
  <2>2. stolen \in 0 .. 1024 /\ gttSize \in 0 .. 3 /\ total \in 0 .. 4096
    BY <2>1 DEF IInv, SizesInv
  <2>3. region \in [base : Nat, len : 0 .. 1024]
    <3>1. firmware.base \in Nat
      BY BaseAssumption DEF IInv, FirmwareOK
    <3>2. 2^20 * firmware.base \in Nat
      BY <3>1
    <3> QED
      BY <2>2, <3>2 DEF IInv, RegionInv
  <2>4. page \in {"none", "taken", "mapped"} /\ ret \in {0, -ENOMEM, -EINVAL}
    BY DEF IInv, PageInv, PlaceOK
  <2> QED
    BY <2>2, <2>3, <2>4 DEF IInv, PlaceOK, MaskInv, PageInv, TypeOK
<1> QED
  BY <1>1, Invariance, PTL

\* What nugpgpu_check_stolen reserves begins where the firmware's stolen memory
\* begins and is as long, for every value of the two fields and of the bits
\* around them.
THEOREM GttProbeRegion == Spec => []RegionIsStolen
<1>1. IInv => RegionIsStolen
  BY DEF IInv, SizesInv, RegionInv, RegionIsStolen
<1> QED
  BY <1>1, Invariance, PTL

\* The table that nugpgpu_gtt_probe maps lies between the registers and the end
\* of the BAR and is as large as the firmware made it.
THEOREM GttProbeTable == Spec => []TableInBar
<1>1. IInv => TableInBar
  <2> SUFFICES ASSUME IInv, gsm = "mapped"
               PROVE  /\ TableStart >= MmioLen /\ TableStart + gttSize <= BarLen
                      /\ total = 1024 * firmware.ggms
    BY DEF TableInBar
  <2>1. pc \notin {"mask", "sizes"}
    BY DEF IInv, PageInv
  <2>2. gttSize = firmware.ggms /\ total = 1024 * firmware.ggms
    BY <2>1 DEF IInv, SizesInv
  <2>3. firmware.ggms \in TableSizes
    BY DEF IInv, FirmwareOK
  <2>4. TableStart >= MmioLen
    <3>1. BarLen \in Nat /\ MmioLen \in Nat /\ 2 * MmioLen <= BarLen
      BY GttProbeAssumption, BarAssumption
    <3> QED
      BY <3>1 DEF TableStart
  <2>5. TableStart + firmware.ggms <= BarLen
    <3>1. BarLen \in Nat /\ firmware.ggms \in 0 .. 3
      BY <2>3, GttProbeAssumption, Zenon
    <3>2. 2 * firmware.ggms <= BarLen
      BY <2>3, BarAssumption, Zenon
    <3> QED
      BY <3>1, <3>2 DEF TableStart
  <2> QED
    BY <2>2, <2>4, <2>5
<1> QED
  BY <1>1, Invariance, PTL

\* What nugpgpu_pci_probe, which does not look at the result, may find: after an
\* error no mapped table and no scratch page, beside a mapped table a scratch
\* page, and a scratch page exactly if the result is zero.
THEOREM GttProbeOutcome == Spec => []OutcomeKnown
<1>1. IInv => OutcomeKnown
  BY DEF IInv, PageInv, OutcomeKnown, ENOMEM, EINVAL
<1> QED
  BY <1>1, Invariance, PTL
=============================================================================
