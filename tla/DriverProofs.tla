----------------------------- MODULE DriverProofs -----------------------------
(***************************************************************************)
(* Proofs about Driver for any number of probes and loads and a ring of any*)
(* size.                                                                   *)
(***************************************************************************)
EXTENDS Driver, TLAPS

\* The phases of a probe.  Awake: from gpu_forcewake_get to wait_for's answer;
\* Rewound: the ring is stopped and its registers are being set.
Rewound == {"head", "tail", "recheck", "start", "valid"}
Awake == {"hws", "stop", "wait"} \cup Rewound
Later == {"mmio", "regrw", "gsm", "status", "ring", "window", "test"} \cup Awake
Calls == AllParts \cup Later

Places == Calls \cup {"unbound", "bound", "oops"}
Failures == {"status page", "ring pages", "window", "forcewake", "ring head",
             "ring start", "temp page"}

PciType == [enabled : Nat, master : BOOLEAN]
MemType == [regs : Mapping, gsm : Mapping, entry : Nat, ring : Nat]
PowerType == [count : 0 .. 1, request : BOOLEAN]
RingType == [hws : Nat, ctl : BOOLEAN, start : Nat, head : 0 .. 1,
             tail : 0 .. 1, hwsLoad : 0 .. loads, startLoad : 0 .. loads]

\* Types, with numbers that CountInv bounds.
Types ==
  /\ pc \in Places
  /\ loads \in 1 .. MaxLoads /\ probes \in 0 .. MaxProbes /\ undone \in Nat
  /\ pci \in PciType /\ mem \in MemType /\ power \in PowerType
  /\ priv \in [Fields -> {"null", "set", "error"}]
  /\ logged \subseteq Failures
  /\ ring \in RingType
  /\ written \in {0, Window}

\* The enable count of the device: one for every probe that left it behind and
\* one for the probe or binding there is.
CountInv ==
  LET now == IF pc = "unbound" THEN 0 ELSE 1
  IN  pci.enabled = undone + now /\ undone + now <= probes

MasterInv == pc = "unbound" /\ pci.master => undone > 0

\* The character device is built in the order of After, and its fields say what
\* there is of it.
Before == [region |-> {}, cdev |-> {"region"}, class |-> {"region", "cdev"},
           device |-> {"region", "cdev", "class"}]
FopsInv ==
  /\ pc = "unbound" => fops = {}
  /\ pc \in AllParts => fops = Before[pc]
  /\ pc \notin AllParts \cup {"unbound"} => fops = AllParts
  /\ pc # "unbound" =>
       \A f \in Fields : priv[f] = IF f \in fops THEN "set" ELSE "null"

\* The reference that render_init takes, and what it does to the request.
PowerInv ==
  /\ pc \in Calls => "ring start" \notin logged
  /\ pc \in Calls \ Awake => power.count = 0
  /\ pc \in {"gsm", "status", "ring", "window", "test"} => ~power.request
  /\ pc \in Awake => power.count = 1 /\ power.request
  /\ AwakeOnlyAfterFailedStart

\* Where the ring that is being set up lies: behind its status page, inside
\* the inserted part of the table.  A GT that answered lets itself be stopped.
SetupInv ==
  /\ pc = "ring" => mem.entry >= 1
  /\ pc \in {"window"} \cup Awake =>
       mem.ring >= 1 /\ mem.ring + RingPages <= mem.entry
  /\ pc \in Rewound /\ ~Asleep => ~ring.ctl

\* What a probe that logs nothing has reached.
OwnStatus == ring.hws = mem.ring - 1 /\ ring.hwsLoad = loads
OwnStart == ring.start = mem.ring /\ ring.startLoad = loads
ReadyInv ==
  /\ pc \in {"gsm", "status", "ring", "window", "test"} \cup Awake =>
       mem.regs = "mapped"
  /\ pc \in {"ring", "window", "test"} \cup Awake => mem.gsm = "mapped"
  /\ pc \in Awake \ {"hws"} /\ ~Asleep => OwnStatus
  /\ pc \in {"valid", "wait"} /\ ~Asleep => OwnStart
  /\ pc = "test" /\ ~Asleep => ring.ctl /\ OwnStart /\ OwnStatus
  /\ RingReadyUnlessLogged

\* A start or status page that this load has set, by this probe or by an earlier
\* one: an earlier ring lies below what this probe inserts.
OldRingInv ==
  /\ ring.startLoad = loads =>
       /\ ring.start + RingPages <= mem.entry
       /\ ring.hwsLoad = loads =>
            ring.hws < ring.start \/ ring.hws >= ring.start + RingPages
       /\ pc = "ring" => ring.start + RingPages <= mem.entry - 1
       /\ pc = "window" => ring.start + RingPages <= mem.ring - 1
       /\ pc \in Awake =>
            ring.start = mem.ring \/ ring.start + RingPages <= mem.ring - 1
  /\ ring.hwsLoad = loads =>
       /\ ring.hws < mem.entry
       /\ pc \in {"window"} \cup Awake => ring.hws < mem.ring

IInv == /\ Types /\ CountInv /\ MasterInv /\ FopsInv
        /\ PowerInv /\ SetupInv /\ ReadyInv /\ OldRingInv
-----------------------------------------------------------------------------
\* The parts of the character device by name.
LEMMA Named ==
  /\ AllParts = {"region", "cdev", "class", "device"}
  /\ After["region"] = "cdev" /\ After["cdev"] = "class"
  /\ After["class"] = "device" /\ After["device"] = "mmio"
BY DEF AllParts, After

\* An unbound device that nobody has probed yet.
LEMMA InitInv == Init => IInv
<1> SUFFICES ASSUME Init PROVE IInv
  OBVIOUS
<1>1. Types
  BY DriverAssumption
     DEF Init, Zeroed, Types, Places, Mapping, PciType, MemType, PowerType, RingType
<1>2. CountInv /\ MasterInv
  BY DEF Init, CountInv, MasterInv
<1>3. FopsInv
  BY Named DEF Init, FopsInv
<1>4. PowerInv /\ SetupInv
  BY Named DEF Init, PowerInv, SetupInv, AwakeOnlyAfterFailedStart, Calls, Later,
               Awake, Rewound
<1>5. ReadyInv /\ OldRingInv
  BY Named DEF Init, ReadyInv, RingReadyUnlessLogged, OldRingInv, Awake, Rewound
<1> QED
  BY <1>1, <1>2, <1>3, <1>4, <1>5 DEF IInv
-----------------------------------------------------------------------------
(* One lemma per phase of a binding: its actions keep the invariant. *)

\* Loading the module, and a probe up to nugpgpu_fops_init.
LEMMA ProbeInv ==
  ASSUME IInv, Reload \/ Probe
  PROVE  IInv'
<1> USE DEF IInv, Places, Calls, Later, Awake, Rewound, Mapping, PciType, MemType,
            PowerType, RingType
<1>1. CASE Reload
  <2>1. Types'
    <3>1. loads' \in 1 .. MaxLoads /\ 0 .. loads \subseteq 0 .. loads'
      BY <1>1, DriverAssumption DEF Reload, Types
    <3>2. ring' \in RingType'
      BY <1>1, <3>1 DEF Reload, Types
    <3> QED
      BY <1>1, <3>1, <3>2 DEF Reload, Types
  <2>2. CountInv' /\ MasterInv'
    BY <1>1 DEF Reload, Types, CountInv, MasterInv
  <2>3. FopsInv'
    BY <1>1 DEF Reload, FopsInv
  <2>4. PowerInv'
    BY <1>1 DEF Reload, Types, PowerInv, AwakeOnlyAfterFailedStart
  <2>5. SetupInv' /\ ReadyInv'
    BY <1>1, Named DEF Reload, Types, SetupInv, ReadyInv, RingReadyUnlessLogged
  <2>6. OldRingInv'
    <3>1. ring'.startLoad # loads' /\ ring'.hwsLoad # loads'
      BY <1>1 DEF Reload, Types
    <3> QED
      BY <3>1 DEF OldRingInv
  <2> QED
    BY <2>1, <2>2, <2>3, <2>4, <2>5, <2>6
<1>2. CASE Probe
  <2>1. Types'
    <3>1. pc' \in Places /\ probes' \in 0 .. MaxProbes
      BY <1>2, DriverAssumption, Named DEF Probe, Types
    <3>2. mem' \in MemType /\ priv' \in [Fields -> {"null", "set", "error"}]
      BY <1>2 DEF Probe, Zeroed, Types
    <3> QED
      BY <1>2, <3>1, <3>2 DEF Probe, CountZeroed, Types
  <2>2. CountInv' /\ MasterInv'
    BY <1>2 DEF Probe, Types, CountInv, MasterInv
  <2>3. FopsInv'
    <3>1. pc' = "region" /\ fops' = {} /\ priv' = Zeroed
      BY <1>2 DEF Probe, FopsInv
    <3> QED
      BY <3>1, Named DEF FopsInv, Before, Zeroed
  <2>4. PowerInv'
    BY <1>2, Named DEF Probe, CountZeroed, Types, PowerInv, AwakeOnlyAfterFailedStart
  <2>5. SetupInv' /\ ReadyInv'
    BY <1>2 DEF Probe, Types, SetupInv, ReadyInv, RingReadyUnlessLogged
  <2>6. OldRingInv'
    BY <1>2 DEF Probe, Types, OldRingInv
  <2> QED
    BY <2>1, <2>2, <2>3, <2>4, <2>5, <2>6
<1> QED
  BY <1>1, <1>2

\* What a step of nugpgpu_fops_init that touches only the character device leaves
\* of the rest of the invariant.
LEMMA FopsFrame ==
  ASSUME IInv, pc \in AllParts, pc' \in AllParts \cup {"mmio", "unbound"},
         UNCHANGED <<loads, probes, pci, mem, power, logged, ring, written>>
  PROVE  PowerInv' /\ SetupInv' /\ ReadyInv' /\ OldRingInv'
<1> USE DEF IInv, Types, RingType, MemType
<1>1. PowerInv'
  BY Named DEF PowerInv, AwakeOnlyAfterFailedStart, Calls, Later, Awake, Rewound
<1>2. SetupInv' /\ ReadyInv'
  BY Named DEF SetupInv, ReadyInv, RingReadyUnlessLogged, Awake, Rewound
<1>3. OldRingInv'
  BY Named DEF OldRingInv, Awake, Rewound
<1> QED
  BY <1>1, <1>2, <1>3

\* What nugpgpu_fops_finish takes back is all there is: the fields know the three
\* other parts, and the cdev is always taken.
LEMMA AllTakenBack ==
  ASSUME fops \subseteq AllParts,
         NEW fields, \A f \in Fields : f \in fops => fields[f] # "null"
  PROVE  fops \ TakenBack(fields) = {}
BY Named DEF TakenBack, Fields

\* nugpgpu_fops_init and the unwinding of its failures.
LEMMA FopsStepInv ==
  ASSUME IInv, FopsAdd \/ RegionFails \/ CdevFails \/ PointerFails
  PROVE  IInv'
<1>t. /\ pc \in AllParts
      /\ UNCHANGED <<loads, probes, pci, mem, power, logged, ring, written>>
  BY Named DEF FopsAdd, RegionFails, CdevFails, PointerFails, FopsEnds, Step
<1>n. /\ undone \in Nat /\ undone + 1 <= probes /\ pci.enabled = undone + 1
      /\ probes \in 0 .. MaxProbes
  BY <1>t, Named DEF IInv, Types, CountInv
<1>f. /\ fops = Before[pc] /\ fops \subseteq AllParts
      /\ \A f \in Fields : priv[f] = IF f \in fops THEN "set" ELSE "null"
  BY <1>t, Named DEF IInv, FopsInv, Before
<1>1. CASE FopsAdd
  <2>1. /\ pc' = After[pc] /\ fops' = fops \cup {pc} /\ priv' = Filled("set")
        /\ UNCHANGED undone
    BY <1>1 DEF FopsAdd, Step
  <2>2. pc' \in AllParts \cup {"mmio"}
    BY <1>t, <2>1, Named
  <2>3. Types'
    <3>1. priv' \in [Fields -> {"null", "set", "error"}]
      BY <2>1 DEF IInv, Types, Filled
    <3> QED
      BY <1>t, <2>1, <2>2, <3>1 DEF IInv, Types, Places, Calls, Later, RingType
  <2>4. CountInv' /\ MasterInv'
    BY <1>t, <1>n, <2>1, <2>2, Named DEF CountInv, MasterInv
  <2>5. FopsInv'
    <3>1. pc' \in AllParts => fops' = Before[pc']
      BY <1>t, <1>f, <2>1, Named DEF Before
    <3>2. pc' \notin AllParts => fops' = AllParts
      BY <1>t, <1>f, <2>1, Named DEF Before
    <3>3. \A f \in Fields : priv'[f] = IF f \in fops' THEN "set" ELSE "null"
      BY <1>f, <2>1 DEF Filled
    <3> QED
      BY <2>2, <3>1, <3>2, <3>3, Named DEF FopsInv
  <2> QED
    BY <1>t, <2>2, <2>3, <2>4, <2>5, FopsFrame DEF IInv
<1>2. CASE RegionFails \/ CdevFails \/ PointerFails
  <2>1. pc' = "unbound" /\ undone' = undone + 1
    BY <1>2 DEF RegionFails, CdevFails, PointerFails, FopsEnds, Returned, Filled,
                Step, Fields
  <2>2. fops' = {} /\ priv' \in [Fields -> {"null", "set", "error"}]
    <3>1. CASE RegionFails
      BY <1>f, <3>1 DEF RegionFails, IInv, Types, Before
    <3>2. CASE CdevFails
      <4>1. fops \ TakenBack(priv) = {}
        BY <1>f, AllTakenBack
      <4> QED
        BY <3>2, <4>1 DEF CdevFails, Finish, Zeroed
    <3>3. CASE PointerFails
      <4>1. \A f \in Fields : f \in fops => Filled("error")[f] # "null"
        BY <1>f DEF Filled
      <4>2. fops \ TakenBack(Filled("error")) = {}
        BY <1>f, <4>1, AllTakenBack
      <4> QED
        BY <3>3, <4>2 DEF PointerFails, Finish, Zeroed
    <3> QED
      BY <1>2, <3>1, <3>2, <3>3
  <2>3. Types'
    BY <1>t, <1>n, <2>1, <2>2 DEF IInv, Types, Places, RingType
  <2>4. CountInv' /\ MasterInv'
    BY <1>t, <1>n, <2>1 DEF CountInv, MasterInv
  <2>5. FopsInv'
    BY <2>1, <2>2, Named DEF FopsInv
  <2> QED
    BY <1>t, <2>1, <2>3, <2>4, <2>5, FopsFrame DEF IInv
<1> QED
  BY <1>1, <1>2

\* The mappings, the register layer and the table.
LEMMA MapInv ==
  ASSUME IInv, MmioMap \/ RegrwInit \/ GttInit
  PROVE  IInv'
<1> USE DEF IInv, Step, Places, Calls, Later, Awake, Rewound, Mapping, PciType,
            MemType, PowerType, RingType
<1>1. CASE MmioMap
  <2>1. Types'
    BY <1>1 DEF MmioMap, Types
  <2>2. CountInv' /\ MasterInv'
    BY <1>1 DEF MmioMap, Types, CountInv, MasterInv
  <2>3. FopsInv'
    BY <1>1, Named DEF MmioMap, FopsInv
  <2>4. PowerInv'
    BY <1>1, Named DEF MmioMap, Types, PowerInv, AwakeOnlyAfterFailedStart
  <2>5. SetupInv' /\ ReadyInv'
    BY <1>1 DEF MmioMap, Types, SetupInv, ReadyInv, RingReadyUnlessLogged
  <2>6. OldRingInv'
    BY <1>1 DEF MmioMap, Types, OldRingInv
  <2> QED
    BY <2>1, <2>2, <2>3, <2>4, <2>5, <2>6
<1>2. CASE RegrwInit
  <2>1. /\ pc = "regrw"
        /\ \/ /\ pc' = "gsm" /\ mem.regs = "mapped"
              /\ power' = [power EXCEPT !.request = FALSE]
           \/ pc' = "oops" /\ power' = power
        /\ UNCHANGED <<loads, probes, undone, pci, fops, priv, mem, logged, ring,
                       written>>
    BY <1>2 DEF RegrwInit
  <2>2. power' \in PowerType /\ power'.count = power.count
    BY <2>1 DEF Types
  <2>3. Types'
    BY <2>1, <2>2 DEF Types
  <2>4. CountInv' /\ MasterInv'
    BY <2>1 DEF CountInv, MasterInv
  <2>5. FopsInv'
    BY <2>1, Named DEF FopsInv
  <2>6. PowerInv'
    <3>1. pc' = "gsm" => ~power'.request
      BY <2>1 DEF Types
    <3>2. pc' \in Calls => pc' = "gsm"
      BY <2>1, Named
    <3> QED
      BY <2>1, <2>2, <3>1, <3>2, Named DEF PowerInv, AwakeOnlyAfterFailedStart
  <2>7. SetupInv' /\ ReadyInv'
    BY <2>1 DEF SetupInv, ReadyInv, RingReadyUnlessLogged
  <2>8. OldRingInv'
    BY <2>1 DEF Types, OldRingInv
  <2> QED
    BY <2>3, <2>4, <2>5, <2>6, <2>7, <2>8
<1>3. CASE GttInit
  <2>1. Types'
    BY <1>3 DEF GttInit, Types
  <2>2. CountInv' /\ MasterInv'
    BY <1>3 DEF GttInit, Types, CountInv, MasterInv
  <2>3. FopsInv'
    BY <1>3, Named DEF GttInit, FopsInv
  <2>4. PowerInv'
    BY <1>3, Named DEF GttInit, Types, PowerInv, AwakeOnlyAfterFailedStart
  <2>5. SetupInv' /\ ReadyInv'
    BY <1>3 DEF GttInit, Types, SetupInv, ReadyInv, RingReadyUnlessLogged
  <2>6. OldRingInv'
    BY <1>3 DEF GttInit, Types, OldRingInv
  <2> QED
    BY <2>1, <2>2, <2>3, <2>4, <2>5, <2>6
<1> QED
  BY <1>1, <1>2, <1>3

\* The two objects of the ring, as they take their entries of the table.
LEMMA ObjectInv ==
  ASSUME IInv, TableFault \/ StatusPage \/ RingObject
  PROVE  IInv'
<1> USE DEF IInv
<1>t. /\ pc \in Places /\ pci \in PciType /\ mem \in MemType
      /\ power \in PowerType /\ ring \in RingType
  BY DEF Types
<1>1. CASE TableFault
  <2>1. /\ pc = "status" /\ pc' = "oops"
        /\ UNCHANGED <<loads, probes, undone, pci, fops, priv, mem, power, logged,
                        ring, written>>
    BY <1>1 DEF TableFault, Step
  <2>2. Types'
    BY <1>t, <2>1 DEF Types, Places, Calls, Later, Awake, Rewound, RingType
  <2>3. CountInv' /\ MasterInv'
    BY <1>t, <2>1 DEF CountInv, MasterInv
  <2>4. FopsInv'
    BY <2>1, Named DEF FopsInv
  <2>5. PowerInv'
    BY <2>1, Named
       DEF PowerInv, AwakeOnlyAfterFailedStart, Calls, Later, Awake, Rewound
  <2>6. SetupInv'
    BY <1>t, <2>1, DriverAssumption DEF SetupInv, Awake, Rewound, MemType
  <2>7. ReadyInv'
    BY <2>1 DEF ReadyInv, RingReadyUnlessLogged, Awake, Rewound
  <2>8. OldRingInv'
    BY <1>t, <2>1, DriverAssumption
       DEF SetupInv, OldRingInv, Awake, Rewound, MemType, RingType
  <2> QED
    BY <2>2, <2>3, <2>4, <2>5, <2>6, <2>7, <2>8 DEF IInv
<1>2. CASE StatusPage
  <2>1. /\ pc = "status" /\ pc' = "ring" /\ mem.gsm = "mapped"
        /\ mem' = [mem EXCEPT !.entry = @ + 1]
        /\ UNCHANGED <<loads, probes, undone, pci, fops, priv, power, logged, ring,
                        written>>
    BY <1>2 DEF StatusPage, Inserted, Step
  <2>2. /\ mem' \in MemType
        /\ mem'.entry = mem.entry + 1 /\ mem'.ring = mem.ring
        /\ mem'.regs = mem.regs /\ mem'.gsm = mem.gsm
    BY <1>t, <2>1 DEF MemType
  <2>3. Types'
    BY <1>t, <2>1, <2>2 DEF Types, Places, Calls, Later, Awake, Rewound, RingType
  <2>4. CountInv' /\ MasterInv'
    BY <1>t, <2>1, <2>2 DEF CountInv, MasterInv
  <2>5. FopsInv'
    BY <2>1, <2>2, Named DEF FopsInv
  <2>6. PowerInv'
    BY <2>1, <2>2, Named
       DEF PowerInv, AwakeOnlyAfterFailedStart, Calls, Later, Awake, Rewound
  <2>7. SetupInv'
    BY <1>t, <2>1, <2>2, DriverAssumption DEF SetupInv, Awake, Rewound, MemType
  <2>8. ReadyInv'
    BY <2>1, <2>2 DEF ReadyInv, RingReadyUnlessLogged, Awake, Rewound
  <2>9. OldRingInv'
    BY <1>t, <2>1, <2>2, DriverAssumption
       DEF SetupInv, OldRingInv, Awake, Rewound, MemType, RingType
  <2> QED
    BY <2>3, <2>4, <2>5, <2>6, <2>7, <2>8, <2>9 DEF IInv
<1>3. CASE RingObject
  <2>1. /\ pc = "ring" /\ pc' = "window"
        /\ mem' = [mem EXCEPT !.entry = @ + RingPages, !.ring = mem.entry]
        /\ UNCHANGED <<loads, probes, undone, pci, fops, priv, power, logged, ring,
                        written>>
    BY <1>3 DEF RingObject, Inserted, Step
  <2>a. mem.entry \in Nat /\ mem.entry + RingPages \in Nat
    BY <1>t, DriverAssumption DEF MemType
  <2>2. /\ mem' \in MemType
        /\ mem'.entry = mem.entry + RingPages
        /\ mem'.ring = mem.entry
        /\ mem'.regs = mem.regs /\ mem'.gsm = mem.gsm
    BY <1>t, <2>1, <2>a DEF MemType
  <2>3. Types'
    BY <1>t, <2>1, <2>2 DEF Types, Places, Calls, Later, Awake, Rewound, RingType
  <2>4. CountInv' /\ MasterInv'
    BY <1>t, <2>1, <2>2 DEF CountInv, MasterInv
  <2>5. FopsInv'
    BY <2>1, <2>2, Named DEF FopsInv
  <2>6. PowerInv'
    BY <2>1, <2>2, Named
       DEF PowerInv, AwakeOnlyAfterFailedStart, Calls, Later, Awake, Rewound
  <2>7. SetupInv'
    BY <1>t, <2>1, <2>2, DriverAssumption DEF SetupInv, Awake, Rewound, MemType
  <2>8. ReadyInv'
    BY <2>1, <2>2 DEF ReadyInv, RingReadyUnlessLogged, Awake, Rewound
  <2>9. OldRingInv'
    BY <1>t, <2>1, <2>2, DriverAssumption
       DEF SetupInv, OldRingInv, Awake, Rewound, MemType, RingType
  <2> QED
    BY <2>3, <2>4, <2>5, <2>6, <2>7, <2>8, <2>9 DEF IInv
<1> QED
  BY <1>1, <1>2, <1>3

\* A failure that nugpgpu_pci_probe ignores leaves the entry counter where it
\* was or behind what was inserted, and the reference only if the ring failed.
LEMMA GiveUpInv ==
  ASSUME IInv, AllocationFails \/ StartFails
  PROVE  IInv'
<1> USE DEF IInv
<1>t. /\ pc \in Places /\ pci \in PciType /\ mem \in MemType
      /\ power \in PowerType /\ ring \in RingType
  BY DEF Types
<1>1. PICK at \in {"status", "ring", "window", "test", "wait"},
           what \in Failures, memory \in MemType :
        /\ GiveUp(at, what, memory)
        /\ memory.entry >= mem.entry /\ memory.ring \in {mem.ring, mem.entry}
        /\ what = "ring start" <=> at = "wait"
  <2>1. /\ Inserted(1) \in MemType /\ Inserted(1).entry >= mem.entry
        /\ Inserted(1).ring = mem.ring
    BY <1>t DEF Inserted, MemType
  <2> DEFINE whole == [Inserted(RingPages) EXCEPT !.ring = mem.entry]
  <2>2. whole \in MemType /\ whole.entry >= mem.entry /\ whole.ring = mem.entry
    <3>1. /\ mem.entry \in Nat /\ mem.entry + RingPages \in Nat
          /\ mem.entry + RingPages >= mem.entry
      BY <1>t, DriverAssumption DEF MemType
    <3>2. whole = [mem EXCEPT !.entry = mem.entry + RingPages, !.ring = mem.entry]
      BY <1>t DEF Inserted, MemType
    <3> QED
      BY <1>t, <3>1, <3>2 DEF MemType
  <2>3. mem.entry >= mem.entry
    BY <1>t DEF MemType
  <2> HIDE DEF whole
  <2>4. CASE AllocationFails
    <3>1. \/ GiveUp("status", "status page", mem)
          \/ GiveUp("status", "status page", Inserted(1))
          \/ GiveUp("ring", "ring pages", mem)
          \/ GiveUp("ring", "ring pages", whole)
          \/ GiveUp("window", "window", mem)
          \/ GiveUp("test", "temp page", mem)
          \/ GiveUp("test", "temp page", Inserted(1))
      BY <2>4 DEF AllocationFails, whole
    <3> QED
      BY <1>t, <2>1, <2>2, <2>3, <3>1 DEF Failures
  <2>5. CASE StartFails
    BY <1>t, <2>3, <2>5 DEF StartFails, Failures
  <2> QED
    BY <2>4, <2>5
<1>2. /\ pc = at /\ pc' = "bound" /\ mem' = memory
      /\ logged' = logged \cup {what}
      /\ UNCHANGED <<loads, probes, undone, pci, fops, priv, power, ring, written>>
  BY <1>1 DEF GiveUp, Step
<1>3. Types'
  BY <1>1, <1>2 DEF Types, Places, RingType
<1>4. CountInv' /\ MasterInv' /\ FopsInv'
  BY <1>2, Named DEF CountInv, MasterInv, FopsInv
<1>5. PowerInv'
  <2>1. CASE at = "wait"
    <3>a. power.count = 1
      BY <1>2, <2>1 DEF PowerInv, Awake
    <3>1. power.count > 0
      BY <3>a
    <3>r. power.request
      BY <1>2, <2>1 DEF PowerInv, Awake
    <3>2. "ring start" \in logged'
      BY <1>1, <1>2, <2>1
    <3> QED
      BY <1>2, <3>1, <3>r, <3>2, Named
         DEF PowerInv, AwakeOnlyAfterFailedStart, Calls, Later, Awake, Rewound
  <2>2. CASE at \in {"status", "ring", "window", "test"}
    <3>a. power.count = 0
      BY <1>2, <2>2 DEF PowerInv, Calls, Later, Awake, Rewound
    <3>1. ~(power.count > 0)
      BY <3>a
    <3>r. ~power.request
      BY <1>2, <2>2 DEF PowerInv
    <3>2. "ring start" \notin logged'
      BY <1>1, <1>2, <2>2 DEF PowerInv, Calls, Later
    <3> QED
      BY <1>2, <3>1, <3>r, <3>2, Named
         DEF PowerInv, AwakeOnlyAfterFailedStart, Calls, Later, Awake, Rewound
  <2> QED
    BY <2>1, <2>2
<1>6. SetupInv' /\ ReadyInv'
  <2>1. logged' # {}
    BY <1>2
  <2> QED
    BY <1>2, <2>1 DEF SetupInv, ReadyInv, RingReadyUnlessLogged, Awake, Rewound
<1>7. OldRingInv'
  <2>1. /\ mem.entry \in Nat /\ memory.entry \in Nat
        /\ ring.start \in Nat /\ ring.hws \in Nat
    BY <1>t DEF MemType, RingType
  <2>2. memory.entry >= mem.entry
    BY <1>1
  <2> QED
    BY <1>2, <2>1, <2>2, DriverAssumption DEF OldRingInv, Awake, Rewound
<1> QED
  BY <1>3, <1>4, <1>5, <1>6, <1>7

\* What is left of the invariant by a step from one ring register to the next,
\* the values in the ring's registers aside.
LEMMA WriteFrame ==
  ASSUME IInv, pc \in Awake \ {"wait"}, pc' \in Awake \ {"hws"}, ring' \in RingType',
         logged' \in {logged, logged \cup {"ring head"}},
         UNCHANGED <<loads, probes, undone, pci, fops, priv, mem, power, written>>
  PROVE  /\ Types' /\ CountInv' /\ MasterInv' /\ FopsInv' /\ PowerInv'
         /\ Asleep' <=> Asleep
         /\ mem.ring >= 1 /\ mem.ring + RingPages <= mem.entry
         /\ mem.regs = "mapped" /\ mem.gsm = "mapped"
<1> USE DEF IInv, Awake, Rewound
<1>1. Types'
  BY DEF Types, Places, Calls, Later, Failures
<1>2. CountInv' /\ MasterInv' /\ FopsInv'
  BY Named DEF CountInv, MasterInv, FopsInv
<1>3. PowerInv'
  BY Named DEF PowerInv, AwakeOnlyAfterFailedStart, Calls, Later
<1>4. Asleep' <=> Asleep
  BY DEF Asleep
<1>5. /\ mem.ring >= 1 /\ mem.ring + RingPages <= mem.entry
      /\ mem.regs = "mapped" /\ mem.gsm = "mapped"
  BY DEF SetupInv, ReadyInv
<1> QED
  BY <1>1, <1>2, <1>3, <1>4, <1>5

\* What a write of a ring register is: taken, or dropped by a GT that sleeps.
LEMMA WriteIs ==
  ASSUME IInv, NEW from \in Awake \ {"wait"}, NEW to \in Awake \ {"hws"},
         NEW registers \in RingType, Write(from, to, registers)
  PROVE  /\ pc = from /\ pc' = to /\ ring' \in RingType'
         /\ ring' = registers \/ (Asleep /\ ring' = ring)
         /\ UNCHANGED <<loads, probes, undone, pci, fops, priv, mem, power, logged,
                        written>>
BY DEF Write, Step, IInv, Types, RingType

\* The registers of the ring, from the status page to RING_VALID.
LEMMA RingInv ==
  ASSUME IInv,
         WriteHws \/ Stop \/ ClearHead \/ ClearTail \/ Recheck \/ WriteStart \/ WriteCtl
  PROVE  IInv'
<1>t. /\ ring \in RingType /\ mem \in MemType /\ loads \in Nat \ {0}
      /\ RingPages \in Nat \ {0}
  BY DriverAssumption DEF IInv, Types
<1>i. SetupInv /\ ReadyInv /\ OldRingInv
  BY DEF IInv
<1>1. CASE WriteHws
  <2> DEFINE registers == [ring EXCEPT !.hws = mem.ring - 1, !.hwsLoad = loads]
  <2>0. mem.ring - 1 \in Nat /\ loads \in 0 .. loads
    <3>1. mem.ring >= 1
      BY <1>1, <1>i DEF WriteHws, Write, Step, SetupInv, Awake
    <3> QED
      BY <1>t, <3>1 DEF MemType
  <2>1. /\ registers \in RingType
        /\ registers.hws = mem.ring - 1 /\ registers.hwsLoad = loads
        /\ registers.ctl = ring.ctl
        /\ registers.start = ring.start /\ registers.startLoad = ring.startLoad
    BY <1>t, <2>0 DEF RingType
  <2> HIDE DEF registers
  <2>2. /\ pc = "hws" /\ pc' = "stop" /\ ring' \in RingType'
        /\ ring' = registers \/ (Asleep /\ ring' = ring)
        /\ UNCHANGED <<loads, probes, undone, pci, fops, priv, mem, power, logged,
                       written>>
    BY <1>1, <2>1, WriteIs DEF WriteHws, registers, Awake, Rewound
  <2>f. /\ Types' /\ CountInv' /\ MasterInv' /\ FopsInv' /\ PowerInv'
        /\ Asleep' <=> Asleep
        /\ mem.ring >= 1 /\ mem.ring + RingPages <= mem.entry
        /\ mem.regs = "mapped" /\ mem.gsm = "mapped"
    BY <2>1, <2>2, WriteFrame DEF Awake, Rewound
  <2>s. SetupInv'
    BY <1>i, <2>1, <2>2, <2>f DEF SetupInv, Awake, Rewound
  <2>r. ReadyInv'
    BY <1>i, <2>1, <2>2, <2>f
       DEF ReadyInv, RingReadyUnlessLogged, OwnStatus, OwnStart, Awake, Rewound
  <2>o. OldRingInv'
    BY <1>t, <1>i, <2>1, <2>2, <2>f DEF OldRingInv, Awake, Rewound, RingType, MemType
  <2> QED
    BY <2>f, <2>s, <2>r, <2>o DEF IInv
<1>2. CASE Stop
  <2> DEFINE registers == [ring EXCEPT !.ctl = FALSE]
  <2>1. /\ registers \in RingType
        /\ ~registers.ctl
        /\ registers.hws = ring.hws
        /\ registers.hwsLoad = ring.hwsLoad
        /\ registers.start = ring.start
        /\ registers.startLoad = ring.startLoad
    BY <1>t DEF RingType
  <2> HIDE DEF registers
  <2>2. /\ pc = "stop" /\ pc' = "head" /\ ring' \in RingType'
        /\ ring' = registers \/ (Asleep /\ ring' = ring)
        /\ UNCHANGED <<loads, probes, undone, pci, fops, priv, mem, power, logged,
                       written>>
    BY <1>2, <2>1, WriteIs DEF Stop, Stopped, registers, Awake, Rewound
  <2>f. /\ Types' /\ CountInv' /\ MasterInv' /\ FopsInv' /\ PowerInv'
        /\ Asleep' <=> Asleep
        /\ mem.ring >= 1 /\ mem.ring + RingPages <= mem.entry
        /\ mem.regs = "mapped" /\ mem.gsm = "mapped"
    BY <2>1, <2>2, WriteFrame DEF Awake, Rewound
  <2>s. SetupInv'
    BY <1>i, <2>1, <2>2, <2>f DEF SetupInv, Awake, Rewound
  <2>r. ReadyInv'
    BY <1>i, <2>1, <2>2, <2>f
       DEF ReadyInv, RingReadyUnlessLogged, OwnStatus, OwnStart, Awake, Rewound
  <2>o. OldRingInv'
    BY <1>t, <1>i, <2>1, <2>2, <2>f DEF OldRingInv, Awake, Rewound, RingType, MemType
  <2> QED
    BY <2>f, <2>s, <2>r, <2>o DEF IInv
<1>h. \A registers \in HeadCleared :
        /\ registers \in RingType
        /\ registers.hws = ring.hws /\ registers.hwsLoad = ring.hwsLoad
        /\ registers.ctl = ring.ctl
        /\ registers.start = ring.start /\ registers.startLoad = ring.startLoad
  BY <1>t DEF HeadCleared, RingType
<1>3. CASE ClearHead
  <2>0. PICK registers \in HeadCleared : Write("head", "tail", registers)
    BY <1>3 DEF ClearHead
  <2>1. /\ pc = "head" /\ pc' = "tail" /\ ring' \in RingType'
        /\ ring' = registers \/ ring' = ring
        /\ UNCHANGED <<loads, probes, undone, pci, fops, priv, mem, power, logged,
                       written>>
    BY <1>h, <2>0, WriteIs DEF Awake, Rewound
  <2>2. /\ ring'.hws = ring.hws /\ ring'.hwsLoad = ring.hwsLoad
        /\ ring'.ctl = ring.ctl
        /\ ring'.start = ring.start /\ ring'.startLoad = ring.startLoad
    BY <1>h, <2>1
  <2>f. /\ Types' /\ CountInv' /\ MasterInv' /\ FopsInv' /\ PowerInv'
        /\ Asleep' <=> Asleep
        /\ mem.ring >= 1 /\ mem.ring + RingPages <= mem.entry
        /\ mem.regs = "mapped" /\ mem.gsm = "mapped"
    BY <2>1, <2>2, WriteFrame DEF Awake, Rewound
  <2>s. SetupInv'
    BY <1>i, <2>1, <2>2, <2>f DEF SetupInv, Awake, Rewound
  <2>r. ReadyInv'
    BY <1>i, <2>1, <2>2, <2>f
       DEF ReadyInv, RingReadyUnlessLogged, OwnStatus, OwnStart, Awake, Rewound
  <2>o. OldRingInv'
    BY <1>t, <1>i, <2>1, <2>2, <2>f DEF OldRingInv, Awake, Rewound, RingType, MemType
  <2> QED
    BY <2>f, <2>s, <2>r, <2>o DEF IInv
<1>4. CASE ClearTail
  <2> DEFINE registers == [ring EXCEPT !.tail = 0]
  <2>1. /\ registers \in RingType
        /\ registers.hws = ring.hws
        /\ registers.hwsLoad = ring.hwsLoad
        /\ registers.ctl = ring.ctl
        /\ registers.start = ring.start
        /\ registers.startLoad = ring.startLoad
    BY <1>t DEF RingType
  <2> HIDE DEF registers
  <2>2. /\ pc = "tail" /\ pc' = "recheck" /\ ring' \in RingType'
        /\ ring' = registers \/ (Asleep /\ ring' = ring)
        /\ UNCHANGED <<loads, probes, undone, pci, fops, priv, mem, power, logged,
                       written>>
    BY <1>4, <2>1, WriteIs DEF ClearTail, registers, Awake, Rewound
  <2>f. /\ Types' /\ CountInv' /\ MasterInv' /\ FopsInv' /\ PowerInv'
        /\ Asleep' <=> Asleep
        /\ mem.ring >= 1 /\ mem.ring + RingPages <= mem.entry
        /\ mem.regs = "mapped" /\ mem.gsm = "mapped"
    BY <2>1, <2>2, WriteFrame DEF Awake, Rewound
  <2>s. SetupInv'
    BY <1>i, <2>1, <2>2, <2>f DEF SetupInv, Awake, Rewound
  <2>r. ReadyInv'
    BY <1>i, <2>1, <2>2, <2>f
       DEF ReadyInv, RingReadyUnlessLogged, OwnStatus, OwnStart, Awake, Rewound
  <2>o. OldRingInv'
    BY <1>t, <1>i, <2>1, <2>2, <2>f DEF OldRingInv, Awake, Rewound, RingType, MemType
  <2> QED
    BY <2>f, <2>s, <2>r, <2>o DEF IInv
<1>5. CASE Recheck
  <2>1. /\ pc = "recheck" /\ pc' = "start" /\ ring' \in {ring} \cup HeadCleared
        /\ logged' \in {logged, logged \cup {"ring head"}}
        /\ UNCHANGED <<loads, probes, undone, pci, fops, priv, mem, power, written>>
    BY <1>5 DEF Recheck, Step
  <2>2. /\ ring' \in RingType'
        /\ ring'.hws = ring.hws /\ ring'.hwsLoad = ring.hwsLoad
        /\ ring'.ctl = ring.ctl
        /\ ring'.start = ring.start /\ ring'.startLoad = ring.startLoad
    <3>1. RingType' = RingType
      BY <2>1 DEF RingType
    <3> QED
      BY <1>t, <1>h, <2>1, <3>1
  <2>f. /\ Types' /\ CountInv' /\ MasterInv' /\ FopsInv' /\ PowerInv'
        /\ Asleep' <=> Asleep
        /\ mem.ring >= 1 /\ mem.ring + RingPages <= mem.entry
        /\ mem.regs = "mapped" /\ mem.gsm = "mapped"
    BY <2>1, <2>2, WriteFrame DEF Awake, Rewound
  <2>s. SetupInv'
    BY <1>i, <2>1, <2>2, <2>f DEF SetupInv, Awake, Rewound
  <2>r. ReadyInv'
    BY <1>i, <2>1, <2>2, <2>f
       DEF ReadyInv, RingReadyUnlessLogged, OwnStatus, OwnStart, Awake, Rewound
  <2>o. OldRingInv'
    BY <1>t, <1>i, <2>1, <2>2, <2>f DEF OldRingInv, Awake, Rewound, RingType, MemType
  <2> QED
    BY <2>f, <2>s, <2>r, <2>o DEF IInv
<1>6. CASE WriteStart
  <2> DEFINE registers == [ring EXCEPT !.start = mem.ring, !.startLoad = loads]
  <2>0. mem.ring \in Nat /\ loads \in 0 .. loads
    BY <1>t DEF MemType
  <2>1. /\ registers \in RingType
        /\ registers.start = mem.ring /\ registers.startLoad = loads
        /\ registers.hws = ring.hws /\ registers.hwsLoad = ring.hwsLoad
        /\ registers.ctl = ring.ctl
    BY <1>t, <2>0 DEF RingType
  <2> HIDE DEF registers
  <2>2. /\ pc = "start" /\ pc' = "valid" /\ ring' \in RingType'
        /\ ring' = registers \/ (Asleep /\ ring' = ring)
        /\ UNCHANGED <<loads, probes, undone, pci, fops, priv, mem, power, logged,
                       written>>
    BY <1>6, <2>1, WriteIs DEF WriteStart, registers, Awake, Rewound
  <2>f. /\ Types' /\ CountInv' /\ MasterInv' /\ FopsInv' /\ PowerInv'
        /\ Asleep' <=> Asleep
        /\ mem.ring >= 1 /\ mem.ring + RingPages <= mem.entry
        /\ mem.regs = "mapped" /\ mem.gsm = "mapped"
    BY <2>1, <2>2, WriteFrame DEF Awake, Rewound
  <2>s. SetupInv'
    BY <1>i, <2>1, <2>2, <2>f DEF SetupInv, Awake, Rewound
  <2>r. ReadyInv'
    BY <1>i, <2>1, <2>2, <2>f
       DEF ReadyInv, RingReadyUnlessLogged, OwnStatus, OwnStart, Awake, Rewound
  <2>o. OldRingInv'
    BY <1>t, <1>i, <2>1, <2>2, <2>f DEF OldRingInv, Awake, Rewound, RingType, MemType
  <2> QED
    BY <2>f, <2>s, <2>r, <2>o DEF IInv
<1>7. CASE WriteCtl
  <2>0. PICK valid \in {ring.ctl, TRUE} :
          Write("valid", "wait", [ring EXCEPT !.ctl = valid])
    BY <1>7 DEF WriteCtl
  <2> DEFINE registers == [ring EXCEPT !.ctl = valid]
  <2>1. /\ registers \in RingType
        /\ registers.hws = ring.hws /\ registers.hwsLoad = ring.hwsLoad
        /\ registers.start = ring.start /\ registers.startLoad = ring.startLoad
    BY <1>t DEF RingType
  <2> HIDE DEF registers
  <2>2. /\ pc = "valid" /\ pc' = "wait" /\ ring' \in RingType'
        /\ ring' = registers \/ (Asleep /\ ring' = ring)
        /\ UNCHANGED <<loads, probes, undone, pci, fops, priv, mem, power, logged,
                       written>>
    BY <2>0, <2>1, WriteIs DEF registers, Awake, Rewound
  <2>f. /\ Types' /\ CountInv' /\ MasterInv' /\ FopsInv' /\ PowerInv'
        /\ Asleep' <=> Asleep
        /\ mem.ring >= 1 /\ mem.ring + RingPages <= mem.entry
        /\ mem.regs = "mapped" /\ mem.gsm = "mapped"
    BY <2>1, <2>2, WriteFrame DEF Awake, Rewound
  <2>s. SetupInv'
    BY <1>i, <2>1, <2>2, <2>f DEF SetupInv, Awake, Rewound
  <2>r. ReadyInv'
    BY <1>i, <2>1, <2>2, <2>f
       DEF ReadyInv, RingReadyUnlessLogged, OwnStatus, OwnStart, Awake, Rewound
  <2>o. OldRingInv'
    BY <1>t, <1>i, <2>1, <2>2, <2>f DEF OldRingInv, Awake, Rewound, RingType, MemType
  <2> QED
    BY <2>f, <2>s, <2>r, <2>o DEF IInv
<1> QED
  BY <1>1, <1>2, <1>3, <1>4, <1>5, <1>6, <1>7

\* The forcewake reference: taken before the ring's registers are written, and
\* put back when the ring has started.
LEMMA ReferenceInv ==
  ASSUME IInv, Awaken \/ Starts
  PROVE  IInv'
<1> USE DEF IInv
<1>t. /\ pc \in Places /\ pci \in PciType /\ mem \in MemType
      /\ power \in PowerType /\ ring \in RingType
  BY DEF Types
<1>1. CASE Awaken
  <2>1. /\ pc = "window" /\ pc' = "hws"
        /\ power' = [count |-> power.count + 1, request |-> TRUE]
        /\ logged' \in {logged, logged \cup {"forcewake"}}
        /\ UNCHANGED <<loads, probes, undone, pci, fops, priv, mem, ring, written>>
    <3>1. PICK late \in SUBSET {"forcewake"} : logged' = logged \cup late
      BY <1>1 DEF Awaken
    <3>2. late = {} \/ late = {"forcewake"}
      BY <3>1
    <3> QED
      BY <1>1, <3>1, <3>2 DEF Awaken, Step
  <2>a. power.count = 0
    BY <2>1 DEF PowerInv, Calls, Later, Awake, Rewound
  <2>b. /\ power' \in PowerType
        /\ power'.count = 1 /\ power'.request
    BY <1>t, <2>1, <2>a DEF PowerType
  <2>2. /\ power' \in PowerType
        /\ power'.count = 1 /\ power'.request
        /\ logged' \subseteq Failures
        /\ "ring start" \in logged' <=> "ring start" \in logged
    BY <2>1, <2>b DEF Types, Failures
  <2>3. Types'
    BY <1>t, <2>1, <2>2 DEF Types, Places, Calls, Later, Awake, Rewound, RingType
  <2>4. CountInv' /\ MasterInv'
    BY <1>t, <2>1, <2>2 DEF CountInv, MasterInv
  <2>5. FopsInv'
    BY <2>1, <2>2, Named DEF FopsInv
  <2>6. PowerInv'
    BY <2>1, <2>2, Named
       DEF PowerInv, AwakeOnlyAfterFailedStart, Calls, Later, Awake, Rewound
  <2>7. SetupInv'
    BY <1>t, <2>1, <2>2, DriverAssumption DEF SetupInv, Awake, Rewound, MemType
  <2>8. ReadyInv'
    BY <2>1, <2>2
       DEF ReadyInv, RingReadyUnlessLogged, OwnStart, OwnStatus, Asleep, Awake, Rewound
  <2>9. OldRingInv'
    BY <1>t, <2>1, <2>2, DriverAssumption
       DEF SetupInv, OldRingInv, Awake, Rewound, MemType, RingType
  <2> QED
    BY <2>3, <2>4, <2>5, <2>6, <2>7, <2>8, <2>9 DEF IInv
<1>2. CASE Starts
  <2>1. /\ pc = "wait" /\ pc' = "test"
        /\ power' = [count |-> power.count - 1, request |-> power.count - 1 > 0]
        /\ Asleep \/ Started
        /\ UNCHANGED <<loads, probes, undone, pci, fops, priv, mem, logged, ring,
                       written>>
    BY <1>2 DEF Starts, Sees, CountPut, Step
  <2>a. power.count = 1
    BY <2>1 DEF PowerInv, Awake
  <2>2. /\ power' \in PowerType
        /\ power'.count = 0 /\ ~power'.request
    <3>a. power.count - 1 = 0 /\ (power.count - 1 > 0) = FALSE
      BY <2>a
    <3>1. power' = [count |-> 0, request |-> FALSE]
      BY <2>1, <3>a
    <3> QED
      BY <3>1 DEF PowerType
  <2>3. Types'
    BY <1>t, <2>1, <2>2 DEF Types, Places, Calls, Later, Awake, Rewound, RingType
  <2>4. CountInv' /\ MasterInv'
    BY <1>t, <2>1, <2>2 DEF CountInv, MasterInv
  <2>5. FopsInv'
    BY <2>1, <2>2, Named DEF FopsInv
  <2>6. PowerInv'
    BY <2>1, <2>2, Named
       DEF PowerInv, AwakeOnlyAfterFailedStart, Calls, Later, Awake, Rewound
  <2>7. SetupInv'
    BY <1>t, <2>1, <2>2, DriverAssumption DEF SetupInv, Awake, Rewound, MemType
  <2>8. ReadyInv'
    BY <2>1, <2>2
       DEF ReadyInv, RingReadyUnlessLogged, Started, OwnStart, OwnStatus, Asleep,
           Awake, Rewound
  <2>9. OldRingInv'
    BY <1>t, <2>1, <2>2, DriverAssumption
       DEF SetupInv, OldRingInv, Awake, Rewound, MemType, RingType
  <2> QED
    BY <2>3, <2>4, <2>5, <2>6, <2>7, <2>8, <2>9 DEF IInv
<1> QED
  BY <1>1, <1>2

\* Behind the setup only the property itself is left of what it had reached.
LEMMA ReadyBound ==
  ASSUME pc' = "bound", RingReadyUnlessLogged'
  PROVE  ReadyInv'
BY DEF ReadyInv, Awake, Rewound

\* The self test, the removal, and the engine on its own.
LEMMA BoundInv ==
  ASSUME IInv, SelfTest \/ Remove \/ Run
  PROVE  IInv'
<1> USE DEF IInv
<1>t. /\ pc \in Places /\ pci \in PciType /\ mem \in MemType
      /\ power \in PowerType /\ ring \in RingType
  BY DEF Types
<1>1. CASE SelfTest
  <2>1. /\ pc = "test" /\ pc' = "bound"
        /\ mem' = [mem EXCEPT !.entry = @ + 1]
        /\ written' = Window
        /\ \E to \in {ring.tail, 1} : ring' = [ring EXCEPT !.tail = to]
        /\ UNCHANGED <<loads, probes, undone, pci, fops, priv, power, logged>>
    BY <1>1 DEF SelfTest, Inserted, Step
  <2>2. /\ mem' \in MemType
        /\ mem'.entry = mem.entry + 1 /\ mem'.ring = mem.ring
        /\ mem'.regs = mem.regs /\ mem'.gsm = mem.gsm
    BY <1>t, <2>1 DEF MemType
  <2>3. /\ ring' \in RingType'
        /\ ring'.hws = ring.hws /\ ring'.hwsLoad = ring.hwsLoad
        /\ ring'.ctl = ring.ctl
        /\ ring'.start = ring.start /\ ring'.startLoad = ring.startLoad
    BY <1>t, <2>1 DEF RingType
  <2>b. /\ power.count = 0 /\ ~(power.count > 0)
        /\ ~power.request /\ "ring start" \notin logged
    <3>1. power.count = 0
      BY <2>1 DEF PowerInv, Calls, Later, Awake, Rewound
    <3>2. ~(power.count > 0)
      BY <3>1
    <3> QED
      BY <2>1, <3>1, <3>2 DEF PowerInv, Calls, Later
  <2>4. Types'
    BY <1>t, <2>1, <2>2, <2>3, <2>b
       DEF Types, Places, Calls, Later, Awake, Rewound, RingType
  <2>5. CountInv' /\ MasterInv'
    BY <1>t, <2>1, <2>2, <2>3, <2>b DEF CountInv, MasterInv
  <2>6. FopsInv'
    BY <2>1, <2>2, <2>3, <2>b, Named DEF FopsInv
  <2>7. PowerInv'
    BY <2>1, <2>2, <2>3, <2>b, Named
       DEF PowerInv, AwakeOnlyAfterFailedStart, Calls, Later, Awake, Rewound
  <2>8. SetupInv'
    BY <1>t, <2>1, <2>2, <2>3, <2>b, DriverAssumption
       DEF SetupInv, Awake, Rewound, MemType
  <2>9. ReadyInv'
    <3>1. /\ mem.regs = "mapped" /\ mem.gsm = "mapped"
          /\ ~Asleep => ring.ctl /\ OwnStart /\ OwnStatus
      BY <2>1 DEF ReadyInv
    <3>2. logged' = {} => ~Asleep
      BY <2>1 DEF Asleep
    <3>3. loads' = loads /\ logged' = logged /\ pc' = "bound"
      BY <2>1
    <3>4. RingReadyUnlessLogged'
      BY <2>2, <2>3, <3>1, <3>2, <3>3 DEF RingReadyUnlessLogged, OwnStart, OwnStatus
    <3> QED
      BY <3>3, <3>4, ReadyBound
  <2>10. OldRingInv'
    <3>1. loads' = loads /\ pc' = "bound"
      BY <2>1
    <3>2. ring.start \in Nat /\ ring.hws \in Nat /\ mem.entry \in Nat
      BY <1>t DEF RingType, MemType
    <3> QED
      BY <2>2, <2>3, <3>1, <3>2, DriverAssumption DEF OldRingInv, Awake, Rewound
  <2> QED
    BY <2>4, <2>5, <2>6, <2>7, <2>8, <2>9, <2>10 DEF IInv
<1>2. CASE Remove
  <2>1. /\ pc = "bound" /\ pc' = "unbound"
        /\ mem' = [mem EXCEPT !.regs = IF @ = "mapped" THEN "gone" ELSE @,
                             !.entry = mem.entry]
        /\ fops' = fops \ TakenBack(priv) /\ priv' = Zeroed
        /\ pci' = [enabled |-> pci.enabled - 1,
                   master  |-> pci.master /\ pci.enabled - 1 > 0]
        /\ UNCHANGED <<loads, probes, undone, power, logged, ring, written>>
    BY <1>2 DEF Remove, Finish, Disabled, EntryKept, Step
  <2>a. pci.enabled = undone + 1
    BY <2>1 DEF CountInv
  <2>2. /\ mem' \in MemType
        /\ mem'.entry = mem.entry
    BY <1>t, <2>1 DEF MemType, Mapping
  <2>3. pci'.enabled = pci.enabled - 1 /\ (pci'.master => pci.enabled - 1 > 0)
    BY <2>1
  <2>b. pci' \in PciType
    <3>1. pci.master \in BOOLEAN /\ undone \in Nat
      BY <1>t DEF Types, PciType
    <3> QED
      BY <2>1, <2>a, <3>1 DEF PciType
  <2>c. fops' = {} /\ priv' \in [Fields -> {"null", "set", "error"}]
    <3>1. /\ fops \subseteq AllParts
          /\ \A f \in Fields : f \in fops => priv[f] # "null"
      BY <2>1, Named DEF FopsInv
    <3> QED
      BY <2>1, <3>1, AllTakenBack DEF Zeroed
  <2>4. Types'
    BY <1>t, <2>1, <2>2, <2>b, <2>c DEF Types, Places, RingType
  <2>5. CountInv' /\ MasterInv'
    <3>1. undone \in Nat /\ probes \in Nat
      BY DEF Types
    <3> QED
      BY <2>1, <2>3, <2>a, <3>1 DEF CountInv, MasterInv
  <2>6. FopsInv'
    BY <2>1, <2>c, Named DEF FopsInv
  <2>7. PowerInv' /\ SetupInv' /\ ReadyInv'
    BY <2>1, Named
       DEF PowerInv, AwakeOnlyAfterFailedStart, SetupInv, ReadyInv,
           RingReadyUnlessLogged, Calls, Later, Awake, Rewound
  <2>8. OldRingInv'
    BY <2>1, <2>2 DEF OldRingInv, Awake, Rewound
  <2> QED
    BY <2>4, <2>5, <2>6, <2>7, <2>8 DEF IInv
<1>3. CASE Run
  <2>1. /\ ring' = [ring EXCEPT !.head = ring.tail]
        /\ UNCHANGED <<pc, loads, probes, undone, pci, fops, priv, mem, power, logged,
                       written>>
    BY <1>3 DEF Run
  <2>2. /\ ring' \in RingType'
        /\ ring'.hws = ring.hws /\ ring'.hwsLoad = ring.hwsLoad
        /\ ring'.ctl = ring.ctl
        /\ ring'.start = ring.start /\ ring'.startLoad = ring.startLoad
    BY <1>t, <2>1 DEF RingType
  <2>3. Types'
    BY <1>t, <2>1, <2>2 DEF Types, Places, Calls, Later, Awake, Rewound, RingType
  <2>4. CountInv' /\ MasterInv'
    BY <1>t, <2>1, <2>2 DEF CountInv, MasterInv
  <2>5. FopsInv'
    BY <2>1, <2>2, Named DEF FopsInv
  <2>6. PowerInv'
    BY <2>1, <2>2, Named
       DEF PowerInv, AwakeOnlyAfterFailedStart, Calls, Later, Awake, Rewound
  <2>7. SetupInv'
    BY <1>t, <2>1, <2>2, DriverAssumption DEF SetupInv, Asleep, Awake, Rewound, MemType
  <2>8. ReadyInv'
    BY <2>1, <2>2
       DEF ReadyInv, RingReadyUnlessLogged, OwnStart, OwnStatus, Asleep, Awake, Rewound
  <2>9. OldRingInv'
    BY <1>t, <2>1, <2>2, DriverAssumption
       DEF SetupInv, OldRingInv, Awake, Rewound, MemType, RingType
  <2> QED
    BY <2>3, <2>4, <2>5, <2>6, <2>7, <2>8, <2>9 DEF IInv
<1> QED
  BY <1>1, <1>2, <1>3
-----------------------------------------------------------------------------
\* Every step keeps the invariant.
LEMMA StepInv == IInv /\ [Next]_vars => IInv'
<1> SUFFICES ASSUME IInv, [Next]_vars PROVE IInv'
  OBVIOUS
<1>1. CASE UNCHANGED vars
  <2>1. Types' /\ CountInv' /\ MasterInv' /\ FopsInv'
    BY <1>1 DEF vars, IInv, Types, CountInv, MasterInv, FopsInv, RingType
  <2>2. PowerInv' /\ SetupInv'
    BY <1>1 DEF vars, IInv, PowerInv, AwakeOnlyAfterFailedStart, SetupInv, Asleep
  <2>3. ReadyInv' /\ OldRingInv'
    BY <1>1 DEF vars, IInv, ReadyInv, RingReadyUnlessLogged, OwnStart, OwnStatus,
                Asleep, OldRingInv
  <2> QED
    BY <2>1, <2>2, <2>3 DEF IInv
<1>2. CASE Next
  BY <1>2, ProbeInv, FopsStepInv, MapInv, ObjectInv, GiveUpInv, ReferenceInv, RingInv,
     BoundInv DEF Next
<1> QED
  BY <1>1, <1>2

\* The invariant holds from the first binding on.
LEMMA Invariance == Spec => []IInv
BY InitInv, StepInv, PTL DEF Spec

\* Type correctness; the counts are bounded by the number of probes.
THEOREM DriverTypeCorrect == Spec => []TypeOK
<1>1. IInv => TypeOK
  <2> SUFFICES ASSUME IInv PROVE TypeOK
    OBVIOUS
  <2>1. /\ pci \in PciType /\ undone \in Nat /\ probes \in 0 .. MaxProbes
        /\ pc \in Places
    BY DEF IInv, Types
  <2>2. /\ undone \in 0 .. probes /\ pci.enabled \in 0 .. MaxProbes
        /\ pci.master \in BOOLEAN
    BY <2>1, DriverAssumption DEF IInv, CountInv, PciType
  <2>3. pci \in [enabled : 0 .. MaxProbes, master : BOOLEAN]
    BY <2>1, <2>2 DEF PciType
  <2>4. fops \subseteq AllParts
    BY <2>1, Named DEF IInv, FopsInv, Before, Places, Calls
  <2> QED
    BY <2>1, <2>2, <2>3, <2>4
       DEF IInv, Types, TypeOK, Places, Calls, Later, Awake, Rewound, MemType,
           PowerType, RingType, Failures
<1> QED
  BY <1>1, Invariance, PTL

\* Whichever part of the character device fails to register, nugpgpu_fops_finish,
\* which goes by what the failure left in nugpgpu_private, takes back all that was
\* registered, and so does a removal; a probe goes on only with the whole of it.
THEOREM DriverNodeWhole == Spec => []DeviceNodeWhole
<1>1. IInv => DeviceNodeWhole
  BY DEF IInv, FopsInv, DeviceNodeWhole
<1> QED
  BY <1>1, Invariance, PTL

\* The forcewake reference that nugpgpu_ringbuffer_render_init takes is kept by
\* a failed start of the ring and by nothing else, however many bindings there
\* were.
THEOREM DriverSleeps == Spec => []AwakeOnlyAfterFailedStart
<1>1. IInv => AwakeOnlyAfterFailedStart
  BY DEF IInv, PowerInv
<1> QED
  BY <1>1, Invariance, PTL

\* nugpgpu_pci_remove and the error paths of nugpgpu_pci_probe: the device stays
\* enabled by the probes that failed half-way and by no other.
THEOREM DriverLeak == Spec => []EnabledOnlyByLeak
<1>1. IInv => EnabledOnlyByLeak
  <2> SUFFICES ASSUME IInv, pc = "unbound"
               PROVE  pci.enabled = undone /\ (pci.master => undone > 0)
    BY DEF EnabledOnlyByLeak
  <2>1. undone \in Nat /\ pci.enabled = undone + 0
    BY DEF IInv, Types, CountInv
  <2>2. pci.master => undone > 0
    BY DEF IInv, MasterInv
  <2> QED
    BY <2>1, <2>2
<1> QED
  BY <1>1, Invariance, PTL

\* A probe that returned without a message has its registers and its table, and
\* its ring runs on its own pages: what is checked is the answer of the device, not
\* that the writes arrived (wait_for in nugpgpu_ringbuffer_render_init).
THEOREM DriverRingReady == Spec => []RingReadyUnlessLogged
<1>1. IInv => RingReadyUnlessLogged
  BY DEF IInv, ReadyInv
<1> QED
  BY <1>1, Invariance, PTL

\* No insertion of a later probe overwrites the pages of a ring that this load of
\* the module has set up, whichever writes of the ring's registers were dropped in
\* between: the static entry counter only grows during a load.
THEOREM DriverEngineMemory == Spec => []EngineMemoryInserted
<1>1. IInv => EngineMemoryInserted
  <2> SUFFICES ASSUME IInv PROVE EngineMemoryInserted
    OBVIOUS
  <2>1. ring.hws \in Nat /\ ring.start \in Nat /\ RingPages \in Nat \ {0}
    BY DriverAssumption DEF IInv, Types, RingType
  <2>2. ring.hws < ring.start \/ ring.hws >= ring.start + RingPages =>
          ring.hws \notin ring.start .. ring.start + RingPages - 1
    BY <2>1
  <2> QED
    BY <2>2 DEF IInv, OldRingInv, EngineMemoryInserted
<1> QED
  BY <1>1, Invariance, PTL

\* nugpgpu_ringbuffer_render_init, once the GT has answered that it is awake, stops
\* a ring before it touches the start or rewinds head and tail, also a ring that an
\* earlier load has left enabled.
THEOREM DriverRingUntouched == Spec => ValidRingUntouched
<1> DEFINE Kept == /\ ring'.start = ring.start
                   /\ ring'.tail >= ring.tail
                   /\ ring'.head \in {ring.head, ring.tail}
<1>1. ASSUME IInv, Next, ring.ctl, ring'.ctl, ~Asleep PROVE Kept
  <2>t. ring \in RingType /\ ring.tail \in 0 .. 1 /\ ring.tail >= ring.tail
    BY <1>1 DEF IInv, Types, RingType
  <2>1. pc \notin Rewound
    BY <1>1 DEF IInv, SetupInv
  <2>2. CASE ring' = ring
    BY <2>t, <2>2
  <2>3. CASE WriteHws
    <3>1. ring' = [ring EXCEPT !.hws = mem.ring - 1, !.hwsLoad = loads]
      BY <1>1, <2>3 DEF WriteHws, Write
    <3> QED
      BY <2>t, <3>1 DEF RingType
  <2>4. CASE Stop
    <3>1. ~ring'.ctl
      BY <1>1, <2>t, <2>4 DEF Stop, Stopped, Write, RingType
    <3> QED
      BY <1>1, <3>1
  <2>5. CASE ClearHead \/ ClearTail \/ Recheck \/ WriteStart \/ WriteCtl
    BY <2>1, <2>5 DEF ClearHead, ClearTail, Recheck, WriteStart, WriteCtl, Write,
                      Step, Rewound
  <2>6. CASE SelfTest
    <3>1. PICK tail \in {ring.tail, 1} : ring' = [ring EXCEPT !.tail = tail]
      BY <2>6 DEF SelfTest
    <3>2. tail >= ring.tail
      BY <2>t, <3>1
    <3> QED
      BY <2>t, <3>1, <3>2 DEF RingType
  <2>7. CASE Run
    BY <2>t, <2>7 DEF Run, RingType
  <2>8. \/ ring' = ring \/ WriteHws \/ Stop
        \/ ClearHead \/ ClearTail \/ Recheck \/ WriteStart \/ WriteCtl
        \/ SelfTest \/ Run
    BY <1>1 DEF Next, Reload, Probe, FopsAdd, RegionFails, CdevFails, PointerFails,
                FopsEnds, MmioMap, RegrwInit, GttInit, TableFault, StatusPage,
                RingObject, AllocationFails, StartFails, GiveUp, Awaken, Starts, Remove
  <2> QED
    BY <2>2, <2>3, <2>4, <2>5, <2>6, <2>7, <2>8
<1>2. IInv /\ [Next]_vars => [ring.ctl /\ ring'.ctl /\ ~Asleep => Kept]_vars
  BY <1>1
<1> QED
  BY <1>2, Invariance, PTL DEF Spec, ValidRingUntouched
=============================================================================
