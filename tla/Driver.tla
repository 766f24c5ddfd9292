------------------------------- MODULE Driver -------------------------------
(***************************************************************************)
(* The life of the driver on its device: nugpgpu_pci_probe and             *)
(* nugpgpu_pci_remove with everything they call, over several bindings and *)
(* several loads of the module.                                            *)
(*                                                                         *)
(* Most steps of a probe can fail.  Some failures undo what was done, some *)
(* leave it, and most are logged and ignored.  What outlives a binding is  *)
(* the device (its registers, its translation table), the driver's static  *)
(* variables as long as the module is loaded, and what was never released. *)
(***************************************************************************)
EXTENDS Integers

CONSTANTS
  RingPages,  \* RING_PAGES
  MaxProbes,  \* bound: calls of nugpgpu_pci_probe
  MaxLoads    \* bound: loads of the module

ASSUME DriverAssumption ==
  /\ RingPages \in Nat \ {0}
  /\ MaxProbes \in Nat /\ MaxLoads \in Nat \ {0}

VARIABLES
  pc,       \* the call nugpgpu_pci_probe is at
  loads,    \* how often the module has been loaded
  probes,   \* probes so far
  undone,   \* probes that failed after pci_enable_device (history)
  pci,      \* the PCI core: [enabled (a count), master]
  fops,     \* registered parts of the character device
  priv,     \* the fields of nugpgpu_private that tell nugpgpu_fops_finish what
            \* there is: "null" (zero), "set", or "error" for an ERR_PTR
  mem,      \* [regs, gsm: "null", "mapped" or "gone" (unmapped since);
            \*  entry: static gtt_entry; ring: gva_ringbuffer of the static ring]
  power,    \* forcewake: [count, request]
  logged,   \* failures this binding has logged
  ring,     \* the registers [hws, ctl, start, head, tail] of the device; the
            \* addresses as GTT pages, ctl as RING_VALID, head and tail 1 behind
            \* the self test's commands; [hwsLoad, startLoad]: the load that set
            \* hws and start, 0 if they are the firmware's (history)
  written   \* GTT page the self test's commands were stored at (history)

vars == <<pc, loads, probes, undone, pci, fops, priv, mem, power, logged, ring,
          written>>

\* dev, dev_class and dev_device; c_dev is no pointer.
Fields == {"region", "class", "device"}
Zeroed == [f \in Fields |-> "null"]

\* The parts of the character device, and what nugpgpu_fops_init does next.
After == [region |-> "cdev", cdev |-> "class", class |-> "device",
          device |-> "mmio"]
AllParts == DOMAIN After

Init ==
  /\ pc = "unbound" /\ loads = 1 /\ probes = 0 /\ undone = 0
  /\ pci = [enabled |-> 0, master |-> FALSE]
  /\ fops = {} /\ priv = Zeroed
  /\ mem = [regs |-> "null", gsm |-> "null", entry |-> 0, ring |-> 0]
  /\ power = [count |-> 0, request |-> FALSE]
  /\ logged = {}
  /\ ring = [hws |-> 0, ctl |-> FALSE, start |-> 0, head |-> 0, tail |-> 0,
             hwsLoad |-> 0, startLoad |-> 0]
  /\ written = 0

Step(from, to) == pc = from /\ pc' = to /\ UNCHANGED <<loads, probes>>

\* nugpgpu_exit and nugpgpu_init: unloading removes the driver from its device
\* (Remove) and loading probes it (Probe).  The statics start again from zero.
Reload ==
  /\ pc = "unbound" /\ loads < MaxLoads
  /\ loads' = loads + 1
  /\ mem' = [mem EXCEPT !.entry = 0, !.ring = 0]
  /\ UNCHANGED <<pc, probes, undone, pci, fops, priv, power, logged, ring, written>>

\* A nugpgpu_private that is not zeroed, and kzalloc's.
CountKept == power.count
CountZeroed == 0

\* kzalloc and pci_enable_device; a failure of either leaves nothing enabled.
Probe ==
  /\ pc = "unbound" /\ probes < MaxProbes /\ pc' = "region"
  /\ probes' = probes + 1
  /\ pci' = [pci EXCEPT !.enabled = @ + 1]
  /\ mem' = [mem EXCEPT !.regs = "null", !.gsm = "null"]
  /\ power' = [power EXCEPT !.count = CountZeroed]
  /\ priv' = Zeroed
  /\ logged' = {}
  /\ UNCHANGED <<loads, undone, fops, ring, written>>

\* The field of the part that is being registered gets a value.
Filled(value) == [f \in Fields |-> IF f = pc THEN value ELSE priv[f]]

\* nugpgpu_fops_init, part by part.
FopsAdd ==
  /\ pc \in AllParts /\ Step(pc, After[pc])
  /\ fops' = fops \cup {pc}
  /\ priv' = Filled("set")
  /\ UNCHANGED <<undone, pci, mem, power, logged, ring, written>>

\* nugpgpu_fops_finish takes back the parts whose field is not null, an ERR_PTR
\* included, and always the cdev; what is not there it leaves alone.
TakenBack(fields) == {"cdev"} \cup {f \in Fields : fields[f] # "null"}

Finish(fields) == fops' = fops \ TakenBack(fields) /\ priv' = Zeroed

\* What a failed nugpgpu_fops_init returns: what nugpgpu_fops_finish left in the
\* field, or the error of class_create or device_create, copied out before.
ReturnedLate(error, left) == left
Returned(error, left) == error

\* Behind an error the probe ends, and the device stays enabled ("TODO : free
\* drv_priv, pci_disable_device"); behind a null pointer, PTR_ERR(0), it goes on.
FopsEnds(result) ==
  /\ IF result = "error" THEN Step(pc, "unbound") /\ undone' = undone + 1
                         ELSE Step(pc, "mmio") /\ UNCHANGED undone
  /\ UNCHANGED <<pci, mem, power, logged, ring, written>>

\* There was nothing to unwind.
RegionFails == pc = "region" /\ FopsEnds("error") /\ UNCHANGED <<fops, priv>>

\* cdev_add's error was in a local variable from the start.
CdevFails == pc = "cdev" /\ Finish(priv) /\ FopsEnds("error")

\* The ERR_PTR is in the field when nugpgpu_fops_finish looks at it.
PointerFails ==
  /\ pc \in {"class", "device"}
  /\ Finish(Filled("error"))
  /\ FopsEnds(Returned(Filled("error")[pc], Zeroed[pc]))

\* nugpgpu_mmio_map: its result is ignored.
MmioMap ==
  /\ Step("mmio", "regrw")
  /\ \E regs \in {"null", "mapped"} : mem' = [mem EXCEPT !.regs = regs]
  /\ UNCHANGED <<undone, pci, fops, priv, power, logged, ring, written>>

\* nugpgpu_regrw_init: early_sanitize withdraws a request left by anybody.
\* Without the mapping its first access ends the probing thread.
RegrwInit ==
  /\ IF mem.regs = "mapped"
       THEN Step("regrw", "gsm") /\ power' = [power EXCEPT !.request = FALSE]
       ELSE Step("regrw", "oops") /\ UNCHANGED power
  /\ UNCHANGED <<undone, pci, fops, priv, mem, logged, ring, written>>

\* nugpgpu_gtt_init, with the outcomes module GttProbe finds; nobody looks at
\* the result.  Then pci_set_master, and nugpgpu_hw_init, which clears a
\* register that nobody else looks at.
GttInit ==
  /\ Step("gsm", "status")
  /\ \E gsm \in {"null", "mapped", "gone"} : mem' = [mem EXCEPT !.gsm = gsm]
  /\ pci' = [pci EXCEPT !.master = TRUE]
  /\ UNCHANGED <<undone, fops, priv, power, logged, ring, written>>

\* allocate_object and nugpgpu_gtt_insert take the next entries of the table.
Inserted(n) == [mem EXCEPT !.entry = @ + n]

\* The table is not mapped: the store of a PTE faults, or, behind a null
\* pointer, the read that verifies it.
TableFault ==
  /\ mem.gsm # "mapped"
  /\ Step("status", "oops")
  /\ UNCHANGED <<undone, pci, fops, priv, mem, power, logged, ring, written>>

\* The status page, then the ring's pages.
StatusPage ==
  /\ mem.gsm = "mapped"
  /\ Step("status", "ring")
  /\ mem' = Inserted(1)
  /\ UNCHANGED <<undone, pci, fops, priv, power, logged, ring, written>>

RingObject ==
  /\ Step("ring", "window")
  /\ mem' = [Inserted(RingPages) EXCEPT !.ring = mem.entry]
  /\ UNCHANGED <<undone, pci, fops, priv, power, logged, ring, written>>

\* A failure inside nugpgpu_ringbuffer_render_init, which the probe ignores:
\* before or after the pages were inserted, for want of the window, or in
\* check_dword_temp.
GiveUp(at, what, memory) ==
  /\ Step(at, "bound")
  /\ mem' = memory
  /\ logged' = logged \cup {what}
  /\ UNCHANGED <<undone, pci, fops, priv, power, ring, written>>

AllocationFails ==
  \/ GiveUp("status", "status page", mem)
  \/ mem.gsm = "mapped" /\ GiveUp("status", "status page", Inserted(1))
  \/ GiveUp("ring", "ring pages", mem)
  \/ GiveUp("ring", "ring pages", [Inserted(RingPages) EXCEPT !.ring = mem.entry])
  \/ GiveUp("window", "window", mem)
  \/ GiveUp("test", "temp page", mem)
  \/ GiveUp("test", "temp page", Inserted(1))

\* virtual_start = ioremap_wc(mappable_base + PAGE_SIZE, size): whatever the
\* ring's address, the window shows the GTT pages from 1 on.
Window == 1

\* gpu_forcewake_get.  Its handshake may time out, which is only logged.
Awaken ==
  /\ Step("window", "hws")
  /\ power' = [count |-> power.count + 1, request |-> TRUE]
  /\ \E late \in SUBSET {"forcewake"} : logged' = logged \cup late
  /\ UNCHANGED <<undone, pci, fops, priv, mem, ring, written>>

\* The GT may sleep then: it may drop a write (RegRW), and what it answers to a
\* read says nothing.
Asleep == "forcewake" \in logged
Sees(truth) == IF Asleep THEN BOOLEAN ELSE {truth}

\* A write of the registers of the ring that the device took or dropped.
Write(from, to, registers) ==
  /\ Step(from, to)
  /\ ring' \in IF Asleep THEN {ring, registers} ELSE {registers}
  /\ UNCHANGED <<undone, pci, fops, priv, mem, power, logged, written>>

\* RENDER_HWS_PGA = gva_status, the page just below the ring.
WriteHws ==
  Write("hws", "stop", [ring EXCEPT !.hws = mem.ring - 1, !.hwsLoad = loads])

\* A setup that does not stop the ring first.
LeftRunning == ring.ctl

\* RING_WRITE_CTL(RING, 0), without RING_VALID.
Stopped == FALSE

Stop == Write("stop", "head", [ring EXCEPT !.ctl = Stopped])

\* RING_WRITE_HEAD(RING, 0), which the ring may not take even awake.
HeadCleared == {ring, [ring EXCEPT !.head = 0]}

ClearHead == \E registers \in HeadCleared : Write("head", "tail", registers)

ClearTail == Write("tail", "recheck", [ring EXCEPT !.tail = 0])

\* The head is read back; one that is not zero is written once more, and if it
\* is not zero even then, that is logged and otherwise ignored.
Recheck ==
  /\ Step("recheck", "start")
  /\ \/ TRUE \in Sees(ring.head = 0) /\ UNCHANGED <<ring, logged>>
     \/ /\ FALSE \in Sees(ring.head = 0)
        /\ ring' \in HeadCleared
        /\ \E zero \in Sees(ring'.head = 0) :
             logged' = IF zero THEN logged ELSE logged \cup {"ring head"}
  /\ UNCHANGED <<undone, pci, fops, priv, mem, power, written>>

WriteStart ==
  Write("start", "valid", [ring EXCEPT !.start = mem.ring, !.startLoad = loads])

\* RING_WRITE_CTL(size | RING_VALID), which a dead ring does not take.
WriteCtl ==
  \E valid \in {ring.ctl, TRUE} : Write("valid", "wait", [ring EXCEPT !.ctl = valid])

\* A wait that looks at the head alone, and
\* wait_for(valid && START is ours && HEAD is zero, 50).
StartedByHead == ring.head = 0
Started == ring.ctl /\ ring.start = mem.ring /\ ring.head = 0

\* It times out: -EIO, the forcewake reference is kept.
StartFails == FALSE \in Sees(Started) /\ GiveUp("wait", "ring start", mem)

\* A setup that drops its reference on neither path.
CountHeld == power.count
CountPut == power.count - 1

\* The ring has started; gpu_forcewake_put.
Starts ==
  /\ TRUE \in Sees(Started)
  /\ Step("wait", "test")
  /\ power' = [count |-> CountPut, request |-> CountPut > 0]
  /\ UNCHANGED <<undone, pci, fops, priv, mem, logged, ring, written>>

\* check_dword_temp: a page for the batch, the commands through the window,
\* and the tail register, whose write a sleeping GT may drop (Ring).
SelfTest ==
  /\ Step("test", "bound")
  /\ mem' = Inserted(1)
  /\ written' = Window
  /\ \E tail \in {ring.tail, 1} : ring' = [ring EXCEPT !.tail = tail]
  /\ UNCHANGED <<undone, pci, fops, priv, power, logged>>

\* Removals that leave the device enabled, or give the table's entries back.
EnabledStill == pci.enabled
EntryReset == 0

\* pci_disable_device; no entry of the table is ever given back.
Disabled == pci.enabled - 1
EntryKept == mem.entry

\* nugpgpu_pci_remove: the character device, the register mapping, and
\* pci_disable_device, which does something when the count reaches zero.  The
\* ring is not stopped; the table, the pages and nugpgpu_private are kept.
Remove ==
  /\ Step("bound", "unbound")
  /\ Finish(priv)
  /\ mem' = [mem EXCEPT !.regs = IF @ = "mapped" THEN "gone" ELSE @,
                        !.entry = EntryKept]
  /\ pci' = [enabled |-> Disabled, master |-> pci.master /\ Disabled > 0]
  /\ UNCHANGED <<undone, power, logged, ring, written>>

\* The engine, while it is valid and may read memory, runs to its tail.
Run ==
  /\ ring.ctl /\ pci.master /\ ring.head # ring.tail
  /\ ring' = [ring EXCEPT !.head = ring.tail]
  /\ UNCHANGED <<pc, loads, probes, undone, pci, fops, priv, mem, power, logged,
                 written>>

Next ==
  \/ Reload \/ Probe \/ FopsAdd \/ RegionFails \/ CdevFails \/ PointerFails
  \/ MmioMap \/ RegrwInit \/ GttInit
  \/ TableFault \/ StatusPage \/ RingObject \/ AllocationFails
  \/ Awaken \/ WriteHws \/ Stop \/ ClearHead \/ ClearTail \/ Recheck
  \/ WriteStart \/ WriteCtl
  \/ StartFails \/ Starts \/ SelfTest \/ Remove \/ Run

Spec == Init /\ [][Next]_vars
-----------------------------------------------------------------------------
Mapping == {"null", "mapped", "gone"}

TypeOK ==
  /\ pc \in AllParts \cup {"unbound", "mmio", "regrw", "gsm", "status", "ring",
                          "window", "hws", "stop", "head", "tail", "recheck",
                          "start", "valid", "wait", "test", "bound", "oops"}
  /\ loads \in 1 .. MaxLoads
  /\ probes \in 0 .. MaxProbes /\ undone \in 0 .. probes
  /\ pci \in [enabled : 0 .. MaxProbes, master : BOOLEAN]
  /\ fops \subseteq AllParts /\ priv \in [Fields -> {"null", "set", "error"}]
  /\ mem \in [regs : Mapping, gsm : Mapping, entry : Nat, ring : Nat]
  /\ power \in [count : 0 .. 1, request : BOOLEAN]
  /\ logged \subseteq {"status page", "ring pages", "window", "forcewake",
                       "ring head", "ring start", "temp page"}
  /\ ring \in [hws : Nat, ctl : BOOLEAN, start : Nat, head : 0 .. 1,
               tail : 0 .. 1, hwsLoad : 0 .. loads, startLoad : 0 .. loads]
  /\ written \in {0, Window}

\* User space sees no part of the character device of an unbound driver and the
\* whole of it as soon as nugpgpu_fops_init has let the probe go on, whichever
\* part failed: the unwinding, which goes by the fields of nugpgpu_private,
\* forgets none, and an error is returned as an error.
DeviceNodeWhole ==
  /\ pc = "unbound" => fops = {}
  /\ pc \notin AllParts \cup {"unbound"} => fops = AllParts

\* A bound driver keeps the GT awake only if its ring "failed to start", and
\* a failed start is the only way its count of references stays up.
AwakeOnlyAfterFailedStart ==
  pc = "bound" => /\ power.count > 0 <=> "ring start" \in logged
                  /\ power.request <=> power.count > 0

\* The probe returns 0 whatever happened to its ring, but it does not go wrong
\* in silence: behind a probe that logged nothing the registers and the table are
\* mapped, and the ring is enabled on its own pages beside its own status page.
RingReadyUnlessLogged ==
  pc = "bound" /\ logged = {} =>
    /\ mem.regs = "mapped" /\ mem.gsm = "mapped"
    /\ ring.ctl
    /\ ring.start = mem.ring /\ ring.startLoad = loads
    /\ ring.hws = mem.ring - 1 /\ ring.hwsLoad = loads

\* The registers of an enabled ring are left alone: the start stays, the tail
\* only moves on, and the head is the engine's.  The setup on a later binding
\* stops the ring before it rewinds it, so nothing is run a second time or
\* from another address.  A setup whose forcewake handshake timed out promises
\* nothing: the write that stops the ring may be the one that is dropped.
ValidRingUntouched ==
  [][ring.ctl /\ ring'.ctl /\ ~Asleep =>
       /\ ring'.start = ring.start
       /\ ring'.tail >= ring.tail
       /\ ring'.head \in {ring.head, ring.tail}]_vars

\* A start address that this load of the module set, whichever later writes the
\* device dropped, is that of pages that are in the table and that no later
\* insertion overwrites, also after the driver has let go of the device: the
\* engine may still be reading them.  A status page set by this load is in the
\* table too and none of the ring's pages.  A reload forgets the table.
EngineMemoryInserted ==
  ring.ctl /\ ring.startLoad = loads =>
    /\ ring.start + RingPages <= mem.entry
    /\ ring.hwsLoad = loads =>
         /\ ring.hws < mem.entry
         /\ ring.hws \notin ring.start .. ring.start + RingPages - 1

\* The device is left enabled by exactly the probes that failed half-way (the
\* two TODOs in nugpgpu_pci_probe), and a device that is enabled by nobody is
\* no bus master.
EnabledOnlyByLeak ==
  pc = "unbound" => pci.enabled = undone /\ (pci.master => undone > 0)

\* The self test's commands are stored where the ring is: virtual_start shows
\* the pages of gva_ringbuffer.  Nothing has failed on the way.
CommandsInRing ==
  pc = "bound" /\ logged = {} /\ ring.tail # 0 => written = ring.start
=============================================================================
