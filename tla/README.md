# Verification of nugpgpu

nugpgpu is a small Linux kernel driver for the render engine of Haswell
graphics. It maps the device's registers, sets up the graphics translation
table (GTT), starts the render ring, stores a test command and looks whether
the device carried it out. This directory holds TLA+ models of the driver,
the TLC configurations that check them, and proofs checked by TLAPS.

`PROJECT.json` lists the runs, the mutated definitions that show each property
can fail, the source lines behind every definition, the hazards of the code,
and the theorems.

## 1. Inventory

| Component | State | Operations | Talks to |
|---|---|---|---|
| Register waits (`nugpgpu_drv.h`, `_wait_for`) | `timeout__`, `ret__` | `wait_for`, `wait_for_atomic`, `wait_for_atomic_us` | jiffies, a register |
| Register access (`nugpgpu_regrw.c`) | lock, `forcewake_count`; device: request, acknowledge, power, unclaimed flag | `gpu_read*`, `gpu_write*`, `gpu_forcewake_get`, `gpu_forcewake_put` | every other component calls it |
| Memory manager (`nugpgpu_memmgr.c`) | scatter list of an object | `allocate_object` | page allocator, DMA API |
| GTT (`nugpgpu_gtt.c`, `nugpgpu_pcioffset.h`) | static `gtt_entry`, the table, sizes, scratch page | `nugpgpu_gtt_init`, `nugpgpu_gtt_probe`, `nugpgpu_gtt_insert` | memory manager, `GFX_FLSH_CNTL`, the device's TLB |
| Render ring (`nugpgpu_ringbuffer.c`) | head, tail, space; ring registers | `render_init`, `ring_begin`, `ring_emit`, `ring_advance`, `ring_dispatch` | GTT, register access, the engine |
| Self tests (`nugpgpu_tests.c`) | status page slot | `check_dword_hws`, `check_dword_temp` | ring, memory manager, GTT |
| Probe and remove (`nugpgpu_init.c`) | `nugpgpu_private`, PCI enable count | `nugpgpu_init`, `nugpgpu_exit`, `nugpgpu_pci_probe`, `nugpgpu_pci_remove` | calls all of the above, ignoring most results |
| Character device (`nugpgpu_ioctl.c`) | region, cdev, class, device; their fields in `nugpgpu_private` | `fops_init`, `fops_finish`, open, ioctl (both only log) | probe, user space |
| Debug output, execbuffer, file helpers, tables, user-space sample | none that matters | logging, stubs | - |

What is hard here, and what makes each component correct:

- **Waits.** The thread can be preempted between reading the register and
  reading jiffies, and jiffies wraps. Correct: a timeout is said only when the
  condition is false and the time has really gone by; the wait ends.
- **Register access.** The GT powers down on its own; a counter, a request bit
  and an acknowledge that lags behind are moved by calls from several
  contexts. Correct: the request is there exactly while somebody wants it,
  nobody's reference is withdrawn by another's read, a read finds the GT up,
  and an unclaimed-register report names the right register.
- **Memory manager.** Contiguous pages are merged; pages arrive in any order
  and an allocation may fail on any page. Correct: the list is the pages in
  their order; no page belongs to two objects.
- **GTT.** Table stores pass through a write-combining buffer; the TLB may hold
  entries from before. Correct: whoever has a graphics address reaches his
  pages with it, and the device reaches nothing else.
- **GTT set-up.** Two sizes are cut out of one configuration word and a base out
  of another, and most failures are passed over. Correct: the driver asks for the
  memory the firmware set aside, from its base on and as long as it is, its table
  lies inside the BAR, and the result agrees with whether there is a scratch page.
- **Ring and tests.** Commands are stored write-combined and published by a
  register; `ring_begin` waits for nothing; the tail register counts
  quadwords, and its write may be dropped. Correct: what was emitted is run, in
  order; the space account agrees with head and tail and keeps the emits inside
  the mapping; a success report means the engine did it.
- **Probe and remove.** Any step can fail, results are ignored, a register write
  may be lost behind a wake-up that was not answered, and the device, its table
  and static variables outlive a binding. Correct: user space sees a whole
  character device or none, although its unwinding goes by pointers that may hold
  errors; references are paired; a probe that says nothing has its ring running;
  an enabled ring is not disturbed; a start this load has set lies on inserted
  memory.

`PROJECT.json` lists the hazards one by one with the line where each bites.

## 2. Modules

    TimedWait        abstract: a wait in one instant
    WaitFor          the _wait_for loop, implements TimedWait
    WaitForProofs    proofs about WaitFor
    PowerVote        abstract: a request bit that is the vote of the contexts
    RegRW            lock, forcewake, accesses; every wait is a TimedWait;
                     implements PowerVote
    RegRWProofs      proofs about RegRW
    Memmgr           allocate_object
    MemmgrProofs     proofs about Memmgr
    AddressSpace     abstract: a growing row of pages
    Gtt              extends Memmgr: nugpgpu_gtt_insert, implements AddressSpace
    GttProofs        proofs about Gtt, extends MemmgrProofs
    GttProbe         nugpgpu_gtt_init: sizes, mapping, scratch page, stolen memory
    GttProbeProofs   proofs about GttProbe
    Ring             submissions and the engine; self tests as submitters
    RingProofs       proofs about Ring
    Driver           probe, remove, rebind, reload
    DriverProofs     proofs about Driver
    MC*              constants for TLC

Every component's module has a part that is the code and a part that is the
hardware; the comments say where one ends. Some short operators come just before
one they resemble and say what a slip there would be ("A verdict without the
second look at COND"). They are mutated forms: no specification uses them, and
putting one in the place of its neighbour makes a run fail.

The modules meet at these points. `RegRW` takes each wait as the atomic step
that `WaitFor` is shown to implement. `Gtt` starts where `GttProbe` ends well,
and takes its pages from `Memmgr`. `Ring` starts where `Driver` has started the
ring. `Driver` takes from `GttProbe` which outcomes `nugpgpu_gtt_init` leaves
behind (`OutcomeKnown`), and from `RegRW` that a put of the last reference
withdraws the request, that a handshake may end in a time-out nobody but the log
is told of, and that a write to a GT that sleeps may be dropped. `Driver` puts no
end to the table: a few probes do not fill it, and what happens when one does is
`WriteBeyond` of `Gtt`.

### WaitFor, TimedWait

One action per line of the macro: `Enter` computes the deadline, `Test` is the
`while` condition, `Deadline` is `time_after`, `Recheck` the second look at the
condition, `Pause` is `msleep(W)` or `cpu_relax()`. `Tick` and `Hardware` may
come between any two of them. jiffies is a counter modulo `JiffiesMod`
(the code's 2^w); `Plus`, `Minus` and `TimeAfter` are `unsigned long`
arithmetic. `elapsed` is real time and exists only for the properties.

### RegRW, PowerVote

A context calls, spins for the lock, and goes through `gpu_read##x`
(`LockRead`, the handshake `WaitOldClear`, `Enable`, `WaitNewAck`,
`WaitThreads`, then `Access`, `Disable`, `CheckFifo`), `gpu_write##x`
(`LockWrite`, `CheckUnclaimed`, `Store`, `CheckUnclaimed`) or the two reference
functions. Every handshake wait is one atomic wait in the sense of `TimedWait`:
it passes having seen its condition or having timed out, and `trusted`, a
history variable, remembers which. The device (`Power`, `Acknowledge`) moves
between any two steps. Only the probing thread calls these functions today; the
model has several contexts, because the irq-safe lock and the reference count
are there for them. Only a context that holds a reference gives one back.

`PowerVote` is what forcewake is for: every context may cast and withdraw a vote
for power, and the request bit is set exactly while there is one. `RegRW`
implements it with `Votes`, the contexts that hold a reference or are in the
middle of a wake-up of their own. The mapping says at each program point whether
the request has been made on behalf of the context.

### Memmgr, Gtt, AddressSpace

`allocate_object` is a step for the call (`Allocate`), one for every page
(`GetPage`) and one for `dma_map_sg` (`MapPages`); `Fail` returns an error from
any of them, without giving pages back, as the code does. The bus addresses
are any free ranges, which covers an IOMMU and the identity.

`Gtt` starts with the scratch page taken and mapped. `nugpgpu_gtt_insert` is a
step for every PTE (`WritePte`), the read-back of the last one (`Verify`), the
flush request (`Flush`) and its posting read (`Post`), after which the caller
has its address. PTE stores wait in `wc` and drain in any order; an uncached
store empties it. The TLB takes entries from the table at any time, the
unwritten ones too, and keeps them until the flush: the worst a TLB may do. A
PTE has the two address fields of the code, of 20 and 7 bits. Neither
`allocate_object` nor the insertion asks whether an object fits the table:
`WriteBeyond` is the store behind the mapping, which faults and ends the caller
(`ins = "oops"`).

`AddressSpace` is what a caller relies on: one step appends an object's pages
to a row, nothing ever moves or is replaced. `Gtt` implements it with the row
read through the TLB and the table as the device would read it.

### GttProbe

One action per call of `nugpgpu_gtt_probe`, `scratchpage_setup` and
`nugpgpu_gtt_init`: the DMA mask, the two size fields (`Gms`, `Ggms`) of the
configuration word, the mapping of the table, the scratch page, and the request
for the stolen memory with its base, the dword at 0x5c without its low bits
(`Base`). `firmware` is what the firmware meant by the two registers, the driver
computes from the registers. Every call that can fail may fail; whether the
request for the region is granted makes no difference to anything but the log.
Sizes are in MB, the base in bytes.

### Ring

Positions are dwords. `Pick` is a caller with a job, `Begin` is
`nugpgpu_ring_begin`, `Emit` one `ring_emit` (`EmitBeyond` the one that stores
behind the mapping), `Advance` is `nugpgpu_ring_advance`, `Poll` and `Report`
are the end of a self test. The jobs are in `MCRing`, dword by dword: both self
tests and `ring_dispatch`. The engine runs a command once all its dwords are
published; a batch ends when its page holds `MI_BATCH_BUFFER_END`. The device may
drop the write of the tail register, because `gpu_write##x` takes no forcewake
and the GT may sleep; `lost` remembers that the last one was dropped.
A probe submits one self test and nothing else; the dispatches before and after
it are the legal calls of the interface that nobody makes yet.

### Driver

One action per call in `nugpgpu_pci_probe`, per part of the character device in
`nugpgpu_fops_init`, and per register step of `nugpgpu_ringbuffer_render_init`,
and the ways each can fail.

`fops` is what is registered with the kernel, `priv` what the fields of
`nugpgpu_private` say of it: null, set, or the `ERR_PTR` that a failed
`class_create` or `device_create` has left. `nugpgpu_fops_finish` goes by the
fields (`TakenBack`) and zeroes them (`Finish`); the error of the failed call has
been copied out before and is what `nugpgpu_fops_init` returns (`Returned`).

The handshake of `gpu_forcewake_get` (`Awaken`) may time out, which is only
logged. The GT may sleep then (`Asleep`), and every register write of the setup
(`Write`), the one that stops the ring included, may be dropped, and every
register read answers anything (`Sees`). `hwsLoad` and `startLoad` remember which
load of the module has last set the status page and the start of the ring.

Where the code
ignores a failure the model goes on, and where the next access then uses a
null or stale pointer it ends in `pc = "oops"`, in which the driver does
nothing more. Remove and a new probe may follow; the device's registers, the
static entry counter and the static ring keep their values. `Reload` unloads and
loads the module between two bindings: the statics are zero again, the
device is not touched. The engine (`Run`) may run at any time, also after a
removal if the device is still enabled.

## 3. Runs

| Run | Checks | Bounds |
|---|---|---|
| `wait` | `ImplementsTimedWait`, `AnsweredInTimeIsSeen`, `WaitTerminates` | timeout 2, counter modulo 16, 6 ticks |
| `regrw` | `RequestMatchesHolders`, `HeldStaysAwake`, `ReadWhileUp`, `BlameIsMine`, `ImplementsPowerVote`, `CallsReturn` | 2 contexts, 3 registers (GT, unclaimed, outside the GT) |
| `gtt` | `ObjectMapped`, `OnlyObjectsReachable`, `ImplementsAddressSpace` | 5 frames, 4 bus pages, 3 entries, objects of 1 to 3 pages |
| `gtt_full` | `ListIsPages`, `ListIsShort`, `BusPagesDistinct`, `OnlyObjectsReachable`, `FaultOnlyWhenFull` | as `gtt`, 2 entries |
| `gtt_probe` | `RegionIsStolen`, `TableInBar`, `OutcomeKnown` | 17 x 3 field values, 4 surroundings, 2 bases, 3 values below them, BAR of 4 MB |
| `ring_safety` | `RunsWhatWasSent`, `VerdictSound`, `SpaceKeepsInside`, `StoreLands` | 16 dwords, 20 submitted, all jobs |
| `ring_even` | `SpaceMatchesTail`, `SubmittedRuns` | 16 dwords, 16 submitted, even jobs |
| `driver` | `DeviceNodeWhole`, `AwakeOnlyAfterFailedStart`, `RingReadyUnlessLogged`, `EngineMemoryInserted`, `EnabledOnlyByLeak`, `ValidRingUntouched` | 3 probes, 2 loads, ring of 2 pages |
| `gtt_scratch`, `gtt_mask`, `ring_reserve`, `driver_rebind` | disagreements, section 4 | as above; `driver_rebind` 2 probes, 1 load |

Each passing run but `ring_even` also checks its module's `TypeOK` (`gtt_full` that
of `Memmgr`, `MemTypeOK`). `Memmgr` has no run of its own: every one of its
actions is part of `Gtt`, whose insertion takes the place of `Release`.

Why the bounds are enough. *Waits*: every starting value of the counter is
tried, so the wrap falls on every step, and six ticks reach past the deadline of
three; the register may change at every step, and `AnsweredInTimeIsSeen` picks
out the behaviours in which it settles. *RegRW*: two contexts are the fewest for
a reference of one to meet the access of another; the proofs cover any number.
*Memmgr*: three pages merge fully, partly, not at all and in falling order, and
a second object after a failure competes for what is left (`gtt_full`). *Gtt*: a three-page
object whose list has one, two or three entries, or several objects one after
the other, with bus pages on both sides of 4 GB, one of which is mistaken for
another when the upper field is lost. Three bus pages are left for objects, as
many as there are entries, so no store of this run goes behind the table;
`gtt_full` has the same objects and a table of two, so that one of them fills it
and the next does not fit, or a first one already does not. *GttProbe*: every
value of the size fields that Haswell defines and bases at zero and above, with
the bits below them clear, set, and one set, so nothing is left out but other
surroundings. *Ring*: 16
dwords with a reserve of 4 (32768 and 16 in the code): the submissions fill it,
take the space below zero, bring the tail round to zero and run over the end;
`MaxSent` ends the run. *Driver*: three probes are a failed one, a binding after
it and a binding after that, and the reload may come between any two;
`MaxProbes` and `MaxLoads` bound them.

The properties of `Ring` say `space >= 0` or are excused by `space < 0`: once
submissions have overrun the ring nothing is promised. `SpaceKeepsInside` is the
other half: nobody looks at the account, but as long as it is not negative no
emit leaves the mapping. The liveness properties of `Ring` are excused while the
last tail write is a dropped one: nothing repeats it. When a later submission's
write arrives, both submissions must be run (`SubmittedRuns`).

`EngineMemoryInserted` is said of an enabled ring whose start the current load of
the module has set, by this binding or an earlier one, and it holds whichever
writes the device has dropped since. It is not said of a start from an earlier
load or from the firmware: after a reload the counter starts from zero and the
entries of a ring that is still enabled are given to new objects before
`render_init` stops it; and a ring whose start was dropped is enabled with an old
one. Two properties bound that. `RingReadyUnlessLogged`: if the probe has logged
nothing, the start and the status page are its own; the wait at the end of
`render_init` looks at START as well as at the head, and only a handshake that
was answered passes unlogged. `ValidRingUntouched` holds across loads, unless the
handshake timed out: nothing reads CTL back after the write that stops the ring,
so start, head and tail may then be rewritten under an enabled ring. The model
has those behaviours; the property excuses them by the log line.

Deadlock is checked in `regrw`. The others may stop: a wait is a
single call, insertions end with the frames or with the fault behind the table,
submissions and probes with their bounds, a set-up with its result, and an oops
is final.

### Fairness

- `WaitFor!FairSpec`: the thread is scheduled and ticks keep coming. A wait made
  with interrupts off (`forcewake_get`) relies on another processor's tick;
  the code has that dependence, the assumption states it.
- `RegRW!FairSpec`: weak fairness for steps under the lock, which run with
  interrupts off, and strong fairness for taking it: the kernel's ticket lock
  serves its waiters in turn. Nothing is assumed of the device.
- `Ring!FairSpec`: weak fairness for the submitting thread and for the engine,
  which works while commands are published. The write-combining buffer gets
  none, and neither do callers.

## 4. Where the code disagrees with what it says

- `ring_reserve`: `check_dword_temp` says `nugpgpu_ring_begin(ring, 8)` and
  emits nine dwords. `ring->space` is one dword too large afterwards, and the
  ninth dword is not published, because the tail register counts quadwords. It
  is a no-op, so the test itself works (`StoreLands`).
- `gtt_mask`: the test of `pci_set_dma_mask` is inverted. The driver logs
  "failed" when it succeeded and is silent when it failed.
- `gtt_scratch`: `nugpgpu_drv.h` says that all unused PTEs point to the scratch
  page. The page is allocated and mapped, and no entry is ever pointed to it.
- `driver_rebind`: the ring's window is always the second page of the aperture,
  while the ring's graphics address follows the static entry counter. The two
  agree on the first binding of a load only; later the commands go to the old
  ring.

One more needs no run: the comments over the two size reads in `nugpgpu_gtt_probe`
name the fields the other way round. "Stolen Size ... GGMS (9:8)"
(`nugpgpu_gtt.c:109`) stands over the read of bits 7:3, and "Total GTT Size ...
GMS (7:3)" (`nugpgpu_gtt.c:116`) over that of bits 9:8. `Gms` and `Ggms` are
translated from the code, and `RegionIsStolen` and `TableInBar` hold for it.

## 5. Proofs

TLC's runs are small; the following hold for all values of the constants under
the assumptions named.

**WaitForProofs** (`WaitForAssumption`: a call lasts less than half the
counter's range). `WaitForTypeCorrect`, `WaitForRefinement` and
`WaitForAnswerSeen`. The inductive invariant is `IInv`: type correctness,
`ClockInv` and `DeadlineInv`. `ClockInv` is needed because the deadline
comparison is made on wrapped numbers: it keeps the difference of jiffies and
`timeout__` equal to the difference of real times, so that `TimeAfterIsLate` can
turn `time_after` into a statement about real time. The refinement proof maps
`Test` and `Recheck` to the end of the atomic wait and everything else to its
environment or a stutter.

**RegRWProofs** (`RegRWAssumption`: finitely many contexts). Type correctness,
the four safety properties of the `regrw` run, and the refinement of
`PowerVote`, each from one invariant: `CountInv` (the count is the number of
references), `LockInv` (one context inside), `PlaceInv` (a context is in the
handshake only for a reason that still holds), `RequestInv` (the request bit at
every point of the functions), `AwakeInv` (what an undisturbed handshake has
learnt about the GT) and `FlagInv` (the unclaimed flag around a write). None of
the properties is inductive alone: that a held GT is up depends on what the
handshake saw several steps before, and that a put may withdraw the request on
the count agreeing with the holders. There is one lemma per group of actions and
one step per action. `RegRWRefinement` adds two lemmas that say what each group
does to `Votes`: `Enable` casts a vote, as does a get that finds the count above
zero; `Disable` withdraws one, as does a put that leaves others; everything else
leaves votes and request alone.

**MemmgrProofs** (no assumption but that page frames are numbers and objects
have pages). Type correctness, `ListIsPages`, `ListIsShort` and
`BusPagesDistinct`, for objects of any size. `MemInv` adds to the properties `ListInv`, how the entries
lie side by side in the row of pages, `UsedInv`, that what was handed out is used
and used once, and `ReadyInv`, what `dma_map_sg` leaves behind. `ListIsPages`
alone is not inductive: that a page merged into the last entry comes right
behind it needs the exact place of every entry, and that bus pages are distinct
needs the pages of the object under way to be apart from those of earlier ones,
also of failed ones that were never given back. The lemmas about the single
actions carry over to `Gtt`, and with them the properties (`GttListsKept`).

**GttProofs**. `GttTypeCorrect`, `GttListsKept` and `GttFaultOnlyWhenFull` need
nothing but `GttAssumption`. The page iterator stays inside the list and has written as many
entries as it has passed pages (`WalkInv`: `PhaseInv`, `IterInv`); so no PTE is
missed or written twice, and when a store goes behind the table the object did
not fit. That objects fit is not proved, because nothing in the code sees to it. `GttObjectMapped`, `GttOnlyObjectsReachable` and
`GttRefinement` assume `Fits`: bus addresses are below the 2^39 bytes an entry
can name. The code does not see to that. It asks for a DMA mask of 40 bits, and a
page above 2^39 would be reached under another address; in a machine with less
memory or an IOMMU that allocates from below there is none. The invariant is
`ViewInv`: `TableInv` (a PTE is in the table or in the write-combining buffer,
and the buffer never holds a second store to an entry), `TlbInv` (the TLB is
stale only with what the firmware left, and only at entries nobody was told of,
once the flush has run), `ObjectsInv` (every entry below `gttEntry` belongs to an
object) and `DistinctInv` (no two entries lead to one page). The refinement holds
because the row read through the TLB changes only when the posting read of an
insertion returns: `gttEntry` moves then, and the entries it passes are in the
table and not stale in the TLB. `JunkAssumption` says that what the firmware left
is told from any PTE of the driver; it is a name for "anything", not a claim about
firmware.

**GttProbeProofs**. The four invariants of the `gtt_probe` run. They hold for
all field values the two fields have room for, for every base, and for anything
in the bits around them: `OtherBitsAssumption` and `BaseAssumption` say which
bits are those, so that the shifts and masks of `Gms`, `Ggms` and `Base` have
something to get wrong. `GttProbeRegion` is about the region asked for, not about
one granted. `RegionInv` carries it, with `SizesInv` for the length. `TableInBar`
needs `BarAssumption`, the layout of the device's BAR: each half has room for the
registers and for the largest table. `PageInv` is the strengthening for
`OutcomeKnown`: it follows the table's fate and the scratch page's through every
failure.

**DriverProofs** (`DriverAssumption`: the ring has a page, the module is loaded
at least once). The six invariants of the `driver` run, and `ValidRingUntouched`
as a property of every step, for any number of probes and loads and whichever
register writes are dropped. `CountInv` counts the enables of the device against
the probes that left theirs behind. `FopsInv` says how much of the character
device is there at every call and that its fields say the same; `AllTakenBack`
concludes that an unwinding from any of these points, with an `ERR_PTR` in the
field of the part that failed, leaves nothing. `PowerInv` follows the one
reference of `render_init`. `SetupInv` and `OldRingInv` say where the ring being
set up and one set up before lie, below the entry counter, which is why a new
insertion of the same load does not take their memory away; `OldRingInv` says it
of any start and status page this load has set, so that a dropped write makes no
difference. `ReadyInv` is the way of a probe that logs nothing: once a handshake
has been answered, each register holds what was written to it until the wait has
looked at it. `ValidRingUntouched` needs that the registers are written only while
the ring is stopped (`SetupInv`, for a GT that answered).

**RingProofs**. `RingTypeCorrect` needs nothing but `RingAssumption`: an even
ring, larger than its reserve. The others ask something of the callers, stated at
the end of `Ring` and evaluated by TLC for the jobs of the code (`MCRing`):
`SmallExcess`, nobody emits more than he reserved but for one test, whose excess
is at most the reserve (`check_dword_temp`: one dword, 16 in reserve);
`ExactJobs`, everybody emits what he reserved, for `RingSpaceMatches` (the finding
of `ring_reserve` is that `check_dword_temp` does not); `TestShape`, only tests
store to the status page, and after their batch, for `RingVerdictSound`.
- `RoomInv` is the idea behind the account: dwords sent, coming and left add up
  to the ring less what is still in reserve. Hence as long as the account is not
  negative the tail has not gone round (`TailInv`), although nobody looks at it.
- `PublishedInv` and `StoredInv`: `RING_TAIL` lies on a quadword between what was
  run and what was sent, the ring or the buffer holds every dword sent at its
  place, and no store still in the buffer lies below the published tail. A lost
  tail write leaves an older tail, which the invariant allows. `RunsWhatWasSent`
  says nothing of the ring's contents, hence is not inductive. The proof is
  arithmetic modulo the ring's size (`Ahead`, `HeadMoves`).
- `VerdictInv`: the mark leaves the slot only by the store of the test
  (`TestInv`, `SlotInv`), what was sent are whole jobs and the one under way
  (`SentInv`), so the engine, which runs what was sent, meets the store behind
  the batch and not the batch again. The bound of one test is needed: with a
  second one the first verdict would be about a slot that has been marked again.

All invariants were checked by TLC on the instances of section 3 before they
were proved.

Only model-checked: the liveness properties `WaitTerminates`, `CallsReturn`,
`StoreLands` and `SubmittedRuns`, because liveness under fairness and `ENABLED`
are beyond the installed provers. The four runs of section 4 are
counterexamples found by TLC. Every invariant, step property and refinement the
passing runs check has a theorem.

## 6. Not modelled

- Logging, register dumps, trace indentation: output only.
- `execbuffer`, the file helpers, `nugpgpu_regrw_sanitize` and
  `nugpgpu_ring_render_stop`: stubs, or called by nothing.
- open and ioctl: they log.
- The cacheability bits of a PTE: the same for every caller.
- The TLB flush of `render_init` through `INSTPM`, whose result is only logged,
  the mode registers it writes after the ring has started, and
  `nugpgpu_hw_init`, which clears one predicate register: no other code reads
  them, and what they do to the engine is not visible in any state the driver
  looks at.
- The aperture's `io_mapping`: nobody uses it.
- A failing `nugpgpu_gtt_insert`: the code tests for it, the insertion has no
  failing return.
- Module unloading under an open file: the module loader is outside the code.

## 7. Plan

Done: the modules of section 2 and the proofs of section 5. Of the plan's model
part nothing is left that would show more than it costs: what section 6 lists
either leaves no state behind or is outside the code.

Next: an abstract command stream (a row of dwords sent, a prefix of it run) that
`Ring` implements while the account holds, as `Gtt` implements `AddressSpace`;
and shorter proofs where a lemma would serve two places (sequences that grow by
`Append` in `MemmgrProofs` and `RingProofs`).
