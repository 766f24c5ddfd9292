-------------------------------- MODULE Ring --------------------------------
(***************************************************************************)
(* The render ring: nugpgpu_ring_begin, ring_emit, nugpgpu_ring_advance and*)
(* ring_dispatch of nugpgpu_ringbuffer.c, and the self tests check_dword_* *)
(* of nugpgpu_tests.c that use them.                                       *)
(*                                                                         *)
(* The driver stores commands through a write-combining mapping at the     *)
(* software tail and publishes them by writing the tail register; the      *)
(* engine runs what lies between its head and that register.  A self test  *)
(* submits a store to a slot of the status page and polls the slot.        *)
(*                                                                         *)
(* Positions are dwords.  The module starts where render_init has started  *)
(* the ring: head, tail and their registers are zero.                      *)
(***************************************************************************)
EXTENDS Integers, SequencesExt

CONSTANTS
  Size,       \* dwords in the ring
  FreeSpace,  \* RING_FREE_SPACE
  Jobs,       \* what callers submit: [reserve, dwords, test]
  MaxPolls,   \* turns of the polling loop (100000 in the code)
  MaxSent     \* bound: dwords submitted in all

\* The commands and their operands.  A batch is named by its address.
Batches == {"temp", "user"}
Dwords == {"NOOP", "START", "STORE", "index", "value"} \cup Batches

Job == [reserve : Nat, dwords : Seq(Dwords), test : BOOLEAN]

ASSUME RingAssumption ==
  /\ Size \in Nat /\ FreeSpace \in Nat \ {0} /\ FreeSpace < Size /\ Size % 2 = 0
  /\ Jobs \subseteq Job
  /\ MaxPolls \in Nat /\ MaxSent \in Nat

VARIABLES
  pc,       \* the driver: "idle", "begin", "emit", "poll", "report"
  job,      \* what it is submitting
  emitted,  \* dwords of the job stored so far
  space,    \* ring->space
  tail,     \* ring->tail
  polls,    \* i of the polling loop
  verdict,  \* "none", "Thanks God" or "Help GOD"
  tested,   \* dword_check has been called
  buffer,   \* ring memory
  wc,       \* stores on their way to it: position -> dword
  ended,    \* batches that end in MI_BATCH_BUFFER_END
  slot,     \* the tested dword of the status page
  tailReg,  \* RING_TAIL
  lost,     \* the last write to it was dropped
  head,     \* RING_HEAD
  engine,   \* "ring", or the batch it is in
  sent,     \* all dwords emitted (history)
  ran       \* all dwords run from the ring (history)

callVars == <<job, tested, sent>>
roomVars == <<space, tail>>
pollVars == <<polls, verdict>>
driverVars == <<pc, callVars, emitted, roomVars, pollVars>>
storeVars == <<buffer, wc>>
statusVars == <<ended, slot>>
engineVars == <<tailReg, lost, head, engine, ran>>
vars == <<driverVars, storeVars, statusVars, engineVars>>

NoJob == [reserve |-> 0, dwords |-> <<>>, test |-> FALSE]

\* ring_space: what lies between the tail and the head, less a reserve.
RingSpace(h, t) ==
  LET free == h - (t + FreeSpace) IN IF free < 0 THEN free + Size ELSE free

Init ==
  /\ pc = "idle" /\ job = NoJob /\ emitted = 0
  /\ tail = 0 /\ space = RingSpace(0, 0)
  /\ polls = 0 /\ verdict = "none" /\ tested = FALSE
  /\ buffer = [p \in 0 .. Size - 1 |-> "NOOP"]
  /\ wc = [p \in {} |-> "NOOP"]
  /\ ended = {"user"} /\ slot = "zero"
  /\ tailReg = 0 /\ lost = FALSE /\ head = 0 /\ engine = "ring"
  /\ sent = <<>> /\ ran = <<>>

\* A test that leaves its batch page zeroed.
TerminatedNever(j) == ended

\* virt_addr[256] = MI_BATCH_BUFFER_END
Terminated(j) ==
  IF "temp" \in Range(j.dwords) THEN ended \cup {"temp"} ELSE ended

\* A test that does not mark the slot before it submits.
MarkForgotten == slot
Mark == "mark"

\* A caller has something to submit.  A test prepares its batch page and marks
\* the slot with 0x0a0a0a0a, which is the old_value it polls against.  Bounds:
\* there are only so many jobs, and one test.
Pick(j) ==
  /\ pc = "idle" /\ Len(sent) + Len(j.dwords) <= MaxSent
  /\ j.test => ~tested
  /\ job' = j
  /\ tested' = (tested \/ j.test)
  /\ ended' = Terminated(j)
  /\ slot' = IF j.test THEN Mark ELSE slot
  /\ pc' = "begin"
  /\ UNCHANGED <<emitted, sent, roomVars, pollVars, storeVars, engineVars>>

\* A reservation that counts one dword too few.
TakenShort == job.reserve - 1
Taken == job.reserve

\* nugpgpu_ring_begin: takes the space, waits for nothing and never fails.
Begin ==
  /\ pc = "begin"
  /\ space' = space - Taken
  /\ emitted' = 0
  /\ pc' = "emit"
  /\ UNCHANGED <<callVars, tail, pollVars, storeVars, statusVars, engineVars>>

\* ring_emit, inside the mapping of the ring.
Emit ==
  /\ pc = "emit" /\ emitted < Len(job.dwords) /\ tail < Size
  /\ LET dword == job.dwords[emitted + 1]
     IN  /\ wc' = [p \in DOMAIN wc \cup {tail} |-> IF p = tail THEN dword ELSE wc[p]]
         /\ sent' = Append(sent, dword)
  /\ tail' = tail + 1
  /\ emitted' = emitted + 1
  /\ UNCHANGED <<pc, job, tested, space, pollVars, buffer, statusVars>>
  /\ UNCHANGED engineVars

\* ring_emit behind the end: only nugpgpu_ring_advance brings the tail back,
\* and the page after the mapping faults.
EmitBeyond ==
  /\ pc = "emit" /\ emitted < Len(job.dwords) /\ tail = Size
  /\ pc' = "oops"
  /\ UNCHANGED <<callVars, emitted, roomVars, pollVars, storeVars, statusVars>>
  /\ UNCHANGED engineVars

\* Some of the stores reach the ring.
Land(stores) ==
  /\ buffer' = [p \in DOMAIN buffer |-> IF p \in stores THEN wc[p] ELSE buffer[p]]
  /\ wc' = [p \in DOMAIN wc \ stores |-> wc[p]]

\* A tail that is not brought back into the ring, or is published by a store
\* that does not push the others out.
Unwrapped(t) == t
PushedNone == {}

\* ring->tail &= ring->size - 1; an uncached store comes behind all others.
Wrapped(t) == t % Size
Pushed == DOMAIN wc

\* RING_TAIL has no bit below RING_TAIL_ADDR: it counts quadwords.
Quadword(t) == t - (t % 2)

\* nugpgpu_ring_advance.  gpu_write takes no forcewake, and the device may
\* drop a write to a GT that sleeps (RegRW): the old tail stays.
Advance ==
  /\ pc = "emit" /\ emitted = Len(job.dwords)
  /\ tail' = Wrapped(tail)
  /\ Land(Pushed)
  /\ lost' \in BOOLEAN
  /\ tailReg' = IF lost' THEN tailReg ELSE Quadword(tail')
  /\ polls' = 0
  /\ pc' = IF job.test THEN "poll" ELSE "idle"
  /\ UNCHANGED <<callVars, emitted, space, verdict, statusVars>>
  /\ UNCHANGED <<head, engine, ran>>

\* One turn of while (i < 100000 && page_status[shift] == old_value).
Poll ==
  /\ pc = "poll"
  /\ IF polls < MaxPolls /\ slot = "mark"
       THEN polls' = polls + 1 /\ UNCHANGED pc
       ELSE pc' = "report" /\ UNCHANGED polls
  /\ UNCHANGED <<callVars, emitted, roomVars, verdict, storeVars, statusVars>>
  /\ UNCHANGED engineVars

Report ==
  /\ pc = "report"
  /\ verdict' = IF polls < MaxPolls THEN "Thanks God" ELSE "Help GOD"
  /\ pc' = "idle"
  /\ UNCHANGED <<callVars, emitted, roomVars, polls, storeVars, statusVars>>
  /\ UNCHANGED engineVars
-----------------------------------------------------------------------------
(* The write-combining buffer and the engine *)

Drain(p) ==
  /\ p \in DOMAIN wc
  /\ Land({p})
  /\ UNCHANGED <<driverVars, statusVars, engineVars>>

Length(dword) == CASE dword = "START" -> 2 [] dword = "STORE" -> 3 [] OTHER -> 1

\* The engine runs the command at its head once all of it is published.
Execute ==
  LET at(k) == buffer[(head + k) % Size]
      n == Length(at(0))
  IN  /\ engine = "ring"
      /\ n <= (tailReg - head) % Size
      /\ ran' = ran \o [k \in 1 .. n |-> at(k - 1)]
      /\ head' = (head + n) % Size
      /\ engine' = IF at(0) = "START" THEN at(1) ELSE "ring"
      /\ slot' = IF at(0) = "STORE" THEN at(2) ELSE slot
      /\ UNCHANGED <<driverVars, storeVars, ended, tailReg, lost>>

\* A batch that ends gives control back to the ring.
BatchEnd ==
  /\ engine \in ended
  /\ engine' = "ring"
  /\ UNCHANGED <<driverVars, storeVars, statusVars, tailReg, lost, head, ran>>

Engine == Execute \/ BatchEnd

Submit == Begin \/ Emit \/ EmitBeyond \/ Advance \/ Poll \/ Report

Next ==
  \/ \E j \in Jobs : Pick(j)
  \/ Submit
  \/ \E p \in 0 .. Size - 1 : Drain(p)
  \/ Engine

Spec == Init /\ [][Next]_vars

\* The probing thread runs on, and the engine works while it has commands.
FairSpec == Spec /\ WF_vars(Submit) /\ WF_vars(Engine)
-----------------------------------------------------------------------------
TypeOK ==
  /\ pc \in {"idle", "begin", "emit", "poll", "report", "oops"}
  /\ job \in Jobs \cup {NoJob}
  /\ emitted \in 0 .. Size
  /\ space \in Int
  /\ tail \in 0 .. Size
  /\ polls \in 0 .. MaxPolls
  /\ verdict \in {"none", "Thanks God", "Help GOD"}
  /\ tested \in BOOLEAN
  /\ buffer \in [0 .. Size - 1 -> Dwords]
  /\ DOMAIN wc \subseteq 0 .. Size - 1
  /\ \A p \in DOMAIN wc : wc[p] \in Dwords
  /\ ended \subseteq Batches
  /\ slot \in Dwords \cup {"zero", "mark"}
  /\ lost \in BOOLEAN
  /\ tailReg \in 0 .. Size - 1 /\ head \in 0 .. Size - 1
  /\ engine \in Dwords \cup {"ring"}
  /\ sent \in Seq(Dwords) /\ ran \in Seq(Dwords)

\* While ring->space has not gone negative, the engine runs what was emitted,
\* in order and nothing else: it sees no store late, no stale dword and no
\* command overwritten before it was run, although nugpgpu_ring_begin waits
\* for nothing ("TODO: no wraping logic").
RunsWhatWasSent == space >= 0 => IsPrefix(ran, sent)

\* Between submissions ring->space is what ring_space computes from ring->head
\* and ring->tail: a caller emits as many dwords as it reserved.
SpaceMatchesTail == pc = "idle" /\ space >= 0 => space = RingSpace(0, tail)

\* "Thanks God" is said only after the engine has run the test's batch to its
\* end and the store behind it (again while the space lasts).
VerdictSound ==
  verdict = "Thanks God" /\ space >= 0 =>
    /\ slot = "value"
    /\ \E p \in DOMAIN ran : ran[p] = "STORE"
    /\ engine # "temp"

\* A submission stores beyond the end of the mapping only after ring->space
\* has gone negative: the account that nugpgpu_ring_begin keeps and nobody
\* looks at is what keeps ring_emit inside the ring, and RING_FREE_SPACE takes
\* up the dword that check_dword_temp emits beyond its reservation.
SpaceKeepsInside == pc = "oops" => space < 0

\* The store of a self test reaches the status page in the end, unless the
\* write that published it was dropped or the ring was overrun.
StoreLands == pc = "poll" ~> slot = "value" \/ lost \/ space < 0

\* What is published is run to the last dword and the ring falls idle: also
\* what a dropped tail write left behind, once a later submission publishes
\* its own tail.
SubmittedRuns == []<>((ran = sent /\ engine = "ring") \/ lost \/ space < 0)
-----------------------------------------------------------------------------
(* What the theorems of RingProofs ask of the callers *)

\* No caller emits more than it reserved, but for a test, whose excess
\* RING_FREE_SPACE takes up: check_dword_temp emits nine dwords for eight.
SmallExcess ==
  \A j \in Jobs : Len(j.dwords) <= j.reserve + (IF j.test THEN FreeSpace ELSE 0)

\* Every caller emits what it reserved.
ExactJobs == \A j \in Jobs : Len(j.dwords) = j.reserve

\* A store to the status page stores the value, and comes behind the batch.
Shaped(s, n) ==
  /\ \A i \in 1 .. n : s[i] = "STORE" => i + 2 <= n /\ s[i + 2] = "value"
  /\ \A i, k \in 1 .. n : s[i] = "STORE" /\ s[k] = "temp" => k < i

\* No store to the status page, and no batch of a test.
Plain(s, n) == \A i \in 1 .. n : s[i] \notin {"STORE", "temp"}

\* The self tests alone store to the status page, once their batch has run.
TestShape ==
  \A j \in Jobs : /\ Shaped(j.dwords, Len(j.dwords))
                  /\ ~j.test => Plain(j.dwords, Len(j.dwords))
=============================================================================
