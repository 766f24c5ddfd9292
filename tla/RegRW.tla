-------------------------------- MODULE RegRW --------------------------------
(***************************************************************************)
(* Register access and forcewake reference counting: nugpgpu_regrw.c.      *)
(*                                                                         *)
(* The GT part of the device powers itself down.  A driver that wants to   *)
(* read one of its registers sets a request bit (FORCEWAKE_MT), waits until*)
(* the device acknowledges, reads, and withdraws the request.  A caller    *)
(* that makes many accesses takes a counted reference with                 *)
(* gpu_forcewake_get; while one is held a single read does not touch the   *)
(* request bit.  One irq-safe spinlock covers the counter, the handshake   *)
(* and the access itself.                                                  *)
(*                                                                         *)
(* Every wait is the atomic wait of module TimedWait: it sees its condition*)
(* true, or it times out seeing it false, which the driver only logs.      *)
(***************************************************************************)
EXTENDS Integers, FiniteSets

CONSTANTS
  Ctx,            \* execution contexts that call the access functions
  None,           \* the lock is free
  Regs,           \* register offsets in use
  UnclaimedRegs   \* those no unit of the device answers to

ASSUME RegRWAssumption ==
  /\ IsFiniteSet(Ctx)
  /\ None \notin Ctx
  /\ Regs \subseteq Nat
  /\ UnclaimedRegs \subseteq Regs

VARIABLES
  lock,      \* mmio_funcs.lock: its owner
  count,     \* forcewake_count
  holders,   \* contexts between gpu_forcewake_get and gpu_forcewake_put
  pc,        \* where each context is in the access functions
  call,      \* what it called: the operation and the register
  trusted,   \* no wait of the handshake that set the request bit timed out
  request,   \* FORCEWAKE_KERNEL bit of FORCEWAKE_MT
  ack,       \* FORCEWAKE_KERNEL bit of FORCEWAKE_ACK_HSW
  gt,        \* power state of the GT
  fifoErr,   \* GT_FIFO_CPU_ERROR_MASK of GTFIFODBG: a write was dropped
  unclaimed  \* FPGA_DBG_RM_NOCLAIM of FPGA_DBG

driverVars == <<lock, count, holders, pc, call, trusted>>
deviceVars == <<request, ack, gt, fifoErr, unclaimed>>
vars == <<driverVars, deviceVars>>

FORCEWAKE == 41356       \* 0xA18C

\* NEEDS_FORCEWAKE: the register is in the part that powers down (< 0x40000).
NeedsForcewake(reg) == reg < 262144 /\ reg # FORCEWAKE

Ops == {"read", "write", "get", "put"}
Handshake == {"oldclear", "enable", "newack", "threads"}
Critical == Handshake \cup
  {"access", "disable", "fifo", "before", "store", "after", "unlock"}

\* nugpgpu_uncore_early_sanitize has reset the request bit and the unclaimed
\* flag; the device has not necessarily followed, and nobody cleared GTFIFODBG.
Init ==
  /\ lock = None
  /\ count = 0
  /\ holders = {}
  /\ pc = [c \in Ctx |-> "idle"]
  /\ call \in [Ctx -> [op : {"read"}, reg : Regs]]
  /\ trusted = FALSE
  /\ request = FALSE
  /\ ack \in BOOLEAN
  /\ gt \in {"down", "waking", "up"}
  /\ fifoErr \in BOOLEAN
  /\ unclaimed = FALSE

Goto(c, s) == pc' = [pc EXCEPT ![c] = s]

\* A context calls one of the functions and reaches spin_lock_irqsave.  Only
\* the holder of a reference gives one back.
Call(c, op, reg) ==
  /\ pc[c] = "idle"
  /\ op = "get" => c \notin holders
  /\ op = "put" => c \in holders
  /\ call' = [call EXCEPT ![c] = [op |-> op, reg |-> reg]]
  /\ Goto(c, "spin")
  /\ UNCHANGED <<lock, count, holders, trusted, deviceVars>>

Acquire(c, op) ==
  /\ pc[c] = "spin" /\ call[c].op = op
  /\ lock = None
  /\ lock' = c
  /\ UNCHANGED <<call, trusted, deviceVars>>

\* Nobody holds a reference, and the register of this access needs the GT.
WakesItself(c) == count = 0 /\ NeedsForcewake(call[c].reg)

\* gpu_read##x: wake the GT for this read alone, unless a reference is held.
LockRead(c) ==
  /\ Acquire(c, "read")
  /\ Goto(c, IF WakesItself(c) THEN "oldclear" ELSE "access")
  /\ UNCHANGED <<count, holders>>

\* gpu_write##x takes no forcewake.
LockWrite(c) ==
  /\ Acquire(c, "write")
  /\ Goto(c, "before")
  /\ UNCHANGED <<count, holders>>

\* gpu_forcewake_get: forcewake_count++ == 0.
LockGet(c) ==
  /\ Acquire(c, "get")
  /\ count' = count + 1
  /\ holders' = holders \cup {c}
  /\ Goto(c, IF count = 0 THEN "oldclear" ELSE "unlock")

\* A put that only lowers the count when the reference is the last one.
LowerLast == IF count = 1 THEN 0 ELSE count

\* Puts that compare before they decrement, or return with the lock held.
AfterPutLate == IF count = 0 THEN "disable" ELSE "unlock"
AfterPutReturning == IF count = 1 THEN "disable" ELSE "idle"

\* gpu_forcewake_put and forcewake_work: --forcewake_count == 0.
Lower == count - 1
AfterPut == IF count = 1 THEN "disable" ELSE "unlock"

LockPut(c) ==
  /\ Acquire(c, "put")
  /\ count' = Lower
  /\ holders' = holders \ {c}
  /\ Goto(c, AfterPut)
-----------------------------------------------------------------------------
\* The owner of the lock moves on.
Step(c, from, to) ==
  /\ pc[c] = from
  /\ Goto(c, to)
  /\ UNCHANGED <<lock, count, holders, call>>

(* forcewake_get *)

\* A handshake that does not wait for the previous acknowledge to go away.
OldAckIgnored == TRUE
OldAckGone == ~ack

\* Wait until the acknowledge of the previous request is gone.
WaitOldClear(c) ==
  /\ Step(c, "oldclear", "enable")
  /\ trusted' = OldAckGone
  /\ UNCHANGED deviceVars

Enable(c) ==
  /\ Step(c, "enable", "newack")
  /\ request' = TRUE
  /\ UNCHANGED <<trusted, ack, gt, fifoErr, unclaimed>>

WaitNewAck(c) ==
  /\ Step(c, "newack", "threads")
  /\ trusted' = (trusted /\ ack)
  /\ UNCHANGED deviceVars

\* What GEN6_GT_THREAD_STATUS_REG may show: the threads are up only when the
\* GT is, and without power the register reads as anything.
ThreadsSeenUp ==
  {seen \in BOOLEAN : (gt = "up" => seen) /\ (gt = "waking" => ~seen)}

WaitThreads(c) ==
  /\ Step(c, "threads", IF call[c].op = "read" THEN "access" ELSE "unlock")
  /\ \E seen \in ThreadsSeenUp : trusted' = (trusted /\ seen)
  /\ UNCHANGED deviceVars

(* The access, and forcewake_put *)

\* A read that withdraws the request without looking at the count.
AfterAccessCareless(c) ==
  IF NeedsForcewake(call[c].reg) THEN "disable" ELSE "unlock"

AfterAccess(c) == IF WakesItself(c) THEN "disable" ELSE "unlock"

\* __raw_gpu_read##x, then forcewake_put if this read woke the GT.
Access(c) ==
  /\ Step(c, "access", AfterAccess(c))
  /\ unclaimed' = (unclaimed \/ call[c].reg \in UnclaimedRegs)
  /\ UNCHANGED <<trusted, request, ack, gt, fifoErr>>

Disable(c) ==
  /\ Step(c, "disable", "fifo")
  /\ request' = FALSE
  /\ UNCHANGED <<trusted, ack, gt, fifoErr, unclaimed>>

\* if (gtfifodbg & GT_FIFO_CPU_ERROR_MASK): warn and clear.
CheckFifo(c) ==
  /\ Step(c, "fifo", "unlock")
  /\ fifoErr' = FALSE
  /\ UNCHANGED <<trusted, request, ack, gt, unclaimed>>

(* gpu_write##x *)

\* A check that reports the flag and leaves it set.
FlagKept == unclaimed
FlagChecked == FALSE

\* gpu_unclaimed_reg_debug: report and clear, before the write and after it.
CheckUnclaimed(c) ==
  /\ Step(c, "before", "store") \/ Step(c, "after", "unlock")
  /\ unclaimed' = FlagChecked
  /\ UNCHANGED <<trusted, request, ack, gt, fifoErr>>

\* __raw_gpu_write##x.  The device may drop a write to a GT that is not up.
Store(c) ==
  /\ Step(c, "store", "after")
  /\ unclaimed' = (unclaimed \/ call[c].reg \in UnclaimedRegs)
  /\ \/ UNCHANGED fifoErr
     \/ gt # "up" /\ NeedsForcewake(call[c].reg) /\ fifoErr' = TRUE
  /\ UNCHANGED <<trusted, request, ack, gt>>

\* spin_unlock_irqrestore, and the function returns.
Unlock(c) ==
  /\ pc[c] = "unlock"
  /\ lock' = None
  /\ Goto(c, "idle")
  /\ UNCHANGED <<count, holders, call, trusted, deviceVars>>
-----------------------------------------------------------------------------
(* The device *)

Power ==
  /\ \/ request /\ gt = "down" /\ gt' = "waking"
     \/ gt = "waking" /\ gt' = "up"
     \/ \* without a request, at once, before the acknowledge goes
        ~request /\ gt # "down" /\ gt' = "down"
  /\ UNCHANGED <<driverVars, request, ack, fifoErr, unclaimed>>

Acknowledge ==
  /\ \/ request /\ ~ack /\ gt # "down"
     \/ ~request /\ ack
  /\ ack' = ~ack
  /\ UNCHANGED <<driverVars, request, gt, fifoErr, unclaimed>>

Device == Power \/ Acknowledge

Lock(c) == LockRead(c) \/ LockWrite(c) \/ LockGet(c) \/ LockPut(c)

Inside(c) ==
  \/ WaitOldClear(c) \/ Enable(c) \/ WaitNewAck(c) \/ WaitThreads(c)
  \/ Access(c) \/ Disable(c) \/ CheckFifo(c)
  \/ CheckUnclaimed(c) \/ Store(c)
  \/ Unlock(c)

Next ==
  \/ \E c \in Ctx : \/ \E op \in Ops, reg \in Regs : Call(c, op, reg)
                    \/ Lock(c)
                    \/ Inside(c)
  \/ Device

Spec == Init /\ [][Next]_vars

\* Code under the lock runs on; the kernel's ticket spinlock serves waiters in
\* turn.  Nothing is asked of the device: every wait has its timeout.
FairSpec == Spec /\ \A c \in Ctx : SF_vars(Lock(c)) /\ WF_vars(Inside(c))
-----------------------------------------------------------------------------
TypeOK ==
  /\ lock \in Ctx \cup {None}
  /\ count \in 0 .. Cardinality(Ctx)
  /\ holders \subseteq Ctx
  /\ pc \in [Ctx -> {"idle", "spin"} \cup Critical]
  /\ call \in [Ctx -> [op : Ops, reg : Regs]]
  /\ trusted \in BOOLEAN
  /\ request \in BOOLEAN
  /\ ack \in BOOLEAN
  /\ gt \in {"down", "waking", "up"}
  /\ fifoErr \in BOOLEAN
  /\ unclaimed \in BOOLEAN

\* With the lock free the request bit is set exactly when some caller holds a
\* reference: the driver neither loses a wake-up nor keeps the GT awake for
\* nobody (the pairing of gpu_forcewake_get, gpu_forcewake_put and the
\* temporary wake-ups inside gpu_read##x).
RequestMatchesHolders == lock = None => (request <=> holders # {})

\* The contexts for which the GT has to be up at this moment: those that hold
\* a reference, except the first one before its handshake has made the
\* request, and those in the middle of a wake-up of their own.
Votes ==
  {c \in Ctx : \/ c \in holders /\ pc[c] \notin {"oldclear", "enable"}
               \/ pc[c] \in {"newack", "threads", "disable"}
               \/ pc[c] = "access" /\ WakesItself(c)}

Abs == INSTANCE PowerVote WITH votes <- Votes

\* The counter, the handshake and the temporary wake-ups together are a vote:
\* at every moment, not only between calls, the request bit is set exactly
\* when some context needs the GT, and only one context's need changes at a
\* time (forcewake_count and the request bit are never moved apart).
ImplementsPowerVote == Abs!Spec

\* A caller that has come back from gpu_forcewake_get keeps its wake-up, also
\* in the middle of other contexts' reads, gets and puts: their accesses do
\* not withdraw the request, and if the handshake was acknowledged the GT
\* stays powered throughout.
HeldStaysAwake ==
  \A c \in holders :
    pc[c] \notin Handshake => request /\ (trusted => gt = "up")

\* When a GT register is read, the GT is up, unless a wait of the handshake
\* timed out and was logged.  A stale acknowledge of an earlier request must
\* not be taken for the new one.
ReadWhileUp ==
  \A c \in Ctx :
    pc[c] = "access" /\ NeedsForcewake(call[c].reg) /\ trusted => gt = "up"

\* "Unclaimed register ... after writing to register R" is only ever said of
\* a write to an unclaimed register: a flag left by somebody else's access was
\* reported and cleared before, and nobody gets in between.
BlameIsMine ==
  \A c \in Ctx :
    pc[c] = "after" /\ unclaimed => call[c].reg \in UnclaimedRegs

\* Every access that has started returns, whatever the device does.
CallsReturn == \A c \in Ctx : pc[c] = "spin" ~> pc[c] = "idle"
=============================================================================
