----------------------------- MODULE RegRWProofs -----------------------------
(***************************************************************************)
(* Proofs about RegRW for any finite set of contexts, any registers and any*)
(* behaviour of the device.                                                *)
(***************************************************************************)
EXTENDS RegRW, FiniteSetTheorems, TLAPS

\* Everything but the bound on the count, which follows from CountInv.
Types ==
  /\ lock \in Ctx \cup {None}
  /\ holders \in SUBSET Ctx
  /\ pc \in [Ctx -> {"idle", "spin"} \cup Critical]
  /\ call \in [Ctx -> [op : Ops, reg : Regs]]
  /\ trusted \in BOOLEAN /\ request \in BOOLEAN /\ ack \in BOOLEAN
  /\ gt \in {"down", "waking", "up"}
  /\ fifoErr \in BOOLEAN /\ unclaimed \in BOOLEAN

\* forcewake_count counts the outstanding references.
CountInv == count = Cardinality(holders)

\* The spinlock: exactly its owner is inside.
LockInv == \A c \in Ctx : pc[c] \in Critical <=> lock = c

\* Why a context is where it is.
PlaceInv ==
  \A c \in Ctx :
    /\ pc[c] \in Handshake =>
         \/ call[c].op = "read" /\ NeedsForcewake(call[c].reg) /\ holders = {}
         \/ call[c].op = "get" /\ holders = {c}
    /\ pc[c] \in {"disable", "fifo"} => holders = {}
    /\ pc[c] = "spin" /\ call[c].op = "put" => c \in holders
    /\ pc[c] = "spin" /\ call[c].op = "get" => c \notin holders

\* The request bit at every point of the functions.
RequestInv ==
  /\ \A c \in Ctx :
       /\ pc[c] \in {"oldclear", "enable", "fifo"} => ~request
       /\ pc[c] \in {"newack", "threads", "disable"} => request
       /\ pc[c] = "access" =>
            (request <=> holders # {} \/ NeedsForcewake(call[c].reg))
       /\ pc[c] \in {"before", "store", "after", "unlock"} =>
            (request <=> holders # {})
  /\ lock = None => (request <=> holders # {})

\* What an undisturbed handshake has established about the GT at each step.
AwakeInv ==
  /\ \A c \in Ctx :
       /\ pc[c] = "enable" /\ trusted => ~ack
       /\ pc[c] = "newack" /\ trusted /\ ack => gt # "down"
       /\ pc[c] = "threads" /\ trusted => gt # "down"
  /\ (request /\ trusted /\ \A c \in Ctx : pc[c] \notin {"newack", "threads"})
       => gt = "up"

\* The unclaimed flag around a write.
FlagInv ==
  \A c \in Ctx :
    /\ pc[c] = "store" => ~unclaimed
    /\ pc[c] = "after" /\ unclaimed => call[c].reg \in UnclaimedRegs

IInv ==
  Types /\ CountInv /\ LockInv /\ PlaceInv /\ RequestInv /\ AwakeInv /\ FlagInv
-----------------------------------------------------------------------------
\* What nugpgpu_regrw_init leaves behind satisfies the inductive invariant.
LEMMA InitInv == Init => IInv
<1> SUFFICES ASSUME Init PROVE IInv
  OBVIOUS
<1>1. CountInv
  BY FS_EmptySet DEF Init, CountInv
<1>2. Types
  BY DEF Init, Types, Ops
<1>3. LockInv /\ PlaceInv /\ RequestInv /\ AwakeInv /\ FlagInv
  BY RegRWAssumption
     DEF Init, LockInv, PlaceInv, RequestInv, AwakeInv, FlagInv, Critical,
         Handshake
<1>4. QED
  BY <1>1, <1>2, <1>3 DEF IInv

\* The counter comparisons of the code are questions about the holders.
LEMMA CountFacts ==
  ASSUME Types, CountInv
  PROVE  /\ count \in 0 .. Cardinality(Ctx)
         /\ count = 0 <=> holders = {}
         /\ \A c \in Ctx : /\ c \notin holders =>
                                Cardinality(holders \cup {c}) = count + 1
                           /\ c \in holders =>
                                Cardinality(holders \ {c}) = count - 1
                           /\ c \in holders =>
                                (count = 1 <=> holders \ {c} = {})
<1>1. IsFiniteSet(holders) /\ Cardinality(holders) <= Cardinality(Ctx)
  BY RegRWAssumption, FS_Subset DEF Types
<1>2. Cardinality(holders) \in Nat /\ Cardinality(Ctx) \in Nat
  BY <1>1, RegRWAssumption, FS_CardinalityType
<1>3. Cardinality(holders) = 0 <=> holders = {}
  BY <1>1, FS_EmptySet
<1>4. ASSUME NEW c \in Ctx, c \notin holders
      PROVE  Cardinality(holders \cup {c}) = count + 1
  BY <1>1, <1>4, FS_AddElement DEF CountInv
<1>5. ASSUME NEW c \in Ctx, c \in holders
      PROVE  Cardinality(holders \ {c}) = count - 1
  BY <1>1, <1>5, FS_RemoveElement DEF CountInv
<1>6. ASSUME NEW c \in Ctx, c \in holders
      PROVE  count = 1 <=> holders \ {c} = {}
  <2>1. IsFiniteSet(holders \ {c})
    BY <1>1, FS_RemoveElement
  <2>2. Cardinality(holders \ {c}) = 0 <=> holders \ {c} = {}
    BY <2>1, FS_EmptySet
  <2>3. QED
    BY <2>2, <1>2, <1>5, <1>6 DEF CountInv
<1>7. QED
  BY <1>1, <1>2, <1>3, <1>4, <1>5, <1>6 DEF CountInv

-----------------------------------------------------------------------------
(* One lemma per group of actions: each keeps the inductive invariant. *)

\* A context that enters an access function changes nothing but its own place.
LEMMA CallInv ==
  ASSUME IInv, NEW c \in Ctx, NEW op \in Ops, NEW reg \in Regs,
         Call(c, op, reg)
  PROVE  IInv'
<1> USE DEF IInv, Call, Goto, deviceVars
<1>1. Types'
  BY DEF Types
<1>2. CountInv'
  BY DEF CountInv
<1>3. LockInv' /\ FlagInv'
  BY DEF Types, LockInv, FlagInv, Critical, Handshake
<1>4. PlaceInv'
  BY DEF Types, PlaceInv, Critical, Handshake
<1>5. RequestInv'
  BY DEF Types, RequestInv, Critical, Handshake
<1>6. AwakeInv'
  BY DEF Types, AwakeInv
<1>7. QED
  BY <1>1, <1>2, <1>3, <1>4, <1>5, <1>6

\* spin_lock_irqsave and the counter update behind it keep the invariant.
LEMMA LockStepInv ==
  ASSUME IInv, NEW c \in Ctx, Lock(c)
  PROVE  IInv'
<1> USE DEF IInv, Acquire, Goto, deviceVars, WakesItself, Lower, AfterPut
<1>1. /\ pc[c] = "spin" /\ lock = None /\ lock' = c
      /\ UNCHANGED <<call, trusted, request, ack, gt, fifoErr, unclaimed>>
  BY DEF Lock, LockRead, LockWrite, LockGet, LockPut
<1>2. CountInv' /\ holders' \in SUBSET Ctx
  BY CountFacts DEF Lock, LockRead, LockWrite, LockGet, LockPut, Types,
                    PlaceInv, CountInv
<1>3. /\ pc'[c] \in {"oldclear", "access", "before", "disable", "unlock"}
      /\ \A d \in Ctx \ {c} : pc'[d] = pc[d]
      /\ pc' \in [Ctx -> {"idle", "spin"} \cup Critical]
  BY DEF Lock, LockRead, LockWrite, LockGet, LockPut, Types, Critical,
         Handshake
<1>4. \A d \in Ctx \ {c} : pc'[d] \in {"idle", "spin"}
  BY <1>1, <1>3, RegRWAssumption DEF Types, LockInv
<1>5. Types'
  BY <1>1, <1>2, <1>3 DEF Types
<1>6. LockInv'
  BY <1>1, <1>3, <1>4, RegRWAssumption DEF Types, LockInv, Critical
<1>7. FlagInv'
  BY <1>1, <1>3, <1>4 DEF FlagInv
<1>8. AwakeInv'
  <2>1. \A d \in Ctx : /\ pc'[d] \notin {"enable", "newack", "threads"}
                       /\ pc[d] \notin {"newack", "threads"}
    BY <1>1, <1>3, <1>4, RegRWAssumption DEF Types, LockInv, Critical, Handshake
  <2>2. QED
    BY <1>1, <2>1 DEF AwakeInv
<1>9. \A d \in Ctx \ {c} : call[d].op = "get" /\ d \notin holders
                             => d \notin holders'
  BY DEF Lock, LockRead, LockWrite, LockGet, LockPut
<1>10. \A d \in Ctx \ {c} : d \in holders => d \in holders'
  BY DEF Lock, LockRead, LockWrite, LockGet, LockPut
<1>11. /\ pc'[c] = "oldclear" =>
            \/ /\ call[c].op = "read" /\ NeedsForcewake(call[c].reg)
               /\ holders' = {}
            \/ call[c].op = "get" /\ holders' = {c}
       /\ pc'[c] = "oldclear" => holders = {}
       /\ pc'[c] = "disable" => holders' = {} /\ holders # {}
       /\ pc'[c] = "access" =>
            /\ holders' = holders
            /\ holders # {} \/ ~NeedsForcewake(call[c].reg)
       /\ pc'[c] = "before" => holders' = holders
       /\ pc'[c] = "unlock" => (holders' # {} <=> holders # {})
  <2> USE <1>1, CountFacts DEF Types
  <2>1. CASE LockRead(c)
    BY <2>1 DEF LockRead
  <2>2. CASE LockWrite(c)
    BY <2>2 DEF LockWrite
  <2>3. CASE LockGet(c)
    BY <2>3 DEF LockGet
  <2>4. CASE LockPut(c)
    <3>1. c \in holders
      BY <2>4 DEF LockPut, PlaceInv
    <3>2. /\ holders' = holders \ {c} /\ pc'[c] = AfterPut
          /\ count = 1 <=> holders \ {c} = {}
      BY <2>4, <3>1 DEF LockPut
    <3>3. QED
      BY <3>1, <3>2 DEF AfterPut
  <2>5. QED
    BY <2>1, <2>2, <2>3, <2>4 DEF Lock
<1>12. PlaceInv'
  <2>1. ASSUME NEW d \in Ctx \ {c}
        PROVE  /\ pc'[d] \notin Handshake \cup {"disable", "fifo"}
               /\ pc'[d] = "spin" /\ call[d].op = "put" => d \in holders'
               /\ pc'[d] = "spin" /\ call[d].op = "get" => d \notin holders'
    BY <1>3, <1>4, <1>9, <1>10, <2>1 DEF PlaceInv, Handshake
  <2>2. QED
    BY <1>1, <1>3, <1>11, <2>1 DEF PlaceInv, Handshake
<1>13. RequestInv'
  <2>1. request <=> holders # {}
    BY <1>1 DEF RequestInv
  <2>2. QED
    BY <1>1, <1>3, <1>4, <1>11, <2>1, RegRWAssumption DEF RequestInv
<1>14. QED
  BY <1>2, <1>5, <1>6, <1>7, <1>8, <1>12, <1>13

\* The owner of the lock takes a step of the access functions.
LEMMA InsideStepInv ==
  ASSUME IInv, NEW c \in Ctx, Inside(c)
  PROVE  IInv'
<1> USE DEF IInv, Step, Goto, driverVars, deviceVars,
            OldAckGone, AfterAccess, WakesItself, FlagChecked
<1> DEFINE Others == \A d \in Ctx \ {c} : /\ pc[d] \in {"idle", "spin"}
                                          /\ pc'[d] = pc[d]
<1>1. /\ lock = c /\ pc[c] \in Critical
      /\ UNCHANGED <<count, holders, call>>
      /\ Others
  <2>1. pc[c] \in Critical
    BY DEF Inside, WaitOldClear, Enable, WaitNewAck, WaitThreads, Access,
           Disable, CheckFifo, CheckUnclaimed, Store, Unlock,
           Critical, Handshake
  <2>2. lock = c /\ \A d \in Ctx \ {c} : pc[d] \in {"idle", "spin"}
    BY <2>1 DEF LockInv, Types
  <2>3. UNCHANGED <<count, holders, call>>
    BY DEF Inside, WaitOldClear, Enable, WaitNewAck, WaitThreads, Access,
           Disable, CheckFifo, CheckUnclaimed, Store, Unlock
  <2>4. \A d \in Ctx \ {c} : pc'[d] = pc[d]
    BY DEF Inside, WaitOldClear, Enable, WaitNewAck, WaitThreads, Access,
           Disable, CheckFifo, CheckUnclaimed, Store, Unlock, Types
  <2>5. QED
    BY <2>1, <2>2, <2>3, <2>4
<1>2. CountInv'
  BY <1>1 DEF CountInv
<1>3. Types'
  <2>1. trusted' \in BOOLEAN
    BY DEF Inside, WaitOldClear, Enable, WaitNewAck, WaitThreads, Access,
           Disable, CheckFifo, CheckUnclaimed, Store, Unlock, Types
  <2>2. request' \in BOOLEAN /\ ack' \in BOOLEAN /\ fifoErr' \in BOOLEAN
    BY DEF Inside, WaitOldClear, Enable, WaitNewAck, WaitThreads, Access,
           Disable, CheckFifo, CheckUnclaimed, Store, Unlock, Types
  <2>3. unclaimed' \in BOOLEAN
    BY DEF Inside, WaitOldClear, Enable, WaitNewAck, WaitThreads, Access,
           Disable, CheckFifo, CheckUnclaimed, Store, Unlock, Types
  <2>4. gt' = gt /\ lock' \in Ctx \cup {None}
    BY DEF Inside, WaitOldClear, Enable, WaitNewAck, WaitThreads, Access,
           Disable, CheckFifo, CheckUnclaimed, Store, Unlock, Types
  <2>5. pc' \in [Ctx -> {"idle", "spin"} \cup Critical]
    BY DEF Inside, WaitOldClear, Enable, WaitNewAck, WaitThreads, Access,
           Disable, CheckFifo, CheckUnclaimed, Store, Unlock,
           Types, Critical, Handshake
  <2>6. QED
    BY <1>1, <2>1, <2>2, <2>3, <2>4, <2>5 DEF Types
<1>4. LockInv'
  BY <1>1, RegRWAssumption
     DEF Inside, WaitOldClear, Enable, WaitNewAck, WaitThreads, Access,
         Disable, CheckFifo, CheckUnclaimed, Store, Unlock,
         Types, LockInv, Critical, Handshake
<1>5. PlaceInv'
  <2>1. \A d \in Ctx \ {c} :
          /\ pc'[d] \notin Handshake \cup {"disable", "fifo"}
          /\ pc'[d] = "spin" /\ call[d].op = "put" => d \in holders'
          /\ pc'[d] = "spin" /\ call[d].op = "get" => d \notin holders'
    BY <1>1 DEF PlaceInv, Handshake
  <2>2. CASE WaitOldClear(c) \/ Enable(c) \/ WaitNewAck(c) \/ WaitThreads(c)
    BY <1>1, <2>1, <2>2 DEF WaitOldClear, Enable, WaitNewAck, WaitThreads,
                            Types, PlaceInv, Handshake
  <2>3. CASE Access(c)
    BY <1>1, <2>1, <2>3, CountFacts DEF Access, Types, PlaceInv, Handshake
  <2>4. CASE Disable(c) \/ CheckFifo(c) \/ CheckUnclaimed(c) \/ Store(c) \/ Unlock(c)
    BY <1>1, <2>1, <2>4 DEF Disable, CheckFifo, CheckUnclaimed, Store, Unlock, Types,
       PlaceInv, Handshake
  <2>5. QED
    BY <2>2, <2>3, <2>4 DEF Inside
<1>6. RequestInv'
  <2> USE <1>1, RegRWAssumption DEF Types, RequestInv
  <2>1. CASE WaitOldClear(c) \/ Enable(c) \/ WaitNewAck(c)
    BY <2>1 DEF WaitOldClear, Enable, WaitNewAck
  <2>2. CASE WaitThreads(c)
    BY <2>2 DEF WaitThreads, PlaceInv, Handshake
  <2>3. CASE Access(c)
    BY <2>3, CountFacts DEF Access
  <2>4. CASE Disable(c) \/ CheckFifo(c)
    BY <2>4 DEF Disable, CheckFifo, PlaceInv
  <2>5. CASE CheckUnclaimed(c) \/ Store(c) \/ Unlock(c)
    BY <2>5 DEF CheckUnclaimed, Store, Unlock
  <2>6. QED
    BY <2>1, <2>2, <2>3, <2>4, <2>5 DEF Inside
<1>7. AwakeInv'
  <2> USE <1>1 DEF Types, AwakeInv
  <2>1. CASE WaitOldClear(c)
    BY <2>1 DEF WaitOldClear, RequestInv
  <2>2. CASE Enable(c)
    BY <2>2 DEF Enable
  <2>3. CASE WaitNewAck(c)
    BY <2>3 DEF WaitNewAck
  <2>4. CASE WaitThreads(c)
    BY <2>4 DEF WaitThreads, ThreadsSeenUp
  <2>5. CASE Access(c) \/ Disable(c) \/ CheckFifo(c)
    BY <2>5 DEF Access, Disable, CheckFifo
  <2>6. CASE CheckUnclaimed(c) \/ Store(c) \/ Unlock(c)
    BY <2>6 DEF CheckUnclaimed, Store, Unlock
  <2>7. QED
    BY <2>1, <2>2, <2>3, <2>4, <2>5, <2>6 DEF Inside
<1>8. FlagInv'
  <2>1. CASE CheckUnclaimed(c) \/ Store(c)
    BY <1>1, <2>1 DEF CheckUnclaimed, Store, Types, FlagInv
  <2>2. CASE ~(CheckUnclaimed(c) \/ Store(c))
    BY <1>1, <2>2 DEF Inside, WaitOldClear, Enable, WaitNewAck, WaitThreads,
                      Access, Disable, CheckFifo, Unlock, Types, FlagInv
  <2>3. QED
    BY <2>1, <2>2
<1>9. QED
  BY <1>2, <1>3, <1>4, <1>5, <1>6, <1>7, <1>8

\* The device may move at any time.
LEMMA DeviceStepInv ==
  ASSUME IInv, Device
  PROVE  IInv'
<1> USE DEF IInv, driverVars, Device, Power, Acknowledge
<1>1. Types'
  BY DEF Types
<1>2. CountInv' /\ LockInv' /\ PlaceInv' /\ RequestInv' /\ FlagInv'
  BY DEF CountInv, LockInv, PlaceInv, RequestInv, FlagInv
<1>3. AwakeInv'
  BY DEF Types, AwakeInv, RequestInv
<1>4. QED
  BY <1>1, <1>2, <1>3

\* A step that changes no variable keeps the invariant.
LEMMA StutterInv ==
  ASSUME IInv, UNCHANGED vars
  PROVE  IInv'
BY DEF IInv, vars, driverVars, deviceVars, Types, CountInv, LockInv, PlaceInv,
       RequestInv, AwakeInv, FlagInv

\* The inductive invariant holds in every reachable state.
LEMMA InvariantIInv == Spec => []IInv
<1>1. IInv /\ [Next]_vars => IInv'
  BY CallInv, LockStepInv, InsideStepInv, DeviceStepInv, StutterInv DEF Next
<1>2. QED
  BY InitInv, <1>1, PTL DEF Spec

-----------------------------------------------------------------------------
\* Every variable keeps its type; in particular forcewake_count never goes
\* negative and never exceeds the number of callers.
THEOREM RegRWTypeCorrect == Spec => []TypeOK
<1>1. IInv => TypeOK
  BY CountFacts DEF IInv, Types, TypeOK
<1>2. QED
  BY InvariantIInv, <1>1, PTL

\* FORCEWAKE_MT follows the references exactly whenever the lock is free.
THEOREM RegRWRequestMatchesHolders == Spec => []RequestMatchesHolders
<1>1. IInv => RequestMatchesHolders
  BY DEF IInv, RequestInv, RequestMatchesHolders
<1>2. QED
  BY InvariantIInv, <1>1, PTL

\* A reference keeps the GT up through everything other contexts do.
THEOREM RegRWHeldStaysAwake == Spec => []HeldStaysAwake
<1>1. ASSUME IInv, NEW h \in holders, pc[h] \notin Handshake
      PROVE  request /\ (trusted => gt = "up")
  <2> USE <1>1 DEF IInv
  <2>1. h \in Ctx
    BY DEF Types
  <2>2. \A d \in Ctx : pc[d] \notin Handshake
    BY <2>1 DEF PlaceInv
  <2>3. request
    <3>1. CASE lock = None
      BY <3>1 DEF RequestInv
    <3>2. CASE lock \in Ctx
      BY <3>2, <2>2 DEF RequestInv, PlaceInv, LockInv, Critical, Types
    <3>3. QED
      BY <3>1, <3>2 DEF Types
  <2>4. trusted => gt = "up"
    BY <2>2, <2>3 DEF AwakeInv, Handshake
  <2>5. QED
    BY <2>3, <2>4
<1>2. IInv => HeldStaysAwake
  BY <1>1 DEF HeldStaysAwake
<1>3. QED
  BY InvariantIInv, <1>2, PTL

\* Register reads of the GT find it powered, or a timeout has been logged.
THEOREM RegRWReadWhileUp == Spec => []ReadWhileUp
<1>1. IInv => ReadWhileUp
  <2>1. ASSUME IInv, NEW c \in Ctx, pc[c] = "access",
               NeedsForcewake(call[c].reg), trusted
        PROVE  gt = "up"
    <3> USE <2>1 DEF IInv
    <3>1. request
      BY DEF RequestInv
    <3>2. \A d \in Ctx : pc[d] \notin {"newack", "threads"}
      BY RegRWAssumption DEF LockInv, Critical, Handshake
    <3>3. QED
      BY <3>1, <3>2 DEF AwakeInv
  <2>2. QED
    BY <2>1 DEF ReadWhileUp
<1>2. QED
  BY InvariantIInv, <1>1, PTL

\* The unclaimed-register report after a write names the culprit.
THEOREM RegRWBlameIsMine == Spec => []BlameIsMine
<1>1. IInv => BlameIsMine
  BY DEF IInv, FlagInv, BlameIsMine
<1>2. QED
  BY InvariantIInv, <1>1, PTL

-----------------------------------------------------------------------------
(* The refinement: each step of the access functions is a step of the vote. *)

\* spin_lock_irqsave and the counter update cast or withdraw at most the
\* caller's own vote, and only when other votes keep the request where it is.
LEMMA LockStepVotes ==
  ASSUME IInv, NEW c \in Ctx, Lock(c)
  PROVE  [Abs!Next]_(Abs!vars)
<1> USE DEF IInv, Types, Acquire, Goto, deviceVars
<1>1. /\ lock = None /\ UNCHANGED <<call, request>>
      /\ \A d \in Ctx : pc[d] \in {"idle", "spin"}
      /\ \A d \in Ctx \ {c} : pc'[d] = pc[d]
      /\ request <=> holders # {}
  BY RegRWAssumption
     DEF Lock, LockRead, LockWrite, LockGet, LockPut, LockInv, RequestInv
<1>2. Votes = holders
  BY <1>1 DEF Votes
<1>3. CASE LockRead(c) \/ LockWrite(c)
  <2>1. Votes' = holders
    BY <1>1, <1>3, CountFacts DEF LockRead, LockWrite, Votes, WakesItself
  <2>2. QED
    BY <1>1, <1>2, <2>1 DEF Abs!vars
<1>4. CASE LockGet(c)
  <2>1. CASE count = 0
    <3>1. holders = {} /\ Votes' = {}
      BY <1>1, <1>4, <2>1, CountFacts DEF LockGet, Votes, WakesItself
    <3>2. QED
      BY <1>1, <1>2, <3>1 DEF Abs!vars
  <2>2. CASE count # 0
    <3>1. holders # {} /\ Votes' = holders \cup {c}
      BY <1>1, <1>4, <2>2, CountFacts DEF LockGet, Votes, WakesItself
    <3>2. QED
      BY <1>1, <1>2, <3>1 DEF Abs!vars, Abs!Next, Abs!Cast
  <2>3. QED
    BY <2>1, <2>2
<1>5. CASE LockPut(c)
  <2>1. c \in holders
    BY <1>5 DEF LockPut, PlaceInv
  <2>2. CASE count = 1
    <3>1. holders = {c}
      BY <2>1, <2>2, CountFacts
    <3>2. Votes' = {c}
      BY <1>1, <1>5, <2>2, <3>1 DEF LockPut, AfterPut, Votes, WakesItself
    <3>3. QED
      BY <1>1, <1>2, <3>1, <3>2 DEF Abs!vars
  <2>3. CASE count # 1
    <3>1. holders \ {c} # {}
      BY <2>1, <2>3, CountFacts
    <3>2. Votes' = holders \ {c}
      BY <1>1, <1>5, <2>3 DEF LockPut, AfterPut, Votes, WakesItself
    <3>3. QED
      BY <1>1, <1>2, <2>1, <3>1, <3>2 DEF Abs!Next, Abs!Withdraw
  <2>4. QED
    BY <2>2, <2>3
<1>6. QED
  BY <1>3, <1>4, <1>5 DEF Lock

\* Inside the lock a vote changes exactly where the request bit is written.
LEMMA InsideStepVotes ==
  ASSUME IInv, NEW c \in Ctx, Inside(c)
  PROVE  [Abs!Next]_(Abs!vars)
<1> USE DEF IInv, Types, Step, Goto, deviceVars, AfterAccess, WakesItself
<1>1. /\ pc[c] \in Critical
      /\ UNCHANGED <<count, holders, call>>
      /\ \A d \in Ctx \ {c} : pc'[d] = pc[d]
  BY DEF Inside, WaitOldClear, Enable, WaitNewAck, WaitThreads, Access,
         Disable, CheckFifo, CheckUnclaimed, Store, Unlock, Critical,
         Handshake
<1>2. \A d \in Ctx \ {c} : pc[d] \in {"idle", "spin"}
  BY <1>1 DEF LockInv
<1>3. \A d \in Ctx \ {c} : d \in Votes' <=> d \in Votes
  BY <1>1 DEF Votes
<1>4. Votes \subseteq Ctx /\ Votes' \subseteq Ctx
  BY DEF Votes
<1>5. CASE Enable(c)
  <2>1. c \notin Votes /\ c \in Votes' /\ request'
    BY <1>5 DEF Enable, Votes
  <2>2. Votes' = Votes \cup {c}
    BY <1>3, <1>4, <2>1
  <2>3. request' = TRUE
    BY <1>5 DEF Enable
  <2>4. QED
    BY <2>1, <2>2, <2>3 DEF Abs!Next, Abs!Cast
<1>6. CASE Disable(c)
  <2>1. holders = {} /\ c \in Votes /\ request' = FALSE
    BY <1>6 DEF Disable, PlaceInv, Votes
  <2>2. Votes' = {}
    BY <1>1, <1>2, <1>6, <2>1 DEF Disable, Votes
  <2>3. Votes' = Votes \ {c}
    BY <1>3, <1>4, <2>2
  <2>4. QED
    BY <2>1, <2>2, <2>3 DEF Abs!Next, Abs!Withdraw
<1>7. CASE ~(Enable(c) \/ Disable(c))
  <2>1. c \in Votes' <=> c \in Votes
    <3>1. CASE WaitThreads(c)
      BY <1>1, <3>1, CountFacts DEF WaitThreads, Votes, PlaceInv, Handshake
    <3>2. CASE Access(c)
      BY <1>1, <3>2 DEF Access, Votes
    <3>3. CASE WaitOldClear(c) \/ WaitNewAck(c)
      BY <1>1, <3>3 DEF WaitOldClear, WaitNewAck, Votes
    <3>4. CASE CheckFifo(c) \/ CheckUnclaimed(c) \/ Store(c) \/ Unlock(c)
      BY <1>1, <3>4 DEF CheckFifo, CheckUnclaimed, Store, Unlock, Votes
    <3>5. QED
      BY <1>7, <3>1, <3>2, <3>3, <3>4 DEF Inside
  <2>2. request' = request
    BY <1>7 DEF Inside, WaitOldClear, WaitNewAck, WaitThreads, Access,
                CheckFifo, CheckUnclaimed, Store, Unlock
  <2>3. Votes' = Votes
    BY <1>3, <1>4, <2>1
  <2>4. QED
    BY <2>2, <2>3 DEF Abs!vars
<1>8. QED
  BY <1>5, <1>6, <1>7

\* Counter, handshake and temporary wake-ups implement the vote for power, for
\* any finite number of contexts.
THEOREM RegRWRefinement == Spec => ImplementsPowerVote
<1>1. Init => Abs!Init
  BY DEF Init, Abs!Init, Votes
<1>2. IInv /\ [Next]_vars => [Abs!Next]_(Abs!vars)
  <2> SUFFICES ASSUME IInv, [Next]_vars PROVE [Abs!Next]_(Abs!vars)
    OBVIOUS
  <2>1. ASSUME NEW c \in Ctx, NEW op \in Ops, NEW reg \in Regs,
               Call(c, op, reg)
        PROVE  UNCHANGED Abs!vars
    BY <2>1 DEF IInv, Types, Call, Goto, deviceVars, Votes, WakesItself,
                Abs!vars
  <2>2. CASE Device
    BY <2>2 DEF Device, Power, Acknowledge, driverVars, Votes, WakesItself,
                Abs!vars
  <2>3. CASE UNCHANGED vars
    BY <2>3 DEF vars, driverVars, deviceVars, Votes, WakesItself, Abs!vars
  <2>4. QED
    BY <2>1, <2>2, <2>3, LockStepVotes, InsideStepVotes DEF Next
<1>3. QED
  BY <1>1, <1>2, InvariantIInv, PTL DEF Spec, Abs!Spec, ImplementsPowerVote
=============================================================================
