---------------------------- MODULE WaitForProofs ----------------------------
(***************************************************************************)
(* Proofs about WaitFor for every timeout, every width of jiffies and every*)
(* interleaving of the thread, the timer and the hardware.                 *)
(***************************************************************************)
EXTENDS WaitFor, TLAPS

\* jiffies and timeout__ are on the two sides of the deadline that real time
\* says, across a wrap of the counter too.
ClockInv ==
  pc # "enter" =>
    IF elapsed <= Ticks + 1
    THEN timeout = Plus(jiffies, Ticks + 1 - elapsed)
    ELSE jiffies = Plus(timeout, elapsed - Ticks - 1)

\* Only a thread that has passed the deadline looks a second time or gives up.
DeadlineInv ==
  /\ pc = "enter" => elapsed = 0
  /\ pc = "recheck" => elapsed > Ticks
  /\ ret = -ETIMEDOUT => pc = "done" /\ elapsed > Ticks

IInv == TypeOK /\ ClockInv /\ DeadlineInv

\* time_after on the wrapped counter is the comparison of real times.
LEMMA TimeAfterIsLate ==
  ASSUME TypeOK, ClockInv, pc = "deadline", TimeAfter(jiffies, timeout)
  PROVE  elapsed > Ticks
<1> USE WaitForAssumption DEF TypeOK
<1>1. SUFFICES ASSUME elapsed <= Ticks + 1 PROVE FALSE
  OBVIOUS
<1>2. timeout = Plus(jiffies, Ticks + 1 - elapsed)
  BY <1>1 DEF ClockInv
<1>3. Minus(timeout, jiffies) = Ticks + 1 - elapsed
  BY <1>1, <1>2 DEF Plus, Minus
<1>4. 2 * Minus(timeout, jiffies) < JiffiesMod
  BY <1>1, <1>3
<1>5. QED
  BY <1>3, <1>4 DEF TimeAfter

\* The invariant holds where a wait starts, whatever jiffies shows.
LEMMA InitInv == Init => IInv
BY WaitForAssumption DEF Init, IInv, TypeOK, ClockInv, DeadlineInv, ETIMEDOUT

\* Every step of the loop, the tick and the hardware keeps it.
LEMMA StepInv == IInv /\ [Next]_vars => IInv'
<1> SUFFICES ASSUME IInv, [Next]_vars PROVE IInv'
  OBVIOUS
<1> USE WaitForAssumption DEF IInv, TypeOK, DeadlineInv, ETIMEDOUT, clock
<1>1. CASE Enter
  <2>1. timeout' \in 0 .. JiffiesMod - 1
    BY <1>1 DEF Enter, Plus
  <2>2. ClockInv'
    BY <1>1 DEF Enter, ClockInv, Plus
  <2>3. QED
    BY <1>1, <2>1, <2>2 DEF Enter
<1>2. CASE Test
  BY <1>2 DEF Test, ClockInv, Plus
<1>3. CASE Deadline
  <2>1. pc' = "recheck" => elapsed > Ticks
    BY <1>3, TimeAfterIsLate DEF Deadline
  <2>2. ClockInv'
    BY <1>3 DEF Deadline, ClockInv, Plus
  <2>3. QED
    BY <1>3, <2>1, <2>2 DEF Deadline
<1>4. CASE Recheck
  BY <1>4 DEF Recheck, Verdict, ClockInv, Plus
<1>5. CASE Pause
  BY <1>5 DEF Pause, ClockInv, Plus
<1>6. CASE Tick
  <2>1. jiffies' \in 0 .. JiffiesMod - 1
    BY <1>6 DEF Tick, Plus
  <2>2. ClockInv'
    BY <1>6 DEF Tick, ClockInv, Plus
  <2>3. QED
    BY <1>6, <2>1, <2>2 DEF Tick
<1>7. CASE Hardware
  BY <1>7 DEF Hardware, ClockInv, Plus
<1>8. CASE UNCHANGED vars
  BY <1>8 DEF vars, ClockInv, Plus
<1>9. QED
  BY <1>1, <1>2, <1>3, <1>4, <1>5, <1>6, <1>7, <1>8 DEF Next, Thread

\* The invariant holds in every reachable state.
LEMMA InvariantIInv == Spec => []IInv
BY InitInv, StepInv, PTL DEF Spec

\* Type correctness of the macro's variables (nugpgpu_drv.h, _wait_for): the
\* wrapping arithmetic never leaves the counter's range.
THEOREM WaitForTypeCorrect == Spec => []TypeOK
<1>1. IInv => TypeOK
  BY DEF IInv
<1>2. QED
  BY InvariantIInv, <1>1, PTL

\* The _wait_for loop implements the atomic wait for every timeout and every
\* width of the counter.
THEOREM WaitForRefinement == Spec => ImplementsTimedWait
<1>1. Init => Abs!Init
  BY DEF Init, Abs!Init, Outcome
<1>2. IInv /\ IInv' /\ [Next]_vars => [Abs!Next]_(Abs!vars)
  <2> SUFFICES ASSUME IInv, IInv', [Next]_vars
               PROVE  [Abs!Next]_(Abs!vars)
    OBVIOUS
  <2> USE WaitForAssumption
      DEF IInv, TypeOK, DeadlineInv, Outcome, ETIMEDOUT, clock, Abs!vars
  <2>1. CASE Enter
    BY <2>1 DEF Enter
  <2>2. CASE Test
    BY <2>2 DEF Test, Abs!Next, Abs!Meet
  <2>3. CASE Deadline
    BY <2>3 DEF Deadline
  <2>4. CASE Recheck
    BY <2>4 DEF Recheck, Verdict, Abs!Next, Abs!Meet, Abs!Expire
  <2>5. CASE Pause
    BY <2>5 DEF Pause
  <2>6. CASE Tick
    BY <2>6 DEF Tick, Abs!Next, Abs!Environment
  <2>7. CASE Hardware
    BY <2>7 DEF Hardware, Abs!Next, Abs!Environment
  <2>8. CASE UNCHANGED vars
    BY <2>8 DEF vars
  <2>9. QED
    BY <2>1, <2>2, <2>3, <2>4, <2>5, <2>6, <2>7, <2>8 DEF Next, Thread
<1>3. QED
  BY <1>1, <1>2, InvariantIInv, PTL DEF Spec, Abs!Spec, ImplementsTimedWait

\* Hardware that answers in time and keeps its answer is never reported as
\* timed out: the second look at COND is what makes the step proof go through.
THEOREM WaitForAnswerSeen == Spec => AnsweredInTimeIsSeen
<1> DEFINE Open == ret # -ETIMEDOUT
<1>1. IInv => (elapsed <= Ticks => Open)
  BY WaitForAssumption DEF IInv, TypeOK, DeadlineInv
<1>2. cond /\ Open /\ [Next]_vars => Open'
  BY DEF Next, Thread, Enter, Test, Deadline, Recheck, Verdict, Pause, Tick,
         Hardware, vars
<1> DEFINE InTime == elapsed <= Ticks
<1>3. Spec => [](InTime /\ []cond => []Open)
  <2> HIDE DEF Open, InTime
  <2>1. IInv => (InTime => Open)
    BY <1>1 DEF InTime
  <2>2. QED
    BY <2>1, <1>2, InvariantIInv, PTL DEF Spec
<1>4. QED
  BY <1>3 DEF AnsweredInTimeIsSeen
=============================================================================
