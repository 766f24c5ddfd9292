------------------------------- MODULE WaitFor -------------------------------
(***************************************************************************)
(* The _wait_for macro of nugpgpu_drv.h: poll a register condition until   *)
(* it holds or a deadline in jiffies has passed.  Every register wait of   *)
(* the driver (forcewake handshake, TLB flush, ring start) is this loop.   *)
(*                                                                         *)
(* The thread is preemptible between any two of its steps, jiffies is an   *)
(* unsigned counter that wraps, and the hardware moves on its own.         *)
(***************************************************************************)
EXTENDS Integers

CONSTANTS
  Ticks,       \* msecs_to_jiffies(MS)
  JiffiesMod,  \* number of values of the jiffies counter: 2^w
  MaxElapsed   \* bound: ticks that may pass during one call

ASSUME WaitForAssumption ==
  /\ Ticks \in Nat /\ JiffiesMod \in Nat /\ MaxElapsed \in Nat
  /\ Ticks + 1 < MaxElapsed
  /\ 2 * MaxElapsed < JiffiesMod   \* a call is short against the counter

VARIABLES
  timeout,     \* timeout__
  ret,         \* ret__
  pc,          \* where the calling thread is in the macro
  jiffies,     \* the kernel's tick counter
  elapsed,     \* ticks since the macro was entered (real time, not code)
  cond         \* COND

clock == <<jiffies, elapsed>>
vars == <<timeout, ret, pc, clock, cond>>

ETIMEDOUT == 110

\* An addition that does not wrap at the width of unsigned long.
PlusNoWrap(a, b) == a + b

\* unsigned long arithmetic
Plus(a, b)  == IF a + b >= JiffiesMod THEN a + b - JiffiesMod ELSE a + b
Minus(a, b) == IF a >= b THEN a - b ELSE a + JiffiesMod - b

\* A comparison that forgets that the counter wraps.
TimeAfterNoWrap(a, b) == a > b

\* time_after(a, b) of linux/jiffies.h: (long)(b - a) < 0
TimeAfter(a, b) == 2 * Minus(b, a) >= JiffiesMod

Init ==
  /\ timeout = 0 /\ ret = 0 /\ pc = "enter"
  /\ jiffies \in 0 .. JiffiesMod - 1 /\ elapsed = 0
  /\ cond \in BOOLEAN

Enter ==
  /\ pc = "enter"
  /\ timeout' = Plus(jiffies, Ticks + 1)
  /\ pc' = "test"
  /\ UNCHANGED <<ret, clock, cond>>

\* while (!(COND))
Test ==
  /\ pc = "test"
  /\ pc' = IF cond THEN "done" ELSE "deadline"
  /\ UNCHANGED <<timeout, ret, clock, cond>>

\* if (time_after(jiffies, timeout__))
Deadline ==
  /\ pc = "deadline"
  /\ pc' = IF TimeAfter(jiffies, timeout) THEN "recheck" ELSE "pause"
  /\ UNCHANGED <<timeout, ret, clock, cond>>

\* A verdict without the second look at COND.
VerdictBlind == -ETIMEDOUT

\* if (!(COND)) ret__ = -ETIMEDOUT;
Verdict == IF cond THEN ret ELSE -ETIMEDOUT

Recheck ==
  /\ pc = "recheck"
  /\ ret' = Verdict
  /\ pc' = "done"
  /\ UNCHANGED <<timeout, clock, cond>>

\* msleep(W) or cpu_relax(): the thread is away for a while.
Pause ==
  /\ pc = "pause"
  /\ pc' = "test"
  /\ UNCHANGED <<timeout, ret, clock, cond>>

\* The timer interrupt of some processor.
Tick ==
  /\ pc \notin {"enter", "done"} /\ elapsed < MaxElapsed
  /\ jiffies' = Plus(jiffies, 1)
  /\ elapsed' = elapsed + 1
  /\ UNCHANGED <<timeout, ret, pc, cond>>

\* The device changes the register the condition is read from.
Hardware ==
  /\ pc # "done"
  /\ cond' = ~cond
  /\ UNCHANGED <<timeout, ret, pc, clock>>

Thread == Enter \/ Test \/ Deadline \/ Recheck \/ Pause

Next == Thread \/ Tick \/ Hardware

Spec == Init /\ [][Next]_vars

\* The thread is scheduled again and again and ticks keep coming.  For the
\* waits made with interrupts off this needs another processor to take the
\* timer interrupt.
FairSpec == Spec /\ WF_vars(Thread) /\ WF_vars(Tick)
-----------------------------------------------------------------------------
TypeOK ==
  /\ timeout \in 0 .. JiffiesMod - 1
  /\ ret \in {0, -ETIMEDOUT}
  /\ pc \in {"enter", "test", "deadline", "recheck", "pause", "done"}
  /\ jiffies \in 0 .. JiffiesMod - 1
  /\ elapsed \in 0 .. MaxElapsed
  /\ cond \in BOOLEAN

\* How the call looks from outside.
Outcome ==
  IF pc # "done" THEN "waiting" ELSE IF ret = 0 THEN "met" ELSE "timedout"

Abs == INSTANCE TimedWait WITH outcome <- Outcome

\* The macro implements the atomic wait: it reports success at an instant at
\* which the condition holds and a timeout only at an instant at which the
\* condition is false and more than MS has really passed, wherever the thread
\* was preempted and whether or not jiffies wrapped meanwhile.
ImplementsTimedWait == Abs!Spec

\* What the comment above the macro promises ("it's important that we check
\* the condition again after having timed out"): hardware that answers within
\* the requested time, and leaves the answer standing from then on, is never
\* reported as timed out, however late the thread gets to look.
AnsweredInTimeIsSeen ==
  [](elapsed <= Ticks /\ []cond => [](ret # -ETIMEDOUT))

\* A wait ends even if the hardware never answers.
WaitTerminates == <>(pc = "done")
=============================================================================
