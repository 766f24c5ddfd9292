------------------------------ MODULE TimedWait ------------------------------
(***************************************************************************)
(* What a caller of wait_for, wait_for_atomic or wait_for_atomic_us relies *)
(* on, with the polling loop left out: the call ends in one instant, either*)
(* because the awaited hardware condition holds at that instant, or because*)
(* it does not hold there and more than the requested time has gone by.    *)
(* The other modules of this project use a wait in this atomic form.       *)
(***************************************************************************)
EXTENDS Naturals

CONSTANT Ticks      \* the time asked for, in jiffies

VARIABLES
  cond,             \* the hardware condition COND, read from a register
  elapsed,          \* real time since the call, in jiffies
  outcome           \* "waiting", or how the call ended

vars == <<cond, elapsed, outcome>>

Init ==
  /\ cond \in BOOLEAN
  /\ elapsed = 0
  /\ outcome = "waiting"

Meet ==
  /\ outcome = "waiting"
  /\ cond
  /\ outcome' = "met"
  /\ UNCHANGED <<cond, elapsed>>

Expire ==
  /\ outcome = "waiting"
  /\ ~cond
  /\ elapsed > Ticks
  /\ outcome' = "timedout"
  /\ UNCHANGED <<cond, elapsed>>

\* The hardware changes its mind, or time passes; the call is not concerned.
Environment ==
  /\ cond' \in BOOLEAN
  /\ elapsed' \in {elapsed, elapsed + 1}
  /\ UNCHANGED outcome

Next == Meet \/ Expire \/ Environment

Spec == Init /\ [][Next]_vars
=============================================================================
