------------------------------ MODULE MCWaitFor ------------------------------
(* Model-checking instance of WaitFor: sixteen jiffies, so that every        *)
(* starting value, wrapping ones included, is tried.                         *)
EXTENDS WaitFor

MCTicks == 2
MCJiffiesMod == 16
MCMaxElapsed == 6
=============================================================================
