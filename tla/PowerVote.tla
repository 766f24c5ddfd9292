------------------------------ MODULE PowerVote ------------------------------
(***************************************************************************)
(* What the forcewake functions of nugpgpu_regrw.c promise the device and  *)
(* the callers, without the counter and the handshake: each context votes  *)
(* for power or does not, and power is requested exactly while there is a  *)
(* vote.                                                                   *)
(***************************************************************************)
CONSTANT Ctx

VARIABLES
  votes,    \* contexts that need the GT
  request   \* what the device is told

vars == <<votes, request>>

Init == votes = {} /\ request = FALSE

Cast(c) ==
  /\ c \notin votes
  /\ votes' = votes \cup {c}
  /\ request' = TRUE

Withdraw(c) ==
  /\ c \in votes
  /\ votes' = votes \ {c}
  /\ request' = (votes' # {})

Next == \E c \in Ctx : Cast(c) \/ Withdraw(c)

Spec == Init /\ [][Next]_vars
=============================================================================
