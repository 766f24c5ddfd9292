------------------------------ MODULE MCDriver ------------------------------
(* Model-checking instance of Driver: three probes in two loads of the      *)
(* module, so that a binding follows a failed one, another follows both,    *)
(* and either may meet a ring an earlier load left enabled; a ring of two   *)
(* pages.                                                                   *)
EXTENDS Driver
=============================================================================
