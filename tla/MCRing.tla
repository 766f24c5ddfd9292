------------------------------- MODULE MCRing -------------------------------
(* Model-checking instances of Ring: 16 dwords with a reserve of 4, where the *)
(* code has 32768 and 16.  Jobs of the code: the two self tests and           *)
(* ring_dispatch.                                                             *)
EXTENDS Ring

\* check_dword_temp: begin(8), nine dwords.
CheckTemp == [reserve |-> 8, test |-> TRUE,
              dwords |-> <<"NOOP", "NOOP", "START", "temp", "NOOP",
                           "STORE", "index", "value", "NOOP">>]

\* check_dword_hws: begin(4), four dwords.
CheckHws == [reserve |-> 4, test |-> TRUE,
             dwords |-> <<"STORE", "index", "value", "NOOP">>]

\* ring_dispatch of a caller's batch.
Dispatch == [reserve |-> 2, test |-> FALSE, dwords |-> <<"START", "user">>]

EvenJobs == {CheckHws, Dispatch}
AllJobs == {CheckHws, CheckTemp, Dispatch}
TempJobs == {CheckTemp, Dispatch}

\* The jobs of the code are such as the theorems of RingProofs ask for.
ASSUME CallersAssumption ==
  SmallExcess /\ TestShape /\ (Jobs = EvenJobs => ExactJobs)
=============================================================================
