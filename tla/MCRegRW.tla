------------------------------- MODULE MCRegRW -------------------------------
(* Model-checking instance of RegRW.  One register of the ring (0x2034), one *)
(* that no unit claims (0x9008 stands for it) and one outside the GT         *)
(* (GFX_FLSH_CNTL, 0x101008).                                                *)
EXTENDS RegRW

MCRegs == {8244, 36872, 1052680}
MCUnclaimedRegs == {36872}
=============================================================================
