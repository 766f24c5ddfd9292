-------------------------------- MODULE MCGtt --------------------------------
(* Model-checking instance of Gtt: one to three objects of one to three      *)
(* pages out of four frames, so that their runs of pages merge fully, partly *)
(* and not at all, in ascending and descending order, and the allocator runs *)
(* out; bus pages on both sides of the 4 GB border, one of which looks like  *)
(* another when the high address field is lost.                              *)
EXTENDS Gtt

MCFrames == 0 .. 4
MCBusFrames == {0} \cup 2^20 - 2 .. 2^20
MCSizes == 1 .. 3
MCDma32Frames == {0}

ASSUME BusAssumption == Fits
=============================================================================
