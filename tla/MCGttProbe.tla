----------------------------- MODULE MCGttProbe -----------------------------
(* Model-checking instance of GttProbe: every value of the two size fields   *)
(* that Haswell defines, with the bits around them clear and set, two bases  *)
(* below 2 GB with the bits below them clear and set, and its BAR of 4 MB.   *)
EXTENDS GttProbe

MCStolenSizes == 0 .. 16
MCTableSizes == 0 .. 2
MCOtherBits == {0, 7, 2^10, 2^15 + 2^14 + 2}
MCBases == {0, 1375}
MCLowBits == {0, 1, 2^20 - 1}
=============================================================================
