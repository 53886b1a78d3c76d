------------------------------- MODULE MCMount -------------------------------
(* Three chunks (root block, a zeroed one, the one zeroing never reaches)  *)
(* of 3 slots of 2 bytes; the root block covers the first slot.            *)
EXTENDS Mount

AllMaps == SUBSET Ptr
TwoMaps == {Ptr, {}}
=============================================================================
