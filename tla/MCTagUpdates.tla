----------------------------- MODULE MCTagUpdates -----------------------------
(* 2 words of 4 slots of 2 bytes: every map, every range, every junk word. *)
EXTENDS TagUpdates
=============================================================================
