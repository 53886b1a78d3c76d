--------------------------- MODULE MCSharedStream ---------------------------
(* In this build get_metadata always fails: requests resolve a path, here  *)
(* of one or two components, and go no further.                            *)
EXTENDS SharedStream

MCNone   == {}
MCDepths == {1, 2}
=============================================================================
