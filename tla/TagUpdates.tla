------------------------------ MODULE TagUpdates ------------------------------
(***************************************************************************)
(* The tag map on its own: any sequence of calls of                        *)
(* metadata_set_valid_bits and metadata_clear_valid_bits (files.c) on any  *)
(* map a backing file may hold.                                            *)
(***************************************************************************)
EXTENDS CapTags

VARIABLES tags,  (* the tag map                                            *)
          alive  (* FALSE once an assertion ended the process              *)

vars == <<tags, alive>>

Init == tags \in SUBSET Ptr /\ alive = TRUE

(* A byte range inside the data region, its end excluded. *)
Range(from, to) == from \in Addr /\ to \in 0 .. DataBytes /\ from <= to

Clear(from, to, junk) ==
  LET r == ClearValidBits(tags, from, to, junk) IN
  /\ alive /\ Range(from, to)
  /\ tags' = r.tags /\ alive' = r.ok

Set(from, to, junk) ==
  LET r == SetValidBits(tags, from, to, junk) IN
  /\ alive /\ Range(from, to)
  /\ tags' = r.tags /\ alive' = r.ok

Next ==
  \E from \in Addr, to \in 0 .. DataBytes, junk \in SUBSET Bit :
     Clear(from, to, junk) \/ Set(from, to, junk)

Spec == Init /\ [][Next]_vars

-----------------------------------------------------------------------------
(* Whatever the map holds, an update lands inside the map: no step reaches *)
(* for a word past its end, although every word is addressed by the slot   *)
(* after the one marked last.                                              *)
TypeOK == tags \subseteq Ptr /\ alive \in BOOLEAN

Multiples(n) == { k * n : k \in 0 .. NumWords }

(* A range of whole words is updated exactly, whatever the map and the     *)
(* uninitialised word hold, and trips no assertion: what                   *)
(* capfs_backend_zero relies on when it walks a capability in steps of 256 *)
(* bytes, the span of one word of the map.                                 *)
WholeWordUpdateIsExact ==
  \A from \in Multiples(WordSpan), to \in Multiples(WordSpan), junk \in SUBSET Bit :
    from <= to =>
      /\ ClearValidBits(tags, from, to, junk) =
           [tags |-> tags \ Covered(from, to), ok |-> TRUE]
      /\ SetValidBits(tags, from, to, junk) =
           [tags |-> tags \cup Covered(from, to), ok |-> TRUE]

(* A range that starts on a word, and for which the last slot the code     *)
(* marks (PtrTo, one more than the range has) is not the last of its word, *)
(* loses all its tags and no slot of another word does: what               *)
(* capfs_filesystem_format relies on when it writes the root block at the  *)
(* start of the store.                                                     *)
PrefixClearCovers ==
  \A from \in Multiples(WordSpan), to \in 0 .. DataBytes, junk \in SUBSET Bit :
    from <= to /\ PtrTo(to) % WordBits < WordBits - 1 /\ PtrTo(to) < NumPtrs =>
      LET r == ClearValidBits(tags, from, to, junk) IN
      /\ r.ok
      /\ r.tags \cap Covered(from, to) = {}
      /\ \A p \in tags \ r.tags : FirstOfWord(p) < PtrTo(to) /\ p * PtrBytes >= from
=============================================================================
