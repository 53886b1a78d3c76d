------------------------------ MODULE CapCodec ------------------------------
(***************************************************************************)
(* Capability words of the files backend (src/src/backends/files.c): how   *)
(* base, size and permissions of a capability are packed into 64 bits and  *)
(* hidden behind a salt, which gives the capref that the rest of the       *)
(* daemon passes around.                                                   *)
(*                                                                         *)
(* A word is the set of the numbers of its bits that are one, and so is    *)
(* every field.  The size of a capability is 1 << size_bits.               *)
(***************************************************************************)
EXTENDS Integers

CONSTANTS
  BaseBits, SizeBits, PermBits,  (* widths of the fields: 48, 8 and 8      *)
  Salt                           (* CAPFS_CAPREF_SALT, every second bit    *)

Width == BaseBits + SizeBits + PermBits
Word  == SUBSET (0 .. Width - 1)

Capability == [base      : SUBSET (0 .. BaseBits - 1),
               size_bits : SUBSET (0 .. SizeBits - 1),
               perms     : SUBSET (0 .. PermBits - 1)]

ASSUME CapCodecAssumption ==
  /\ BaseBits \in Nat /\ SizeBits \in Nat /\ PermBits \in Nat
  /\ Salt \in Word

(* Mutant of ShiftLeft: one position too far.                              *)
ShiftLeftFar(w, n) == { b + n + 1 : b \in w }

ShiftLeft(w, n) == { b + n : b \in w }

(* Mutant of Field: the mask is one bit short.                             *)
FieldShort(w, from, n) == { b - from : b \in w \cap (from .. from + n - 2) }

(* (w >> from) & ((1 << n) - 1)                                            *)
Field(w, from, n) == { b - from : b \in w \cap (from .. from + n - 1) }

Xor(v, w) == (v \ w) \cup (w \ v)

Compress(c) ==
  ShiftLeft(c.size_bits, BaseBits) \cup (c.base \cap (0 .. BaseBits - 1))
    \cup ShiftLeft(c.perms, BaseBits + SizeBits)

Decompress(w) ==
  [base      |-> Field(w, 0, BaseBits),
   size_bits |-> Field(w, BaseBits, SizeBits),
   perms     |-> Field(w, BaseBits + SizeBits, PermBits)]

ToCapref(c)   == Xor(Compress(c), Salt)
FromCapref(r) == Decompress(Xor(r, Salt))

(* capfs_backend_cap_get_perms, and the exponent that                      *)
(* capfs_backend_cap_get_size shifts 1 by.                                 *)
GetPerms(r)    == FromCapref(r).perms
GetSizeBits(r) == FromCapref(r).size_bits
=============================================================================
