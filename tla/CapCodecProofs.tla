--------------------------- MODULE CapCodecProofs ---------------------------
(***************************************************************************)
(* Proofs about CapCodec, for fields of any width and any salt.            *)
(***************************************************************************)
EXTENDS CapCodec, TLAPS

(* Applying the salt twice gives the word back.                            *)
LEMMA XorTwice == ASSUME NEW w, NEW s PROVE Xor(Xor(w, s), s) = w
  BY DEF Xor

(* Words are closed under the salt.                                        *)
LEMMA XorInWord == ASSUME NEW w \in Word PROVE Xor(w, Salt) \in Word
  BY CapCodecAssumption DEF Xor, Word

(* A field is a set of bits of its width.                                  *)
LEMMA FieldInRange ==
  ASSUME NEW w \in Word, NEW from \in Nat, NEW n \in Nat
  PROVE  Field(w, from, n) \in SUBSET (0 .. n - 1)
<1> SUFFICES ASSUME NEW x \in Field(w, from, n) PROVE x \in 0 .. n - 1
  OBVIOUS
<1>1. PICK b \in w \cap (from .. from + n - 1) : x = b - from
  BY DEF Field
<1> QED BY <1>1

(* Compressing gives a word.                                               *)
LEMMA CompressInWord == ASSUME NEW c \in Capability PROVE Compress(c) \in Word
<1> USE CapCodecAssumption
<1> SUFFICES ASSUME NEW b \in Compress(c) PROVE b \in 0 .. Width - 1
  BY DEF Word
<1>1. CASE b \in ShiftLeft(c.size_bits, BaseBits)
  <2>1. PICK x \in c.size_bits : b = x + BaseBits
    BY <1>1 DEF ShiftLeft
  <2>2. x \in 0 .. SizeBits - 1
    BY <2>1 DEF Capability
  <2> QED BY <2>1, <2>2 DEF Width
<1>2. CASE b \in ShiftLeft(c.perms, BaseBits + SizeBits)
  <2>1. PICK x \in c.perms : b = x + (BaseBits + SizeBits)
    BY <1>2 DEF ShiftLeft
  <2>2. x \in 0 .. PermBits - 1
    BY <2>1 DEF Capability
  <2> QED BY <2>1, <2>2 DEF Width
<1>3. CASE b \in c.base \cap (0 .. BaseBits - 1)
  BY <1>3 DEF Width
<1> QED BY <1>1, <1>2, <1>3 DEF Compress

(* Which bits of a compressed capability belong to which field.            *)
LEMMA CompressFields ==
  ASSUME NEW c \in Capability
  PROVE  /\ \A b \in 0 .. BaseBits - 1 : b \in Compress(c) <=> b \in c.base
         /\ \A b \in 0 .. SizeBits - 1 : b + BaseBits \in Compress(c) <=> b \in c.size_bits
         /\ \A b \in 0 .. PermBits - 1 :
              b + (BaseBits + SizeBits) \in Compress(c) <=> b \in c.perms
<1> USE CapCodecAssumption
<1>1. /\ c.base \subseteq 0 .. BaseBits - 1
      /\ c.size_bits \subseteq 0 .. SizeBits - 1
      /\ c.perms \subseteq 0 .. PermBits - 1
  BY DEF Capability
<1>2. \A x \in Int : x \in ShiftLeft(c.size_bits, BaseBits) <=> x - BaseBits \in c.size_bits
  BY <1>1 DEF ShiftLeft
<1>3. \A x \in Int : x \in ShiftLeft(c.perms, BaseBits + SizeBits)
                       <=> x - (BaseBits + SizeBits) \in c.perms
  BY <1>1 DEF ShiftLeft
<1>4. \A x \in Int : x \in Compress(c) <=>
        \/ x - BaseBits \in c.size_bits
        \/ x \in c.base
        \/ x - (BaseBits + SizeBits) \in c.perms
  BY <1>1, <1>2, <1>3 DEF Compress
<1>5. ASSUME NEW b \in 0 .. BaseBits - 1 PROVE b \in Compress(c) <=> b \in c.base
  <2>1. b \in Int /\ b - BaseBits < 0 /\ b - (BaseBits + SizeBits) < 0
    BY <1>5
  <2>2. b - BaseBits \notin c.size_bits /\ b - (BaseBits + SizeBits) \notin c.perms
    BY <1>1, <2>1
  <2> QED BY <1>4, <2>1, <2>2
<1>6. ASSUME NEW b \in 0 .. SizeBits - 1
      PROVE  b + BaseBits \in Compress(c) <=> b \in c.size_bits
  <2>1. /\ b + BaseBits \in Int /\ (b + BaseBits) - BaseBits = b
        /\ (b + BaseBits) - (BaseBits + SizeBits) < 0 /\ b + BaseBits >= BaseBits
    BY <1>6
  <2>2. b + BaseBits \notin c.base /\ (b + BaseBits) - (BaseBits + SizeBits) \notin c.perms
    BY <1>1, <2>1
  <2> QED BY <1>4, <2>1, <2>2
<1>7. ASSUME NEW b \in 0 .. PermBits - 1
      PROVE  b + (BaseBits + SizeBits) \in Compress(c) <=> b \in c.perms
  <2> DEFINE x == b + (BaseBits + SizeBits)
  <2>1. x \in Int /\ x - (BaseBits + SizeBits) = b /\ x >= BaseBits /\ x - BaseBits >= SizeBits
    BY <1>7
  <2>2. x \notin c.base /\ x - BaseBits \notin c.size_bits
    BY <1>1, <2>1
  <2> QED BY <1>4, <2>1, <2>2
<1> QED BY <1>5, <1>6, <1>7

(* A field read from a word in which exactly the bits of v are set there.  *)
LEMMA FieldReads ==
  ASSUME NEW w, NEW from \in Nat, NEW n \in Nat, NEW v \in SUBSET (0 .. n - 1),
         \A b \in 0 .. n - 1 : b + from \in w <=> b \in v
  PROVE  Field(w, from, n) = v
<1>1. ASSUME NEW x \in Field(w, from, n) PROVE x \in v
  <2>1. PICK b \in w \cap (from .. from + n - 1) : x = b - from
    BY <1>1 DEF Field
  <2>2. x \in 0 .. n - 1 /\ x + from = b
    BY <2>1
  <2> QED BY <2>1, <2>2
<1>2. ASSUME NEW x \in v PROVE x \in Field(w, from, n)
  <2>1. x \in 0 .. n - 1 /\ x + from \in from .. from + n - 1 /\ (x + from) - from = x
    BY <1>2
  <2>2. x + from \in w \cap (from .. from + n - 1)
    BY <1>2, <2>1
  <2> QED BY <2>1, <2>2 DEF Field
<1> QED BY <1>1, <1>2

(* Decompressing a compressed capability gives it back.                    *)
LEMMA DecompressCompress == ASSUME NEW c \in Capability PROVE Decompress(Compress(c)) = c
<1> USE CapCodecAssumption
<1>1. c = [base |-> c.base, size_bits |-> c.size_bits, perms |-> c.perms]
      /\ c.base \in SUBSET (0 .. BaseBits - 1)
      /\ c.size_bits \in SUBSET (0 .. SizeBits - 1)
      /\ c.perms \in SUBSET (0 .. PermBits - 1)
  BY DEF Capability
<1>2. Field(Compress(c), 0, BaseBits) = c.base
  <2>1. \A b \in 0 .. BaseBits - 1 : b + 0 \in Compress(c) <=> b \in c.base
    BY CompressFields
  <2> QED BY <1>1, <2>1, FieldReads
<1>3. Field(Compress(c), BaseBits, SizeBits) = c.size_bits
  BY <1>1, CompressFields, FieldReads
<1>4. Field(Compress(c), BaseBits + SizeBits, PermBits) = c.perms
  <2>1. BaseBits + SizeBits \in Nat
    OBVIOUS
  <2> QED BY <1>1, <2>1, CompressFields, FieldReads
<1> QED BY <1>1, <1>2, <1>3, <1>4 DEF Decompress

(* A capref decodes to the capability it was made from (files.c:146-158),  *)
(* whatever the widths of the fields and the salt: no field spills into    *)
(* another and none is cut.                                                *)
THEOREM RoundTrip ==
  ASSUME NEW c \in Capability
  PROVE  ToCapref(c) \in Word /\ FromCapref(ToCapref(c)) = c
<1>1. ToCapref(c) \in Word
  BY CompressInWord, XorInWord DEF ToCapref
<1>2. Xor(ToCapref(c), Salt) = Compress(c)
  BY XorTwice DEF ToCapref
<1> QED BY <1>1, <1>2, DecompressCompress DEF FromCapref

(* Permissions and size of a capref are those of its capability.           *)
THEOREM MetaOfCapref ==
  ASSUME NEW c \in Capability
  PROVE  GetPerms(ToCapref(c)) = c.perms /\ GetSizeBits(ToCapref(c)) = c.size_bits
  BY RoundTrip DEF GetPerms, GetSizeBits

-----------------------------------------------------------------------------
(* Bit b of a field is the bit of the word that many places further.       *)
LEMMA FieldBits ==
  ASSUME NEW w \in Word, NEW from \in Nat, NEW n \in Nat, NEW b \in 0 .. n - 1
  PROVE  b \in Field(w, from, n) <=> b + from \in w
<1>1. b + from \in from .. from + n - 1 /\ (b + from) - from = b
  OBVIOUS
<1>2. ASSUME b \in Field(w, from, n) PROVE b + from \in w
  <2>1. PICK x \in w \cap (from .. from + n - 1) : b = x - from
    BY <1>2 DEF Field
  <2>2. x = b + from
    BY <2>1
  <2> QED BY <2>1, <2>2
<1>3. ASSUME b + from \in w PROVE b \in Field(w, from, n)
  BY <1>1, <1>3 DEF Field
<1> QED BY <1>2, <1>3

(* Every word decompresses to a capability, and compressing that gives the *)
(* word back: the fields cover it.                                         *)
LEMMA CompressDecompress ==
  ASSUME NEW w \in Word
  PROVE  Decompress(w) \in Capability /\ Compress(Decompress(w)) = w
<1> USE CapCodecAssumption
<1> DEFINE c == Decompress(w)
<1>1. /\ 0 \in Nat /\ BaseBits \in Nat /\ SizeBits \in Nat /\ PermBits \in Nat
      /\ BaseBits + SizeBits \in Nat
  OBVIOUS
<1>2. c \in Capability
  BY <1>1, FieldInRange DEF Decompress, Capability
<1>3. /\ c.base = Field(w, 0, BaseBits)
      /\ c.size_bits = Field(w, BaseBits, SizeBits)
      /\ c.perms = Field(w, BaseBits + SizeBits, PermBits)
  BY DEF Decompress
<1> HIDE DEF c
<1>4. Compress(c) \subseteq 0 .. Width - 1 /\ w \subseteq 0 .. Width - 1
  BY <1>2, CompressInWord DEF Word
<1>5. ASSUME NEW b \in 0 .. Width - 1 PROVE b \in Compress(c) <=> b \in w
  <2>1. CASE b \in 0 .. BaseBits - 1
    <3>1. b \in Compress(c) <=> b \in c.base
      BY <1>2, <2>1, CompressFields
    <3>2. b \in c.base <=> b + 0 \in w
      BY <1>1, <1>3, <2>1, FieldBits
    <3> QED BY <2>1, <3>1, <3>2
  <2>2. CASE b \in BaseBits .. BaseBits + SizeBits - 1
    <3> DEFINE x == b - BaseBits
    <3>1. x \in 0 .. SizeBits - 1 /\ x + BaseBits = b
      BY <2>2
    <3>2. x + BaseBits \in Compress(c) <=> x \in c.size_bits
      BY <1>2, <3>1, CompressFields
    <3>3. x \in c.size_bits <=> x + BaseBits \in w
      BY <1>1, <1>3, <3>1, FieldBits
    <3> QED BY <3>1, <3>2, <3>3
  <2>3. CASE b \in BaseBits + SizeBits .. Width - 1
    <3> DEFINE x == b - (BaseBits + SizeBits)
    <3>1. x \in 0 .. PermBits - 1 /\ x + (BaseBits + SizeBits) = b
      BY <2>3 DEF Width
    <3>2. x + (BaseBits + SizeBits) \in Compress(c) <=> x \in c.perms
      BY <1>2, <3>1, CompressFields
    <3>3. x \in c.perms <=> x + (BaseBits + SizeBits) \in w
      BY <1>1, <1>3, <3>1, FieldBits
    <3> QED BY <3>1, <3>2, <3>3
  <2> QED BY <1>1, <2>1, <2>2, <2>3 DEF Width
<1> QED BY <1>2, <1>4, <1>5 DEF c

(* Every 64-bit value decodes to a capability, and encoding that one gives *)
(* the value back (files.c:118-158): decoding, which never fails, has      *)
(* nothing to refuse, no two caprefs stand for the same base, size and     *)
(* permissions, and no two capabilities for the same capref.               *)
THEOREM CaprefsAreCapabilities ==
  /\ \A r \in Word : FromCapref(r) \in Capability /\ ToCapref(FromCapref(r)) = r
  /\ \A c, d \in Capability : ToCapref(c) = ToCapref(d) => c = d
  /\ \A q, r \in Word : FromCapref(q) = FromCapref(r) => q = r
<1>1. ASSUME NEW r \in Word
      PROVE  FromCapref(r) \in Capability /\ ToCapref(FromCapref(r)) = r
  <2>1. Xor(r, Salt) \in Word
    BY XorInWord
  <2>2. Decompress(Xor(r, Salt)) \in Capability
        /\ Compress(Decompress(Xor(r, Salt))) = Xor(r, Salt)
    BY <2>1, CompressDecompress
  <2> QED BY <2>2, XorTwice DEF FromCapref, ToCapref
<1>2. ASSUME NEW c \in Capability, NEW d \in Capability, ToCapref(c) = ToCapref(d)
      PROVE  c = d
  <2>1. FromCapref(ToCapref(c)) = c /\ FromCapref(ToCapref(d)) = d
    BY RoundTrip
  <2> QED BY <1>2, <2>1
<1>3. ASSUME NEW q \in Word, NEW r \in Word, FromCapref(q) = FromCapref(r) PROVE q = r
  BY <1>1, <1>3
<1> QED BY <1>1, <1>2, <1>3
=============================================================================
