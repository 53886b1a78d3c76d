------------------------------- MODULE CapTags -------------------------------
(***************************************************************************)
(* The tag map of the files backend (src/src/backends/files.c): one bit    *)
(* per pointer-sized slot of the store says whether the slot holds a       *)
(* capability.  The map is the first region of the backing file and is     *)
(* read and written one 32-bit word at a time.                             *)
(*                                                                         *)
(* A tag map is the set of the slots whose bit is one.  The operators take *)
(* the map before a call and give the map after it; CapStore and Mount     *)
(* make them steps.  The loops of metadata_valid_bits_generic are given in *)
(* closed form, word by word, in the order the code writes the words.      *)
(***************************************************************************)
EXTENDS Integers

CONSTANTS
  PtrBytes,  (* sizeof(uintptr_t), 8 in the build                          *)
  WordBits,  (* bits of one word of the map, 32 in the build               *)
  NumWords   (* words of the map, 2^16 in the build                        *)

ASSUME CapTagsAssumption ==
  /\ PtrBytes \in Nat \ {0, 1}
  /\ WordBits \in Nat \ {0, 1}
  /\ NumWords \in Nat \ {0}

NumPtrs   == WordBits * NumWords
Ptr       == 0 .. NumPtrs - 1
Bit       == 0 .. WordBits - 1
DataBytes == PtrBytes * NumPtrs
Addr      == 0 .. DataBytes - 1

(* Mutant of InMap: the assertion is compiled out (NDEBUG).                *)
InMapUnchecked(p) == TRUE

(* The assertion PTR2OFFSET(ptr) < BACKEND_FILES_DATA_OFFSET.              *)
InMap(p) == p \in Ptr

FirstOfWord(p) == (p \div WordBits) * WordBits
WordPtrs(p)    == FirstOfWord(p) .. FirstOfWord(p) + WordBits - 1

(* metadata_rawwrite: the word that holds slot p is overwritten by md, a   *)
(* set of bit numbers.                                                     *)
RawWrite(tags, p, md) ==
  (tags \ WordPtrs(p)) \cup { FirstOfWord(p) + i : i \in md }

(* metadata_rawread: fread is given &md, the address of the parameter, so  *)
(* the word read from the file lands on the local pointer and the caller's *)
(* word keeps the value md it had.                                         *)
RawRead(tags, p, md) == md

(* The bits set or cleared in one word; what, the code's bool set, is      *)
(* "set" or "clear".                                                       *)
Mark(md, bits, what) == IF what = "set" THEN md \cup bits ELSE md \ bits

(* Mutant of PtrTo: the end of a range is rounded down.                    *)
PtrToDown(to) == to \div PtrBytes

(* The slots a byte range spans, as the code rounds its two ends.          *)
PtrFrom(from) == from \div PtrBytes
PtrTo(to)     == (to + PtrBytes - 1) \div PtrBytes

(***************************************************************************)
(* Head: the range starts inside a word.  The word is updated from an      *)
(* uninitialised variable (junk stands for what it happens to hold), up to *)
(* and including slot pt, and is written to the word of the slot AFTER the *)
(* last one marked.  ok is FALSE when an assertion fails: the process      *)
(* aborts and the word, still in the stdio buffer, is lost.                *)
(***************************************************************************)
Head(tags, pf, pt, what, junk) ==
  LET b  == pf % WordBits
      n  == IF pt - pf + 1 < WordBits - b THEN pt - pf + 1 ELSE WordBits - b
      at == pf + n
      md == Mark(RawRead(tags, pf, junk), b .. b + n - 1, what)
  IN  CASE b = 0 -> [tags |-> tags, at |-> pf, ok |-> TRUE]
        [] b # 0 /\ InMap(pf) /\ InMap(at) /\ at % WordBits = 0 ->
             [tags |-> RawWrite(tags, at, md), at |-> at, ok |-> TRUE]
        [] OTHER -> [tags |-> tags, at |-> at, ok |-> FALSE]

(* Mutant of WholeWords: a range that ends with a word stops before it.    *)
WholeWordsShort(at, pt) ==
  IF at + WordBits < pt THEN (pt - at - 1) \div WordBits ELSE 0

(* while(ptr_from + 32 <= ptr_to): the words the loop writes.              *)
WholeWords(at, pt) == IF at + WordBits <= pt THEN (pt - at) \div WordBits ELSE 0

(* Middle: whole words are written all ones or all zeros.                  *)
Middle(tags, at, pt, what) ==
  LET next == at + WholeWords(at, pt) * WordBits
  IN  [tags |-> Mark(tags, at .. next - 1, what), at |-> next]

(***************************************************************************)
(* Tail: the range ends inside a word.  md still holds the all-ones or     *)
(* all-zeros word of the middle part, and the word written is again that   *)
(* of the slot after the last one marked.                                  *)
(***************************************************************************)
Tail(tags, at, pt, what) ==
  LET md == Mark(RawRead(tags, at, IF what = "set" THEN Bit ELSE {}), 0 .. pt - at, what)
  IN  CASE at >= pt -> [tags |-> tags, ok |-> TRUE]
        [] at < pt /\ InMap(pt + 1) ->
             [tags |-> RawWrite(tags, pt + 1, md), ok |-> TRUE]
        [] OTHER -> [tags |-> tags, ok |-> FALSE]

(* metadata_valid_bits_generic(from, to, set) on byte addresses.           *)
ValidBits(tags, from, to, what, junk) ==
  LET h == Head(tags, PtrFrom(from), PtrTo(to), what, junk)
      m == Middle(h.tags, h.at, PtrTo(to), what)
  IN  IF h.ok THEN Tail(m.tags, m.at, PtrTo(to), what)
              ELSE [tags |-> h.tags, ok |-> FALSE]

ClearValidBits(tags, from, to, junk) == ValidBits(tags, from, to, "clear", junk)
SetValidBits(tags, from, to, junk)   == ValidBits(tags, from, to, "set", junk)

(***************************************************************************)
(* metadata_is_capability(offset).  offset & 0x3 tests for half a pointer; *)
(* the word consulted is the initial 0 of md, which RawRead leaves alone.  *)
(***************************************************************************)
PtrAligned(offset) == offset % (PtrBytes \div 2) = 0
IsCapability(tags, offset) ==
  /\ PtrAligned(offset)
  /\ PtrFrom(offset) % WordBits \in RawRead(tags, PtrFrom(offset), {})

------------------------------------------------------------------------------
(* What the map should say: the slots a byte range from .. to - 1 touches. *)
Covered(from, to) ==
  { p \in Ptr : p * PtrBytes < to /\ p * PtrBytes + PtrBytes > from }

(* The slots that may change when the tags of a range are updated: from    *)
(* the word the range starts in to that of the slot after the last one     *)
(* marked.                                                                 *)
TagReach(from, to) ==
  FirstOfWord(PtrFrom(from)) .. FirstOfWord(PtrTo(to) + 1) + WordBits - 1

(* The bytes one word of the map describes (256 in the build).             *)
WordSpan == PtrBytes * WordBits
=============================================================================
