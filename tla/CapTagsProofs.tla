---------------------------- MODULE CapTagsProofs ----------------------------
(***************************************************************************)
(* What the updates of the tag map do, for every size of the map: facts    *)
(* about slots and words, and the effect of metadata_valid_bits_generic on *)
(* the two kinds of ranges the rest of the code relies on.                 *)
(***************************************************************************)
EXTENDS CapTags, TLAPS

(* The quotient is the only multiple below. *)
LEMMA DivUnique ==
  ASSUME NEW a \in Int, NEW n \in Nat \ {0}, NEW q \in Int,
         q * n <= a, a < (q + 1) * n
  PROVE  a \div n = q /\ a % n = a - q * n
  OBVIOUS

(* Rounding up to a multiple, as PtrTo does.                               *)
LEMMA DivRoundUp ==
  ASSUME NEW x \in Int, NEW n \in Nat \ {0}
  PROVE  (x * n + n - 1) \div n = x
  OBVIOUS

(* Division with remainder on the naturals.                                *)
LEMMA DivBounds ==
  ASSUME NEW a \in Nat, NEW n \in Nat \ {0}
  PROVE  /\ a \div n \in Nat /\ a % n \in Nat /\ a % n < n
         /\ a = (a \div n) * n + (a % n)
  OBVIOUS

(* Multiplication by a natural number is monotonic.                        *)
LEMMA TimesMonotonic ==
  ASSUME NEW x \in Int, NEW y \in Int, NEW n \in Nat, x <= y
  PROVE  x * n <= y * n
  OBVIOUS

(* So is division by a positive one.                                       *)
LEMMA DivMonotonic ==
  ASSUME NEW a \in Nat, NEW b \in Nat, NEW n \in Nat \ {0}, a <= b
  PROVE  a \div n <= b \div n
<1> DEFINE q == a \div n
           r == b \div n
<1>1. q \in Nat /\ r \in Nat /\ q * n <= a /\ b < (r + 1) * n
  OBVIOUS
<1>2. SUFFICES ASSUME r + 1 <= q PROVE FALSE
  BY <1>1
<1> HIDE DEF q, r
<1>3. (r + 1) * n <= q * n
  BY <1>1, <1>2, TimesMonotonic
<1> QED BY <1>1, <1>3

(* The sizes are natural numbers. *)
LEMMA Sizes ==
  /\ PtrBytes \in Nat /\ PtrBytes >= 2
  /\ WordBits \in Nat /\ WordBits >= 2
  /\ NumWords \in Nat /\ NumWords >= 1
  /\ NumPtrs \in Nat /\ NumPtrs = NumWords * WordBits
  /\ DataBytes \in Nat /\ DataBytes = NumPtrs * PtrBytes
  /\ WordSpan \in Nat \ {0} /\ WordSpan = WordBits * PtrBytes
  BY CapTagsAssumption, SMTT(20) DEF NumPtrs, DataBytes, WordSpan

(* The first slot of word k of the map. *)
WordStart(k) == k * WordBits

(* A byte address on a word of the map is the first byte of a slot that    *)
(* starts a word.                                                          *)
LEMMA WordAligned ==
  ASSUME NEW k \in Nat
  PROVE  /\ PtrFrom(k * WordSpan) = WordStart(k)
         /\ PtrTo(k * WordSpan) = WordStart(k)
         /\ WordStart(k) \in Nat
         /\ WordStart(k) % WordBits = 0
         /\ WordStart(k + 1) = WordStart(k) + WordBits
<1>1. k * WordSpan = (k * WordBits) * PtrBytes /\ k * WordBits \in Nat
  BY Sizes
<1>2. PtrFrom(k * WordSpan) = k * WordBits
  BY <1>1, Sizes, DivUnique DEF PtrFrom
<1>3. PtrTo(k * WordSpan) = k * WordBits
  BY <1>1, Sizes, DivRoundUp DEF PtrTo
<1>4. (k * WordBits) % WordBits = 0
  BY <1>1, Sizes, DivUnique
<1> QED BY <1>1, <1>2, <1>3, <1>4, Sizes DEF WordStart

(* Every slot lies in its own word, and the map is a whole number of words. *)
LEMMA WordOfSlot ==
  ASSUME NEW p \in Nat
  PROVE  /\ FirstOfWord(p) = WordStart(p \div WordBits)
         /\ FirstOfWord(p) \in Nat
         /\ FirstOfWord(p) <= p /\ p < FirstOfWord(p) + WordBits
         /\ FirstOfWord(p) = p - (p % WordBits)
         /\ p % WordBits \in Bit
<1>1. WordBits \in Nat \ {0}
  BY Sizes
<1>2. /\ p \div WordBits \in Nat /\ p % WordBits \in Nat /\ p % WordBits < WordBits
      /\ p = (p \div WordBits) * WordBits + (p % WordBits)
  BY <1>1, DivBounds
<1> QED BY <1>2, Sizes DEF FirstOfWord, WordStart, Bit

(* The word of a slot of the map lies in the map.                          *)
LEMMA WordInMap ==
  ASSUME NEW p \in Ptr
  PROVE  WordPtrs(p) \subseteq Ptr
<1> DEFINE q == p \div WordBits
<1>1. p \in Nat /\ p < NumWords * WordBits /\ WordBits \in Nat \ {0}
  BY Sizes DEF Ptr
<1>2. q \in Nat /\ p = q * WordBits + (p % WordBits) /\ p % WordBits \in Nat
  BY <1>1, DivBounds
<1>3. q < NumWords
  <2>1. SUFFICES ASSUME NumWords <= q PROVE FALSE
    BY <1>2, Sizes
  <2>2. NumWords \in Int /\ q \in Int /\ WordBits \in Nat
    BY <1>2, Sizes
  <2> HIDE DEF q
  <2>3. NumWords * WordBits <= q * WordBits
    BY <2>1, <2>2, TimesMonotonic
  <2> QED BY <2>3, <1>1, <1>2, Sizes
<1>4. (q + 1) * WordBits <= NumWords * WordBits
  BY <1>2, <1>3, Sizes, TimesMonotonic
<1>5. FirstOfWord(p) = q * WordBits /\ FirstOfWord(p) \in Nat
  BY <1>1, WordOfSlot DEF FirstOfWord
<1> QED BY <1>2, <1>4, <1>5, Sizes DEF WordPtrs, Ptr

(* Whole words in order of their numbers.                                  *)
LEMMA WordOrder ==
  ASSUME NEW j \in Nat, NEW k \in Nat, j * WordSpan <= k * WordSpan
  PROVE  j <= k
<1>1. SUFFICES ASSUME k + 1 <= j PROVE FALSE
  OBVIOUS
<1>2. WordSpan \in Nat \ {0}
  BY Sizes
<1>3. (k + 1) * WordSpan <= j * WordSpan
  BY <1>1, <1>2, TimesMonotonic
<1> QED BY <1>2, <1>3

(* The slots of the bytes a word of the map describes.                     *)
LEMMA SlotsOfSpan ==
  ASSUME NEW j \in Nat, NEW a \in Nat, j * WordSpan <= a, a < (j + 1) * WordSpan
  PROVE  PtrFrom(a) \in WordStart(j) .. WordStart(j + 1) - 1
<1>1. /\ WordStart(j) \in Nat /\ WordStart(j + 1) \in Nat
      /\ PtrFrom(j * WordSpan) = WordStart(j)
      /\ j * WordSpan \in Nat /\ PtrBytes \in Nat \ {0}
  BY WordAligned, Sizes
<1>2. PtrFrom(a) \in Nat /\ PtrFrom(a) * PtrBytes <= a
  BY <1>1, DivBounds DEF PtrFrom
<1>3. WordStart(j) <= PtrFrom(a)
  BY <1>1, DivMonotonic DEF PtrFrom
<1>4. PtrFrom(a) < WordStart(j + 1)
  <2>1. SUFFICES ASSUME WordStart(j + 1) <= PtrFrom(a) PROVE FALSE
    BY <1>1, <1>2
  <2>2. WordStart(j + 1) * PtrBytes <= PtrFrom(a) * PtrBytes
    BY <2>1, <1>1, <1>2, TimesMonotonic
  <2>3. WordStart(j + 1) * PtrBytes = (j + 1) * WordSpan
    BY Sizes DEF WordStart
  <2> QED BY <2>2, <2>3, <1>1, <1>2, Sizes
<1> QED BY <1>1, <1>2, <1>3, <1>4

(* A multiple of the word size below the map's end starts a word in it.    *)
LEMMA WordStarts ==
  ASSUME NEW j \in 0 .. NumWords, NEW k \in 0 .. NumWords, j <= k
  PROVE  /\ WordStart(j) \in Nat /\ WordStart(k) \in Nat
         /\ WordStart(j) <= WordStart(k)
         /\ WordStart(k) - WordStart(j) = (k - j) * WordBits
         /\ WordStart(k) <= NumPtrs
<1>1. WordStart(j) \in Nat /\ WordStart(k) \in Nat
  BY Sizes DEF WordStart
<1>2. WordStart(j) <= WordStart(k)
  BY Sizes, TimesMonotonic DEF WordStart
<1>3. k * WordBits <= NumWords * WordBits
  BY Sizes, TimesMonotonic
<1>4. WordStart(k) - WordStart(j) = (k - j) * WordBits
  BY Sizes DEF WordStart
<1> QED BY <1>1, <1>2, <1>3, <1>4, Sizes DEF WordStart

(* The middle part of an update that starts on word j and is to reach slot *)
(* pt: it writes the words up to the one that pt lies in.                  *)
LEMMA MiddleWritesWords ==
  ASSUME NEW tags, NEW what, NEW j \in Nat, NEW k \in Nat, NEW pt \in Nat, j <= k,
         WordStart(k) <= pt, pt < WordStart(k + 1)
  PROVE  Middle(tags, WordStart(j), pt, what) =
           [tags |-> Mark(tags, WordStart(j) .. WordStart(k) - 1, what),
            at   |-> WordStart(k)]
<1> DEFINE a == WordStart(j)
           words == WholeWords(a, pt)
<1>1. /\ a \in Nat /\ WordStart(k) \in Nat
      /\ WordStart(k + 1) = WordStart(k) + WordBits
      /\ WordStart(k) = a + (k - j) * WordBits
  BY Sizes DEF WordStart
<1>2. (pt - a) \div WordBits = k - j
  <2>1. /\ pt - a \in Int /\ WordBits \in Nat \ {0} /\ k - j \in Int
        /\ (k - j) * WordBits <= pt - a
        /\ pt - a < ((k - j) + 1) * WordBits
    BY <1>1, Sizes
  <2> HIDE DEF a
  <2> QED BY <2>1, DivUnique
<1>3. words = k - j
  <2>1. CASE a + WordBits <= pt
    BY <2>1, <1>2 DEF WholeWords
  <2>2. CASE ~(a + WordBits <= pt)
    <3>1. (k - j) * WordBits < WordBits
      BY <2>2, <1>1, Sizes
    <3>2. CASE k - j >= 1
      <4>1. 1 * WordBits <= (k - j) * WordBits
        BY <3>2, Sizes, TimesMonotonic
      <4> QED BY <4>1, <3>1, Sizes
    <3>3. CASE ~(k - j >= 1)
      BY <3>3, <2>2 DEF WholeWords
    <3> QED BY <3>2, <3>3
  <2> QED BY <2>1, <2>2
<1>4. a + words * WordBits = WordStart(k)
  BY <1>1, <1>3
<1> QED BY <1>4 DEF Middle

(***************************************************************************)
(* A range of whole words is updated exactly and trips no assertion.       *)
(***************************************************************************)
THEOREM WholeWordUpdate ==
  ASSUME NEW tags, NEW what, NEW junk,
         NEW j \in 0 .. NumWords, NEW k \in 0 .. NumWords, j <= k
  PROVE  ValidBits(tags, j * WordSpan, k * WordSpan, what, junk) =
           [tags |-> Mark(tags, WordStart(j) .. WordStart(k) - 1, what), ok |-> TRUE]
<1>1. /\ PtrFrom(j * WordSpan) = WordStart(j) /\ WordStart(j) \in Nat
      /\ PtrTo(k * WordSpan) = WordStart(k) /\ WordStart(k) \in Nat
      /\ WordStart(j) % WordBits = 0
      /\ WordStart(k + 1) = WordStart(k) + WordBits
  BY WordAligned
<1>2. Head(tags, WordStart(j), WordStart(k), what, junk) =
        [tags |-> tags, at |-> WordStart(j), ok |-> TRUE]
  BY <1>1 DEF Head
<1>3. Middle(tags, WordStart(j), WordStart(k), what) =
        [tags |-> Mark(tags, WordStart(j) .. WordStart(k) - 1, what),
         at   |-> WordStart(k)]
  <2>1. WordStart(k) <= WordStart(k) /\ WordStart(k) < WordStart(k + 1)
    BY <1>1, Sizes
  <2> QED BY <2>1, <1>1, MiddleWritesWords
<1>4. Tail(Mark(tags, WordStart(j) .. WordStart(k) - 1, what),
           WordStart(k), WordStart(k), what) =
        [tags |-> Mark(tags, WordStart(j) .. WordStart(k) - 1, what), ok |-> TRUE]
  BY <1>1 DEF Tail
<1> QED BY <1>1, <1>2, <1>3, <1>4 DEF ValidBits

(* The slots a range touches, as the code rounds its ends.                 *)
LEMMA SlotsCovered ==
  ASSUME NEW from \in Nat, NEW to \in Nat
  PROVE  Covered(from, to) = { p \in Ptr : PtrFrom(from) <= p /\ p < PtrTo(to) }
<1> SUFFICES ASSUME NEW p \in Nat
             PROVE  /\ p * PtrBytes + PtrBytes > from <=> PtrFrom(from) <= p
                    /\ p * PtrBytes < to <=> p < PtrTo(to)
  BY Sizes DEF Covered, Ptr
<1> DEFINE f == from \div PtrBytes
           t == (to + PtrBytes - 1) \div PtrBytes
<1>1. /\ f \in Nat /\ f * PtrBytes <= from /\ from < (f + 1) * PtrBytes
      /\ t \in Nat /\ t * PtrBytes <= to + PtrBytes - 1
      /\ to + PtrBytes - 1 < (t + 1) * PtrBytes
  <2>1. PtrBytes \in Nat \ {0} /\ to + PtrBytes - 1 \in Nat
    BY Sizes
  <2>2. /\ f \in Nat /\ from % PtrBytes \in Nat /\ from % PtrBytes < PtrBytes
        /\ from = f * PtrBytes + (from % PtrBytes)
    BY <2>1, DivBounds
  <2>3. /\ t \in Nat /\ (to + PtrBytes - 1) % PtrBytes \in Nat
        /\ (to + PtrBytes - 1) % PtrBytes < PtrBytes
        /\ to + PtrBytes - 1 = t * PtrBytes + ((to + PtrBytes - 1) % PtrBytes)
    BY <2>1, DivBounds
  <2> HIDE DEF f, t
  <2> QED BY <2>1, <2>2, <2>3
<1>2. PtrFrom(from) = f /\ PtrTo(to) = t
  BY DEF PtrFrom, PtrTo
<1> HIDE DEF f, t
<1>3. ASSUME f <= p PROVE p * PtrBytes + PtrBytes > from
  <2>1. (f + 1) * PtrBytes <= (p + 1) * PtrBytes
    BY <1>1, <1>3, Sizes, TimesMonotonic
  <2> QED BY <2>1, <1>1, Sizes
<1>4. ASSUME p + 1 <= f PROVE p * PtrBytes + PtrBytes <= from
  <2>1. (p + 1) * PtrBytes <= f * PtrBytes
    BY <1>1, <1>4, Sizes, TimesMonotonic
  <2> QED BY <2>1, <1>1, Sizes
<1>5. ASSUME p + 1 <= t PROVE p * PtrBytes < to
  <2>1. (p + 1) * PtrBytes <= t * PtrBytes
    BY <1>1, <1>5, Sizes, TimesMonotonic
  <2> QED BY <2>1, <1>1, Sizes
<1>6. ASSUME t <= p PROVE to <= p * PtrBytes
  <2>1. t * PtrBytes <= p * PtrBytes
    BY <1>1, <1>6, Sizes, TimesMonotonic
  <2> QED BY <2>1, <1>1, Sizes
<1> QED BY <1>1, <1>2, <1>3, <1>4, <1>5, <1>6, Sizes

(* The slots a range of whole words covers.                                *)
LEMMA WholeWordsCovered ==
  ASSUME NEW j \in 0 .. NumWords, NEW k \in 0 .. NumWords, j <= k
  PROVE  Covered(j * WordSpan, k * WordSpan) = WordStart(j) .. WordStart(k) - 1
<1>1. PtrFrom(j * WordSpan) = WordStart(j) /\ PtrTo(k * WordSpan) = WordStart(k)
  BY WordAligned
<1>2. Covered(j * WordSpan, k * WordSpan)
        = { p \in Ptr : WordStart(j) <= p /\ p < WordStart(k) }
  BY <1>1, SlotsCovered, Sizes
<1>3. /\ WordStart(j) \in Nat /\ WordStart(k) \in Nat
      /\ WordStart(j) <= WordStart(k) /\ WordStart(k) <= NumPtrs
  BY WordStarts
<1> DEFINE a == WordStart(j)
           b == WordStart(k)
<1> HIDE DEF a, b
<1>4. a \in Nat /\ b \in Nat /\ b <= NumPtrs
  BY <1>3 DEF a, b
<1>5. { p \in Ptr : a <= p /\ p < b } = a .. b - 1
  BY <1>4, Sizes DEF Ptr
<1> QED BY <1>2, <1>5 DEF a, b

(***************************************************************************)
(* A clear that starts on word j and ends inside word k, before the last   *)
(* slot of it, removes the tags of the words j to k - 1, and those of word *)
(* k too unless the range ends on its first slot.                          *)
(***************************************************************************)
THEOREM PrefixClear ==
  ASSUME NEW tags, NEW junk, NEW to, NEW pt \in 0 .. NumPtrs - 1, pt = PtrTo(to),
         NEW j \in Nat, NEW k \in Nat, j <= k,
         WordStart(k) <= pt, pt < WordStart(k + 1) - 1
  PROVE  ClearValidBits(tags, j * WordSpan, to, junk) =
           [tags |-> IF WordStart(k) = pt
                     THEN tags \ (WordStart(j) .. WordStart(k) - 1)
                     ELSE tags \ (WordStart(j) .. WordStart(k + 1) - 1),
            ok   |-> TRUE]
<1>1. /\ PtrFrom(j * WordSpan) = WordStart(j) /\ WordStart(j) \in Nat
      /\ WordStart(j) % WordBits = 0
      /\ WordStart(k) \in Nat /\ WordStart(k + 1) = WordStart(k) + WordBits
  BY WordAligned
<1>2. Head(tags, WordStart(j), pt, "clear", junk) =
        [tags |-> tags, at |-> WordStart(j), ok |-> TRUE]
  BY <1>1 DEF Head
<1>3. Middle(tags, WordStart(j), pt, "clear") =
        [tags |-> tags \ (WordStart(j) .. WordStart(k) - 1), at |-> WordStart(k)]
  <2>1. pt \in Nat /\ pt < WordStart(k + 1)
    BY <1>1, Sizes
  <2>2. Middle(tags, WordStart(j), pt, "clear") =
          [tags |-> Mark(tags, WordStart(j) .. WordStart(k) - 1, "clear"),
           at   |-> WordStart(k)]
    BY <2>1, MiddleWritesWords
  <2> QED BY <2>2 DEF Mark
<1> DEFINE whole == tags \ (WordStart(j) .. WordStart(k) - 1)
<1>4. ClearValidBits(tags, j * WordSpan, to, junk) =
        Tail(whole, WordStart(k), pt, "clear")
  BY <1>1, <1>2, <1>3 DEF ClearValidBits, ValidBits
<1>5. CASE WordStart(k) = pt
  <2>1. Tail(whole, WordStart(k), pt, "clear") = [tags |-> whole, ok |-> TRUE]
    BY <1>5, <1>1, Sizes DEF Tail
  <2> QED BY <2>1, <1>4, <1>5
<1>6. CASE WordStart(k) # pt
  <2>1. /\ pt + 1 \in Ptr /\ pt + 1 \in Nat /\ WordStart(k) < pt
        /\ pt + 1 < WordStart(k) + WordBits
    <3>1. pt + 1 < NumPtrs
      <4>1. k + 1 <= NumWords
        <5>1. SUFFICES ASSUME NumWords <= k PROVE FALSE
          BY Sizes
        <5>2. NumWords * WordBits <= k * WordBits
          BY <5>1, Sizes, TimesMonotonic
        <5> QED BY <5>2, Sizes DEF WordStart
      <4>2. (k + 1) * WordBits <= NumWords * WordBits
        BY <4>1, Sizes, TimesMonotonic
      <4> QED BY <4>2, <1>1, Sizes DEF WordStart
    <3> QED BY <3>1, <1>1, <1>6, Sizes DEF Ptr
  <2>2. FirstOfWord(pt + 1) = WordStart(k)
    <3>1. /\ pt + 1 \in Int /\ WordBits \in Nat \ {0} /\ k \in Int
          /\ k * WordBits <= pt + 1 /\ pt + 1 < (k + 1) * WordBits
      BY <2>1, <1>1, Sizes DEF WordStart
    <3>2. (pt + 1) \div WordBits = k
      BY <3>1, DivUnique
    <3> QED BY <3>2 DEF FirstOfWord, WordStart
  <2>3. Tail(whole, WordStart(k), pt, "clear") =
          [tags |-> whole \ (WordStart(k) .. WordStart(k + 1) - 1), ok |-> TRUE]
    <3>1. Mark(RawRead(whole, WordStart(k), {}), 0 .. pt - WordStart(k), "clear") = {}
      BY DEF Mark, RawRead
    <3>2. RawWrite(whole, pt + 1, {}) =
            whole \ (WordStart(k) .. WordStart(k + 1) - 1)
      BY <2>2, <1>1, Sizes DEF RawWrite, WordPtrs
    <3>3. ~(WordStart(k) >= pt) /\ WordStart(k) < pt /\ InMap(pt + 1)
      BY <2>1, <1>1, Sizes DEF InMap
    <3> QED BY <3>1, <3>2, <3>3 DEF Tail
  <2>4. whole \ (WordStart(k) .. WordStart(k + 1) - 1)
          = tags \ (WordStart(j) .. WordStart(k + 1) - 1)
    <3>1. WordStart(j) <= WordStart(k)
      BY Sizes, TimesMonotonic DEF WordStart
    <3> QED BY <3>1, <1>1, Sizes
  <2> QED BY <1>4, <1>6, <2>3, <2>4
<1> QED BY <1>5, <1>6

(***************************************************************************)
(* An update of a tag map gives a tag map.                                 *)
(***************************************************************************)
LEMMA RawWriteType ==
  ASSUME NEW tags \in SUBSET Ptr, NEW p \in Ptr, NEW md \in SUBSET Bit
  PROVE  RawWrite(tags, p, md) \subseteq Ptr
<1>1. WordPtrs(p) \subseteq Ptr
  BY WordInMap
<1>2. FirstOfWord(p) \in Nat
  BY WordOfSlot, Sizes DEF Ptr
<1>3. \A i \in md : FirstOfWord(p) + i \in WordPtrs(p)
  BY <1>2, Sizes DEF WordPtrs, Bit
<1> QED BY <1>1, <1>3 DEF RawWrite

(* The head of an update keeps a tag map a tag map and moves on by slots   *)
(* of it.                                                                  *)
LEMMA HeadType ==
  ASSUME NEW tags \in SUBSET Ptr, NEW pf \in Nat, NEW pt \in Nat, pf <= pt,
         NEW what, NEW junk \in SUBSET Bit
  PROVE  /\ Head(tags, pf, pt, what, junk).tags \in SUBSET Ptr
         /\ Head(tags, pf, pt, what, junk).at \in Nat
         /\ Head(tags, pf, pt, what, junk).ok \in BOOLEAN
<1> DEFINE b  == pf % WordBits
           n  == IF pt - pf + 1 < WordBits - b THEN pt - pf + 1 ELSE WordBits - b
           at == pf + n
           md == Mark(RawRead(tags, pf, junk), b .. b + n - 1, what)
<1>1. b \in Nat /\ b < WordBits
  BY Sizes, WordOfSlot DEF Bit
<1>2. n \in Nat /\ b + n <= WordBits /\ at \in Nat
  BY <1>1, Sizes
<1>3. md \in SUBSET Bit
  <2>1. b .. b + n - 1 \subseteq Bit
    BY <1>1, <1>2, Sizes DEF Bit
  <2> QED BY <2>1 DEF Mark, RawRead
<1> HIDE DEF n, b, md
<1>4. InMap(at) => RawWrite(tags, at, md) \in SUBSET Ptr
  BY <1>3, RawWriteType DEF InMap
<1>5. Head(tags, pf, pt, what, junk) =
        CASE b = 0 -> [tags |-> tags, at |-> pf, ok |-> TRUE]
          [] b # 0 /\ InMap(pf) /\ InMap(at) /\ at % WordBits = 0 ->
               [tags |-> RawWrite(tags, at, md), at |-> at, ok |-> TRUE]
          [] OTHER -> [tags |-> tags, at |-> at, ok |-> FALSE]
  BY DEF Head, b, n, md
<1>6. CASE b = 0
  <2>1. Head(tags, pf, pt, what, junk) = [tags |-> tags, at |-> pf, ok |-> TRUE]
    BY <1>5, <1>6
  <2> QED BY <2>1
<1>7. CASE b # 0 /\ InMap(pf) /\ InMap(at) /\ at % WordBits = 0
  <2>1. Head(tags, pf, pt, what, junk) =
          [tags |-> RawWrite(tags, at, md), at |-> at, ok |-> TRUE]
    BY <1>5, <1>7
  <2> QED BY <2>1, <1>2, <1>4, <1>7
<1>8. CASE b # 0 /\ ~(InMap(pf) /\ InMap(at) /\ at % WordBits = 0)
  <2>1. Head(tags, pf, pt, what, junk) = [tags |-> tags, at |-> at, ok |-> FALSE]
    BY <1>5, <1>8
  <2> QED BY <2>1, <1>2
<1> QED BY <1>6, <1>7, <1>8

(* So does the middle part.                                                *)
LEMMA MiddleType ==
  ASSUME NEW tags \in SUBSET Ptr, NEW at \in Nat, NEW pt \in 0 .. NumPtrs, NEW what
  PROVE  /\ Middle(tags, at, pt, what).tags \in SUBSET Ptr
         /\ Middle(tags, at, pt, what).at \in Nat
         /\ pt < Middle(tags, at, pt, what).at + WordBits
<1> DEFINE next == at + WholeWords(at, pt) * WordBits
<1>1. /\ next \in Nat /\ at <= next /\ pt < next + WordBits
      /\ (next <= pt \/ next = at)
  <2>1. CASE at + WordBits <= pt
    <3>1. pt - at \in Nat /\ WordBits \in Nat \ {0}
      BY <2>1, Sizes
    <3> DEFINE d == pt - at
               q == d \div WordBits
    <3>2. q \in Nat /\ d % WordBits \in Nat /\ d % WordBits < WordBits
          /\ d = q * WordBits + (d % WordBits)
      BY <3>1, DivBounds
    <3>3. next = at + q * WordBits
      BY <2>1 DEF WholeWords
    <3> HIDE DEF q, next
    <3>4. q * WordBits \in Nat
      BY <3>2, <3>1
    <3> QED BY <3>2, <3>3, <3>4, Sizes
  <2>2. CASE ~(at + WordBits <= pt)
    BY <2>2, Sizes DEF WholeWords
  <2> QED BY <2>1, <2>2
<1>2. Middle(tags, at, pt, what) = [tags |-> Mark(tags, at .. next - 1, what), at |-> next]
  BY DEF Middle
<1> HIDE DEF next
<1>3. at .. next - 1 \subseteq Ptr
  BY <1>1, Sizes DEF Ptr
<1>4. Mark(tags, at .. next - 1, what) \in SUBSET Ptr
  BY <1>3 DEF Mark
<1> QED BY <1>1, <1>2, <1>4

(* So does the tail, whatever slot the update ends on.                     *)
LEMMA TailType ==
  ASSUME NEW tags \in SUBSET Ptr, NEW at \in Nat, NEW pt \in Nat, NEW what,
         pt < at + WordBits
  PROVE  /\ Tail(tags, at, pt, what).tags \in SUBSET Ptr
         /\ Tail(tags, at, pt, what).ok \in BOOLEAN
<1> DEFINE md == Mark(RawRead(tags, at, IF what = "set" THEN Bit ELSE {}), 0 .. pt - at, what)
<1>1. md \in SUBSET Bit
  <2>1. 0 .. pt - at \subseteq Bit
    BY Sizes DEF Bit
  <2> QED BY <2>1 DEF Mark, RawRead
<1>2. Tail(tags, at, pt, what) =
        CASE at >= pt -> [tags |-> tags, ok |-> TRUE]
          [] at < pt /\ InMap(pt + 1) ->
               [tags |-> RawWrite(tags, pt + 1, md), ok |-> TRUE]
          [] OTHER -> [tags |-> tags, ok |-> FALSE]
  BY DEF Tail
<1> HIDE DEF md
<1>3. InMap(pt + 1) => RawWrite(tags, pt + 1, md) \in SUBSET Ptr
  BY <1>1, RawWriteType DEF InMap
<1>4. CASE at >= pt
  BY <1>2, <1>4
<1>5. CASE at < pt /\ InMap(pt + 1)
  <2>1. Tail(tags, at, pt, what) = [tags |-> RawWrite(tags, pt + 1, md), ok |-> TRUE]
    BY <1>2, <1>5
  <2> QED BY <2>1, <1>3, <1>5
<1>6. CASE at < pt /\ ~InMap(pt + 1)
  BY <1>2, <1>6
<1> QED BY <1>4, <1>5, <1>6

(* Any update of any byte range of the store gives a tag map: no write of  *)
(* the update lands outside the map, although each is addressed by the     *)
(* slot after the last one marked.                                         *)
THEOREM ValidBitsType ==
  ASSUME NEW tags \in SUBSET Ptr, NEW from \in Nat, NEW to \in 0 .. DataBytes,
         from <= to, NEW what, NEW junk \in SUBSET Bit
  PROVE  /\ ValidBits(tags, from, to, what, junk).tags \in SUBSET Ptr
         /\ ValidBits(tags, from, to, what, junk).ok \in BOOLEAN
<1> DEFINE pf == PtrFrom(from)
           pt == PtrTo(to)
<1>1. pf \in Nat /\ pt \in Nat /\ pt \in 0 .. NumPtrs /\ pf <= pt
  <2>1. /\ PtrBytes \in Nat \ {0} /\ to + PtrBytes - 1 \in Nat /\ from \in Nat
        /\ from <= to + PtrBytes - 1
        /\ NumPtrs * PtrBytes + PtrBytes - 1 \in Nat
        /\ to + PtrBytes - 1 <= NumPtrs * PtrBytes + PtrBytes - 1
    BY Sizes
  <2>2. pf \in Nat /\ pt \in Nat
    BY <2>1, DivBounds DEF PtrFrom, PtrTo
  <2>3. pf <= pt
    BY <2>1, DivMonotonic DEF PtrFrom, PtrTo
  <2>4. pt <= (NumPtrs * PtrBytes + PtrBytes - 1) \div PtrBytes
    BY <2>1, DivMonotonic DEF PtrTo
  <2>5. (NumPtrs * PtrBytes + PtrBytes - 1) \div PtrBytes = NumPtrs
    BY Sizes, DivRoundUp
  <2> QED BY <2>2, <2>3, <2>4, <2>5, Sizes
<1> DEFINE h == Head(tags, pf, pt, what, junk)
           m == Middle(h.tags, h.at, pt, what)
<1>2. ValidBits(tags, from, to, what, junk) =
        IF h.ok THEN Tail(m.tags, m.at, pt, what) ELSE [tags |-> h.tags, ok |-> FALSE]
  BY DEF ValidBits
<1> HIDE DEF pf, pt
<1>3. h.tags \in SUBSET Ptr /\ h.at \in Nat
  BY <1>1, HeadType
<1> HIDE DEF h
<1>4. m.tags \in SUBSET Ptr /\ m.at \in Nat /\ pt < m.at + WordBits
  BY <1>1, <1>3, MiddleType
<1> HIDE DEF m
<1>5. /\ Tail(m.tags, m.at, pt, what).tags \in SUBSET Ptr
      /\ Tail(m.tags, m.at, pt, what).ok \in BOOLEAN
  BY <1>1, <1>4, TailType
<1>6. CASE h.ok
  BY <1>2, <1>5, <1>6
<1>7. CASE ~h.ok
  <2>1. ValidBits(tags, from, to, what, junk) = [tags |-> h.tags, ok |-> FALSE]
    BY <1>2, <1>7
  <2> QED BY <2>1, <1>3
<1> QED BY <1>6, <1>7
-----------------------------------------------------------------------------
(***************************************************************************)
(* Which slots an update may change, whatever it marks.                    *)
(***************************************************************************)
Changed(t, u) == (t \ u) \cup (u \ t)

(* Changes add up.                                                         *)
LEMMA ChangedTwice == \A t, u, v : Changed(t, v) \subseteq Changed(t, u) \cup Changed(u, v)
  BY DEF Changed

(* What was not written did not change.                                    *)
LEMMA ChangedNot == \A t : Changed(t, t) = {}
  BY DEF Changed

(* Words follow one another in the order of their slots.                   *)
LEMMA FirstOfWordMonotonic ==
  ASSUME NEW p \in Nat, NEW q \in Nat, p <= q
  PROVE  /\ FirstOfWord(p) \in Nat /\ FirstOfWord(q) \in Nat
         /\ FirstOfWord(p) <= FirstOfWord(q)
<1>1. WordBits \in Nat \ {0}
  BY Sizes
<1>2. p \div WordBits <= q \div WordBits
  BY <1>1, DivMonotonic
<1>3. p \div WordBits \in Nat /\ q \div WordBits \in Nat
  BY <1>1, DivBounds
<1>4. (p \div WordBits) * WordBits <= (q \div WordBits) * WordBits
  BY <1>1, <1>2, <1>3, TimesMonotonic
<1> QED BY <1>4, WordOfSlot DEF FirstOfWord

(* Writing a word changes slots of that word only.                         *)
LEMMA RawWriteReach ==
  ASSUME NEW tags, NEW p \in Nat, NEW md \in SUBSET Bit
  PROVE  Changed(tags, RawWrite(tags, p, md)) \subseteq WordPtrs(p)
<1>1. FirstOfWord(p) \in Nat
  BY WordOfSlot
<1>2. \A i \in md : FirstOfWord(p) + i \in WordPtrs(p)
  BY <1>1, Sizes DEF WordPtrs, Bit
<1> QED BY <1>2 DEF Changed, RawWrite

(* The head of an update writes nothing, or the word at which the middle   *)
(* part goes on.                                                           *)
LEMMA HeadReach ==
  ASSUME NEW tags, NEW pf \in Nat, NEW pt \in Nat, pf <= pt,
         NEW what, NEW junk \in SUBSET Bit, NEW h, h = Head(tags, pf, pt, what, junk)
  PROVE  /\ h.at \in Nat /\ pf <= h.at /\ h.at <= pt + 1
         /\ Changed(tags, h.tags) \subseteq WordPtrs(h.at)
<1> DEFINE b  == pf % WordBits
           n  == IF pt - pf + 1 < WordBits - b THEN pt - pf + 1 ELSE WordBits - b
           at == pf + n
           md == Mark(RawRead(tags, pf, junk), b .. b + n - 1, what)
<1>1. b \in Nat /\ b < WordBits
  BY Sizes, WordOfSlot DEF Bit
<1>2. n \in Nat /\ b + n <= WordBits /\ at \in Nat /\ pf <= at /\ at <= pt + 1
  BY <1>1, Sizes
<1>3. md \in SUBSET Bit
  <2>1. b .. b + n - 1 \subseteq Bit
    BY <1>1, <1>2, Sizes DEF Bit
  <2> QED BY <2>1 DEF Mark, RawRead
<1>4. h = CASE b = 0 -> [tags |-> tags, at |-> pf, ok |-> TRUE]
            [] b # 0 /\ InMap(pf) /\ InMap(at) /\ at % WordBits = 0 ->
                 [tags |-> RawWrite(tags, at, md), at |-> at, ok |-> TRUE]
            [] OTHER -> [tags |-> tags, at |-> at, ok |-> FALSE]
  BY DEF Head
<1> HIDE DEF n, b, md
<1>5. CASE b = 0
  <2>1. h = [tags |-> tags, at |-> pf, ok |-> TRUE]
    BY <1>4, <1>5
  <2> QED BY <2>1, ChangedNot
<1>6. CASE b # 0 /\ InMap(pf) /\ InMap(at) /\ at % WordBits = 0
  <2>1. h = [tags |-> RawWrite(tags, at, md), at |-> at, ok |-> TRUE]
    BY <1>4, <1>6
  <2>2. Changed(tags, RawWrite(tags, at, md)) \subseteq WordPtrs(at)
    BY <1>2, <1>3, RawWriteReach
  <2> QED BY <2>1, <2>2, <1>2
<1>7. CASE b # 0 /\ ~(InMap(pf) /\ InMap(at) /\ at % WordBits = 0)
  <2>1. h = [tags |-> tags, at |-> at, ok |-> FALSE]
    BY <1>4, <1>7
  <2> QED BY <2>1, <1>2, ChangedNot
<1> QED BY <1>5, <1>6, <1>7

(* The middle part changes the slots it passes, none behind the range.     *)
LEMMA MiddleReach ==
  ASSUME NEW tags, NEW at \in Nat, NEW pt \in Nat, NEW what,
         NEW m, m = Middle(tags, at, pt, what)
  PROVE  /\ m.at \in Nat /\ at <= m.at /\ (m.at <= pt \/ m.at = at)
         /\ pt < m.at + WordBits
         /\ Changed(tags, m.tags) \subseteq at .. m.at - 1
<1> DEFINE next == at + WholeWords(at, pt) * WordBits
<1>1. /\ next \in Nat /\ at <= next /\ pt < next + WordBits
      /\ (next <= pt \/ next = at)
  <2>1. CASE at + WordBits <= pt
    <3>1. pt - at \in Nat /\ WordBits \in Nat \ {0}
      BY <2>1, Sizes
    <3> DEFINE d == pt - at
               q == d \div WordBits
    <3>2. q \in Nat /\ d % WordBits \in Nat /\ d % WordBits < WordBits
          /\ d = q * WordBits + (d % WordBits)
      BY <3>1, DivBounds
    <3>3. next = at + q * WordBits
      BY <2>1 DEF WholeWords
    <3> HIDE DEF q, next
    <3>4. q * WordBits \in Nat
      BY <3>2, <3>1
    <3> QED BY <3>2, <3>3, <3>4, Sizes
  <2>2. CASE ~(at + WordBits <= pt)
    BY <2>2, Sizes DEF WholeWords
  <2> QED BY <2>1, <2>2
<1>2. m = [tags |-> Mark(tags, at .. next - 1, what), at |-> next]
  BY DEF Middle
<1> HIDE DEF next
<1>3. Changed(tags, Mark(tags, at .. next - 1, what)) \subseteq at .. next - 1
  BY DEF Changed, Mark
<1> QED BY <1>1, <1>2, <1>3

(* The tail writes nothing, or the word of the slot after the last one     *)
(* marked.                                                                 *)
LEMMA TailReach ==
  ASSUME NEW tags, NEW at \in Nat, NEW pt \in Nat, NEW what, pt < at + WordBits,
         NEW t, t = Tail(tags, at, pt, what)
  PROVE  Changed(tags, t.tags) \subseteq WordPtrs(pt + 1)
<1> DEFINE md == Mark(RawRead(tags, at, IF what = "set" THEN Bit ELSE {}), 0 .. pt - at, what)
<1>1. md \in SUBSET Bit
  <2>1. 0 .. pt - at \subseteq Bit
    BY Sizes DEF Bit
  <2> QED BY <2>1 DEF Mark, RawRead
<1>2. t = CASE at >= pt -> [tags |-> tags, ok |-> TRUE]
            [] at < pt /\ InMap(pt + 1) ->
                 [tags |-> RawWrite(tags, pt + 1, md), ok |-> TRUE]
            [] OTHER -> [tags |-> tags, ok |-> FALSE]
  BY DEF Tail
<1> HIDE DEF md
<1>3. Changed(tags, RawWrite(tags, pt + 1, md)) \subseteq WordPtrs(pt + 1)
  BY <1>1, RawWriteReach
<1>4. CASE at < pt /\ InMap(pt + 1)
  <2>1. t = [tags |-> RawWrite(tags, pt + 1, md), ok |-> TRUE]
    BY <1>2, <1>4
  <2> QED BY <2>1, <1>3
<1>5. CASE ~(at < pt /\ InMap(pt + 1))
  <2>1. t.tags = tags
    <3>1. CASE at >= pt
      BY <1>2, <3>1
    <3>2. CASE at < pt
      BY <1>2, <1>5, <3>2
    <3> QED BY <3>1, <3>2
  <2> QED BY <2>1, ChangedNot
<1> QED BY <1>4, <1>5

(* An update of the tags of any byte range changes no slot before the word *)
(* the range starts in, and none after the word of the slot that follows   *)
(* the last one it marks (files.c:249, files.c:270), whether it completes  *)
(* or fails an assertion.                                                  *)
THEOREM ValidBitsReach ==
  ASSUME NEW tags, NEW from \in Nat, NEW to \in Nat, from <= to,
         NEW what, NEW junk \in SUBSET Bit
  PROVE  Changed(tags, ValidBits(tags, from, to, what, junk).tags) \subseteq TagReach(from, to)
<1> DEFINE pf == PtrFrom(from)
           pt == PtrTo(to)
           h == Head(tags, pf, pt, what, junk)
           m == Middle(h.tags, h.at, pt, what)
           t == Tail(m.tags, m.at, pt, what)
<1>1. pf \in Nat /\ pt \in Nat /\ pf <= pt
  <2>1. /\ PtrBytes \in Nat \ {0} /\ to + PtrBytes - 1 \in Nat /\ from \in Nat
        /\ from <= to + PtrBytes - 1
    BY Sizes
  <2> QED BY <2>1, DivBounds, DivMonotonic DEF PtrFrom, PtrTo
<1>2. ValidBits(tags, from, to, what, junk) =
        IF h.ok THEN t ELSE [tags |-> h.tags, ok |-> FALSE]
  BY DEF ValidBits
<1>3. TagReach(from, to) = FirstOfWord(pf) .. FirstOfWord(pt + 1) + WordBits - 1
  BY DEF TagReach
<1> HIDE DEF pf, pt
<1>4. /\ h.at \in Nat /\ pf <= h.at /\ h.at <= pt + 1
      /\ Changed(tags, h.tags) \subseteq WordPtrs(h.at)
  BY <1>1, HeadReach
<1> HIDE DEF h
<1>5. /\ m.at \in Nat /\ h.at <= m.at /\ m.at <= pt + 1 /\ pt < m.at + WordBits
      /\ Changed(h.tags, m.tags) \subseteq h.at .. m.at - 1
  <2>1. /\ m.at \in Nat /\ h.at <= m.at /\ (m.at <= pt \/ m.at = h.at)
        /\ pt < m.at + WordBits
        /\ Changed(h.tags, m.tags) \subseteq h.at .. m.at - 1
    <3>1. m = Middle(h.tags, h.at, pt, what)
      OBVIOUS
    <3> HIDE DEF m
    <3> QED BY <3>1, <1>1, <1>4, MiddleReach
  <2> HIDE DEF m
  <2> QED BY <2>1, <1>1, <1>4
<1> HIDE DEF m
<1>6. Changed(m.tags, t.tags) \subseteq WordPtrs(pt + 1)
  BY <1>1, <1>5, TailReach
<1> HIDE DEF t
<1>7. /\ FirstOfWord(pf) \in Nat /\ FirstOfWord(h.at) \in Nat /\ FirstOfWord(pt + 1) \in Nat
      /\ FirstOfWord(pf) <= FirstOfWord(h.at) /\ FirstOfWord(h.at) <= FirstOfWord(pt + 1)
      /\ FirstOfWord(pf) <= pf /\ pt + 1 < FirstOfWord(pt + 1) + WordBits
  <2>1. pt + 1 \in Nat
    BY <1>1
  <2>2. FirstOfWord(pf) <= FirstOfWord(h.at) /\ FirstOfWord(h.at) <= FirstOfWord(pt + 1)
    BY <1>1, <1>4, <2>1, FirstOfWordMonotonic
  <2> QED BY <1>1, <1>4, <2>1, <2>2, WordOfSlot
<1>8. WordPtrs(h.at) \subseteq TagReach(from, to)
  BY <1>3, <1>7, Sizes DEF WordPtrs
<1>9. h.at .. m.at - 1 \subseteq TagReach(from, to)
  <2>1. /\ FirstOfWord(pf) <= h.at /\ m.at - 1 <= FirstOfWord(pt + 1) + WordBits - 1
        /\ h.at \in Nat /\ m.at \in Nat /\ WordBits \in Nat
    BY <1>1, <1>4, <1>5, <1>7, Sizes
  <2> QED BY <2>1, <1>3, <1>7
<1>10. WordPtrs(pt + 1) \subseteq TagReach(from, to)
  BY <1>3, <1>7, Sizes DEF WordPtrs
<1>11. CASE h.ok
  <2>1. Changed(tags, t.tags) \subseteq
          (Changed(tags, h.tags) \cup Changed(h.tags, m.tags)) \cup Changed(m.tags, t.tags)
    BY ChangedTwice
  <2> QED BY <2>1, <1>2, <1>4, <1>5, <1>6, <1>8, <1>9, <1>10, <1>11
<1>12. CASE ~ h.ok
  <2>1. ValidBits(tags, from, to, what, junk).tags = h.tags
    BY <1>2, <1>12
  <2> QED BY <2>1, <1>4, <1>8
<1> QED BY <1>11, <1>12
=============================================================================
