--------------------------- MODULE TagUpdatesProofs ---------------------------
(***************************************************************************)
(* The invariants of TagUpdates, for tag maps and ranges of every size.    *)
(***************************************************************************)
EXTENDS TagUpdates, CapTagsProofs

(* Updates never leave the map, whatever range is passed.                  *)
THEOREM TypeCorrect == Spec => []TypeOK
<1>1. Init => TypeOK
  BY DEF Init, TypeOK
<1>2. TypeOK /\ [Next]_vars => TypeOK'
  <2> SUFFICES ASSUME TypeOK, [Next]_vars PROVE TypeOK'
    OBVIOUS
  <2>1. ASSUME NEW from \in Addr, NEW to \in 0 .. DataBytes, NEW junk \in SUBSET Bit,
               Clear(from, to, junk)
        PROVE  TypeOK'
    <3> DEFINE r == ValidBits(tags, from, to, "clear", junk)
    <3>1. tags \in SUBSET Ptr /\ from \in Nat /\ from <= to
      BY <2>1 DEF Clear, Range, Addr, TypeOK
    <3>2. r.tags \in SUBSET Ptr /\ r.ok \in BOOLEAN
      BY <3>1, ValidBitsType
    <3>3. tags' = r.tags /\ alive' = r.ok
      BY <2>1 DEF Clear, ClearValidBits
    <3> HIDE DEF r
    <3> QED BY <3>2, <3>3 DEF TypeOK
  <2>2. ASSUME NEW from \in Addr, NEW to \in 0 .. DataBytes, NEW junk \in SUBSET Bit,
               Set(from, to, junk)
        PROVE  TypeOK'
    <3> DEFINE r == ValidBits(tags, from, to, "set", junk)
    <3>1. tags \in SUBSET Ptr /\ from \in Nat /\ from <= to
      BY <2>2 DEF Set, Range, Addr, TypeOK
    <3>2. r.tags \in SUBSET Ptr /\ r.ok \in BOOLEAN
      BY <3>1, ValidBitsType
    <3>3. tags' = r.tags /\ alive' = r.ok
      BY <2>2 DEF Set, SetValidBits
    <3> HIDE DEF r
    <3> QED BY <3>2, <3>3 DEF TypeOK
  <2>3. CASE UNCHANGED vars
    BY <2>3 DEF vars, TypeOK
  <2> QED BY <2>1, <2>2, <2>3 DEF Next
<1> QED BY <1>1, <1>2, PTL DEF Spec

(* A range of whole words is updated exactly, at any time.                 *)
THEOREM WholeWordsExact == Spec => []WholeWordUpdateIsExact
<1>1. WholeWordUpdateIsExact
  <2>1. SUFFICES ASSUME NEW j \in 0 .. NumWords, NEW k \in 0 .. NumWords,
                        j * WordSpan <= k * WordSpan, NEW junk
                 PROVE  /\ ClearValidBits(tags, j * WordSpan, k * WordSpan, junk) =
                             [tags |-> tags \ Covered(j * WordSpan, k * WordSpan), ok |-> TRUE]
                        /\ SetValidBits(tags, j * WordSpan, k * WordSpan, junk) =
                             [tags |-> tags \cup Covered(j * WordSpan, k * WordSpan), ok |-> TRUE]
    BY DEF WholeWordUpdateIsExact, Multiples
  <2>2. j <= k
    BY <2>1, WordOrder, Sizes
  <2>3. Covered(j * WordSpan, k * WordSpan) = WordStart(j) .. WordStart(k) - 1
    BY <2>2, WholeWordsCovered
  <2>4. ClearValidBits(tags, j * WordSpan, k * WordSpan, junk) =
          [tags |-> Mark(tags, WordStart(j) .. WordStart(k) - 1, "clear"), ok |-> TRUE]
    BY <2>2, WholeWordUpdate DEF ClearValidBits
  <2>5. SetValidBits(tags, j * WordSpan, k * WordSpan, junk) =
          [tags |-> Mark(tags, WordStart(j) .. WordStart(k) - 1, "set"), ok |-> TRUE]
    BY <2>2, WholeWordUpdate DEF SetValidBits
  <2> QED BY <2>3, <2>4, <2>5 DEF Mark
<1> QED BY <1>1, PTL

(* A range from the start of a word to the inside of one loses its tags,   *)
(* at any time, and no slot of another word does.                          *)
THEOREM PrefixCleared == Spec => []PrefixClearCovers
<1>1. TypeOK => PrefixClearCovers
  <2>1. SUFFICES ASSUME TypeOK, NEW j \in 0 .. NumWords, NEW to \in 0 .. DataBytes,
                        NEW junk, j * WordSpan <= to,
                        PtrTo(to) % WordBits < WordBits - 1, PtrTo(to) < NumPtrs
                 PROVE  LET r == ClearValidBits(tags, j * WordSpan, to, junk) IN
                        /\ r.ok
                        /\ r.tags \cap Covered(j * WordSpan, to) = {}
                        /\ \A p \in tags \ r.tags : /\ FirstOfWord(p) < PtrTo(to)
                                                    /\ p * PtrBytes >= j * WordSpan
    BY DEF PrefixClearCovers, Multiples
  <2> DEFINE pt == PtrTo(to)
             k  == pt \div WordBits
  <2>2. pt \in Nat /\ WordStart(j) <= pt /\ WordStart(j) \in Nat
        /\ PtrFrom(j * WordSpan) = WordStart(j)
    <3>1. /\ PtrBytes \in Nat \ {0} /\ to + PtrBytes - 1 \in Nat
          /\ j * WordSpan + PtrBytes - 1 \in Nat
          /\ j * WordSpan + PtrBytes - 1 <= to + PtrBytes - 1
      BY <2>1, Sizes
    <3>2. PtrTo(to) \in Nat
      BY <3>1, DivBounds DEF PtrTo
    <3>3. PtrTo(j * WordSpan) <= PtrTo(to)
      BY <3>1, DivMonotonic DEF PtrTo
    <3> QED BY <3>2, <3>3, WordAligned
  <2>3. /\ k \in Nat /\ WordStart(k) \in Nat
        /\ WordStart(k) <= pt /\ pt < WordStart(k + 1) - 1
        /\ WordStart(k + 1) = WordStart(k) + WordBits
    <3>1. WordBits \in Nat \ {0}
      BY Sizes
    <3> HIDE DEF pt
    <3>2. /\ k \in Nat /\ pt % WordBits \in Nat
          /\ pt = k * WordBits + (pt % WordBits)
      BY <2>2, <3>1, DivBounds
    <3>3. pt % WordBits < WordBits - 1
      BY <2>1 DEF pt
    <3> HIDE DEF k
    <3> QED BY <3>1, <3>2, <3>3 DEF WordStart
  <2> HIDE DEF k
  <2>4. j <= k
    <3>1. SUFFICES ASSUME k + 1 <= j PROVE FALSE
      BY <2>3
    <3>2. (k + 1) * WordBits <= j * WordBits
      BY <3>1, <2>3, Sizes, TimesMonotonic
    <3> QED BY <3>2, <2>2, <2>3, Sizes DEF WordStart
  <2> DEFINE r == ClearValidBits(tags, j * WordSpan, to, junk)
             last == IF WordStart(k) = pt THEN WordStart(k) - 1 ELSE WordStart(k + 1) - 1
  <2>5. r.ok /\ r.tags = tags \ (WordStart(j) .. last)
    <3>1. pt \in 0 .. NumPtrs - 1 /\ j \in Nat
      BY <2>1, <2>2, Sizes
    <3> HIDE DEF pt
    <3>2. pt = PtrTo(to)
      BY DEF pt
    <3>3. ClearValidBits(tags, j * WordSpan, to, junk) =
            [tags |-> IF WordStart(k) = pt
                      THEN tags \ (WordStart(j) .. WordStart(k) - 1)
                      ELSE tags \ (WordStart(j) .. WordStart(k + 1) - 1),
             ok   |-> TRUE]
      BY <3>1, <3>2, <2>3, <2>4, PrefixClear
    <3> QED BY <3>3
  <2>6. pt - 1 <= last /\ last \in Int
    BY <2>2, <2>3, Sizes
  <2>7. r.tags \cap Covered(j * WordSpan, to) = {}
    <3>1. Covered(j * WordSpan, to) \subseteq WordStart(j) .. last
      BY <2>2, <2>6, SlotsCovered, Sizes DEF Ptr
    <3> HIDE DEF r, last
    <3> QED BY <3>1, <2>5
  <2>8. ASSUME NEW p \in tags \ r.tags
        PROVE  FirstOfWord(p) < pt /\ p * PtrBytes >= j * WordSpan
    <3>1. p \in Nat /\ WordStart(j) <= p /\ p <= last
      BY <2>1, <2>2, <2>3, <2>5, <2>6, Sizes DEF TypeOK, Ptr
    <3>2. FirstOfWord(p) \in Nat /\ FirstOfWord(p) <= p
      BY <3>1, WordOfSlot
    <3>3. FirstOfWord(p) < pt
      <4>1. CASE WordStart(k) = pt
        BY <4>1, <3>1, <3>2, <2>2, <2>3
      <4>2. CASE WordStart(k) # pt
        <5>1. p < (k + 1) * WordBits
          BY <4>2, <3>1, <2>3, Sizes DEF WordStart
        <5>2. p \div WordBits <= k
          <6>1. SUFFICES ASSUME k + 1 <= p \div WordBits PROVE FALSE
            BY <2>3, <3>1, WordOfSlot, DivBounds, Sizes
          <6>2. p \div WordBits \in Int /\ k + 1 \in Int /\ WordBits \in Nat
            BY <2>3, <3>1, DivBounds, Sizes
          <6>3. (k + 1) * WordBits <= (p \div WordBits) * WordBits
            BY <6>1, <6>2, TimesMonotonic
          <6>4. (p \div WordBits) * WordBits <= p
            BY <3>2 DEF FirstOfWord
          <6> QED BY <6>2, <6>3, <6>4, <5>1, <3>1, <2>3
        <5>3. (p \div WordBits) * WordBits <= k * WordBits
          BY <5>2, <2>3, <3>1, DivBounds, TimesMonotonic, Sizes
        <5> QED BY <5>3, <4>2, <2>2, <2>3, <3>2 DEF FirstOfWord, WordStart
      <4> QED BY <4>1, <4>2
    <3>4. WordStart(j) * PtrBytes <= p * PtrBytes
      BY <3>1, <2>2, Sizes, TimesMonotonic
    <3> QED BY <3>3, <3>4, Sizes DEF WordStart
  <2> QED BY <2>5, <2>7, <2>8
<1> QED BY <1>1, TypeCorrect, PTL
=============================================================================
