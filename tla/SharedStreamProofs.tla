-------------------------- MODULE SharedStreamProofs -------------------------
(***************************************************************************)
(* One stream for any number of threads: proofs about SharedStream.  With  *)
(* one thread the stream is where its call left it; with more it is near.  *)
(***************************************************************************)
EXTENDS SharedStream, SequenceTheorems, FiniteSetTheorems, TLAPS

(* Every call of the backend makes at least one access, all in the file.   *)
LEMMA CallsAreSequences ==
  ASSUME StreamConstants, NEW c \in Calls
  PROVE  c \in Seq(Access) /\ c # <<>>
<1> USE DEF StreamConstants
<1>1. Data("read", 0, RootBytes) \in Access
  BY DEF Data, Access
<1>2. ASSUME NEW x \in Extents
      PROVE  Data("read", x.at, x.len) \in Access /\ Data("write", x.at, x.len) \in Access
  <2>1. Inside(Data("read", x.at, x.len)) /\ x.at \in Nat /\ x.len \in Nat
    BY <1>2
  <2> QED BY <2>1 DEF Data, Access, Inside
<1>3. ASSUME NEW s \in Slots
      PROVE  Data("read", s, CapBytes) \in Access /\ Data("write", s, CapBytes) \in Access
  <2>1. Inside(Data("read", s, CapBytes)) /\ s \in Nat
    BY <1>3
  <2> QED BY <2>1 DEF Data, Access, Inside
<1>4. TagAccesses \subseteq Access
  <2>1. ASSUME NEW w \in Words PROVE TagRead(w) \in Access /\ TagWrite(w) \in Access
    <3>1. w * TagBytes \in Nat /\ Inside(TagRead(w)) /\ Inside(TagWrite(w))
      BY <2>1 DEF TagAccesses
    <3> QED BY <3>1 DEF TagRead, TagWrite, Access
  <2> QED BY <2>1 DEF TagAccesses
<1>5. ASSUME NEW a \in Access PROVE <<a>> \in Seq(Access) /\ <<a>> # <<>>
  OBVIOUS
<1>6. ASSUME NEW u \in Updates, NEW a \in Access
      PROVE  /\ u \o <<a>> \in Seq(Access) /\ u \o <<a>> # <<>>
             /\ <<a>> \o u \in Seq(Access) /\ <<a>> \o u # <<>>
  <2>1. u \in Seq(Access)
    <3>1. u \in Seq(TagAccesses)
      OBVIOUS
    <3>2. \A i \in 1 .. Len(u) : u[i] \in Access
      BY <1>4, <3>1
    <3> QED BY <3>1, <3>2
  <2>2. u \o <<a>> \in Seq(Access) /\ <<a>> \o u \in Seq(Access) /\ Len(u) \in Nat
    BY <2>1
  <2>3. Len(u \o <<a>>) = Len(u) + 1 /\ Len(<<a>> \o u) = 1 + Len(u)
    BY <2>1, ConcatProperties
  <2> QED BY <2>2, <2>3
<1>7. CASE \E n \in Depths : c = Resolve(n)
  <2>1. PICK n \in Depths : c = [i \in 1 .. n |-> Data("read", 0, RootBytes)]
    BY <1>7 DEF Resolve
  <2>2. n \in Nat \ {0}
    OBVIOUS
  <2>3. c \in Seq(Access) /\ Len(c) = n
    BY <1>1, <2>1, <2>2
  <2> QED BY <2>2, <2>3
<1>8. CASE \E x \in Extents : c = ReadCall(x)
  BY <1>2, <1>5, <1>8 DEF ReadCall
<1>9. CASE \E u \in Updates, x \in Extents : c = WriteCall(u, x)
  BY <1>2, <1>6, <1>9 DEF WriteCall
<1>10. CASE \E s \in Slots, u \in Updates : c = PutCall(s, u)
  BY <1>3, <1>6, <1>10 DEF PutCall
<1>11. CASE \E w \in Words : c = LookupCall(w)
  <2>1. PICK w \in Words : c = <<TagRead(w)>>
    BY <1>11 DEF LookupCall
  <2>2. TagRead(w) \in Access
    BY <1>4 DEF TagAccesses
  <2> QED BY <1>5, <2>1, <2>2
<1>12. CASE \E w \in Words, s \in Slots : c = GetCall(w, s)
  <2>1. PICK w \in Words, s \in Slots : c = <<TagRead(w), Data("read", s, CapBytes)>>
    BY <1>12 DEF GetCall
  <2> DEFINE a == TagRead(w)
             b == Data("read", s, CapBytes)
  <2>2. a \in Access /\ b \in Access
    BY <1>3, <1>4 DEF TagAccesses
  <2> HIDE DEF a, b
  <2>3. <<a, b>> \in Seq(Access) /\ <<a, b>> # <<>>
    BY <2>2
  <2> QED BY <2>1, <2>3 DEF a, b
<1> QED BY <1>7, <1>8, <1>9, <1>10, <1>11, <1>12 DEF Calls

(* The next access of a call, and what is left after it.                   *)
LEMMA HeadAndTail ==
  ASSUME NEW s \in Seq(Access), s # <<>>
  PROVE  /\ Head(s) \in Access /\ Head(s) = s[1] /\ 1 \in 1 .. Len(s)
         /\ Tail(s) \in Seq(Access) /\ (Tail(s) = <<>> <=> Len(s) = 1)
         /\ \A i \in 1 .. Len(Tail(s)) : i + 1 \in 1 .. Len(s) /\ Tail(s)[i] = s[i + 1]
<1>1. /\ Head(s) \in Access /\ Head(s) = s[1] /\ Tail(s) \in Seq(Access)
      /\ Len(s) \in Nat /\ Len(Tail(s)) = Len(s) - 1
      /\ \A i \in 1 .. Len(Tail(s)) : Tail(s)[i] = s[i + 1]
  BY HeadTailProperties
<1>2. Len(s) # 0
  BY EmptySeq
<1>3. Tail(s) = <<>> <=> Len(Tail(s)) = 0
  BY <1>1, EmptySeq
<1> QED BY <1>1, <1>2, <1>3

(* What a transfer moves.                                                  *)
LEMMA Moves ==
  ASSUME StreamConstants, TypeOK, NEW a \in Access, Move(a)
  PROVE  /\ end' \in Nat /\ end <= end' /\ pos' \in 0 .. end'
         /\ pos <= pos' /\ pos' <= pos + Longest
<1>1. /\ a.op \in {"read", "write"} /\ a.at \in Nat /\ a.len \in Nat /\ a.len <= Longest
      /\ Longest \in Nat /\ end \in Nat /\ pos \in Nat /\ pos <= end
  BY DEF StreamConstants, Access, Inside, TypeOK
<1> QED BY <1>1 DEF Move

(* Type correctness holds for any number of threads.                       *)
THEOREM TypeCorrect ==
  ASSUME StreamConstants
  PROVE  Spec => []TypeOK
<1>1. Init => TypeOK
  BY DEF StreamConstants, Init, TypeOK
<1>2. TypeOK /\ [Next]_vars => TypeOK'
  <2> SUFFICES ASSUME TypeOK, [Next]_vars PROVE TypeOK'
    OBVIOUS
  <2> USE DEF TypeOK
  <2>1. ASSUME NEW t \in Thread, Start(t) PROVE TypeOK'
    <3>1. PICK c \in Calls : todo' = [todo EXCEPT ![t] = c]
      BY <2>1 DEF Start
    <3>2. c \in Seq(Access) /\ c # <<>>
      BY CallsAreSequences
    <3> QED BY <2>1, <3>1, <3>2 DEF Start
  <2>2. ASSUME NEW t \in Thread, SeekSet(t) PROVE TypeOK'
    <3>1. todo[t] \in Seq(Access) /\ todo[t] # <<>>
      BY <2>2 DEF SeekSet
    <3>2. Head(todo[t]) \in Access
      BY <3>1, HeadAndTail
    <3>3. Head(todo[t]).at \in 0 .. end
      BY <3>2 DEF StreamConstants, Access, Inside
    <3> QED BY <2>2, <3>3 DEF SeekSet
  <2>3. ASSUME NEW t \in Thread, Transfer(t) PROVE TypeOK'
    <3>1. todo[t] \in Seq(Access) /\ todo[t] # <<>>
      BY <2>3 DEF Transfer
    <3> DEFINE a == Head(todo[t])
               s == Tail(todo[t])
    <3>2. a \in Access /\ s \in Seq(Access) /\ (s = <<>> <=> Len(todo[t]) = 1)
      BY <3>1, HeadAndTail
    <3>3. a.at \in Nat
      BY <3>2 DEF Access
    <3>4. /\ todo' = [todo EXCEPT ![t] = s] /\ Move(a) /\ last' = [want |-> a.at, at |-> pos]
          /\ pc' = [pc EXCEPT ![t] = IF Len(todo[t]) = 1 THEN "idle" ELSE "seek"]
      BY <2>3 DEF Transfer
    <3> HIDE DEF a, s
    <3>5. end' \in Nat /\ FileBytes <= end' /\ pos' \in 0 .. end'
      <4>1. end' \in Nat /\ end <= end' /\ pos' \in 0 .. end'
        BY <3>2, <3>4, Moves
      <4>2. FileBytes \in Nat
        BY DEF StreamConstants
      <4> QED BY <4>1, <4>2
    <3>6. last' \in [want : Nat, at : Nat]
      BY <3>3, <3>4
    <3>7. /\ todo' \in [Thread -> Seq(Access)]
          /\ pc' \in [Thread -> {"idle", "seek", "transfer"}]
          /\ \A u \in Thread : pc'[u] = "idle" <=> todo'[u] = <<>>
      BY <3>2, <3>4
    <3> QED BY <3>5, <3>6, <3>7
  <2>4. CASE UNCHANGED vars
    BY <2>4 DEF vars
  <2> QED BY <2>1, <2>2, <2>3, <2>4 DEF Next
<1> QED BY <1>1, <1>2, PTL DEF Spec

-----------------------------------------------------------------------------
(* One thread: between its fseek and its transfer, it finds the stream     *)
(* where it asked for.                                                     *)
Positioned == \A t \in Thread : pc[t] = "transfer" => pos = Head(todo[t]).at

(* With -s, that is with one thread, every access of every call is at the  *)
(* place it named; the run stream shows that two threads lose this.        *)
THEOREM OneThreadAccessesItsCapability ==
  ASSUME StreamConstants, \A t, u \in Thread : t = u
  PROVE  Spec => []AccessesItsCapability
<1> DEFINE IInv == Positioned /\ AccessesItsCapability
<1>1. Init => IInv
  BY DEF Init, Positioned, AccessesItsCapability
<1>2. TypeOK /\ IInv /\ [Next]_vars => IInv'
  <2> SUFFICES ASSUME TypeOK, IInv, [Next]_vars PROVE IInv'
    OBVIOUS
  <2> USE DEF Positioned, AccessesItsCapability
  <2>1. ASSUME NEW t \in Thread, Start(t) PROVE IInv'
    <3>1. pc'[t] = "seek" /\ \A u \in Thread : u = t
      BY <2>1 DEF Start, TypeOK
    <3> QED BY <2>1, <3>1 DEF Start
  <2>2. ASSUME NEW t \in Thread, SeekSet(t) PROVE IInv'
    <3>1. pos' = Head(todo[t]).at /\ todo' = todo /\ \A u \in Thread : u = t
      BY <2>2 DEF SeekSet
    <3> QED BY <2>2, <3>1 DEF SeekSet
  <2>3. ASSUME NEW t \in Thread, Transfer(t) PROVE IInv'
    <3>1. pc'[t] # "transfer" /\ \A u \in Thread : u = t
      BY <2>3 DEF Transfer, TypeOK
    <3> QED BY <2>3, <3>1 DEF Transfer
  <2>4. CASE UNCHANGED vars
    BY <2>4 DEF vars
  <2> QED BY <2>1, <2>2, <2>3, <2>4 DEF Next
<1>3. IInv => AccessesItsCapability
  OBVIOUS
<1> QED BY <1>1, <1>2, <1>3, TypeCorrect, PTL DEF Spec

-----------------------------------------------------------------------------
(* Several threads: how far an access may stray.                           *)

(* What calls have left to do, they asked for.                             *)
TodoSought == \A t \in Thread : \A i \in 1 .. Len(todo[t]) : todo[t][i].at \in Sought

(* Since the last fseek each thread that is not before its own transfer    *)
(* may have moved the stream once: it has to seek before it moves it again. *)
Away  == { t \in Thread : pc[t] # "transfer" }
Drift == \E x \in Sought : x <= pos /\ pos <= x + Cardinality(Away) * Longest

(* Calls ask for positions.                                                *)
LEMMA SoughtType == ASSUME StreamConstants PROVE Sought \subseteq Nat
<1>1. ASSUME NEW c \in Calls, NEW i \in 1 .. Len(c) PROVE c[i].at \in Nat
  <2>1. c[i] \in Access
    BY CallsAreSequences
  <2> QED BY <2>1 DEF Access
<1> QED BY <1>1 DEF Sought

(* What a call has left are accesses it asked for.                         *)
LEMMA TodoStep ==
  ASSUME StreamConstants
  PROVE  TypeOK /\ TodoSought /\ [Next]_vars => TodoSought'
<1> SUFFICES ASSUME TypeOK, TodoSought, [Next]_vars PROVE TodoSought'
  OBVIOUS
<1> USE DEF TypeOK
<1>1. ASSUME NEW t \in Thread, Start(t) PROVE TodoSought'
  <2>1. PICK c \in Calls : todo' = [todo EXCEPT ![t] = c]
    BY <1>1 DEF Start
  <2>2. \A i \in 1 .. Len(c) : c[i].at \in Sought
    BY DEF Sought
  <2> QED BY <2>1, <2>2 DEF TodoSought
<1>2. ASSUME NEW t \in Thread, SeekSet(t) PROVE TodoSought'
  BY <1>2 DEF SeekSet, TodoSought
<1>3. ASSUME NEW t \in Thread, Transfer(t) PROVE TodoSought'
  <2> DEFINE s == todo[t]
  <2>1. todo' = [todo EXCEPT ![t] = Tail(s)] /\ s \in Seq(Access) /\ s # <<>>
    BY <1>3 DEF Transfer
  <2>2. \A i \in 1 .. Len(s) : s[i].at \in Sought
    BY DEF TodoSought
  <2> HIDE DEF s
  <2>3. \A i \in 1 .. Len(Tail(s)) : Tail(s)[i].at \in Sought
    BY <2>1, <2>2, HeadAndTail
  <2> QED BY <2>1, <2>3 DEF TodoSought
<1>4. CASE UNCHANGED vars
  BY <1>4 DEF vars, TodoSought
<1> QED BY <1>1, <1>2, <1>3, <1>4 DEF Next

(* Each transfer takes the stream on by what it moved, and its thread away. *)
LEMMA DriftStep ==
  ASSUME StreamConstants, IsFiniteSet(Thread)
  PROVE  TypeOK /\ TodoSought /\ Drift /\ [Next]_vars => Drift'
<1> SUFFICES ASSUME TypeOK, TodoSought, Drift, [Next]_vars PROVE Drift'
  OBVIOUS
<1>1. IsFiniteSet(Away) /\ Cardinality(Away) \in Nat /\ Longest \in Nat
  BY FS_Subset, FS_CardinalityType DEF StreamConstants, Away
<1>2. ASSUME NEW t \in Thread, Start(t) PROVE Drift'
  <2>1. Away' = Away /\ pos' = pos
    BY <1>2 DEF Start, Away, TypeOK
  <2> QED BY <2>1 DEF Drift
<1>3. ASSUME NEW t \in Thread, SeekSet(t) PROVE Drift'
  <2>1. todo[t] \in Seq(Access) /\ todo[t] # <<>> /\ pos' = Head(todo[t]).at
    BY <1>3 DEF SeekSet, TypeOK
  <2>2. pos' \in Sought
    BY <2>1, HeadAndTail DEF TodoSought
  <2>3. Cardinality(Away') \in Nat
    <3>1. Away' \in SUBSET Thread
      BY DEF Away
    <3> QED BY <3>1, FS_Subset, FS_CardinalityType
  <2>4. pos' \in Nat /\ Cardinality(Away') * Longest \in Nat
    BY <1>1, <2>2, <2>3, SoughtType
  <2>5. \E x \in Sought : x <= pos' /\ pos' <= x + Cardinality(Away') * Longest
    BY <2>2, <2>4
  <2> QED BY <2>5 DEF Drift
<1>4. ASSUME NEW t \in Thread, Transfer(t) PROVE Drift'
  <2>1. t \notin Away /\ Away' = Away \cup {t}
    BY <1>4 DEF Transfer, Away, TypeOK
  <2>2. Cardinality(Away') = Cardinality(Away) + 1
    BY <1>1, <2>1, FS_AddElement
  <2>3. PICK x \in Sought : x <= pos /\ pos <= x + Cardinality(Away) * Longest
    BY DEF Drift
  <2>4. PICK y \in Sought : y <= pos' /\ pos' <= y + Cardinality(Away') * Longest
    <3> DEFINE a == Head(todo[t])
    <3>1. a \in Access /\ Move(a)
      BY <1>4, HeadAndTail DEF Transfer, TypeOK
    <3> HIDE DEF a
    <3>2. pos <= pos' /\ pos' <= pos + Longest /\ pos' \in Nat /\ pos \in Nat /\ x \in Nat
      BY <3>1, Moves, SoughtType DEF TypeOK
    <3>3. /\ Cardinality(Away') * Longest = Cardinality(Away) * Longest + Longest
          /\ Cardinality(Away) * Longest \in Nat
      <4>1. ASSUME NEW n \in Nat, NEW l \in Nat
            PROVE  (n + 1) * l = n * l + l /\ n * l \in Nat
        OBVIOUS
      <4> QED BY <1>1, <2>2, <4>1
    <3> DEFINE far  == Cardinality(Away) * Longest
               far2 == Cardinality(Away') * Longest
    <3>4. /\ far \in Nat /\ far2 = far + Longest
          /\ x <= pos /\ pos <= x + far
      BY <2>3, <3>3
    <3> HIDE DEF far, far2
    <3>5. x <= pos' /\ pos' <= x + far2
      BY <1>1, <3>2, <3>4
    <3> QED BY <3>5 DEF far2
  <2> QED BY <2>4 DEF Drift
<1>5. CASE UNCHANGED vars
  BY <1>5 DEF vars, Drift, Away
<1> QED BY <1>2, <1>3, <1>4, <1>5 DEF Next

(* However many threads share the stream and however they interleave, an   *)
(* access that misses its place (the run stream) is behind one that some   *)
(* call asks for, by at most the longest access for each other thread:     *)
(* these may all have moved the stream since it was sought.                *)
THEOREM StrayAccessesStayNear ==
  ASSUME StreamConstants, IsFiniteSet(Thread), Thread # {}
  PROVE  Spec => []StaysNearACall
<1>0. Cardinality(Thread) \in Nat \ {0} /\ Longest \in Nat
  BY FS_CardinalityType, FS_EmptySet DEF StreamConstants
<1>1. Init => TodoSought /\ Drift /\ StaysNearACall
  <2> SUFFICES ASSUME Init PROVE TodoSought /\ Drift /\ StaysNearACall
    OBVIOUS
  <2>1. TodoSought
    BY DEF Init, TodoSought
  <2>2. /\ Cardinality(Away) * Longest \in Nat
        /\ (Cardinality(Thread) - 1) * Longest \in Nat
    <3>1. Cardinality(Away) \in Nat /\ Cardinality(Thread) - 1 \in Nat
      BY <1>0, FS_Subset, FS_CardinalityType DEF Away
    <3> QED BY <1>0, <3>1
  <2>3. 0 \in Sought /\ pos = 0 /\ last.at = 0
    BY DEF Init, Sought
  <2> QED BY <2>1, <2>2, <2>3 DEF Drift, StaysNearACall
<1>2. TypeOK /\ Drift /\ StaysNearACall /\ [Next]_vars => StaysNearACall'
  <2> SUFFICES ASSUME TypeOK, Drift, StaysNearACall, [Next]_vars PROVE StaysNearACall'
    OBVIOUS
  <2>1. ASSUME NEW t \in Thread, Transfer(t) PROVE StaysNearACall'
    <3>1. last'.at = pos /\ pos \in Nat
      BY <2>1 DEF Transfer, TypeOK
    <3>2. PICK x \in Sought : x <= pos /\ pos <= x + Cardinality(Away) * Longest
      BY DEF Drift
    <3>3. Cardinality(Away) \in Nat /\ Cardinality(Away) <= Cardinality(Thread) - 1
      <4>1. Away \in SUBSET Thread /\ Away # Thread
        BY <2>1 DEF Transfer, Away
      <4>2. IsFiniteSet(Away) /\ Cardinality(Away) <= Cardinality(Thread)
            /\ Cardinality(Away) # Cardinality(Thread)
        BY <4>1, FS_Subset
      <4>3. Cardinality(Away) \in Nat
        BY <4>2, FS_CardinalityType
      <4> QED BY <1>0, <4>2, <4>3
    <3>4. /\ Cardinality(Away) * Longest <= (Cardinality(Thread) - 1) * Longest
          /\ Cardinality(Away) * Longest \in Nat
          /\ (Cardinality(Thread) - 1) * Longest \in Nat
      <4>1. ASSUME NEW i \in Nat, NEW j \in Nat, NEW k \in Nat, i <= j
            PROVE  i * k <= j * k /\ i * k \in Nat /\ j * k \in Nat
        BY <4>1
      <4> QED BY <1>0, <3>3, <4>1
    <3>5. x <= last'.at /\ last'.at <= x + (Cardinality(Thread) - 1) * Longest
      BY <3>1, <3>2, <3>4, SoughtType
    <3> QED BY <3>5 DEF StaysNearACall
  <2>2. CASE (\E t \in Thread : Start(t) \/ SeekSet(t)) \/ UNCHANGED vars
    <3>1. last' = last
      BY <2>2 DEF Start, SeekSet, vars
    <3> QED BY <3>1 DEF StaysNearACall
  <2> QED BY <2>1, <2>2 DEF Next
<1> QED BY <1>1, <1>2, TypeCorrect, TodoStep, DriftStep, PTL DEF Spec
=============================================================================
