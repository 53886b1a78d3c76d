---------------------------- MODULE CapStoreProofs ----------------------------
(***************************************************************************)
(* CapStore keeps its types, implements CapMemory for offsets that are not *)
(* negative, and zeroes all but the last chunk of a capability that starts *)
(* on a word of the tag map: for every set of capabilities, every content  *)
(* of the backing file and every word an uninitialised variable may hold.  *)
(***************************************************************************)
EXTENDS CapStore, CapTagsProofs

(* A capability lies inside the store and is not empty.                    *)
LEMMA CapType ==
  ASSUME NEW c \in Caps
  PROVE  /\ c.base \in Nat /\ c.size \in Nat /\ c.size >= 1
         /\ c.base + c.size <= DataBytes
  BY CapStoreAssumption

(* Overwriting a range of the data region gives a data region.             *)
LEMMA FillType ==
  ASSUME NEW m \in [Addr -> Byte], NEW from, NEW len, NEW v \in Byte
  PROVE  Fill(m, from, len, v) \in [Addr -> Byte]
  BY DEF Fill

-----------------------------------------------------------------------------
(* The outcomes of capfs_backend_write: the bounds check of the capability *)
(* makes that of the store redundant, so a failing write has no effect.    *)
LEMMA WriteOutcome ==
  ASSUME TypeOK, NEW c \in Caps, NEW off \in Int, NEW len \in Nat, NEW v \in Byte,
         NEW junk \in Junk, NEW r, r = WriteResult(c, off, len, v, junk)
  PROVE  /\ r.store.mem \in [Addr -> Byte] /\ r.store.tags \subseteq Ptr
         /\ \/ /\ r.ret \in {"fail", "eacces"}
               /\ r.store.mem = mem /\ r.store.tags = tags
            \/ /\ r.ret \in {"ok", "abort"}
               /\ "write" \in c.perms /\ off >= 0 /\ off + len < c.size
               /\ r.ret = "ok" => r.store.mem = Fill(mem, c.base + off, len, v)
               /\ r.ret = "abort" => r.store.mem = mem
<1> DEFINE at   == c.base + off
           tagd == ClearValidBits(tags, at, at + len, junk)
           keep == [mem |-> mem, tags |-> tags]
<1>1. mem \in [Addr -> Byte] /\ tags \in SUBSET Ptr
  BY DEF TypeOK
<1>2. CASE "write" \notin c.perms
  <2>1. r = [store |-> keep, ret |-> "eacces"]
    BY <1>2 DEF WriteResult
  <2> QED BY <2>1, <1>1
<1>3. CASE "write" \in c.perms /\ (off < 0 \/ off + len >= c.size)
  <2>1. r = [store |-> keep, ret |-> "fail"]
    BY <1>3 DEF WriteResult
  <2> QED BY <2>1, <1>1
<1>4. CASE "write" \in c.perms /\ ~(off < 0 \/ off + len >= c.size)
  <2>1. /\ at \in Nat /\ at + len \in 0 .. DataBytes /\ at <= at + len
        /\ ~(at + len >= DataBytes) /\ off >= 0 /\ off + len < c.size
    BY <1>4, CapType, Sizes
  <2>2. tagd.tags \in SUBSET Ptr
    <3>1. junk \in SUBSET Bit
      BY CapStoreAssumption
    <3> QED BY <1>1, <2>1, <3>1, ValidBitsType DEF ClearValidBits
  <2>3. r = IF ~tagd.ok
            THEN [store |-> [mem |-> mem, tags |-> tagd.tags], ret |-> "abort"]
            ELSE [store |-> [mem |-> Fill(mem, at, len, v), tags |-> tagd.tags],
                  ret |-> "ok"]
    BY <1>4, <2>1 DEF WriteResult
  <2>4. Fill(mem, at, len, v) \in [Addr -> Byte]
    BY <1>1, FillType
  <2> HIDE DEF tagd, at
  <2>5. CASE tagd.ok
    <3>1. r = [store |-> [mem |-> Fill(mem, at, len, v), tags |-> tagd.tags],
               ret |-> "ok"]
      BY <2>3, <2>5
    <3> QED BY <3>1, <2>1, <2>2, <2>4, <1>4 DEF at
  <2>6. CASE ~tagd.ok
    <3>1. r = [store |-> [mem |-> mem, tags |-> tagd.tags], ret |-> "abort"]
      BY <2>3, <2>6
    <3> QED BY <3>1, <2>1, <2>2, <1>1, <1>4
  <2> QED BY <2>5, <2>6
<1> QED BY <1>2, <1>3, <1>4

(* The outcomes of capfs_backend_put_cap.                                  *)
LEMMA PutOutcome ==
  ASSUME TypeOK, NEW c \in Caps, NEW off \in Int, NEW junk \in Junk,
         NEW r, r = PutResult(c, off, junk)
  PROVE  /\ r.store.mem \in [Addr -> Byte] /\ r.store.tags \subseteq Ptr
         /\ \/ /\ r.ret \in {"fail", "eacces"}
               /\ r.store.mem = mem /\ r.store.tags = tags
            \/ /\ r.ret \in {"ok", "abort"}
               /\ "write" \in c.perms /\ off + PtrBytes < c.size
               /\ \/ r.store.mem = Fill(mem, c.base + off, PtrBytes, CapByte)
                  \/ r.ret = "abort" /\ r.store.mem = mem
<1> DEFINE at   == c.base + off
           tagd == SetValidBits(tags, at, at, junk)
           keep == [mem |-> mem, tags |-> tags]
<1>1. mem \in [Addr -> Byte] /\ tags \in SUBSET Ptr
  BY DEF TypeOK
<1>2. CASE "write" \notin c.perms
  <2>1. r = [store |-> keep, ret |-> "eacces"]
    BY <1>2 DEF PutResult
  <2> QED BY <2>1, <1>1
<1>3. CASE "write" \in c.perms /\ Exceeds(off + PtrBytes, c.size)
  <2>1. r = [store |-> keep, ret |-> "fail"]
    BY <1>3 DEF PutResult
  <2> QED BY <2>1, <1>1
<1>4. CASE "write" \in c.perms /\ ~Exceeds(off + PtrBytes, c.size)
  <2>1. off + PtrBytes < c.size /\ at + PtrBytes < DataBytes /\ at \in Int
    BY <1>4, CapType, Sizes DEF Exceeds
  <2>2. CASE at < 0
    <3>1. r = [store |-> keep, ret |-> "abort"]
      BY <1>4, <2>2 DEF PutResult
    <3> QED BY <3>1, <2>1, <1>1, <1>4
  <2>3. CASE ~(at < 0)
    <3>1. at \in Nat /\ at \in 0 .. DataBytes /\ at <= at /\ ~(at + PtrBytes >= DataBytes)
      BY <2>1, <2>3, Sizes
    <3>2. tagd.tags \in SUBSET Ptr /\ tagd.ok \in BOOLEAN
      <4>1. junk \in SUBSET Bit
        BY CapStoreAssumption
      <4> QED BY <1>1, <3>1, <4>1, ValidBitsType DEF SetValidBits
    <3>3. r = [store |-> [mem  |-> Fill(mem, at, PtrBytes, CapByte),
                          tags |-> tagd.tags],
               ret |-> IF tagd.ok THEN "ok" ELSE "abort"]
      BY <1>4, <2>3, <3>1 DEF PutResult
    <3>4. Fill(mem, at, PtrBytes, CapByte) \in [Addr -> Byte]
      BY <1>1, FillType, CapStoreAssumption
    <3> HIDE DEF tagd, at
    <3>5. r.ret \in {"ok", "abort"}
      BY <3>3
    <3> QED BY <3>2, <3>3, <3>4, <3>5, <2>1, <1>4 DEF at
  <2> QED BY <2>2, <2>3
<1> QED BY <1>2, <1>3, <1>4

(* The chunk capfs_backend_zero writes next.                               *)
ChunkLen(c, off) == IF c.size > off + ChunkBytes THEN ChunkBytes ELSE c.size - off

(* What capfs_backend_read may answer.                                     *)
LEMMA ReadRets == \A c, off, len : ReadRet(c, off, len) \in {"ok", "fail", "eacces"}
  BY DEF ReadRet

(* What capfs_backend_get_cap may answer.                                  *)
LEMMA GetRets == \A t, c, off : GetRet(t, c, off) \in {"ok", "fail", "eacces", "abort"}
  BY DEF GetRet

-----------------------------------------------------------------------------
(* The store keeps its types, whatever the calls and their arguments.      *)
LEMMA TypeInit == Init => TypeOK
  BY CapStoreAssumption DEF Init, TypeOK, Store, Ops, Rets

(* No step leaves the types.                                               *)
LEMMA TypeStep == TypeOK /\ [Next]_vars => TypeOK'
<1> SUFFICES ASSUME TypeOK, [Next]_vars PROVE TypeOK'
  OBVIOUS
<1>0. Lengths \subseteq Nat /\ Offsets \subseteq Int /\ PtrBytes \in Nat
      /\ MaxCalls \in Nat /\ Zero \in Byte
  BY CapStoreAssumption, Sizes
<1>1. ASSUME NEW c \in Caps, NEW off \in Offsets, NEW len \in Lengths, Read(c, off, len)
      PROVE  TypeOK'
  BY <1>0, <1>1, ReadRets DEF Read, Ready, Return, TypeOK, Ops, Rets
<1>2. ASSUME NEW c \in Caps, NEW off \in Offsets, NEW len \in Lengths,
             NEW v \in Byte \ {CapByte}, NEW junk \in Junk, Write(c, off, len, v, junk)
      PROVE  TypeOK'
  <2> DEFINE r == WriteResult(c, off, len, v, junk)
  <2>1. /\ r.store.mem \in [Addr -> Byte] /\ r.store.tags \subseteq Ptr
        /\ r.ret \in {"fail", "eacces", "ok", "abort"}
    BY <1>0, WriteOutcome
  <2>2. /\ Ready /\ mem' = r.store.mem /\ tags' = r.store.tags /\ calls' = calls + 1
        /\ Return("write", c, off, len, r.ret)
    BY <1>2 DEF Write
  <2> HIDE DEF r
  <2> QED BY <1>0, <2>1, <2>2 DEF Ready, Return, TypeOK, Ops, Rets
<1>3. ASSUME NEW c \in Caps, NEW off \in Offsets, NEW junk \in Junk, PutCap(c, off, junk)
      PROVE  TypeOK'
  <2> DEFINE r == PutResult(c, off, junk)
  <2>1. /\ r.store.mem \in [Addr -> Byte] /\ r.store.tags \subseteq Ptr
        /\ r.ret \in {"fail", "eacces", "ok", "abort"}
    BY <1>0, PutOutcome
  <2>2. /\ Ready /\ mem' = r.store.mem /\ tags' = r.store.tags /\ calls' = calls + 1
        /\ Return("put", c, off, PtrBytes, r.ret)
    BY <1>3 DEF PutCap
  <2> HIDE DEF r
  <2> QED BY <1>0, <2>1, <2>2 DEF Ready, Return, TypeOK, Ops, Rets
<1>4. ASSUME NEW c \in Caps, NEW off \in Offsets, GetCap(c, off) PROVE TypeOK'
  BY <1>0, <1>4, GetRets DEF GetCap, Ready, Return, TypeOK, Ops, Rets
<1>5. ASSUME NEW c \in Caps, ZeroStart(c) PROVE TypeOK'
  BY <1>0, <1>5 DEF ZeroStart, Ready, Return, TypeOK, Ops, Rets
<1>6. ASSUME NEW junk \in Junk, ZeroChunk(junk) PROVE TypeOK'
  <2> DEFINE r == WriteResult(call.cap, call.off, ChunkLen(call.cap, call.off), Zero, junk)
  <2>1. /\ call.cap \in Caps /\ call.off \in Int /\ call.off + ChunkBytes \in Int
        /\ ChunkLen(call.cap, call.off) \in Nat
    BY <1>6, CapType, CapStoreAssumption DEF ZeroChunk, TypeOK, ChunkLen
  <2>2. r.store.mem \in [Addr -> Byte] /\ r.store.tags \subseteq Ptr
    BY <1>0, <2>1, WriteOutcome
  <2>3. /\ mem' = r.store.mem /\ tags' = r.store.tags /\ calls' = calls
        /\ Return("zero", call.cap, call.off + ChunkBytes, 0,
                  IF r.ret = "abort" THEN "abort" ELSE "running")
    BY <1>6 DEF ZeroChunk, ChunkLen
  <2> HIDE DEF r
  <2> QED BY <2>1, <2>2, <2>3 DEF Return, TypeOK, Ops, Rets
<1>7. CASE ZeroEnd
  BY <1>7 DEF ZeroEnd, Zeroing, Return, TypeOK, Ops, Rets
<1>8. CASE UNCHANGED vars
  BY <1>8 DEF vars, TypeOK
<1> QED BY <1>1, <1>2, <1>3, <1>4, <1>5, <1>6, <1>7, <1>8 DEF Next

(* The store, the running call and the counter keep their types under any  *)
(* sequence of calls.                                                      *)
THEOREM TypeCorrect == Spec => []TypeOK
  BY TypeInit, TypeStep, PTL DEF Spec

-----------------------------------------------------------------------------
(* CapStore implements CapMemory when no offset is negative.               *)
LEMMA InsideIfBounded ==
  ASSUME NEW r, NEW c \in Caps, r.cap = c, r.off \in Nat, r.len \in Nat,
         r.off + r.len < c.size
  PROVE  Memory!Named(r) \subseteq Memory!Inside(c)
  BY CapType, Sizes DEF Memory!Named, Memory!Inside, Addr

(* An opened backing file is a memory as CapMemory has it.                 *)
LEMMA RefinementInit == Init => Memory!Init
  BY CapStoreAssumption DEF Init, Memory!Init, Store

(* Every step of the backend is one of CapMemory or leaves what it sees    *)
(* alone, as long as no offset is negative.                                *)
LEMMA RefinementStep ==
  ASSUME Offsets \subseteq Nat
  PROVE  TypeOK /\ [Next]_vars => [Memory!Next]_(Memory!vars)
<1> SUFFICES ASSUME TypeOK, [Next]_vars PROVE [Memory!Next]_(Memory!vars)
  OBVIOUS
<1>0. Lengths \subseteq Nat /\ Offsets \subseteq Nat /\ PtrBytes \in Nat
      /\ Zero \in Byte /\ CapByte \in Byte /\ Offsets \subseteq Int
  BY CapStoreAssumption, Sizes
<1>1. ASSUME NEW c \in Caps, NEW off \in Offsets, NEW len \in Lengths, Read(c, off, len)
      PROVE  Memory!Next
  <2>1. /\ call.ret \notin {"running", "abort"} /\ mem' = mem /\ tags' = tags
        /\ call' = [op |-> "read", cap |-> c, off |-> off, len |-> len,
                    ret |-> ReadRet(c, off, len)]
    BY <1>1 DEF Read, Ready, Return
  <2>2. CASE ReadRet(c, off, len) = "ok"
    <3>1. "read" \in c.perms /\ off + len < c.size
      BY <2>2, <1>0, CapType DEF ReadRet
    <3>2. Memory!Named(call') \subseteq Memory!Inside(call'.cap)
      BY <2>1, <3>1, <1>0, InsideIfBounded
    <3> QED BY <2>1, <2>2, <3>1, <3>2 DEF Memory!Next, Memory!Load
  <2>3. CASE ReadRet(c, off, len) # "ok"
    BY <2>1, <2>3, ReadRets DEF Memory!Next, Memory!Refuse
  <2> QED BY <2>2, <2>3
<1>2. ASSUME NEW c \in Caps, NEW off \in Offsets, NEW len \in Lengths,
             NEW v \in Byte \ {CapByte}, NEW junk \in Junk, Write(c, off, len, v, junk)
      PROVE  Memory!Next
  <2> DEFINE r == WriteResult(c, off, len, v, junk)
  <2>1. /\ call.ret \notin {"running", "abort"}
        /\ mem' = r.store.mem /\ tags' = r.store.tags
        /\ call' = [op |-> "write", cap |-> c, off |-> off, len |-> len, ret |-> r.ret]
    BY <1>2 DEF Write, Ready, Return
  <2>2. \/ /\ r.ret \in {"fail", "eacces"}
           /\ r.store.mem = mem /\ r.store.tags = tags
        \/ /\ r.ret \in {"ok", "abort"}
           /\ "write" \in c.perms /\ off + len < c.size
           /\ r.ret = "ok" => r.store.mem = Fill(mem, c.base + off, len, v)
           /\ r.ret = "abort" => r.store.mem = mem
    BY <1>0, WriteOutcome
  <2> HIDE DEF r
  <2>3. CASE r.ret \in {"fail", "eacces"}
    BY <2>1, <2>2, <2>3 DEF Memory!Next, Memory!Refuse
  <2>4. CASE r.ret \in {"ok", "abort"}
    <3>1. Memory!Named(call') \subseteq Memory!Inside(call'.cap)
      BY <2>1, <2>2, <2>4, <1>0, InsideIfBounded
    <3>2. r.ret = "ok" =>
            mem' = [a \in Addr |-> IF a \in Memory!Named(call') THEN v ELSE mem[a]]
      BY <2>1, <2>2 DEF Fill, Memory!Named
    <3> QED BY <2>1, <2>2, <2>4, <3>1, <3>2 DEF Memory!Next, Memory!Accept, Memory!MayWrite
  <2> QED BY <2>2, <2>3, <2>4
<1>3. ASSUME NEW c \in Caps, NEW off \in Offsets, NEW junk \in Junk, PutCap(c, off, junk)
      PROVE  Memory!Next
  <2> DEFINE r == PutResult(c, off, junk)
  <2>1. /\ call.ret \notin {"running", "abort"}
        /\ mem' = r.store.mem /\ tags' = r.store.tags
        /\ call' = [op |-> "put", cap |-> c, off |-> off, len |-> PtrBytes, ret |-> r.ret]
    BY <1>3 DEF PutCap, Ready, Return
  <2>2. \/ /\ r.ret \in {"fail", "eacces"}
           /\ r.store.mem = mem /\ r.store.tags = tags
        \/ /\ r.ret \in {"ok", "abort"}
           /\ "write" \in c.perms /\ off + PtrBytes < c.size
           /\ \/ r.store.mem = Fill(mem, c.base + off, PtrBytes, CapByte)
              \/ r.ret = "abort" /\ r.store.mem = mem
    BY <1>0, PutOutcome
  <2> HIDE DEF r
  <2>3. CASE r.ret \in {"fail", "eacces"}
    BY <2>1, <2>2, <2>3 DEF Memory!Next, Memory!Refuse
  <2>4. CASE r.ret \in {"ok", "abort"}
    <3>1. Memory!Named(call') \subseteq Memory!Inside(call'.cap)
      BY <2>1, <2>2, <2>4, <1>0, InsideIfBounded
    <3>2. Fill(mem, c.base + off, PtrBytes, CapByte) =
            [a \in Addr |-> IF a \in Memory!Named(call') THEN CapByte ELSE mem[a]]
      BY <2>1 DEF Fill, Memory!Named
    <3> QED BY <2>1, <2>2, <2>4, <3>1, <3>2, <1>0
            DEF Memory!Next, Memory!Accept, Memory!MayWrite
  <2> QED BY <2>2, <2>3, <2>4
<1>4. ASSUME NEW c \in Caps, NEW off \in Offsets, GetCap(c, off) PROVE Memory!Next
  <2>1. /\ call.ret \notin {"running", "abort"} /\ mem' = mem /\ tags' = tags
        /\ call' = [op |-> "get", cap |-> c, off |-> off, len |-> PtrBytes,
                    ret |-> GetRet(tags, c, off)]
    BY <1>4 DEF GetCap, Ready, Return
  <2>2. CASE GetRet(tags, c, off) \in {"ok", "abort"}
    <3>1. "read" \in c.perms /\ ~Exceeds(off + PtrBytes, c.size)
      BY <2>2 DEF GetRet
    <3>2. off + PtrBytes < c.size
      <4>1. off + PtrBytes \in Int /\ c.size \in Int
        BY <1>0, CapType
      <4> QED BY <3>1, <4>1 DEF Exceeds
    <3>3. Memory!Named(call') \subseteq Memory!Inside(call'.cap)
      BY <2>1, <3>2, <1>0, InsideIfBounded
    <3> QED BY <2>1, <2>2, <3>1, <3>3 DEF Memory!Next, Memory!Load
  <2>3. CASE GetRet(tags, c, off) \notin {"ok", "abort"}
    BY <2>1, <2>3, GetRets DEF Memory!Next, Memory!Refuse
  <2> QED BY <2>2, <2>3
<1>5. ASSUME NEW c \in Caps, ZeroStart(c) PROVE Memory!Next
  BY <1>5 DEF ZeroStart, Ready, Return, Memory!Next, Memory!BeginZero, Memory!Refuse,
     Memory!MayWrite
<1>6. ASSUME NEW junk \in Junk, ZeroChunk(junk) PROVE Memory!Next
  <2> DEFINE c == call.cap
             len == ChunkLen(c, call.off)
             r == WriteResult(c, call.off, len, Zero, junk)
  <2>1. c \in Caps /\ call.off \in Int /\ len \in Nat
    BY <1>6, CapType, CapStoreAssumption DEF ZeroChunk, TypeOK, ChunkLen
  <2>2. /\ call.op = "zero" /\ call.ret = "running"
        /\ mem' = r.store.mem /\ tags' = r.store.tags
        /\ call' = [op |-> "zero", cap |-> c, off |-> call.off + ChunkBytes, len |-> 0,
                    ret |-> IF r.ret = "abort" THEN "abort" ELSE "running"]
    BY <1>6 DEF ZeroChunk, Zeroing, Return, ChunkLen
  <2> HIDE DEF len
  <2>3. /\ r.store.mem \in [Addr -> Byte]
        /\ \/ r.store.mem = mem
           \/ /\ call.off >= 0 /\ call.off + len < c.size
              /\ r.store.mem = Fill(mem, c.base + call.off, len, Zero)
    BY <1>0, <2>1, WriteOutcome
  <2> HIDE DEF r
  <2>4. \A a \in Addr : mem'[a] = mem[a] \/ (a \in Memory!Inside(c) /\ mem'[a] = Zero)
    <3>1. c.base \in Nat /\ c.size \in Nat
      BY <2>1, CapType
    <3>2. CASE r.store.mem = mem
      BY <3>2, <2>2
    <3>3. CASE /\ call.off >= 0 /\ call.off + len < c.size
               /\ r.store.mem = Fill(mem, c.base + call.off, len, Zero)
      <4>1. ASSUME NEW a \in Addr,
                   c.base + call.off <= a /\ a < c.base + call.off + len
            PROVE  a \in Memory!Inside(c)
        BY <3>1, <3>3, <2>1, <4>1, Sizes DEF Memory!Inside, Addr
      <4>2. \A a \in Addr :
              mem'[a] = IF c.base + call.off <= a /\ a < c.base + call.off + len
                        THEN Zero ELSE mem[a]
        BY <3>3, <2>2 DEF Fill
      <4> QED BY <4>1, <4>2
    <3> QED BY <2>3, <3>2, <3>3
  <2>5. call'.ret \in {"running", "abort"} /\ call'.op = "zero" /\ call'.cap = call.cap
    BY <2>2
  <2> QED BY <2>2, <2>3, <2>4, <2>5 DEF Memory!Next, Memory!Scrub
<1>7. CASE ZeroEnd
  BY <1>7 DEF ZeroEnd, Zeroing, Return, TypeOK, Memory!Next, Memory!Scrub
<1>8. CASE UNCHANGED vars
  BY <1>8 DEF vars, Memory!vars
<1> QED BY <1>1, <1>2, <1>3, <1>4, <1>5, <1>6, <1>7, <1>8 DEF Next

(* Every behaviour of the backend whose offsets are not negative is one    *)
(* the memory of CapMemory has: calls are all or nothing and stay inside   *)
(* the capability they are made with.                                      *)
THEOREM Refinement ==
  ASSUME Offsets \subseteq Nat
  PROVE  Spec => ImplementsCapMemory
<1>1. TypeOK /\ [Next]_vars => [Memory!Next]_(Memory!vars)
  BY RefinementStep
<1> QED BY <1>1, RefinementInit, TypeCorrect, PTL
        DEF Spec, ImplementsCapMemory, Memory!Spec

-----------------------------------------------------------------------------
(* capfs_backend_zero, when a chunk is what one word of the map describes. *)

ChunkAddrs(c, k) == c.base + k * WordSpan .. c.base + k * WordSpan + WordSpan - 1

Wiped(c, k) == \A a \in ChunkAddrs(c, k) : mem[a] = Zero /\ PtrFrom(a) \notin tags

(* The loop is at a multiple of the chunk size and all full chunks before  *)
(* it are wiped.                                                           *)
ZeroProgress ==
  /\ call.op = "zero" /\ call.ret \in {"running", "ok"}
  /\ call.cap.base % WordSpan = 0
  => \E m \in Nat :
       /\ "write" \in call.cap.perms
       /\ call.off = m * WordSpan
       /\ call.ret = "ok" => call.off >= call.cap.size
       /\ \A k \in Nat : k < m /\ k * WordSpan + WordSpan < call.cap.size
                          => Wiped(call.cap, k)

(* One iteration on a chunk that is followed by another.                   *)
LEMMA ChunkWritten ==
  ASSUME TypeOK, ChunkBytes = WordSpan, NEW c \in Caps, c.base % WordSpan = 0,
         "write" \in c.perms, NEW m \in Nat, m * WordSpan + WordSpan < c.size,
         NEW junk \in Junk,
         NEW r, r = WriteResult(c, m * WordSpan, WordSpan, Zero, junk)
  PROVE  /\ r.ret = "ok"
         /\ r.store.mem = Fill(mem, c.base + m * WordSpan, WordSpan, Zero)
         /\ r.store.tags \subseteq tags
         /\ \A a \in ChunkAddrs(c, m) : a \in Addr /\ PtrFrom(a) \notin r.store.tags
<1> DEFINE q  == c.base \div WordSpan
           j  == q + m
           at == c.base + m * WordSpan
<1>1. /\ WordSpan \in Nat \ {0} /\ c.base \in Nat /\ c.size \in Nat
      /\ c.base + c.size <= DataBytes /\ DataBytes = NumWords * WordSpan
  BY CapType, Sizes
<1>2. q \in Nat /\ c.base = q * WordSpan
  <2>1. /\ q \in Nat /\ c.base % WordSpan \in Nat
        /\ c.base = q * WordSpan + (c.base % WordSpan)
    BY <1>1, DivBounds
  <2> HIDE DEF q
  <2> QED BY <2>1, <1>1
<1> HIDE DEF q
<1>3. /\ j \in Nat /\ at = j * WordSpan /\ at + WordSpan = (j + 1) * WordSpan
      /\ at \in Nat /\ at + WordSpan < DataBytes /\ m * WordSpan \in Nat
  BY <1>1, <1>2
<1> HIDE DEF j
<1>4. j \in 0 .. NumWords /\ j + 1 \in 0 .. NumWords
  <2>1. (j + 1) * WordSpan <= NumWords * WordSpan
    BY <1>1, <1>3, Sizes
  <2>2. j + 1 <= NumWords
    BY <2>1, <1>3, WordOrder, Sizes
  <2> QED BY <2>2, <1>3, Sizes
<1>5. ClearValidBits(tags, at, at + WordSpan, junk) =
        [tags |-> tags \ (WordStart(j) .. WordStart(j + 1) - 1), ok |-> TRUE]
  <2>1. ValidBits(tags, j * WordSpan, (j + 1) * WordSpan, "clear", junk) =
          [tags |-> Mark(tags, WordStart(j) .. WordStart(j + 1) - 1, "clear"), ok |-> TRUE]
    BY <1>3, <1>4, WholeWordUpdate
  <2> QED BY <2>1, <1>3 DEF ClearValidBits, Mark
<1>6. r = [store |-> [mem  |-> Fill(mem, at, WordSpan, Zero),
                      tags |-> tags \ (WordStart(j) .. WordStart(j + 1) - 1)],
           ret   |-> "ok"]
  <2>1. ~(m * WordSpan < 0) /\ ~(m * WordSpan + WordSpan >= c.size)
    <3> DEFINE x == m * WordSpan
    <3>1. x \in Nat /\ x + WordSpan < c.size
      BY <1>3
    <3> HIDE DEF x
    <3>2. ~(x < 0) /\ ~(x + WordSpan >= c.size)
      BY <3>1, <1>1
    <3> QED BY <3>2 DEF x
  <2>2. ~(at + WordSpan >= DataBytes)
    <3> HIDE DEF at
    <3> QED BY <1>1, <1>3, Sizes
  <2> QED BY <2>1, <2>2, <1>5 DEF WriteResult
<1>7. ASSUME NEW a \in ChunkAddrs(c, m)
      PROVE  a \in Addr /\ PtrFrom(a) \in WordStart(j) .. WordStart(j + 1) - 1
  <2>1. a \in at .. at + WordSpan - 1
    BY <1>7 DEF ChunkAddrs
  <2> HIDE DEF at
  <2>2. a \in Nat /\ at <= a /\ a < at + WordSpan
    BY <2>1, <1>1, <1>3
  <2>3. a \in Nat /\ j * WordSpan <= a /\ a < (j + 1) * WordSpan /\ a < DataBytes
    BY <2>2, <1>1, <1>3
  <2> QED BY <2>3, <1>3, <1>1, SlotsOfSpan DEF Addr
<1> QED BY <1>6, <1>7

(* After k iterations of the loop of capfs_backend_zero the first k full   *)
(* chunks are wiped.                                                       *)
LEMMA ZeroProgressStep ==
  ASSUME ChunkBytes = WordSpan
  PROVE  TypeOK /\ ZeroProgress /\ [Next]_vars => ZeroProgress'
<1> SUFFICES ASSUME TypeOK, ZeroProgress, [Next]_vars PROVE ZeroProgress'
  OBVIOUS
<1>1. ASSUME NEW c \in Caps, NEW off \in Offsets, NEW len \in Lengths, Read(c, off, len)
      PROVE  ZeroProgress'
  BY <1>1 DEF Read, Return, ZeroProgress
<1>2. ASSUME NEW c \in Caps, NEW off \in Offsets, NEW len \in Lengths,
             NEW v \in Byte \ {CapByte}, NEW junk \in Junk, Write(c, off, len, v, junk)
      PROVE  ZeroProgress'
  BY <1>2 DEF Write, Return, ZeroProgress
<1>3. ASSUME NEW c \in Caps, NEW off \in Offsets, NEW junk \in Junk, PutCap(c, off, junk)
      PROVE  ZeroProgress'
  BY <1>3 DEF PutCap, Return, ZeroProgress
<1>4. ASSUME NEW c \in Caps, NEW off \in Offsets, GetCap(c, off) PROVE ZeroProgress'
  BY <1>4 DEF GetCap, Return, ZeroProgress
<1>5. ASSUME NEW c \in Caps, ZeroStart(c) PROVE ZeroProgress'
  <2>1. /\ call'.off = 0 * WordSpan /\ call'.ret # "ok" /\ call'.cap = c
        /\ call'.ret = "running" => "write" \in c.perms
    BY <1>5, Sizes DEF ZeroStart, Return
  <2>2. \A k \in Nat : ~(k < 0)
    OBVIOUS
  <2> QED BY <2>1, <2>2 DEF ZeroProgress
<1>6. ASSUME NEW junk \in Junk, ZeroChunk(junk) PROVE ZeroProgress'
  <2> SUFFICES ASSUME call.cap.base % WordSpan = 0 PROVE ZeroProgress'
    BY <1>6 DEF ZeroChunk, Return, ZeroProgress
  <2>0. PICK c \in Caps : c = call.cap
    BY DEF TypeOK
  <2> DEFINE r == WriteResult(c, call.off, ChunkLen(c, call.off), Zero, junk)
  <2>1. /\ c = call.cap /\ c.base % WordSpan = 0 /\ call.op = "zero" /\ call.ret = "running" /\ call.off < c.size
        /\ mem' = r.store.mem /\ tags' = r.store.tags
        /\ call' = [op |-> "zero", cap |-> c, off |-> call.off + ChunkBytes, len |-> 0,
                    ret |-> IF r.ret = "abort" THEN "abort" ELSE "running"]
    BY <1>6, <2>0 DEF ZeroChunk, Zeroing, Return, ChunkLen
  <2>2. PICK m \in Nat :
          /\ "write" \in c.perms
          /\ call.off = m * WordSpan
          /\ \A k \in Nat : k < m /\ k * WordSpan + WordSpan < c.size => Wiped(c, k)
    BY <2>1 DEF ZeroProgress
  <2>3. /\ m + 1 \in Nat /\ call'.off = (m + 1) * WordSpan /\ call'.ret # "ok"
        /\ call'.cap = c
    BY <2>1, <2>2, Sizes
  <2>4. CASE m * WordSpan + WordSpan < c.size
    <3>1. ChunkLen(c, call.off) = WordSpan
      BY <2>1, <2>2, <2>4, CapType, Sizes DEF ChunkLen
    <3>2. /\ mem' = Fill(mem, c.base + m * WordSpan, WordSpan, Zero)
          /\ tags' \subseteq tags
          /\ \A a \in ChunkAddrs(c, m) : a \in Addr /\ PtrFrom(a) \notin tags'
      BY <2>1, <2>2, <2>4, <3>1, ChunkWritten
    <3>3. Wiped(c, m)'
      <4>1. ASSUME NEW a \in ChunkAddrs(c, m) PROVE mem'[a] = Zero
        <5>1. /\ a \in Addr /\ c.base + m * WordSpan <= a
              /\ a < c.base + m * WordSpan + WordSpan
          BY <3>2, CapType, Sizes DEF ChunkAddrs
        <5> QED BY <5>1, <3>2 DEF Fill
      <4> QED BY <4>1, <3>2 DEF Wiped, ChunkAddrs
    <3>4. ASSUME NEW k \in Nat, k < m, k * WordSpan + WordSpan < c.size
          PROVE  Wiped(c, k)'
      <4>1. ASSUME NEW a \in ChunkAddrs(c, k) PROVE a \in Addr
        BY <2>1, <3>4, CapType, Sizes DEF ChunkAddrs, Addr
      <4>2. Wiped(c, k)
        BY <2>2, <3>4
      <4> QED BY <2>1, <3>2, <4>1, <4>2 DEF Wiped, ChunkAddrs, Fill
    <3>5. \A k \in Nat : k < m + 1 => k < m \/ k = m
      OBVIOUS
    <3> QED BY <2>2, <2>3, <3>3, <3>4, <3>5 DEF ZeroProgress
  <2>5. CASE ~(m * WordSpan + WordSpan < c.size)
    <3>1. mem' = mem /\ tags' = tags
      <4>1. call.off + ChunkLen(c, call.off) >= c.size
        BY <2>1, <2>2, <2>5, CapType, Sizes DEF ChunkLen
      <4> QED BY <2>1, <2>2, <4>1 DEF WriteResult
    <3>2. ASSUME NEW k \in Nat, k < m + 1, k * WordSpan + WordSpan < c.size
          PROVE  Wiped(c, k)'
      <4>1. k < m
        BY <2>5, <3>2
      <4>2. Wiped(c, k)
        BY <2>2, <3>2, <4>1
      <4> QED BY <3>1, <4>2 DEF Wiped, ChunkAddrs
    <3> QED BY <2>2, <2>3, <3>2 DEF ZeroProgress
  <2> QED BY <2>4, <2>5
<1>7. CASE ZeroEnd
  BY <1>7 DEF ZeroEnd, Zeroing, Return, ZeroProgress, Wiped, ChunkAddrs
<1>8. CASE UNCHANGED vars
  BY <1>8 DEF vars, ZeroProgress, Wiped, ChunkAddrs
<1> QED BY <1>1, <1>2, <1>3, <1>4, <1>5, <1>6, <1>7, <1>8 DEF Next

(* After capfs_backend_zero returned 0 all full chunks but one at the end  *)
(* are zero and hold no tag.                                               *)
THEOREM ZeroReaches ==
  ASSUME ChunkBytes = WordSpan
  PROVE  Spec => []ZeroReachesAllButLastChunk
<1>1. Init => ZeroProgress
  BY DEF Init, ZeroProgress
<1>2. TypeOK /\ ZeroProgress /\ [Next]_vars => ZeroProgress'
  BY ZeroProgressStep
<1>3. TypeOK /\ ZeroProgress => ZeroReachesAllButLastChunk
  <2>1. SUFFICES ASSUME TypeOK, ZeroProgress, call.op = "zero", call.ret = "ok",
                        call.cap.base % WordSpan = 0, NEW a \in Scrubbed(call.cap)
                 PROVE  mem[a] = Zero /\ PtrFrom(a) \notin tags
    BY DEF ZeroReachesAllButLastChunk
  <2>2. PICK c \in Caps : c = call.cap
    BY <2>1 DEF TypeOK
  <2>3. PICK k \in Nat : k * WordSpan + WordSpan < c.size /\ a \in ChunkAddrs(c, k)
    BY <2>1, <2>2 DEF Scrubbed, ChunkAddrs
  <2>4. PICK m \in Nat :
          /\ c.size <= m * WordSpan
          /\ \A n \in Nat : n < m /\ n * WordSpan + WordSpan < c.size => Wiped(c, n)
    <3>1. PICK m \in Nat :
            /\ call.off = m * WordSpan /\ call.off >= c.size
            /\ \A n \in Nat : n < m /\ n * WordSpan + WordSpan < c.size => Wiped(c, n)
      BY <2>1, <2>2 DEF ZeroProgress
    <3> QED BY <3>1, <2>2, CapType, Sizes
  <2>5. k < m
    <3>1. /\ (k + 1) * WordSpan \in Nat /\ (k + 1) * WordSpan < c.size
          /\ m * WordSpan \in Nat /\ c.size \in Nat
      BY <2>3, CapType, Sizes
    <3>2. (k + 1) * WordSpan <= m * WordSpan
      BY <3>1, <2>4
    <3>3. k + 1 <= m
      BY <3>2, WordOrder
    <3> QED BY <3>3
  <2> QED BY <2>3, <2>4, <2>5 DEF Wiped
<1> QED BY <1>1, <1>2, <1>3, TypeCorrect, PTL DEF Spec
-----------------------------------------------------------------------------
(* A range that ends earlier has no larger reach.                          *)
LEMMA ReachMonotonic ==
  ASSUME NEW from \in Nat, NEW to \in Nat, NEW far \in Nat, to <= far
  PROVE  TagReach(from, to) \subseteq TagReach(from, far)
<1>1. PtrTo(to) \in Nat /\ PtrTo(far) \in Nat /\ PtrTo(to) <= PtrTo(far)
  <2>1. /\ PtrBytes \in Nat \ {0} /\ to + PtrBytes - 1 \in Nat /\ far + PtrBytes - 1 \in Nat
        /\ to + PtrBytes - 1 <= far + PtrBytes - 1
    BY Sizes
  <2> QED BY <2>1, DivBounds, DivMonotonic DEF PtrTo
<1>2. /\ FirstOfWord(PtrTo(to) + 1) \in Nat /\ FirstOfWord(PtrTo(far) + 1) \in Nat
      /\ FirstOfWord(PtrTo(to) + 1) <= FirstOfWord(PtrTo(far) + 1)
  BY <1>1, FirstOfWordMonotonic
<1>3. FirstOfWord(PtrFrom(from)) \in Nat
  <2>1. PtrFrom(from) \in Nat
    BY DivBounds, Sizes DEF PtrFrom
  <2> QED BY <2>1, WordOfSlot
<1> QED BY <1>2, <1>3, Sizes DEF TagReach

(* The tags that capfs_backend_write changes: none if it refuses the call, *)
(* and none outside the reach of its range if it does not.                 *)
LEMMA WriteTags ==
  ASSUME TypeOK, NEW c \in Caps, NEW off \in Int, NEW len \in Nat, NEW v, NEW junk \in Junk,
         NEW r, r = WriteResult(c, off, len, v, junk)
  PROVE  \/ r.store.tags = tags
         \/ /\ c.base + off \in Nat /\ off + len < c.size
            /\ Changed(tags, r.store.tags) \subseteq TagReach(c.base + off, c.base + off + len)
<1> DEFINE at   == c.base + off
           tagd == ClearValidBits(tags, at, at + len, junk)
           keep == [mem |-> mem, tags |-> tags]
<1>1. CASE "write" \notin c.perms
  <2>1. r = [store |-> keep, ret |-> "eacces"]
    BY <1>1 DEF WriteResult
  <2> QED BY <2>1
<1>2. CASE "write" \in c.perms /\ (off < 0 \/ off + len >= c.size)
  <2>1. r = [store |-> keep, ret |-> "fail"]
    BY <1>2 DEF WriteResult
  <2> QED BY <2>1
<1>3. CASE "write" \in c.perms /\ ~(off < 0 \/ off + len >= c.size)
  <2>1. at \in Nat /\ at + len \in Nat /\ at <= at + len /\ off + len < c.size
    BY <1>3, CapType
  <2>2. r.store.tags = tagd.tags
    <3>1. r = IF ~tagd.ok
              THEN [store |-> [mem |-> mem, tags |-> tagd.tags], ret |-> "abort"]
              ELSE IF at + len >= DataBytes
              THEN [store |-> [mem |-> mem, tags |-> tagd.tags], ret |-> "fail"]
              ELSE [store |-> [mem |-> Fill(mem, at, len, v), tags |-> tagd.tags],
                    ret |-> "ok"]
      BY <1>3 DEF WriteResult
    <3> HIDE DEF tagd, at
    <3> QED BY <3>1
  <2>3. junk \in SUBSET Bit
    BY CapStoreAssumption
  <2>4. Changed(tags, tagd.tags) \subseteq TagReach(at, at + len)
    BY <2>1, <2>3, ValidBitsReach DEF ClearValidBits
  <2> QED BY <2>1, <2>2, <2>4
<1> QED BY <1>1, <1>2, <1>3

(* The tags that capfs_backend_put_cap changes.                            *)
LEMMA PutTags ==
  ASSUME TypeOK, NEW c \in Caps, NEW off \in Int, NEW junk \in Junk,
         NEW r, r = PutResult(c, off, junk)
  PROVE  \/ r.store.tags = tags
         \/ /\ c.base + off \in Nat
            /\ Changed(tags, r.store.tags) \subseteq TagReach(c.base + off, c.base + off)
<1> DEFINE at   == c.base + off
           tagd == SetValidBits(tags, at, at, junk)
           keep == [mem |-> mem, tags |-> tags]
<1>1. at \in Int
  BY CapType
<1>2. \/ r.store.tags = tags
      \/ ~(at < 0) /\ r.store.tags = tagd.tags
  <2>1. r = CASE "write" \notin c.perms -> [store |-> keep, ret |-> "eacces"]
              [] "write" \in c.perms /\ Exceeds(off + PtrBytes, c.size) ->
                   [store |-> keep, ret |-> "fail"]
              [] OTHER ->
                   IF at < 0
                   THEN [store |-> keep, ret |-> "abort"]
                   ELSE IF at + PtrBytes >= DataBytes
                   THEN [store |-> keep, ret |-> "fail"]
                   ELSE [store |-> [mem  |-> Fill(mem, at, PtrBytes, CapByte),
                                    tags |-> tagd.tags],
                         ret |-> IF tagd.ok THEN "ok" ELSE "abort"]
    BY DEF PutResult
  <2> HIDE DEF tagd, at
  <2>2. CASE "write" \notin c.perms
    <3>1. r = [store |-> keep, ret |-> "eacces"]
      BY <2>1, <2>2
    <3> QED BY <3>1
  <2>3. CASE "write" \in c.perms /\ Exceeds(off + PtrBytes, c.size)
    <3>1. r = [store |-> keep, ret |-> "fail"]
      BY <2>1, <2>3
    <3> QED BY <3>1
  <2>4. CASE "write" \in c.perms /\ ~Exceeds(off + PtrBytes, c.size)
    <3>1. r = IF at < 0
              THEN [store |-> keep, ret |-> "abort"]
              ELSE IF at + PtrBytes >= DataBytes
              THEN [store |-> keep, ret |-> "fail"]
              ELSE [store |-> [mem  |-> Fill(mem, at, PtrBytes, CapByte),
                               tags |-> tagd.tags],
                    ret |-> IF tagd.ok THEN "ok" ELSE "abort"]
      BY <2>1, <2>4
    <3> QED BY <3>1
  <2> QED BY <2>2, <2>3, <2>4
<1>3. junk \in SUBSET Bit
  BY CapStoreAssumption
<1>4. ASSUME at \in Nat PROVE Changed(tags, tagd.tags) \subseteq TagReach(at, at)
  BY <1>3, <1>4, ValidBitsReach DEF SetValidBits
<1> HIDE DEF tagd
<1> QED BY <1>1, <1>2, <1>4

(* Tags of capabilities stored away from the range of a call survive it,   *)
(* for any offsets, any capabilities and any contents of the map: what     *)
(* the one word of spill of the update (files.c:249, files.c:270) may hit. *)
THEOREM TagsNearby == Spec => TagsChangeNearby
<1> DEFINE Near == (tags \ tags') \cup (tags' \ tags) \subseteq
                     TagReach(call'.cap.base + IF call'.op = "zero" THEN call.off ELSE call'.off,
                              call'.cap.base + (IF call'.op = "zero" THEN call.off ELSE call'.off)
                                + IF call'.op = "zero" THEN ChunkBytes ELSE call'.len)
<1>0. ASSUME tags' = tags PROVE Near
  BY <1>0
<1>1. TypeOK /\ Next => Near
  <2> SUFFICES ASSUME TypeOK, Next PROVE Near
    OBVIOUS
  <2>1. Lengths \subseteq Nat /\ Offsets \subseteq Int /\ PtrBytes \in Nat
    BY CapStoreAssumption, Sizes
  <2>2. ASSUME NEW c \in Caps, NEW off \in Offsets, NEW len \in Lengths,
               NEW v \in Byte \ {CapByte}, NEW junk \in Junk, Write(c, off, len, v, junk)
        PROVE  Near
    <3> DEFINE r == WriteResult(c, off, len, v, junk)
    <3>1. tags' = r.store.tags
          /\ call' = [op |-> "write", cap |-> c, off |-> off, len |-> len, ret |-> r.ret]
      BY <2>2 DEF Write, Return
    <3>2. \/ r.store.tags = tags
          \/ Changed(tags, r.store.tags) \subseteq TagReach(c.base + off, c.base + off + len)
      BY <2>1, WriteTags
    <3> HIDE DEF r
    <3> QED BY <1>0, <3>1, <3>2 DEF Changed
  <2>3. ASSUME NEW c \in Caps, NEW off \in Offsets, NEW junk \in Junk, PutCap(c, off, junk)
        PROVE  Near
    <3> DEFINE r == PutResult(c, off, junk)
    <3>1. tags' = r.store.tags
          /\ call' = [op |-> "put", cap |-> c, off |-> off, len |-> PtrBytes, ret |-> r.ret]
      BY <2>3 DEF PutCap, Return
    <3>2. \/ r.store.tags = tags
          \/ /\ c.base + off \in Nat
             /\ Changed(tags, r.store.tags) \subseteq TagReach(c.base + off, c.base + off)
      BY <2>1, PutTags
    <3>3. c.base + off \in Nat =>
            TagReach(c.base + off, c.base + off)
              \subseteq TagReach(c.base + off, c.base + off + PtrBytes)
      BY <2>1, ReachMonotonic
    <3> HIDE DEF r
    <3> QED BY <1>0, <3>1, <3>2, <3>3 DEF Changed
  <2>4. ASSUME NEW junk \in Junk, ZeroChunk(junk) PROVE Near
    <3> DEFINE c == call.cap
               len == ChunkLen(c, call.off)
               r == WriteResult(c, call.off, len, Zero, junk)
    <3>1. c \in Caps /\ call.off \in Int /\ len \in Nat /\ c.size \in Nat
      BY <2>4, CapType, CapStoreAssumption DEF ZeroChunk, TypeOK, ChunkLen
    <3>2. tags' = r.store.tags /\ call'.op = "zero" /\ call'.cap = c
      BY <2>4 DEF ZeroChunk, Return, ChunkLen
    <3>3. \/ r.store.tags = tags
          \/ /\ call.off + len < c.size
             /\ Changed(tags, r.store.tags) \subseteq
                  TagReach(c.base + call.off, c.base + call.off + len)
      BY <3>1, WriteTags
    <3>4. call.off + len < c.size => len = ChunkBytes
      BY <3>1, CapStoreAssumption DEF ChunkLen
    <3> HIDE DEF r, len
    <3> QED BY <1>0, <3>2, <3>3, <3>4 DEF Changed
  <2>5. CASE \/ \E c \in Caps, off \in Offsets, len \in Lengths : Read(c, off, len)
             \/ \E c \in Caps, off \in Offsets : GetCap(c, off)
             \/ \E c \in Caps : ZeroStart(c)
             \/ ZeroEnd
    BY <1>0, <2>5 DEF Read, GetCap, ZeroStart, ZeroEnd
  <2> QED BY <2>2, <2>3, <2>4, <2>5 DEF Next
<1>2. TypeOK /\ [Next]_vars =>
        [LET zero == call'.op = "zero"
             at   == call'.cap.base + IF zero THEN call.off ELSE call'.off
             len  == IF zero THEN ChunkBytes ELSE call'.len
         IN  (tags \ tags') \cup (tags' \ tags) \subseteq TagReach(at, at + len)]_vars
  BY <1>1
<1> QED BY <1>2, TypeCorrect, PTL DEF Spec, TagsChangeNearby

-----------------------------------------------------------------------------
(* Use of the store that trips no assertion of the tag update: accesses    *)
(* start on words of the tag map, as those of capfs_filesystem_format do,  *)
(* and none ends in the last but one slot of the store, whose update       *)
(* reaches for the word after the map.                                     *)
AlignedUse ==
  /\ ChunkBytes = WordSpan
  /\ \A c \in Caps : c.base % WordSpan = 0
  /\ \A off \in Offsets : off >= 0 /\ off % WordSpan = 0
  /\ \A c \in Caps, off \in Offsets, len \in Lengths : PtrTo(c.base + off + len) # NumPtrs - 1

(* An update that starts on a word and does not end in the last but one    *)
(* slot of the map completes.                                              *)
LEMMA AlignedUpdate ==
  ASSUME NEW map, NEW j \in Nat, NEW to \in Nat, j * WordSpan <= to, to <= DataBytes,
         PtrTo(to) # NumPtrs - 1, NEW what, NEW junk
  PROVE  ValidBits(map, j * WordSpan, to, what, junk).ok
<1> DEFINE a == WordStart(j)
           pt == PtrTo(to)
           m == Middle(map, a, pt, what)
<1>1. /\ PtrFrom(j * WordSpan) = a /\ a \in Nat /\ a % WordBits = 0
      /\ j * WordSpan \in Nat
  <2>1. j * WordSpan \in Nat
    BY Sizes
  <2> QED BY <2>1, WordAligned
<1>2. pt \in Nat /\ a <= pt /\ pt <= NumPtrs
  <2>1. /\ PtrBytes \in Nat \ {0} /\ to + PtrBytes - 1 \in Nat
        /\ j * WordSpan + PtrBytes - 1 \in Nat
        /\ j * WordSpan + PtrBytes - 1 <= to + PtrBytes - 1
        /\ NumPtrs * PtrBytes + PtrBytes - 1 \in Nat
        /\ to + PtrBytes - 1 <= NumPtrs * PtrBytes + PtrBytes - 1
    BY <1>1, Sizes
  <2>2. pt \in Nat
    BY <2>1, DivBounds DEF PtrTo
  <2>3. PtrTo(j * WordSpan) <= pt
    BY <2>1, DivMonotonic DEF PtrTo
  <2>4. pt <= (NumPtrs * PtrBytes + PtrBytes - 1) \div PtrBytes
    BY <2>1, DivMonotonic DEF PtrTo
  <2>5. (NumPtrs * PtrBytes + PtrBytes - 1) \div PtrBytes = NumPtrs
    BY Sizes, DivRoundUp
  <2> QED BY <2>2, <2>3, <2>4, <2>5, WordAligned
<1>3. ValidBits(map, j * WordSpan, to, what, junk) = Tail(m.tags, m.at, pt, what)
  <2>1. Head(map, a, pt, what, junk) = [tags |-> map, at |-> a, ok |-> TRUE]
    BY <1>1 DEF Head
  <2> QED BY <1>1, <2>1 DEF ValidBits
<1>4. m.at \in Nat
  BY <1>1, <1>2, MiddleReach
<1>5. CASE pt = NumPtrs
  <2>1. /\ NumWords \in Nat /\ WordStart(NumWords) = pt
        /\ WordStart(NumWords + 1) = WordStart(NumWords) + WordBits
    BY <1>5, Sizes, WordAligned DEF WordStart
  <2>2. j <= NumWords
    <3>1. SUFFICES ASSUME NumWords + 1 <= j PROVE FALSE
      BY <2>1
    <3>2. (NumWords + 1) * WordBits <= j * WordBits
      BY <2>1, <3>1, Sizes, TimesMonotonic
    <3> QED BY <1>2, <2>1, <3>2, Sizes DEF WordStart
  <2>3. WordStart(NumWords) <= pt /\ pt < WordStart(NumWords + 1)
    BY <1>2, <2>1, Sizes
  <2>4. m.at = pt
    <3>1. m = Middle(map, WordStart(j), pt, what)
      OBVIOUS
    <3>2. pt \in Nat /\ NumWords \in Nat
      BY <1>2, <2>1
    <3> HIDE DEF m, pt
    <3>3. m = [tags |-> Mark(map, WordStart(j) .. WordStart(NumWords) - 1, what),
               at   |-> WordStart(NumWords)]
      <4>1. Middle(map, WordStart(j), pt, what) =
              [tags |-> Mark(map, WordStart(j) .. WordStart(NumWords) - 1, what),
               at   |-> WordStart(NumWords)]
        BY ONLY <2>2, <2>3, <3>2, j \in Nat, MiddleWritesWords
      <4> QED BY <3>1, <4>1
    <3> QED BY <2>1, <3>3
  <2> HIDE DEF m, pt
  <2> QED BY <1>2, <1>3, <1>4, <2>4 DEF Tail
<1>6. CASE pt # NumPtrs
  <2>1. InMap(pt + 1)
    BY <1>2, <1>6, Sizes DEF InMap, Ptr
  <2> HIDE DEF m, pt
  <2> QED BY <1>2, <1>3, <1>4, <2>1 DEF Tail
<1> QED BY <1>5, <1>6

(* Offsets that are multiples add up to multiples.                         *)
LEMMA AlignedSum ==
  ASSUME NEW a \in Nat, NEW b \in Nat, a % WordSpan = 0, b % WordSpan = 0
  PROVE  \E j \in Nat : a + b = j * WordSpan
<1> DEFINE q == a \div WordSpan
           r == b \div WordSpan
<1>1. /\ q \in Nat /\ a = q * WordSpan + (a % WordSpan)
      /\ r \in Nat /\ b = r * WordSpan + (b % WordSpan)
  BY Sizes, DivBounds
<1> HIDE DEF q, r
<1>2. a + b = (q + r) * WordSpan
  BY <1>1, Sizes
<1> QED BY <1>1, <1>2

(* In aligned use no write is aborted ...                                  *)
LEMMA AlignedWrite ==
  ASSUME TypeOK, NEW c \in Caps, c.base % WordSpan = 0, NEW off \in Nat, off % WordSpan = 0,
         NEW len \in Nat, PtrTo(c.base + off + len) # NumPtrs - 1, NEW v, NEW junk
  PROVE  WriteResult(c, off, len, v, junk).ret # "abort"
<1>1. PICK j \in Nat : c.base + off = j * WordSpan
  BY CapType, AlignedSum
<1>2. CASE "write" \in c.perms /\ ~(off < 0 \/ off + len >= c.size)
  <2>1. /\ j * WordSpan + len \in Nat /\ j * WordSpan + len <= DataBytes
        /\ j * WordSpan <= j * WordSpan + len
    <3> DEFINE x == j * WordSpan
    <3>1. x = c.base + off /\ x \in Nat /\ len \in Nat /\ off + len < c.size
      BY <1>1, <1>2, CapType
    <3> HIDE DEF x
    <3>2. x + len \in Nat /\ x + len <= DataBytes /\ x <= x + len
      BY <3>1, CapType, Sizes
    <3> QED BY <3>2 DEF x
  <2>2. ClearValidBits(tags, c.base + off, c.base + off + len, junk).ok
    BY <1>1, <2>1, AlignedUpdate DEF ClearValidBits
  <2> QED BY <1>2, <2>2 DEF WriteResult
<1>3. CASE "write" \notin c.perms
  BY <1>3 DEF WriteResult
<1>4. CASE "write" \in c.perms /\ (off < 0 \/ off + len >= c.size)
  BY <1>4 DEF WriteResult
<1> QED BY <1>2, <1>3, <1>4

(* ... and no put ...                                                      *)
LEMMA AlignedPut ==
  ASSUME TypeOK, NEW c \in Caps, c.base % WordSpan = 0, NEW off \in Nat, off % WordSpan = 0,
         NEW junk
  PROVE  PutResult(c, off, junk).ret # "abort"
<1>1. PICK j \in Nat : c.base + off = j * WordSpan
  BY CapType, AlignedSum
<1> DEFINE tagd == SetValidBits(tags, c.base + off, c.base + off, junk)
<1>2. tagd.ok
  <2>1. /\ PtrFrom(j * WordSpan) = WordStart(j) /\ PtrTo(j * WordSpan) = WordStart(j)
        /\ WordStart(j) \in Nat /\ WordStart(j) % WordBits = 0
    BY WordAligned
  <2>2. Head(tags, WordStart(j), WordStart(j), "set", junk)
          = [tags |-> tags, at |-> WordStart(j), ok |-> TRUE]
    BY <2>1 DEF Head
  <2>3. Middle(tags, WordStart(j), WordStart(j), "set").at >= WordStart(j)
    BY <2>1, MiddleReach
  <2> QED BY <1>1, <2>1, <2>2, <2>3 DEF SetValidBits, ValidBits, Tail
<1>3. ~(c.base + off < 0)
  BY CapType
<1> HIDE DEF tagd
<1> QED BY <1>2, <1>3 DEF PutResult, tagd

(* ... and no get: the slot it looks up is one of the capability's size.   *)
LEMMA GetInMap ==
  ASSUME NEW c \in Caps, NEW off \in Nat, NEW t
  PROVE  GetRet(t, c, off) # "abort"
<1>1. SUFFICES ASSUME ~Exceeds(off + PtrBytes, c.size) PROVE InMap(PtrFrom(off))
  BY DEF GetRet
<1>2. off < NumPtrs * PtrBytes
  BY <1>1, CapType, Sizes DEF Exceeds
<1> DEFINE q == off \div PtrBytes
<1>3. q \in Nat /\ q * PtrBytes <= off
  <2>1. /\ q \in Nat /\ off % PtrBytes \in Nat /\ off = q * PtrBytes + (off % PtrBytes)
    BY Sizes, DivBounds
  <2> HIDE DEF q
  <2> QED BY <2>1, Sizes
<1> HIDE DEF q
<1>4. q < NumPtrs
  <2>1. SUFFICES ASSUME NumPtrs <= q PROVE FALSE
    BY <1>3, Sizes
  <2>2. NumPtrs * PtrBytes <= q * PtrBytes
    BY <1>3, <2>1, Sizes, TimesMonotonic
  <2> QED BY <1>2, <1>3, <2>2, Sizes
<1> QED BY <1>3, <1>4, Sizes DEF InMap, Ptr, PtrFrom, q

(* No assertion of the tag update ends the daemon as long as accesses are  *)
(* aligned (files.c:171, files.c:190, files.c:250), whatever the map and   *)
(* the uninitialised word hold; the run capstore_assert shows that other   *)
(* accesses end it.                                                        *)
THEOREM AlignedUseIsSafe ==
  ASSUME AlignedUse
  PROVE  Spec => []AssertionsHold
<1>0. /\ Lengths \subseteq Nat /\ Offsets \subseteq Nat /\ ChunkBytes = WordSpan
      /\ WordSpan \in Nat \ {0}
      /\ \A c \in Caps : c.base % WordSpan = 0
      /\ \A off \in Offsets : off % WordSpan = 0
      /\ \A c \in Caps, off \in Offsets, len \in Lengths :
            PtrTo(c.base + off + len) # NumPtrs - 1
  BY CapStoreAssumption, Sizes DEF AlignedUse
<1>1. Init => AssertionsHold
  BY DEF Init, AssertionsHold
<1>2. TypeOK /\ ZeroProgress /\ AssertionsHold /\ [Next]_vars => AssertionsHold'
  <2> SUFFICES ASSUME TypeOK, ZeroProgress, AssertionsHold, [Next]_vars
               PROVE  AssertionsHold'
    OBVIOUS
  <2>1. ASSUME NEW c \in Caps, NEW off \in Offsets, NEW len \in Lengths, Read(c, off, len)
        PROVE  AssertionsHold'
    BY <2>1, ReadRets DEF Read, Return, AssertionsHold
  <2>2. ASSUME NEW c \in Caps, NEW off \in Offsets, NEW len \in Lengths,
               NEW v \in Byte \ {CapByte}, NEW junk \in Junk, Write(c, off, len, v, junk)
        PROVE  AssertionsHold'
    <3>1. WriteResult(c, off, len, v, junk).ret # "abort"
      BY <1>0, AlignedWrite
    <3> QED BY <2>2, <3>1 DEF Write, Return, AssertionsHold
  <2>3. ASSUME NEW c \in Caps, NEW off \in Offsets, NEW junk \in Junk, PutCap(c, off, junk)
        PROVE  AssertionsHold'
    <3>1. PutResult(c, off, junk).ret # "abort"
      BY <1>0, AlignedPut
    <3> QED BY <2>3, <3>1 DEF PutCap, Return, AssertionsHold
  <2>4. ASSUME NEW c \in Caps, NEW off \in Offsets, GetCap(c, off) PROVE AssertionsHold'
    <3>1. GetRet(tags, c, off) # "abort"
      BY <1>0, GetInMap
    <3> QED BY <2>4, <3>1 DEF GetCap, Return, AssertionsHold
  <2>5. ASSUME NEW c \in Caps, ZeroStart(c) PROVE AssertionsHold'
    BY <2>5 DEF ZeroStart, Return, AssertionsHold
  <2>6. ASSUME NEW junk \in Junk, ZeroChunk(junk) PROVE AssertionsHold'
    <3> DEFINE len == ChunkLen(call.cap, call.off)
               r == WriteResult(call.cap, call.off, len, Zero, junk)
    <3>1. PICK c \in Caps : c = call.cap
      BY DEF TypeOK
    <3>2. PICK m \in Nat : call.off = m * WordSpan
      BY <1>0, <2>6, <3>1 DEF ZeroChunk, Zeroing, ZeroProgress
    <3>3. r.ret # "abort"
      <4>1. CASE m * WordSpan + WordSpan < c.size
        <5>1. len = WordSpan
          BY <1>0, <3>1, <3>2, <4>1, CapType DEF ChunkLen
        <5>2. "write" \in c.perms
          BY <1>0, <2>6, <3>1 DEF ZeroChunk, Zeroing, ZeroProgress
        <5>3. r = WriteResult(c, m * WordSpan, WordSpan, Zero, junk)
          BY <3>1, <3>2, <5>1
        <5> HIDE DEF r
        <5>4. r.ret = "ok"
          BY <1>0, <4>1, <5>2, <5>3, ChunkWritten
        <5> QED BY <5>4
      <4>2. CASE ~(m * WordSpan + WordSpan < c.size)
        <5>1. call.off + len >= c.size
          BY <1>0, <2>6, <3>1, <3>2, <4>2, CapType DEF ChunkLen
        <5> QED BY <3>1, <5>1 DEF WriteResult
      <4> QED BY <4>1, <4>2
    <3> QED BY <2>6, <3>3 DEF ZeroChunk, Return, AssertionsHold, ChunkLen
  <2>7. CASE ZeroEnd
    BY <2>7 DEF ZeroEnd, Return, AssertionsHold
  <2>8. CASE UNCHANGED vars
    BY <2>8 DEF vars, AssertionsHold
  <2> QED BY <2>1, <2>2, <2>3, <2>4, <2>5, <2>6, <2>7, <2>8 DEF Next
<1>3. Init => ZeroProgress
  BY DEF Init, ZeroProgress
<1>4. TypeOK /\ ZeroProgress /\ [Next]_vars => ZeroProgress'
  BY <1>0, ZeroProgressStep
<1> QED BY <1>1, <1>2, <1>3, <1>4, TypeCorrect, PTL DEF Spec

(* A capability that is stored lies inside the one it was stored through   *)
(* (capfs_backend.h:111) as long as the offset is not negative.            *)
THEOREM StoredInside ==
  ASSUME Offsets \subseteq Nat
  PROVE  Spec => StoredInsideCapability
<1>1. TypeOK /\ [Next]_vars =>
        [call'.op = "put" => \A a \in Addr : mem'[a] # mem[a] => a \in Region(call'.cap)]_vars
  <2> SUFFICES ASSUME TypeOK, Next, call'.op = "put", NEW a \in Addr, mem'[a] # mem[a]
               PROVE  a \in Region(call'.cap)
    OBVIOUS
  <2>1. PICK c \in Caps, off \in Offsets, junk \in Junk : PutCap(c, off, junk)
    <3>1. \A c, off, len, v, junk :
            ~ Read(c, off, len) /\ ~ Write(c, off, len, v, junk) /\ ~ GetCap(c, off)
      BY DEF Read, Write, GetCap, Return
    <3>2. \A c, junk : ~ ZeroStart(c) /\ ~ ZeroChunk(junk) /\ ~ ZeroEnd
      BY DEF ZeroStart, ZeroChunk, ZeroEnd, Return
    <3> QED BY <3>1, <3>2 DEF Next
  <2> DEFINE r == PutResult(c, off, junk)
  <2>2. mem' = r.store.mem /\ call'.cap = c
    BY <2>1 DEF PutCap, Return
  <2>3. off \in Nat /\ off \in Int /\ PtrBytes \in Nat
    BY Sizes
  <2>4. \/ r.store.mem = mem
        \/ /\ off + PtrBytes < c.size
           /\ r.store.mem = Fill(mem, c.base + off, PtrBytes, CapByte)
    BY <2>3, PutOutcome
  <2> HIDE DEF r
  <2>5. off + PtrBytes < c.size /\ c.base + off <= a /\ a < c.base + off + PtrBytes
    BY <2>2, <2>4 DEF Fill
  <2>6. a \in Int
    BY DEF Addr
  <2> QED BY <2>2, <2>3, <2>5, <2>6, CapType DEF Region
<1> QED BY <1>1, TypeCorrect, PTL DEF Spec, StoredInsideCapability

-----------------------------------------------------------------------------
(* No capability is ever loaded: whatever was stored and whatever the map  *)
(* says, get_cap tests the word its caller initialised with zero           *)
(* (files.c:225, :181).  The run capstore_load shows one such call.        *)
THEOREM NothingLoads == Spec => [](call.op = "get" => call.ret # "ok")
<1> DEFINE Inv == call.op = "get" => call.ret # "ok"
<1>1. \A t, c, off : GetRet(t, c, off) # "ok"
  <2>1. \A t, off : ~ IsCapability(t, off)
    BY DEF IsCapability, RawRead
  <2> QED BY <2>1 DEF GetRet
<1>2. Init => Inv
  BY DEF Init
<1>3. Inv /\ [Next]_vars => Inv'
  <2> SUFFICES ASSUME Inv, [Next]_vars PROVE Inv'
    OBVIOUS
  <2>1. \A c, off, len, v, junk :
          /\ Read(c, off, len) => call'.op = "read"
          /\ Write(c, off, len, v, junk) => call'.op = "write"
          /\ PutCap(c, off, junk) => call'.op = "put"
          /\ ZeroStart(c) => call'.op = "zero"
          /\ ZeroChunk(junk) => call'.op = "zero"
          /\ ZeroEnd => call'.op = "zero"
    BY DEF Read, Write, PutCap, ZeroStart, ZeroChunk, ZeroEnd, Return
  <2>2. \A c, off : GetCap(c, off) => call'.ret # "ok"
    BY <1>1 DEF GetCap, Return
  <2>3. CASE UNCHANGED vars
    BY <2>3 DEF vars
  <2> QED BY <2>1, <2>2, <2>3 DEF Next
<1> QED BY <1>2, <1>3, PTL DEF Spec

-----------------------------------------------------------------------------
(* An update from the start of a word that clears tags adds none.          *)
LEMMA AlignedClear ==
  ASSUME NEW map, NEW j \in Nat, NEW to, NEW junk
  PROVE  ClearValidBits(map, j * WordSpan, to, junk).tags \subseteq map
<1> DEFINE a  == WordStart(j)
           pt == PtrTo(to)
           m  == Middle(map, a, pt, "clear")
           t  == Tail(m.tags, m.at, pt, "clear")
<1>1. PtrFrom(j * WordSpan) = a /\ a % WordBits = 0
  BY WordAligned
<1>2. Head(map, a, pt, "clear", junk) = [tags |-> map, at |-> a, ok |-> TRUE]
  BY <1>1 DEF Head
<1>3. ClearValidBits(map, j * WordSpan, to, junk) = t
  BY <1>1, <1>2 DEF ClearValidBits, ValidBits
<1>4. m.tags \subseteq map
  BY DEF Middle, Mark
<1> HIDE DEF m, pt
<1>5. t.tags \subseteq m.tags
  <2>1. RawWrite(m.tags, pt + 1, {}) \subseteq m.tags
    BY DEF RawWrite
  <2>2. Mark(RawRead(m.tags, m.at, {}), 0 .. pt - m.at, "clear") = {}
    BY DEF Mark, RawRead
  <2> QED BY <2>1, <2>2 DEF Tail
<1> HIDE DEF t
<1> QED BY <1>3, <1>4, <1>5

(* The tags of a capability stored at the start of a word are not set: the *)
(* range put_cap passes is empty.                                          *)
LEMMA AlignedSet ==
  ASSUME NEW map \in SUBSET Ptr, NEW j \in Nat, NEW junk
  PROVE  SetValidBits(map, j * WordSpan, j * WordSpan, junk).tags = map
<1> DEFINE a == WordStart(j)
<1>1. /\ PtrFrom(j * WordSpan) = a /\ PtrTo(j * WordSpan) = a
      /\ a \in Nat /\ a % WordBits = 0 /\ WordBits \in Nat \ {0}
  BY WordAligned, Sizes
<1> HIDE DEF a
<1>2. Head(map, a, a, "set", junk) = [tags |-> map, at |-> a, ok |-> TRUE]
  BY <1>1 DEF Head
<1>3. Middle(map, a, a, "set") = [tags |-> map, at |-> a]
  <2>1. WholeWords(a, a) = 0
    BY <1>1 DEF WholeWords
  <2>2. a + WholeWords(a, a) * WordBits = a
    BY <1>1, <2>1
  <2>3. Middle(map, a, a, "set") = [tags |-> Mark(map, a .. a - 1, "set"), at |-> a]
    BY <2>2 DEF Middle
  <2>4. a .. a - 1 = {}
    BY <1>1
  <2> QED BY <2>3, <2>4 DEF Mark
<1>4. Tail(map, a, a, "set") = [tags |-> map, ok |-> TRUE]
  BY <1>1 DEF Tail
<1> QED BY <1>1, <1>2, <1>3, <1>4 DEF SetValidBits, ValidBits

(* The use of the store that is safe (AlignedUseIsSafe) never marks a      *)
(* capability: put_cap returns 0, but neither it nor any other call adds a *)
(* tag to the map, whatever the map held.                                  *)
THEOREM AlignedUseMarksNothing ==
  ASSUME AlignedUse
  PROVE  Spec => [][tags' \subseteq tags]_vars
<1>0. /\ Lengths \subseteq Nat /\ Offsets \subseteq Nat /\ ChunkBytes = WordSpan
      /\ WordSpan \in Nat \ {0}
      /\ \A c \in Caps : c.base % WordSpan = 0
      /\ \A off \in Offsets : off % WordSpan = 0
  BY CapStoreAssumption, Sizes DEF AlignedUse
<1>1. ASSUME NEW c, NEW off, NEW len, NEW v, NEW junk, NEW j \in Nat,
             c.base + off = j * WordSpan
      PROVE  WriteResult(c, off, len, v, junk).store.tags \subseteq tags
  <2> DEFINE r    == WriteResult(c, off, len, v, junk)
             tagd == ClearValidBits(tags, c.base + off, c.base + off + len, junk)
  <2>1. r.store.tags \in {tags, tagd.tags}
    BY DEF WriteResult
  <2>2. tagd.tags \subseteq tags
    BY <1>1, AlignedClear
  <2> HIDE DEF tagd
  <2> QED BY <2>1, <2>2
<1>2. TypeOK /\ ZeroProgress /\ Next => tags' \subseteq tags
  <2> SUFFICES ASSUME TypeOK, ZeroProgress, Next PROVE tags' \subseteq tags
    OBVIOUS
  <2>1. ASSUME NEW c \in Caps, NEW off \in Offsets, NEW len \in Lengths,
               NEW v \in Byte \ {CapByte}, NEW junk \in Junk, Write(c, off, len, v, junk)
        PROVE  tags' \subseteq tags
    <3>1. PICK j \in Nat : c.base + off = j * WordSpan
      BY <1>0, CapType, AlignedSum
    <3> QED BY <1>1, <2>1, <3>1 DEF Write
  <2>2. ASSUME NEW c \in Caps, NEW off \in Offsets, NEW junk \in Junk, PutCap(c, off, junk)
        PROVE  tags' \subseteq tags
    <3> DEFINE r    == PutResult(c, off, junk)
               tagd == SetValidBits(tags, c.base + off, c.base + off, junk)
    <3>1. PICK j \in Nat : c.base + off = j * WordSpan
      BY <1>0, CapType, AlignedSum
    <3>2. tagd.tags = tags
      BY <3>1, AlignedSet DEF TypeOK
    <3>3. r.store.tags \in {tags, tagd.tags}
      BY DEF PutResult
    <3>4. tags' = r.store.tags
      BY <2>2 DEF PutCap
    <3> HIDE DEF r, tagd
    <3> QED BY <3>2, <3>3, <3>4
  <2>3. ASSUME NEW junk \in Junk, ZeroChunk(junk) PROVE tags' \subseteq tags
    <3> DEFINE len == ChunkLen(call.cap, call.off)
               r   == WriteResult(call.cap, call.off, len, Zero, junk)
    <3>1. call.cap \in Caps /\ call.off \in Nat /\ call.off % WordSpan = 0
      <4>1. PICK m \in Nat : call.off = m * WordSpan
        BY <1>0, <2>3 DEF ZeroChunk, Zeroing, ZeroProgress, TypeOK
      <4>2. (m * WordSpan) % WordSpan = 0
        BY <1>0, DivUnique
      <4> QED BY <1>0, <4>1, <4>2 DEF TypeOK
    <3>2. PICK j \in Nat : call.cap.base + call.off = j * WordSpan
      BY <1>0, <3>1, CapType, AlignedSum
    <3>3. r.store.tags \subseteq tags
      BY <1>1, <3>2
    <3>4. tags' = r.store.tags
      BY <2>3 DEF ZeroChunk, ChunkLen
    <3> QED BY <3>3, <3>4
  <2>4. CASE \/ \E c \in Caps, off \in Offsets, len \in Lengths : Read(c, off, len)
             \/ \E c \in Caps, off \in Offsets : GetCap(c, off)
             \/ \E c \in Caps : ZeroStart(c)
             \/ ZeroEnd
    BY <2>4 DEF Read, GetCap, ZeroStart, ZeroEnd
  <2> QED BY <2>1, <2>2, <2>3, <2>4 DEF Next
<1>3. Init => ZeroProgress
  BY DEF Init, ZeroProgress
<1>4. TypeOK /\ ZeroProgress /\ [Next]_vars => ZeroProgress'
  BY <1>0, ZeroProgressStep
<1>5. TypeOK /\ ZeroProgress /\ [Next]_vars => [tags' \subseteq tags]_vars
  BY <1>2
<1> QED BY <1>3, <1>4, <1>5, TypeCorrect, PTL DEF Spec
=============================================================================
