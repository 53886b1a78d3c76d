------------------------------ MODULE CapStore ------------------------------
(***************************************************************************)
(* The capability store of the files backend (src/src/backends/files.c):   *)
(* the calls of capfs_backend.h that read, write and zero the memory of a  *)
(* capability and that store and load capabilities in it.                  *)
(*                                                                         *)
(* One call runs at a time (the daemon run with -s, as tools/remount.sh    *)
(* starts it).  Every call but capfs_backend_zero is one step; zero is a   *)
(* loop of calls of capfs_backend_write and takes one step for each.       *)
(*                                                                         *)
(* offset + bytes is unsigned 64-bit arithmetic in the code.  Offsets and  *)
(* sizes here stay far below 2^64, so only a negative off_t wraps, to a    *)
(* value above every size: Exceeds is the unsigned comparison x >= limit.  *)
(***************************************************************************)
EXTENDS CapTags

CONSTANTS
  Caps,          (* capabilities clients hold: [base, size, perms]         *)
  Offsets,       (* values of the off_t argument                           *)
  Lengths,       (* values of the bytes argument                           *)
  ChunkBytes,    (* sizeof(zero), 256 in the build                         *)
  Byte, Zero, CapByte,  (* byte values; CapByte is one of a capability     *)
  InitialStores, (* contents the backing file may have: [mem, tags]        *)
  Junk,          (* words an uninitialised uint32_t may hold               *)
  MaxCalls       (* bound on the number of calls                           *)

Store == [mem : [Addr -> Byte], tags : SUBSET Ptr]

ASSUME CapStoreAssumption ==
  /\ Caps \subseteq [base : Nat, size : Nat \ {0}, perms : SUBSET {"read", "write"}]
  /\ Caps # {} /\ \A c \in Caps : c.base + c.size <= DataBytes
  /\ Offsets \subseteq Int
  /\ Lengths \subseteq Nat
  /\ ChunkBytes \in Nat \ {0}
  /\ Zero \in Byte /\ CapByte \in Byte
  /\ InitialStores \subseteq Store
  /\ Junk \subseteq SUBSET Bit /\ Junk # {}
  /\ MaxCalls \in Nat

VARIABLES
  mem,    (* the data region of the backing file                           *)
  tags,   (* the tag map, see CapTags                                      *)
  call,   (* the running or last call: its arguments and its result        *)
  calls   (* how many calls were made (bound)                              *)

vars == <<mem, tags, call, calls>>

Ops  == {"none", "read", "write", "zero", "put", "get"}
Rets == {"ok", "fail", "eacces", "running", "abort"}

Region(c) == c.base .. c.base + c.size - 1
Exceeds(x, limit) == x < 0 \/ x >= limit

(* A step may start a call: none is running and the daemon is alive.       *)
Ready == call.ret \notin {"running", "abort"} /\ calls < MaxCalls

Return(op, c, off, len, ret) ==
  call' = [op |-> op, cap |-> c, off |-> off, len |-> len, ret |-> ret]

Fill(m, from, len, v) ==
  [a \in Addr |-> IF from <= a /\ a < from + len THEN v ELSE m[a]]

-----------------------------------------------------------------------------
(* capfs_backend_read *)
ReadRet(c, off, len) ==
  CASE "read" \notin c.perms -> "eacces"
    [] "read" \in c.perms /\ (off < 0 \/ off + len >= c.size) -> "fail"
    [] OTHER -> IF c.base + off + len >= DataBytes THEN "fail" ELSE "ok"

(* Mutant of WriteResult: the tags are cleared before the bounds are       *)
(* checked.                                                                *)
WriteResultTagsFirst(c, off, len, v, junk) ==
  LET at   == c.base + off
      tagd == ClearValidBits(tags, at, at + len, junk)
      ret  == CASE "write" \notin c.perms -> "eacces"
                [] "write" \in c.perms /\ off >= 0 /\ ~tagd.ok -> "abort"
                [] OTHER -> IF off < 0 \/ off + len >= c.size \/ at + len >= DataBytes
                            THEN "fail" ELSE "ok"
  IN  [store |-> [mem  |-> IF ret = "ok" THEN Fill(mem, at, len, v) ELSE mem,
                  tags |-> IF ret = "eacces" THEN tags ELSE tagd.tags],
       ret   |-> ret]

(***************************************************************************)
(* capfs_backend_write as a function of the store before the call.  The    *)
(* tags of the range are cleared before the bytes are written, so a        *)
(* rejected write changes nothing and an aborted one no byte.              *)
(***************************************************************************)
WriteResult(c, off, len, v, junk) ==
  LET at   == c.base + off
      tagd == ClearValidBits(tags, at, at + len, junk)
      keep == [mem |-> mem, tags |-> tags]
  IN  CASE "write" \notin c.perms -> [store |-> keep, ret |-> "eacces"]
        [] "write" \in c.perms /\ (off < 0 \/ off + len >= c.size) ->
             [store |-> keep, ret |-> "fail"]
        [] OTHER ->
             IF ~tagd.ok
             THEN [store |-> [mem |-> mem, tags |-> tagd.tags], ret |-> "abort"]
             ELSE IF at + len >= DataBytes
             THEN [store |-> [mem |-> mem, tags |-> tagd.tags], ret |-> "fail"]
             ELSE [store |-> [mem |-> Fill(mem, at, len, v), tags |-> tagd.tags],
                   ret |-> "ok"]

(* Mutant of PutResult: the tag set is that of the offset, as the one that *)
(* get_cap looks up.                                                       *)
PutResultAtOffset(c, off, junk) ==
  LET at   == c.base + off
      tagd == SetValidBits(tags, off, off, junk)
      keep == [mem |-> mem, tags |-> tags]
  IN  CASE "write" \notin c.perms -> [store |-> keep, ret |-> "eacces"]
        [] "write" \in c.perms /\ (Exceeds(off + PtrBytes, c.size) \/ at < 0
                                    \/ at + PtrBytes >= DataBytes) ->
             [store |-> keep, ret |-> "fail"]
        [] OTHER -> [store |-> [mem  |-> Fill(mem, at, PtrBytes, CapByte),
                                tags |-> tagd.tags],
                     ret |-> IF tagd.ok THEN "ok" ELSE "abort"]

(* capfs_backend_put_cap: the capability is stored before its tag is set.  *)
(* An address below the start of the store (a negative off_t in a          *)
(* capability that starts there) trips the first assertion of the tag      *)
(* update while the bytes are still in the stdio buffer.                   *)
PutResult(c, off, junk) ==
  LET at   == c.base + off
      tagd == SetValidBits(tags, at, at, junk)
      keep == [mem |-> mem, tags |-> tags]
  IN  CASE "write" \notin c.perms -> [store |-> keep, ret |-> "eacces"]
        [] "write" \in c.perms /\ Exceeds(off + PtrBytes, c.size) ->
             [store |-> keep, ret |-> "fail"]
        [] OTHER ->
             IF at < 0
             THEN [store |-> keep, ret |-> "abort"]
             ELSE IF at + PtrBytes >= DataBytes
             THEN [store |-> keep, ret |-> "fail"]
             ELSE [store |-> [mem  |-> Fill(mem, at, PtrBytes, CapByte),
                              tags |-> tagd.tags],
                   ret |-> IF tagd.ok THEN "ok" ELSE "abort"]

(* capfs_backend_get_cap; the tag looked up is that of the offset, not of  *)
(* c.base + off, and the lookup asserts that its slot is in the map.       *)
GetRet(t, c, off) ==
  CASE "read" \notin c.perms -> "eacces"
    [] "read" \in c.perms /\ Exceeds(off + PtrBytes, c.size) -> "fail"
    [] OTHER ->
         IF PtrAligned(off) /\ ~InMap(PtrFrom(off)) THEN "abort"
         ELSE IF ~IsCapability(t, off) THEN "eacces"
         ELSE IF c.base + off + PtrBytes >= DataBytes THEN "fail" ELSE "ok"

-----------------------------------------------------------------------------
Init ==
  /\ \E s \in InitialStores : mem = s.mem /\ tags = s.tags
  /\ call = [op |-> "none", cap |-> CHOOSE c \in Caps : TRUE,
             off |-> 0, len |-> 0, ret |-> "ok"]
  /\ calls = 0

Read(c, off, len) ==
  /\ Ready
  /\ Return("read", c, off, len, ReadRet(c, off, len))
  /\ calls' = calls + 1
  /\ UNCHANGED <<mem, tags>>

Write(c, off, len, v, junk) ==
  LET r == WriteResult(c, off, len, v, junk) IN
  /\ Ready
  /\ mem' = r.store.mem /\ tags' = r.store.tags
  /\ Return("write", c, off, len, r.ret)
  /\ calls' = calls + 1

PutCap(c, off, junk) ==
  LET r == PutResult(c, off, junk) IN
  /\ Ready
  /\ mem' = r.store.mem /\ tags' = r.store.tags
  /\ Return("put", c, off, PtrBytes, r.ret)
  /\ calls' = calls + 1

GetCap(c, off) ==
  /\ Ready
  /\ Return("get", c, off, PtrBytes, GetRet(tags, c, off))
  /\ calls' = calls + 1
  /\ UNCHANGED <<mem, tags>>

(* capfs_backend_zero: the permission check, then the loop.                *)
ZeroStart(c) ==
  /\ Ready
  /\ Return("zero", c, 0, 0, IF "write" \in c.perms THEN "running" ELSE "eacces")
  /\ calls' = calls + 1
  /\ UNCHANGED <<mem, tags>>

Zeroing == call.op = "zero" /\ call.ret = "running"

(* One iteration; what capfs_backend_write returns is ignored.             *)
ZeroChunk(junk) ==
  LET c   == call.cap
      len == IF c.size > call.off + ChunkBytes THEN ChunkBytes ELSE c.size - call.off
      r   == WriteResult(c, call.off, len, Zero, junk)
  IN  /\ Zeroing /\ call.off < c.size
      /\ mem' = r.store.mem /\ tags' = r.store.tags
      /\ Return("zero", c, call.off + ChunkBytes, 0,
                IF r.ret = "abort" THEN "abort" ELSE "running")
      /\ UNCHANGED calls

ZeroEnd ==
  /\ Zeroing /\ call.off >= call.cap.size
  /\ Return("zero", call.cap, call.off, 0, "ok")
  /\ UNCHANGED <<mem, tags, calls>>

Next ==
  \/ \E c \in Caps, off \in Offsets, len \in Lengths : Read(c, off, len)
  \/ \E c \in Caps, off \in Offsets, len \in Lengths, v \in Byte \ {CapByte}, junk \in Junk :
        Write(c, off, len, v, junk)
  \/ \E c \in Caps, off \in Offsets, junk \in Junk : PutCap(c, off, junk)
  \/ \E c \in Caps, off \in Offsets : GetCap(c, off)
  \/ \E c \in Caps : ZeroStart(c)
  \/ \E junk \in Junk : ZeroChunk(junk)
  \/ ZeroEnd

Spec == Init /\ [][Next]_vars

-----------------------------------------------------------------------------
(***************************************************************************)
(* Properties                                                              *)
(***************************************************************************)

(* The store, the call record and the call counter have their types.       *)
TypeOK ==
  /\ mem \in [Addr -> Byte]
  /\ tags \subseteq Ptr
  /\ call \in [op : Ops, cap : Caps, off : Int, len : Nat, ret : Rets]
  /\ calls \in 0 .. MaxCalls

Memory == INSTANCE CapMemory
            WITH Memory <- Addr, Value <- Byte, Blank <- Zero, reply <- call

(* Every call keeps the promise of CapMemory: a refused call leaves bytes  *)
(* and tags alone (the tags of a range are cleared only after all checks   *)
(* of capfs_backend_write passed), an accepted one changes exactly the     *)
(* bytes it names, inside the region of a writable capability.             *)
ImplementsCapMemory == Memory!Spec

(* A write, a put and an iteration of zero change tags near the bytes they *)
(* are about only: in the words of the map from the one their range starts *)
(* in to the one of the slot after its end.  Tags of capabilities stored   *)
(* further away survive every call, the ones that are refused or aborted   *)
(* half-way and the ones with a negative offset included.                  *)
TagsChangeNearby ==
  [][LET zero == call'.op = "zero"
         at   == call'.cap.base + IF zero THEN call.off ELSE call'.off
         len  == IF zero THEN ChunkBytes ELSE call'.len
     IN  (tags \ tags') \cup (tags' \ tags) \subseteq TagReach(at, at + len)]_vars

(* The bytes of the full chunks zero reaches: all but the last chunk.      *)
Scrubbed(c) ==
  { a \in Region(c) : \E k \in 0 .. c.size \div ChunkBytes :
      /\ k * ChunkBytes + ChunkBytes < c.size
      /\ a \in c.base + k * ChunkBytes .. c.base + k * ChunkBytes + ChunkBytes - 1 }

(* After capfs_backend_zero returned 0 for a capability that starts on a   *)
(* word of the tag map, all its memory but the last chunk is zero and no   *)
(* slot of that part is still marked as a capability: a call of many       *)
(* writes, each of which clears a tag word and then a chunk.               *)
ZeroReachesAllButLastChunk ==
  call.op = "zero" /\ call.ret = "ok" /\ call.cap.base % WordSpan = 0 =>
    \A a \in Scrubbed(call.cap) : mem[a] = Zero /\ PtrFrom(a) \notin tags

-----------------------------------------------------------------------------
(***************************************************************************)
(* What the comments and assertions of the code say and the code does not  *)
(* do; each is checked by a run of its own.                                *)
(***************************************************************************)

(* capfs_backend.h:205, files.c:669: "zeroes the entire capability".       *)
ZeroZeroesEntireCapability ==
  call.op = "zero" /\ call.ret = "ok" =>
    \A a \in Region(call.cap) : mem[a] = Zero

(* capfs_backend.h:99 "loads a capability inside another capability" and   *)
(* :111 "stores a capability inside another capability": a capability just *)
(* stored can be loaded from the same place.                               *)
StoredCapabilityLoads ==
  call.op = "put" /\ call.ret = "ok" /\ "read" \in call.cap.perms =>
    GetRet(tags, call.cap, call.off) = "ok"

(* capfs_backend.h:111: the capability is stored inside the other one.     *)
StoredInsideCapability ==
  [][call'.op = "put" =>
       \A a \in Addr : mem'[a] # mem[a] => a \in Region(call'.cap)]_vars

(* files.c:250 assert((ptr_from % 32) == 0), files.c:190 and :171: no call *)
(* trips an assertion of the tag update.                                   *)
AssertionsHold == call.ret # "abort"
=============================================================================
