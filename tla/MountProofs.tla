----------------------------- MODULE MountProofs -----------------------------
(***************************************************************************)
(* The safety properties of Mount for stores of every size, whatever the   *)
(* backing file holds at first and however often the daemon is killed.     *)
(***************************************************************************)
EXTENDS Mount, CapTagsProofs

-----------------------------------------------------------------------------
(* The inductive invariant.                                                *)

(* Chunks below n are zero and hold no tag, as the process sees the file.  *)
ZeroedBelow(n) ==
  \A k \in Cleared : k < n => data[k] = "zero" /\ ChunkPtrs(k) \cap tags = {}

(* How far capfs_filesystem_format has come.                               *)
FormatProgress ==
  /\ pc = "zero" => ZeroedBelow(off)
  /\ pc = "zerodata" =>
       off \in Cleared /\ ZeroedBelow(off) /\ ChunkPtrs(off) \cap tags = {}
  /\ pc = "rootdata" => ZeroedBelow(NumWords)
  /\ pc \in {"readback", "rootcheck", "serving"} =>
       /\ data[0] = "root" /\ ChunkPtrs(0) \cap tags = {}
       /\ \A k \in Cleared \ {0} : data[k] = "zero" /\ ChunkPtrs(k) \cap tags = {}
  /\ pc \in {"rootcheck", "serving"} => diskTags = tags /\ diskData = data

(* A chunk that was overwritten holds no tag; a new root block means that  *)
(* all chunks are wiped, an old one that none is.  Both of the file with   *)
(* and without the pending write.                                          *)
Untagged(d, t) ==
  \A k \in Chunk : d[k] \in {"zero", "root"} => ChunkPtrs(k) \cap t = {}
Committed(d) ==
  /\ d[0] = "root" => \A k \in Cleared \ {0} : d[k] = "zero"
  /\ d[0] = "oldroot" => \A k \in Chunk \ {0} : d[k] = "stale"

IInv ==
  /\ TypeOK
  /\ FormatProgress
  /\ Untagged(data, tags) /\ Untagged(diskData, diskTags)
  /\ Committed(data) /\ Committed(diskData)

-----------------------------------------------------------------------------
(* The chunks, and what clearing the tags of one does.                     *)

(* What the indices of chunks are.                                         *)
LEMMA Chunks ==
  /\ Cleared \subseteq Chunk /\ 0 \in Cleared /\ 0 \in Chunk
  /\ \A k \in Chunk : k \in Nat /\ k < NumWords /\ k \in 0 .. NumWords
                      /\ k + 1 \in 0 .. NumWords
  /\ \A k \in Chunk : k \notin Cleared => k = NumWords - 1
  /\ NumWords \in Nat
  BY MountAssumption, Sizes DEF Cleared, Chunk

(* Two chunks share no slot.                                               *)
LEMMA ChunkPtrsDisjoint ==
  ASSUME NEW j \in Chunk, NEW k \in Chunk, j # k
  PROVE  ChunkPtrs(j) \cap ChunkPtrs(k) = {}
<1>1. j \in Int /\ k \in Int /\ WordBits \in Nat
  BY Chunks, Sizes
<1>2. CASE j < k
  <2>1. (j + 1) * WordBits <= k * WordBits
    BY <1>1, <1>2, TimesMonotonic
  <2> QED BY <2>1, <1>1 DEF ChunkPtrs
<1>3. CASE k < j
  <2>1. (k + 1) * WordBits <= j * WordBits
    BY <1>1, <1>3, TimesMonotonic
  <2> QED BY <2>1, <1>1 DEF ChunkPtrs
<1> QED BY <1>1, <1>2, <1>3

(* Zeroing clears the tags of its chunk and of no other.                   *)
LEMMA ClearChunk ==
  ASSUME NEW k \in Chunk, NEW t
  PROVE  ClearValidBits(t, k * ChunkBytes, k * ChunkBytes + ChunkBytes, {}) =
           [tags |-> t \ ChunkPtrs(k), ok |-> TRUE]
<1>1. k * ChunkBytes = k * WordSpan /\ k * ChunkBytes + ChunkBytes = (k + 1) * WordSpan
  BY MountAssumption, Chunks, Sizes
<1>2. ValidBits(t, k * WordSpan, (k + 1) * WordSpan, "clear", {}) =
        [tags |-> Mark(t, WordStart(k) .. WordStart(k + 1) - 1, "clear"), ok |-> TRUE]
  BY Chunks, WholeWordUpdate
<1>3. WordStart(k) .. WordStart(k + 1) - 1 = ChunkPtrs(k)
  <2>1. WordStart(k + 1) = WordStart(k) + WordBits /\ WordStart(k) \in Nat
    BY Chunks, WordAligned
  <2>2. WordStart(k) = k * WordBits
    BY DEF WordStart
  <2> QED BY <2>1, <2>2, Sizes DEF ChunkPtrs
<1> QED BY <1>1, <1>2, <1>3 DEF ClearValidBits, Mark

(* Writing the root block clears the tags of the first chunk and no other. *)
LEMMA ClearRoot ==
  ASSUME NEW t
  PROVE  ClearValidBits(t, 0, RootBytes, {}) = [tags |-> t \ ChunkPtrs(0), ok |-> TRUE]
<1> DEFINE pt == PtrTo(RootBytes)
<1>1. pt \in Nat /\ 1 <= pt /\ pt < WordBits - 1
  <2>1. /\ PtrBytes \in Nat \ {0} /\ RootBytes + PtrBytes - 1 \in Nat
        /\ PtrBytes \in Nat /\ PtrBytes <= RootBytes + PtrBytes - 1
    BY MountAssumption, Sizes
  <2>2. pt \in Nat /\ PtrBytes \div PtrBytes <= pt
    BY <2>1, DivBounds, DivMonotonic DEF PtrTo
  <2>3. PtrBytes \div PtrBytes = 1
    BY <2>1
  <2> QED BY <2>2, <2>3, MountAssumption
<1>2. pt \in 0 .. NumPtrs - 1
  <2>1. 1 * WordBits <= NumWords * WordBits
    BY Sizes, TimesMonotonic
  <2> QED BY <2>1, <1>1, Sizes
<1>3. WordStart(0) = 0 /\ WordStart(0 + 1) = WordBits
      /\ ChunkPtrs(0) = WordStart(0) .. WordStart(0 + 1) - 1 /\ 0 * WordSpan = 0
  BY Sizes DEF WordStart, ChunkPtrs
<1> HIDE DEF pt
<1>4. pt = PtrTo(RootBytes)
  BY DEF pt
<1>5. WordStart(0) <= pt /\ pt < WordStart(0 + 1) - 1 /\ WordStart(0) # pt
  BY <1>1, <1>3, Sizes
<1>6. ClearValidBits(t, 0 * WordSpan, RootBytes, {}) =
        [tags |-> IF WordStart(0) = pt
                  THEN t \ (WordStart(0) .. WordStart(0) - 1)
                  ELSE t \ (WordStart(0) .. WordStart(0 + 1) - 1),
         ok   |-> TRUE]
  BY <1>2, <1>4, <1>5, PrefixClear
<1> QED BY <1>3, <1>5, <1>6

(* The last chunk is the one zeroing does not reach.                       *)
LEMMA WritableChunks ==
  ASSUME NEW k \in Chunk
  PROVE  ChunkWritable(k) <=> k \in Cleared
<1>1. /\ ChunkBytes \in Nat \ {0} /\ k \in Nat
      /\ k * ChunkBytes + ChunkBytes = (k + 1) * ChunkBytes
      /\ DataBytes = NumWords * ChunkBytes
  BY MountAssumption, Chunks, Sizes
<1>2. CASE k \in Cleared
  <2>1. (k + 2) * ChunkBytes <= NumWords * ChunkBytes
    BY <1>1, <1>2, Chunks, TimesMonotonic DEF Cleared
  <2> QED BY <2>1, <1>1, <1>2, Chunks DEF ChunkWritable
<1>3. CASE k \notin Cleared
  BY <1>1, <1>3, Chunks DEF ChunkWritable
<1> QED BY <1>2, <1>3

-----------------------------------------------------------------------------
(* Whatever file is found at first, nothing in it is taken for a format    *)
(* of this daemon.                                                         *)
LEMMA InitInv == Init => IInv
  BY MountAssumption, Chunks DEF Init, IInv, TypeOK, FormatProgress, Untagged,
     Committed, FileSizes, PCs, Content

(* Every step of a mount, an unmount and a crash keep the invariant.       *)
LEMMA StepInv == IInv /\ [Next]_vars => IInv'
<1> SUFFICES ASSUME IInv, [Next]_vars PROVE IInv'
  OBVIOUS
<1> USE DEF IInv
<1>1. CASE OpenStore
  BY <1>1 DEF OpenStore, TypeOK, PCs, FormatProgress, Untagged, Committed
<1>2. CASE CreateStore
  BY <1>2 DEF CreateStore, TypeOK, PCs, FileSizes, FormatProgress, Untagged, Committed
<1>3. CASE GrowStore
  BY <1>3, Chunks DEF GrowStore, TypeOK, PCs, FileSizes, Content, FormatProgress,
     Untagged, Committed
<1>4. CASE CheckSize
  BY <1>4, Chunks DEF CheckSize, TypeOK, PCs, FormatProgress, ZeroedBelow, Untagged,
     Committed, Cleared
<1>5. CASE BadSizePanic
  BY <1>5 DEF BadSizePanic, TypeOK, PCs, FormatProgress, Untagged, Committed
<1>6. CASE ZeroTags
  <2>1. /\ off \in Chunk /\ off \in Cleared /\ pc = "zero" /\ pc' = "zerodata"
        /\ tags' = tags \ ChunkPtrs(off)
    <3>1. off \in Chunk /\ off \in Cleared /\ pc = "zero"
      BY <1>6, WritableChunks DEF ZeroTags
    <3>2. ClearValidBits(tags, off * ChunkBytes, off * ChunkBytes + ChunkBytes, {}) =
            [tags |-> tags \ ChunkPtrs(off), ok |-> TRUE]
      BY <3>1, ClearChunk
    <3> QED BY <1>6, <3>1, <3>2 DEF ZeroTags
  <2>2. /\ data' = data /\ diskTags' = tags /\ diskData' = data
        /\ fsize' = fsize /\ off' = off /\ crashes' = crashes
    BY <1>6 DEF ZeroTags, Flush
  <2>3. TypeOK'
    BY <2>1, <2>2 DEF TypeOK, PCs
  <2>4. FormatProgress'
    BY <2>1, <2>2 DEF FormatProgress, ZeroedBelow
  <2>5. Untagged(data, tags)' /\ Untagged(diskData, diskTags)'
    BY <2>1, <2>2 DEF Untagged
  <2> QED BY <2>2, <2>3, <2>4, <2>5 DEF Committed
<1>7. CASE ZeroData
  <2>1. /\ off \in Cleared /\ off \in Chunk /\ pc = "zerodata" /\ pc' = "zero"
        /\ ZeroedBelow(off) /\ ChunkPtrs(off) \cap tags = {} /\ off' = off + 1
        /\ data' = [data EXCEPT ![off] = "zero"]
    BY <1>7, Chunks DEF ZeroData, FormatProgress
  <2>2. /\ tags' = tags /\ diskTags' = tags /\ diskData' = data
        /\ fsize' = fsize /\ crashes' = crashes
    BY <1>7 DEF ZeroData, Flush
  <2>3. TypeOK'
    BY <2>1, <2>2, Chunks DEF TypeOK, PCs, Content, Chunk
  <2>4. ZeroedBelow(off)'
    BY <2>1, <2>2, Chunks DEF ZeroedBelow, TypeOK
  <2>5. FormatProgress'
    BY <2>1, <2>4 DEF FormatProgress
  <2>6. Untagged(data, tags)' /\ Untagged(diskData, diskTags)'
    BY <2>1, <2>2 DEF Untagged, TypeOK
  <2>7. Committed(data)' /\ Committed(diskData)'
    <3>1. CASE off = 0
      BY <3>1, <2>1, <2>2, Chunks DEF Committed, TypeOK
    <3>2. CASE off # 0
      <4>1. data[0] = "zero" /\ data'[0] = "zero"
        BY <3>2, <2>1, Chunks DEF ZeroedBelow, TypeOK
      <4> QED BY <4>1, <2>2 DEF Committed
    <3> QED BY <3>1, <3>2
  <2> QED BY <2>3, <2>5, <2>6, <2>7
<1>8. CASE ZeroRejected
  <2>1. /\ off \in Chunk /\ off = NumWords - 1 /\ pc = "zero" /\ pc' = "zero"
        /\ off' = off + 1
        /\ UNCHANGED <<fsize, tags, data, diskTags, diskData, crashes>>
    BY <1>8, WritableChunks, Chunks DEF ZeroRejected
  <2>2. TypeOK'
    BY <2>1, Chunks DEF TypeOK
  <2>3. ZeroedBelow(off)'
    BY <2>1, Chunks DEF FormatProgress, ZeroedBelow, Cleared
  <2>4. FormatProgress'
    BY <2>1, <2>3 DEF FormatProgress
  <2> QED BY <2>1, <2>2, <2>4 DEF Untagged, Committed
<1>9. CASE RootTags
  <2>1. /\ pc = "zero" /\ off = NumWords /\ pc' = "rootdata"
        /\ tags' = tags \ ChunkPtrs(0)
    BY <1>9, ClearRoot DEF RootTags
  <2>2. /\ data' = data /\ diskTags' = tags /\ diskData' = data
        /\ fsize' = fsize /\ off' = off /\ crashes' = crashes
    BY <1>9 DEF RootTags, Flush
  <2>3. TypeOK'
    BY <2>1, <2>2 DEF TypeOK, PCs
  <2>4. FormatProgress'
    BY <2>1, <2>2 DEF FormatProgress, ZeroedBelow
  <2>5. Untagged(data, tags)' /\ Untagged(diskData, diskTags)'
    BY <2>1, <2>2 DEF Untagged
  <2> QED BY <2>2, <2>3, <2>4, <2>5 DEF Committed
<1>10. CASE RootData
  <2>1. /\ pc = "rootdata" /\ pc' = "readback" /\ ZeroedBelow(NumWords)
        /\ data' = [data EXCEPT ![0] = "root"]
    BY <1>10 DEF RootData, FormatProgress
  <2>2. /\ tags' = tags /\ diskTags' = tags /\ diskData' = data
        /\ fsize' = fsize /\ off' = off /\ crashes' = crashes
    BY <1>10 DEF RootData, Flush
  <2>3. \A k \in Cleared : data[k] = "zero" /\ ChunkPtrs(k) \cap tags = {}
    BY <2>1, Chunks DEF ZeroedBelow
  <2>4. data'[0] = "root" /\ \A k \in Chunk \ {0} : data'[k] = data[k]
    BY <2>1, Chunks DEF TypeOK
  <2>5. TypeOK'
    BY <2>1, <2>2, Chunks DEF TypeOK, PCs, Content
  <2>6. FormatProgress'
    BY <2>1, <2>2, <2>3, <2>4, Chunks DEF FormatProgress
  <2>7. Untagged(data, tags)' /\ Untagged(diskData, diskTags)'
    BY <2>2, <2>3, <2>4, Chunks DEF Untagged
  <2>8. Committed(data)' /\ Committed(diskData)'
    BY <2>2, <2>3, <2>4, Chunks DEF Committed
  <2> QED BY <2>5, <2>6, <2>7, <2>8
<1>11. CASE ReadBack
  BY <1>11 DEF ReadBack, Flush, TypeOK, PCs, FormatProgress, Untagged, Committed
<1>12. CASE Unmount
  BY <1>12 DEF Unmount, Flush, TypeOK, PCs, FormatProgress, Untagged, Committed
<1>13. CASE Crash
  BY <1>13, MountAssumption DEF Crash, TypeOK, PCs, FormatProgress, Untagged, Committed
<1>14. CASE CheckRoot
  BY <1>14 DEF CheckRoot, TypeOK, PCs, FormatProgress, Untagged, Committed
<1>15. CASE UNCHANGED vars
  BY <1>15 DEF vars, TypeOK, FormatProgress, ZeroedBelow, Untagged, Committed
<1> QED BY <1>1, <1>2, <1>3, <1>4, <1>5, <1>6, <1>7, <1>8, <1>9, <1>10, <1>11, <1>12,
           <1>13, <1>14, <1>15 DEF Next, MountStep

(* IInv holds in every reachable state of a mount, crashes included.       *)
THEOREM Invariant == Spec => []IInv
  BY InitInv, StepInv, PTL DEF Spec

-----------------------------------------------------------------------------
(* All variables have their types in every reachable state.                *)
THEOREM TypeCorrect == Spec => []TypeOK
  BY Invariant, PTL DEF IInv

(* When requests are served the file itself is formatted.                  *)
THEOREM Formatted == Spec => []ServingIsFormatted
<1>1. IInv => ServingIsFormatted
  BY Chunks DEF IInv, FormatProgress, ServingIsFormatted
<1> QED BY <1>1, Invariant, PTL

(* Whenever the process dies, an overwritten chunk of the file holds no tag. *)
THEOREM TagsGoFirst == Spec => []NoTagOverOverwrittenChunk
<1>1. IInv => NoTagOverOverwrittenChunk
  BY DEF IInv, Untagged, NoTagOverOverwrittenChunk
<1> QED BY <1>1, Invariant, PTL

(* A root block in the file is the commit record of a complete format.     *)
THEOREM RootCommits == Spec => []RootBlockCommitsFormat
<1>1. IInv => RootBlockCommitsFormat
  BY DEF IInv, Committed, RootBlockCommitsFormat
<1> QED BY <1>1, Invariant, PTL

-----------------------------------------------------------------------------
(* Progress, as far as it is safety: every step of a mount brings it       *)
(* nearer to serving.                                                      *)

(* With a file of the right size no step of a mount fails, and each leaves *)
(* fewer to take.                                                          *)
LEMMA StepAdvances ==
  ASSUME IInv, MountStep, fsize = "full"
  PROVE  fsize' = "full" /\ MountRank' < MountRank
<1>1. NumWords \in Nat /\ off \in Nat /\ off <= NumWords /\ off \in 0 .. NumWords
  BY Chunks DEF IInv, TypeOK
<1>2. CASE OpenStore
  BY <1>1, <1>2 DEF OpenStore, MountRank
<1>3. CASE GrowStore
  BY <1>1, <1>3 DEF GrowStore, MountRank
<1>4. CASE CheckSize
  BY <1>1, <1>4 DEF CheckSize, MountRank
<1>5. CASE ZeroTags
  <2>1. pc = "zero" /\ off \in Chunk /\ off' = off /\ fsize' = fsize
    BY <1>5 DEF ZeroTags
  <2>2. pc' = "zerodata"
    <3>1. ClearValidBits(tags, off * ChunkBytes, off * ChunkBytes + ChunkBytes, {}) =
            [tags |-> tags \ ChunkPtrs(off), ok |-> TRUE]
      BY <2>1, ClearChunk
    <3> QED BY <1>5, <3>1 DEF ZeroTags
  <2> QED BY <1>1, <2>1, <2>2 DEF MountRank
<1>6. CASE ZeroData
  BY <1>1, <1>6 DEF ZeroData, MountRank
<1>7. CASE ZeroRejected
  BY <1>1, <1>7 DEF ZeroRejected, MountRank
<1>8. CASE RootTags
  <2>1. pc = "zero" /\ off = NumWords /\ off' = off /\ fsize' = fsize /\ pc' = "rootdata"
    BY <1>8, ClearRoot DEF RootTags
  <2> QED BY <1>1, <2>1 DEF MountRank
<1>9. CASE RootData
  BY <1>9 DEF RootData, MountRank
<1>10. CASE ReadBack
  BY <1>10 DEF ReadBack, MountRank
<1>11. CASE CheckRoot
  <2>1. pc = "rootcheck" /\ pc' = "serving" /\ fsize' = fsize
    BY <1>11 DEF CheckRoot, IInv, FormatProgress
  <2> QED BY <2>1 DEF MountRank
<1> QED BY <1>2, <1>3, <1>4, <1>5, <1>6, <1>7, <1>8, <1>9, <1>10, <1>11
        DEF MountStep, CreateStore, BadSizePanic

(* A mount of a file of the right size never panics, aborts or goes back,  *)
(* for any store, file found and number of interrupted mounts.             *)
THEOREM MountsAdvance == Spec => MountAdvances
<1>1. IInv /\ [Next]_vars =>
        [MountStep /\ fsize = "full" => fsize' = "full" /\ MountRank' < MountRank]_vars
  BY StepAdvances
<1> QED BY <1>1, Invariant, PTL DEF Spec, MountAdvances

-----------------------------------------------------------------------------
(* The file as it is found after a crash follows Formatting.               *)

(* An earlier use's first chunk is that of a store not yet wiped.          *)
Unwiped(d) == d[0] \in {"stale", "oldroot"} => \A k \in Chunk : d[k] \in {"stale", "oldroot"}

(* Where the pending write may differ from the file in the first chunk.    *)
Settled ==
  /\ pc \in {"down", "created", "check", "rootcheck", "serving"}
       \/ (pc \in {"zero", "zerodata"} /\ off = 0) => data[0] = diskData[0]
  /\ pc = "readback" => diskData[0] = "zero"
  /\ Unwiped(data) /\ Unwiped(diskData)

(* Found first, no file is wiped.                                          *)
LEMMA InitSettled == Init => Settled
  BY Chunks DEF Init, Settled, Unwiped

(* The two places where the pending write matters: formatting wipes the    *)
(* first chunk before all others, and the write of the root block is the   *)
(* last and reaches the file when the block is read back.                  *)
LEMMA StepSettled == IInv /\ Settled /\ [Next]_vars => Settled'
<1> SUFFICES ASSUME IInv, Settled, [Next]_vars PROVE Settled'
  OBVIOUS
<1> USE DEF Settled
<1>1. CASE OpenStore
  BY <1>1 DEF OpenStore, Unwiped
<1>2. CASE CreateStore
  BY <1>2 DEF CreateStore, Unwiped
<1>3. CASE GrowStore
  BY <1>3, Chunks DEF GrowStore, Unwiped
<1>4. CASE CheckSize
  BY <1>4 DEF CheckSize, Unwiped
<1>5. CASE BadSizePanic
  BY <1>5 DEF BadSizePanic, Unwiped
<1>6. CASE ZeroTags
  <2>1. /\ pc = "zero" /\ pc' = "zerodata" /\ off' = off
        /\ data' = data /\ diskData' = data
    <3>1. pc = "zero" /\ off \in Chunk
      BY <1>6 DEF ZeroTags
    <3>2. ClearValidBits(tags, off * ChunkBytes, off * ChunkBytes + ChunkBytes, {}) =
            [tags |-> tags \ ChunkPtrs(off), ok |-> TRUE]
      BY <3>1, ClearChunk
    <3> QED BY <1>6, <3>1, <3>2 DEF ZeroTags, Flush
  <2> QED BY <2>1 DEF Unwiped
<1>7. CASE ZeroData
  <2>1. /\ pc = "zerodata" /\ pc' = "zero" /\ off' = off + 1 /\ diskData' = data
        /\ data' = [data EXCEPT ![off] = "zero"]
    BY <1>7 DEF ZeroData, Flush
  <2>2. off \in Chunk /\ off' # 0 /\ data \in [Chunk -> Content]
    BY <2>1, Chunks DEF IInv, FormatProgress, TypeOK
  <2>3. data'[0] = "zero"
    BY <2>1, <2>2, Chunks DEF IInv, FormatProgress, ZeroedBelow
  <2> QED BY <2>1, <2>2, <2>3 DEF Unwiped
<1>8. CASE ZeroRejected
  <2>1. /\ pc = "zero" /\ pc' = "zero" /\ off \in Chunk /\ off' = off + 1
        /\ UNCHANGED <<data, diskData>>
    BY <1>8 DEF ZeroRejected
  <2>2. off' # 0
    BY <2>1, Chunks
  <2> QED BY <2>1, <2>2 DEF Unwiped
<1>9. CASE RootTags
  <2>1. /\ pc = "zero" /\ pc' = "rootdata" /\ data' = data /\ diskData' = data
    BY <1>9, ClearRoot DEF RootTags, Flush
  <2> QED BY <2>1 DEF Unwiped
<1>10. CASE RootData
  <2>1. /\ pc = "rootdata" /\ pc' = "readback" /\ diskData' = data
        /\ data' = [data EXCEPT ![0] = "root"]
    BY <1>10 DEF RootData, Flush
  <2>2. data[0] = "zero" /\ data'[0] = "root"
    BY <2>1, Chunks DEF IInv, TypeOK, FormatProgress, ZeroedBelow
  <2> QED BY <2>1, <2>2 DEF Unwiped
<1>11. CASE ReadBack
  <2>1. pc' = "rootcheck" /\ data' = data /\ diskData' = data
    BY <1>11 DEF ReadBack, Flush
  <2> QED BY <2>1 DEF Unwiped
<1>12. CASE Unmount
  BY <1>12 DEF Unmount, Flush, Unwiped
<1>13. CASE Crash
  BY <1>13 DEF Crash, Unwiped
<1>14. CASE CheckRoot
  BY <1>14 DEF CheckRoot, Unwiped
<1>15. CASE UNCHANGED vars
  BY <1>15 DEF vars, Unwiped
<1> QED BY <1>1, <1>2, <1>3, <1>4, <1>5, <1>6, <1>7, <1>8, <1>9, <1>10, <1>11, <1>12,
           <1>13, <1>14, <1>15 DEF Next, MountStep

(* Settled holds in every reachable state.                                 *)
THEOREM AlwaysSettled == Spec => []Settled
  BY Invariant, InitSettled, StepSettled, PTL DEF Spec

(* What is found in the file is known by its first chunk: the image is     *)
(* never torn.                                                             *)
RootImage ==
  CASE diskData[0] = "root" -> "formatted"
    [] diskData[0] = "zero" -> "wiped"
    [] OTHER                -> "old"

(* In every reachable state that is the image.                             *)
LEMMA ImageByRoot == IInv /\ Settled => Image = RootImage
<1> SUFFICES ASSUME IInv, Settled PROVE Image = RootImage
  OBVIOUS
<1>1. /\ diskData \in [Chunk -> Content]
      /\ Untagged(diskData, diskTags) /\ Committed(diskData) /\ Unwiped(diskData)
  BY DEF IInv, TypeOK, Settled
<1>2. CASE diskData[0] = "root"
  BY <1>1, <1>2, Chunks DEF Image, RootImage, Untagged, Committed
<1>3. CASE diskData[0] = "zero"
  BY <1>3, Chunks DEF Image, RootImage
<1>4. CASE diskData[0] \in {"stale", "oldroot"}
  BY <1>1, <1>4 DEF Image, RootImage, Unwiped
<1> QED BY <1>1, <1>2, <1>3, <1>4, Chunks DEF Content

(* A file of an earlier use, before any mount.                             *)
LEMMA InitFormats == Init => Atomic!Init
  BY Chunks DEF Init, Atomic!Init, Image, Phase

(* What each step of a mount does to the first chunk of the file, and to   *)
(* how far the mount is, tells which step of Formatting it is, if any.     *)
LEMMA NextFormats ==
  ASSUME IInv, Settled, [Next]_vars, Image = RootImage, Image' = RootImage'
  PROVE  [Atomic!Next]_<<Image, Phase>>
<1> DEFINE still   == diskData'[0] = diskData[0]
           wipes   == /\ Phase = "formatting" /\ Phase' = "formatting"
                      /\ diskData'[0] = "zero"
           stutter == Phase' = Phase /\ still
           formats == /\ Phase = "formatting" /\ Phase' = "formatted"
                      /\ diskData[0] = "zero" /\ diskData'[0] = "root"
           serves  == Phase = "formatted" /\ Phase' = "serving" /\ still
           stops   == Phase # "formatting" /\ Phase' = "formatting" /\ still
<1> SUFFICES wipes \/ stutter \/ formats \/ serves \/ stops
  <2>1. wipes => Atomic!Wipe
    BY DEF Atomic!Wipe, RootImage
  <2>2. formats => Atomic!Format
    BY DEF Atomic!Format, RootImage
  <2>3. serves => Atomic!Serve
    BY DEF Atomic!Serve, RootImage
  <2>4. stops => Atomic!Stop
    BY DEF Atomic!Stop, RootImage
  <2>5. stutter => UNCHANGED <<Image, Phase>>
    BY DEF RootImage
  <2> QED BY <2>1, <2>2, <2>3, <2>4, <2>5 DEF Atomic!Next
<1>1. CASE OpenStore \/ CreateStore \/ CheckSize \/ BadSizePanic \/ ZeroRejected
  <2>1. stutter
    BY <1>1 DEF OpenStore, CreateStore, CheckSize, BadSizePanic, ZeroRejected, Phase
  <2> QED BY <2>1
<1>2. CASE GrowStore
  <2>1. wipes
    BY <1>2, Chunks DEF GrowStore, Phase
  <2> QED BY <2>1
<1>3. CASE ZeroTags \/ ZeroData
  <2>1. /\ pc \in {"zero", "zerodata"} /\ pc' \in {"zero", "zerodata", "down"}
        /\ diskData' = data
    <3>1. CASE ZeroTags
      BY <3>1 DEF ZeroTags, Flush
    <3>2. CASE ZeroData
      BY <3>2 DEF ZeroData, Flush
    <3> QED BY <1>3, <3>1, <3>2
  <2>2. Phase = "formatting" /\ Phase' = "formatting"
    BY <2>1 DEF Phase
  <2>3. pc \in {"zero", "zerodata"} /\ off \in Chunk /\ ZeroedBelow(off)
    BY <1>3, Chunks DEF ZeroTags, ZeroData, IInv, FormatProgress
  <2>4. CASE off = 0
    BY <2>1, <2>2, <2>3, <2>4 DEF Settled
  <2>5. CASE off # 0
    BY <2>1, <2>2, <2>3, <2>5, Chunks DEF ZeroedBelow
  <2> QED BY <2>4, <2>5
<1>4. CASE RootTags
  <2>1. /\ pc = "zero" /\ pc' \in {"rootdata", "down"}
        /\ diskData' = data /\ ZeroedBelow(NumWords)
    BY <1>4, Chunks DEF RootTags, Flush, IInv, FormatProgress
  <2>2. wipes
    BY <2>1, Chunks DEF ZeroedBelow, Phase
  <2> QED BY <2>2
<1>5. CASE RootData
  <2>1. pc = "rootdata" /\ pc' = "readback" /\ diskData' = data /\ ZeroedBelow(NumWords)
    BY <1>5 DEF RootData, Flush, IInv, FormatProgress
  <2>2. wipes
    BY <2>1, Chunks DEF ZeroedBelow, Phase
  <2> QED BY <2>2
<1>6. CASE ReadBack
  <2>1. /\ pc = "readback" /\ pc' = "rootcheck" /\ diskData' = data
        /\ data[0] = "root" /\ diskData[0] = "zero"
    BY <1>6 DEF ReadBack, Flush, IInv, FormatProgress, Settled
  <2>2. formats
    BY <2>1 DEF Phase
  <2> QED BY <2>2
<1>7. CASE CheckRoot
  <2>1. pc = "rootcheck" /\ pc' = "serving" /\ diskData' = diskData
    BY <1>7 DEF CheckRoot, IInv, FormatProgress
  <2>2. serves
    BY <2>1 DEF Phase
  <2> QED BY <2>2
<1>8. CASE Unmount
  <2>1. stops
    BY <1>8 DEF Unmount, Flush, Settled, Phase
  <2> QED BY <2>1
<1>9. CASE Crash
  <2>1. Phase' = "formatting" /\ diskData' = diskData
    BY <1>9 DEF Crash, Phase
  <2>2. stutter \/ stops
    BY <2>1
  <2> QED BY <2>2
<1>10. CASE UNCHANGED vars
  <2>1. stutter
    BY <1>10 DEF vars, Phase
  <2> QED BY <2>1
<1> QED BY <1>1, <1>2, <1>3, <1>4, <1>5, <1>6, <1>7, <1>8, <1>9, <1>10 DEF Next, MountStep

(* On the file, mounts interrupted anywhere are the steps of Formatting:   *)
(* the image of an earlier use is wiped, root block first; a wiped image   *)
(* becomes a formatted one in the single write that is flushed when the    *)
(* root block is read back; a mount serves only after that, and may die    *)
(* before it does.  For stores of every size, whatever is found.           *)
THEOREM FormatIsAtomic == Spec => ImplementsFormatting
<1>1. IInv /\ Settled /\ [Next]_vars /\ Image = RootImage /\ (Image = RootImage)'
        => [Atomic!Next]_<<Image, Phase>>
  BY NextFormats
<1> QED BY <1>1, Invariant, AlwaysSettled, ImageByRoot, InitFormats, PTL
        DEF Spec, ImplementsFormatting, Atomic!Spec, Atomic!vars
=============================================================================
