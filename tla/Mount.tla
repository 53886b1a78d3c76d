-------------------------------- MODULE Mount --------------------------------
(***************************************************************************)
(* Mounting: capfs_op_init, which opens or creates the backing file        *)
(* (capfs_backend_init), formats it (capfs_filesystem_format) and checks   *)
(* the root block it reads back (capfs_filesystem_init), interrupted at    *)
(* any point by the end of the process, and started again.                 *)
(*                                                                         *)
(* Every access to the file is an fseek followed by an fread or fwrite.    *)
(* The fseek hands the bytes of the previous fwrite to the kernel, the     *)
(* fwrite leaves its own in the stdio buffer, so one write is pending at a *)
(* time and is lost when the process is killed or aborts.  tags and data   *)
(* are the file as the process sees it, diskTags and diskData the file     *)
(* without the pending write.  A step that writes flushes first.           *)
(*                                                                         *)
(* Data is kept per chunk of the zero loop: whatever an earlier use of the *)
(* file left ("stale"), a root block an earlier use left ("oldroot"),      *)
(* zeros, or the root block followed by zeros.                             *)
(***************************************************************************)
EXTENDS CapTags

CONSTANTS
  ChunkBytes,   (* sizeof(zero), 256 in the build                          *)
  RootBytes,    (* sizeof(struct capfs_file), 184 in the build             *)
  InitialFiles, (* sizes the backing file may have at first                *)
  InitialTags,  (* tag maps it may hold                                    *)
  MaxCrashes    (* bound on how often the process is killed                *)

FileSizes == {"absent", "short", "full"}

(* 256 = 8 * 32; 184 bytes are 23 slots, less than the 31 first of a word. *)
ASSUME MountAssumption ==
  /\ NumWords >= 2
  /\ ChunkBytes = WordSpan
  /\ RootBytes \in 1 .. DataBytes
  /\ PtrTo(RootBytes) < WordBits - 1
  /\ InitialFiles \subseteq FileSizes
  /\ InitialTags \subseteq SUBSET Ptr
  /\ MaxCrashes \in Nat

Chunk   == 0 .. NumWords - 1
Content == {"stale", "oldroot", "zero", "root"}

VARIABLES
  fsize,     (* the backing file: absent, of size 0, of the right size     *)
  tags, data, diskTags, diskData,
  pc,        (* where capfs_op_init is                                     *)
  off,       (* chunk the zero loop is at                                  *)
  crashes    (* how often the process was killed (bound)                   *)

vars == <<fsize, tags, data, diskTags, diskData, pc, off, crashes>>

PCs == {"down", "created", "check", "zero", "zerodata", "rootdata", "readback",
        "rootcheck", "serving"}

(* fseek: the pending write reaches the file. *)
Flush == diskTags' = tags /\ diskData' = data

-----------------------------------------------------------------------------
Init ==
  /\ fsize \in InitialFiles
  /\ diskTags \in InitialTags
  /\ \E first \in {"stale", "oldroot"} :
        diskData = [k \in Chunk |-> IF k = 0 THEN first ELSE "stale"]
  /\ tags = diskTags /\ data = diskData
  /\ pc = "down" /\ off = 0 /\ crashes = 0

(* fopen(BACKEND_FILES_PATH, "r+b") *)
OpenStore ==
  /\ pc = "down" /\ fsize # "absent"
  /\ pc' = "check"
  /\ UNCHANGED <<fsize, tags, data, diskTags, diskData, off, crashes>>

(* fopen(BACKEND_FILES_PATH, "w+b"): the file now exists and is empty. *)
CreateStore ==
  /\ pc = "down" /\ fsize = "absent"
  /\ fsize' = "short" /\ pc' = "created"
  /\ UNCHANGED <<tags, data, diskTags, diskData, off, crashes>>

(* truncate: a file of the right size, all zeros. *)
GrowStore ==
  /\ pc = "created"
  /\ fsize' = "full" /\ pc' = "check"
  /\ diskTags' = {} /\ tags' = {}
  /\ diskData' = [k \in Chunk |-> "zero"] /\ data' = diskData'
  /\ UNCHANGED <<off, crashes>>

(* The size found with ftell is the expected one ... *)
CheckSize ==
  /\ pc = "check" /\ fsize = "full"
  /\ pc' = "zero" /\ off' = 0
  /\ UNCHANGED <<fsize, tags, data, diskTags, diskData, crashes>>

(* ... or the daemon exits. *)
BadSizePanic ==
  /\ pc = "check" /\ fsize # "full"
  /\ pc' = "down"
  /\ UNCHANGED <<fsize, tags, data, diskTags, diskData, off, crashes>>

-----------------------------------------------------------------------------
(* Mutant of ChunkWritable: the bounds check excludes a chunk too many.    *)
ChunkWritableShort(k) == k * ChunkBytes + 2 * ChunkBytes < DataBytes

(* capfs_backend_zero(root): the bounds check of capfs_backend_write on a  *)
(* full chunk; the last chunk of the capability never passes it.           *)
ChunkWritable(k) == k * ChunkBytes + ChunkBytes < DataBytes

(* Mutant of ZeroTags: the chunk is overwritten, its tags are kept. *)
ZeroTagsKept ==
  /\ pc = "zero" /\ off \in Chunk /\ ChunkWritable(off)
  /\ Flush
  /\ pc' = "zerodata"
  /\ UNCHANGED <<fsize, tags, data, off, crashes>>

(* Clearing tags first; an assertion that fails would end the process.     *)
ZeroTags ==
  LET r == ClearValidBits(tags, off * ChunkBytes, off * ChunkBytes + ChunkBytes, {})
  IN  /\ pc = "zero" /\ off \in Chunk /\ ChunkWritable(off)
      /\ Flush
      /\ tags' = r.tags
      /\ pc' = IF r.ok THEN "zerodata" ELSE "down"
      /\ UNCHANGED <<fsize, data, off, crashes>>

(* Mutant of ZeroData: the loop wipes from the end of the store.           *)
ZeroDataBackwards ==
  /\ pc = "zerodata"
  /\ Flush
  /\ data' = [data EXCEPT ![NumWords - 2 - off] = "zero"]
  /\ off' = off + 1 /\ pc' = "zero"
  /\ UNCHANGED <<fsize, tags, crashes>>

ZeroData ==
  /\ pc = "zerodata"
  /\ Flush
  /\ data' = [data EXCEPT ![off] = "zero"]
  /\ off' = off + 1 /\ pc' = "zero"
  /\ UNCHANGED <<fsize, tags, crashes>>

(* Mutants of ZeroRejected: a chunk too many, and a chunk tried for ever. *)
ZeroRejectedPastEnd ==
  /\ pc = "zero" /\ off \in 0 .. NumWords /\ ~ChunkWritable(off)
  /\ off' = off + 1
  /\ UNCHANGED <<fsize, tags, data, diskTags, diskData, pc, crashes>>
ZeroRejectedRetried ==
  /\ pc = "zero" /\ off \in Chunk /\ ~ChunkWritable(off)
  /\ UNCHANGED vars

(* capfs_backend_write returns -1, capfs_backend_zero goes on. *)
ZeroRejected ==
  /\ pc = "zero" /\ off \in Chunk /\ ~ChunkWritable(off)
  /\ off' = off + 1
  /\ UNCHANGED <<fsize, tags, data, diskTags, diskData, pc, crashes>>

-----------------------------------------------------------------------------
(* Mutant of RootTags: the root block is written before the last chunk     *)
(* zeroing reaches is wiped.                                               *)
RootTagsEarly ==
  /\ pc = "zero" /\ off = NumWords - 2
  /\ Flush
  /\ tags' = ClearValidBits(tags, 0, RootBytes, {}).tags
  /\ pc' = "rootdata"
  /\ UNCHANGED <<fsize, data, off, crashes>>

(* capfs_filesystem_format writes the root block: tags, then data. *)
RootTags ==
  LET r == ClearValidBits(tags, 0, RootBytes, {})
  IN  /\ pc = "zero" /\ off = NumWords
      /\ Flush
      /\ tags' = r.tags
      /\ pc' = IF r.ok THEN "rootdata" ELSE "down"
      /\ UNCHANGED <<fsize, data, off, crashes>>

(* Mutant of RootData: the magic of the root block is not filled in.       *)
RootDataBlank ==
  /\ pc = "rootdata"
  /\ Flush
  /\ data' = [data EXCEPT ![0] = "zero"]
  /\ pc' = "readback"
  /\ UNCHANGED <<fsize, tags, off, crashes>>

RootData ==
  /\ pc = "rootdata"
  /\ Flush
  /\ data' = [data EXCEPT ![0] = "root"]
  /\ pc' = "readback"
  /\ UNCHANGED <<fsize, tags, off, crashes>>

(* capfs_filesystem_init reads the block back: the fseek of that read is   *)
(* what puts the root block into the file, before anything is served.      *)
ReadBack ==
  /\ pc = "readback"
  /\ Flush
  /\ pc' = "rootcheck"
  /\ UNCHANGED <<fsize, tags, data, off, crashes>>

(* It checks magic, header and name of what was read; capfs_op_init panics *)
(* when they are wrong, else it returns and requests are served.           *)
CheckRoot ==
  /\ pc = "rootcheck"
  /\ pc' = IF data[0] \in {"root", "oldroot"} THEN "serving" ELSE "down"
  /\ UNCHANGED <<fsize, tags, data, diskTags, diskData, off, crashes>>

(* fusermount -u: capfs_backend_destroy does nothing, exit flushes stdio. *)
Unmount ==
  /\ pc = "serving"
  /\ Flush
  /\ pc' = "down"
  /\ UNCHANGED <<fsize, tags, data, off, crashes>>

(* The process is killed, or truncate fails and it exits: the pending      *)
(* write is lost.                                                          *)
Crash ==
  /\ pc # "down" /\ crashes < MaxCrashes
  /\ tags' = diskTags /\ data' = diskData
  /\ pc' = "down" /\ crashes' = crashes + 1
  /\ UNCHANGED <<fsize, diskTags, diskData, off>>

MountStep ==
  \/ OpenStore \/ CreateStore \/ GrowStore \/ CheckSize \/ BadSizePanic
  \/ ZeroTags \/ ZeroData \/ ZeroRejected
  \/ RootTags \/ RootData \/ ReadBack \/ CheckRoot

Next == MountStep \/ Unmount \/ Crash

Spec == Init /\ [][Next]_vars

(* capfs_op_init is straight-line code and the daemon is started again     *)
(* whenever it is down; being killed and being unmounted are never due.    *)
FairSpec == Spec /\ WF_vars(MountStep)

-----------------------------------------------------------------------------
(***************************************************************************)
(* Properties                                                              *)
(***************************************************************************)

(* All variables have their types. *)
TypeOK ==
  /\ fsize \in FileSizes
  /\ tags \in SUBSET Ptr /\ diskTags \in SUBSET Ptr
  /\ data \in [Chunk -> Content] /\ diskData \in [Chunk -> Content]
  /\ pc \in PCs
  /\ off \in 0 .. NumWords
  /\ crashes \in 0 .. MaxCrashes

ChunkPtrs(k) == k * WordBits .. k * WordBits + WordBits - 1

(* The chunks zeroing reaches: all but the last. *)
Cleared == 0 .. NumWords - 2

(* Once requests are served the file itself, not only the stdio buffer,    *)
(* holds the root block, zeros in every other chunk zeroing reaches and no *)
(* tag in any of these chunks, whatever the file held and however often    *)
(* earlier mounts were interrupted.                                        *)
ServingIsFormatted ==
  pc = "serving" =>
    /\ diskTags = tags /\ diskData = data
    /\ diskData[0] = "root"
    /\ \A k \in Cleared \ {0} : diskData[k] = "zero"
    /\ \A k \in Cleared : ChunkPtrs(k) \cap diskTags = {}

(* At every point where the process may die, a chunk of the file that has  *)
(* been overwritten has no slot still marked as a capability: tags go out  *)
(* before the bytes that overwrite them, through the stdio buffer.         *)
NoTagOverOverwrittenChunk ==
  \A k \in Chunk : diskData[k] \in {"zero", "root"} => ChunkPtrs(k) \cap diskTags = {}

(* A root block in the file is one of a complete format: formatting        *)
(* destroys the root block of an earlier use before it wipes anything else *)
(* and writes its own last, so that an interrupted mount leaves no root    *)
(* block over a store that is wiped in part.                               *)
RootBlockCommitsFormat ==
  /\ diskData[0] = "root" => \A k \in Cleared \ {0} : diskData[k] = "zero"
  /\ diskData[0] = "oldroot" => \A k \in Chunk \ {0} : diskData[k] = "stale"

(* What the file holds, without the pending write: "torn" is what no mount *)
(* may leave behind.                                                       *)
Image ==
  CASE /\ diskData[0] = "root"
       /\ \A k \in Cleared : ChunkPtrs(k) \cap diskTags = {}
       /\ \A k \in Cleared \ {0} : diskData[k] = "zero" -> "formatted"
    [] diskData[0] = "zero" -> "wiped"
    [] \A k \in Chunk : diskData[k] \in {"stale", "oldroot"} -> "old"
    [] OTHER -> "torn"

(* How far the running mount is, as Formatting tells it.                   *)
Phase ==
  CASE pc = "rootcheck" -> "formatted"
    [] pc = "serving"   -> "serving"
    [] OTHER            -> "formatting"

Atomic == INSTANCE Formatting WITH image <- Image, phase <- Phase

(* The many steps of a mount, each of which may be its last, are on the    *)
(* file the two of Formatting: it is wiped, root block first, and it is    *)
(* formatted at once, before the daemon serves.  A mount that dies between *)
(* the two leaves a formatted file, which the next one wipes again: what   *)
(* is served was formatted by the mount that serves it.                    *)
ImplementsFormatting == Atomic!Spec

(* The steps a mount of a file of the right size has still to take, at     *)
(* most.                                                                   *)
MountRank ==
  CASE pc = "zero"      -> 2 * (NumWords - off) + 4
    [] pc = "zerodata"  -> 2 * (NumWords - off) + 3
    [] pc = "rootdata"  -> 3
    [] pc = "readback"  -> 2
    [] pc = "rootcheck" -> 1
    [] pc = "serving"   -> 0
    [] pc = "check"     -> 2 * NumWords + 5
    [] OTHER            -> 2 * NumWords + 6

(* A mount of a file of the right size only goes forward: no step of it    *)
(* panics, fails an assertion or is repeated, whatever the file holds and  *)
(* however often it was interrupted.  It serves after so many steps unless *)
(* it is killed.                                                           *)
MountAdvances ==
  [][MountStep /\ fsize = "full" => fsize' = "full" /\ MountRank' < MountRank]_vars

(* With a backing file of the right size, every start ends up serving,     *)
(* through any number of interrupted mounts the bound allows.              *)
MountCompletes == fsize = "full" ~> pc = "serving"

(* capfs_backend.h:56-63 "initializes the backend ... also obtains the     *)
(* root capability": started again often enough the daemon serves, also    *)
(* when there was no backing file yet.                                     *)
EveryStoreMounts == []<>(pc = "serving")
=============================================================================
