# capfs in TLA+

capfs is a FUSE file system whose storage is a *capability store*: a flat
memory that is only reached through capabilities (base, size, permissions), with
one tag bit per pointer-sized slot saying whether the slot holds a capability.
The files backend keeps memory and tags in one file. This directory holds TLA+
models of it, the TLC runs that check them on small instances, and TLAPS proofs
that hold for every value of the constants.

Paths below are relative to the repository's root, which is `src/`: the backend
is `src/src/backends/files.c` (called `files.c`), the file system layer
`src/src/filesystem.c`, the FUSE handlers `src/src/fsops/*.c`.

## 1. The system

| component | state | operations | interacts with |
|---|---|---|---|
| tag map (`files.c:161-285`) | first region of the backing file, one bit per slot, read and written in 32-bit words | `metadata_rawread/rawwrite`, `metadata_valid_bits_generic` (set and clear), `metadata_is_capability` | called by write, put_cap, get_cap |
| capability store (`files.c:289-338, 487-698`) | data region of the backing file | `capfs_backend_read/write/zero/get_cap/put_cap` | tag map; called by the file system layer and the handlers |
| capability words (`files.c:106-158, 446-467`) | none | compress, decompress, salt; size and permissions of a capref | every backend call decodes its capref first |
| backend init, destroy (`files.c:362-425`) | `g_st.file`, `g_st.data_size`, `capfs_root_capability` | open or create and grow the file, check its size; destroy does nothing | called by `fsops/init.c`, `fsops/destroy.c` |
| formatting and root block (`filesystem.c:50-163`) | `g_fs_root`, block 0 of the store | `capfs_filesystem_format`, `capfs_filesystem_init` | zero, write and read of the store |
| path resolution (`filesystem.c:167-277`) | none of its own | `resolve_one`, `capfs_filesystem_resolve_path` | reads file blocks from the store |
| file metadata (`filesystem.c:280-316`) | none: stubs | `get_metadata`, `get_content_cap`, `get_direntry` | called by the handlers |
| handlers on open files (`fsops/open.c`, `opendir.c`, `read.c`, `write.c`, `readdir.c`, `ioctl.c`, `release*.c`, `getattr.c`, `access.c`) | `struct capfs_handle`, one per open file | allocate, check, use, free the handle | path resolution, metadata, store |
| other handlers (`fsops/`) | none | return a constant | - |
| dummy backend (`backends/dummy.c`) | none | constants | replaces `files.c` at build time |
| daemon (`main.c`) | none | options, `fuse_main` | libfuse calls the handlers, from several threads unless `-s` is given |

What is hard in this code, component by component, and what makes each right:

* **Tag map.** The update writes the word of the slot *after* the last one it
  marked, marks one slot more than the range, and starts from words that are
  never loaded (`fread(&md, ...)` overwrites a local pointer). Right means: the
  ranges the program really uses (whole words, the root block at the start)
  update the tags they should, no update leaves the map.
* **Store.** Bounds checks in unsigned arithmetic, twice, with `>=`; a write is
  two file updates; zero is a loop that ignores failures; assertions abort in the
  middle. Right means: a refused call has no effect, an accepted one touches the
  named bytes of its capability only, zeroed memory is zero and untagged.
* **Mount.** Every mount creates or reuses a file and formats it, through one
  stdio buffer, and may be killed at any point. Right means: what is served is a
  complete format, an interrupted one is never mistaken for one, no overwritten
  memory stays marked as a capability, and the next mount succeeds.
* **Path resolution.** Errors of each component are ignored. Right means: a path
  either resolves or fails.
* **Handlers.** A handle lives across requests as an untyped number, and caches what
  open was told. Right means: freed once, not used after, not shared, not leaked; an
  access of an open file reaches the capability of that file, or is refused, by what
  open saw.
* **Capability words.** Three fields share one word behind a salt. Right means: what
  goes in comes out, whatever the widths.
* **Threads.** `fseek` and the access that follows are two calls on one stream.
  Right means: each access happens at the position it asked for.

The hazards of `PROJECT.json` list these at the lines where they bite.

## 2. The modules

```
CapTags ──────────┬── TagUpdates ── MCTagUpdates         (tag map on its own)
 (operators)      ├── CapStore ──── MCCapStore           (store; implements CapMemory)
                  │     └─ INSTANCE CapMemory
                  └── Mount ─────── MCMount              (init, format, crashes;
                        └─ INSTANCE Formatting            implements Formatting)
PathResolve ── MCPathResolve                             (resolve_path)
CapCodec ───── FsOps ─ MCFsOps                           (handlers and handles;
                 └─ INSTANCE FileObjects                  implements FileObjects)
SharedStream ─ MCSharedStream                            (threads on one FILE *)

CapTagsProofs ──┬── TagUpdatesProofs
                ├── CapStoreProofs
                └── MountProofs
PathResolve ── PathResolveProofs
CapCodecProofs ─ FsOpsProofs
SharedStream ─ SharedStreamProofs
```

**CapTags** gives the functions of the tag map as operators from the map before
a call to the map after. A map is the set of slots whose bit is one. `Head`,
`Middle` and `Tail` are the three parts of `metadata_valid_bits_generic`, in
closed form (the loops over bits become intervals) and with the code's own word
addressing. `RawRead` returns the caller's old value, which is what
`fread(&md, ...)` amounts to; what an uninitialised word holds is a parameter
(`junk`) that the modules using it quantify over. An assertion that fails is
`ok = FALSE`: `abort` does not flush stdio, so the write pending at that moment is
lost and the earlier ones are kept. `TagReach` is what an update may touch at most: the
words from the one its range starts in to that of the slot after the last one marked.

**TagUpdates** runs any sequence of set and clear calls on any map.

**CapStore** has one action per backend call: `Read`, `Write`, `PutCap`,
`GetCap`, and `ZeroStart`, `ZeroChunk`, `ZeroEnd` for the loop of
`capfs_backend_zero`. `WriteResult` is `capfs_backend_write` as a function of the
store, used by `Write` and by each `ZeroChunk`, as in the code. `call` records the
arguments and the result of the running or last call. Byte values are a small
set; the bytes of a stored capability are one value. What `Read` copies out is
not kept: reading changes nothing in the store.

**CapMemory** is the abstract specification, from the comments of
`capfs_backend.h`: refused calls have no effect, accepted ones change exactly
the bytes they name inside a writable capability, zero only zeroes bytes of its
capability. It knows nothing of tags' words, chunks or the order of checks.
CapStore implements it under `reply <- call` (`ImplementsCapMemory`). It leaves
open what an accepted call does to the tags: the code's tag updates spill to
neighbouring words. How far, `TagsChangeNearby` says; what of them is right is stated in
TagUpdates.

**Mount** follows `capfs_op_init` through `capfs_backend_init`,
`capfs_filesystem_format` and `capfs_filesystem_init` to the serving daemon,
`Unmount` and `Crash`. Data is kept per 256-byte chunk, the unit of the zero
loop. `tags`/`data` is what the process sees, `diskTags`/`diskData` what the
kernel has: a write goes to the stdio buffer and reaches the file at the next
`fseek`, which precedes every access, so exactly one write may be pending. Tag and
data write of one `capfs_backend_write` are two steps with a crash possible
between them. A killed process, and one aborted by an assertion, loses the pending
write; `PANIC` and the normal exit do not.

Reading the root block back is two steps: the `fseek` of the read flushes the root block
(`ReadBack`), then what was read is checked and the daemon serves or panics (`CheckRoot`);
a kill in between leaves a formatted file that nobody served.

**Formatting** is what a mount is to one who only sees the file as a dead process left it:
an image of an earlier use is wiped (`Wipe`), a wiped one becomes formatted in one step
(`Format`), the mount that did it may then serve (`Serve`) or end (`Stop`), and nothing
else happens to the file. Mount implements it (`ImplementsFormatting`) under
`image <- Image`, the reading of `diskTags` and `diskData`, and `phase <- Phase`, which
tells from `pc` whether the running mount has formatted and whether it serves; `"torn"`, a
root block over a store that is wiped in part or still tagged, is an image that Formatting
does not have. `MountAdvances` is about the other end of the same steps: by
`MountRank`, each of them leaves fewer to take.

**PathResolve** is one call of `capfs_filesystem_resolve_path`: `mypath` the
copy of the path, `p` and `current` the two pointers, one action for each branch
of the loop and one for its end. `looked` are the components looked up, `results` what each
of these lookups answered, which the code forgets. `ResolveOne` is what
`capfs_filessystem_resolve_one` answers in this build: past the root block it
needs `capfs_filesystem_get_content_cap`, which always fails, so its loop over
directory entries is never reached and the capability it walks from never
changes. The type in the root block is any, since `capfs_filesystem_format`
leaves it to the stack.

**CapCodec** gives `capability_compres`, `capability_decompress` and the salt as
operators. A word, and each field, is the set of the bits that are one, so that
shift, mask, or and exclusive or are plain set operations and the widths can be
constants (48, 8 and 8 in the code).

**FsOps** has one action per entry of `capfs_ops` (`main.c:53-82`) that answers
requests; `init` and `destroy` are in Mount. `files` is what the kernel has open:
the kind it was opened as, its `fi->fh`, and, as history, the metadata open was
given. `live` are the allocated handles, `heap` what their memory holds, which a
`free` does not change: a use after free is visible as a handle outside `live`.
`calloc` returns any handle that is not live, or NULL. A handler is one step: the only memory it
shares with others is its handle, which only open, opendir and releasedir of the
same file write, and the stream (SharedStream). The environment is the kernel
(release comes once per open, after the last request on the file; flush any number
of times), the outcome of `resolve_path` (the root or an error, see PathResolve) and
the answer of `capfs_filesystem_get_metadata`: any metadata or an error. In this build it
is a stub that always fails; the handlers are written for one that does not, and
the models say what they do then. `root` is `capfs_root_capability`, encoded by
CapCodec. `reply` is the last request's answer, with the file the handler worked on.
`read` and `write` that pass their checks answer `"backend"`: what the backend
then does is CapStore's.

**FileObjects** is what the handlers are for: no handles, no `fi->fh`, no `calloc`. A file
that is opened becomes an object that keeps what open was told until it is released, and
every request on it is answered from that object. FsOps implements it
(`ImplementsFileObjects`) under `object <- Objects` (for each open file what its handle
holds), `cap <- root` and `answer <- reply`. A handle shared, freed too
early or read in place of another would show as an object that changes by itself. One case
is left open: a read exactly at the end, of which the code and its documentation disagree
(`fsops_read_end`).

**SharedStream** keeps nothing of the file but the stream's position `pos` and the `end` of
the file, in bytes. A call of the backend is the sequence of its accesses, each a
read or a write with the place it seeks to and the bytes it moves, and every access is two
steps, `SeekSet` and `Transfer`, of a thread among others. A transfer moves the stream by
its length: a root block's, a request's, a stored capability's; a tag lookup reads
two words of the map, since `fread(&md, sizeof(md), ...)` asks for the size of a pointer,
and a tag write writes one. A read stops at the end of the file and a write moves it. Which
words of the tag map an update touches is a parameter (`Updates`): CapTags says which they
are.

## 3. The runs

| run | question | instance | outcome |
|---|---|---|---|
| `tag_updates` | do updates stay in the map; are whole words, and a prefix of the store, updated right? | 2 words of 4 slots of 2 bytes: all 256 maps, all ranges, all junk words | holds |
| `capstore` | does the store keep the promise of `capfs_backend.h`; what does zero reach; how far do tag updates? | 4 words (32 bytes), 4 capabilities, 4 offsets, 4 lengths, 2 calls | holds |
| `capstore_zero` | does zero zero the *entire* capability (`capfs_backend.h:205`)? | same | violated: last chunk |
| `capstore_load` | can a stored capability be loaded (`:99`, `:111`)? | same | violated: no tag set, and none would be seen |
| `capstore_negative` | does put_cap store *inside* the capability (`:111`)? | offsets -2, 0, 6 | violated: wraps below |
| `capstore_assert` | do the assertions of the tag update hold (`files.c:250`)? | same as `capstore` | violated: range inside a word |
| `mount` | is what is served formatted; do tags go first; does the root block commit; does every start of a full-size file reach serving, going forward only; is the file ever torn (Formatting)? | 3 chunks of 3 slots, all 512 maps, 2 crashes, fairness | holds |
| `mount_absent` | does a daemon without a file ever serve, started again as often as needed? | 1 crash, fairness | violated: file of size 0 |
| `path` | does the walk look up exactly the components, in order, and end; what did each lookup of a call that returns 0 answer? | all 255 paths of up to 7 characters, 4 root blocks, fairness | holds |
| `fsops` | are handles owned, and leaked only by release; does an access follow what open saw, with the root's capability; are open files objects (FileObjects)? | 2 open files, 3 handles, 7 files to be told of and the stub's error, 3 offsets, 2 roots in words of 2 + 2 + 3 bits | holds |
| `fsops_read_end` | does a read at the end of the file return 0 (`read.c:43-44`)? | same | violated: goes to the backend |
| `stream` | does a read read the capability it names (`capfs_backend.h:177`)? | 2 threads that resolve paths of 1 or 2 components | violated: another seek in between |

**Bounds.** `PtrBytes = 2`, `WordBits = 3` or `4` keep the arithmetic of the code
(rounding up and down, a head, a middle and a tail, a slot index at the end of a word)
while maps stay enumerable: with two words every case of the update, including
the one that reaches past the map, occurs, and TLC tries all of them. In
`capstore` a root capability of four chunks, one that starts inside the
store, one that does not start on a word and a read-only one meet every check; the
offsets include an odd one, one that lands on the last slot of a word and one that ends at the limit;
two calls are enough for a write or put followed by any other call, and zero takes
as many further steps as it has chunks. `MaxCalls` bounds nothing else. In `mount`,
the three chunks are the three kinds the code distinguishes: the root block's, one
that zero wipes, the last that zero never reaches. Two crashes allow an interrupted
mount on top of an interrupted mount. In `path` one
name character is enough, as the walk only tells separators from others; seven
characters give two components with leading, repeated and trailing separators. In `fsops` two open files are
the smallest number for which one may have the other's handle, the third handle
lets one leak and another be allocated, and when all are taken `calloc` must fail; the
metadata has every file type, an empty file and one of one byte, so that
offsets 0 to 2 lie before, at and behind both ends. Files and handles are
symmetric: no property or action tells them apart. `stream` has no
reads and writes of the handlers, which this build never reaches: path resolution
alone, with which every request starts, is enough; its root block has the 184 bytes of the
build. `CHECK_DEADLOCK FALSE` is given where the
daemon may abort, where the number of calls is bounded, and where the one call modelled returns.

**Fairness.** `FairSpec` of Mount has `WF(MountStep)`: `capfs_op_init` is
straight-line code without waiting, and liveness is only claimed of a daemon that
is started again whenever it is down. Crashes and unmounts are not fair. The
violation of `EveryStoreMounts` is under the same fairness. `FairSpec` of PathResolve is
`WF(Next)`: one call, a loop without waiting.

## 4. The proofs

All in eight modules, checked by `tlapm` to the last leaf, from the assumptions
named in the modules (`CapTagsAssumption`, `CapStoreAssumption`,
`MountAssumption`, `PathResolveAssumption`, `CapCodecAssumption`, `FsOpsAssumption`),
which TLC evaluates in the runs; those of SharedStream are a hypothesis of its theorems
(`StreamConstants`).

* `CapTagsProofs`: arithmetic of slots and words (`SlotsCovered`,
  `WholeWordsCovered`, `MiddleWritesWords`, ...) and what an update does:
  `WholeWordUpdate` (a range of whole words is exact, whatever the junk word),
  `PrefixClear`, `ValidBitsType` (an update stays in the map) and `ValidBitsReach` (it
  changes nothing outside `TagReach`, whatever the range and the junk word: the spill of
  `Head` and `Tail`, part by part in `HeadReach`, `MiddleReach` and `TailReach`).
* `TagUpdatesProofs`: `TypeCorrect`, `WholeWordsExact`, `PrefixCleared`, the three
  properties of the run, for every geometry.
* `CapStoreProofs`: `TypeCorrect`; `Refinement`: CapStore implements CapMemory,
  assuming that offsets are not negative (`capstore_negative` shows why that
  is needed). The lemmas `WriteOutcome` and `PutOutcome` carry it: the check against the
  capability implies the check against the store, so the tags of a write are never
  touched by a write that is then rejected. `ZeroReaches`, assuming that a chunk is one
  tag word as in the build: the invariant `ZeroProgress` says that after k
  iterations the first k full chunks are zero and untagged, and needs
  `WholeWordUpdate` to know that an iteration does not disturb earlier ones.
  `TagsNearby` carries `ValidBitsReach` to every call, negative offsets and aborted calls
  included. Four theorems draw the line around the runs that end in a violation:
  `AlignedUseIsSafe` (no assertion fails as long as accesses start on words of the map and
  none ends in the last but one slot of the store: `AlignedUse`, which is how
  `capfs_filesystem_format` uses the store), `AlignedUseMarksNothing` (but then put_cap
  marks nothing, since the range it passes is empty and its slot is the first of a word),
  `NothingLoads` (get_cap fails in every state, aligned or not) and `StoredInside` (without
  negative offsets put_cap stores inside the capability).
* `MountProofs`: the inductive invariant `IInv` is `TypeOK` with `FormatProgress`
  (how far the loop is, and what is already wiped as the process sees it and on
  disk), `Untagged` (no tag over an overwritten chunk, in both views, and the tag
  of the chunk about to be overwritten already gone) and `Committed` (a root block
  comes with a complete format). The safety properties alone are not inductive: they
  say nothing of the state between a tag write and its data write, or of the one
  write that is still pending. From it: `TypeCorrect`, `Formatted`, `TagsGoFirst`,
  `RootCommits`. `MountsAdvance`: by `ClearChunk` and `ClearRoot` no assertion of a tag update
  fails and by `FormatProgress` the block read back is the one written, so each step
  lowers `MountRank`; liveness (`MountCompletes`) needs fairness on top and is TLC's.
  `FormatIsAtomic`: Mount implements Formatting. It needs a second invariant, `Settled`: where
  the pending write may differ from the file in the first chunk, and that a file whose
  first chunk is an earlier use's is not wiped anywhere. With both, `ImageByRoot` knows the image from
  the first chunk alone, and `NextFormats` reads off each step whether that chunk is
  wiped, written or left. The file becomes formatted in the one write that `ReadBack`
  flushes, and the mount that did it serves in a later step or never.
* `PathResolveProofs`: `TypeCorrect` and `SplitCorrect`, for paths of any length.
  `IInv` adds `Copy` (from `current` on the copy is still the path, and no separator
  lies between the pointers) and `Before` (what was looked up is what ends before
  `current`); without `Copy` nothing says that the Nul written at one separator
  does not hide what follows. `NextComponent` is the lemma that carries it: the
  stretch between the pointers is a component, and the only one that ends there.
  `OnlyTheRoot`: a component never reads as `"/"` (`NoComponentIsRoot`), so each lookup of a
  path other than `"/"` fails, the later ones as well as the first (`Failing`,
  `ResultRecorded`), there is one for each component by `SplitIsExact`, and a call that
  returns 0 says nothing of any of them.
* `CapCodecProofs`: `RoundTrip`, a capability decodes to itself from its capref, for
  every width and every salt: the fields do not overlap, each `Field` undoes its
  `ShiftLeft`, and the salt cancels. `MetaOfCapref` is its consequence for the two
  queries. `CaprefsAreCapabilities` is the other direction: the fields cover the word
  (`CompressDecompress`), so every word is the capref of exactly one capability.
* `FsOpsProofs`: `StepKinds` reduces every step to three, it installs a handle,
  releases a file, or changes nothing but the reply. `Ownership` is the inductive
  invariant: who owns which handle *and* who may have leaked one. Neither half
  stands alone: a released file's handle is leaked with the type it was
  owned with, and a freed handle must be nobody else's. From it `HandlesOwned`,
  `LeaksAreReleasedFiles`, `AccessFollows` (through `AccessStep`: what a read finds in its handle)
  and, with `RoundTrip`, `RootReached`. `OpenFilesAreObjects`: FsOps implements FileObjects,
  one lemma for each kind of step; `Ownership` is what makes a `calloc` that returns a
  handle freed before, and a `free`, change the object of no other file. `StubOpensNothing` assumes that
  the metadata layer only fails, as in this build: nothing is ever opened.
* `SharedStreamProofs`: with one thread, `OneThreadAccessesItsCapability`, the
  formula that the run `stream` violates with two. `Positioned`, between seek and transfer
  the stream is where the call asked, is what makes it inductive, and is what a second
  thread breaks. This is the result behind the sequential models of the store and the mount.
  `StrayAccessesStayNear` bounds what several threads lose: since the last seek the stream was
  moved only by threads that have not sought again, each by one access at most (`Drift`), so
  a transfer that misses its place starts behind one some call asks for, by at most the
  longest access (`Longest`) for each other thread. Lengths are any, so it says nothing a
  caller could rely on: with the root block's 184 bytes a stray read may lie in any object behind.

Only model-checked: the liveness properties (`MountCompletes`, `CallReturns`), as liveness
under fairness is out of the provers' reach, and
the runs that end in a violation. Only proved: `StaysNearACall`, for finitely many threads.
Every invariant and action property and every
refinement of a passing run is a theorem. Two have a hypothesis, which the build and the
runs' instances satisfy: `Refinement` (offsets are not negative) and `ZeroReaches` (a chunk
is as long as one tag word covers). Geometry is arbitrary in the proofs and small in TLC.

## 5. What is not modelled

* **The dummy backend** (`backends/dummy.c`). Its `capfs_backend_zero` returns -1
  (`dummy.c:391-396`), so `capfs_filesystem_format` fails (`filesystem.c:89-92`) and
  `capfs_filesystem_init` panics (`filesystem.c:124-126`): a daemon built with it
  exits while it mounts and serves no request.
* **I/O errors** of the backing file other than a failing open. Every caller of
  `metadata_clear_valid_bits` ignores its result (`files.c:654`), so a failing tag
  write would leave a tag over overwritten bytes; the models assume that the
  stream's calls inside the file succeed.
* **What the metadata layer should do.** `get_metadata`, `get_content_cap` and
  `get_direntry` are stubs; there is no code to model but their failure.
* **Interleaved handlers on one handle.** The kernel does not release a file while a
  request on it is running, and no other handler writes a handle.
* Sums `offset + bytes` that wrap from above (negative offsets are modelled), the
  layout of `struct stat`, logging, option parsing, declarations, `capfs.c` (types
  nothing uses), the scripts and the build.

Behaviour the models contain and no run ends in a violation for:

* `filesystem.c:254, 264`: the result of each lookup is ignored, where
  `filesystem.c:223` says "ERR_OK on success or error value on failure".
  `OnlyRootResolves` states what the code does instead: a call that returns 0 for another
  path than `/` has failed at every component.

Behaviour the models contain and no property judges, as no document promises
otherwise or the code is not reached in this build:

* `write.c:78`: the cached size is never updated, so of two appends through one
  open file the second is refused.
* `access.c:61`: the permission mask is compared with the number of the file type,
  and common bits are returned as a positive number.
* `ioctl.c:106`: the commands carry no direction, so `data` is NULL for `GET_CAP`,
  which returns 0 and nothing else.
* `filesystem.c:95`: type and version of the root block are whatever the stack held.

What could follow: I/O errors as outcomes of Mount's write steps; the composition of SharedStream with the
contents of CapStore, once the daemon has a lock whose placement is worth checking.
