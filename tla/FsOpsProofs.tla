----------------------------- MODULE FsOpsProofs -----------------------------
(***************************************************************************)
(* Proofs about FsOps, for any number of open files and handles, any       *)
(* answers of the metadata layer and any order of requests.                *)
(***************************************************************************)
EXTENDS FsOps, CapCodecProofs

(* A step installs a handle, releases a file or a directory, or changes    *)
(* nothing but the reply.                                                  *)
Installs ==
  \E f \in File, kind \in {"file", "dir"}, md \in Answers \ {NoMetadata}, h \in Handle \ live :
    /\ files[f] = Closed
    /\ md.type \in IF kind = "dir" THEN DirTypes ELSE {"file"}
    /\ Install(f, kind, md, h)
    /\ UNCHANGED root

Quiet == UNCHANGED <<live, heap, files, root>>

(* An open or opendir that succeeds installs a handle.                     *)
LEMMA OpenSteps ==
  ASSUME NEW f \in File, NEW r \in {"ok", "error"}, NEW md \in Answers,
         NEW h \in (Handle \ live) \cup {Null}, Open(f, r, md, h) \/ Opendir(f, r, md, h)
  PROVE  Installs \/ Quiet
<1>1. CASE Open(f, r, md, h) /\ OpenRet({"file"}, r, md, h) = "ok"
  <2>1. md \in Answers \ {NoMetadata} /\ h \in Handle \ live /\ md.type \in {"file"}
    BY <1>1 DEF OpenRet
  <2>2. files[f] = Closed /\ Install(f, "file", md, h) /\ UNCHANGED root
    BY <1>1 DEF Open
  <2> QED BY <2>1, <2>2 DEF Installs
<1>2. CASE Opendir(f, r, md, h) /\ OpenRet(DirTypes, r, md, h) = "ok"
  <2>1. md \in Answers \ {NoMetadata} /\ h \in Handle \ live /\ md.type \in DirTypes
    BY <1>2 DEF OpenRet
  <2>2. files[f] = Closed /\ Install(f, "dir", md, h) /\ UNCHANGED root
    BY <1>2 DEF Opendir
  <2> QED BY <2>1, <2>2 DEF Installs
<1>3. CASE Open(f, r, md, h) /\ OpenRet({"file"}, r, md, h) # "ok"
  BY <1>3 DEF Open, Quiet
<1>4. CASE Opendir(f, r, md, h) /\ OpenRet(DirTypes, r, md, h) # "ok"
  BY <1>4 DEF Opendir, Quiet
<1> QED BY <1>1, <1>2, <1>3, <1>4

(* The requests that are not implemented change nothing.                   *)
LEMMA UnimplementedQuiet ==
  ASSUME Unimplemented PROVE Quiet /\ reply'.ret = "ENOTSUP" /\ reply'.op \notin {"read", "write"}
  BY DEF Unimplemented, Truncate, Create, Chmod, Chown, Link, Mkdir, Mknod, Readlink, Rename,
         Rmdir, Statfs, Symlink, Unlink, Utimens, NotImplemented, Answer, Reply, Quiet

(* Every step is of one of the three kinds.                                *)
LEMMA StepKinds ==
  ASSUME [Next]_vars
  PROVE  Installs \/ (\E f \in File : Release(f) \/ Releasedir(f)) \/ Quiet
<1>1. CASE \E f \in File, r \in {"ok", "error"}, md \in Answers, h \in (Handle \ live) \cup {Null} :
             Open(f, r, md, h) \/ Opendir(f, r, md, h)
  BY <1>1, OpenSteps
<1>2. CASE \E f \in File : Release(f) \/ Releasedir(f) \/ Flush(f) \/ Fsync(f)
  BY <1>2 DEF Flush, Fsync, Answer, Quiet
<1>3. CASE \E r \in {"ok", "error"}, md \in Answers :
             \/ \E f \in File, off \in Offsets : Read(f, off, r, md) \/ Write(f, off, r, md)
             \/ \E f \in File : Readdir(f, r, md)
             \/ \E f \in File \cup {NoFile} : Getattr(f, r, md)
             \/ \E mask \in SUBSET {0, 1, 2} : Access(mask, r, md)
             \/ \E f \in File, compat \in BOOLEAN,
                   cmd \in {"GET_CAP", "SET_CAP", "IDENTIFY", "other"} :
                   Ioctl(f, compat, cmd, r, md)
  BY <1>3 DEF Read, Write, Readdir, Getattr, Access, Ioctl, Request, Quiet
<1>4. CASE Unimplemented
  BY <1>4, UnimplementedQuiet
<1>5. CASE UNCHANGED vars
  BY <1>5 DEF vars, Quiet
<1> QED BY <1>1, <1>2, <1>3, <1>4, <1>5 DEF Next

-----------------------------------------------------------------------------
(* The root is the capref of a capability the backend may start with.      *)
RootEncoded == root \in { ToCapref(c) : c \in RootCaps }

(* A root that is encoded is a word.                                       *)
LEMMA RootIsWord == RootEncoded => root \in Word
  BY RoundTrip, FsOpsAssumption DEF RootEncoded

(* The root is never replaced.                                             *)
LEMMA RootKept == ASSUME [Next]_vars PROVE root' = root
  BY StepKinds DEF Installs, Release, Releasedir, Quiet

(* What open copies into a handle is a handle record.                      *)
LEMMA HandleType ==
  ASSUME NEW md \in Metadata, root \in Word PROVE AsHandle(md) \in HandleRec
  BY DEF AsHandle, HandleRec, Metadata

(* Type correctness: handles, open files and the root keep their types     *)
(* under any requests.                                                     *)
THEOREM TypeCorrect == Spec => []TypeOK
<1>1. Init => TypeOK /\ RootEncoded
  <2> SUFFICES ASSUME Init PROVE TypeOK /\ RootEncoded
    OBVIOUS
  <2>1. RootEncoded /\ root \in Word
    BY RootIsWord DEF Init, RootEncoded
  <2>2. {} \in Word /\ "none" \in FileType /\ 0 \in Nat
    BY DEF Word, FileType, TypeBits
  <2>3. heap \in [Handle -> HandleRec]
    BY <2>2 DEF Init, HandleRec
  <2>4. files \in [File -> [kind : {"closed", "file", "dir"}, fh : Handle \cup {Null},
                            md : Metadata \cup {NoMetadata}]]
    BY DEF Init, Closed
  <2> QED BY <2>1, <2>3, <2>4 DEF Init, TypeOK
<1>2. TypeOK /\ RootEncoded /\ [Next]_vars => TypeOK' /\ RootEncoded'
  <2> SUFFICES ASSUME TypeOK, RootEncoded, [Next]_vars PROVE TypeOK' /\ RootEncoded'
    OBVIOUS
  <2>1. RootEncoded' /\ root' \in Word
    BY RootKept, RootIsWord DEF RootEncoded
  <2>2. CASE Installs
    <3>1. PICK f \in File, kind \in {"file", "dir"}, md \in Answers \ {NoMetadata},
               h \in Handle \ live : Install(f, kind, md, h)
      BY <2>2 DEF Installs
    <3>2. md \in Metadata
      BY FsOpsAssumption
    <3>3. AsHandle(md) \in HandleRec
      BY <3>2, HandleType, RootIsWord
    <3>4. [kind |-> kind, fh |-> h, md |-> md]
            \in [kind : {"closed", "file", "dir"}, fh : Handle \cup {Null},
                 md : Metadata \cup {NoMetadata}]
      BY <3>2
    <3> QED BY <2>1, <3>1, <3>3, <3>4 DEF TypeOK, Install
  <2>3. CASE \E f \in File : Release(f) \/ Releasedir(f)
    <3>1. PICK f \in File : Release(f) \/ Releasedir(f)
      BY <2>3
    <3>2. live' \subseteq live /\ heap' = heap /\ files' = [files EXCEPT ![f] = Closed]
      BY <3>1 DEF Release, Releasedir
    <3> QED BY <2>1, <3>2 DEF TypeOK, Closed
  <2>4. CASE Quiet
    BY <2>1, <2>4 DEF TypeOK, Quiet
  <2> QED BY <2>1, <2>2, <2>3, <2>4, StepKinds
<1> QED BY <1>1, <1>2, PTL DEF Spec

(* The root is the encoded capability of the backend for ever.             *)
LEMMA RootInvariant == Spec => []RootEncoded
<1>1. Init => RootEncoded
  BY DEF Init, RootEncoded
<1>2. RootEncoded /\ [Next]_vars => RootEncoded'
  BY RootKept DEF RootEncoded
<1> QED BY <1>1, <1>2, PTL DEF Spec

-----------------------------------------------------------------------------
(* Ownership of handles is inductive together with who may leak one: the   *)
(* type of a file's handle is needed when release drops it, and that no    *)
(* two open files share a handle when releasedir frees it.                 *)
Ownership == OpenFileOwnsItsHandle /\ OnlyFilesLeak

(* AsHandle, with the root it copies named.                                *)
HandleOf(md, cap) ==
  [type |-> md.type, size |-> md.bytes, cap |-> cap, perms |-> md.perms]

(* A handle that calloc has just returned is nobody's.                     *)
LEMMA InstallStep == ASSUME TypeOK, Ownership, Installs PROVE Ownership'
<1> USE FsOpsAssumption
<1>1. PICK f \in File, kind \in {"file", "dir"}, md \in Answers \ {NoMetadata},
           h \in Handle \ live :
        /\ files[f] = Closed
        /\ md.type \in IF kind = "dir" THEN DirTypes ELSE {"file"}
        /\ Install(f, kind, md, h)
        /\ root' = root
  BY DEF Installs
<1> DEFINE new == [kind |-> kind, fh |-> h, md |-> md]
<1>2. /\ live' = live \cup {h}
      /\ heap' = [heap EXCEPT ![h] = AsHandle(md)]
      /\ files' = [files EXCEPT ![f] = new]
  BY <1>1 DEF Install
<1>3. new # Closed /\ new.fh = h /\ new.md = md /\ new.kind = kind
  BY DEF Closed
<1> HIDE DEF new
<1>4. heap'[h] = AsHandle(md) /\ \A g \in Handle : g # h => heap'[g] = heap[g]
  BY <1>2 DEF TypeOK
<1>5. files'[f] = new /\ \A g \in File : g # f => files'[g] = files[g]
  BY <1>2 DEF TypeOK
<1>6. \A g \in OpenFiles : g # f /\ files[g].fh \in live /\ files[g].fh # h
  BY <1>1 DEF OpenFiles, Ownership, OpenFileOwnsItsHandle
<1>7. OpenFiles' = OpenFiles \cup {f}
  BY <1>1, <1>3, <1>5 DEF OpenFiles
<1>9. ASSUME NEW g \in OpenFiles'
      PROVE  /\ files'[g].fh \in live'
             /\ files'[g].md # NoMetadata
             /\ heap'[files'[g].fh] = HandleOf(files'[g].md, root')
             /\ files'[g].md.type \in IF files'[g].kind = "dir" THEN DirTypes ELSE {"file"}
             /\ \A k \in OpenFiles' \ {g} : files'[k].fh # files'[g].fh
  <2>1. CASE g = f
    <3>1. \A k \in OpenFiles' \ {g} : files'[k] = files[k] /\ k \in OpenFiles
      BY <1>5, <1>7, <2>1 DEF OpenFiles
    <3>2. heap'[h] = HandleOf(md, root')
      BY <1>1, <1>4 DEF AsHandle, HandleOf
    <3> QED BY <1>1, <1>2, <1>3, <1>5, <1>6, <2>1, <3>1, <3>2
  <2>2. CASE g # f
    <3>1. g \in OpenFiles /\ files'[g] = files[g]
      BY <1>5, <1>7, <2>2 DEF OpenFiles
    <3>2. files[g].fh \in live /\ files[g].fh # h /\ files[g].fh \in Handle
      BY <1>6, <3>1 DEF TypeOK
    <3>3. heap[files[g].fh] = AsHandle(files[g].md) /\ files[g].md # NoMetadata
          /\ files[g].md.type \in IF files[g].kind = "dir" THEN DirTypes ELSE {"file"}
      BY <3>1 DEF Ownership, OpenFileOwnsItsHandle
    <3>4. heap'[files[g].fh] = HandleOf(files[g].md, root')
      BY <1>1, <1>4, <3>2, <3>3 DEF AsHandle, HandleOf
    <3>5. ASSUME NEW k \in OpenFiles' \ {g} PROVE files'[k].fh # files[g].fh
      <4>1. CASE k = f
        BY <1>3, <1>5, <3>2, <4>1
      <4>2. CASE k # f
        <5>1. k \in OpenFiles /\ files'[k] = files[k]
          BY <1>5, <1>7, <4>2 DEF OpenFiles
        <5> QED BY <3>1, <5>1 DEF Ownership, OpenFileOwnsItsHandle
      <4> QED BY <4>1, <4>2
    <3> QED BY <1>2, <3>1, <3>2, <3>3, <3>4, <3>5
  <2> QED BY <2>1, <2>2
<1>10. ASSUME NEW g \in live', \A k \in OpenFiles' : files'[k].fh # g
       PROVE  heap'[g].type = "file"
  <2>1. g # h
    BY <1>3, <1>5, <1>7, <1>10
  <2>2. g \in live /\ heap'[g] = heap[g]
    BY <1>2, <1>4, <2>1 DEF TypeOK
  <2>3. \A k \in OpenFiles : files[k].fh # g
    BY <1>5, <1>6, <1>7, <1>10 DEF OpenFiles
  <2> QED BY <2>2, <2>3 DEF Ownership, OnlyFilesLeak
<1>11. OpenFileOwnsItsHandle'
  BY <1>9 DEF OpenFileOwnsItsHandle, AsHandle, HandleOf
<1>12. OnlyFilesLeak'
  BY <1>10 DEF OnlyFilesLeak
<1> QED BY <1>11, <1>12 DEF Ownership

(* release and releasedir give up one file; releasedir frees its handle,   *)
(* which no other file has, and release leaks one that is a file's.        *)
LEMMA ReleaseStep ==
  ASSUME TypeOK, Ownership, NEW f \in File, Release(f) \/ Releasedir(f)
  PROVE  Ownership'
<1>1. /\ files' = [files EXCEPT ![f] = Closed] /\ heap' = heap /\ root' = root
      /\ files[f].kind \in {"file", "dir"}
      /\ live' = live \/ (files[f].kind = "dir" /\ live' = live \ {files[f].fh})
      /\ files[f].kind = "dir" => live' = live \ {files[f].fh}
  BY DEF Release, Releasedir
<1>2. f \in OpenFiles
  BY <1>1 DEF OpenFiles, Closed
<1>3. OpenFiles' = OpenFiles \ {f} /\ \A g \in OpenFiles' : files'[g] = files[g]
  BY <1>1 DEF OpenFiles, TypeOK
<1>4. ASSUME NEW g \in OpenFiles'
      PROVE  /\ files'[g].fh \in live'
             /\ files'[g].md # NoMetadata
             /\ heap'[files'[g].fh] = HandleOf(files'[g].md, root')
             /\ files'[g].md.type \in IF files'[g].kind = "dir" THEN DirTypes ELSE {"file"}
             /\ \A k \in OpenFiles' \ {g} : files'[k].fh # files'[g].fh
  <2>1. g \in OpenFiles /\ g # f /\ files'[g] = files[g]
    BY <1>3
  <2>2. /\ files[g].fh \in live /\ files[g].md # NoMetadata
        /\ heap[files[g].fh] = AsHandle(files[g].md)
        /\ files[g].md.type \in IF files[g].kind = "dir" THEN DirTypes ELSE {"file"}
        /\ \A k \in OpenFiles \ {g} : files[k].fh # files[g].fh
    BY <2>1 DEF Ownership, OpenFileOwnsItsHandle
  <2>3. files[g].fh \in live'
    BY <1>1, <1>2, <2>1, <2>2
  <2>4. heap'[files[g].fh] = HandleOf(files[g].md, root')
    BY <1>1, <2>2 DEF AsHandle, HandleOf
  <2>5. \A k \in OpenFiles' \ {g} : files'[k].fh # files[g].fh
    BY <1>3, <2>2
  <2> QED BY <2>1, <2>2, <2>3, <2>4, <2>5
<1>5. ASSUME NEW g \in live', \A k \in OpenFiles' : files'[k].fh # g
      PROVE  heap'[g].type = "file"
  <2>1. g \in live /\ \A k \in OpenFiles \ {f} : files[k].fh # g
    BY <1>1, <1>3, <1>5
  <2>2. CASE files[f].fh # g
    <3>1. \A k \in OpenFiles : files[k].fh # g
      BY <2>1, <2>2
    <3> QED BY <1>1, <2>1, <3>1 DEF Ownership, OnlyFilesLeak
  <2>3. CASE files[f].fh = g
    <3>1. files[f].kind = "file"
      BY <1>1, <2>3
    <3>2. heap[g] = AsHandle(files[f].md) /\ files[f].md.type = "file"
      BY <1>2, <2>3, <3>1 DEF Ownership, OpenFileOwnsItsHandle
    <3> QED BY <1>1, <3>2 DEF AsHandle
  <2> QED BY <2>2, <2>3
<1>6. OpenFileOwnsItsHandle'
  BY <1>4 DEF OpenFileOwnsItsHandle, AsHandle, HandleOf
<1>7. OnlyFilesLeak'
  BY <1>5 DEF OnlyFilesLeak
<1> QED BY <1>6, <1>7 DEF Ownership

(* Ownership of handles holds whatever is opened, used and released, in    *)
(* whatever order.                                                         *)
LEMMA OwnershipInvariant == Spec => []Ownership
<1>1. Init => Ownership
  <2> SUFFICES ASSUME Init PROVE Ownership
    OBVIOUS
  <2>1. OpenFiles = {} /\ live = {}
    BY DEF Init, OpenFiles
  <2> QED BY <2>1 DEF Ownership, OpenFileOwnsItsHandle, OnlyFilesLeak
<1>2. TypeOK /\ Ownership /\ [Next]_vars => Ownership'
  <2> SUFFICES ASSUME TypeOK, Ownership, [Next]_vars PROVE Ownership'
    OBVIOUS
  <2>1. CASE Quiet
    <3>1. OpenFiles' = OpenFiles
      BY <2>1 DEF Quiet, OpenFiles
    <3>2. OnlyFilesLeak'
      BY <2>1, <3>1 DEF Quiet, Ownership, OnlyFilesLeak
    <3>3. OpenFileOwnsItsHandle'
      BY <2>1, <3>1 DEF Quiet, Ownership, OpenFileOwnsItsHandle, AsHandle
    <3> QED BY <3>2, <3>3 DEF Ownership
  <2> QED BY <2>1, StepKinds, InstallStep, ReleaseStep
<1> QED BY <1>1, <1>2, TypeCorrect, PTL DEF Spec

(* No handle is used after it was freed, or shared (releasedir.c:51,       *)
(* read.c:58): every open file has its own, as open filled it in.          *)
THEOREM HandlesOwned == Spec => []OpenFileOwnsItsHandle
<1>1. Ownership => OpenFileOwnsItsHandle
  BY DEF Ownership
<1> QED BY <1>1, OwnershipInvariant, PTL

(* Handles that are never freed are those of files that were released      *)
(* (release.c:53): no other path of any handler leaks one.                 *)
THEOREM LeaksAreReleasedFiles == Spec => []OnlyFilesLeak
<1>1. Ownership => OnlyFilesLeak
  BY DEF Ownership
<1> QED BY <1>1, OwnershipInvariant, PTL

-----------------------------------------------------------------------------
(* Only reads and writes answer with a result of the backend.              *)
LEMMA ReplyKinds ==
  ASSUME [Next]_vars
  PROVE  \/ \E f \in File, off \in Offsets, r \in {"ok", "error"}, md \in Answers :
               Read(f, off, r, md) \/ Write(f, off, r, md)
         \/ UNCHANGED vars
         \/ reply'.op \notin {"read", "write"} /\ reply'.ret # "backend"
<1>1. CASE \E f \in File, r \in {"ok", "error"}, md \in Answers, h \in (Handle \ live) \cup {Null} :
             Open(f, r, md, h) \/ Opendir(f, r, md, h)
  BY <1>1 DEF Open, Opendir, OpenRet, Reply
<1>2. CASE \E f \in File : Release(f) \/ Releasedir(f) \/ Flush(f) \/ Fsync(f)
  BY <1>2 DEF Release, Releasedir, Flush, Fsync, Answer, Reply
<1>3. CASE \E r \in {"ok", "error"}, md \in Answers :
             \/ \E f \in File : Readdir(f, r, md)
             \/ \E f \in File \cup {NoFile} : Getattr(f, r, md)
             \/ \E mask \in SUBSET {0, 1, 2} : Access(mask, r, md)
             \/ \E f \in File, compat \in BOOLEAN,
                   cmd \in {"GET_CAP", "SET_CAP", "IDENTIFY", "other"} :
                   Ioctl(f, compat, cmd, r, md)
  BY <1>3 DEF Readdir, Getattr, Access, Ioctl, Request, Reply
<1>4. CASE Unimplemented
  BY <1>4 DEF Unimplemented, Truncate, Create, Chmod, Chown, Link, Mkdir, Mknod, Readlink,
       Rename, Rmdir, Statfs, Symlink, Unlink, Utimens, NotImplemented, Answer, Reply
<1> QED BY <1>1, <1>2, <1>3, <1>4 DEF Next

(* A read or write works on the handle of its file, which is a file's.     *)
LEMMA AccessStep ==
  ASSUME TypeOK, Ownership, NEW f \in File, NEW off \in Offsets, NEW r, NEW md,
         Read(f, off, r, md) \/ Write(f, off, r, md)
  PROVE  /\ Quiet /\ reply'.file = f /\ reply'.off = off
         /\ reply'.sub.cap = root
         /\ Read(f, off, r, md) =>
              /\ reply'.op = "read"
              /\ reply'.ret = IF files[f].md.bytes < off THEN "eof" ELSE "backend"
         /\ Write(f, off, r, md) =>
              /\ reply'.op = "write"
              /\ reply'.ret = IF off > files[f].md.bytes THEN "EINVAL" ELSE "backend"
<1>1. files[f].kind = "file" /\ f \in OpenFiles
  BY DEF Read, Write, OpenFiles, Closed
<1>2. files[f].fh \in live /\ heap[files[f].fh] = AsHandle(files[f].md)
      /\ files[f].md.type = "file" /\ files[f].md # NoMetadata
  BY <1>1 DEF Ownership, OpenFileOwnsItsHandle
<1>3. files[f].fh # Null
  BY <1>2, FsOpsAssumption DEF TypeOK
<1>4. files[f].md \in Metadata
  BY <1>2 DEF TypeOK
<1>5. off \in Nat /\ files[f].md.bytes \in Nat
  BY <1>4, FsOpsAssumption DEF Metadata
<1> DEFINE s == Subject(files[f].fh, r, md)
<1>6. s.type = "file" /\ s.size = files[f].md.bytes /\ s.cap = root /\ s # NotFound
  BY <1>2, <1>3 DEF Subject, AsHandle, NotFound
<1>7. Quiet /\ reply'.file = f /\ reply'.off = off /\ reply'.sub = s
  BY DEF Read, Write, Request, Reply, Quiet
<1>8. ASSUME Read(f, off, r, md)
      PROVE  /\ reply'.op = "read"
             /\ reply'.ret = IF s.size < off THEN "eof" ELSE "backend"
  BY <1>6, <1>8 DEF Read, Request, Reply
<1>9. ASSUME Write(f, off, r, md)
      PROVE  /\ reply'.op = "write"
             /\ reply'.ret = IF off > s.size THEN "EINVAL" ELSE "backend"
  BY <1>6, <1>9 DEF Write, Request, Reply
<1> HIDE DEF s
<1> QED BY <1>6, <1>7, <1>8, <1>9

(* Which reads and writes reach the backend is settled by the size that    *)
(* open saw (read.c:79, write.c:79), whatever was opened and released      *)
(* since; a read at the very end is the subject of the run fsops_read_end. *)
THEOREM AccessFollows == Spec => []AccessFollowsOpen
<1>1. Init => AccessFollowsOpen
  BY DEF Init, AccessFollowsOpen
<1>2. TypeOK /\ Ownership /\ AccessFollowsOpen /\ [Next]_vars => AccessFollowsOpen'
  <2> SUFFICES ASSUME TypeOK, Ownership, AccessFollowsOpen, [Next]_vars
               PROVE AccessFollowsOpen'
    OBVIOUS
  <2>1. CASE \E f \in File, off \in Offsets, r \in {"ok", "error"}, md \in Answers :
               Read(f, off, r, md) \/ Write(f, off, r, md)
    <3>1. PICK f \in File, off \in Offsets, r \in {"ok", "error"}, md \in Answers :
                 Read(f, off, r, md) \/ Write(f, off, r, md)
      BY <2>1
    <3>2. files' = files /\ reply'.file = f /\ reply'.off = off
      BY <3>1, AccessStep DEF Quiet
    <3>3. off \in Nat /\ files[f].md.bytes \in Nat
      <4>1. f \in OpenFiles
        BY <3>1 DEF Read, Write, OpenFiles, Closed
      <4>2. files[f].md \in Metadata
        BY <4>1 DEF Ownership, OpenFileOwnsItsHandle, TypeOK
      <4> QED BY <4>2, FsOpsAssumption DEF Metadata
    <3>4. CASE Read(f, off, r, md)
      <4>1. /\ reply'.op = "read"
            /\ reply'.ret = IF files[f].md.bytes < off THEN "eof" ELSE "backend"
        BY <3>4, AccessStep
      <4> QED BY <3>2, <3>3, <4>1 DEF AccessFollowsOpen
    <3>5. CASE Write(f, off, r, md)
      <4>1. /\ reply'.op = "write"
            /\ reply'.ret = IF off > files[f].md.bytes THEN "EINVAL" ELSE "backend"
        BY <3>5, AccessStep
      <4> QED BY <3>2, <3>3, <4>1 DEF AccessFollowsOpen
    <3> QED BY <3>1, <3>4, <3>5
  <2>2. CASE UNCHANGED vars
    BY <2>2 DEF vars, AccessFollowsOpen
  <2>3. CASE reply'.op \notin {"read", "write"}
    BY <2>3 DEF AccessFollowsOpen
  <2> QED BY <2>1, <2>2, <2>3, ReplyKinds
<1> QED BY <1>1, <1>2, TypeCorrect, OwnershipInvariant, PTL DEF Spec

(* What a read or write hands to the backend is the capref of the root,    *)
(* and decoding it (files.c:146) gives the capability the backend encoded, *)
(* for every width of the fields and every salt.                           *)
THEOREM RootReached == Spec => []BackendGetsTheRoot
<1>1. Init => BackendGetsTheRoot
  BY DEF Init, BackendGetsTheRoot
<1>2. TypeOK /\ Ownership /\ RootEncoded /\ BackendGetsTheRoot /\ [Next]_vars
        => BackendGetsTheRoot'
  <2> SUFFICES ASSUME TypeOK, Ownership, RootEncoded, BackendGetsTheRoot, [Next]_vars
               PROVE BackendGetsTheRoot'
    OBVIOUS
  <2>1. CASE \E f \in File, off \in Offsets, r \in {"ok", "error"}, md \in Answers :
               Read(f, off, r, md) \/ Write(f, off, r, md)
    <3>1. root' = root /\ reply'.sub.cap = root
      BY <2>1, AccessStep DEF Quiet
    <3>2. PICK c \in RootCaps : root = ToCapref(c)
      BY DEF RootEncoded
    <3>3. FromCapref(ToCapref(c)) = c
      BY <3>2, RoundTrip, FsOpsAssumption
    <3>4. root' = ToCapref(c) /\ FromCapref(reply'.sub.cap) = c
      BY <3>1, <3>2, <3>3
    <3> QED BY <3>4 DEF BackendGetsTheRoot, ToCapref, FromCapref
  <2>2. CASE UNCHANGED vars
    BY <2>2 DEF vars, BackendGetsTheRoot
  <2>3. CASE reply'.ret # "backend"
    BY <2>3 DEF BackendGetsTheRoot
  <2> QED BY <2>1, <2>2, <2>3, ReplyKinds
<1> QED BY <1>1, <1>2, TypeCorrect, OwnershipInvariant, RootInvariant, PTL DEF Spec

-----------------------------------------------------------------------------
(* A file that is open has the object its handle holds, of a type that     *)
(* goes with how it was opened.                                            *)
LEMMA OpenObject ==
  ASSUME TypeOK, Ownership, NEW f \in File, files[f].kind \in {"file", "dir"} \/ f \in OpenFiles
  PROVE  /\ f \in OpenFiles /\ Objects[f] = heap[files[f].fh] /\ files[f].fh # Null
         /\ Objects[f] = AsHandle(files[f].md)
         /\ files[f].kind = "file" => Objects[f].type = "file"
         /\ files[f].kind = "dir" => Objects[f].type \in DirTypes
         /\ Objects[f].type \in DirTypes \cup {"file"}
<1>1. f \in OpenFiles
  BY DEF OpenFiles, Closed
<1>2. /\ files[f].fh \in live /\ heap[files[f].fh] = AsHandle(files[f].md)
      /\ files[f].md.type \in IF files[f].kind = "dir" THEN DirTypes ELSE {"file"}
  BY <1>1 DEF Ownership, OpenFileOwnsItsHandle
<1>3. files[f].fh # Null
  BY <1>2, FsOpsAssumption DEF TypeOK
<1>4. Objects[f] = heap[files[f].fh]
  BY <1>1 DEF Objects
<1>5. AsHandle(files[f].md).type = files[f].md.type
  BY DEF AsHandle
<1> QED BY <1>1, <1>2, <1>3, <1>4, <1>5

(* A file that is not open has no object.                                  *)
LEMMA ClosedObject ==
  ASSUME NEW f \in File, files[f] = Closed PROVE Objects[f] = Unopened
  BY DEF Objects, OpenFiles

(* What changes no handle and no file changes no object.                   *)
LEMMA ObjectsKept == ASSUME Quiet PROVE Objects' = Objects /\ root' = root
  BY DEF Quiet, Objects, OpenFiles

(* A handle that calloc has just returned gives the file that was opened   *)
(* its object, and is no other file's: their objects stay.                 *)
LEMMA InstallObject ==
  ASSUME TypeOK, Ownership, NEW f \in File, NEW kind \in {"file", "dir"},
         NEW md \in Answers \ {NoMetadata}, NEW h \in Handle \ live,
         files[f] = Closed, Install(f, kind, md, h), root' = root
  PROVE  Objects' = [Objects EXCEPT ![f] = AsHandle(md)]
<1> DEFINE new == [kind |-> kind, fh |-> h, md |-> md]
<1>1. heap' = [heap EXCEPT ![h] = AsHandle(md)] /\ files' = [files EXCEPT ![f] = new]
  BY DEF Install
<1>2. new # Closed /\ new.fh = h
  BY DEF Closed
<1> HIDE DEF new
<1>3. files'[f] = new /\ heap'[h] = AsHandle(md) /\ OpenFiles' = OpenFiles \cup {f}
  BY <1>1, <1>2 DEF TypeOK, OpenFiles
<1>4. ASSUME NEW g \in File, g # f
      PROVE  Objects'[g] = Objects[g]
  <2>1. files'[g] = files[g]
    BY <1>1, <1>4 DEF TypeOK
  <2>2. CASE g \in OpenFiles
    <3>1. files[g].fh \in live
      BY <2>2 DEF Ownership, OpenFileOwnsItsHandle
    <3>2. heap'[files[g].fh] = heap[files[g].fh]
      BY <1>1, <3>1 DEF TypeOK
    <3> QED BY <1>3, <2>1, <2>2, <3>2 DEF Objects
  <2>3. CASE g \notin OpenFiles
    <3>1. g \notin OpenFiles'
      BY <1>3, <1>4, <2>3
    <3> QED BY <2>3, <3>1 DEF Objects, Unopened
  <2> QED BY <2>2, <2>3
<1>5. Objects'[f] = AsHandle(md)
  BY <1>2, <1>3 DEF Objects
<1> QED BY <1>4, <1>5 DEF Objects

(* What is released loses its object, and no other file does: releasedir   *)
(* frees a handle but writes to none.                                      *)
LEMMA ReleaseObject ==
  ASSUME TypeOK, NEW f \in File, Release(f) \/ Releasedir(f)
  PROVE  Objects' = [Objects EXCEPT ![f] = Unopened]
<1>1. files' = [files EXCEPT ![f] = Closed] /\ heap' = heap
  BY DEF Release, Releasedir
<1>2. OpenFiles' = OpenFiles \ {f} /\ \A g \in File \ {f} : files'[g] = files[g]
  BY <1>1 DEF TypeOK, OpenFiles
<1>3. \A g \in File : Objects'[g] = IF g = f THEN Unopened ELSE Objects[g]
  BY <1>1, <1>2 DEF Objects, Unopened
<1> QED BY <1>3 DEF Objects

(* open and opendir give one file the object they were told of, or refuse. *)
LEMMA OpeningImplements ==
  ASSUME TypeOK, Ownership, NEW f \in File, NEW r \in {"ok", "error"}, NEW md \in Answers,
         NEW h \in (Handle \ live) \cup {Null}, Open(f, r, md, h) \/ Opendir(f, r, md, h)
  PROVE  Promise!Next
<1>1. Objects[f] = Promise!NotOpen
  BY ClosedObject DEF Open, Opendir, Promise!NotOpen, Promise!Nothing, Unopened
<1>2. ASSUME NEW op, NEW kind \in {"file", "dir"}, NEW types,
             files[f] = Closed, root' = root,
             Reply(op, f, OpenRet(types, r, md, h), NotFound, 0),
             IF OpenRet(types, r, md, h) = "ok" THEN Install(f, kind, md, h)
                                                ELSE UNCHANGED <<live, heap, files>>
      PROVE  Promise!Opening(op, types)
  <2>1. Promise!Asked(op, f) /\ Promise!Told(OpenRet(types, r, md, h), Promise!Missing, 0)
    BY <1>2 DEF Reply, Promise!Asked, Promise!Told, Promise!Missing, Promise!Nothing, NotFound
  <2>2. CASE OpenRet(types, r, md, h) = "ok"
    <3>1. md \in Answers \ {NoMetadata} /\ h \in Handle \ live /\ md.type \in types
      BY <2>2 DEF OpenRet
    <3>2. Objects' = [Objects EXCEPT ![f] = AsHandle(md)]
      BY <1>2, <2>2, <3>1, InstallObject
    <3>3. Promise!Object(md) = AsHandle(md)
      BY DEF Promise!Object, AsHandle
    <3> QED BY <1>1, <1>2, <2>1, <2>2, <3>1, <3>2, <3>3 DEF Promise!Opening, Promise!IsOpen
  <2>3. CASE OpenRet(types, r, md, h) # "ok"
    <3>1. OpenRet(types, r, md, h) \in {"EINVAL", "ENOENT", "ENOMEM"}
      BY <2>3 DEF OpenRet
    <3>2. Promise!Same
      BY <1>2, <2>3, ObjectsKept DEF Promise!Same, Quiet
    <3> QED BY <1>1, <2>1, <3>1, <3>2 DEF Promise!Opening, Promise!IsOpen
  <2> QED BY <2>2, <2>3
<1>3. CASE Open(f, r, md, h)
  <2>1. Promise!Opening("open", {"file"})
    BY <1>2, <1>3 DEF Open
  <2> QED BY <2>1 DEF Promise!Next
<1>4. CASE Opendir(f, r, md, h)
  <2>1. Promise!Opening("opendir", DirTypes)
    BY <1>2, <1>4 DEF Opendir
  <2> QED BY <2>1 DEF Promise!Next, Promise!Directory, DirTypes
<1> QED BY <1>3, <1>4

(* release, releasedir, flush and fsync.                                   *)
LEMMA ReleaseImplements ==
  ASSUME TypeOK, Ownership, NEW f \in File,
         Release(f) \/ Releasedir(f) \/ Flush(f) \/ Fsync(f)
  PROVE  Promise!Next
<1>1. files[f].kind = "file" => Objects[f].type = "file"
  BY OpenObject
<1>2. files[f].kind = "dir" => Objects[f].type \in Promise!Directory
  BY OpenObject DEF Promise!Directory, DirTypes
<1>3. CASE Release(f)
  <2>1. Promise!Close("release", {"file"}, "ENOTSUP")
    BY <1>1, <1>3, ReleaseObject DEF Release, Reply, Promise!Close, Promise!Asked, Promise!Told,
       Promise!Missing, Promise!NotOpen, Promise!Nothing, NotFound, Unopened
  <2> QED BY <2>1 DEF Promise!Next
<1>4. CASE Releasedir(f)
  <2>1. Promise!Close("releasedir", Promise!Directory, "ok")
    BY <1>2, <1>4, ReleaseObject DEF Releasedir, Reply, Promise!Close, Promise!Asked,
       Promise!Told, Promise!Missing, Promise!NotOpen, Promise!Nothing, NotFound, Unopened
  <2> QED BY <2>1 DEF Promise!Next
<1>5. CASE Flush(f) \/ Fsync(f)
  <2>1. Promise!Same
    BY <1>5, ObjectsKept DEF Flush, Fsync, Answer, Quiet, Promise!Same
  <2>2. Promise!Sync("flush") \/ Promise!Sync("fsync")
    BY <1>1, <1>5, <2>1 DEF Flush, Fsync, Answer, Reply, Promise!Sync, Promise!Asked,
       Promise!Told, Promise!Missing, Promise!Nothing, NotFound
  <2> QED BY <2>2 DEF Promise!Next
<1> QED BY <1>3, <1>4, <1>5

(* What a request says it was asked and told.                              *)
LEMMA RequestTells ==
  ASSUME NEW op, NEW f, NEW s, NEW ret, NEW off, Request(op, f, s, ret, off)
  PROVE  Promise!Asked(op, f) /\ Promise!Told(ret, s, off) /\ Promise!Same
<1>1. Promise!Same
  BY ObjectsKept DEF Request, Quiet, Promise!Same
<1>2. Promise!Asked(op, f) /\ Promise!Told(ret, s, off)
  BY DEF Request, Reply, Promise!Asked, Promise!Told
<1> QED BY <1>1, <1>2

(* Reads and writes are answered from the object of their file.            *)
LEMMA AccessImplements ==
  ASSUME TypeOK, Ownership, NEW f \in File, NEW off \in Offsets, NEW r, NEW md,
         Read(f, off, r, md) \/ Write(f, off, r, md)
  PROVE  Promise!Next
<1> DEFINE s == Subject(files[f].fh, r, md)
<1>1. files[f].kind = "file"
  BY DEF Read, Write
<1>2. s = Objects[f] /\ s.type = "file" /\ f \in OpenFiles
  BY <1>1, OpenObject DEF Subject
<1>3. s # NotFound
  BY <1>2 DEF NotFound
<1>4. off \in Nat /\ s.size \in Nat
  <2>1. files[f].fh \in Handle
    BY <1>2 DEF Ownership, OpenFileOwnsItsHandle, TypeOK
  <2>2. Objects[f] = heap[files[f].fh]
    BY <1>1, OpenObject
  <2> QED BY <1>2, <2>1, <2>2, FsOpsAssumption DEF TypeOK, HandleRec
<1>5. CASE Read(f, off, r, md)
  <2>1. Request("read", f, s, IF s.size < off THEN "eof" ELSE "backend", off)
    BY <1>2, <1>3, <1>5 DEF Read
  <2> HIDE DEF s
  <2>2. Promise!Asked("read", f) /\ Promise!Same
        /\ Promise!Told(IF s.size < off THEN "eof" ELSE "backend", s, off)
    BY <2>1, RequestTells
  <2>3. CASE off < s.size
    <3>1. Promise!Told("backend", s, off)
      BY <1>4, <2>2, <2>3
    <3> QED BY <1>2, <2>2, <2>3, <3>1 DEF Promise!Next, Promise!Read, Promise!Access
  <2>4. CASE off = s.size
    <3>1. Promise!Told("backend", s, off)
      BY <1>4, <2>2, <2>4
    <3> QED BY <1>2, <2>2, <2>4, <3>1 DEF Promise!Next, Promise!Read, Promise!Access
  <2>5. CASE off > s.size
    <3>1. Promise!Told("eof", s, off)
      BY <1>4, <2>2, <2>5
    <3> QED BY <1>2, <2>2, <2>5, <3>1 DEF Promise!Next, Promise!Read, Promise!Access
  <2> QED BY <1>4, <2>3, <2>4, <2>5
<1>6. CASE Write(f, off, r, md)
  <2>1. Request("write", f, s, IF off > s.size THEN "EINVAL" ELSE "backend", off)
    BY <1>2, <1>3, <1>6 DEF Write
  <2> HIDE DEF s
  <2>2. Promise!Asked("write", f) /\ Promise!Same
        /\ Promise!Told(IF off > s.size THEN "EINVAL" ELSE "backend", s, off)
    BY <2>1, RequestTells
  <2>3. CASE off < s.size
    <3>1. Promise!Told("backend", s, off)
      BY <1>4, <2>2, <2>3
    <3> QED BY <1>2, <2>2, <2>3, <3>1 DEF Promise!Next, Promise!Write, Promise!Access
  <2>4. CASE off = s.size
    <3>1. Promise!Told("backend", s, off)
      BY <1>4, <2>2, <2>4
    <3> QED BY <1>2, <2>2, <2>4, <3>1 DEF Promise!Next, Promise!Write, Promise!Access
  <2>5. CASE off > s.size
    <3>1. Promise!Told("EINVAL", s, off)
      BY <1>4, <2>2, <2>5
    <3> QED BY <1>2, <2>2, <2>5, <3>1 DEF Promise!Next, Promise!Write, Promise!Access
  <2> QED BY <1>4, <2>3, <2>4, <2>5
<1> QED BY <1>5, <1>6

(* readdir, fstat and ioctl are answered from the object of their file.    *)
LEMMA LookImplements ==
  ASSUME TypeOK, Ownership, NEW f \in File, NEW r, NEW md, NEW compat \in BOOLEAN, NEW cmd,
         Readdir(f, r, md) \/ Getattr(f, r, md) \/ Ioctl(f, compat, cmd, r, md)
  PROVE  Promise!Next
<1> DEFINE s == Subject(files[f].fh, r, md)
<1>1. files[f].kind \in {"file", "dir"} \/ f \in OpenFiles
  BY FsOpsAssumption DEF Readdir, Getattr, Ioctl, OpenFiles
<1>2. s = Objects[f] /\ s.type \in DirTypes \cup {"file"}
  BY <1>1, OpenObject DEF Subject
<1>3. s # NotFound
  BY <1>2 DEF NotFound, DirTypes
<1>4. CASE Readdir(f, r, md)
  <2>1. s.type \in DirTypes
    BY <1>2, <1>4, OpenObject DEF Readdir
  <2>2. Request("readdir", f, s, "ok", 0)
    BY <1>4, <2>1 DEF Readdir
  <2> HIDE DEF s
  <2>3. Promise!Look("readdir", Promise!Directory, {"ok"})
    BY <1>2, <2>1, <2>2, RequestTells DEF Promise!Look, Promise!Directory, DirTypes
  <2> QED BY <2>3 DEF Promise!Next
<1>5. CASE Getattr(f, r, md)
  <2>1. f # NoFile
    BY FsOpsAssumption
  <2>2. Request("getattr", f, s, "ok", 0)
    BY <1>2, <1>5, <2>1 DEF Getattr
  <2> HIDE DEF s
  <2>3. Promise!Look("getattr", Promise!Directory \cup {"file"}, {"ok"})
    BY <1>2, <2>2, RequestTells DEF Promise!Look, Promise!Directory, DirTypes
  <2> QED BY <2>3 DEF Promise!Next
<1>6. CASE Ioctl(f, compat, cmd, r, md)
  <2>1. PICK ret \in {"ok", "EINVAL", "ENOSYS"} : Request("ioctl", f, s, ret, 0)
    <3>1. CASE compat
      BY <1>6, <3>1 DEF Ioctl
    <3>2. CASE ~ compat /\ cmd = "GET_CAP"
      BY <1>2, <1>3, <1>6, <3>2 DEF Ioctl
    <3>3. CASE ~ compat /\ cmd # "GET_CAP"
      BY <1>2, <1>3, <1>6, <3>3 DEF Ioctl
    <3> QED BY <3>1, <3>2, <3>3
  <2> HIDE DEF s
  <2>2. Promise!Look("ioctl", Promise!Directory \cup {"file"}, {"ok", "EINVAL", "ENOSYS"})
    BY <1>2, <2>1, RequestTells DEF Promise!Look, Promise!Directory, DirTypes
  <2> QED BY <2>2 DEF Promise!Next
<1> QED BY <1>4, <1>5, <1>6

(* stat and access see what their path leads to.                           *)
LEMMA LookUpImplements ==
  ASSUME NEW mask, NEW r \in {"ok", "error"}, NEW md \in Answers,
         Getattr(NoFile, r, md) \/ Access(mask, r, md)
  PROVE  Promise!Next
<1> DEFINE s == Subject(Null, r, md)
           found == r = "ok" /\ md # NoMetadata
<1>1. IF found THEN s = Promise!Object(md) /\ md \in Answers \ {NoMetadata}
               ELSE s = Promise!Missing
  BY DEF Subject, Promise!Object, AsHandle, Promise!Missing, Promise!Nothing, NotFound
<1>2. s = Promise!Missing => s.type = "missing"
  BY DEF Promise!Missing, Promise!Nothing
<1>3. CASE Getattr(NoFile, r, md)
  <2>1. Request("getattr", NoFile, s,
                IF s.type \in DirTypes \cup {"file"} THEN "ok" ELSE "ENOENT", 0)
    BY <1>3 DEF Getattr
  <2>2. ~ found => Request("getattr", NoFile, s, "ENOENT", 0)
    BY <1>1, <1>2, <2>1 DEF DirTypes
  <2> HIDE DEF s, found
  <2>3. Promise!LookUp("getattr", {"ok"})
    BY <1>1, <2>1, <2>2, RequestTells DEF Promise!LookUp
  <2> QED BY <2>3 DEF Promise!Next
<1>4. CASE Access(mask, r, md)
  <2>1. PICK ret \in {"ok", "ERANGE", "ENOENT"} : Request("access", NoFile, s, ret, 0)
    BY <1>4 DEF Access
  <2>2. ~ found => Request("access", NoFile, s, "ENOENT", 0)
    BY <1>1, <1>4 DEF Access, Promise!Missing, Promise!Nothing, NotFound
  <2> HIDE DEF s, found
  <2>3. Promise!LookUp("access", {"ok", "ERANGE"})
    BY <1>1, <2>1, <2>2, RequestTells DEF Promise!LookUp
  <2> QED BY <2>3 DEF Promise!Next
<1> QED BY <1>3, <1>4

(* The handlers that are not implemented.                                  *)
LEMMA UnimplementedImplements == ASSUME Unimplemented PROVE Promise!Next
<1>1. Promise!Same
  BY UnimplementedQuiet, ObjectsKept DEF Promise!Same
<1>2. reply'.ret = "ENOTSUP" /\ reply'.sub = NotFound /\ reply'.off = 0
      /\ reply'.op \in {"truncate", "create", "chmod", "chown", "link", "mkdir", "mknod",
                        "readlink", "rename", "rmdir", "statfs", "symlink", "unlink", "utimens"}
  BY DEF Unimplemented, Truncate, Create, Chmod, Chown, Link, Mkdir, Mknod, Readlink, Rename,
     Rmdir, Statfs, Symlink, Unlink, Utimens, NotImplemented, Answer, Reply
<1>3. Promise!Unsupported
  BY <1>1, <1>2 DEF Promise!Unsupported, Promise!Told, Promise!Missing, Promise!Nothing, NotFound
<1> QED BY <1>3 DEF Promise!Next

(* Every request maps to a request on the objects.                         *)
LEMMA NextImplements == ASSUME TypeOK, Ownership, Next PROVE Promise!Next
<1>1. CASE \E f \in File, r \in {"ok", "error"}, md \in Answers, h \in (Handle \ live) \cup {Null} :
             Open(f, r, md, h) \/ Opendir(f, r, md, h)
  BY <1>1, OpeningImplements
<1>2. CASE \E f \in File : Release(f) \/ Releasedir(f) \/ Flush(f) \/ Fsync(f)
  BY <1>2, ReleaseImplements
<1>3. CASE \E r \in {"ok", "error"}, md \in Answers, f \in File, off \in Offsets :
             Read(f, off, r, md) \/ Write(f, off, r, md)
  BY <1>3, AccessImplements
<1>4. CASE \E r \in {"ok", "error"}, md \in Answers, f \in File :
             \/ Readdir(f, r, md) \/ Getattr(f, r, md)
             \/ \E compat \in BOOLEAN, cmd \in {"GET_CAP", "SET_CAP", "IDENTIFY", "other"} :
                   Ioctl(f, compat, cmd, r, md)
  <2>1. PICK r \in {"ok", "error"}, md \in Answers, f \in File :
             \/ Readdir(f, r, md) \/ Getattr(f, r, md)
             \/ \E compat \in BOOLEAN, cmd \in {"GET_CAP", "SET_CAP", "IDENTIFY", "other"} :
                   Ioctl(f, compat, cmd, r, md)
    BY <1>4
  <2>2. PICK compat \in BOOLEAN, cmd \in {"GET_CAP", "SET_CAP", "IDENTIFY", "other"} :
             Readdir(f, r, md) \/ Getattr(f, r, md) \/ Ioctl(f, compat, cmd, r, md)
    BY <2>1
  <2> QED BY <2>2, LookImplements
<1>5. CASE \E r \in {"ok", "error"}, md \in Answers, mask \in SUBSET {0, 1, 2} :
             Getattr(NoFile, r, md) \/ Access(mask, r, md)
  BY <1>5, LookUpImplements
<1>6. CASE Unimplemented
  BY <1>6, UnimplementedImplements
<1>7. (\E r \in {"ok", "error"}, md \in Answers, f \in File \cup {NoFile} : Getattr(f, r, md))
        => (\E r \in {"ok", "error"}, md \in Answers, f \in File : Getattr(f, r, md))
             \/ (\E r \in {"ok", "error"}, md \in Answers, mask \in SUBSET {0, 1, 2} :
                   Getattr(NoFile, r, md))
  OBVIOUS
<1> QED BY <1>1, <1>2, <1>3, <1>4, <1>5, <1>6, <1>7 DEF Next

(* FsOps implements FileObjects: whatever the order of requests, a request *)
(* on an open file is answered from what open copied into its handle       *)
(* (open.c:72, read.c:58), as if handles were never freed and used again.  *)
THEOREM OpenFilesAreObjects == Spec => ImplementsFileObjects
<1>1. Init => Promise!Init
  <2> SUFFICES ASSUME Init PROVE Promise!Init
    OBVIOUS
  <2>1. Objects = [f \in File |-> Promise!NotOpen]
    BY DEF Init, Objects, OpenFiles, Promise!NotOpen, Promise!Nothing, Unopened
  <2> QED BY <2>1 DEF Init, Promise!Init, Promise!Missing, Promise!Nothing, NotFound
<1>2. TypeOK /\ Ownership /\ [Next]_vars => [Promise!Next]_(Promise!vars)
  <2> SUFFICES ASSUME TypeOK, Ownership, [Next]_vars PROVE [Promise!Next]_(Promise!vars)
    OBVIOUS
  <2>1. CASE Next
    BY <2>1, NextImplements
  <2>2. CASE UNCHANGED vars
    BY <2>2, ObjectsKept DEF vars, Quiet, Promise!vars
  <2> QED BY <2>1, <2>2
<1> QED BY <1>1, <1>2, TypeCorrect, OwnershipInvariant, PTL
        DEF Spec, ImplementsFileObjects, Promise!Spec

(* In this build capfs_filesystem_get_metadata always fails                *)
(* (filesystem.c:296): no file or directory is ever opened, no handle is   *)
(* allocated, and no request reaches the backend's read or write.          *)
THEOREM StubOpensNothing ==
  ASSUME Answers = {NoMetadata}
  PROVE  Spec => [](live = {} /\ OpenFiles = {} /\ reply.ret # "backend")
<1> DEFINE Nothing == live = {} /\ OpenFiles = {} /\ reply.ret # "backend"
<1>1. Init => Nothing
  BY DEF Init, OpenFiles
<1>2. Nothing /\ [Next]_vars => Nothing'
  <2> SUFFICES ASSUME Nothing, [Next]_vars PROVE Nothing'
    OBVIOUS
  <2>1. ~ Installs
    BY DEF Installs
  <2>2. \A f \in File : files[f].kind = "closed"
    BY DEF OpenFiles, Closed
  <2>3. Quiet
    BY <2>1, <2>2, StepKinds DEF Release, Releasedir
  <2>4. reply'.ret # "backend"
    BY <2>2, ReplyKinds DEF Read, Write, vars
  <2> QED BY <2>3, <2>4 DEF Quiet, OpenFiles
<1> QED BY <1>1, <1>2, PTL DEF Spec
=============================================================================
