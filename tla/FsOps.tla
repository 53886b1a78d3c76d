-------------------------------- MODULE FsOps --------------------------------
(***************************************************************************)
(* The handlers of FUSE requests (src/src/fsops) and the handles they keep *)
(* between requests: struct capfs_handle is allocated by open and opendir, *)
(* comes back as fi->fh with every later request on the open file and is   *)
(* freed by releasedir.                                                    *)
(*                                                                         *)
(* A handler is one step.  The kernel opens files and directories, makes   *)
(* requests on what it has open, flushes a file any number of times, and   *)
(* releases it once.  What capfs_filesystem_get_metadata answers is a      *)
(* parameter: in this build it is a stub that always fails (NoMetadata).   *)
(* Paths resolve to the root or not at all, as PathResolve shows.          *)
(***************************************************************************)
EXTENDS CapCodec

CONSTANTS
  File, NoFile,    (* the files the kernel may have open at once (bound);  *)
                   (* a request on a path                                  *)
  Handle, Null,    (* what calloc may return (bound); NULL and fi->fh = 0  *)
  Answers,         (* answers of capfs_filesystem_get_metadata             *)
  NoMetadata,      (* its error                                            *)
  Offsets,         (* offsets of reads and writes                          *)
  RootCaps         (* capabilities the backend may start with              *)

(* capfs_filetype_t, with the bits of the number of each type.             *)
TypeBits == [none |-> {}, root |-> {0}, directory |-> {1}, file |-> {0, 1},
             symlink |-> {2}, hardlink |-> {0, 2}]
FileType == DOMAIN TypeBits

(* struct capfs_filesystem_meta_data *)
Metadata == [perms : Nat, bytes : Nat, type : FileType]

ASSUME FsOpsAssumption ==
  /\ NoFile \notin File /\ Null \notin Handle /\ NoMetadata \notin Metadata
  /\ Answers \subseteq Metadata \cup {NoMetadata}
  /\ Offsets \subseteq Nat
  /\ RootCaps \subseteq Capability

VARIABLES
  live,    (* the handles that are allocated                               *)
  heap,    (* what the memory of each handle holds, freed or not           *)
  files,   (* the open files of the kernel, each with its fi->fh, and the  *)
           (* metadata it was opened with (history)                        *)
  root,    (* capfs_root_capability                                        *)
  reply    (* the last request and what it returned; sub is the file that  *)
           (* the handler worked on                                        *)

vars == <<live, heap, files, root, reply>>

(* struct capfs_handle *)
HandleRec == [type : FileType, size : Nat, cap : Word, perms : Nat]
AsHandle(md) == [type |-> md.type, size |-> md.bytes, cap |-> root, perms |-> md.perms]

NotFound == [type |-> "missing", size |-> 0, cap |-> {}, perms |-> 0]
Closed   == [kind |-> "closed", fh |-> Null, md |-> NoMetadata]

DirTypes == {"root", "directory"}
OpenFiles == { f \in File : files[f] # Closed }

Reply(op, f, ret, sub, off) ==
  reply' = [op |-> op, file |-> f, ret |-> ret, sub |-> sub, off |-> off]
Answer(op, f, ret) ==
  /\ Reply(op, f, ret, NotFound, 0)
  /\ UNCHANGED <<live, heap, files, root>>

Init ==
  /\ live = {} /\ files = [f \in File |-> Closed]
  /\ heap = [h \in Handle |-> [type |-> "none", size |-> 0, cap |-> {}, perms |-> 0]]
  /\ root \in { ToCapref(c) : c \in RootCaps }
  /\ reply = [op |-> "none", file |-> NoFile, ret |-> "ok", sub |-> NotFound, off |-> 0]

-----------------------------------------------------------------------------
(* What open and opendir return: r is the outcome of resolve_path, md that *)
(* of get_metadata, h that of calloc.                                      *)
OpenRet(types, r, md, h) ==
  IF r = "error" THEN "EINVAL"
  ELSE IF md = NoMetadata THEN "ENOENT"
  ELSE IF md.type \notin types THEN "EINVAL"
  ELSE IF h = Null THEN "ENOMEM" ELSE "ok"

(* Mutant of Install: the size is left as calloc made it.                  *)
InstallNoSize(f, kind, md, h) ==
  /\ live' = live \cup {h}
  /\ heap' = [heap EXCEPT ![h] = [AsHandle(md) EXCEPT !.size = 0]]
  /\ files' = [files EXCEPT ![f] = [kind |-> kind, fh |-> h, md |-> md]]

Install(f, kind, md, h) ==
  /\ live' = live \cup {h}
  /\ heap' = [heap EXCEPT ![h] = AsHandle(md)]
  /\ files' = [files EXCEPT ![f] = [kind |-> kind, fh |-> h, md |-> md]]

Open(f, r, md, h) ==
  LET ret == OpenRet({"file"}, r, md, h) IN
  /\ files[f] = Closed
  /\ IF ret = "ok" THEN Install(f, "file", md, h) ELSE UNCHANGED <<live, heap, files>>
  /\ Reply("open", f, ret, NotFound, 0)
  /\ UNCHANGED root

(* Mutant of Opendir: the handle is allocated before the type is checked.  *)
OpendirEarly(f, r, md, h) ==
  LET ret == OpenRet(DirTypes, r, md, h) IN
  /\ files[f] = Closed
  /\ IF ret = "ok" THEN Install(f, "dir", md, h)
     ELSE IF r = "ok" /\ md # NoMetadata /\ h # Null
     THEN live' = live \cup {h} /\ UNCHANGED <<heap, files>>
     ELSE UNCHANGED <<live, heap, files>>
  /\ Reply("opendir", f, ret, NotFound, 0)
  /\ UNCHANGED root

Opendir(f, r, md, h) ==
  LET ret == OpenRet(DirTypes, r, md, h) IN
  /\ files[f] = Closed
  /\ IF ret = "ok" THEN Install(f, "dir", md, h) ELSE UNCHANGED <<live, heap, files>>
  /\ Reply("opendir", f, ret, NotFound, 0)
  /\ UNCHANGED root

(* release is not implemented: the kernel forgets the file, the handle     *)
(* stays.                                                                  *)
Release(f) ==
  /\ files[f].kind = "file"
  /\ files' = [files EXCEPT ![f] = Closed]
  /\ Reply("release", f, "ENOTSUP", NotFound, 0)
  /\ UNCHANGED <<live, heap, root>>

Releasedir(f) ==
  /\ files[f].kind = "dir"
  /\ live' = live \ {files[f].fh}
  /\ files' = [files EXCEPT ![f] = Closed]
  /\ Reply("releasedir", f, "ok", NotFound, 0)
  /\ UNCHANGED <<heap, root>>

(* Mutant of Flush: it does the work of release.                           *)
FlushFrees(f) ==
  /\ files[f].kind = "file"
  /\ live' = live \ {files[f].fh}
  /\ Reply("flush", f, "ok", NotFound, 0)
  /\ UNCHANGED <<heap, files, root>>

(* Every close(2) of a duplicate of the file descriptor flushes the file.  *)
Flush(f) == files[f].kind = "file" /\ Answer("flush", f, "ok")
Fsync(f) == files[f].kind = "file" /\ Answer("fsync", f, "ok")

-----------------------------------------------------------------------------
(* Mutant of Subject: the path goes first, the handle is the fallback.     *)
SubjectByPath(fh, r, md) ==
  IF r = "ok" /\ md # NoMetadata THEN AsHandle(md)
  ELSE IF fh # Null THEN heap[fh] ELSE NotFound

(* The file a request is about: that of its handle, if it comes with one,  *)
(* else the one its path resolves to.                                      *)
Subject(fh, r, md) ==
  IF fh # Null THEN heap[fh]
  ELSE IF r = "ok" /\ md # NoMetadata THEN AsHandle(md) ELSE NotFound

(* A request that only looks at its file.                                  *)
Request(op, f, s, ret, off) ==
  /\ Reply(op, f, ret, s, off)
  /\ UNCHANGED <<live, heap, files, root>>

(* "backend": the result is that of capfs_backend_read on the capability   *)
(* of the file, see CapStore.                                              *)
Read(f, off, r, md) ==
  LET s == Subject(files[f].fh, r, md) IN
  /\ files[f].kind = "file"
  /\ Request("read", f, s,
       IF s = NotFound THEN "ENOENT" ELSE IF s.type # "file" THEN "EACCES"
       ELSE IF s.size < off THEN "eof" ELSE "backend", off)

Write(f, off, r, md) ==
  LET s == Subject(files[f].fh, r, md) IN
  /\ files[f].kind = "file"
  /\ Request("write", f, s,
       IF s = NotFound THEN "ENOENT" ELSE IF s.type # "file" THEN "EACCES"
       ELSE IF off > s.size THEN "EINVAL" ELSE "backend", off)

(* The loop over capfs_filesystem_get_direntry ends at once: it returns    *)
(* NULL in this build.                                                     *)
Readdir(f, r, md) ==
  LET s == Subject(files[f].fh, r, md) IN
  /\ files[f].kind = "dir"
  /\ Request("readdir", f, s, IF s.type \in DirTypes THEN "ok" ELSE "ENOENT", 0)

(* fstat comes with the open file, stat with the path only.                *)
Getattr(f, r, md) ==
  LET s == Subject(IF f = NoFile THEN Null ELSE files[f].fh, r, md) IN
  /\ f \in OpenFiles \cup {NoFile}
  /\ Request("getattr", f, s, IF s.type \in DirTypes \cup {"file"} THEN "ok" ELSE "ENOENT", 0)

(* access answers with the bits that the mask and the number of the type   *)
(* have in common; libfuse turns any but 0 into an error.                  *)
Access(mask, r, md) ==
  LET s == Subject(Null, r, md) IN
  Request("access", NoFile, s,
    IF s = NotFound \/ s.type = "none" THEN "ENOENT"
    ELSE IF mask \cap TypeBits[s.type] = {} THEN "ok" ELSE "ERANGE", 0)

(* Commands are plain numbers without the direction bits of _IOC: a known  *)
(* command comes without a data buffer, and GET_CAP returns 0 with nothing *)
(* copied.                                                                 *)
Ioctl(f, compat, cmd, r, md) ==
  LET s == Subject(files[f].fh, r, md) IN
  /\ files[f] # Closed
  /\ Request("ioctl", f, s,
       IF compat THEN "ENOSYS" ELSE IF s = NotFound THEN "ENOENT"
       ELSE IF s.type \in DirTypes \cup {"file"} /\ cmd = "GET_CAP" THEN "ok" ELSE "EINVAL", 0)

-----------------------------------------------------------------------------
(* NYI() *)
NotImplemented(op, f) == Answer(op, f, "ENOTSUP")

Truncate(f) == NotImplemented("truncate", f)
Create      == NotImplemented("create", NoFile)
Chmod       == NotImplemented("chmod", NoFile)
Chown       == NotImplemented("chown", NoFile)
Link        == NotImplemented("link", NoFile)
Mkdir       == NotImplemented("mkdir", NoFile)
Mknod       == NotImplemented("mknod", NoFile)
Readlink    == NotImplemented("readlink", NoFile)
Rename      == NotImplemented("rename", NoFile)
Rmdir       == NotImplemented("rmdir", NoFile)
Statfs      == NotImplemented("statfs", NoFile)
Symlink     == NotImplemented("symlink", NoFile)
Unlink      == NotImplemented("unlink", NoFile)
Utimens     == NotImplemented("utimens", NoFile)

Unimplemented ==
  \/ \E f \in File \cup {NoFile} : Truncate(f)
  \/ Create \/ Chmod \/ Chown \/ Link \/ Mkdir \/ Mknod \/ Readlink
  \/ Rename \/ Rmdir \/ Statfs \/ Symlink \/ Unlink \/ Utimens

(* capfs_ops *)
Next ==
  \/ \E f \in File, r \in {"ok", "error"}, md \in Answers, h \in (Handle \ live) \cup {Null} :
        Open(f, r, md, h) \/ Opendir(f, r, md, h)
  \/ \E f \in File : Release(f) \/ Releasedir(f) \/ Flush(f) \/ Fsync(f)
  \/ \E r \in {"ok", "error"}, md \in Answers :
        \/ \E f \in File, off \in Offsets : Read(f, off, r, md) \/ Write(f, off, r, md)
        \/ \E f \in File : Readdir(f, r, md)
        \/ \E f \in File \cup {NoFile} : Getattr(f, r, md)
        \/ \E mask \in SUBSET {0, 1, 2} : Access(mask, r, md)
        \/ \E f \in File, compat \in BOOLEAN, cmd \in {"GET_CAP", "SET_CAP", "IDENTIFY", "other"} :
              Ioctl(f, compat, cmd, r, md)
  \/ Unimplemented

Spec == Init /\ [][Next]_vars

-----------------------------------------------------------------------------
(***************************************************************************)
(* Properties                                                              *)
(***************************************************************************)

(* Handles, open files and the root have their types.                      *)
TypeOK ==
  /\ live \subseteq Handle
  /\ heap \in [Handle -> HandleRec]
  /\ files \in [File -> [kind : {"closed", "file", "dir"}, fh : Handle \cup {Null},
                         md : Metadata \cup {NoMetadata}]]
  /\ root \in Word

(* The fi->fh of every open file points to an allocated handle that no     *)
(* other open file has, of the kind the file was opened as, and that still *)
(* holds what open was told of the file: no handle is used after it was    *)
(* freed, or freed under another file, in whatever order files and         *)
(* directories are opened, flushed and released.                           *)
OpenFileOwnsItsHandle ==
  \A f \in OpenFiles :
    /\ files[f].fh \in live
    /\ files[f].md # NoMetadata
    /\ heap[files[f].fh] = AsHandle(files[f].md)
    /\ files[f].md.type \in IF files[f].kind = "dir" THEN DirTypes ELSE {"file"}
    /\ \A g \in OpenFiles \ {f} : files[g].fh # files[f].fh

(* A handle that no open file has any more is one of a file: release       *)
(* leaks its handle, but directories and refused opens leak none.          *)
OnlyFilesLeak ==
  \A h \in live : (\A f \in OpenFiles : files[f].fh # h) => heap[h].type = "file"

(* What reads and writes of an open file reach was settled by open,        *)
(* whatever was opened and released since: below the size that open saw    *)
(* both go to the backend, beyond it a read finds the end of the file and  *)
(* a write is refused; a write at the very end goes to the backend.        *)
AccessFollowsOpen ==
  LET bytes == files[reply.file].md.bytes IN
  /\ reply.op = "read" => /\ reply.off < bytes => reply.ret = "backend"
                          /\ reply.off > bytes => reply.ret = "eof"
  /\ reply.op = "write" => reply.ret = IF reply.off <= bytes THEN "backend" ELSE "EINVAL"

(* read.c:43-44 "Returns the number of bytes transferred, 0 if offset was  *)
(* at or beyond the end of the file": a read at the end of an open file    *)
(* returns nothing.                                                        *)
ReadAtEndReturnsNothing ==
  reply.op = "read" /\ reply.off >= files[reply.file].md.bytes => reply.ret = "eof"

(* An open file, as far as its requests can tell: what its handle holds.   *)
Unopened == [type |-> "closed", size |-> 0, cap |-> {}, perms |-> 0]
Objects ==
  [f \in File |-> IF f \in OpenFiles THEN heap[files[f].fh] ELSE Unopened]

Promise == INSTANCE FileObjects
  WITH object <- Objects, cap <- root, answer <- reply,
       Known <- Answers \ {NoMetadata}, Roots <- { ToCapref(c) : c \in RootCaps }

(* The handlers do what FileObjects says, with handles that are allocated, *)
(* freed and allocated again underneath: every open file behaves as an     *)
(* object of its own that nothing but its release changes, and the answer  *)
(* to each request on it is that of its object.                            *)
ImplementsFileObjects == Promise!Spec

(* The capref a read or write hands to the backend, copied by open into a  *)
(* handle, decodes to the capability the backend encoded at start.         *)
BackendGetsTheRoot ==
  reply.ret = "backend" =>
    \E c \in RootCaps : root = ToCapref(c) /\ FromCapref(reply.sub.cap) = c
=============================================================================
