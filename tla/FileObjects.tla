----------------------------- MODULE FileObjects -----------------------------
(***************************************************************************)
(* What the handlers of src/src/fsops promise of open files, without       *)
(* handles, pointers or an allocator: a file that is opened becomes an     *)
(* object of its own, which keeps what open was told of the file until it  *)
(* is released; every request on the open file is answered from its object *)
(* alone, and no request changes the object of another file, or its own.   *)
(***************************************************************************)
EXTENDS Integers

CONSTANTS File, NoFile,   (* the files that may be open; a request on a    *)
                          (* path                                          *)
          Known,          (* metadata of the files there may be            *)
          Roots,          (* caprefs of the store                          *)
          Offsets         (* of reads and writes                           *)

VARIABLES object,         (* what is open                                  *)
          cap,            (* the capref of the store                       *)
          answer          (* to the last request, and what it worked on    *)

vars == <<object, cap, answer>>

Nothing(type) == [type |-> type, size |-> 0, cap |-> {}, perms |-> 0]
NotOpen == Nothing("closed")
Missing == Nothing("missing")

Object(md) == [type |-> md.type, size |-> md.bytes, cap |-> cap, perms |-> md.perms]

Directory == {"root", "directory"}
IsOpen(f) == object[f] # NotOpen

(* The request of a step, and what it answers; Same: it changes nothing.   *)
Asked(op, f) == answer'.op = op /\ answer'.file = f
Told(ret, sub, off) == answer'.ret = ret /\ answer'.sub = sub /\ answer'.off = off
Same == UNCHANGED <<object, cap>>

Init ==
  /\ object = [f \in File |-> NotOpen]
  /\ cap \in Roots
  /\ answer = [op |-> "none", file |-> NoFile, ret |-> "ok", sub |-> Missing, off |-> 0]

Opening(op, types) ==
  \E f \in File :
    /\ Asked(op, f) /\ ~ IsOpen(f)
    /\ \/ \E md \in Known :
             /\ md.type \in types /\ Told("ok", Missing, 0)
             /\ object' = [object EXCEPT ![f] = Object(md)] /\ UNCHANGED cap
       \/ \E error \in {"EINVAL", "ENOENT", "ENOMEM"} : Told(error, Missing, 0) /\ Same

Close(op, types, ret) ==
  \E f \in File :
    /\ Asked(op, f) /\ object[f].type \in types
    /\ Told(ret, Missing, 0)
    /\ object' = [object EXCEPT ![f] = NotOpen] /\ UNCHANGED cap

Sync(op) ==
  \E f \in File :
    Asked(op, f) /\ object[f].type = "file" /\ Told("ok", Missing, 0) /\ Same

(* Below the size that open saw, reads and writes go to the store, beyond  *)
(* it they are refused.                                                    *)
Access(op, atEnd, beyond) ==
  \E f \in File, off \in Offsets :
    /\ Asked(op, f) /\ object[f].type = "file"
    /\ \/ off < object[f].size /\ Told("backend", object[f], off)
       \/ off = object[f].size /\ \E ret \in atEnd : Told(ret, object[f], off)
       \/ off > object[f].size /\ Told(beyond, object[f], off)
    /\ Same

(* A write at the very end goes to the store.  Of a read there, the code   *)
(* and its documentation say different things: it is left open here, see   *)
(* ReadAtEndReturnsNothing of FsOps.                                       *)
Read  == Access("read", {"backend", "eof"}, "eof")
Write == Access("write", {"backend"}, "EINVAL")

(* Requests that look at an open file are granted.                         *)
Look(op, types, granted) ==
  \E f \in File :
    /\ Asked(op, f) /\ object[f].type \in types
    /\ \E ret \in granted : Told(ret, object[f], 0)
    /\ Same

(* Requests on a path see what the path leads to, if anything.             *)
LookUp(op, granted) ==
  /\ Asked(op, NoFile)
  /\ \/ \E md \in Known, ret \in granted \cup {"ENOENT"} : Told(ret, Object(md), 0)
     \/ Told("ENOENT", Missing, 0)
  /\ Same

Unsupported ==
  /\ answer'.op \in {"truncate", "create", "chmod", "chown", "link", "mkdir", "mknod",
                     "readlink", "rename", "rmdir", "statfs", "symlink", "unlink", "utimens"}
  /\ Told("ENOTSUP", Missing, 0) /\ Same

Next ==
  \/ Opening("open", {"file"}) \/ Opening("opendir", Directory)
  \/ Close("release", {"file"}, "ENOTSUP") \/ Close("releasedir", Directory, "ok")
  \/ Read \/ Write
  \/ Sync("flush") \/ Sync("fsync")
  \/ Look("readdir", Directory, {"ok"}) \/ Look("getattr", Directory \cup {"file"}, {"ok"})
  \/ Look("ioctl", Directory \cup {"file"}, {"ok", "EINVAL", "ENOSYS"})
  \/ LookUp("getattr", {"ok"}) \/ LookUp("access", {"ok", "ERANGE"})
  \/ Unsupported

Spec == Init /\ [][Next]_vars
=============================================================================
