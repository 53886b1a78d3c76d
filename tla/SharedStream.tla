---------------------------- MODULE SharedStream ----------------------------
(***************************************************************************)
(* The one FILE * of the files backend (g_st.file) and the threads that    *)
(* serve requests.  Every access to the backing file is two calls, fseek   *)
(* and then fread or fwrite at the position fseek left, and fuse_main runs *)
(* handlers on several threads unless the daemon is given -s.  Each stdio  *)
(* call locks the stream for itself; nothing holds it over the two.        *)
(*                                                                         *)
(* Positions and lengths are bytes of the backing file: the tag map, then  *)
(* the data region.  What the bytes are does not matter here.              *)
(***************************************************************************)
EXTENDS Naturals, Sequences, FiniteSets

CONSTANTS
  Thread,     (* threads of the FUSE loop: one with -s                     *)
  MapBytes,   (* BACKEND_FILES_DATA_OFFSET                                 *)
  FileBytes,  (* BACKEND_FILES_TOTAL_SIZE                                  *)
  TagBytes,   (* sizeof(uint32_t), 4: a word of the tag map                *)
  CapBytes,   (* sizeof(uint64_t), 8: a stored capability, and a pointer   *)
  RootBytes,  (* sizeof(struct capfs_file), 184                            *)
  Longest,    (* bound on the length of an access: FUSE's on a request     *)
  Words,      (* words of the tag map that calls look up or update         *)
  Updates,    (* tag updates, each the words it reads and writes in order: *)
              (* CapTags says which these are                              *)
  Extents,    (* parts of the data region that requests read and write     *)
  Slots,      (* offsets of stored capabilities                            *)
  Depths      (* numbers of components of the paths of requests            *)

(* fread(&md, sizeof(md), ...) with md a pointer: a word of the tag map is *)
(* read with the length of a pointer, that is with the word that follows.  *)
TagRead(w)    == [op |-> "read",  at |-> w * TagBytes, len |-> CapBytes]
TagWrite(w)   == [op |-> "write", at |-> w * TagBytes, len |-> TagBytes]
Data(op, at, len) == [op |-> op, at |-> MapBytes + at, len |-> len]

TagAccesses == { TagRead(w) : w \in Words } \cup { TagWrite(w) : w \in Words }
Inside(a) == a.at + a.len <= FileBytes /\ a.len <= Longest
Access == { a \in [op : {"read", "write"}, at : Nat, len : Nat] : Inside(a) }

(* The bounds checks of CapStore and the assertion on PTR2OFFSET keep what *)
(* calls ask for in the file: what the proofs assume of the constants.     *)
StreamConstants ==
  /\ {MapBytes, FileBytes, TagBytes, CapBytes, RootBytes, Longest} \subseteq Nat
  /\ Words \subseteq Nat /\ Depths \subseteq Nat \ {0}
  /\ Updates \subseteq Seq(TagAccesses)
  /\ Extents \subseteq [at : Nat, len : Nat] /\ Slots \subseteq Nat
  /\ \A a \in TagAccesses : Inside(a)
  /\ Inside(Data("read", 0, RootBytes))
  /\ \A x \in Extents : Inside(Data("read", x.at, x.len))
  /\ \A s \in Slots : Inside(Data("read", s, CapBytes))

(* The accesses of each call of the backend, in order; the tag lookup of   *)
(* get_cap may end it.                                                     *)
ReadCall(x)      == <<Data("read", x.at, x.len)>>
WriteCall(u, x)  == u \o <<Data("write", x.at, x.len)>>
PutCall(slot, u) == <<Data("write", slot, CapBytes)>> \o u
LookupCall(w)    == <<TagRead(w)>>
GetCall(w, slot) == <<TagRead(w), Data("read", slot, CapBytes)>>

(* capfs_filesystem_resolve_path, with which every handler that looks at a *)
(* path starts: it reads the root block once for each component.           *)
Resolve(components) == [i \in 1 .. components |-> Data("read", 0, RootBytes)]

Calls ==
  { Resolve(n) : n \in Depths }
    \cup { ReadCall(x) : x \in Extents }
    \cup { WriteCall(u, x) : u \in Updates, x \in Extents }
    \cup { PutCall(s, u) : s \in Slots, u \in Updates }
    \cup { LookupCall(w) : w \in Words }
    \cup { GetCall(w, s) : w \in Words, s \in Slots }

VARIABLES
  pos,   (* the position of the stream                                     *)
  end,   (* the end of the file                                            *)
  todo,  (* for each thread, the accesses its call has left                *)
  pc,    (* for each thread: "idle", "seek", or "transfer" after its fseek *)
  last   (* the last transfer: where its call asked for it and where it    *)
         (* happened                                                       *)

vars == <<pos, end, todo, pc, last>>

Init ==
  /\ pos = 0 /\ end = FileBytes
  /\ todo = [t \in Thread |-> <<>>]
  /\ pc = [t \in Thread |-> "idle"]
  /\ last = [want |-> 0, at |-> 0]

(* A request arrives and its handler makes a call. *)
Start(t) ==
  /\ pc[t] = "idle"
  /\ \E c \in Calls : todo' = [todo EXCEPT ![t] = c]
  /\ pc' = [pc EXCEPT ![t] = "seek"]
  /\ UNCHANGED <<pos, end, last>>

(* fseek(g_st.file, ..., SEEK_SET) *)
SeekSet(t) ==
  /\ pc[t] = "seek"
  /\ pos' = Head(todo[t]).at
  /\ pc' = [pc EXCEPT ![t] = "transfer"]
  /\ UNCHANGED <<end, todo, last>>

(* fread stops at the end of the file, fwrite moves the end.               *)
Move(a) ==
  IF a.op = "read"
  THEN /\ pos' = IF pos + a.len <= end THEN pos + a.len ELSE end
       /\ UNCHANGED end
  ELSE /\ pos' = pos + a.len
       /\ end' = IF pos + a.len <= end THEN end ELSE pos + a.len

(* fread or fwrite at the position of the stream, which is left behind     *)
(* what was moved; the call returns after its last access.                 *)
Transfer(t) ==
  /\ pc[t] = "transfer"
  /\ last' = [want |-> Head(todo[t]).at, at |-> pos]
  /\ Move(Head(todo[t]))
  /\ todo' = [todo EXCEPT ![t] = Tail(@)]
  /\ pc' = [pc EXCEPT ![t] = IF Len(todo[t]) = 1 THEN "idle" ELSE "seek"]

Next == \E t \in Thread : Start(t) \/ SeekSet(t) \/ Transfer(t)

Spec == Init /\ [][Next]_vars

-----------------------------------------------------------------------------
(***************************************************************************)
(* Properties                                                              *)
(***************************************************************************)

(* The stream stays within the file, which never shrinks; threads have     *)
(* something left to do exactly while they are in a call.                  *)
TypeOK ==
  /\ end \in Nat /\ FileBytes <= end /\ pos \in 0 .. end
  /\ todo \in [Thread -> Seq(Access)]
  /\ pc \in [Thread -> {"idle", "seek", "transfer"}]
  /\ \A t \in Thread : pc[t] = "idle" <=> todo[t] = <<>>
  /\ last \in [want : Nat, at : Nat]

(* capfs_backend.h:177 "reads data from a capability" and :190 "writes     *)
(* data into a capability": the bytes that are moved are those the call    *)
(* named, not the ones another request moved the stream to in between.     *)
AccessesItsCapability == last.at = last.want

(* Where calls ask for a transfer, and the start of the file, where the    *)
(* stream is at first.                                                     *)
Sought == {0} \cup { a.at : a \in UNION { { c[i] : i \in 1 .. Len(c) } : c \in Calls } }

(* However the threads interleave, a transfer that is not where its call   *)
(* asked for it lies behind a place that some call did ask for, by no more *)
(* than every other thread can have moved the stream since.                *)
StaysNearACall ==
  \E x \in Sought : /\ x <= last.at
                    /\ last.at <= x + (Cardinality(Thread) - 1) * Longest
=============================================================================
