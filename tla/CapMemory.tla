------------------------------ MODULE CapMemory ------------------------------
(***************************************************************************)
(* What capfs_backend.h promises of a memory reached through capabilities, *)
(* without saying how a call checks its arguments: a call that is refused  *)
(* has no effect at all; a call that is accepted changes exactly the bytes *)
(* it names, all of them inside the region of the capability it was made   *)
(* with, and only if that capability carries the write permission; zeroing *)
(* sets bytes of the region to zero and no others.  A call may also end    *)
(* the process, after which nothing happens.                               *)
(***************************************************************************)
EXTENDS Integers

CONSTANTS Memory, (* the addresses                                         *)
          Value,  (* the byte values                                       *)
          Blank   (* the value zeroing leaves                              *)

VARIABLES mem,    (* the bytes                                             *)
          tags,   (* which slots are marked as capabilities                *)
          reply   (* the call in progress or answered last                 *)

vars == <<mem, tags, reply>>

Inside(c) == { a \in Memory : c.base <= a /\ a < c.base + c.size }

(* The bytes the answered call names. *)
Named(r) == { a \in Memory : /\ r.cap.base + r.off <= a
                             /\ a < r.cap.base + r.off + r.len }

MayWrite(c) == "write" \in c.perms

Init == mem \in [Memory -> Value] /\ reply.ret = "ok"

Refuse ==
  /\ reply.ret \notin {"running", "abort"}
  /\ reply'.ret \in {"fail", "eacces"}
  /\ UNCHANGED <<mem, tags>>

Load ==
  /\ reply.ret \notin {"running", "abort"}
  /\ reply'.op \in {"read", "get"} /\ reply'.ret \in {"ok", "abort"}
  /\ "read" \in reply'.cap.perms
  /\ Named(reply') \subseteq Inside(reply'.cap)
  /\ UNCHANGED <<mem, tags>>

Accept ==
  /\ reply.ret \notin {"running", "abort"}
  /\ reply'.op \in {"write", "put"} /\ reply'.ret \in {"ok", "abort"}
  /\ MayWrite(reply'.cap)
  /\ Named(reply') \subseteq Inside(reply'.cap)
  /\ \/ \E v \in Value :
          mem' = [a \in Memory |-> IF a \in Named(reply') THEN v ELSE mem[a]]
     \/ reply'.ret = "abort" /\ mem' = mem

BeginZero ==
  /\ reply.ret \notin {"running", "abort"}
  /\ reply'.op = "zero" /\ reply'.ret = "running" /\ MayWrite(reply'.cap)
  /\ UNCHANGED <<mem, tags>>

(* Some step of a running zero, or its end. *)
Scrub ==
  /\ reply.op = "zero" /\ reply.ret = "running"
  /\ reply'.op = "zero" /\ reply'.cap = reply.cap
  /\ reply'.ret \in {"running", "ok", "abort"}
  /\ \A a \in Memory : \/ mem'[a] = mem[a]
                       \/ a \in Inside(reply.cap) /\ mem'[a] = Blank
  /\ mem' \in [Memory -> Value]

Next == Refuse \/ Load \/ Accept \/ BeginZero \/ Scrub

Spec == Init /\ [][Next]_vars
=============================================================================
