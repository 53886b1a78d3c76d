----------------------------- MODULE PathResolve -----------------------------
(***************************************************************************)
(* capfs_filesystem_resolve_path (src/src/filesystem.c): a path is copied, *)
(* cut into its components at the separators and each component is looked  *)
(* up with capfs_filessystem_resolve_one from the capability the previous  *)
(* one gave.  One call, from a handler of a FUSE operation to its return.  *)
(*                                                                         *)
(* Strings are sequences that end in Nul, pointers into them positions.    *)
(* Beyond the root block there is no file in the store: the directory      *)
(* contents a lookup needs come from capfs_filesystem_get_content_cap,     *)
(* which always fails.                                                     *)
(***************************************************************************)
EXTENDS Naturals, Sequences

CONSTANTS
  Sep, Nul,    (* the separator '/' and the end of a string                *)
  Name,        (* the other characters                                     *)
  Paths,       (* the paths handlers pass, without their Nul               *)
  NoPath,      (* NULL                                                     *)
  Blocks       (* what the root block may be: "bad" (unreadable, or with   *)
               (* another magic number) or the type it holds               *)

BlockTypes == {"bad", "root", "directory", "file"}

ASSUME PathResolveAssumption ==
  /\ Sep # Nul /\ Sep \notin Name /\ Nul \notin Name
  /\ Paths \subseteq Seq(Name \cup {Sep})
  /\ NoPath \notin Paths
  /\ Blocks \subseteq BlockTypes

VARIABLES
  path, block,  (* the call: its path argument and the root block          *)
  pc,           (* "call", "walk" or "done"                                *)
  mypath,       (* the copy of the path, cut up as the walk proceeds       *)
  p, current,   (* the pointers into it                                    *)
  looked,       (* the components looked up so far, as [from, to]          *)
  results,      (* what each lookup returned, one after another            *)
  ret           (* what the call returned                                  *)

vars == <<path, block, pc, mypath, p, current, looked, results, ret>>

(* capfs_filessystem_resolve_one: the root block resolves "/"; a directory *)
(* needs its contents; anything else is no directory.                      *)
ResolveOne(name) == IF block = "root" /\ name = <<Sep>> THEN "ok" ELSE "error"

Init ==
  /\ path \in Paths \cup {NoPath} /\ block \in Blocks
  /\ pc = "call" /\ mypath = <<>> /\ p = 1 /\ current = 1
  /\ looked = <<>> /\ results = <<>> /\ ret = "none"

Return(r) == pc' = "done" /\ ret' = r

NullPath ==
  /\ pc = "call" /\ path = NoPath
  /\ Return("error")
  /\ UNCHANGED <<path, block, mypath, p, current, looked, results>>

RootPath ==
  /\ pc = "call" /\ path = <<Sep>>
  /\ Return(ResolveOne(path))
  /\ results' = <<ResolveOne(path)>>
  /\ UNCHANGED <<path, block, mypath, p, current, looked>>

(* strdup *)
CopyPath ==
  /\ pc = "call" /\ path \notin {NoPath, <<Sep>>}
  /\ mypath' = Append(path, Nul)
  /\ pc' = "walk"
  /\ UNCHANGED <<path, block, p, current, looked, results, ret>>

OutOfMemory ==
  /\ pc = "call" /\ path \notin {NoPath, <<Sep>>}
  /\ Return("error")
  /\ UNCHANGED <<path, block, mypath, p, current, looked, results>>

(* The string at a pointer ends before the first Nul from there on.        *)
StringAt(s, i) ==
  [from |-> i,
   to   |-> (CHOOSE j \in i .. Len(s) : s[j] = Nul /\ \A k \in i .. j - 1 : s[k] # Nul) - 1]

(* The result of the lookup of a component is ignored.                     *)
LookUp(s) ==
  LET c == StringAt(s, current)
  IN  /\ looked' = Append(looked, c)
      /\ results' = Append(results, ResolveOne(SubSeq(s, c.from, c.to)))

(* Mutants of SkipSeparator: neither pointer moves on, and only the one    *)
(* that scans does.                                                        *)
SkipSeparatorStuck ==
  /\ pc = "walk" /\ mypath[p] = Sep /\ p = current
  /\ UNCHANGED vars
SkipSeparatorScanOnly ==
  /\ pc = "walk" /\ mypath[p] = Sep /\ p = current
  /\ p' = p + 1
  /\ UNCHANGED <<path, block, pc, mypath, current, looked, results, ret>>

SkipSeparator ==
  /\ pc = "walk" /\ mypath[p] = Sep /\ p = current
  /\ p' = p + 1 /\ current' = current + 1
  /\ UNCHANGED <<path, block, pc, mypath, looked, results, ret>>

(* Mutant of EndComponent: the separator is left in the copy. *)
EndComponentUncut ==
  /\ pc = "walk" /\ mypath[p] = Sep /\ p # current
  /\ LookUp(mypath)
  /\ p' = p + 1 /\ current' = p + 1
  /\ UNCHANGED <<path, block, pc, mypath, ret>>

EndComponent ==
  /\ pc = "walk" /\ mypath[p] = Sep /\ p # current
  /\ mypath' = [mypath EXCEPT ![p] = Nul]
  /\ LookUp(mypath')
  /\ p' = p + 1 /\ current' = p + 1
  /\ UNCHANGED <<path, block, pc, ret>>

(* Mutant of NextChar: the walk steps over a character unseen. *)
NextCharTwice ==
  /\ pc = "walk" /\ mypath[p] \in Name
  /\ p' = p + 2
  /\ UNCHANGED <<path, block, pc, mypath, current, looked, results, ret>>

NextChar ==
  /\ pc = "walk" /\ mypath[p] \in Name
  /\ p' = p + 1
  /\ UNCHANGED <<path, block, pc, mypath, current, looked, results, ret>>

(* The end of the copy: the last component, unless the path ended in a     *)
(* separator; the copy is freed.                                           *)
Finish ==
  /\ pc = "walk" /\ mypath[p] = Nul
  /\ IF current # p THEN LookUp(mypath) ELSE UNCHANGED <<looked, results>>
  /\ Return("ok")
  /\ UNCHANGED <<path, block, mypath, p, current>>

Walk == SkipSeparator \/ EndComponent \/ NextChar \/ Finish

Next == NullPath \/ RootPath \/ CopyPath \/ OutOfMemory \/ Walk

Spec == Init /\ [][Next]_vars

(* The call is straight-line code and a loop without waiting.              *)
FairSpec == Spec /\ WF_vars(Next)

-----------------------------------------------------------------------------
(***************************************************************************)
(* Properties                                                              *)
(***************************************************************************)

(* The variables have their types; while the walk goes on both pointers    *)
(* stay inside the copy.                                                   *)
TypeOK ==
  /\ path \in Paths \cup {NoPath} /\ block \in Blocks
  /\ pc \in {"call", "walk", "done"} /\ ret \in {"none", "ok", "error"}
  /\ mypath \in Seq(Name \cup {Sep, Nul})
  /\ p \in Nat /\ current \in Nat
  /\ pc = "walk" => p \in 1 .. Len(mypath) /\ current \in 1 .. p
  /\ looked \in Seq([from : Nat, to : Nat]) /\ results \in Seq({"ok", "error"})

(* The components of a path: its longest stretches without a separator.    *)
Components ==
  { c \in [from : 1 .. Len(path), to : 1 .. Len(path)] :
      /\ c.from <= c.to
      /\ \A k \in c.from .. c.to : path[k] # Sep
      /\ c.from = 1 \/ path[c.from - 1] = Sep
      /\ c.to = Len(path) \/ path[c.to + 1] = Sep }

Looked == { looked[i] : i \in 1 .. Len(looked) }

(* The components are looked up one after another from left to right, and  *)
(* a walk that ends has looked up each of them and nothing else, however   *)
(* many separators lead, trail or repeat.                                  *)
SplitIsExact ==
  /\ \A i, j \in 1 .. Len(looked) : i < j => looked[i].to + 1 < looked[j].from
  /\ pc = "walk" => Looked \subseteq Components
  /\ pc = "done" /\ ret = "ok" /\ path # <<Sep>> => Looked = Components

(* A call that returns 0 resolved the root, and that only for the path     *)
(* "/": for any other path, however it was cut up, every lookup failed and *)
(* each component had one.  None was mistaken for "/", not even after      *)
(* another had failed already, and none was left out.  So the value        *)
(* returned says nothing: filesystem.c:223 promises "ERR_OK on success or  *)
(* error value on failure", and what the lookups answered is ignored at    *)
(* :254 and :264.                                                          *)
OnlyRootResolves ==
  pc = "done" /\ ret = "ok" =>
    IF path = <<Sep>>
    THEN block = "root" /\ results = <<"ok">>
    ELSE /\ \A i \in 1 .. Len(results) : results[i] = "error"
         /\ \A c \in Components :
               \E i \in 1 .. Len(results) : looked[i] = c /\ results[i] = "error"

(* Every call returns.                                                     *)
CallReturns == <>(pc = "done")
=============================================================================
