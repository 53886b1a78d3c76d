-------------------------- MODULE PathResolveProofs --------------------------
(***************************************************************************)
(* The walk of capfs_filesystem_resolve_path stays inside the copy of the  *)
(* path and looks up exactly its components, for paths of any length.      *)
(***************************************************************************)
EXTENDS PathResolve, SequenceTheorems, TLAPS

(* The copy as the walk finds it: from current on it is still the path,    *)
(* and current starts a component or a stretch of separators.              *)
Copy ==
  /\ path \in Paths
  /\ 1 <= current /\ current <= p /\ p <= Len(path) + 1
  /\ Len(mypath) = Len(path) + 1 /\ mypath[Len(path) + 1] = Nul
  /\ \A k \in current .. Len(path) : mypath[k] = path[k]
  /\ \A k \in current .. p - 1 : path[k] # Sep
  /\ current = 1 \/ path[current - 1] = Sep

(* What was looked up: the components that end before current, in order.   *)
Before ==
  /\ \A i \in 1 .. Len(looked) : looked[i] \in Components /\ looked[i].to + 1 < current
  /\ \A c \in Components : c.to < current => c \in Looked

InOrder == \A i, j \in 1 .. Len(looked) : i < j => looked[i].to + 1 < looked[j].from

IInv ==
  /\ TypeOK
  /\ InOrder
  /\ pc = "call" => looked = <<>> /\ p = 1 /\ current = 1 /\ ret = "none"
  /\ pc = "walk" => Copy /\ Before /\ ret = "none"
  /\ pc = "done" /\ ret = "ok" /\ path # <<Sep>> => Looked = Components

(* A path is a string without Nul.                                         *)
LEMMA PathType ==
  ASSUME NEW s \in Paths
  PROVE  /\ s \in Seq(Name \cup {Sep}) /\ s \in Seq(Name \cup {Sep, Nul})
         /\ Len(s) \in Nat /\ s # NoPath
         /\ \A k \in 1 .. Len(s) : s[k] # Nul /\ s[k] \in Name \cup {Sep}
<1>1. s \in Seq(Name \cup {Sep}) /\ Len(s) \in Nat /\ s # NoPath
  BY PathResolveAssumption
<1>2. \A k \in 1 .. Len(s) : s[k] \in Name \cup {Sep}
  BY <1>1
<1>3. s \in Seq(Name \cup {Sep, Nul})
  BY <1>1
<1> QED BY <1>1, <1>2, <1>3, PathResolveAssumption

(* The stretch between two pointers of the walk that ends at a separator   *)
(* or at the end of the path is a component, and the only one that ends    *)
(* there.                                                                  *)
LEMMA NextComponent ==
  ASSUME path \in Paths, NEW i \in Nat, NEW j \in Nat, 1 <= i, i < j, j <= Len(path) + 1,
         \A k \in i .. j - 1 : path[k] # Sep,
         i = 1 \/ path[i - 1] = Sep,
         j = Len(path) + 1 \/ path[j] = Sep
  PROVE  /\ [from |-> i, to |-> j - 1] \in Components
         /\ \A c \in Components : c.to <= j => c.to < i \/ c = [from |-> i, to |-> j - 1]
<1> Len(path) \in Nat
  BY PathType
<1>1. [from |-> i, to |-> j - 1] \in Components
  BY DEF Components
<1>2. ASSUME NEW c \in Components, c.to <= j, ~(c.to < i)
      PROVE  c = [from |-> i, to |-> j - 1]
  <2>1. /\ c \in [from : 1 .. Len(path), to : 1 .. Len(path)] /\ c.from <= c.to
        /\ \A k \in c.from .. c.to : path[k] # Sep
        /\ c.from = 1 \/ path[c.from - 1] = Sep
        /\ c.to = Len(path) \/ path[c.to + 1] = Sep
    BY DEF Components
  <2>2. c.to # j
    BY <2>1
  <2>3. c.to = j - 1
    <3>1. c.to + 1 \in i + 1 .. j
      BY <1>2, <2>1, <2>2
    <3>2. CASE c.to = Len(path)
      BY <3>1, <3>2
    <3>3. CASE path[c.to + 1] = Sep
      BY <3>1, <3>3, <2>1
    <3> QED BY <2>1, <3>2, <3>3
  <2>4. c.from = i
    <3>1. ASSUME c.from < i PROVE FALSE
      <4>1. i # 1 /\ i - 1 \in c.from .. c.to
        BY <1>2, <2>1, <3>1
      <4> QED BY <2>1, <4>1
    <3>2. ~(c.from > i)
      BY <1>2, <2>1, <2>3
    <3> QED BY <3>1, <3>2, <2>1
  <2> QED BY <2>1, <2>3, <2>4
<1> QED BY <1>1, <1>2

(* The string at a pointer ends at the first Nul.                          *)
LEMMA StringEnds ==
  ASSUME NEW s, NEW i \in Nat, NEW j \in Nat, i <= j, j <= Len(s), Len(s) \in Nat,
         s[j] = Nul, \A k \in i .. j - 1 : s[k] # Nul
  PROVE  StringAt(s, i) = [from |-> i, to |-> j - 1]
<1> DEFINE E(e) == s[e] = Nul /\ \A k \in i .. e - 1 : s[k] # Nul
<1>1. j \in i .. Len(s) /\ E(j)
  OBVIOUS
<1>2. \A e \in i .. Len(s) : E(e) => e = j
  <2> SUFFICES ASSUME NEW e \in i .. Len(s), E(e), e # j PROVE FALSE
    OBVIOUS
  <2>1. CASE e < j
    BY <2>1
  <2>2. CASE e > j
    BY <2>2
  <2> QED BY <2>1, <2>2
<1>3. (CHOOSE e \in i .. Len(s) : E(e)) = j
  BY <1>1, <1>2
<1> QED BY <1>3 DEF StringAt

(* A lookup of the stretch between the pointers records that component.    *)
LEMMA Recorded ==
  ASSUME TypeOK, InOrder, Copy, Before, current < p,
         p = Len(path) + 1 \/ path[p] = Sep,
         looked' = Append(looked, [from |-> current, to |-> p - 1])
  PROVE  /\ looked' \in Seq([from : Nat, to : Nat])
         /\ InOrder'
         /\ \A i \in 1 .. Len(looked') : looked'[i] \in Components /\ looked'[i].to < p
         /\ \A c \in Components : c.to <= p => \E i \in 1 .. Len(looked') : looked'[i] = c
<1> DEFINE new == [from |-> current, to |-> p - 1]
           n == Len(looked)
<1>1. /\ path \in Paths /\ current \in Nat /\ p \in Nat /\ Len(path) \in Nat
      /\ looked \in Seq([from : Nat, to : Nat])
  BY PathType DEF TypeOK, Copy
<1>2. 1 <= current
  BY <1>1 DEF TypeOK, Copy
<1>3. /\ new \in Components
      /\ \A c \in Components : c.to <= p => c.to < current \/ c = new
  BY <1>1, <1>2, NextComponent DEF Copy
<1>4. new \in [from : Nat, to : Nat] /\ new.from = current /\ new.to < p
  BY <1>1, <1>2
<1>5. /\ n \in Nat /\ Len(looked') = n + 1 /\ looked'[n + 1] = new
      /\ \A i \in 1 .. n : looked'[i] = looked[i]
      /\ looked' \in Seq([from : Nat, to : Nat])
  BY <1>1, <1>4
<1>6. \A i \in 1 .. n : looked'[i] \in Components /\ looked'[i].to + 1 < current
  BY <1>5 DEF Before
<1>7. InOrder'
  <2> SUFFICES ASSUME NEW i \in 1 .. n + 1, NEW j \in 1 .. n + 1, i < j
               PROVE  looked'[i].to + 1 < looked'[j].from
    BY <1>5 DEF InOrder
  <2>1. CASE j = n + 1
    BY <2>1, <1>4, <1>5, <1>6
  <2>2. CASE j # n + 1
    <3>1. i \in 1 .. n /\ j \in 1 .. n
      BY <2>2, <1>5
    <3> QED BY <3>1, <1>5 DEF InOrder
  <2> QED BY <2>1, <2>2
<1>8. \A i \in 1 .. n + 1 : looked'[i] \in Components /\ looked'[i].to < p
  <2> SUFFICES ASSUME NEW i \in 1 .. n + 1
               PROVE  looked'[i] \in Components /\ looked'[i].to < p
    OBVIOUS
  <2>1. CASE i = n + 1
    BY <2>1, <1>3, <1>4, <1>5
  <2>2. CASE i # n + 1
    <3>1. i \in 1 .. n
      BY <2>2, <1>5
    <3>2. looked'[i] \in Components /\ looked'[i].to + 1 < current
      BY <3>1, <1>6
    <3>3. looked'[i].to \in Nat
      BY <3>2, <1>1 DEF Components
    <3> QED BY <3>2, <3>3, <1>1
  <2> QED BY <2>1, <2>2
<1>9. ASSUME NEW c \in Components, c.to <= p
      PROVE  \E i \in 1 .. n + 1 : looked'[i] = c
  <2>1. CASE c = new
    BY <2>1, <1>5
  <2>2. CASE c.to < current
    <3>1. PICK i \in 1 .. n : looked[i] = c
      BY <2>2 DEF Before, Looked
    <3> QED BY <3>1, <1>5
  <2> QED BY <1>3, <1>9, <2>1, <2>2
<1> QED BY <1>5, <1>7, <1>8, <1>9

-----------------------------------------------------------------------------
(* A call starts with nothing looked up.                                   *)
LEMMA InitInv == Init => IInv
<1> SUFFICES ASSUME Init PROVE IInv
  OBVIOUS
<1>1. looked = <<>> /\ Len(looked) = 0 /\ looked \in Seq([from : Nat, to : Nat])
  BY DEF Init
<1>2. mypath \in Seq(Name \cup {Sep, Nul})
  BY DEF Init
<1>3. TypeOK
  BY <1>1, <1>2 DEF Init, TypeOK
<1>4. InOrder
  BY <1>1 DEF InOrder
<1> QED BY <1>3, <1>4 DEF Init, IInv

(* What the walk reads at p.                                               *)
LEMMA AtPointer ==
  ASSUME TypeOK, Copy
  PROVE  /\ p \in Nat /\ current \in Nat /\ Len(path) \in Nat /\ p \in 1 .. Len(mypath)
         /\ mypath[p] = Sep => p <= Len(path) /\ path[p] = Sep
         /\ mypath[p] \in Name => p <= Len(path) /\ path[p] # Sep
         /\ mypath[p] = Nul => p = Len(path) + 1
         /\ \A k \in current .. p - 1 : k \in 1 .. Len(mypath) /\ mypath[k] = path[k]
                                        /\ mypath[k] # Nul
<1>1. /\ p \in Nat /\ current \in Nat /\ Len(path) \in Nat /\ p \in 1 .. Len(mypath)
      /\ p # Len(path) + 1 => p \in 1 .. Len(path) /\ mypath[p] = path[p]
      /\ mypath[Len(path) + 1] = Nul
  BY PathType DEF TypeOK, Copy
<1>2. \A k \in current .. p - 1 : k \in 1 .. Len(mypath) /\ k \in 1 .. Len(path)
                                  /\ mypath[k] = path[k]
  BY <1>1 DEF Copy
<1>3. \A k \in 1 .. Len(path) : path[k] # Nul
  BY PathType DEF Copy
<1> QED BY <1>1, <1>2, <1>3, PathResolveAssumption

(* The copy is made. *)
LEMMA CopyPathStep == IInv /\ CopyPath => IInv'
<1> SUFFICES ASSUME IInv, CopyPath PROVE IInv'
  OBVIOUS
<1> USE DEF IInv, CopyPath
<1>1. path \in Paths
  BY DEF TypeOK
<1>2. /\ mypath' \in Seq(Name \cup {Sep, Nul})
      /\ Len(mypath') = Len(path) + 1 /\ mypath'[Len(path) + 1] = Nul
      /\ \A k \in 1 .. Len(path) : mypath'[k] = path[k]
      /\ Len(path) \in Nat
  BY <1>1, PathType
<1>3. TypeOK'
  BY <1>2 DEF TypeOK
<1>4. Copy'
  BY <1>1, <1>2 DEF Copy
<1>5. Before'
  BY DEF Before, Components
<1> QED BY <1>3, <1>4, <1>5 DEF InOrder

(* A separator at the start of a stretch is skipped. *)
LEMMA SkipSeparatorStep == IInv /\ SkipSeparator => IInv'
<1> SUFFICES ASSUME IInv, SkipSeparator PROVE IInv'
  OBVIOUS
<1> USE DEF IInv, SkipSeparator
<1>1. /\ p \in Nat /\ Len(path) \in Nat /\ p <= Len(path) /\ path[p] = Sep
      /\ Len(mypath) = Len(path) + 1 /\ 1 <= p
  BY AtPointer DEF Copy
<1>2. TypeOK'
  BY <1>1 DEF TypeOK
<1>3. Copy'
  <2>1. /\ path' = path /\ mypath' = mypath /\ p' = p + 1 /\ current' = p + 1
        /\ \A k \in p .. Len(path) : mypath[k] = path[k]
        /\ path \in Paths /\ mypath[Len(path) + 1] = Nul
    BY DEF Copy
  <2> QED BY <1>1, <2>1 DEF Copy
<1>4. Before'
  <2>1. Components' = Components /\ Looked' = Looked
    BY DEF Components, Looked
  <2>2. \A c \in Components : c.to # p /\ c.to \in Nat
    BY <1>1 DEF Components
  <2>3. \A i \in 1 .. Len(looked) : looked[i].to \in Nat
    BY <2>2 DEF Before
  <2> QED BY <1>1, <2>1, <2>2, <2>3 DEF Before
<1> QED BY <1>2, <1>3, <1>4 DEF InOrder

(* A lookup says whether it succeeded.                                     *)
LEMMA ResultRecorded ==
  ASSUME TypeOK, NEW s, LookUp(s)
  PROVE  results' \in Seq({"ok", "error"})
<1> DEFINE r == ResolveOne(SubSeq(s, StringAt(s, current).from, StringAt(s, current).to))
<1>1. r \in {"ok", "error"}
  BY DEF ResolveOne
<1>2. results' = Append(results, r) /\ results \in Seq({"ok", "error"})
  BY DEF LookUp, TypeOK
<1> HIDE DEF r
<1> QED BY <1>1, <1>2, AppendProperties

(* A component that ends at a separator is cut off and looked up. *)
LEMMA EndComponentStep == IInv /\ EndComponent => IInv'
<1> SUFFICES ASSUME IInv, EndComponent PROVE IInv'
  OBVIOUS
<1> USE DEF IInv, EndComponent
<1>1. /\ p \in Nat /\ current \in Nat /\ Len(path) \in Nat /\ p <= Len(path)
      /\ path[p] = Sep /\ Len(mypath) = Len(path) + 1 /\ 1 <= current /\ current < p
      /\ \A k \in current .. p - 1 : k \in 1 .. Len(mypath) /\ mypath[k] # Nul
  BY AtPointer DEF Copy
<1>2. /\ mypath' \in Seq(Name \cup {Sep, Nul}) /\ Len(mypath') = Len(mypath)
      /\ mypath'[p] = Nul /\ p <= Len(mypath')
      /\ \A k \in 1 .. Len(mypath) : k # p => mypath'[k] = mypath[k]
  BY <1>1 DEF TypeOK
<1>3. StringAt(mypath', current) = [from |-> current, to |-> p - 1]
  <2>1. current \in Nat /\ p \in Nat /\ current <= p /\ Len(mypath') \in Nat
    BY <1>1, <1>2
  <2>2. \A k \in current .. p - 1 : mypath'[k] # Nul
    <3>1. \A k \in current .. p - 1 : k # p
      BY <1>1
    <3> QED BY <3>1, <1>1, <1>2
  <2> QED BY <2>1, <2>2, <1>2, StringEnds
<1>4. /\ looked' = Append(looked, [from |-> current, to |-> p - 1])
      /\ results' \in Seq({"ok", "error"})
  BY <1>3, ResultRecorded DEF LookUp
<1>5. /\ looked' \in Seq([from : Nat, to : Nat]) /\ InOrder'
      /\ \A i \in 1 .. Len(looked') : looked'[i] \in Components /\ looked'[i].to < p
      /\ \A c \in Components : c.to <= p => \E i \in 1 .. Len(looked') : looked'[i] = c
  BY <1>1, <1>4, Recorded
<1>6. TypeOK'
  BY <1>1, <1>2, <1>4, <1>5 DEF TypeOK
<1>7. Copy'
  <2>1. /\ path' = path /\ p' = p + 1 /\ current' = p + 1
        /\ \A k \in current .. Len(path) : mypath[k] = path[k]
        /\ path \in Paths /\ mypath[Len(path) + 1] = Nul
    BY DEF Copy
  <2>2. mypath'[Len(path) + 1] = Nul
    BY <1>1, <1>2, <2>1
  <2>3. \A k \in p + 1 .. Len(path) : mypath'[k] = path[k]
    <3>1. \A k \in p + 1 .. Len(path) : k \in 1 .. Len(mypath) /\ k # p
                                        /\ k \in current .. Len(path)
      BY <1>1
    <3> QED BY <3>1, <1>2, <2>1
  <2> QED BY <1>1, <1>2, <2>1, <2>2, <2>3 DEF Copy
<1>8. Before'
  <2>1. Components' = Components
    BY DEF Components
  <2>2. \A c \in Components : c.to \in Nat
    BY <1>1 DEF Components
  <2>3. current' = p + 1 /\ \A c \in Components : c.to < p + 1 => c.to <= p
    BY <1>1, <2>2
  <2>4. \A i \in 1 .. Len(looked') : looked'[i] \in Components /\ looked'[i].to + 1 < p + 1
    BY <1>1, <1>5, <2>2
  <2>5. \A c \in Components : c.to < p + 1 => c \in Looked'
    BY <1>5, <2>3 DEF Looked
  <2> QED BY <2>1, <2>3, <2>4, <2>5 DEF Before
<1> QED BY <1>5, <1>6, <1>7, <1>8

(* A character of a component is passed. *)
LEMMA NextCharStep == IInv /\ NextChar => IInv'
<1> SUFFICES ASSUME IInv, NextChar PROVE IInv'
  OBVIOUS
<1> USE DEF IInv, NextChar
<1>1. /\ p \in Nat /\ current \in Nat /\ Len(path) \in Nat /\ p <= Len(path)
      /\ path[p] # Sep /\ Len(mypath) = Len(path) + 1 /\ 1 <= current /\ current <= p
  BY AtPointer DEF Copy
<1>2. TypeOK'
  BY <1>1 DEF TypeOK
<1>3. Copy'
  BY <1>1 DEF Copy
<1>4. Before'
  BY DEF Before, Components, Looked
<1> QED BY <1>2, <1>3, <1>4 DEF InOrder

(* The walk ends, with a last component or without one. *)
LEMMA FinishStep == IInv /\ Finish => IInv'
<1> SUFFICES ASSUME IInv, Finish PROVE IInv'
  OBVIOUS
<1> USE DEF IInv, Finish, Return
<1>1. /\ p \in Nat /\ current \in Nat /\ Len(path) \in Nat /\ p = Len(path) + 1
      /\ Len(mypath) = Len(path) + 1 /\ 1 <= current /\ current <= p
      /\ \A k \in current .. p - 1 : k \in 1 .. Len(mypath) /\ mypath[k] # Nul
  BY AtPointer DEF Copy
<1>2. Components' = Components /\ \A c \in Components : c.to \in Nat /\ c.to < p
  BY <1>1 DEF Components
<1>3. CASE current = p
  <2>1. UNCHANGED <<looked, results>>
    BY <1>3
  <2>2. Looked' = Components'
    BY <1>1, <1>2, <1>3, <2>1 DEF Before, Looked
  <2> QED BY <2>1, <2>2 DEF TypeOK, InOrder
<1>4. CASE current # p
  <2>1. StringAt(mypath, current) = [from |-> current, to |-> p - 1]
    BY <1>1, <1>4, StringEnds
  <2>2. /\ looked' = Append(looked, [from |-> current, to |-> p - 1])
        /\ results' \in Seq({"ok", "error"})
    BY <1>4, <2>1, ResultRecorded DEF LookUp
  <2>3. /\ looked' \in Seq([from : Nat, to : Nat]) /\ InOrder'
        /\ \A i \in 1 .. Len(looked') : looked'[i] \in Components
        /\ \A c \in Components : c.to <= p => \E i \in 1 .. Len(looked') : looked'[i] = c
    BY <1>1, <1>4, <2>2, Recorded
  <2>4. Looked' = Components'
    BY <1>1, <1>2, <2>3 DEF Looked
  <2>5. TypeOK'
    BY <2>2, <2>3 DEF TypeOK
  <2> QED BY <2>3, <2>4, <2>5
<1> QED BY <1>3, <1>4

(* Every step keeps the invariant. *)
LEMMA StepInv == IInv /\ [Next]_vars => IInv'
<1> SUFFICES ASSUME IInv, [Next]_vars PROVE IInv'
  OBVIOUS
<1>1. CASE NullPath \/ OutOfMemory
  BY <1>1 DEF IInv, NullPath, OutOfMemory, Return, TypeOK, InOrder
<1>2. CASE RootPath
  <2>1. ResolveOne(path) \in {"ok", "error"} /\ results' \in Seq({"ok", "error"})
    BY <1>2 DEF RootPath, ResolveOne
  <2> QED BY <1>2, <2>1 DEF IInv, RootPath, Return, TypeOK, InOrder
<1>3. CASE UNCHANGED vars
  <2>1. Components' = Components /\ Looked' = Looked
    BY <1>3 DEF vars, Components, Looked
  <2>2. TypeOK' = TypeOK /\ InOrder' = InOrder
    BY <1>3 DEF vars, TypeOK, InOrder
  <2>3. (Copy => Copy') /\ (Before => Before')
    BY <1>3, <2>1 DEF vars, Copy, Before
  <2> QED BY <1>3, <2>1, <2>2, <2>3 DEF vars, IInv
<1> QED BY <1>1, <1>2, <1>3, CopyPathStep, SkipSeparatorStep, EndComponentStep,
           NextCharStep, FinishStep DEF Next, Walk

(* The invariant holds throughout every call.                              *)
THEOREM Invariant == Spec => []IInv
  BY InitInv, StepInv, PTL DEF Spec

-----------------------------------------------------------------------------
(* The walk never takes a pointer out of the copy of the path.             *)
THEOREM TypeCorrect == Spec => []TypeOK
  BY Invariant, PTL DEF IInv

(* The components of every path are looked up, each once and in order.     *)
THEOREM SplitCorrect == Spec => []SplitIsExact
<1>1. IInv => SplitIsExact
  BY DEF IInv, SplitIsExact, InOrder, Before, Looked
<1> QED BY <1>1, Invariant, PTL

-----------------------------------------------------------------------------
(* A string with a first character that is no separator is not "/".        *)
LEMMA NoComponentIsRoot ==
  ASSUME NEW s \in Seq(Name \cup {Sep, Nul}), NEW i \in 1 .. Len(s), NEW j \in 1 .. Len(s),
         i <= j, s[i] # Sep
  PROVE  ResolveOne(SubSeq(s, i, j)) = "error"
<1>1. Len(s) \in Nat /\ SubSeq(s, i, j)[1] = s[i]
  BY SubSeqProperties
<1>2. <<Sep>>[1] = Sep
  OBVIOUS
<1> QED BY <1>1, <1>2 DEF ResolveOne

(* No lookup of a walk has succeeded, and each has its result.             *)
Failing ==
  /\ pc = "call" => results = <<>> /\ looked = <<>>
  /\ pc = "done" /\ ret = "ok" /\ path = <<Sep>> => block = "root" /\ results = <<"ok">>
  /\ pc = "walk" => path # <<Sep>>
  /\ pc = "walk" \/ (pc = "done" /\ ret = "ok" /\ path # <<Sep>>) =>
       /\ Len(results) = Len(looked)
       /\ \A i \in 1 .. Len(results) : results[i] = "error"

(* Every lookup of the walk fails.                                         *)
LEMMA LookUpFails ==
  ASSUME TypeOK, Copy, NEW s \in Seq(Name \cup {Sep, Nul}), current < p, p <= Len(s),
         s[p] = Nul, \A k \in current .. p - 1 : s[k] = mypath[k], LookUp(s),
         Len(results) = Len(looked), \A i \in 1 .. Len(results) : results[i] = "error"
  PROVE  /\ Len(results') = Len(looked')
         /\ \A i \in 1 .. Len(results') : results'[i] = "error"
<1>1. /\ p \in Nat /\ current \in Nat /\ 1 <= current /\ Len(path) \in Nat /\ Len(s) \in Nat
      /\ \A k \in current .. p - 1 : s[k] # Nul
  BY AtPointer DEF Copy
<1>2. StringAt(s, current) = [from |-> current, to |-> p - 1]
  BY <1>1, StringEnds
<1>3. s[current] # Sep
  <2>1. current \in current .. p - 1 /\ path[current] # Sep
    BY <1>1 DEF Copy
  <2> QED BY <2>1, <1>1, AtPointer DEF Copy
<1>4. ResolveOne(SubSeq(s, current, p - 1)) = "error"
  <2>1. current \in 1 .. Len(s) /\ p - 1 \in 1 .. Len(s) /\ current <= p - 1
    BY <1>1
  <2> QED BY <1>3, <2>1, NoComponentIsRoot
<1> DEFINE c == StringAt(s, current)
<1>5. ResolveOne(SubSeq(s, c.from, c.to)) = "error" /\ c \in [from : Nat, to : Nat]
  BY <1>1, <1>2, <1>4
<1> HIDE DEF c
<1>6. looked' = Append(looked, c) /\ results' = Append(results, "error")
  BY <1>5 DEF LookUp, c
<1>7. looked \in Seq([from : Nat, to : Nat]) /\ results \in Seq({"ok", "error"})
  BY DEF TypeOK
<1>8. /\ Len(looked') = Len(looked) + 1
      /\ Len(results') = Len(results) + 1 /\ results'[Len(results) + 1] = "error"
      /\ \A i \in 1 .. Len(results) : results'[i] = results[i]
  BY <1>5, <1>6, <1>7
<1>9. \A i \in 1 .. Len(results) + 1 : results'[i] = "error"
  <2>1. Len(results) \in Nat
    BY <1>7
  <2> SUFFICES ASSUME NEW i \in 1 .. Len(results) + 1 PROVE results'[i] = "error"
    OBVIOUS
  <2>2. CASE i = Len(results) + 1
    BY <1>8, <2>2
  <2>3. CASE i \in 1 .. Len(results)
    BY <1>8, <2>3
  <2> QED BY <2>1, <2>2, <2>3
<1> QED BY <1>8, <1>9

(* Every step keeps that.                                                  *)
LEMMA FailingStep == IInv /\ Failing /\ [Next]_vars => Failing'
<1> SUFFICES ASSUME IInv, Failing, [Next]_vars PROVE Failing'
  OBVIOUS
<1>1. CASE NullPath \/ OutOfMemory
  BY <1>1 DEF NullPath, OutOfMemory, Return, Failing
<1>2. CASE RootPath
  BY <1>2 DEF RootPath, Return, Failing, ResolveOne
<1>3. CASE CopyPath
  <2>1. /\ pc = "call" /\ pc' = "walk" /\ path' = path /\ path # <<Sep>>
        /\ results' = results /\ looked' = looked
    BY <1>3 DEF CopyPath
  <2>2. results = <<>> /\ looked = <<>>
    BY <2>1 DEF Failing
  <2> QED BY <2>1, <2>2 DEF Failing
<1>4. CASE SkipSeparator \/ NextChar
  BY <1>4 DEF SkipSeparator, NextChar, Failing
<1>5. CASE EndComponent
  <2>1. /\ p \in Nat /\ current \in Nat /\ current < p /\ p \in 1 .. Len(mypath)
        /\ TypeOK /\ Copy /\ mypath \in Seq(Name \cup {Sep, Nul})
    BY <1>5, AtPointer DEF EndComponent, IInv, TypeOK, Copy
  <2> DEFINE s == [mypath EXCEPT ![p] = Nul]
  <2>2. /\ s \in Seq(Name \cup {Sep, Nul}) /\ Len(s) = Len(mypath) /\ s[p] = Nul
        /\ p <= Len(s)
        /\ \A k \in 1 .. Len(mypath) : k # p => s[k] = mypath[k]
    BY <2>1
  <2>3. \A k \in current .. p - 1 : s[k] = mypath[k]
    <3>1. \A k \in current .. p - 1 : k # p /\ k \in 1 .. Len(mypath)
      BY <2>1, AtPointer
    <3> QED BY <2>2, <3>1
  <2>4. LookUp(s) /\ path' = path /\ pc' = pc /\ pc = "walk"
    BY <1>5 DEF EndComponent
  <2>5. Len(results) = Len(looked) /\ \A i \in 1 .. Len(results) : results[i] = "error"
    BY <2>4 DEF Failing
  <2> HIDE DEF s
  <2>6. Len(results') = Len(looked') /\ \A i \in 1 .. Len(results') : results'[i] = "error"
    BY <2>1, <2>2, <2>3, <2>4, <2>5, LookUpFails
  <2>7. path # <<Sep>>
    BY <2>4 DEF Failing
  <2> QED BY <2>4, <2>6, <2>7 DEF Failing
<1>6. CASE Finish
  <2>1. /\ p \in Nat /\ current \in Nat /\ current <= p /\ p \in 1 .. Len(mypath)
        /\ TypeOK /\ Copy /\ mypath \in Seq(Name \cup {Sep, Nul}) /\ mypath[p] = Nul
    BY <1>6, AtPointer DEF Finish, IInv, TypeOK, Copy
  <2>2. /\ pc = "walk" /\ pc' = "done" /\ path' = path /\ path # <<Sep>>
        /\ Len(results) = Len(looked) /\ \A i \in 1 .. Len(results) : results[i] = "error"
    BY <1>6 DEF Finish, Return, Failing
  <2>3. Len(results') = Len(looked') /\ \A i \in 1 .. Len(results') : results'[i] = "error"
    <3>1. CASE current # p
      BY <1>6, <2>1, <2>2, <3>1, LookUpFails DEF Finish
    <3>2. CASE current = p
      BY <1>6, <2>2, <3>2 DEF Finish
    <3> QED BY <3>1, <3>2
  <2> QED BY <2>2, <2>3 DEF Failing
<1>7. CASE UNCHANGED vars
  BY <1>7 DEF vars, Failing
<1> QED BY <1>1, <1>2, <1>3, <1>4, <1>5, <1>6, <1>7 DEF Next, Walk

(* Whatever the root block and the path, a call that returns 0 for another *)
(* path than "/" looked up each of its components, every one of these      *)
(* lookups failed, and it said nothing of it (filesystem.c:254, :264).     *)
THEOREM OnlyTheRoot == Spec => []OnlyRootResolves
<1>1. Init => Failing
  BY DEF Init, Failing
<1>2. IInv /\ Failing => OnlyRootResolves
  <2> SUFFICES ASSUME IInv, Failing, pc = "done", ret = "ok", path # <<Sep>>
               PROVE  /\ \A i \in 1 .. Len(results) : results[i] = "error"
                      /\ \A c \in Components :
                            \E i \in 1 .. Len(results) : looked[i] = c /\ results[i] = "error"
    BY DEF OnlyRootResolves, Failing
  <2>1. Len(results) = Len(looked) /\ \A i \in 1 .. Len(results) : results[i] = "error"
    BY DEF Failing
  <2>2. \A c \in Components : \E i \in 1 .. Len(looked) : looked[i] = c
    BY DEF IInv, Looked
  <2> QED BY <2>1, <2>2
<1> QED BY <1>1, <1>2, Invariant, FailingStep, PTL DEF Spec
=============================================================================
