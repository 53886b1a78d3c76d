------------------------------ MODULE Formatting ------------------------------
(***************************************************************************)
(* What mounts do to the backing file, for one who only sees the file as   *)
(* it is found after the process died: an image of an earlier use is       *)
(* wiped, which takes its root block first; a wiped image becomes a        *)
(* formatted one at once; and only then may the mount that formatted it    *)
(* serve requests.  A mount may end at any point.  Nothing else ever       *)
(* happens to the file: no image is left with a root block over a store    *)
(* that is wiped in part, none is served by a mount that did not format    *)
(* it, and none changes once it is formatted but by being wiped by the     *)
(* next mount.                                                             *)
(***************************************************************************)
VARIABLES image,    (* "old", "wiped" or "formatted"                       *)
          phase     (* of the mount: "formatting", which it is also before *)
                    (* it starts, "formatted" or "serving"                 *)

vars == <<image, phase>>

Init == image = "old" /\ phase = "formatting"

Wipe   == phase = "formatting" /\ image' = "wiped" /\ UNCHANGED phase
Format ==
  /\ phase = "formatting" /\ image = "wiped"
  /\ image' = "formatted" /\ phase' = "formatted"
Serve  == phase = "formatted" /\ phase' = "serving" /\ UNCHANGED image
Stop   == phase # "formatting" /\ phase' = "formatting" /\ UNCHANGED image

Next == Wipe \/ Format \/ Serve \/ Stop

Spec == Init /\ [][Next]_vars
=============================================================================
