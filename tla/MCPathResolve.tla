---------------------------- MODULE MCPathResolve ----------------------------
(* All paths of up to MaxLen characters, over the separator and one name   *)
(* character: the walk tells only separators from others.                  *)
EXTENDS PathResolve

CONSTANT MaxLen

MCPaths == UNION { [1 .. n -> {"/", "a"}] : n \in 0 .. MaxLen }
=============================================================================
