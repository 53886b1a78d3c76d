------------------------------- MODULE MCFsOps -------------------------------
(* Words of 2 + 2 + 3 bits with every second bit of the salt set, and      *)
(* metadata of every type of file, of an empty file and of one with bytes. *)
EXTENDS FsOps, TLC

MCSalt == {1, 3, 5}

MCRootCaps == { [base |-> {}, size_bits |-> {1}, perms |-> {1, 2}],
                [base |-> {0, 1}, size_bits |-> {0, 1}, perms |-> {0, 2}] }

MCAnswers ==
  {NoMetadata} \cup
  { [perms |-> 1, bytes |-> 0, type |-> t] : t \in FileType } \cup
  { [perms |-> 0, bytes |-> 1, type |-> "file"] }

MCOffsets == 0 .. 2

MCSymmetry == Permutations(File) \cup Permutations(Handle)
=============================================================================
