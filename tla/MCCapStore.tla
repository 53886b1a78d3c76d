----------------------------- MODULE MCCapStore -----------------------------
(* A store of 4 tag words of 4 slots of 2 bytes: 32 bytes, chunks of one   *)
(* tag word.  One capability for the whole store, one that starts inside   *)
(* it on a word of the tag map, one that does not, and one that cannot     *)
(* write; sizes are powers of two, as capability_decompress makes them.    *)
EXTENDS CapStore

Root == [base |-> 0,  size |-> 32, perms |-> {"read", "write"}]
Half == [base |-> 16, size |-> 16, perms |-> {"read", "write"}]
Odd  == [base |-> 4,  size |-> 8,  perms |-> {"read", "write"}]
View == [base |-> 0,  size |-> 16, perms |-> {"read"}]

MCCaps == {Root, Half, Odd, View}

(* A file left by an earlier use: stale bytes, every slot or none marked.  *)
MCStores == { [mem |-> [a \in Addr |-> "stale"], tags |-> t] : t \in {Ptr, {}} }

(* What the stack may hold: all zeros, all ones, or one bit.               *)
MCJunk == {{}, Bit, {1}}

MCBytes == {"zero", "cap", "stale"}

MCOffsets  == {0, 1, 6, 14}
MCNegative == {0 - 2, 0, 6}
MCLengths  == {0, 2, 8, 10}
=============================================================================
