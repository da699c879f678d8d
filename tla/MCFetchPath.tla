---------------------------- MODULE MCFetchPath ----------------------------
(* Jumps to an aligned and an unaligned instruction and to a pointer.         *)
EXTENDS FetchPath

MCTargets == {[addr |-> 0, ptr |-> FALSE], [addr |-> 3, ptr |-> FALSE], [addr |-> 0, ptr |-> TRUE]}
=============================================================================
