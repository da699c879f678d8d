----------------------------- MODULE MCPmpMatch -----------------------------
(* Values of the constants of PmpMatch for TLC. *)
EXTENDS PmpMatch

Entry(l, s, m, p) == [lock |-> l, slock |-> s, mode |-> m, perm |-> p]

(* Every mode, unlocked, and one of each way to be locked. *)
MCCfgWrites ==
  {Entry(FALSE, FALSE, m, {"R", "W"}) : m \in Modes} \cup
  {Entry(TRUE, FALSE, "TOR", Perms), Entry(FALSE, TRUE, "NAPOT", {"W", "X"})}

MCAddrWrites == SUBSET (0..(AddrBits - 1))
=============================================================================
