------------------------------ MODULE MCPmpCsr ------------------------------
(* Values of the constants of PmpCsr for TLC. *)
EXTENDS PmpMatch

Entry(l, s, m, p) == [lock |-> l, slock |-> s, mode |-> m, perm |-> p]

(* Locks, every mode, and the permissions the MML table treats apart. *)
MCCfgWrites ==
  { Entry(FALSE, FALSE, "NAPOT", {"R", "W", "X"}),
    Entry(FALSE, TRUE,  "TOR",   {"X"}),
    Entry(TRUE,  FALSE, "TOR",   {"R", "X"}),
    Entry(TRUE,  FALSE, "NA4",   {"W"}) }

MCAddrWrites == {{1}, {0, 1}}
=============================================================================
