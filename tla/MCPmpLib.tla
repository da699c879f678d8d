------------------------------ MODULE MCPmpLib ------------------------------
(* Two regions in a memory of 16 bytes; every kind of shape, the misuses the  *)
(* library looks for, and rights with and without each lock.                  *)
EXTENDS PmpLib

Shape(m, s, e, d) ==
  [A |-> m, region_start_address |-> s, region_end_address |-> e,
   region_dimension |-> d]
Rights(p, l, s) == [perm |-> p, L |-> l, SL |-> s]

Ask(r, shape, rights) ==
  [region_number |-> r, A |-> shape.A, perm |-> rights.perm, L |-> rights.L,
   SL |-> rights.SL, region_start_address |-> shape.region_start_address,
   region_end_address |-> shape.region_end_address,
   region_dimension |-> shape.region_dimension]

Good == {Shape("TOR", 0, 8, 0), Shape("TOR", 4, 12, 0), Shape("NAPOT", 8, 0, 8)}
Odd == {Shape("TOR", 4, 0, 0), Shape("NAPOT", 8, 0, 0),
        Shape("NAPOT", 4, 0, 8), Shape("NAPOT", 4, 0, 4),
        Shape("NA4", 4, 0, 4)}
Locked_ == Rights({"R", "X"}, TRUE, FALSE)
SLocked == Rights({"W"}, FALSE, TRUE)
Plain == Rights({"R"}, FALSE, FALSE)

MCConfigs == {Ask(r, s, p) : r \in 0 .. 1, s \in Good, p \in {Locked_, SLocked}}
             \cup {Ask(1, s, Plain) : s \in Odd}
             \cup {Ask(2, s, Plain) : s \in Good}

\* Calls that follow the header to the letter.
MCByTheBook ==
  {Ask(r, s, p) : r \in 0 .. 1, s \in Good,
                  p \in {Locked_, SLocked, Rights({"R"}, FALSE, TRUE)}}
=============================================================================
