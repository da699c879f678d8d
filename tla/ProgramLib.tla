----------------------------- MODULE ProgramLib -----------------------------
(* The PMP library as the test programs under software/ carry it: the copy in *)
(* pmp-secure/lib and the earlier library that pmp-basic and pmp-smepmp share.*)
(* Unlike in PmpLib a call is not one step here.  The code that configures    *)
(* the rules runs under them, so each CSR write is a step of its own.         *)
EXTENDS PmpLib, Sequences

VARIABLE writes   \* the CSR writes the running call has still to make

-----------------------------------------------------------------------------
(* When a call returns before it writes anything.                             *)

\* `word & PMP_CFG_L == PMP_CFG_L` compares first: it is bit 0 of the entry, R.
first_read_L(reg) == "R" \in pmpncfg[reg].perm

\* Only warns about the start of entry 0, and about NA4, whose dimension is
\* not compared with the granularity.
first_refuses(c) ==
  \/ Missing(c)
  \/ c.A = "NAPOT" /\ c.region_start_address % c.region_dimension # 0
  \/ c.region_number > NumRegions
  \/ c.A # "NA4" /\ Dimension(c) < get_granularity
  \/ first_read_L(c.region_number) /\ ~mseccfg.rlb
  \/ Reserved(c)

Mut_secure_refuses(c) ==
  Missing(c) \/ NotValid(c) \/ Reserved(c)
    \/ (pmpncfg[c.region_number].lock /\ ~mseccfg.rlb)

secure_refuses(c) ==
  Missing(c) \/ NotValid(c) \/ Locked(pmpncfg[c.region_number]) \/ Reserved(c)

-----------------------------------------------------------------------------
(* What it writes otherwise.  Neither copy reads an address back.             *)

AddrStep(reg, w) == [csr |-> "pmpaddr", reg |-> reg, value |-> w]

StartStep(c) ==
  IF c.A = "TOR" /\ c.region_number # 0
  THEN <<AddrStep(c.region_number - 1, StartWord(c))>> ELSE <<>>

Mut_EndStep(c) ==
  CASE c.A = "TOR" -> <<AddrStep(c.region_number, Bits(c.region_end_address \div 4))>>
    [] c.A \in {"NA4", "NAPOT"} -> <<AddrStep(c.region_number, StartWord(c))>>
    [] c.A = "OFF" -> <<>>

EndStep(c) ==
  CASE c.A = "TOR" -> <<AddrStep(c.region_number, Bits(c.region_end_address \div 4))>>
    [] c.A = "NA4" -> <<AddrStep(c.region_number, StartWord(c))>>
    [] c.A = "NAPOT" -> <<AddrStep(c.region_number, NapotWord(c))>>
    [] c.A = "OFF" -> <<>>

\* The control word last, "for consistency".
CsrSteps(c) ==
  StartStep(c) \o EndStep(c)
    \o <<[csr |-> "pmpcfg", reg |-> c.region_number, value |-> pmp_cfg_to_csr(c)]>>

write_pmpaddr_csr_value ==
  /\ writes # <<>> /\ Head(writes).csr = "pmpaddr"
  /\ pmpaddr' = WriteAddr(pmpaddr, Head(writes).reg, Head(writes).value)
  /\ writes' = Tail(writes)
  /\ UNCHANGED <<pmpncfg, mseccfg, security_lvl, security_level>>

write_pmp_csr_value ==
  /\ writes # <<>> /\ Head(writes).csr = "pmpcfg"
  /\ pmpncfg' = pmp_write_cfg(Head(writes).reg, Head(writes).value)
  /\ writes' = Tail(writes)
  /\ UNCHANGED <<pmpaddr, mseccfg, security_lvl, security_level>>
=============================================================================
