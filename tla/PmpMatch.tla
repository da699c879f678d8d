------------------------------ MODULE PmpMatch ------------------------------
(***************************************************************************)
(* The bitwise comparators of cv32e40s_pmp.sv against the arithmetic that  *)
(* the modes stand for, on every register value software can reach.        *)
(***************************************************************************)
EXTENDS PmpCsr, FiniteSetsExt

(* The unsigned number whose 1 bits are a. *)
Value(a) == CHOOSE n \in AllWords : Bits(n) = a

(* Grain in which the comparators count, in words of 4 bytes. *)
Grain(a) == Value(a) \div 2^Granularity

(* Number of trailing ones of a NAPOT address. *)
TrailingOnes(a) ==
  Min({n \in 0..AddrBits : n \notin a})

(* What an entry covers: TOR the half-open interval between two registers, *)
(* NA4 one word, NAPOT the aligned block its trailing ones spell out.      *)
Block(i) ==
  LET a     == pmp_addr_rdata(pmpncfg[i], pmpaddr[i])
      below == IF i = 0 THEN {}
               ELSE pmp_addr_rdata(pmpncfg[i - 1], pmpaddr[i - 1])
      size  == 2^(TrailingOnes(a) + 1)
      base  == size * (Value(a) \div size)
  IN  CASE pmpncfg[i].mode = "OFF"   -> {}
        [] pmpncfg[i].mode = "TOR"   ->
             {v \in AllWords :
                /\ Grain(below) <= v \div 2^Granularity
                /\ v \div 2^Granularity < Grain(a)}
        [] pmpncfg[i].mode = "NA4"   -> {Value(a)}
        [] pmpncfg[i].mode = "NAPOT" ->
             (base..(base + size - 1)) \cap AllWords

(* The mask and compare network selects exactly the words of the block the *)
(* mode describes, for every granularity (cv32e40s_pmp.sv lines 75-136,    *)
(* cs_registers lines 2489-2525).                                          *)
MatchesBlock ==
  \A i \in Regions : {Value(req) : req \in Covered(i)} = Block(i)

=============================================================================
