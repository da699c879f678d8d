------------------------------ MODULE PmpCheck ------------------------------
(***************************************************************************)
(* The combinational access check of rtl/cv32e40s/cv32e40s_pmp.sv: which   *)
(* PMP entry an address matches and whether the access faults.             *)
(*                                                                         *)
(* A register value is the set of its 1 bits.  Bit b of a pmpaddr register *)
(* is bit b+2 of the byte address, so a request is the set of its address  *)
(* bits from 2 up.  The stored part of a pmpaddr register starts at bit    *)
(* Granularity-1 (bit 0 when Granularity is 0).                            *)
(***************************************************************************)
EXTENDS Integers

CONSTANTS
  NumRegions,   \* PMP_NUM_REGIONS
  AddrBits,     \* bits of a pmpaddr register (32 in the core)
  Granularity   \* PMP_GRANULARITY

ASSUME PmpParameters ==
  /\ NumRegions \in Nat \ {0}
  /\ AddrBits \in Nat \ {0}
  /\ Granularity \in 0..(AddrBits - 1)

Regions == 0..(NumRegions - 1)
Words   == SUBSET (0..(AddrBits - 1))                 \* bus words, CSR operands

LowBit  == IF Granularity = 0 THEN 0 ELSE Granularity - 1
Addrs   == SUBSET (LowBit..(AddrBits - 1))            \* stored pmpaddr values

Perms   == {"R", "W", "X"}                            \* also the access types
Modes   == {"OFF", "TOR", "NA4", "NAPOT"}
Privs   == {"M", "U"}
Levels  == {"S", "NS"}                                \* security_lvl_t

CfgEntries ==                                         \* pmpncfg_t
  [lock : BOOLEAN, slock : BOOLEAN, mode : Modes, perm : SUBSET Perms]

MsecCfgs == [mml : BOOLEAN, mmwp : BOOLEAN, rlb : BOOLEAN]

(* RW = 01, reserved without mseccfg.MML and a shared region with it. *)
WriteOnly(perm) == "W" \in perm /\ "R" \notin perm

(* The numbers a register can hold, and the 1 bits of one. *)
AllWords == 0..(2^AddrBits - 1)
Bits(n) == {b \in 0..(AddrBits - 1) : (n \div 2^b) % 2 = 1}

-----------------------------------------------------------------------------
(* The value a pmpaddr register presents to CSR reads and to the checker.  *)
pmp_addr_rdata(c, a) ==
  IF c.mode \in {"OFF", "TOR"}
    THEN a \ (0..(Granularity - 1))
    ELSE a \cup (0..(Granularity - 2))

(* The comparators see only the bits from Granularity up. *)
Compared(a) == {b \in a : b >= Granularity}

(* a < b as unsigned numbers: the highest differing bit belongs to b. *)
Below(a, b) ==
  \E k \in b \ a : \A j \in (k + 1)..(AddrBits - 1) : j \in a <=> j \in b

region_start_addr(cfg, addr, i) ==
  IF cfg[i].mode # "TOR" THEN pmp_addr_rdata(cfg[i], addr[i])
  ELSE IF i = 0 THEN {}
  ELSE pmp_addr_rdata(cfg[i - 1], addr[i - 1])

Mut_MaskedBits(c, a) ==
  IF c.mode = "NAPOT"
    THEN {b \in Granularity..(AddrBits - 1) :
            LowBit..b \subseteq pmp_addr_rdata(c, a)}
    ELSE {}

(* NAPOT ignores the trailing ones of the address and the zero above them. *)
MaskedBits(c, a) ==
  IF c.mode = "NAPOT"
    THEN {b \in Granularity..(AddrBits - 1) :
            LowBit..(b - 1) \subseteq pmp_addr_rdata(c, a)}
    ELSE {}

region_match_eq(cfg, addr, i, req) ==
  LET masked == MaskedBits(cfg[i], addr[i])
  IN  Compared(req) \ masked
        = Compared(region_start_addr(cfg, addr, i)) \ masked

region_match_gt(cfg, addr, i, req) ==
  Below(Compared(region_start_addr(cfg, addr, i)), Compared(req))

region_match_lt(cfg, addr, i, req) ==
  Below(Compared(req), Compared(pmp_addr_rdata(cfg[i], addr[i])))

region_match_all(cfg, addr, i, req) ==
  \/ /\ cfg[i].mode \in {"NA4", "NAPOT"}
     /\ region_match_eq(cfg, addr, i, req)
  \/ /\ cfg[i].mode = "TOR"
     /\ \/ region_match_eq(cfg, addr, i, req)
        \/ region_match_gt(cfg, addr, i, req)
     /\ region_match_lt(cfg, addr, i, req)

-----------------------------------------------------------------------------
region_basic_perm_check(c, t) == t \in c.perm

(* Permissions of an entry once mseccfg.MML is set. *)
region_mml_perm_check(c, priv, t) ==
  CASE WriteOnly(c.perm) /\ ~c.lock /\ "X" \notin c.perm ->
         t = "R" \/ (t = "W" /\ priv = "M")
    [] WriteOnly(c.perm) /\ ~c.lock /\ "X" \in c.perm ->
         t \in {"R", "W"}
    [] WriteOnly(c.perm) /\ c.lock /\ "X" \notin c.perm ->
         t = "X"
    [] WriteOnly(c.perm) /\ c.lock /\ "X" \in c.perm ->
         t = "X" \/ (t = "R" /\ priv = "M")
    [] c.lock /\ c.perm = Perms ->
         t = "R"
    [] OTHER ->
         region_basic_perm_check(c, t) /\ (c.lock <=> priv = "M")

(* The verdict of the entry that decides an access. *)
access_fault_all(c, mml, priv, t) ==
  IF mml THEN ~region_mml_perm_check(c, priv, t)
  ELSE ~region_basic_perm_check(c, t) /\ (priv = "M" => c.lock)

(* The verdict when no entry matches. *)
DefaultFault(msec, priv, t) ==
  priv # "M" \/ msec.mmwp \/ (msec.mml /\ t = "X")

(* The lowest-numbered entry that matches decides. *)
Decides(cfg, addr, i, req) ==
  /\ region_match_all(cfg, addr, i, req)
  /\ \A j \in 0..(i - 1) : ~region_match_all(cfg, addr, j, req)

access_fault(cfg, addr, msec, priv, t, req) ==
  \/ \E i \in Regions : /\ Decides(cfg, addr, i, req)
                        /\ access_fault_all(cfg[i], msec.mml, priv, t)
  \/ /\ \A i \in Regions : ~region_match_all(cfg, addr, i, req)
     /\ DefaultFault(msec, priv, t)

(* Secure M-mode ignores every rule, and so does the debug region.         *)
pmp_req_err_o(cfg, addr, msec, level, priv, t, req, debugRegion) ==
  /\ ~debugRegion
  /\ ~(level = "S" /\ priv = "M")
  /\ access_fault(cfg, addr, msec, priv, t, req)
=============================================================================
