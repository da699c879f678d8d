------------------------------- MODULE PmpLib -------------------------------
(* The PMP library of the firmware, lib/pmp.c, on the registers of PmpCsr.   *)
(* One action is one call: the library is written for a single               *)
(* initialisation thread (comment at lib/pmp.c:149).  Addresses and sizes    *)
(* are numbers of bytes, as wide as a pmpaddr register.                      *)
EXTENDS PmpCsr

CONSTANT Configs     \* bound: the pmp_config_t values callers pass

pmp_config_t ==
  [region_number : Nat, A : Modes, perm : SUBSET Perms, L : BOOLEAN,
   SL : BOOLEAN, region_start_address : AllWords, region_end_address : AllWords,
   region_dimension : AllWords]

ASSUME LibParameters ==
  /\ Configs \subseteq pmp_config_t
  /\ NumRegions % GroupSize = 0

VARIABLES
  security_level    \* the flop that get_security_state reads (see SocBus)

registers == <<pmpncfg, pmpaddr, mseccfg>>
libVars == <<pmpncfg, pmpaddr, mseccfg, security_lvl, security_level>>

get_granularity == 2^(Granularity + 2)

\* A register the library cannot reach reads as an uninitialised local.
\* Only its locks are looked at.
Reads(reg) == IF reg \in Regions THEN {pmpncfg[reg]}
              ELSE [lock : BOOLEAN, slock : BOOLEAN]

-----------------------------------------------------------------------------
(* The checks of pmp_configure_region, in their order.                        *)

Missing(c) ==
  \/ c.A = "NAPOT" /\ c.region_dimension = 0
  \/ c.A = "TOR" /\ c.region_end_address = 0

Dimension(c) ==
  IF c.A = "TOR"
  THEN (c.region_end_address - c.region_start_address) % 2^AddrBits
  ELSE c.region_dimension

\* NA4 is refused whatever its dimension: no number equals both 0 and 4.
NotValid(c) ==
  \/ c.A = "NAPOT" /\ c.region_start_address % c.region_dimension # 0
  \/ c.region_number > NumRegions
  \/ c.region_number = 0 /\ c.A = "TOR" /\ c.region_start_address # 0
  \/ c.A = "NA4" /\ (c.region_dimension # 0 \/ c.region_dimension # 4)
  \/ Dimension(c) < get_granularity

Mut_Locked(old) == old.lock /\ ~mseccfg.rlb

Locked(old) == (old.lock \/ (old.slock /\ security_level = "NS")) /\ ~mseccfg.rlb

Reserved(c) == WriteOnly(c.perm) /\ ~mseccfg.mml

-----------------------------------------------------------------------------
(* The writes of pmp_configure_region.                                        *)

StartWord(c) == Bits(c.region_start_address \div 4)

WriteAddr(addr, reg, w) ==
  IF reg \in Regions THEN [addr EXCEPT ![reg] = pmp_addr_n(reg, "WRITE", w)]
                     ELSE addr

\* TOR: the start goes to the register below.
BelowWritten(c) == WriteAddr(pmpaddr, c.region_number - 1, StartWord(c))

\* For entry 0 it is compared with a register that does not exist.
StartRefused(c) ==
  IF c.A # "TOR" THEN {FALSE}
  ELSE IF c.region_number = 0 THEN BOOLEAN
  ELSE LET reg == c.region_number - 1
       IN  {pmp_addr_rdata(pmpncfg[reg], BelowWritten(c)[reg]) # StartWord(c)}

Mut_NapotWord(c) ==
  LET half == c.region_dimension \div 4
  IN  (StartWord(c) \ Bits(half)) \cup Bits((half - 1) % 2^AddrBits)

NapotWord(c) ==
  LET half == c.region_dimension \div 8
  IN  (StartWord(c) \ Bits(half)) \cup Bits((half - 1) % 2^AddrBits)

AddrWritten(c) ==
  CASE c.A = "TOR" -> WriteAddr(BelowWritten(c), c.region_number,
                                Bits(c.region_end_address \div 4))
    [] c.A = "NA4" -> WriteAddr(pmpaddr, c.region_number, StartWord(c))
    [] c.A = "NAPOT" -> WriteAddr(pmpaddr, c.region_number, NapotWord(c))
    [] c.A = "OFF" -> pmpaddr

pmp_cfg_to_csr(c) ==
  [lock |-> c.L, slock |-> c.SL, mode |-> c.A, perm |-> c.perm]

Mut_pmp_write_cfg(reg, w) ==
  [i \in Regions |-> IF i \in Group(reg \div GroupSize)
                     THEN pmpncfg_n(i, IF i = reg THEN w ELSE PMPNCFG_DEFAULT)
                     ELSE pmpncfg[i]]

\* The whole register is written, the other entries with the value read.
pmp_write_cfg(reg, w) ==
  [i \in Regions |-> IF i \in Group(reg \div GroupSize)
                     THEN pmpncfg_n(i, IF i = reg THEN w ELSE pmpncfg[i])
                     ELSE pmpncfg[i]]

-----------------------------------------------------------------------------

LibInit ==
  /\ Init
  /\ security_level \in Levels      \* no reset

\* What a call leaves and returns.  Without a successful write the registers
\* are as they were.
Outcome(r, cfg, addr) == [result |-> r, cfg |-> cfg, addr |-> addr]
Fails(r) == Outcome(r, pmpncfg, pmpaddr)

Mut_Apply(c) ==
  {Outcome(IF refused THEN "LOCKED" ELSE "OK",
           pmp_write_cfg(c.region_number, pmp_cfg_to_csr(c)),
           AddrWritten(c)) : refused \in StartRefused(c)}

\* The writes, up to the one that does not take.
Apply(c) ==
  {IF refused THEN Outcome("LOCKED", pmpncfg, BelowWritten(c))
   ELSE Outcome("OK", pmp_write_cfg(c.region_number, pmp_cfg_to_csr(c)),
                AddrWritten(c)) : refused \in StartRefused(c)}

\* With old in the entry.
Configure(c, old) ==
  CASE Missing(c) -> {Fails("MISSING")}
    [] ~Missing(c) /\ NotValid(c) -> {Fails("NOT_VALID")}
    [] OTHER -> IF Locked(old) THEN {Fails("LOCKED")}
                ELSE IF Reserved(c) THEN {Fails("NOT_VALID")}
                ELSE Apply(c)

Configured(c) == UNION {Configure(c, old) : old \in Reads(c.region_number)}

\* Without the secure extension the core has no register for the level.
Loaded(l) == IF SecureMonitor THEN l ELSE security_lvl

\* The level is read from its device only for an entry with SL and without L,
\* and reading it loads it into the core (SocBus).
LevelRead(c, old) ==
  security_lvl' =
    IF ~Missing(c) /\ ~NotValid(c) /\ ~old.lock /\ old.slock
    THEN Loaded(security_level) ELSE security_lvl

pmp_configure_region(c) ==
  /\ \E old \in Reads(c.region_number) :
       /\ LevelRead(c, old)
       /\ \E o \in Configure(c, old) : pmpncfg' = o.cfg /\ pmpaddr' = o.addr
  /\ UNCHANGED <<mseccfg, security_level>>

Removal == [lock |-> FALSE, slock |-> FALSE, mode |-> "OFF", perm |-> {"R"}]

\* SL is not looked at (the TODO at lib/pmp.c:651).
Removed(reg) ==
  {IF old.lock /\ ~mseccfg.rlb THEN Fails("LOCKED")
   ELSE Outcome("OK", pmp_write_cfg(reg, Removal), pmpaddr) : old \in Reads(reg)}

remove_region(reg) ==
  /\ \E o \in Removed(reg) : pmpncfg' = o.cfg
  /\ UNCHANGED <<pmpaddr, mseccfg, security_lvl, security_level>>

RlbSet(enable) == pmp_mseccfg_n([mseccfg EXCEPT !.rlb = enable])

\* `v&RLB!=RLB` is v & (RLB != RLB), which is 0: no call returns an error.
RlbResult(enable) == "OK"

setRLB(enable) ==
  /\ mseccfg' = RlbSet(enable)
  /\ UNCHANGED <<pmpncfg, pmpaddr, security_lvl, security_level>>

setMML ==
  /\ mseccfg' = pmp_mseccfg_n([mseccfg EXCEPT !.mml = TRUE])
  /\ UNCHANGED <<pmpncfg, pmpaddr, security_lvl, security_level>>

setMMWP ==
  /\ mseccfg' = pmp_mseccfg_n([mseccfg EXCEPT !.mmwp = TRUE])
  /\ UNCHANGED <<pmpncfg, pmpaddr, security_lvl, security_level>>

\* SET_SECURE_MODE and SET_NONSECURE_MODE.
SetMode(l) ==
  /\ security_level' = l /\ security_lvl' = Loaded(l)
  /\ UNCHANGED registers

\* The core is reset, the device that holds the level is not.
CoreReset == Reset /\ UNCHANGED security_level

LibNext ==
  \/ \E c \in Configs : pmp_configure_region(c)
  \/ \E reg \in 0 .. NumRegions : remove_region(reg)
  \/ \E enable \in BOOLEAN : setRLB(enable)
  \/ setMML
  \/ setMMWP
  \/ \E l \in Levels : SetMode(l)
  \/ CoreReset

LibSpec == LibInit /\ [][LibNext]_libVars

-----------------------------------------------------------------------------
(* Properties.  Those about calls say what the call would do in the state.   *)

Calls == (UNION {Configured(c) : c \in Configs})
           \cup (UNION {Removed(reg) : reg \in 0 .. NumRegions})

\* A call that reports an error has changed no PMP register, although the
\* address below a TOR region is written before the last check (lib/pmp.c:736).
ErrorsChangeNothing ==
  \A o \in Calls : o.result # "OK" => o.cfg = pmpncfg /\ o.addr = pmpaddr

\* No call gives another region other rights or another mode, although its
\* entry shares a register that is written back with what was read
\* (lib/pmp.c:147).
OthersKept ==
  \A i \in Regions :
    \A o \in (UNION {Configured(c) : c \in {d \in Configs : d.region_number # i}})
               \cup (UNION {Removed(reg) : reg \in (0 .. NumRegions) \ {i}}) :
       o.cfg[i] = pmpncfg[i]

\* No call disturbs what it is not about, whether it fails or not.
NothingElseChanged == ErrorsChangeNothing /\ OthersKept

\* Configuring a rule that the hardware holds locked, by L or by SL at the
\* non-secure level, is never reported as done: the level the library reads
\* from the device is not more secure than the one in force (lib/pmp.c:712).
LockedNotOk ==
  \A c \in Configs :
    (c.region_number \in Regions /\ pmpncfg_locked(c.region_number)) =>
       \A o \in Configured(c) : o.result # "OK"

\* The words region i of the outcome covers, and those c asks for.
Covers(o, i) == {req \in Words : region_match_all(o.cfg, o.addr, i, req)}
Asked(c) ==
  LET first == c.region_start_address \div 4
      size == CASE c.A = "NAPOT" -> c.region_dimension \div 4
                [] c.A = "TOR" -> c.region_end_address \div 4 - first
                [] OTHER -> 0
  IN  {Bits(w) : w \in first .. (first + size - 1)}

\* What c asked for is what the hardware enforces.
InForce(c, o) ==
  LET i == c.region_number
  IN  /\ i \in Regions
      /\ o.cfg[i] = [lock |-> c.L, slock |-> c.SL, mode |-> c.A,
                     perm |-> c.perm]
      /\ Covers(o, i) = Asked(c)

\* The rule above c's region is locked and owns c's address register.
HeldFromAbove(c) ==
  LET above == c.region_number + 1
  IN  /\ above \in Regions
      /\ pmpncfg_locked(above) /\ pmpncfg[above].mode = "TOR"

\* A NAPOT dimension is a power of two above the granularity.
WellSized(c) ==
  c.A = "NAPOT" =>
    /\ c.region_dimension > get_granularity
    /\ c.region_dimension \in {2^b : b \in 0 .. AddrBits}

\* Success means that the rule is in force exactly as asked, for a dimension
\* the header allows, if neither lockdown nor a locked rule above makes the
\* hardware ignore a write: the address arithmetic of lib/pmp.c:730-757 agrees
\* with the comparators of cv32e40s_pmp.sv.
OkIsInForce ==
  \A c \in Configs :
    (/\ c.region_number \in Regions /\ WellSized(c)
     /\ ~HeldFromAbove(c) /\ (~mseccfg.mml \/ mseccfg.rlb))
    => \A o \in Configured(c) : o.result = "OK" => InForce(c, o)

-----------------------------------------------------------------------------
(* What pmp.h says and the code does not do.                                  *)

\* pmp.h:93, of setRLB: "returns PMP_OK if successful, PMP_LOCKED otherwise".
SetRlbTold == RlbResult(TRUE) = "OK" => RlbSet(TRUE).rlb

\* pmp.h:50: the dimension "must be larger than granularity".
SmallRefused ==
  [][\A c \in Configs :
       (c.A = "NAPOT" /\ c.region_dimension <= get_granularity
          /\ pmp_configure_region(c))
       => UNCHANGED registers]_libVars
=============================================================================
