---------------------------- MODULE PmpLibProofs ----------------------------
(* Theorems about the PMP library, for every number of regions, every width  *)
(* and every set of calls.                                                   *)
EXTENDS PmpLib, PmpMatchProofs

USE PmpParameters, CsrParameters DEF Regions

(* The registers are legal whatever is called, and the core is non-secure    *)
(* only when the flop that the library reads says so.                        *)
LevelInv == security_lvl = "NS" /\ SecureMonitor => security_level = "NS"

LibInv == TypeOK /\ NoReservedPerm /\ security_level \in Levels /\ LevelInv

-----------------------------------------------------------------------------
(* What is written to the registers.                                         *)
LEMMA ConfigTypes ==
  ASSUME NEW c \in Configs
  PROVE  /\ pmp_cfg_to_csr(c) \in CfgEntries
         /\ c.region_number \in Nat /\ c.A \in Modes
         /\ StartWord(c) \in Words /\ NapotWord(c) \in Words
         /\ Bits(c.region_end_address \div 4) \in Words
<1>1. c \in pmp_config_t
  BY LibParameters
<1>2. \A n : Bits(n) \in Words
  BY DEF Bits, Words
<1>3. StartWord(c) \in Words /\ NapotWord(c) \in Words
  BY <1>2 DEF StartWord, NapotWord, Words
<1>4. pmp_cfg_to_csr(c) \in CfgEntries
  BY <1>1 DEF pmp_config_t, pmp_cfg_to_csr, CfgEntries
<1>. QED
  BY <1>1, <1>2, <1>3, <1>4 DEF pmp_config_t

(* A write of one entry of a configuration register writes back what it read *)
(* of the others, which changes nothing of them.                             *)
LEMMA WrittenBack ==
  ASSUME TypeOK, NoReservedPerm, NEW i \in Regions
  PROVE  pmpncfg_n(i, pmpncfg[i]) = pmpncfg[i]
<1>1. pmpncfg[i] \in CfgEntries
  BY DEF TypeOK
<1>2. perm_n(i, pmpncfg[i]) = pmpncfg[i].perm /\ mode_n(i, pmpncfg[i]) = pmpncfg[i].mode
  BY DEF perm_n, mode_n
<1>3. slock_n(pmpncfg[i]) = pmpncfg[i].slock
  <2>1. pmpncfg[i].slock \in BOOLEAN /\ SecureMonitor \in BOOLEAN
        /\ (SecureMonitor \/ ~pmpncfg[i].slock)
    BY <1>1 DEF CfgEntries, TypeOK
  <2>. QED
    BY <2>1 DEF slock_n
<1>4. \A e \in CfgEntries :
        e = [lock |-> e.lock, slock |-> e.slock, mode |-> e.mode, perm |-> e.perm]
  BY DEF CfgEntries
<1>5. pmpncfg[i] = [lock |-> pmpncfg[i].lock, slock |-> pmpncfg[i].slock,
                    mode |-> pmpncfg[i].mode, perm |-> pmpncfg[i].perm]
  BY <1>1, <1>4
<1>. QED
  BY <1>2, <1>3, <1>5 DEF pmpncfg_n

LEMMA CfgWritten ==
  ASSUME TypeOK, NoReservedPerm, NEW reg \in Nat, NEW w \in CfgEntries
  PROVE  /\ pmp_write_cfg(reg, w) \in [Regions -> CfgEntries]
         /\ \A i \in Regions :
              /\ i # reg \/ pmpncfg_locked(i) => pmp_write_cfg(reg, w)[i] = pmpncfg[i]
              /\ ~mseccfg.mml => ~WriteOnly(pmp_write_cfg(reg, w)[i].perm)
              /\ SecureMonitor \/ ~pmp_write_cfg(reg, w)[i].slock
<1>1. ASSUME NEW i \in Regions
      PROVE  /\ pmp_write_cfg(reg, w)[i] \in CfgEntries
             /\ i # reg \/ pmpncfg_locked(i) => pmp_write_cfg(reg, w)[i] = pmpncfg[i]
             /\ ~mseccfg.mml => ~WriteOnly(pmp_write_cfg(reg, w)[i].perm)
             /\ SecureMonitor \/ ~pmp_write_cfg(reg, w)[i].slock
  <2>1. pmpncfg[i] \in CfgEntries
    BY DEF TypeOK
  <2>2. CASE i \in Group(reg \div GroupSize) /\ i = reg
    <3>1. pmp_write_cfg(reg, w)[i] = pmpncfg_n(i, w)
      BY <2>2 DEF pmp_write_cfg
    <3>2. pmpncfg_locked(i) => pmpncfg_n(i, w) = pmpncfg[i]
      BY DEF pmpncfg_n
    <3>. QED
      BY <2>2, <3>1, <3>2, CfgWriteType
  <2>3. CASE ~(i \in Group(reg \div GroupSize) /\ i = reg)
    <3>1. pmp_write_cfg(reg, w)[i] = pmpncfg[i]
      BY <2>3, WrittenBack DEF pmp_write_cfg
    <3>. QED
      BY <2>1, <3>1 DEF TypeOK, NoReservedPerm
  <2>. QED
    BY <2>2, <2>3
<1>2. pmp_write_cfg(reg, w) = [i \in Regions |-> pmp_write_cfg(reg, w)[i]]
  BY DEF pmp_write_cfg
<1>. QED
  BY <1>1, <1>2

(* An address register holds what it held, or what was written to it.        *)
LEMMA AddrsWritten ==
  ASSUME TypeOK, NEW addr \in [Regions -> Addrs], NEW reg, NEW w \in Words,
         reg \in Regions => addr[reg] = pmpaddr[reg]
  PROVE  /\ WriteAddr(addr, reg, w) \in [Regions -> Addrs]
         /\ \A i \in Regions : (i # reg \/ pmpaddr_locked(i)) => WriteAddr(addr, reg, w)[i] = addr[i]
<1>1. CASE reg \notin Regions
  BY <1>1 DEF WriteAddr
<1>2. CASE reg \in Regions
  <2>1. WriteAddr(addr, reg, w) = [addr EXCEPT ![reg] = pmp_addr_n(reg, "WRITE", w)]
    BY <1>2 DEF WriteAddr
  <2>2. pmp_addr_n(reg, "WRITE", w) \in Addrs
    BY <1>2, AddrWriteType DEF CsrOps
  <2>3. pmpaddr_locked(reg) => pmp_addr_n(reg, "WRITE", w) = addr[reg]
    BY <1>2 DEF pmp_addr_n
  <2>. QED
    BY <1>2, <2>1, <2>2, <2>3
<1>. QED
  BY <1>1, <1>2

(* The address registers after the writes of a call: only the region's own   *)
(* and, for TOR, the one below it, and no locked one.                        *)
AddrKept(addr) ==
  /\ addr \in [Regions -> Addrs]
  /\ \A i \in Regions : pmpaddr_locked(i) => addr[i] = pmpaddr[i]

LEMMA AddrsOfCall ==
  ASSUME TypeOK, NEW c \in Configs
  PROVE  AddrKept(pmpaddr) /\ AddrKept(BelowWritten(c)) /\ AddrKept(AddrWritten(c))
<1>. DEFINE r == c.region_number
            e == Bits(c.region_end_address \div 4)
<1>1. /\ pmpaddr \in [Regions -> Addrs] /\ r \in Nat /\ c.A \in Modes
      /\ StartWord(c) \in Words /\ NapotWord(c) \in Words /\ e \in Words
  BY ConfigTypes DEF TypeOK
<1>2. AddrKept(pmpaddr)
  BY <1>1 DEF AddrKept
<1>3. /\ AddrKept(BelowWritten(c))
      /\ r \in Regions => BelowWritten(c)[r] = pmpaddr[r]
  <2>1. r - 1 # r
    BY <1>1
  <2>. QED
    BY <1>1, <2>1, AddrsWritten DEF BelowWritten, AddrKept
<1>. HIDE DEF r, e
<1>4. CASE c.A = "TOR"
  <2>1. AddrWritten(c) = WriteAddr(BelowWritten(c), r, e)
    BY <1>4 DEF AddrWritten, r, e
  <2>. QED
    BY <1>1, <1>2, <1>3, <2>1, AddrsWritten DEF AddrKept
<1>5. CASE c.A = "NA4"
  <2>1. AddrWritten(c) = WriteAddr(pmpaddr, r, StartWord(c))
    BY <1>5 DEF AddrWritten, r
  <2>. QED
    BY <1>1, <1>2, <1>3, <2>1, AddrsWritten DEF AddrKept
<1>6. CASE c.A = "NAPOT"
  <2>1. AddrWritten(c) = WriteAddr(pmpaddr, r, NapotWord(c))
    BY <1>6 DEF AddrWritten, r
  <2>. QED
    BY <1>1, <1>2, <1>3, <2>1, AddrsWritten DEF AddrKept
<1>7. CASE c.A = "OFF"
  <2>1. AddrWritten(c) = pmpaddr
    BY <1>7 DEF AddrWritten
  <2>. QED
    BY <1>2, <1>3, <2>1
<1>. QED
  BY <1>1, <1>4, <1>5, <1>6, <1>7 DEF Modes

-----------------------------------------------------------------------------
(* The outcomes of a call.                                                   *)
CfgKept(cfg) ==
  /\ cfg \in [Regions -> CfgEntries]
  /\ \A i \in Regions : /\ pmpncfg_locked(i) => cfg[i] = pmpncfg[i]
                        /\ ~mseccfg.mml => ~WriteOnly(cfg[i].perm)
                        /\ SecureMonitor \/ ~cfg[i].slock

LEMMA CfgsOfCall ==
  ASSUME TypeOK, NoReservedPerm, NEW reg \in Nat, NEW w \in CfgEntries
  PROVE  /\ CfgKept(pmpncfg) /\ CfgKept(pmp_write_cfg(reg, w))
         /\ \A i \in Regions : i # reg => pmp_write_cfg(reg, w)[i] = pmpncfg[i]
<1>1. CfgKept(pmpncfg)
  BY DEF CfgKept, TypeOK, NoReservedPerm
<1>2. CfgKept(pmp_write_cfg(reg, w))
  BY CfgWritten DEF CfgKept
<1>. QED
  BY <1>1, <1>2, CfgWritten

LEMMA OutcomesOfConfigure ==
  ASSUME NEW c \in Configs, NEW old, NEW o \in Configure(c, old)
  PROVE  \/ o.cfg = pmpncfg /\ o.addr = pmpaddr /\ o.result # "OK"
         \/ /\ ~NotValid(c) /\ ~Locked(old)
            /\ \/ /\ TRUE \in StartRefused(c) /\ o.cfg = pmpncfg /\ o.addr = BelowWritten(c)
               \/ /\ o.cfg = pmp_write_cfg(c.region_number, pmp_cfg_to_csr(c))
                  /\ o.addr = AddrWritten(c) /\ o.result = "OK"
<1>0. ASSUME NEW r \in {"MISSING", "NOT_VALID", "LOCKED"}, o = Fails(r)
      PROVE  o.cfg = pmpncfg /\ o.addr = pmpaddr /\ o.result # "OK"
  BY <1>0 DEF Fails, Outcome
<1>1. CASE Missing(c)
  <2>1. Configure(c, old) = {Fails("MISSING")}
    BY <1>1 DEF Configure
  <2>. QED
    BY <1>0, <2>1
<1>2. CASE ~Missing(c) /\ NotValid(c)
  <2>1. Configure(c, old) = {Fails("NOT_VALID")}
    BY <1>2 DEF Configure
  <2>. QED
    BY <1>0, <2>1
<1>3. CASE ~Missing(c) /\ ~NotValid(c)
  <2>1. o \in IF Locked(old) THEN {Fails("LOCKED")}
              ELSE IF Reserved(c) THEN {Fails("NOT_VALID")} ELSE Apply(c)
    BY <1>3 DEF Configure
  <2>2. CASE Locked(old) \/ Reserved(c)
    BY <1>0, <2>1, <2>2
  <2>3. CASE ~Locked(old) /\ ~Reserved(c)
    <3>1. o \in Apply(c)
      BY <2>1, <2>3
    <3>2. PICK refused \in StartRefused(c) :
            o = IF refused THEN Outcome("LOCKED", pmpncfg, BelowWritten(c))
                ELSE Outcome("OK", pmp_write_cfg(c.region_number, pmp_cfg_to_csr(c)),
                             AddrWritten(c))
      BY <3>1 DEF Apply
    <3>3. refused \in BOOLEAN
      BY DEF StartRefused
    <3>4. CASE refused = TRUE
      <4>1. o.cfg = pmpncfg /\ o.addr = BelowWritten(c)
        BY <3>2, <3>4 DEF Outcome
      <4>. QED
        BY <1>3, <2>3, <3>4, <4>1
    <3>5. CASE refused = FALSE
      <4>1. /\ o.cfg = pmp_write_cfg(c.region_number, pmp_cfg_to_csr(c))
            /\ o.addr = AddrWritten(c) /\ o.result = "OK"
        BY <3>2, <3>5 DEF Outcome
      <4>. QED
        BY <1>3, <2>3, <4>1
    <3>. QED
      BY <3>3, <3>4, <3>5
  <2>. QED
    BY <2>2, <2>3
<1>. QED
  BY <1>1, <1>2, <1>3

LEMMA ConfigureKeeps ==
  ASSUME TypeOK, NoReservedPerm, NEW c \in Configs, NEW old, NEW o \in Configure(c, old)
  PROVE  /\ CfgKept(o.cfg) /\ AddrKept(o.addr)
         /\ \A i \in Regions : i # c.region_number => o.cfg[i] = pmpncfg[i]
<1>1. c.region_number \in Nat /\ pmp_cfg_to_csr(c) \in CfgEntries
  BY ConfigTypes
<1>2. /\ CfgKept(pmpncfg) /\ CfgKept(pmp_write_cfg(c.region_number, pmp_cfg_to_csr(c)))
      /\ \A i \in Regions :
           i # c.region_number =>
             pmp_write_cfg(c.region_number, pmp_cfg_to_csr(c))[i] = pmpncfg[i]
  BY <1>1, CfgsOfCall
<1>3. AddrKept(pmpaddr) /\ AddrKept(BelowWritten(c)) /\ AddrKept(AddrWritten(c))
  BY AddrsOfCall
<1>4. \/ o.cfg = pmpncfg /\ o.addr = pmpaddr
      \/ o.cfg = pmpncfg /\ o.addr = BelowWritten(c)
      \/ /\ o.cfg = pmp_write_cfg(c.region_number, pmp_cfg_to_csr(c))
         /\ o.addr = AddrWritten(c)
  BY OutcomesOfConfigure
<1>. QED
  BY <1>2, <1>3, <1>4

LEMMA RemovedKeeps ==
  ASSUME TypeOK, NoReservedPerm, NEW reg \in Nat, NEW o \in Removed(reg)
  PROVE  /\ CfgKept(o.cfg) /\ o.addr = pmpaddr
         /\ \A i \in Regions : i # reg => o.cfg[i] = pmpncfg[i]
         /\ o.result # "OK" => o.cfg = pmpncfg
<1>1. Removal \in CfgEntries
  BY DEF Removal, CfgEntries, Modes, Perms
<1>2. PICK old \in Reads(reg) :
        o = IF old.lock /\ ~mseccfg.rlb THEN Fails("LOCKED")
            ELSE Outcome("OK", pmp_write_cfg(reg, Removal), pmpaddr)
  BY DEF Removed
<1>3. /\ CfgKept(pmpncfg) /\ CfgKept(pmp_write_cfg(reg, Removal))
      /\ \A i \in Regions : i # reg => pmp_write_cfg(reg, Removal)[i] = pmpncfg[i]
  BY <1>1, CfgsOfCall
<1>. QED
  BY <1>2, <1>3 DEF Fails, Outcome

(* With granularity 0 a register that is not locked reads back as written,   *)
(* so the start of a TOR region is refused only where nothing was written.   *)
LEMMA RefusedUnwritten ==
  ASSUME TypeOK, Granularity = 0, NEW c \in Configs, ~NotValid(c), TRUE \in StartRefused(c)
  PROVE  BelowWritten(c) = pmpaddr
<1>. DEFINE r == c.region_number
            w == StartWord(c)
<1>1. r \in 0..NumRegions /\ c.A = "TOR" /\ w \in Words
  <2>1. r \in Nat /\ ~(r > NumRegions) /\ w \in Words
    BY ConfigTypes DEF NotValid
  <2>2. c.A = "TOR"
    BY DEF StartRefused
  <2>. QED
    BY <2>1, <2>2
<1>2. CASE r = 0
  BY <1>2 DEF BelowWritten, WriteAddr
<1>3. CASE r # 0 /\ pmpaddr_locked(r - 1)
  <2>1. r - 1 \in Regions
    BY <1>1, <1>3
  <2>2. pmp_addr_n(r - 1, "WRITE", w) = pmpaddr[r - 1]
    BY <1>3 DEF pmp_addr_n
  <2>. QED
    BY <2>1, <2>2 DEF BelowWritten, WriteAddr, TypeOK
<1>4. CASE r # 0 /\ ~pmpaddr_locked(r - 1)
  <2>1. r - 1 \in Regions
    BY <1>1, <1>4
  <2>2. pmp_addr_n(r - 1, "WRITE", w)
          = {b \in w : b > 0} \cup ({0} \cap w)
    BY <1>4 DEF pmp_addr_n, csr_wdata_int, pmp_addr_bit_0_n, LowBit
  <2>3. {b \in w : b > 0} \cup ({0} \cap w) = w
    BY <1>1 DEF Words
  <2>4. BelowWritten(c)[r - 1] = w
    BY <2>1, <2>2, <2>3 DEF BelowWritten, WriteAddr, TypeOK
  <2>5. \A e : pmp_addr_rdata(e, w) = w
    BY DEF pmp_addr_rdata
  <2>6. StartRefused(c) = {pmp_addr_rdata(pmpncfg[r - 1], BelowWritten(c)[r - 1]) # w}
    BY <1>1, <1>4 DEF StartRefused
  <2>7. StartRefused(c) = {FALSE}
    BY <2>4, <2>5, <2>6
  <2>. QED
    BY <2>7
<1>. QED
  BY <1>2, <1>3, <1>4

-----------------------------------------------------------------------------
LEMMA LibInvInit == LibInit => LibInv
BY InitInv DEF LibInit, LibInv, LevelInv, Inv, Init, ResetLevel

(* Every call but the core reset keeps the types and the locked rules.       *)
LEMMA CallsKeep ==
  ASSUME LibInv, [LibNext]_libVars, ~CoreReset
  PROVE  /\ CfgKept(pmpncfg') /\ AddrKept(pmpaddr')
         /\ mseccfg' \in MsecCfgs /\ (mseccfg.mml => mseccfg'.mml)
         /\ (\E i \in Regions : pmpncfg_locked(i)) => mseccfg'.rlb = FALSE
         /\ security_level' \in Levels /\ security_lvl' \in Levels
         /\ SecureMonitor \/ security_lvl' = security_lvl
         /\ LevelInv'
<1>0. /\ TypeOK /\ NoReservedPerm /\ LevelInv
      /\ mseccfg \in MsecCfgs /\ security_level \in Levels /\ security_lvl \in Levels
      /\ SecureMonitor \in BOOLEAN
  BY DEF LibInv, TypeOK
<1>1. /\ CfgKept(pmpncfg) /\ AddrKept(pmpaddr)
      /\ (\E i \in Regions : pmpncfg_locked(i)) => mseccfg.rlb = FALSE
  BY <1>0 DEF CfgKept, AddrKept, TypeOK, NoReservedPerm, pmpncfg_locked, MsecCfgs
<1>2. ASSUME NEW c \in Configs, pmp_configure_region(c)
      PROVE  /\ CfgKept(pmpncfg') /\ AddrKept(pmpaddr')
             /\ UNCHANGED <<mseccfg, security_level>>
             /\ security_lvl' \in {security_lvl, Loaded(security_level)}
  <2>1. PICK old \in Reads(c.region_number) :
          /\ LevelRead(c, old)
          /\ \E o \in Configure(c, old) : pmpncfg' = o.cfg /\ pmpaddr' = o.addr
    BY <1>2 DEF pmp_configure_region
  <2>2. PICK o \in Configure(c, old) : pmpncfg' = o.cfg /\ pmpaddr' = o.addr
    BY <2>1
  <2>3. CfgKept(o.cfg) /\ AddrKept(o.addr)
    BY <1>0, ConfigureKeeps
  <2>. QED
    BY <1>2, <2>1, <2>2, <2>3 DEF pmp_configure_region, LevelRead
<1>3. ASSUME NEW reg \in 0..NumRegions, remove_region(reg)
      PROVE  /\ CfgKept(pmpncfg')
             /\ UNCHANGED <<pmpaddr, mseccfg, security_lvl, security_level>>
  <2>1. PICK o \in Removed(reg) : pmpncfg' = o.cfg
    BY <1>3 DEF remove_region
  <2>2. CfgKept(o.cfg)
    BY <1>0, RemovedKeeps
  <2>. QED
    BY <1>3, <2>1, <2>2 DEF remove_region
<1>4. ASSUME (\E enable \in BOOLEAN : setRLB(enable)) \/ setMML \/ setMMWP
      PROVE  /\ mseccfg' \in MsecCfgs /\ (mseccfg.mml => mseccfg'.mml)
             /\ (\E i \in Regions : pmpncfg_locked(i)) => mseccfg'.rlb = FALSE
             /\ UNCHANGED <<pmpncfg, pmpaddr, security_lvl, security_level>>
  <2>1. PICK w \in MsecCfgs : mseccfg' = pmp_mseccfg_n(w)
    BY <1>0, <1>4 DEF setRLB, RlbSet, setMML, setMMWP, MsecCfgs
  <2>2. (w.rlb /\ (mseccfg.rlb \/ \A i \in Regions : ~pmpncfg_locked(i))) \in BOOLEAN
    OBVIOUS
  <2>3. mseccfg' \in MsecCfgs /\ (mseccfg.mml => mseccfg'.mml)
    BY <1>0, <2>1, <2>2 DEF pmp_mseccfg_n, MsecCfgs
  <2>4. (\E i \in Regions : pmpncfg_locked(i)) => mseccfg'.rlb = FALSE
    BY <1>1, <2>1 DEF pmp_mseccfg_n
  <2>. QED
    BY <1>4, <2>3, <2>4 DEF setRLB, setMML, setMMWP
<1>5. ASSUME NEW l \in Levels, SetMode(l)
      PROVE  /\ UNCHANGED registers /\ security_level' = l /\ security_lvl' = Loaded(l)
  BY <1>5 DEF SetMode
<1>6. CASE \E c \in Configs : pmp_configure_region(c)
  <2>1. PICK c \in Configs : pmp_configure_region(c)
    BY <1>6
  <2>2. /\ CfgKept(pmpncfg') /\ AddrKept(pmpaddr')
        /\ UNCHANGED <<mseccfg, security_level>>
        /\ security_lvl' \in {security_lvl, Loaded(security_level)}
    BY <1>2, <2>1
  <2>3. /\ security_lvl' \in Levels /\ (SecureMonitor \/ security_lvl' = security_lvl) /\ LevelInv'
    BY <1>0, <2>2 DEF LevelInv, Loaded
  <2>. QED
    BY <1>0, <1>1, <2>2, <2>3
<1>7. CASE \E reg \in 0..NumRegions : remove_region(reg)
  BY <1>0, <1>1, <1>3, <1>7 DEF LevelInv
<1>8. CASE (\E enable \in BOOLEAN : setRLB(enable)) \/ setMML \/ setMMWP
  BY <1>0, <1>1, <1>4, <1>8 DEF LevelInv
<1>9. CASE \E l \in Levels : SetMode(l)
  <2>1. PICK l \in Levels : SetMode(l)
    BY <1>9
  <2>2. /\ UNCHANGED <<pmpncfg, pmpaddr, mseccfg>> /\ security_level' = l /\ security_lvl' = Loaded(l)
    BY <1>5, <2>1 DEF registers
  <2>3. /\ security_lvl' \in Levels /\ (SecureMonitor \/ security_lvl' = security_lvl) /\ LevelInv'
    BY <1>0, <2>2 DEF LevelInv, Loaded
  <2>. QED
    BY <1>0, <1>1, <2>2, <2>3
<1>10. CASE UNCHANGED libVars
  BY <1>0, <1>1, <1>10 DEF libVars, LevelInv
<1>. QED
  BY <1>6, <1>7, <1>8, <1>9, <1>10 DEF LibNext

LEMMA LibInvStep == LibInv /\ [LibNext]_libVars => LibInv'
<1>. SUFFICES ASSUME LibInv, [LibNext]_libVars PROVE LibInv'
  OBVIOUS
<1>1. CASE CoreReset
  <2>1. Reset /\ security_level' = security_level
    BY <1>1 DEF CoreReset
  <2>2. Inv'
    BY <2>1, StepInv DEF LibInv, Inv, Next
  <2>3. LevelInv'
    BY <2>1 DEF Reset, ResetLevel, LevelInv
  <2>. QED
    BY <2>1, <2>2, <2>3 DEF LibInv, Inv
<1>2. CASE ~CoreReset
  <2>1. /\ CfgKept(pmpncfg') /\ AddrKept(pmpaddr')
        /\ mseccfg' \in MsecCfgs /\ (mseccfg.mml => mseccfg'.mml)
        /\ security_level' \in Levels /\ security_lvl' \in Levels
        /\ SecureMonitor \/ security_lvl' = security_lvl
        /\ LevelInv'
    BY <1>2, CallsKeep
  <2>2. TypeOK'
    BY <2>1 DEF LibInv, TypeOK, CfgKept, AddrKept
  <2>3. NoReservedPerm'
    BY <2>1 DEF NoReservedPerm, CfgKept
  <2>. QED
    BY <2>1, <2>2, <2>3 DEF LibInv
<1>. QED
  BY <1>1, <1>2

LEMMA LibInvariant == LibSpec => []LibInv
BY LibInvInit, LibInvStep, PTL DEF LibSpec

(* A locked rule is refused.                                                 *)
LEMMA LockedRefused == LibInv => LockedNotOk
<1> SUFFICES ASSUME LibInv, NEW c \in Configs,
                    c.region_number \in Regions, pmpncfg_locked(c.region_number),
                    NEW o \in Configured(c)
             PROVE  o.result # "OK"
  BY DEF LockedNotOk
<1> DEFINE old == pmpncfg[c.region_number]
<1>1. o \in Configure(c, old)
  BY DEF Configured, Reads
<1>2. Locked(old)
  <2>1. old.slock => SecureMonitor
    BY DEF LibInv, TypeOK
  <2> QED BY <2>1 DEF Locked, pmpncfg_locked, LibInv, LevelInv
<1> QED BY <1>1, <1>2, OutcomesOfConfigure

(* The library never reports that it changed a rule the hardware holds       *)
(* locked: the level it reads is the one the locks are judged by, also       *)
(* after a core reset that leaves the level's device as it was (lib/pmp.c:712). *)
THEOREM LockedNeverOk == LibSpec => []LockedNotOk
BY LockedRefused, LibInvariant, PTL

(* A call about one region leaves the rights and mode of every other one.    *)
THEOREM OthersAreKept == LibSpec => []OthersKept
<1>1. LibInv => OthersKept
  <2>. SUFFICES ASSUME LibInv PROVE OthersKept
    OBVIOUS
  <2>1. ASSUME NEW i \in Regions, NEW c \in Configs, c.region_number # i, NEW o \in Configured(c)
        PROVE  o.cfg[i] = pmpncfg[i]
    <3>1. PICK old \in Reads(c.region_number) : o \in Configure(c, old)
      BY DEF Configured
    <3>. QED
      BY <2>1, <3>1, ConfigureKeeps DEF LibInv
  <2>2. ASSUME NEW i \in Regions, NEW reg \in (0..NumRegions) \ {i}, NEW o \in Removed(reg)
        PROVE  o.cfg[i] = pmpncfg[i]
    BY RemovedKeeps DEF LibInv
  <2>3. ASSUME NEW i \in Regions,
               NEW o \in (UNION {Configured(c) : c \in {d \in Configs : d.region_number # i}})
                            \cup (UNION {Removed(reg) : reg \in (0 .. NumRegions) \ {i}})
        PROVE  o.cfg[i] = pmpncfg[i]
    <3>1. CASE o \in UNION {Configured(c) : c \in {d \in Configs : d.region_number # i}}
      <4>1. PICK T \in {Configured(c) : c \in {d \in Configs : d.region_number # i}} : o \in T
        BY <3>1
      <4>2. PICK c \in {d \in Configs : d.region_number # i} : T = Configured(c)
        BY <4>1
      <4>. QED
        BY <2>1, <4>1, <4>2
    <3>2. CASE o \in UNION {Removed(reg) : reg \in (0 .. NumRegions) \ {i}}
      <4>1. PICK T \in {Removed(reg) : reg \in (0 .. NumRegions) \ {i}} : o \in T
        BY <3>2
      <4>2. PICK reg \in (0 .. NumRegions) \ {i} : T = Removed(reg)
        BY <4>1
      <4>. QED
        BY <2>2, <4>1, <4>2
    <3>. QED
      BY <2>3, <3>1, <3>2
  <2>. QED
    BY <2>3, Zenon DEF OthersKept
<1>. QED
  BY <1>1, LibInvariant, PTL

(* Where hardware and library are built for granularity 0, as they are, a    *)
(* call that reports an error has changed no register, and no call touches   *)
(* another region.  With a coarser granularity a TOR start that is no        *)
(* multiple of it is written and then refused.                               *)
THEOREM NothingElseChanges ==
  ASSUME Granularity = 0
  PROVE  LibSpec => []NothingElseChanged
<1>1. LibInv => ErrorsChangeNothing
  <2>. SUFFICES ASSUME LibInv PROVE ErrorsChangeNothing
    OBVIOUS
  <2>1. ASSUME NEW c \in Configs, NEW o \in Configured(c), o.result # "OK"
        PROVE  o.cfg = pmpncfg /\ o.addr = pmpaddr
    <3>1. PICK old \in Reads(c.region_number) : o \in Configure(c, old)
      BY DEF Configured
    <3>. QED
      BY <2>1, <3>1, OutcomesOfConfigure, RefusedUnwritten DEF LibInv
  <2>2. ASSUME NEW reg \in 0..NumRegions, NEW o \in Removed(reg), o.result # "OK"
        PROVE  o.cfg = pmpncfg /\ o.addr = pmpaddr
    BY <2>2, RemovedKeeps DEF LibInv
  <2>3. ASSUME NEW o \in Calls, o.result # "OK"
        PROVE  o.cfg = pmpncfg /\ o.addr = pmpaddr
    <3>1. CASE o \in UNION {Configured(c) : c \in Configs}
      <4>1. PICK T \in {Configured(c) : c \in Configs} : o \in T
        BY <3>1
      <4>2. PICK c \in Configs : T = Configured(c)
        BY <4>1
      <4>. QED
        BY <2>1, <2>3, <4>1, <4>2
    <3>2. CASE o \in UNION {Removed(reg) : reg \in 0 .. NumRegions}
      <4>1. PICK T \in {Removed(reg) : reg \in 0 .. NumRegions} : o \in T
        BY <3>2
      <4>2. PICK reg \in 0 .. NumRegions : T = Removed(reg)
        BY <4>1
      <4>. QED
        BY <2>2, <2>3, <4>1, <4>2
    <3>. QED
      BY <2>3, <3>1, <3>2 DEF Calls
  <2>. QED
    BY <2>3 DEF ErrorsChangeNothing
<1>. QED
  BY <1>1, LibInvariant, OthersAreKept, PTL DEF NothingElseChanged

(* The rules that the hardware holds locked outlive every series of library  *)
(* calls, mode switches included: rights, mode and the words they cover.     *)
LEMMA CallsKeepLocked ==
  ASSUME LibInv, LibInv', [LibNext]_libVars, ~Reset, NEW i \in Regions, pmpncfg_locked(i)
  PROVE  /\ pmpncfg'[i] = pmpncfg[i] /\ mseccfg'.rlb = FALSE
         /\ \A req : region_match_all(pmpncfg', pmpaddr', i, req)
                       <=> region_match_all(pmpncfg, pmpaddr, i, req)
<1>1. /\ CfgKept(pmpncfg') /\ AddrKept(pmpaddr') /\ mseccfg'.rlb = FALSE
      /\ pmpncfg' \in [Regions -> CfgEntries] /\ pmpaddr' \in [Regions -> Addrs]
      /\ pmpncfg \in [Regions -> CfgEntries] /\ pmpaddr \in [Regions -> Addrs]
  BY CallsKeep DEF CoreReset, LibInv, TypeOK
<1>2. pmpncfg'[i] = pmpncfg[i]
  BY <1>1 DEF CfgKept
<1>3. pmpaddr'[i] = pmpaddr[i]
  BY <1>1 DEF AddrKept, pmpaddr_locked
<1>4. pmpncfg[i].mode = "TOR" /\ i # 0 => pmpaddr'[i - 1] = pmpaddr[i - 1]
  <2>1. pmpncfg[i].mode = "TOR" /\ i # 0 => i - 1 \in Regions /\ pmpaddr_locked(i - 1)
    BY DEF pmpaddr_locked
  <2>. QED
    BY <1>1, <2>1 DEF AddrKept
<1>. QED
  BY <1>1, <1>2, <1>3, <1>4, MatchDependsOn

THEOREM LockedRulesOutliveCalls == LibSpec => LockedRuleHolds
<1>1. LibInv /\ LibInv' /\ [LibNext]_libVars =>
        [\A i \in Regions :
           pmpncfg_locked(i) /\ ~Reset =>
             /\ pmpncfg'[i] = pmpncfg[i]
             /\ Covered(i)' = Covered(i)
             /\ pmpncfg_locked(i)' \/ (security_lvl' = "S" /\ ~pmpncfg[i].lock)]_vars
  <2>. SUFFICES ASSUME LibInv, LibInv', [LibNext]_libVars, ~Reset,
                       NEW i \in Regions, pmpncfg_locked(i)
                PROVE  /\ pmpncfg'[i] = pmpncfg[i]
                       /\ Covered(i)' = Covered(i)
                       /\ pmpncfg_locked(i)' \/ (security_lvl' = "S" /\ ~pmpncfg[i].lock)
    OBVIOUS
  <2>1. pmpncfg'[i] = pmpncfg[i] /\ mseccfg'.rlb = FALSE
    BY CallsKeepLocked
  <2>2. Covered(i)' = Covered(i)
    BY CallsKeepLocked DEF Covered
  <2>3. (pmpncfg[i].lock \/ pmpncfg[i].slock) /\ security_lvl' \in {"S", "NS"}
    BY DEF pmpncfg_locked, LibInv, TypeOK, Levels
  <2>. QED
    BY <2>1, <2>2, <2>3 DEF pmpncfg_locked
<1>. QED
  BY <1>1, LibInvariant, PTL DEF LibSpec, LockedRuleHolds

(* Through the library, too, non-secure software cannot widen the access to  *)
(* a word whose rule, and every rule before it, is locked.                   *)
THEOREM CallsGainNothing == LibSpec => NonSecureCannotGain
<1>1. LibInv /\ LibInv' /\ [LibNext]_libVars =>
        [security_lvl = "NS" /\ security_lvl' = "NS" /\ ~Reset =>
           \A req \in Words :
             Shielded(req) =>
               /\ Shielded(req)'
               /\ \A priv \in Privs, t \in Perms :
                    Allowed(priv, t, req)' => Allowed(priv, t, req)]_vars
  <2>. SUFFICES ASSUME LibInv, LibInv', [LibNext]_libVars, ~Reset,
                       security_lvl = "NS", security_lvl' = "NS",
                       NEW req \in Words, Shielded(req)
                PROVE  /\ Shielded(req)'
                       /\ \A priv \in Privs, t \in Perms :
                            Allowed(priv, t, req)' => Allowed(priv, t, req)
    OBVIOUS
  <2>1. LockedKept
    BY CallsKeepLocked DEF LockedKept
  <2>2. mseccfg.mml => mseccfg'.mml
    BY CallsKeep DEF CoreReset
  <2>3. Inv /\ Inv'
    BY DEF LibInv, Inv
  <2>. QED
    BY <2>1, <2>2, <2>3, ShieldHolds
<1>. QED
  BY <1>1, LibInvariant, PTL DEF LibSpec, NonSecureCannotGain

-----------------------------------------------------------------------------
(* What success means.                                                       *)

\* A call that reports success has passed every check.
LEMMA OkMeans ==
  ASSUME NEW c \in Configs, NEW old, NEW o \in Configure(c, old), o.result = "OK"
  PROVE  /\ ~Missing(c) /\ ~NotValid(c) /\ ~Locked(old) /\ ~Reserved(c)
         /\ FALSE \in StartRefused(c)
         /\ o.cfg = pmp_write_cfg(c.region_number, pmp_cfg_to_csr(c))
         /\ o.addr = AddrWritten(c)
<1>0. \A r \in {"MISSING", "NOT_VALID", "LOCKED"} : o # Fails(r)
  BY DEF Fails, Outcome
<1>1. ~Missing(c)
  <2>1. Missing(c) => Configure(c, old) = {Fails("MISSING")}
    BY DEF Configure
  <2> QED BY <1>0, <2>1
<1>2. ~NotValid(c)
  <2>1. NotValid(c) => Configure(c, old) = {Fails("NOT_VALID")}
    BY <1>1 DEF Configure
  <2> QED BY <1>0, <2>1
<1>3. o \in IF Locked(old) THEN {Fails("LOCKED")}
            ELSE IF Reserved(c) THEN {Fails("NOT_VALID")} ELSE Apply(c)
  BY <1>1, <1>2 DEF Configure
<1>4. ~Locked(old) /\ ~Reserved(c) /\ o \in Apply(c)
  BY <1>0, <1>3
<1>5. PICK refused \in StartRefused(c) :
        o = IF refused THEN Outcome("LOCKED", pmpncfg, BelowWritten(c))
            ELSE Outcome("OK", pmp_write_cfg(c.region_number, pmp_cfg_to_csr(c)),
                         AddrWritten(c))
  BY <1>4 DEF Apply
<1>6. refused \in BOOLEAN
  BY DEF StartRefused
<1>7. refused = FALSE
  BY <1>5, <1>6 DEF Outcome
<1>8. /\ o.cfg = pmp_write_cfg(c.region_number, pmp_cfg_to_csr(c))
      /\ o.addr = AddrWritten(c)
  BY <1>5, <1>7 DEF Outcome
<1> QED BY <1>1, <1>2, <1>4, <1>5, <1>7, <1>8

\* With granularity 0 a register holds what is written to it, unless it is locked.
LEMMA AddrIsWritten ==
  ASSUME Granularity = 0, NEW addr \in [Regions -> Addrs], NEW reg \in Regions, NEW w \in Words,
         ~pmpaddr_locked(reg)
  PROVE  WriteAddr(addr, reg, w)[reg] = w
<1>1. pmp_addr_n(reg, "WRITE", w) = {b \in w : b > 0} \cup ({0} \cap w)
  BY DEF pmp_addr_n, csr_wdata_int, pmp_addr_bit_0_n, LowBit
<1>2. {b \in w : b > 0} \cup ({0} \cap w) = w
  <2>1. \A b \in w : b = 0 \/ b > 0
    BY WordBits
  <2> QED BY <2>1
<1> QED BY <1>1, <1>2 DEF WriteAddr

\* With granularity 0 a register reads as what it holds.
LEMMA ReadsWhole ==
  ASSUME Granularity = 0
  PROVE  \A e, a : pmp_addr_rdata(e, a) = a
BY DEF pmp_addr_rdata

\* The configuration a successful call leaves in its entry.
LEMMA OkCfg ==
  ASSUME LibInv, SecureMonitor, Granularity = 0, NEW c \in Configs, c.region_number \in Regions,
         ~mseccfg.mml \/ mseccfg.rlb, ~pmpncfg_locked(c.region_number),
         ~NotValid(c), ~Reserved(c)
  PROVE  pmp_write_cfg(c.region_number, pmp_cfg_to_csr(c))[c.region_number] = pmp_cfg_to_csr(c)
<1> DEFINE r == c.region_number
           w == pmp_cfg_to_csr(c)
<1>1. w \in CfgEntries
  BY ConfigTypes
<1>2. r \in Group(r \div GroupSize)
  BY DEF Group
<1>3. pmp_write_cfg(r, w)[r] = pmpncfg_n(r, w)
  BY <1>2 DEF pmp_write_cfg
<1>4. ~pmpncfg_warl_ignore_wr(w)
  BY DEF pmpncfg_warl_ignore_wr
<1>5. perm_n(r, w) = w.perm
  BY DEF Reserved, perm_n, pmp_cfg_to_csr
<1>6. mode_n(r, w) = w.mode /\ slock_n(w) = w.slock
  <2>1. w.slock \in BOOLEAN
    BY <1>1 DEF CfgEntries
  <2> QED BY <2>1 DEF mode_n, slock_n
<1>7. pmpncfg_n(r, w) = [lock |-> w.lock, slock |-> w.slock, mode |-> w.mode, perm |-> w.perm]
  BY <1>4, <1>5, <1>6 DEF pmpncfg_n
<1> QED BY <1>3, <1>7 DEF pmp_cfg_to_csr

\* The numbers a caller passes, in words.
LEMMA ConfigNumbers ==
  ASSUME NEW c \in Configs
  PROVE  /\ c.region_start_address \in Nat /\ c.region_end_address \in Nat
         /\ c.region_dimension \in Nat
         /\ c.region_start_address < 2^AddrBits /\ c.region_end_address < 2^AddrBits
         /\ c.region_dimension < 2^AddrBits
         /\ c.region_start_address \div 4 \in AllWords /\ c.region_end_address \div 4 \in AllWords
<1>1. 2^AddrBits \in Nat
  BY PowNat
<1>2. /\ c.region_start_address \in AllWords /\ c.region_end_address \in AllWords
      /\ c.region_dimension \in AllWords
  BY LibParameters DEF pmp_config_t
<1>3. \A x \in AllWords : x \div 4 \in AllWords /\ x \in Nat /\ x < 2^AddrBits
  BY <1>1 DEF AllWords
<1> QED BY <1>2, <1>3

\* TOR: from the start to below the end.
LEMMA OkTor ==
  ASSUME LibInv, Granularity = 0, NEW c \in Configs, c.region_number \in Regions, c.A = "TOR",
         ~NotValid(c), FALSE \in StartRefused(c), ~pmpaddr_locked(c.region_number),
         NEW o, o.cfg \in [Regions -> CfgEntries], o.addr = AddrWritten(c),
         o.cfg[c.region_number].mode = "TOR"
  PROVE  Covers(o, c.region_number) = Asked(c)
<1> DEFINE r == c.region_number
           first == c.region_start_address \div 4
           end == c.region_end_address \div 4
<1>1. first \in AllWords /\ end \in AllWords /\ first \in Nat /\ end \in Nat /\ end < 2^AddrBits
  BY ConfigNumbers, PowNat DEF AllWords
<1>2. Bits(end) \in Words /\ StartWord(c) = Bits(first) /\ Bits(first) \in Words
  BY <1>1, ValueBits DEF StartWord
<1>3. AddrKept(BelowWritten(c)) /\ AddrKept(AddrWritten(c))
  BY AddrsOfCall DEF LibInv
<1>4. o.addr = WriteAddr(BelowWritten(c), r, Bits(end)) /\ o.addr \in [Regions -> Addrs]
  BY <1>3 DEF AddrWritten, AddrKept
<1>5. o.addr[r] = Bits(end)
  BY <1>2, <1>3, <1>4, AddrIsWritten DEF AddrKept
<1>6. Top(o.cfg, o.addr, r) = end
  BY <1>1, <1>5, ReadsWhole, ValueBits DEF Top
<1>7. Start(o.cfg, o.addr, r) = first
  <2>1. CASE r = 0
    <3>1. c.region_start_address = 0
      BY <2>1 DEF NotValid
    <3>2. first = 0
      BY <3>1
    <3>3. Bits(0) = {}
      <4>1. \A b \in 0 .. (AddrBits - 1) : High(0, b) = 0
        <5> TAKE b \in 0 .. (AddrBits - 1)
        <5>1. b \in Nat /\ 2^b \in Nat /\ 2^b > 0
          BY PowPositive
        <5> QED BY <5>1, HighAll
      <4> QED BY <4>1 DEF Bits, High
    <3>4. region_start_addr(o.cfg, o.addr, r) = {}
      BY <2>1 DEF region_start_addr
    <3> QED BY <1>1, <3>2, <3>3, <3>4, ValueBits DEF Start
  <2>2. CASE r # 0
    <3>1. r - 1 \in Regions /\ r - 1 # r
      BY <2>2
    <3>2. StartRefused(c) = {pmp_addr_rdata(pmpncfg[r - 1], BelowWritten(c)[r - 1]) # StartWord(c)}
      BY <2>2 DEF StartRefused
    <3>3. BelowWritten(c)[r - 1] = Bits(first)
      BY <1>2, <3>2, ReadsWhole
    <3>4. o.addr[r - 1] = Bits(first)
      BY <1>3, <1>4, <3>1, <3>3 DEF WriteAddr, AddrKept
    <3>5. region_start_addr(o.cfg, o.addr, r) = Bits(first)
      BY <2>2, <3>4, ReadsWhole DEF region_start_addr
    <3> QED BY <1>1, <3>5, ValueBits DEF Start
  <2> QED BY <2>1, <2>2
<1> HIDE DEF first, end, r
<1>8. \A req \in Words : region_match_all(o.cfg, o.addr, r, req)
                           <=> first =< Value(req) /\ Value(req) =< end - 1
  <2> TAKE req \in Words
  <2>1. Value(req) \in Nat
    BY ValueBits, PowNat DEF AllWords
  <2>2. region_match_all(o.cfg, o.addr, r, req)
          <=> High(first, 0) =< High(Value(req), 0) /\ High(Value(req), 0) < High(end, 0)
    BY <1>4, <1>6, <1>7, MatchTor DEF r
  <2>3. High(first, 0) = first /\ High(end, 0) = end /\ High(Value(req), 0) = Value(req)
    BY <1>1, <2>1, HighZero
  <2> QED BY <1>1, <2>1, <2>2, <2>3
<1>9. Covers(o, r) = {req \in Words : first =< Value(req) /\ Value(req) =< end - 1}
  BY <1>8 DEF Covers
<1>10. Covers(o, r) = {Bits(w) : w \in first .. (end - 1)}
  <2>1. 2^AddrBits \in Nat
    BY PowNat
  <2>2. end - 1 \in Int /\ end - 1 < 2^AddrBits
    BY <1>1, <2>1
  <2> QED BY <1>1, <1>9, <2>2, WordsBetween
<1>11. Asked(c) = {Bits(w) : w \in first .. (first + (end - first) - 1)}
  BY DEF Asked, first, end
<1>12. first + (end - first) - 1 = end - 1
  BY <1>1
<1> QED BY <1>10, <1>11, <1>12 DEF r

\* Above four bytes a power of two is eight times another.
LEMMA EightTimes ==
  ASSUME NEW b \in 0 .. AddrBits, 2^b > 4
  PROVE  b >= 3 /\ 2^b = 8 * 2^(b - 3) /\ 2^b = 4 * 2^(b - 2) /\ 2^(b - 2) = 2 * 2^(b - 3)
<1>1. 2^1 = 2 /\ 2^2 = 4
  <2>1. 2^(0 + 1) = 2 * 2^0 /\ 2^(1 + 1) = 2 * 2^1
    BY PowSucc
  <2> QED BY <2>1, PowZero
<1>2. b # 0 /\ b # 1 /\ b # 2
  <2>1. b = 0 => 2^b = 1
    BY PowZero
  <2>2. b = 1 => 2^b = 2
    BY <1>1
  <2>3. b = 2 => 2^b = 4
    BY <1>1
  <2> QED BY <2>1, <2>2, <2>3
<1>3. b >= 3 /\ b - 3 \in Nat /\ b - 2 \in Nat /\ b - 1 \in Nat
      /\ b - 2 = (b - 3) + 1 /\ b - 1 = (b - 2) + 1 /\ b = (b - 1) + 1
  BY <1>2
<1>4. 2^(b - 2) = 2 * 2^(b - 3)
  BY <1>3, PowSucc
<1>5. 2^(b - 1) = 2 * 2^(b - 2)
  BY <1>3, PowSucc
<1>6. 2^b = 2 * 2^(b - 1)
  BY <1>3, PowSucc
<1>7. 2^(b - 3) \in Nat
  BY <1>3, PowNat
<1> QED BY <1>3, <1>4, <1>5, <1>6, <1>7

\* The word the library writes for a NAPOT region spells out its block.
LEMMA NapotSpelled ==
  ASSUME NEW c \in Configs, c.region_dimension > 4,
         NEW b \in 0 .. AddrBits, c.region_dimension = 2^b
  PROVE  LET p == b - 3
             n == NapotWord(c)
         IN  /\ p \notin n /\ 0 .. (p - 1) \subseteq n
             /\ High(Value(n), p + 1) = High(c.region_start_address \div 4, p + 1)
<1> DEFINE p == b - 3
           n == NapotWord(c)
           h == c.region_dimension \div 8
           first == c.region_start_address \div 4
<1>1. p \in 0 .. (AddrBits - 1) /\ p \in Nat /\ 2^b = 8 * 2^p
  BY EightTimes
<1>2. 2^p \in Nat /\ 2^p > 0 /\ 2^p < 2^AddrBits /\ 2^AddrBits \in Nat
  <2>1. p < AddrBits /\ AddrBits \in Nat
    BY <1>1
  <2> HIDE DEF p
  <2> QED BY <1>1, <2>1, PowPositive, PowLess
<1>3. h = 2^p
  <2> HIDE DEF p
  <2> QED BY <1>1, <1>2
<1>4. (h - 1) % 2^AddrBits = 2^p - 1
  <2> DEFINE m == 2^AddrBits
             x == 2^p - 1
  <2>1. m \in Nat /\ m > 0 /\ x \in 0 .. (m - 1) /\ x = m * 0 + x
    BY <1>2
  <2> HIDE DEF m, x, h
  <2>2. x % m = x
    BY <2>1, Quotient
  <2> QED BY <1>3, <2>2 DEF m, x
<1>5. n = (Bits(first) \ Bits(2^p)) \cup Bits(2^p - 1)
  <2>1. n = (Bits(first) \ Bits(h)) \cup Bits((h - 1) % 2^AddrBits)
    BY DEF NapotWord, StartWord
  <2> HIDE DEF h, n, p, first
  <2> QED BY <1>3, <1>4, <2>1
<1>6. /\ p \in Bits(2^p) /\ p \notin Bits(2^p - 1)
      /\ \A x \in 0 .. (p - 1) : x \in Bits(2^p - 1)
      /\ \A x \in (p + 1) .. (AddrBits - 1) : x \notin Bits(2^p) /\ x \notin Bits(2^p - 1)
  <2> HIDE DEF p
  <2> QED BY <1>1, PowBits
<1>7. n \in Words /\ first \in AllWords
  BY ConfigTypes, ConfigNumbers
<1> HIDE DEF p, n, first, h
<1>8. Value(n) \in AllWords /\ Bits(Value(n)) = n
  BY <1>7, ValueBits
<1>9. Agree(Value(n), first, p + 1)
  BY <1>5, <1>6, <1>8 DEF Agree
<1>10. p + 1 \in 0 .. AddrBits
  BY <1>1
<1>11. High(Value(n), p + 1) = High(first, p + 1)
  BY <1>7, <1>8, <1>9, <1>10, AgreeHigh
<1>12. p \notin n /\ 0 .. (p - 1) \subseteq n
  BY <1>5, <1>6
<1> QED BY <1>11, <1>12 DEF p, n, first

\* NAPOT: the block of the dimension that begins at the start.
LEMMA OkNapot ==
  ASSUME LibInv, Granularity = 0, NEW c \in Configs, c.region_number \in Regions, c.A = "NAPOT",
         ~NotValid(c), WellSized(c), ~pmpaddr_locked(c.region_number),
         NEW o, o.cfg \in [Regions -> CfgEntries], o.addr = AddrWritten(c),
         o.cfg[c.region_number].mode = "NAPOT"
  PROVE  Covers(o, c.region_number) = Asked(c)
<1> DEFINE r == c.region_number
           s == c.region_start_address
           d == c.region_dimension
           first == s \div 4
<1>1. PICK b \in 0 .. AddrBits : d = 2^b
  BY DEF WellSized
<1>2. d > 4
  <2>1. 2^(0 + 1) = 2 * 2^0 /\ 2^(1 + 1) = 2 * 2^1
    BY PowSucc
  <2>2. get_granularity = 4
    BY <2>1, PowZero DEF get_granularity
  <2> QED BY <2>2 DEF WellSized
<1>3. s \in Nat /\ s < 2^AddrBits /\ d \in Nat /\ d < 2^AddrBits /\ 2^AddrBits \in Nat
  BY ConfigNumbers, PowNat
<1> DEFINE p == b - 3
           e == 2^(p + 1)
<1>4. p \in 0 .. (AddrBits - 1) /\ p + 1 = b - 2 /\ p + 1 \in Nat
  BY <1>1, <1>2, EightTimes
<1>5. d = 4 * e /\ e \in Nat /\ e > 0
  <2>1. d = 4 * 2^(b - 2)
    BY <1>1, <1>2, EightTimes
  <2> HIDE DEF p, d
  <2> QED BY <1>4, <2>1, PowPositive
<1>6. s % d = 0
  BY DEF NotValid
<1> DEFINE q == s \div d
<1> HIDE DEF r, s, d, first, p, e, q
<1>7. s = d * q /\ q \in Nat
  <2>1. d > 0
    BY <1>2, <1>3
  <2>2. s = d * q + (s % d) /\ q \in Int /\ q >= 0
    <3>1. s \in Int /\ s >= 0
      BY <1>3
    <3>2. s = d * (s \div d) + (s % d) /\ s \div d \in Int /\ s \div d >= 0
      BY <1>3, <2>1, <3>1, Division
    <3> QED BY <3>2 DEF q
  <2>3. d * q \in Int
    BY <1>3, <2>2
  <2> QED BY <1>6, <2>2, <2>3
<1>8. first = e * q
  <2> DEFINE x == e * q
  <2>1. d * q = 4 * (e * q)
    BY <1>5, <1>7
  <2>2. x \in Nat
    BY <1>5, <1>7
  <2>3. s = 4 * x
    BY <1>7, <2>1
  <2> HIDE DEF x
  <2>4. s \div 4 = x
    BY <2>2, <2>3
  <2> QED BY <2>4 DEF first, x
<1>9. first \div e = q
  <2>1. first = e * q + 0 /\ first \in Int
    BY <1>5, <1>7, <1>8
  <2> QED BY <1>5, <1>7, <2>1, Quotient
<1>10. first \in Nat /\ first + e - 1 \in Int /\ first + e - 1 < 2^AddrBits
  <2>1. CASE q = 0
    BY <1>3, <1>5, <1>8, <2>1
  <2>2. CASE q # 0
    <3>1. e =< e * q /\ e * q \in Nat
      BY <1>5, <1>7, <2>2
    <3>2. d * q = 4 * (e * q)
      BY <1>5, <1>7
    <3> QED BY <1>3, <1>5, <1>7, <1>8, <3>1, <3>2
  <2> QED BY <2>1, <2>2
<1>11. AddrKept(pmpaddr) /\ AddrKept(AddrWritten(c)) /\ NapotWord(c) \in Words
  BY AddrsOfCall, ConfigTypes DEF LibInv
<1>12. o.addr = WriteAddr(pmpaddr, r, NapotWord(c)) /\ o.addr \in [Regions -> Addrs]
  BY <1>11 DEF AddrWritten, AddrKept, r
<1>13. o.addr[r] = NapotWord(c)
  BY <1>11, <1>12, AddrIsWritten DEF AddrKept, r
<1>14. pmp_addr_rdata(o.cfg[r], o.addr[r]) = NapotWord(c)
  BY <1>13, ReadsWhole
<1>15. /\ p \notin NapotWord(c) /\ 0 .. (p - 1) \subseteq NapotWord(c)
       /\ High(Value(NapotWord(c)), p + 1) = High(first, p + 1)
  BY <1>1, <1>2, NapotSpelled DEF d, p, first, s
<1>16. \A req \in Words : region_match_all(o.cfg, o.addr, r, req)
                            <=> first =< Value(req) /\ Value(req) =< first + e - 1
  <2> TAKE req \in Words
  <2>1. Value(req) \in Nat
    BY ValueBits, PowNat DEF AllWords
  <2>2. p \in 0 .. AddrBits
    BY <1>4
  <2>3. region_match_all(o.cfg, o.addr, r, req)
          <=> High(Value(req), p + 1) = High(first, p + 1)
    BY <1>12, <1>14, <1>15, <2>2, MatchNapot DEF r, Top
  <2>4. High(first, p + 1) = q /\ High(Value(req), p + 1) = Value(req) \div e
    BY <1>9 DEF High, e
  <2>5. Value(req) \div e = q <=> Value(req) \in (e * q) .. (e * q + e - 1)
    BY <1>5, <1>7, <2>1, QuotientBlock
  <2>6. Value(req) \in (e * q) .. (e * q + e - 1)
          <=> first =< Value(req) /\ Value(req) =< first + e - 1
    BY <1>8, <1>10, <2>1
  <2> QED BY <2>3, <2>4, <2>5, <2>6
<1>17. Covers(o, r) = {req \in Words : first =< Value(req) /\ Value(req) =< first + e - 1}
  BY <1>16 DEF Covers
<1>18. Covers(o, r) = {Bits(w) : w \in first .. (first + e - 1)}
  BY <1>10, <1>17, WordsBetween
<1>19. d \div 4 = e
  BY <1>5
<1>20. Asked(c) = {Bits(w) : w \in first .. (first + e - 1)}
  BY <1>19 DEF Asked, first, s, d
<1> QED BY <1>18, <1>20 DEF r

\* Success means that the rule is in force as asked.
LEMMA OkInForce ==
  ASSUME LibInv, SecureMonitor, Granularity = 0, NEW c \in Configs,
         c.region_number \in Regions, WellSized(c), ~HeldFromAbove(c),
         ~mseccfg.mml \/ mseccfg.rlb, NEW o \in Configured(c), o.result = "OK"
  PROVE  InForce(c, o)
<1> DEFINE r == c.region_number
           old == pmpncfg[r]
<1>1. o \in Configure(c, old)
  BY DEF Configured, Reads
<1>2. /\ ~Missing(c) /\ ~NotValid(c) /\ ~Reserved(c) /\ FALSE \in StartRefused(c)
      /\ o.cfg = pmp_write_cfg(r, pmp_cfg_to_csr(c)) /\ o.addr = AddrWritten(c)
  BY <1>1, OkMeans
<1>3. ~pmpncfg_locked(r)
  BY LockedRefused DEF LockedNotOk
<1>4. ~pmpaddr_locked(r)
  BY <1>3 DEF pmpaddr_locked, HeldFromAbove
<1>5. o.cfg[r] = pmp_cfg_to_csr(c)
  BY <1>2, <1>3, OkCfg
<1>6. o.cfg \in [Regions -> CfgEntries]
  BY <1>1, ConfigureKeeps DEF CfgKept, LibInv
<1>7. o.cfg[r].mode = c.A /\ c.A \in Modes
  BY <1>5, ConfigTypes DEF pmp_cfg_to_csr
<1>8. Covers(o, r) = Asked(c)
  <2>1. CASE c.A = "OFF"
    <3>1. Covers(o, r) = {}
      BY <1>7, <2>1, MatchOff DEF Covers
    <3>2. Asked(c) = {}
      <4>1. c.region_start_address \div 4 \in Nat
        BY ConfigNumbers
      <4>2. c.region_start_address \div 4 .. (c.region_start_address \div 4 + 0 - 1) = {}
        BY <4>1
      <4> QED BY <2>1, <4>2 DEF Asked
    <3> QED BY <3>1, <3>2
  <2>2. CASE c.A = "TOR"
    BY <1>2, <1>4, <1>6, <1>7, <2>2, OkTor
  <2>3. CASE c.A = "NA4"
    BY <1>2, <2>3 DEF NotValid
  <2>4. CASE c.A = "NAPOT"
    BY <1>2, <1>4, <1>6, <1>7, <2>4, OkNapot
  <2> QED BY <1>7, <2>1, <2>2, <2>3, <2>4 DEF Modes
<1> QED BY <1>5, <1>8 DEF InForce, pmp_cfg_to_csr

\* In the library and the core as they are built, with granularity 0 and the secure
\* extension, a call that reports success has put in force the rule it was asked for,
\* on exactly the words it was asked for, if the dimension is one the header allows
\* and neither lockdown nor a locked rule above makes the hardware ignore a write
\* (lib/pmp.c:730-757 against cv32e40s_pmp.sv 75-136).
THEOREM SuccessIsInForce ==
  ASSUME Granularity = 0, SecureMonitor
  PROVE  LibSpec => []OkIsInForce
<1>1. LibInv => OkIsInForce
  BY OkInForce DEF OkIsInForce
<1> QED BY <1>1, LibInvariant, PTL
=============================================================================
