---------------------------- MODULE PmpCsrProofs ----------------------------
(* Theorems about PmpCsr, for every number of entries and every width.     *)
EXTENDS PmpCsr, WellFoundedInduction, TLAPS

USE PmpParameters, CsrParameters DEF Regions

-----------------------------------------------------------------------------
(* Reading a pmpaddr register back changes no bit the comparators see. *)
LEMMA ComparedReadData ==
  ASSUME NEW c \in CfgEntries, NEW a \in Addrs
  PROVE  Compared(pmp_addr_rdata(c, a)) = Compared(a)
BY DEF Compared, pmp_addr_rdata, Addrs, LowBit

(* What CSR software reads of a register is a word. *)
LEMMA ReadDataType ==
  ASSUME NEW c \in CfgEntries, NEW a \in Addrs
  PROVE  pmp_addr_rdata(c, a) \in Words
<1>1. LowBit \in 0..(AddrBits - 1)
  BY DEF LowBit
<1>2. a \subseteq 0..(AddrBits - 1)
  BY <1>1 DEF Addrs
<1>3. 0..(Granularity - 2) \subseteq 0..(AddrBits - 1)
  OBVIOUS
<1>. QED
  BY <1>2, <1>3 DEF pmp_addr_rdata, Words

(* The words an entry matches depend on its own two registers and, in TOR  *)
(* mode, on the address register below: not on the entry below.            *)
LEMMA MatchDependsOn ==
  ASSUME NEW cfg1 \in [Regions -> CfgEntries], NEW addr1 \in [Regions -> Addrs],
         NEW cfg2 \in [Regions -> CfgEntries], NEW addr2 \in [Regions -> Addrs],
         NEW i \in Regions, NEW req,
         cfg1[i] = cfg2[i], addr1[i] = addr2[i],
         cfg1[i].mode = "TOR" /\ i # 0 => addr1[i - 1] = addr2[i - 1]
  PROVE  region_match_all(cfg1, addr1, i, req)
           <=> region_match_all(cfg2, addr2, i, req)
<1>1. CASE cfg1[i].mode = "TOR" /\ i # 0
  <2>1. i - 1 \in Regions
    BY <1>1
  <2>2. Compared(pmp_addr_rdata(cfg1[i - 1], addr1[i - 1]))
          = Compared(pmp_addr_rdata(cfg2[i - 1], addr2[i - 1]))
    BY <1>1, <2>1, ComparedReadData
  <2>3. Compared(region_start_addr(cfg1, addr1, i))
          = Compared(region_start_addr(cfg2, addr2, i))
    BY <1>1, <2>2 DEF region_start_addr
  <2>. QED
    BY <2>3 DEF region_match_all, region_match_eq, region_match_gt, region_match_lt
<1>2. CASE ~(cfg1[i].mode = "TOR" /\ i # 0)
  <2>1. region_start_addr(cfg1, addr1, i) = region_start_addr(cfg2, addr2, i)
    BY <1>2 DEF region_start_addr
  <2>. QED
    BY <2>1 DEF region_match_all, region_match_eq, region_match_gt, region_match_lt
<1>. QED
  BY <1>1, <1>2

-----------------------------------------------------------------------------
(* Every write leaves a legal entry, and a reserved one only under MML. *)
LEMMA CfgWriteType ==
  ASSUME TypeOK, NEW i \in Regions, NEW w \in CfgEntries
  PROVE  /\ pmpncfg_n(i, w) \in CfgEntries
         /\ NoReservedPerm /\ ~mseccfg.mml => ~WriteOnly(pmpncfg_n(i, w).perm)
         /\ SecureMonitor \/ ~pmpncfg_n(i, w).slock
<1>1. pmpncfg[i] \in CfgEntries
  BY DEF TypeOK
<1>2. CASE pmpncfg_locked(i) \/ pmpncfg_warl_ignore_wr(w)
  BY <1>1, <1>2 DEF pmpncfg_n, NoReservedPerm, TypeOK
<1>3. CASE ~(pmpncfg_locked(i) \/ pmpncfg_warl_ignore_wr(w))
  <2>1. (w.slock /\ SecureMonitor) \in BOOLEAN
    OBVIOUS
  <2>. QED
    BY <1>1, <1>3, <2>1 DEF pmpncfg_n, perm_n, mode_n, slock_n,
                            NoReservedPerm, CfgEntries
<1>. QED
  BY <1>2, <1>3

LEMMA AddrWriteType ==
  ASSUME TypeOK, NEW i \in Regions, NEW op \in CsrOps, NEW w \in Words
  PROVE  pmp_addr_n(i, op, w) \in Addrs
<1>1. pmpaddr[i] \in Addrs /\ pmpncfg[i] \in CfgEntries
  BY DEF TypeOK
<1>2. csr_wdata_int(i, op, w) \in Words
  <2>. DEFINE old == pmp_addr_rdata(pmpncfg[i], pmpaddr[i])
  <2>1. old \in Words
    BY <1>1, ReadDataType
  <2>2. CASE op = "WRITE"
    BY <2>2 DEF csr_wdata_int
  <2>3. CASE op = "SET"
    BY <2>1, <2>3 DEF csr_wdata_int, Words
  <2>4. CASE op = "CLEAR"
    BY <2>1, <2>4 DEF csr_wdata_int, Words
  <2>. QED
    BY <2>2, <2>3, <2>4 DEF CsrOps
<1>3. LowBit \in 0..(AddrBits - 1)
  BY DEF LowBit
<1>4. {b \in csr_wdata_int(i, op, w) : b > LowBit} \in Addrs
  BY <1>2, <1>3 DEF Words, Addrs
<1>5. pmp_addr_bit_0_n(i, op, w) \in Addrs
  BY <1>3 DEF pmp_addr_bit_0_n, Addrs
<1>. QED
  BY <1>1, <1>4, <1>5 DEF pmp_addr_n, Addrs

-----------------------------------------------------------------------------
Inv == TypeOK /\ NoReservedPerm

LEMMA InitInv == Init => Inv
BY DEF Init, Inv, TypeOK, NoReservedPerm, PMPNCFG_DEFAULT, MSECCFG_DEFAULT,
       ResetLevel, CfgEntries, MsecCfgs, Levels, Addrs, WriteOnly, Perms, Modes

LEMMA StepInv == Inv /\ [Next]_vars => Inv'
<1>. SUFFICES ASSUME Inv, [Next]_vars PROVE Inv'
  OBVIOUS
<1>. USE DEF Inv
<1>1. ASSUME NEW g \in Regions, NEW w \in [Group(g) -> CfgWrites],
             WritePmpcfg(g, w)
      PROVE  Inv'
  <2>1. \A i \in Group(g) : i \in Regions /\ w[i] \in CfgEntries
    BY <1>1 DEF Group
  <2>2. \A i \in Regions :
          /\ pmpncfg'[i] \in CfgEntries
          /\ ~mseccfg.mml => ~WriteOnly(pmpncfg'[i].perm)
          /\ SecureMonitor \/ ~pmpncfg'[i].slock
    <3>. SUFFICES ASSUME NEW i \in Regions
                  PROVE  /\ pmpncfg'[i] \in CfgEntries
                         /\ ~mseccfg.mml => ~WriteOnly(pmpncfg'[i].perm)
                         /\ SecureMonitor \/ ~pmpncfg'[i].slock
      OBVIOUS
    <3>1. CASE i \in Group(g)
      <4>1. pmpncfg'[i] = pmpncfg_n(i, w[i])
        BY <1>1, <3>1 DEF WritePmpcfg
      <4>. QED
        BY <2>1, <3>1, <4>1, CfgWriteType
    <3>2. CASE i \notin Group(g)
      <4>1. pmpncfg'[i] = pmpncfg[i]
        BY <1>1, <3>2 DEF WritePmpcfg
      <4>. QED
        BY <4>1 DEF TypeOK, NoReservedPerm
    <3>. QED
      BY <3>1, <3>2
  <2>3. pmpncfg' \in [Regions -> CfgEntries]
    BY <1>1, <2>2 DEF WritePmpcfg
  <2>. QED
    BY <1>1, <2>2, <2>3 DEF WritePmpcfg, TypeOK, NoReservedPerm
<1>2. ASSUME NEW i \in Regions, NEW op \in CsrOps, NEW w \in AddrWrites,
             WritePmpaddr(i, op, w)
      PROVE  Inv'
  <2>1. pmp_addr_n(i, op, w) \in Addrs
    BY AddrWriteType
  <2>. QED
    BY <1>2, <2>1 DEF WritePmpaddr, TypeOK, NoReservedPerm
<1>3. ASSUME NEW w \in MsecCfgs, WriteMseccfg(w)
      PROVE  Inv'
  <2>1. mseccfg' \in MsecCfgs /\ (~mseccfg'.mml => ~mseccfg.mml)
    <3>1. (w.rlb /\ (mseccfg.rlb \/ \A i \in Regions : ~pmpncfg_locked(i)))
            \in BOOLEAN
      OBVIOUS
    <3>. QED
      BY <1>3, <3>1 DEF WriteMseccfg, pmp_mseccfg_n, TypeOK, MsecCfgs
  <2>. QED
    BY <1>3, <2>1 DEF WriteMseccfg, TypeOK, NoReservedPerm
<1>4. ASSUME NEW l \in Levels, WriteSecurityLevel(l)
      PROVE  Inv'
  BY <1>4 DEF WriteSecurityLevel, TypeOK, NoReservedPerm
<1>5. CASE Reset
  BY <1>5 DEF Reset, TypeOK, NoReservedPerm, PMPNCFG_DEFAULT, MSECCFG_DEFAULT,
              ResetLevel, CfgEntries, MsecCfgs, Levels, Addrs, WriteOnly,
              Perms, Modes
<1>6. CASE UNCHANGED vars
  BY <1>6 DEF vars, TypeOK, NoReservedPerm
<1>. QED
  BY <1>1, <1>2, <1>3, <1>4, <1>5, <1>6 DEF Next, CsrWrite

(* Every register always holds a legal value. *)
THEOREM TypeCorrect == Spec => []TypeOK
<1>1. Spec => []Inv
  BY InitInv, StepInv, PTL DEF Spec
<1>. QED
  BY <1>1, PTL DEF Inv

(* The reserved encoding is never in force without MML. *)
THEOREM ReservedPermExcluded == Spec => []NoReservedPerm
<1>1. Spec => []Inv
  BY InitInv, StepInv, PTL DEF Spec
<1>. QED
  BY <1>1, PTL DEF Inv

-----------------------------------------------------------------------------
(* No write reaches a locked entry, the registers that bound it, or RLB. *)
LEMMA LockedStep ==
  ASSUME TypeOK, [Next]_vars, ~Reset, NEW i \in Regions, pmpncfg_locked(i)
  PROVE  /\ pmpncfg'[i] = pmpncfg[i]
         /\ pmpaddr'[i] = pmpaddr[i]
         /\ pmpncfg[i].mode = "TOR" /\ i # 0 => pmpaddr'[i - 1] = pmpaddr[i - 1]
         /\ mseccfg'.rlb = FALSE
<1>1. mseccfg.rlb = FALSE
  BY DEF pmpncfg_locked, TypeOK, MsecCfgs
<1>2. ASSUME NEW g \in Regions, NEW w \in [Group(g) -> CfgWrites],
             WritePmpcfg(g, w)
      PROVE  pmpncfg'[i] = pmpncfg[i] /\ UNCHANGED <<pmpaddr, mseccfg>>
  BY <1>2 DEF WritePmpcfg, pmpncfg_n, TypeOK
<1>3. ASSUME NEW j \in Regions, NEW op \in CsrOps, NEW w \in AddrWrites,
             WritePmpaddr(j, op, w)
      PROVE  /\ UNCHANGED <<pmpncfg, mseccfg>>
             /\ pmpaddr'[i] = pmpaddr[i]
             /\ pmpncfg[i].mode = "TOR" /\ i # 0
                  => pmpaddr'[i - 1] = pmpaddr[i - 1]
  <2>1. \A k \in Regions : pmpaddr_locked(k) => pmpaddr'[k] = pmpaddr[k]
    BY <1>3 DEF WritePmpaddr, pmp_addr_n, TypeOK
  <2>2. pmpaddr_locked(i)
    BY DEF pmpaddr_locked
  <2>3. pmpncfg[i].mode = "TOR" /\ i # 0 => i - 1 \in Regions /\ pmpaddr_locked(i - 1)
    BY DEF pmpaddr_locked
  <2>. QED
    BY <1>3, <2>1, <2>2, <2>3 DEF WritePmpaddr
<1>4. ASSUME NEW w \in MsecCfgs, WriteMseccfg(w)
      PROVE  UNCHANGED <<pmpncfg, pmpaddr>> /\ mseccfg'.rlb = FALSE
  BY <1>1, <1>4 DEF WriteMseccfg, pmp_mseccfg_n
<1>5. ASSUME NEW l \in Levels, WriteSecurityLevel(l)
      PROVE  UNCHANGED <<pmpncfg, pmpaddr, mseccfg>>
  BY <1>5 DEF WriteSecurityLevel
<1>6. CASE UNCHANGED vars
  BY <1>1, <1>6 DEF vars
<1>. QED
  BY <1>1, <1>2, <1>3, <1>4, <1>5, <1>6 DEF Next, CsrWrite

(* A locked rule covers the same words after the step. *)
LEMMA LockedCoverage ==
  ASSUME TypeOK, TypeOK', [Next]_vars, ~Reset,
         NEW i \in Regions, pmpncfg_locked(i), NEW req
  PROVE  region_match_all(pmpncfg', pmpaddr', i, req)
           <=> region_match_all(pmpncfg, pmpaddr, i, req)
BY LockedStep, MatchDependsOn DEF TypeOK

(* Locked rules survive every CSR write. *)
THEOREM LockedRuleTheorem == Spec => LockedRuleHolds
<1>1. Spec => []Inv
  BY InitInv, StepInv, PTL DEF Spec
<1>2. TypeOK /\ TypeOK' /\ [Next]_vars =>
        [\A i \in Regions :
           pmpncfg_locked(i) /\ ~Reset =>
             /\ pmpncfg'[i] = pmpncfg[i]
             /\ Covered(i)' = Covered(i)
             /\ pmpncfg_locked(i)' \/ (security_lvl' = "S" /\ ~pmpncfg[i].lock)]_vars
  <2>. SUFFICES ASSUME TypeOK, TypeOK', [Next]_vars, ~Reset,
                       NEW i \in Regions, pmpncfg_locked(i)
                PROVE  /\ pmpncfg'[i] = pmpncfg[i]
                       /\ Covered(i)' = Covered(i)
                       /\ \/ pmpncfg_locked(i)'
                          \/ security_lvl' = "S" /\ ~pmpncfg[i].lock
    OBVIOUS
  <2>1. pmpncfg'[i] = pmpncfg[i] /\ mseccfg'.rlb = FALSE
    BY LockedStep
  <2>2. Covered(i)' = Covered(i)
    BY LockedCoverage DEF Covered
  <2>3. pmpncfg[i].lock \/ pmpncfg[i].slock
    BY DEF pmpncfg_locked
  <2>4. security_lvl' \in {"S", "NS"}
    BY DEF TypeOK, Levels
  <2>5. pmpncfg_locked(i)' \/ (security_lvl' = "S" /\ ~pmpncfg[i].lock)
    BY <2>1, <2>3, <2>4 DEF pmpncfg_locked
  <2>. QED
    BY <2>1, <2>2, <2>5
<1>. QED
  BY <1>1, <1>2, PTL DEF Spec, Inv, LockedRuleHolds

-----------------------------------------------------------------------------
(* The deciding rule alone gives the verdict. *)
LEMMA DecidingRule ==
  ASSUME NEW cfg, NEW addr, NEW msec, NEW priv, NEW t, NEW req,
         NEW i \in Regions, Decides(cfg, addr, i, req)
  PROVE  access_fault(cfg, addr, msec, priv, t, req)
           <=> access_fault_all(cfg[i], msec.mml, priv, t)
<1>1. \A k \in Regions : Decides(cfg, addr, k, req) => k = i
  <2>. SUFFICES ASSUME NEW k \in Regions, Decides(cfg, addr, k, req)
                PROVE  k = i
    OBVIOUS
  <2>1. k < i => k \in 0..(i - 1)
    OBVIOUS
  <2>2. i < k => i \in 0..(k - 1)
    OBVIOUS
  <2>. QED
    BY <2>1, <2>2 DEF Decides
<1>. QED
  BY <1>1 DEF access_fault, Decides

(* Turning MML on never relaxes a rule that has no reserved permission. *)
LEMMA MmlRestricts ==
  ASSUME NEW c \in CfgEntries, ~WriteOnly(c.perm),
         NEW priv \in Privs, NEW t \in Perms,
         access_fault_all(c, FALSE, priv, t)
  PROVE  access_fault_all(c, TRUE, priv, t)
<1>1. ~region_basic_perm_check(c, t) /\ (priv = "M" => c.lock)
  BY DEF access_fault_all
<1>2. c.perm # Perms
  BY <1>1 DEF region_basic_perm_check
<1>3. region_mml_perm_check(c, priv, t)
        = (region_basic_perm_check(c, t) /\ (c.lock <=> priv = "M"))
  BY <1>2 DEF region_mml_perm_check
<1>. QED
  BY <1>1, <1>3 DEF access_fault_all

LEMMA MmlSticky ==
  ASSUME TypeOK, [Next]_vars, ~Reset, mseccfg.mml = TRUE
  PROVE  mseccfg'.mml = TRUE
<1>1. ASSUME NEW w \in MsecCfgs, WriteMseccfg(w)
      PROVE  mseccfg'.mml = TRUE
  <2>1. mseccfg'.mml = (w.mml \/ mseccfg.mml)
    BY <1>1 DEF WriteMseccfg, pmp_mseccfg_n
  <2>. QED
    BY <2>1
<1>2. CASE UNCHANGED mseccfg
  BY <1>2
<1>. QED
  BY <1>1, <1>2 DEF Next, CsrWrite, WritePmpcfg, WritePmpaddr,
                    WriteSecurityLevel, vars

(* What a step that respects the locks leaves alone. *)
LockedKept ==
  \A i \in Regions :
    pmpncfg_locked(i) =>
      /\ pmpncfg'[i] = pmpncfg[i] /\ mseccfg'.rlb = FALSE
      /\ \A req : region_match_all(pmpncfg', pmpaddr', i, req)
                    <=> region_match_all(pmpncfg, pmpaddr, i, req)

(* A shielded word is decided by the same locked rule after such a step. *)
LEMMA ShieldStep ==
  ASSUME LockedKept, security_lvl = "NS", security_lvl' = "NS", NEW req,
         NEW i \in Regions, Decides(pmpncfg, pmpaddr, i, req),
         \A j \in 0..i : pmpncfg_locked(j)
  PROVE  /\ Decides(pmpncfg', pmpaddr', i, req)
         /\ \A j \in 0..i : pmpncfg_locked(j)'
         /\ pmpncfg'[i] = pmpncfg[i]
<1>1. 0..i \subseteq Regions /\ i \in 0..i /\ 0..(i - 1) \subseteq 0..i
  OBVIOUS
<1>2. \A j \in 0..i :
        /\ pmpncfg'[j] = pmpncfg[j] /\ mseccfg'.rlb = FALSE
        /\ region_match_all(pmpncfg', pmpaddr', j, req)
             <=> region_match_all(pmpncfg, pmpaddr, j, req)
  BY <1>1 DEF LockedKept
<1>3. Decides(pmpncfg', pmpaddr', i, req)
  BY <1>1, <1>2 DEF Decides
<1>4. \A j \in 0..i : pmpncfg_locked(j)'
  BY <1>2 DEF pmpncfg_locked
<1>. QED
  BY <1>1, <1>2, <1>3, <1>4

(* Whatever respects the locks and keeps MML gives non-secure software no    *)
(* access to a shielded word that it did not have.                           *)
LEMMA ShieldHolds ==
  ASSUME Inv, Inv', LockedKept, mseccfg.mml => mseccfg'.mml,
         security_lvl = "NS", security_lvl' = "NS",
         NEW req \in Words, Shielded(req)
  PROVE  /\ Shielded(req)'
         /\ \A priv \in Privs, t \in Perms : Allowed(priv, t, req)' => Allowed(priv, t, req)
<1>. USE DEF Inv
<1>1. PICK i \in Regions : /\ Decides(pmpncfg, pmpaddr, i, req)
                           /\ \A j \in 0..i : pmpncfg_locked(j)
  BY DEF Shielded
<1>2. /\ Decides(pmpncfg', pmpaddr', i, req)
      /\ \A j \in 0..i : pmpncfg_locked(j)'
      /\ pmpncfg'[i] = pmpncfg[i]
  BY <1>1, ShieldStep
<1>3. Shielded(req)'
  BY <1>2 DEF Shielded
<1>4. ASSUME NEW priv \in Privs, NEW t \in Perms,
             access_fault_all(pmpncfg[i], mseccfg.mml, priv, t)
      PROVE  access_fault_all(pmpncfg[i], mseccfg'.mml, priv, t)
  <2>1. mseccfg.mml \in BOOLEAN /\ mseccfg'.mml \in BOOLEAN
    BY DEF TypeOK, MsecCfgs
  <2>2. CASE mseccfg.mml = mseccfg'.mml
    BY <1>4, <2>2
  <2>3. CASE mseccfg.mml = FALSE /\ mseccfg'.mml = TRUE
    <3>1. pmpncfg[i] \in CfgEntries /\ ~WriteOnly(pmpncfg[i].perm)
      BY <2>3 DEF TypeOK, NoReservedPerm
    <3>. QED
      BY <1>4, <2>3, <3>1, MmlRestricts
  <2>. QED
    BY <2>1, <2>2, <2>3
<1>5. ASSUME NEW priv \in Privs, NEW t \in Perms, ~Allowed(priv, t, req)
      PROVE  ~Allowed(priv, t, req)'
  <2>1. access_fault(pmpncfg, pmpaddr, mseccfg, priv, t, req)
    BY <1>5 DEF Allowed, pmp_req_err_o
  <2>2. access_fault_all(pmpncfg[i], mseccfg.mml, priv, t)
    BY <1>1, <2>1, DecidingRule
  <2>3. access_fault_all(pmpncfg'[i], mseccfg'.mml, priv, t)
    BY <1>2, <1>4, <2>2
  <2>4. access_fault(pmpncfg', pmpaddr', mseccfg', priv, t, req)
    BY <1>2, <2>3, DecidingRule
  <2>. QED
    BY <2>4 DEF Allowed, pmp_req_err_o
<1>. QED
  BY <1>3, <1>5

(* Non-secure software cannot widen the access to a word whose rule, and   *)
(* every rule before it, is locked.                                        *)
THEOREM NonSecureTheorem == Spec => NonSecureCannotGain
<1>1. Spec => []Inv
  BY InitInv, StepInv, PTL DEF Spec
<1>2. Inv /\ Inv' /\ [Next]_vars =>
        [security_lvl = "NS" /\ security_lvl' = "NS" /\ ~Reset =>
           \A req \in Words :
             Shielded(req) =>
               /\ Shielded(req)'
               /\ \A priv \in Privs, t \in Perms :
                    Allowed(priv, t, req)' => Allowed(priv, t, req)]_vars
  <2>. SUFFICES ASSUME Inv, Inv', [Next]_vars, ~Reset,
                       security_lvl = "NS", security_lvl' = "NS",
                       NEW req \in Words, Shielded(req)
                PROVE  /\ Shielded(req)'
                       /\ \A priv \in Privs, t \in Perms :
                            Allowed(priv, t, req)' => Allowed(priv, t, req)
    OBVIOUS
  <2>1. LockedKept
    BY LockedStep, LockedCoverage DEF Inv, LockedKept
  <2>2. mseccfg.mml => mseccfg'.mml
    <3>1. mseccfg.mml \in BOOLEAN
      BY DEF Inv, TypeOK, MsecCfgs
    <3>. QED
      BY <3>1, MmlSticky DEF Inv
  <2>. QED
    BY <2>1, <2>2, ShieldHolds
<1>. QED
  BY <1>1, <1>2, PTL DEF Spec, NonSecureCannotGain

-----------------------------------------------------------------------------
(* Only a rule with L set lets machine mode execute under MML. *)
LEMMA MachineCodeIsLocked ==
  ASSUME NEW c \in CfgEntries, region_mml_perm_check(c, "M", "X")
  PROVE  c.lock /\ c.perm \in {{"X"}, {"W"}, {"W", "X"}, {"R", "X"}}
<1>1. c.lock
  BY DEF region_mml_perm_check, CfgEntries, WriteOnly
<1>2. c.perm \subseteq {"R", "W", "X"} /\ c.perm # Perms
  BY DEF region_mml_perm_check, CfgEntries, Perms, WriteOnly
<1>3. ("W" \in c.perm /\ "R" \notin c.perm) \/ "X" \in c.perm
  BY DEF region_mml_perm_check, region_basic_perm_check, WriteOnly
<1>. QED
  BY <1>1, <1>2, <1>3 DEF Perms

(* Under MML, with RLB clear, machine mode gains no word to execute. *)
THEOREM MachineCodeTheorem == Spec => MachineCodeSealed
<1>1. Spec => []Inv
  BY InitInv, StepInv, PTL DEF Spec
<1>2. Inv /\ Inv' /\ [Next]_vars =>
        [mseccfg.mml /\ ~mseccfg.rlb /\ ~Reset =>
           MachineCode' \subseteq MachineCode]_vars
  <2>. SUFFICES ASSUME Inv, Inv', [Next]_vars, ~Reset,
                       mseccfg.mml, ~mseccfg.rlb,
                       NEW i \in Regions, NEW req \in Words,
                       region_match_all(pmpncfg', pmpaddr', i, req),
                       region_mml_perm_check(pmpncfg'[i], "M", "X")
                PROVE  req \in MachineCode
    BY DEF MachineCode
  <2>. USE DEF Inv
  <2>1. pmpncfg'[i].lock
    /\ pmpncfg'[i].perm \in {{"X"}, {"W"}, {"W", "X"}, {"R", "X"}}
    BY MachineCodeIsLocked DEF TypeOK
  <2>2. pmpncfg_locked(i)
    <3>1. CASE pmpncfg'[i] = pmpncfg[i]
      BY <2>1, <3>1 DEF pmpncfg_locked
    <3>2. CASE pmpncfg'[i] # pmpncfg[i]
      <4>0. PICK g \in Regions :
              \E w \in [Group(g) -> CfgWrites] : WritePmpcfg(g, w)
        BY <3>2 DEF Next, CsrWrite, WritePmpaddr, WriteMseccfg,
                    WriteSecurityLevel, vars
      <4>1. PICK w \in [Group(g) -> CfgWrites] : WritePmpcfg(g, w)
        BY <4>0
      <4>2. i \in Group(g) /\ pmpncfg'[i] = pmpncfg_n(i, w[i])
        BY <3>2, <4>1 DEF WritePmpcfg
      <4>3. pmpncfg'[i].lock = w[i].lock /\ pmpncfg'[i].perm = w[i].perm
        BY <3>2, <4>2 DEF pmpncfg_n, perm_n
      <4>4. pmpncfg_warl_ignore_wr(w[i])
        BY <2>1, <4>3 DEF pmpncfg_warl_ignore_wr
      <4>. QED
        BY <3>2, <4>2, <4>4 DEF pmpncfg_n
    <3>. QED
      BY <3>1, <3>2
  <2>3. pmpncfg'[i] = pmpncfg[i]
    BY <2>2, LockedStep
  <2>4. region_match_all(pmpncfg, pmpaddr, i, req)
    BY <2>2, LockedCoverage
  <2>. QED
    BY <2>3, <2>4 DEF MachineCode
<1>. QED
  BY <1>1, <1>2, PTL DEF Spec, MachineCodeSealed
-----------------------------------------------------------------------------
(* Of the rules that match, one decides: the first. *)
LEMMA OneDecides ==
  ASSUME NEW cfg, NEW addr, NEW req,
         NEW k \in Regions, region_match_all(cfg, addr, k, req)
  PROVE  \E i \in Regions : Decides(cfg, addr, i, req)
<1>. DEFINE T == {i \in Regions : region_match_all(cfg, addr, i, req)}
<1>1. T \subseteq Nat /\ T # {}
  OBVIOUS
<1>2. IsWellFoundedOn(OpToRel(<, Nat), Nat)
  BY NatLessThanWellFounded
<1>3. PICK i \in T : \A j \in T : ~(<<j, i>> \in OpToRel(<, Nat))
  <2>. HIDE DEF T
  <2>. QED
    BY <1>1, <1>2, WFMin
<1>4. i \in Regions /\ region_match_all(cfg, addr, i, req)
  OBVIOUS
<1>5. ASSUME NEW j \in 0..(i - 1) PROVE ~region_match_all(cfg, addr, j, req)
  <2>1. j \in Regions /\ j \in Nat /\ i \in Nat /\ j < i
    BY <1>4, <1>5
  <2>2. <<j, i>> \in OpToRel(<, Nat)
    BY <2>1 DEF OpToRel
  <2>. QED
    BY <1>3, <2>1, <2>2
<1>. QED
  BY <1>4, <1>5 DEF Decides

(* What one rule gives under MML.  Nothing it lets one level execute may   *)
(* be written by the other, or by machine mode; only RWX without L, which  *)
(* gives machine mode nothing, lets user mode do both.                     *)
LEMMA MmlRule ==
  ASSUME NEW c \in CfgEntries
  PROVE  LET May(priv, t) == region_mml_perm_check(c, priv, t)
         IN  /\ ~(May("M", "X") /\ May("M", "W"))
             /\ ~(May("M", "X") /\ May("U", "W"))
             /\ ~(May("U", "X") /\ May("M", "W"))
             /\ May("U", "X") /\ May("U", "W") => \A t \in Perms : ~May("M", t)
<1>. c.lock \in BOOLEAN /\ c.perm \in SUBSET {"R", "W", "X"}
  BY DEF CfgEntries, Perms
<1>1. CASE WriteOnly(c.perm)
  BY <1>1 DEF region_mml_perm_check, region_basic_perm_check, WriteOnly, Perms
<1>2. CASE ~WriteOnly(c.perm) /\ c.lock /\ c.perm = Perms
  BY <1>2 DEF region_mml_perm_check, region_basic_perm_check, WriteOnly, Perms
<1>3. CASE ~WriteOnly(c.perm) /\ ~(c.lock /\ c.perm = Perms)
  BY <1>3 DEF region_mml_perm_check, region_basic_perm_check, WriteOnly, Perms
<1>. QED
  BY <1>1, <1>2, <1>3

(* An access of a program that is not secure, outside the debug region.    *)
MayAccess(priv, t, req) ==
  ~pmp_req_err_o(pmpncfg, pmpaddr, mseccfg, "NS", priv, t, req, FALSE)

(* Once MML is set, no word that the whole check (the rules in their       *)
(* order, or none) lets either level execute may be written by either, but *)
(* for the words that user mode may read, write and execute: machine mode  *)
(* has no access to those (cv32e40s_pmp.sv, lines 147-225).                *)
CodeIsNotWritten ==
  mseccfg.mml =>
    \A req \in Words :
      /\ \A priv, other \in Privs :
           MayAccess(priv, "X", req) /\ MayAccess(other, "W", req) =>
             priv = "U" /\ other = "U"
      /\ MayAccess("U", "X", req) /\ MayAccess("U", "W", req) =>
           \A t \in Perms : ~MayAccess("M", t, req)

(* Under MML code and what may be written are apart, after any sequence of *)
(* writes and for every word.                                              *)
THEOREM MmlSeparates == Spec => []CodeIsNotWritten
<1>1. TypeOK => CodeIsNotWritten
  <2>. SUFFICES ASSUME TypeOK, mseccfg.mml, NEW req \in Words
       PROVE  /\ ~(MayAccess("M", "X", req) /\ MayAccess("M", "W", req))
              /\ ~(MayAccess("M", "X", req) /\ MayAccess("U", "W", req))
              /\ ~(MayAccess("U", "X", req) /\ MayAccess("M", "W", req))
              /\ MayAccess("U", "X", req) /\ MayAccess("U", "W", req) =>
                   \A t \in Perms : ~MayAccess("M", t, req)
    BY DEF CodeIsNotWritten, Privs
  <2>1. CASE \E k \in Regions : region_match_all(pmpncfg, pmpaddr, k, req)
    <3>1. PICK i \in Regions : Decides(pmpncfg, pmpaddr, i, req)
      BY <2>1, OneDecides
    <3>2. ASSUME NEW priv, NEW t
          PROVE  MayAccess(priv, t, req) <=> region_mml_perm_check(pmpncfg[i], priv, t)
      <4>1. access_fault(pmpncfg, pmpaddr, mseccfg, priv, t, req)
              <=> access_fault_all(pmpncfg[i], mseccfg.mml, priv, t)
        BY <3>1, DecidingRule
      <4>. QED
        BY <4>1 DEF MayAccess, pmp_req_err_o, access_fault_all
    <3>3. pmpncfg[i] \in CfgEntries
      BY DEF TypeOK
    <3>. QED
      BY <3>2, <3>3, MmlRule
  <2>2. CASE \A k \in Regions : ~region_match_all(pmpncfg, pmpaddr, k, req)
    <3>1. ASSUME NEW priv, NEW t
          PROVE  MayAccess(priv, t, req) => priv = "M" /\ t # "X"
      BY <2>2 DEF MayAccess, pmp_req_err_o, access_fault, DefaultFault
    <3>. QED
      BY <3>1
  <2>. QED
    BY <2>1, <2>2
<1>. QED
  BY <1>1, TypeCorrect, PTL
=============================================================================
