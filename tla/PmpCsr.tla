------------------------------- MODULE PmpCsr -------------------------------
(***************************************************************************)
(* The PMP registers of rtl/cv32e40s/cv32e40s_cs_registers.sv: pmpcfg,     *)
(* pmpaddr, mseccfg and the security level that the secure extension adds. *)
(* Machine-mode software, secure or not, writes the CSRs in any order; the *)
(* level is written by a peripheral (module SocBus models how).            *)
(***************************************************************************)
EXTENDS PmpCheck

CONSTANTS
  GroupSize,      \* entries in one pmpcfg CSR (4 in the core)
  SecureMonitor,  \* SECURE_MONITOR: the secure extension is built in
  CfgWrites,      \* bound: the entry values software writes
  AddrWrites      \* bound: the operands software writes to pmpaddr

ASSUME CsrParameters ==
  /\ GroupSize \in Nat \ {0}
  /\ SecureMonitor \in BOOLEAN
  /\ CfgWrites \subseteq CfgEntries
  /\ AddrWrites \subseteq Words

VARIABLES
  pmpncfg,        \* one configuration per entry
  pmpaddr,        \* one address register per entry (its stored bits)
  mseccfg,        \* MML, MMWP, RLB
  security_lvl    \* level the core runs at

vars == <<pmpncfg, pmpaddr, mseccfg, security_lvl>>

CsrOps == {"WRITE", "SET", "CLEAR"}

PMPNCFG_DEFAULT == [lock |-> FALSE, slock |-> FALSE, mode |-> "OFF", perm |-> {}]
MSECCFG_DEFAULT == [mml |-> FALSE, mmwp |-> FALSE, rlb |-> FALSE]
ResetLevel      == IF SecureMonitor THEN "S" ELSE "NS"

Group(g) == {i \in Regions : i \div GroupSize = g}

-----------------------------------------------------------------------------
(* A rule is locked by L, and by SL while the core is not secure; RLB      *)
(* bypasses both.                                                          *)
pmpncfg_locked(i) ==
  /\ pmpncfg[i].lock \/ (pmpncfg[i].slock /\ security_lvl = "NS")
  /\ ~mseccfg.rlb

Mut_pmpaddr_locked(i) == pmpncfg_locked(i)

(* An address register also belongs to a locked TOR entry above it. *)
pmpaddr_locked(i) ==
  \/ pmpncfg_locked(i)
  \/ /\ i + 1 \in Regions
     /\ pmpncfg_locked(i + 1)
     /\ pmpncfg[i + 1].mode = "TOR"

Mut_pmpncfg_warl_ignore_wr(w) ==
  /\ mseccfg.mml /\ ~mseccfg.rlb
  /\ w.lock /\ w.perm \in {{"X"}, {"W", "X"}, {"R", "X"}}

(* With MML no rule giving M-mode execution may be added. *)
pmpncfg_warl_ignore_wr(w) ==
  /\ mseccfg.mml /\ ~mseccfg.rlb
  /\ w.lock
  /\ w.perm \in {{"X"}, {"W"}, {"W", "X"}, {"R", "X"}}

(* WARL fields of an entry: an illegal value leaves the old one. *)
Mut_perm_n(i, w) == w.perm
perm_n(i, w) ==
  IF WriteOnly(w.perm) /\ ~mseccfg.mml THEN pmpncfg[i].perm ELSE w.perm

mode_n(i, w) ==
  IF w.mode = "NA4" /\ Granularity > 0 THEN pmpncfg[i].mode ELSE w.mode

slock_n(w) == w.slock /\ SecureMonitor

(* The value an entry takes when w is written to it. *)
pmpncfg_n(i, w) ==
  IF pmpncfg_locked(i) \/ pmpncfg_warl_ignore_wr(w)
    THEN pmpncfg[i]
    ELSE [lock |-> w.lock, slock |-> slock_n(w),
          mode |-> mode_n(i, w), perm |-> perm_n(i, w)]

(* The operand after the CSR instruction combined it with the value read.  *)
csr_wdata_int(i, op, w) ==
  LET old == pmp_addr_rdata(pmpncfg[i], pmpaddr[i])
  IN  CASE op = "WRITE" -> w
        [] op = "SET"   -> old \cup w
        [] op = "CLEAR" -> old \ w

Mut_pmp_addr_bit_0_n(i, op, w) == {LowBit} \cap csr_wdata_int(i, op, w)

(* The lowest stored bit, computed from the register and not from what it  *)
(* reads as.                                                               *)
pmp_addr_bit_0_n(i, op, w) ==
  {LowBit} \cap CASE op = "WRITE" -> w
                  [] op = "SET"   -> pmpaddr[i] \cup w
                  [] op = "CLEAR" -> pmpaddr[i] \ w

pmp_addr_n(i, op, w) ==
  IF pmpaddr_locked(i) THEN pmpaddr[i]
  ELSE {b \in csr_wdata_int(i, op, w) : b > LowBit} \cup pmp_addr_bit_0_n(i, op, w)

Mut_pmp_mseccfg_n(w) ==
  [mml  |-> w.mml  \/ mseccfg.mml,
   mmwp |-> w.mmwp \/ mseccfg.mmwp,
   rlb  |-> w.rlb /\ (mseccfg.rlb \/ \A i \in Regions : ~pmpncfg[i].lock)]

(* MML and MMWP are sticky; RLB cannot be set while a rule is locked. *)
pmp_mseccfg_n(w) ==
  [mml  |-> w.mml  \/ mseccfg.mml,
   mmwp |-> w.mmwp \/ mseccfg.mmwp,
   rlb  |-> w.rlb /\ (mseccfg.rlb \/ \A i \in Regions : ~pmpncfg_locked(i))]

-----------------------------------------------------------------------------
Init ==
  /\ pmpncfg = [i \in Regions |-> PMPNCFG_DEFAULT]
  /\ pmpaddr = [i \in Regions |-> {}]
  /\ mseccfg = MSECCFG_DEFAULT
  /\ security_lvl = ResetLevel

(* One CSR write writes every entry of the register. *)
WritePmpcfg(g, w) ==
  /\ pmpncfg' = [i \in Regions |->
                   IF i \in Group(g) THEN pmpncfg_n(i, w[i]) ELSE pmpncfg[i]]
  /\ UNCHANGED <<pmpaddr, mseccfg, security_lvl>>

WritePmpaddr(i, op, w) ==
  /\ pmpaddr' = [pmpaddr EXCEPT ![i] = pmp_addr_n(i, op, w)]
  /\ UNCHANGED <<pmpncfg, mseccfg, security_lvl>>

WriteMseccfg(w) ==
  /\ mseccfg' = pmp_mseccfg_n(w)
  /\ UNCHANGED <<pmpncfg, pmpaddr, security_lvl>>

WriteSecurityLevel(l) ==
  /\ SecureMonitor
  /\ security_lvl' = l
  /\ UNCHANGED <<pmpncfg, pmpaddr, mseccfg>>

Reset ==
  /\ pmpncfg' = [i \in Regions |-> PMPNCFG_DEFAULT]
  /\ pmpaddr' = [i \in Regions |-> {}]
  /\ mseccfg' = MSECCFG_DEFAULT
  /\ security_lvl' = ResetLevel

CsrWrite ==
  \/ \E g \in Regions : \E w \in [Group(g) -> CfgWrites] : WritePmpcfg(g, w)
  \/ \E i \in Regions, op \in CsrOps, w \in AddrWrites : WritePmpaddr(i, op, w)
  \/ \E w \in MsecCfgs : WriteMseccfg(w)

Next ==
  \/ CsrWrite
  \/ \E l \in Levels : WriteSecurityLevel(l)
  \/ Reset

Spec == Init /\ [][Next]_vars

-----------------------------------------------------------------------------
(* Properties. *)

(* Every register holds a value of its width and encoding; a core built    *)
(* without the secure extension has neither SL bits nor a secure level.    *)
TypeOK ==
  /\ pmpncfg \in [Regions -> CfgEntries]
  /\ pmpaddr \in [Regions -> Addrs]
  /\ mseccfg \in MsecCfgs
  /\ security_lvl \in Levels
  /\ SecureMonitor \/ /\ security_lvl = "NS"
                      /\ \A i \in Regions : ~pmpncfg[i].slock

(* The reserved encoding RW = 01 is never in force without MML, whatever   *)
(* sequence of writes is made: the WARL rule of the RWX field together     *)
(* with MML being sticky (cs_registers lines 2405-2410 and 2568).          *)
NoReservedPerm ==
  ~mseccfg.mml => \A i \in Regions : ~WriteOnly(pmpncfg[i].perm)

(* Words a rule covers. *)
Covered(i) == {req \in Words : region_match_all(pmpncfg, pmpaddr, i, req)}

(* A locked rule keeps its permissions and the words it covers, whichever  *)
(* register is written, and stays locked.  Only the return to the secure   *)
(* level releases it, and then only if SL alone held it.  Each register    *)
(* has its own write enable (lines 2394 and 2452-2457): the bottom of a    *)
(* TOR rule is in the address register of another entry.                   *)
LockedRuleHolds ==
  [][\A i \in Regions :
       pmpncfg_locked(i) /\ ~Reset =>
         /\ pmpncfg'[i] = pmpncfg[i]
         /\ Covered(i)' = Covered(i)
         /\ pmpncfg_locked(i)' \/ (security_lvl' = "S" /\ ~pmpncfg[i].lock)]_vars

(* The check the bus access of a non-secure or user program meets. *)
Allowed(priv, t, req) ==
  ~pmp_req_err_o(pmpncfg, pmpaddr, mseccfg, security_lvl, priv, t, req, FALSE)

(* The rule that decides on req and all rules before it are locked. *)
Shielded(req) ==
  \E i \in Regions : /\ Decides(pmpncfg, pmpaddr, i, req)
                     /\ \A j \in 0..i : pmpncfg_locked(j)

(* What the secure monitor relies on: while the core is not secure no CSR  *)
(* write, not even one that turns MML or MMWP on, lets any privilege reach *)
(* a shielded word in a way it could not before, and the word stays        *)
(* shielded (locks of lines 2394 and 2452-2457, WARL of 2385-2410,         *)
(* mseccfg of 2568-2573, and the check of cv32e40s_pmp.sv lines 147-225).  *)
NonSecureCannotGain ==
  [][security_lvl = "NS" /\ security_lvl' = "NS" /\ ~Reset =>
       \A req \in Words :
         Shielded(req) =>
           /\ Shielded(req)'
           /\ \A priv \in Privs, t \in Perms :
                Allowed(priv, t, req)' => Allowed(priv, t, req)]_vars

(* Words some rule lets machine mode execute under MML. *)
MachineCode ==
  {req \in Words :
     \E i \in Regions : /\ region_match_all(pmpncfg, pmpaddr, i, req)
                        /\ region_mml_perm_check(pmpncfg[i], "M", "X")}

(* While MML is set and RLB is clear, no write adds a word that a rule     *)
(* lets machine mode execute, neither by a new rule nor by moving or       *)
(* re-enabling an old one (lines 2384-2390; the rules that grant           *)
(* machine-mode execution have L set, so their locks do the rest).         *)
MachineCodeSealed ==
  [][mseccfg.mml /\ ~mseccfg.rlb /\ ~Reset =>
       MachineCode' \subseteq MachineCode]_vars

(* A CSR set or clear changes only the address bits named in its mask,     *)
(* although the value it read back may show other bits than the register   *)
(* holds (comment at lines 2461-2466).                                     *)
SetClearKeepsOtherBits ==
  [][\A i \in Regions, op \in {"SET", "CLEAR"}, w \in AddrWrites :
       WritePmpaddr(i, op, w) =>
         \A b \in (LowBit..(AddrBits - 1)) \ w :
            b \in pmpaddr'[i] <=> b \in pmpaddr[i]]_vars
=============================================================================
