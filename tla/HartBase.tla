------------------------------ MODULE HartBase ------------------------------
(***************************************************************************)
(* The instructions and the registers of a hart: what the pipeline of      *)
(* module Pipeline and the hart it implements (module Hart) have in        *)
(* common.  An instruction is the kind of thing it asks of the controller; *)
(* a program places one at every address.  The registers are those that    *)
(* decide where the hart goes next and at which level:                     *)
(*   u             the level is U (priv_lvl)                               *)
(*   mie, mpie, mppu, mepc   of mstatus and mepc                           *)
(*   dpc, prvu     dpc, and dcsr.prv = U                                   *)
(*   dcsr          what the debugger chooses in dcsr                       *)
(***************************************************************************)
EXTENDS Naturals, FiniteSets

CONSTANTS
  Addrs,     \* addresses of instructions
  Succ,      \* the address after an instruction
  Target,    \* the address its jump or branch goes to
  BOOT,      \* boot_addr_i
  EPC,       \* the address programs write to mepc
  TRAP_EXC, TRAP_IRQ, TRAP_NMI,  \* the vectors of mtvec
  DM_HALT, DM_EXC,               \* dm_halt_addr_i, dm_exception_addr_i
  Dcsrs      \* the settings of dcsr the debugger uses

Csrs == {"epc", "ie", "dcsr", "pmp"}
Accesses == {"load", "store"}

Kinds == {"alu", "taken", "untaken", "jump", "mret", "dret", "wfi", "fence", "fencei", "ecall",
          "ebreak", "trigger", "fault", "pop"} \cup Csrs \cup Accesses

ASSUME HartParameters ==
  /\ Succ \in [Addrs -> Addrs] /\ Target \in [Addrs -> Addrs]
  /\ {BOOT, EPC, TRAP_EXC, TRAP_IRQ, TRAP_NMI, DM_HALT, DM_EXC} \subseteq Addrs
  /\ Dcsrs \subseteq [step : BOOLEAN, stepie : BOOLEAN, ebreak : BOOLEAN] /\ Dcsrs # {}

NoDcsr == [step |-> FALSE, stepie |-> FALSE, ebreak |-> FALSE]

RegisterFile ==
  [u : BOOLEAN, mie : BOOLEAN, mpie : BOOLEAN, mppu : BOOLEAN, mepc : Addrs,
   dpc : Addrs, prvu : BOOLEAN, dcsr : Dcsrs \cup {NoDcsr}]

ResetRegisters ==
  [u |-> FALSE, mie |-> FALSE, mpie |-> FALSE, mppu |-> FALSE, mepc |-> BOOT,
   dpc |-> BOOT, prvu |-> FALSE, dcsr |-> NoDcsr]

(* What an instruction does when it is decoded at level U (u), in debug    *)
(* mode (dm) or while single stepping (step): one that is illegal there    *)
(* only traps, a wfi does not sleep, a trigger does not fire.              *)
Decoded(k, u, dm, step) ==
  CASE k = "mret" /\ (u \/ dm)               -> "fault"
    [] k = "dret" /\ ~dm                     -> "fault"
    [] k = "wfi" /\ (dm \/ step)             -> "alu"
    [] k = "trigger" /\ dm                   -> "alu"
    [] OTHER                                 -> k

IllegalCsr(k, u, dm) == k \in Csrs /\ (u \/ (k = "dcsr" /\ ~dm))

(* The registers after a CSR instruction, a trap, an mret, a debug entry   *)
(* and a dret.                                                             *)
Written(r, k, d) ==
  CASE k = "epc"  -> [r EXCEPT !.mepc = EPC]
    [] k = "ie"   -> [r EXCEPT !.mie = TRUE]
    [] k = "dcsr" -> [r EXCEPT !.dcsr = d]
    [] OTHER      -> r

Trapped(r, at) == [r EXCEPT !.u = FALSE, !.mie = FALSE, !.mpie = r.mie, !.mppu = r.u, !.mepc = at]

Returned(r) == [r EXCEPT !.u = r.mppu, !.mie = r.mpie, !.mpie = TRUE, !.mppu = TRUE]

Stopped(r, at) == [r EXCEPT !.prvu = r.u, !.u = FALSE, !.dpc = at]

Resumed(r) == [r EXCEPT !.u = r.prvu]

IrqEnabled(r) == r.mie \/ r.u

StepBlocks(r) == r.dcsr.step /\ ~r.dcsr.stepie
=============================================================================
