-------------------------------- MODULE Hart --------------------------------
(***************************************************************************)
(* What the pipeline promises: a hart that carries out one instruction of  *)
(* its program after the other, at the address pc, and between two of      *)
(* them may take an interrupt or stop for the debugger.  What is saved     *)
(* when it leaves the program is the address of the instruction it has     *)
(* not carried out.                                                        *)
(***************************************************************************)
EXTENDS HartBase

VARIABLES
  prog,   \* the program
  pc,     \* the instruction to carry out next
  dm,     \* debug mode
  regs,   \* the registers
  mid,    \* the instruction at pc has begun: its first part, or its access to memory
  owed    \* a single step is done, debug mode is due

vars == <<prog, pc, dm, regs, mid, owed>>

Kind == LET k == Decoded(prog[pc], regs.u, dm, regs.dcsr.step)
        IN IF IllegalCsr(k, regs.u, dm) THEN "fault" ELSE k

Stepping == ~dm /\ regs.dcsr.step

(* One instruction; it may have begun, and the next one may begin at once. *)
Done(next, r) ==
  /\ pc' = next /\ regs' = r /\ owed' = Stepping
  /\ UNCHANGED <<prog, dm>>

Begin == ~owed /\ ~mid /\ mid' = TRUE /\ UNCHANGED <<prog, pc, dm, regs, owed>>

Sequential ==
  /\ Kind \in Accesses \cup {"alu", "untaken", "pop", "wfi", "fence", "fencei"}
  /\ Done(Succ[pc], regs) /\ mid' \in BOOLEAN

Write == Kind \in Csrs /\ \E d \in Dcsrs : (Done(Succ[pc], Written(regs, Kind, d)) /\ mid' \in BOOLEAN)

Jump == Kind \in {"jump", "taken"} /\ Done(Target[pc], regs) /\ mid' \in BOOLEAN

Return == Kind = "mret" /\ Done(regs.mepc, Returned(regs)) /\ mid' \in BOOLEAN

Resume ==
  /\ Kind = "dret"
  /\ dm' = FALSE /\ pc' = regs.dpc /\ regs' = Resumed(regs)
  /\ UNCHANGED <<prog, mid, owed>>

Trap ==
  /\ Kind \in Accesses \cup {"fault", "ecall", "ebreak", "pop"}
  /\ Kind = "ebreak" => ~dm /\ ~regs.dcsr.ebreak
  /\ mid' = FALSE
  /\ IF dm THEN Done(DM_EXC, regs) ELSE Done(TRAP_EXC, Trapped(regs, pc))

(* Between two instructions: one that has begun is finished first.         *)
Interrupt ==
  /\ ~dm /\ ~mid /\ mid' = FALSE /\ ~StepBlocks(regs)
  /\ \/ Done(TRAP_NMI, Trapped(regs, pc))
     \/ IrqEnabled(regs) /\ Done(TRAP_IRQ, Trapped(regs, pc))

(* To debug mode: the debugger asks for it, a step is done, a trigger or   *)
(* an ebreak is reached; an ebreak in debug mode only starts over.         *)
Stop ==
  /\ ~mid
  /\ \/ ~dm /\ regs' = Stopped(regs, pc)
     \/ dm /\ Kind = "ebreak" /\ regs' = regs
  /\ pc' = DM_HALT /\ dm' = TRUE /\ owed' = FALSE
  /\ UNCHANGED <<prog, mid>>

Next ==
  \/ Begin
  \/ ~owed /\ (Sequential \/ Write \/ Jump \/ Return \/ Resume \/ Trap \/ Interrupt)
  \/ Stop

Init ==
  /\ pc = BOOT /\ regs = ResetRegisters
  /\ dm = FALSE /\ mid = FALSE /\ owed = FALSE

Spec == Init /\ [][Next]_vars
=============================================================================
