------------------------------ MODULE Pipeline ------------------------------
(***************************************************************************)
(* The controller of cv32e40s_controller_fsm.sv and the pipeline it halts  *)
(* and kills: IF, ID, EX and WB with their ready/valid handshakes, the     *)
(* stalls of cv32e40s_controller_bypass.sv, and the registers a trap or    *)
(* debug entry saves.  One step is one clock cycle.  The fetch path and    *)
(* the LSU are here as what modules FetchPath and LoadStore show of them:  *)
(* an instruction is fetched after some time, an access leaves EX when it  *)
(* has been accepted and WB when it has been answered.                     *)
(***************************************************************************)
EXTENDS HartBase, Sequences, SequencesExt

CONSTANT Scenarios  \* programs, with pc_hardening and the outside events they meet

ASSUME ScenarioParameters ==
  \A s \in Scenarios : s.prog \in [Addrs -> Kinds] /\ s.hard \in BOOLEAN

VARIABLES
  prog, hard, events,   \* the scenario
  fsm,                  \* ctrl_fsm_cs
  dm,                   \* debug_mode_q
  cause,                \* debug_cause_q
  fetch,                \* IF: pc_if, prefetch_valid, the level of the fetch, sequencer
  id, ex, wb,           \* the instructions in the stages, or Bubble
  sub,                  \* multi_op_cnt of ID
  q,                    \* the flags of the FSM
  nmi,                  \* nmi_pending_q
  irq_q,                \* the registered interrupt line
  asked,                \* the access in EX has been presented for a cycle
  buffered,             \* answered stores whose bus answer is outstanding, at most DEPTH
  held,                 \* the debugger keeps its request up until the hart stops
  regs,
  waited, tick,         \* monitor, once held: what was kept waiting in the last cycle, the clock
  stale                 \* monitor: what is in IF, ID and EX was fetched before a flush

vars == <<prog, hard, events, fsm, dm, cause, fetch, id, ex, wb, sub, q, nmi, irq_q,
          asked, buffered, held, regs, waited, tick, stale>>

Stages == {"if", "id", "ex", "wb"}
Bubble == [kind |-> "bubble"]

(* The flags of the FSM, all cleared by reset; and last_op of id_ex_pipe,  *)
(* which stays when EX empties.                                            *)
Flags == {"branch_taken", "jump_taken", "step_halt_if", "csr_flush_ack", "seq_wb", "seq_id",
          "ex_last", "blanking", "fence_req", "fencei_ack", "woke_debug", "woke_irq"}

NoFlags == [f \in Flags |-> FALSE]

-----------------------------------------------------------------------------
(* Instructions.  Those split by pc_hardening and the sequences of Zc have *)
(* two operations.                                                         *)
Hardened(k) == hard /\ k \in {"taken", "untaken", "jump", "mret"}
Ops(k)      == IF k = "pop" \/ Hardened(k) THEN 2 ELSE 1

last_op(x)   == x.op = Ops(x.kind)
Is(x, k)     == x.kind = k
IsLoad(x)    == x.kind = "load" \/ (x.kind = "pop" /\ x.op = 1)
IsAccess(x)  == x.kind = "store" \/ IsLoad(x)
Nop(x)       == x.kind \in {"fault", "trigger"}   \* an exception or trigger match known in ID

(* The instruction in ID, decoded.                                         *)
IdKind == IF id = Bubble THEN "bubble"
          ELSE Decoded(prog[id.pc], id.u, dm, regs.dcsr.step)

last_sec_op == Hardened(IdKind) => sub = 1

multi_op_id_stall == id # Bubble /\ ~last_sec_op

IdToEx == [kind |-> IdKind, pc |-> id.pc, u |-> id.u,
           op |-> IF Hardened(IdKind) THEN sub + 1 ELSE id.op]

ExToWb == [ex EXCEPT !.kind = IF IllegalCsr(@, ex.u, dm) THEN "fault" ELSE @]

-----------------------------------------------------------------------------
(* What arrives in a cycle: a debug request, the interrupt line, the LSU   *)
(* accepting or answering an access, the write buffer emptying, a fetch,   *)
(* and what depends on data: a register hazard, the value written to       *)
(* dcsr.                                                                   *)
Bit(relevant) == IF relevant THEN BOOLEAN ELSE {FALSE}

Errors == IF "nmi" \in events THEN {"err"} ELSE {}

DEPTH == 2

\* A store may be answered while others are posted, before the bus answers.
Answers ==
  IF ~IsAccess(wb) THEN {"none"}
  ELSE {"none", "fault"}
       \cup (IF buffered = 0 THEN {"ok"} \cup Errors ELSE {})
       \cup (IF Is(wb, "store") /\ buffered < DEPTH THEN {"posted"} ELSE {})

Drains == IF buffered > 0 THEN {"none", "ok"} \cup Errors ELSE {"none"}

Inputs ==
  [debug_req : IF held THEN {TRUE} ELSE Bit(events \cap {"debug", "halt"} # {}),
   irq : Bit("irq" \in events), ready : Bit(IsAccess(ex)), answer : Answers, drain : Drains,
   fetched : BOOLEAN,
   hazard : Bit(id # Bubble /\ (IsLoad(ex) \/ IsLoad(wb) \/ (IdKind = "jump" /\ ex # Bubble))),
   dcsr : IF Is(wb, "dcsr") THEN Dcsrs ELSE {NoDcsr}]

(* What the memory system keeps waiting.                                   *)
Waits == {"ready", "answer", "drain", "fetch"}

Late(i) ==
  {w \in Waits : CASE w = "ready"  -> IsAccess(ex) /\ ~i.ready
                   [] w = "answer" -> IsAccess(wb) /\ i.answer = "none"
                   [] w = "drain"  -> buffered > 0 /\ i.drain = "none"
                   [] w = "fetch"  -> ~(i.fetched \/ fetch.ok)}

Answered(i) == IsAccess(wb) => i.answer # "none"

bus_error(i) == i.answer = "err" \/ i.drain = "err"

lsu_interruptible == ~asked /\ ~IsAccess(wb)

-----------------------------------------------------------------------------
(* Stalls for registers and CSRs.                                          *)
csr_write_in(x) == x.kind \in Csrs \cup {"mret"}

mret_self_stall ==
  /\ IdKind = "mret" /\ last_sec_op
  /\ \E x \in {ex, wb} : Is(x, "mret") /\ ~last_op(x)
  /\ ~(Is(ex, "mret") /\ last_op(ex))

csr_stall_id ==
  IdKind \in {"mret", "wfi"} /\ (csr_write_in(ex) \/ csr_write_in(wb)) /\ ~mret_self_stall

jumpr_self_stall == sub = 1 /\ Is(ex, "jump") /\ ~last_op(ex)

jalr_stall(i) == IdKind = "jump" /\ i.hazard /\ (ex # Bubble \/ IsLoad(wb)) /\ ~jumpr_self_stall

load_stall(i) == i.hazard /\ (IsLoad(ex) \/ (IsLoad(wb) /\ ~Answered(i)))

stall_id(i) == jalr_stall(i) \/ load_stall(i) \/ csr_stall_id \/ Is(ex, "wfi")

csr_stall_ex == ex.kind \in Csrs /\ (Is(wb, "mret") \/ Is(wb, ex.kind))

irq_enable_stall == IsAccess(ex) /\ wb.kind \in {"ie", "mret", "dret"}

-----------------------------------------------------------------------------
(* Events, and when each may be taken.                                     *)
sequence_interruptible == ~q.seq_wb

Mut_id_stage_haltable == TRUE

id_stage_haltable == ~q.seq_id

fencei_flush_req == Is(wb, "fencei") /\ q.fence_req
fencei_ongoing   == fencei_flush_req \/ q.fencei_ack

debug_interruptible == ~(dm \/ StepBlocks(regs))

Mut_Quiescent == lsu_interruptible /\ ~fencei_ongoing /\ ~q.csr_flush_ack

Quiescent == lsu_interruptible /\ ~fencei_ongoing /\ sequence_interruptible /\ ~q.csr_flush_ack

Mut_nmi_allowed == Quiescent /\ debug_interruptible /\ ~q.woke_irq

nmi_allowed         == Quiescent /\ debug_interruptible /\ ~q.woke_debug /\ ~q.woke_irq
async_debug_allowed == Quiescent /\ ~q.woke_irq
interrupt_allowed   == Quiescent /\ debug_interruptible /\ ~q.blanking

pending_interrupt      == irq_q /\ IrqEnabled(regs)
pending_async_debug(i) == (i.debug_req \/ q.woke_debug) /\ ~dm
pending_sync_debug     == Is(wb, "trigger") \/ (Is(wb, "ebreak") /\ (dm \/ regs.dcsr.ebreak))

exception_in_wb(i) ==
  \/ wb.kind \in {"fault", "ecall"}
  \/ Is(wb, "ebreak") /\ ~dm /\ ~regs.dcsr.ebreak
  \/ IsAccess(wb) /\ i.answer = "fault"

abort_op(i) == Nop(wb) \/ (IsAccess(wb) /\ i.answer = "fault")

fence_in_wb == wb.kind \in {"fence", "fencei"}
fence_acked == IF Is(wb, "fencei") THEN q.fencei_ack ELSE q.fence_req

branch_taken_ex  == Is(ex, "taken") /\ ~q.branch_taken
jump_taken_id(i) == /\ (IdKind = "jump" /\ ~jalr_stall(i)) \/ (IdKind = "mret" /\ ~csr_stall_id)
                    /\ ~q.jump_taken

wake_from_sleep(i) == nmi \/ i.irq \/ pending_async_debug(i)

(* The decision of a cycle: in FUNCTIONAL the first of these that applies. *)
Requests(i) ==
  << [is |-> "nmi",        if |-> nmi /\ nmi_allowed],
     [is |-> "debug",      if |-> pending_async_debug(i) /\ async_debug_allowed],
     [is |-> "irq",        if |-> pending_interrupt /\ interrupt_allowed],
     [is |-> "sync_debug", if |-> pending_sync_debug],
     [is |-> "exception",  if |-> exception_in_wb(i)],
     [is |-> "sleep",      if |-> Is(wb, "wfi")],
     [is |-> "fence",      if |-> fence_in_wb /\ ~fence_acked],
     [is |-> "fence_done", if |-> fence_in_wb],
     [is |-> "dret",       if |-> Is(wb, "dret")],
     [is |-> "csr_write",  if |-> Is(wb, "pmp")],
     [is |-> "csr_flush",  if |-> q.csr_flush_ack],
     [is |-> "branch",     if |-> branch_taken_ex],
     [is |-> "jump",       if |-> jump_taken_id(i)],
     [is |-> "none",       if |-> TRUE] >>

Decision(i) ==
  CASE fsm = "RESET"       -> IF i.debug_req THEN "boot_debug" ELSE "boot"
    [] fsm = "SLEEP"       -> IF wake_from_sleep(i) THEN "wake" ELSE "asleep"
    [] fsm = "DEBUG_TAKEN" -> "enter_debug"
    [] OTHER -> Requests(i)[SelectInSeq(Requests(i), LAMBDA r : r.if)].is

-----------------------------------------------------------------------------
(* The stages a decision kills and halts.                                  *)
Mut_Flush == {"if", "id"}

Flush == {"if", "id", "ex"}

kill(d) ==
  CASE d \in {"nmi", "irq"}                                  -> Stages
    [] d \in {"exception", "fence_done", "dret", "csr_flush"} -> Flush
    [] d = "branch"                                          -> IF hard THEN {"if"} ELSE {"if", "id"}
    [] d = "jump"                                            -> {"if"}
    [] d = "enter_debug" -> CASE cause = "step"                  -> {"if"}
                              [] cause \in {"ebreak", "trigger"} -> Flush
                              [] OTHER                           -> Stages
    [] OTHER -> {}

event_halts_id(i) ==
  /\ id_stage_haltable
  /\ \/ (pending_interrupt \/ nmi \/ bus_error(i)) /\ debug_interruptible
     \/ pending_async_debug(i) \/ pending_sync_debug

halt(i, d) ==
  (CASE d \in {"debug", "sync_debug", "fence"} -> Stages
     [] d = "csr_write"                        -> Flush
     [] d \in {"sleep", "asleep"}              -> {"wb"}
     [] d = "wake"                             -> {"id"}
     [] OTHER                                  -> {})
  \cup (IF q.step_halt_if THEN {"if"} ELSE {})
  \cup (IF stall_id(i) \/ event_halts_id(i) THEN {"id"} ELSE {})
  \cup (IF csr_stall_ex \/ irq_enable_stall THEN {"ex"} ELSE {})

(* A cycle c: its inputs i, its decision d, the stages it kills and halts. *)
stopped(stage, c) == stage \in c.kill \cup c.halt

wb_ready(c) == "wb" \in c.kill \/ (Answered(c.i) /\ "wb" \notin c.halt)
wb_valid(c) == wb # Bubble /\ Answered(c.i) /\ ~stopped("wb", c)

Accepted(i) == IsAccess(ex) => i.ready

ex_ready(c) == "ex" \in c.kill \/ (wb_ready(c) /\ Accepted(c.i) /\ "ex" \notin c.halt)
ex_valid(c) == ex # Bubble /\ Accepted(c.i) /\ ~stopped("ex", c)

id_ready(c) == "id" \in c.kill \/ (~multi_op_id_stall /\ ex_ready(c) /\ "id" \notin c.halt)
id_valid(c) == id # Bubble /\ ~stopped("id", c)

if_valid(c) == fetch.ok /\ ~stopped("if", c)

(* Handshakes: an instruction leaves its stage.                            *)
if_id(c)   == if_valid(c) /\ id_ready(c)
id_ex(c)   == id_valid(c) /\ ex_ready(c)
ex_wb(c)   == ex_valid(c) /\ wb_ready(c)
retires(c) == wb_valid(c) /\ (last_op(wb) \/ abort_op(c.i))

-----------------------------------------------------------------------------
(* Where the core goes, and what it saves.                                 *)
Behind  == IF ex # Bubble THEN ex.pc ELSE IF id # Bubble THEN id.pc ELSE fetch.pc
pipe_pc == IF wb # Bubble THEN wb.pc ELSE Behind

pc_set(c) == c.d \in {"boot", "boot_debug", "nmi", "irq", "exception", "fence_done", "dret",
                    "csr_flush", "branch", "jump", "enter_debug"}

branch_addr(c) ==
  CASE c.d \in {"boot", "boot_debug"}      -> BOOT
    [] c.d = "nmi"                         -> TRAP_NMI
    [] c.d = "irq"                         -> TRAP_IRQ
    [] c.d = "exception"                   -> IF dm THEN DM_EXC ELSE TRAP_EXC
    [] c.d \in {"fence_done", "csr_flush"} -> Behind
    [] c.d = "dret"                        -> regs.dpc
    [] c.d = "branch"                      -> Target[ex.pc]
    [] c.d = "jump"                        -> IF IdKind = "mret" THEN regs.mepc ELSE Target[id.pc]
    [] c.d = "enter_debug"                 -> DM_HALT

csr_save_cause(c) ==
  \/ c.d \in {"nmi", "irq"}
  \/ c.d = "exception" /\ ~dm
  \/ c.d = "enter_debug" /\ ~(Is(wb, "ebreak") /\ dm)

csr_restore_mret(c) == Is(wb, "mret") /\ last_op(wb) /\ wb_valid(c)

dpc_n == IF cause = "step" THEN fetch.pc ELSE pipe_pc

registers(c) ==
  CASE csr_save_cause(c) /\ c.d = "enter_debug" -> Stopped(regs, dpc_n)
    [] csr_save_cause(c) /\ c.d # "enter_debug" -> Trapped(regs, pipe_pc)
    [] c.d = "dret"                              -> Resumed(regs)
    [] csr_restore_mret(c)                       -> Returned(regs)
    [] wb.kind \in Csrs /\ wb_valid(c)           -> Written(regs, wb.kind, c.i.dcsr)
    [] OTHER                                     -> regs

(* The level of what is fetched from here on: that of the registers as     *)
(* they are written, the one an mret in ID returns to, and again that of   *)
(* the registers if the mret is killed; otherwise as it was.               *)
mret_jump_id(c) == c.d = "jump" /\ IdKind = "mret"

Mut_mret_killed(c) == Is(wb, "mret") /\ "wb" \in c.kill

mret_killed(c) ==
  \/ IdKind = "mret" /\ "id" \in c.kill
  \/ Is(ex, "mret") /\ "ex" \in c.kill
  \/ Is(wb, "mret") /\ "wb" \in c.kill

fetch_priv_lvl(c) ==
  IF csr_save_cause(c) \/ c.d = "dret" \/ csr_restore_mret(c) THEN registers(c).u
  ELSE IF mret_jump_id(c) /\ ~dm THEN regs.mppu
  ELSE IF mret_killed(c) THEN regs.u ELSE fetch.u

-----------------------------------------------------------------------------
(* The next state of the stages.                                           *)
Last_if == fetch.op = (IF prog[fetch.pc] = "pop" THEN 2 ELSE 1)

fetch_n(c) ==
  LET at == CASE pc_set(c)             -> [pc |-> branch_addr(c), op |-> 1]
              [] if_id(c) /\ Last_if  -> [pc |-> Succ[fetch.pc], op |-> 1]
              [] if_id(c) /\ ~Last_if -> [pc |-> fetch.pc, op |-> 2]
              [] OTHER                 -> [pc |-> fetch.pc, op |-> fetch.op]
      new == pc_set(c) \/ (if_id(c) /\ Last_if)
  IN [pc |-> at.pc, op |-> at.op, ok |-> c.i.fetched \/ (fetch.ok /\ ~new),
      u |-> fetch_priv_lvl(c)]

IfToId == [kind |-> "fetched", pc |-> fetch.pc, u |-> fetch.u, op |-> fetch.op]

Advance(in, ready, from, stage) == IF in THEN from ELSE IF ready THEN Bubble ELSE stage

multi_op_cnt_n(c) ==
  CASE "id" \in c.kill -> 0
    [] id_ex(c)        -> IF last_sec_op THEN 0 ELSE sub + 1
    [] OTHER           -> sub

(* The flags.                                                              *)
branch_taken_n(c) ==
  /\ q.branch_taken \/ c.d = "branch"
  /\ ~(id_ex(c) /\ q.ex_last /\ q.branch_taken) /\ "ex" \notin c.kill

jump_taken_n(c) ==
  /\ q.jump_taken \/ c.d = "jump"
  /\ ~(if_id(c) /\ q.jump_taken) /\ "id" \notin c.kill

single_step_halt_if_n(c) ==
  \/ ~dm /\ regs.dcsr.step /\ ~q.step_halt_if /\ if_id(c) /\ Last_if
  \/ q.step_halt_if /\ c.d \notin {"enter_debug", "dret"}

InSequence(flag, x, moves, abort) ==
  IF ~flag THEN moves /\ x.op = 1 /\ ~(last_op(x) \/ abort)
  ELSE ~(moves /\ (last_op(x) \/ abort))

sequence_in_progress_wb(c) == InSequence(q.seq_wb, wb, wb_valid(c), abort_op(c.i))
sequence_in_progress_id(c) ==
  InSequence(q.seq_id, IdToEx, id_ex(c), Nop(IdToEx)) /\ "id" \notin c.kill

fence_req_n(c) == c.d = "fence" /\ ~fencei_flush_req /\ (q.fence_req \/ buffered = 0)

flags_n(c) ==
  [branch_taken |-> branch_taken_n(c), jump_taken |-> jump_taken_n(c),
   step_halt_if |-> single_step_halt_if_n(c), csr_flush_ack |-> c.d = "csr_write",
   seq_wb |-> sequence_in_progress_wb(c), seq_id |-> sequence_in_progress_id(c),
   ex_last |-> IF id_ex(c) THEN last_op(IdToEx) ELSE q.ex_last, blanking |-> IsAccess(wb),
   fence_req |-> fence_req_n(c), fencei_ack |-> fencei_flush_req,
   woke_debug |-> fsm = "SLEEP" /\ c.i.debug_req /\ ~nmi,
   woke_irq |-> fsm = "SLEEP" /\ c.i.irq /\ ~(nmi \/ c.i.debug_req)]

pending_single_step(c) ==
  /\ fsm = "FUNCTIONAL" /\ ~dm /\ regs.dcsr.step
  /\ retires(c) \/ c.d = "irq" \/ (nmi /\ nmi_allowed)

ctrl_fsm_ns(c) ==
  CASE c.d \in {"boot_debug", "debug", "sync_debug"} -> "DEBUG_TAKEN"
    [] pending_single_step(c)                        -> "DEBUG_TAKEN"
    [] c.d \in {"sleep", "asleep"}                   -> "SLEEP"
    [] OTHER                                         -> "FUNCTIONAL"

debug_cause_n(c) ==
  CASE c.d \in {"boot_debug", "debug"} -> "haltreq"
    [] c.d = "sync_debug"              -> wb.kind
    [] pending_single_step(c)          -> "step"
    [] OTHER                           -> "none"

-----------------------------------------------------------------------------
(* The cycles that may happen now.                                         *)
Cycles == {[i |-> i, d |-> Decision(i), kill |-> kill(Decision(i)), halt |-> halt(i, Decision(i))] :
             i \in Inputs}

Cycle(c) ==
  /\ fsm' = ctrl_fsm_ns(c) /\ cause' = debug_cause_n(c)
  /\ dm' = (c.d = "enter_debug" \/ (dm /\ c.d # "dret"))
  /\ regs' = registers(c)
  /\ q' = flags_n(c)
  /\ nmi' = IF nmi THEN c.d # "nmi" ELSE bus_error(c.i)
  /\ irq_q' = c.i.irq
  /\ held' = (held \/ ("halt" \in events /\ c.i.debug_req))
  /\ fetch' = fetch_n(c)
  /\ id' = Advance(if_id(c), id_ready(c), IfToId, id)
  /\ ex' = Advance(id_ex(c), ex_ready(c), IdToEx, ex)
  /\ wb' = Advance(ex_wb(c), wb_ready(c), ExToWb, wb)
  /\ sub' = multi_op_cnt_n(c)
  /\ asked' = (IsAccess(ex) /\ ~stopped("ex", c) /\ ~ex_wb(c))
  /\ buffered' = buffered + (IF c.i.answer = "posted" THEN 1 ELSE 0)
                         - (IF c.i.drain # "none" THEN 1 ELSE 0)
  /\ waited' = IF held THEN Late(c.i) ELSE {}
  /\ tick' = (held /\ ~tick)
  /\ stale' = /\ stale \/ (wb.kind \in {"pmp", "fence", "fencei"} /\ wb_valid(c))
              /\ ~(pc_set(c) /\ id' = Bubble /\ ex' = Bubble)
  /\ UNCHANGED <<prog, hard, events>>

Init ==
  /\ \E s \in Scenarios : prog = s.prog /\ hard = s.hard /\ events = s.events
  /\ fsm = "RESET" /\ dm = FALSE /\ cause = "none"
  /\ fetch = [pc |-> BOOT, op |-> 1, ok |-> FALSE, u |-> FALSE]
  /\ id = Bubble /\ ex = Bubble /\ wb = Bubble /\ sub = 0
  /\ q = NoFlags /\ nmi = FALSE /\ irq_q = FALSE
  /\ asked = FALSE /\ buffered = 0 /\ held = FALSE
  /\ regs = ResetRegisters /\ waited = {} /\ tick = FALSE /\ stale = FALSE

Next == \E c \in Cycles : Cycle(c)

(* The clock runs, and the memory system does not keep a fetch or an       *)
(* access waiting forever.                                                 *)
Spec == /\ Init /\ [][Next]_vars
        /\ []<><<TRUE>>_vars
        /\ \A w \in Waits : []<>(w \notin waited)

-----------------------------------------------------------------------------
(* The hart below the pipeline: at the oldest instruction that has not     *)
(* retired, which has begun when it waits for memory or is partly done.    *)
HartBelow == INSTANCE Hart WITH pc <- pipe_pc, mid <- q.seq_wb \/ IsAccess(wb),
                                owed <- (fsm = "DEBUG_TAKEN" /\ cause = "step")

(* Whatever meets in a cycle - branch, jump, fence, CSR write, exception,  *)
(* interrupt, NMI, debug request, single step - the instructions of the    *)
(* program are carried out once and in order, a trap or debug entry saves  *)
(* the first that has not been, and none is split                          *)
(* (controller_fsm.sv 740-1249).                                           *)
HartSpec == HartBelow!Spec

(* An instruction is carried out at the level it was fetched for, though   *)
(* an mret changes the level of fetches when it jumps in ID, the registers *)
(* when it retires, and may be killed in between (cs_registers.sv,         *)
(* priv_lvl_if_ctrl_o).                                                    *)
FetchedAtItsLevel == wb # Bubble => wb.u = regs.u

(* What was fetched before a write of a PMP register or a fence, under the *)
(* old rules or of the old contents, does not reach WB after it            *)
(* (controller_fsm.sv, csr_flush_ack_q, fencei_in_wb).                     *)
NothingStaleRuns == ~(stale /\ wb # Bubble)

(* A debug request that woke the core enters debug mode, also when it is   *)
(* gone the cycle after and an NMI or interrupt has come                   *)
(* (controller_fsm.sv, woke_to_debug_q).                                   *)
WakeForDebugEnters == [][q.woke_debug => fsm' = "DEBUG_TAKEN"]_vars

(* A debug request that stays is served, whatever runs: what halts ID for  *)
(* it does not keep from finishing what the request waits for.             *)
DebugServed == held ~> dm
=============================================================================
