--------------------------- MODULE PipelineProofs ---------------------------
(***************************************************************************)
(* Theorems about the pipeline, for every program, whatever the memory and *)
(* the outside do: its invariant, the levels of instructions, the flush    *)
(* after a change of the rules, the wake-up, and that it implements the    *)
(* hart of module Hart.                                                    *)
(***************************************************************************)
EXTENDS Pipeline, TLAPS

-----------------------------------------------------------------------------
(* The invariant.                                                          *)

\* An instruction in EX or WB, and one in ID.
Item == [kind : Kinds, pc : Addrs, u : BOOLEAN, op : {1, 2}]
Fetched == [kind : {"fetched"}, pc : Addrs, u : BOOLEAN, op : {1, 2}]

\* The types of the variables the other parts speak of.
TypeInv ==
  /\ prog \in [Addrs -> Kinds] /\ hard \in BOOLEAN
  /\ fsm \in {"RESET", "FUNCTIONAL", "SLEEP", "DEBUG_TAKEN"}
  /\ dm \in BOOLEAN
  /\ cause \in {"none", "haltreq", "step", "ebreak", "trigger"}
  /\ fetch \in [pc : Addrs, op : {1, 2}, ok : BOOLEAN, u : BOOLEAN]
  /\ id \in Fetched \cup {Bubble} /\ ex \in Item \cup {Bubble} /\ wb \in Item \cup {Bubble}
  /\ sub \in {0, 1} /\ q \in [Flags -> BOOLEAN] /\ regs \in RegisterFile
  /\ nmi \in BOOLEAN /\ irq_q \in BOOLEAN /\ asked \in BOOLEAN
  /\ buffered \in 0 .. DEPTH /\ held \in BOOLEAN

\* What the instruction x in WB is when it is carried out now.
Executed(x) == LET k == Decoded(prog[x.pc], x.u, dm, regs.dcsr.step)
               IN IF IllegalCsr(k, x.u, dm) THEN "fault" ELSE k

\* An instruction is what it was decoded as: what it depends on, dcsr.step and
\* debug mode, changes only with a flush.
DecodeInv ==
  /\ ex # Bubble => /\ ex.kind = Decoded(prog[ex.pc], ex.u, dm, regs.dcsr.step)
                    /\ ex.op <= Ops(ex.kind)
  /\ wb # Bubble => wb.kind = Executed(wb) /\ wb.op <= Ops(wb.kind)
  /\ id # Bubble => (id.op = 2 => IdKind = "pop")
  /\ fetch.op = 2 => prog[fetch.pc] = "pop"

\* Where the program goes after x, and that the operation op at pc is the next
\* one after x.
After(x) == CASE x.kind \in {"jump", "taken"} -> Target[x.pc]
              [] x.kind = "mret" -> regs.mepc
              [] OTHER -> Succ[x.pc]

Follows(x, pc, op) ==
  x # Bubble => IF last_op(x) THEN pc = After(x) /\ op = 1 ELSE pc = x.pc /\ op = 2

\* The operations that go before the one in ID and before the one in IF.
BeforeId == IF ex # Bubble THEN ex ELSE wb

LastOfId == [kind |-> IdKind, pc |-> id.pc, u |-> id.u, op |-> IF Hardened(IdKind) THEN 2
    ELSE id.op]
BeforeIf == IF id # Bubble THEN LastOfId ELSE BeforeId

\* A branch in EX and a jump in ID have sent IF to their target.
BranchKnown == Is(ex, "taken") => q.branch_taken
JumpKnown == IdKind \in {"jump", "mret"} => q.jump_taken
IdKnown == /\ JumpKnown
           /\ IdKind = "taken" => sub = 1

\* Each operation follows the one before it in the pipeline, unless a branch or
\* jump between them has not been taken yet.
PathInv ==
  /\ ex # Bubble => Follows(wb, ex.pc, ex.op)
  /\ (id # Bubble /\ (BranchKnown \/ ~last_op(ex))) => Follows(BeforeId, id.pc, IdToEx.op)
  /\ (BranchKnown /\ IdKnown) => Follows(BeforeIf, fetch.pc, fetch.op)

\* The oldest operation is the second of an instruction just when the sequence
\* is in progress in WB.
OldestOp == IF wb # Bubble THEN wb.op ELSE IF ex # Bubble THEN ex.op
            ELSE IF id # Bubble THEN IdToEx.op ELSE fetch.op

SeqInv == OldestOp = (IF q.seq_wb THEN 2 ELSE 1)

\* multi_op_cnt: after the first half of a split instruction has left ID, the
\* second is still there and the first is just before it.
SubInv ==
  /\ sub = 1 => /\ id # Bubble /\ Hardened(IdKind)
                /\ ex # Bubble => ex.kind = IdKind /\ ex.pc = id.pc /\ ex.op = 1
                /\ JumpKnown
  /\ (BeforeId # Bubble /\ ~last_op(BeforeId) /\ BeforeId.kind # "pop") => sub = 1

\* branch_taken_q and last_op of id_ex_pipe: what is left of a taken branch is
\* its second half.
BranchInv ==
  /\ ex # Bubble => (q.ex_last <=> last_op(ex))
  /\ q.branch_taken => /\ ex # Bubble => ex.kind = "taken"
                       /\ ~q.ex_last => sub = 1 /\ IdKind = "taken"
  /\ (sub = 1 /\ IdKind = "taken") => ~q.ex_last /\ (q.branch_taken \/ Is(ex, "taken"))
  /\ (Is(ex, "taken") /\ ~q.branch_taken) => ex.op = 1

\* jump_taken_q is about the jump or mret in ID.
JumpInv == q.jump_taken => id = Bubble \/ IdKind \in {"jump", "mret"}

\* While an mret that has jumped waits in ID, no instruction before it writes
\* the CSRs it has read, nor while it is in EX.
MretInv ==
  /\ (IdKind = "mret" /\ q.jump_taken) =>
       \A x \in {ex, wb} : csr_write_in(x) => Is(x, "mret") /\ ~last_op(x)
  /\ Is(ex, "mret") => (csr_write_in(wb) => Is(wb, "mret") /\ ~last_op(wb))

\* The level that is in force behind an mret that has jumped and not retired.
Returns(x) == Is(x, "mret") /\ last_op(x)
Level(returning) == IF returning THEN regs.mppu ELSE regs.u

\* Every stage has the level its instruction will be carried out at, and IF the
\* one of what it fetches.
LevelInv ==
  /\ wb # Bubble => wb.u = regs.u
  /\ ex # Bubble => ex.u = Level(Returns(wb))
  /\ id # Bubble => id.u = Level(Returns(wb) \/ Returns(ex))
  /\ fetch.u = Level(Returns(wb) \/ Returns(ex) \/ (IdKind = "mret" /\ q.jump_taken))

\* Single stepping lets one instruction into the pipeline: while the fetch is not
\* halted, only the first operation of a sequence may be in it.
Part(x) == Is(x, "pop") /\ x.op = 1

StepInv ==
  /\ dm => ~q.step_halt_if
  /\ (~dm /\ regs.dcsr.step) =>
      /\ (wb # Bubble /\ last_op(wb)) => ex = Bubble /\ id = Bubble
      /\ (ex # Bubble /\ last_op(ex)) => id = Bubble
      /\ ~q.step_halt_if => /\ wb # Bubble => Part(wb)
                            /\ ex # Bubble => Part(ex)
                            /\ id # Bubble => IdKind = "pop" /\ id.op = 1

\* When the FSM is about to enter debug mode nothing is partly done, and after a
\* step nothing is in the pipeline.
DebugInv ==
  fsm = "DEBUG_TAKEN" =>
    /\ cause # "none"
    /\ ~q.seq_wb /\ ~IsAccess(wb)
    /\ cause = "step" => wb = Bubble /\ ex = Bubble /\ id = Bubble
    /\ cause \in {"ebreak", "trigger"} => wb.kind = cause
    /\ dm => cause = "ebreak"

\* A wfi in WB, and the core when it sleeps, has EX empty.
SleepInv ==
  /\ Is(wb, "wfi") => ex = Bubble
  /\ fsm = "SLEEP" => Is(wb, "wfi")

\* Until the flush that follows a write of a PMP register nothing is in WB; what
\* is stale is flushed with it.
FlushInv ==
  /\ q.csr_flush_ack => wb = Bubble /\ ~q.seq_wb /\ fsm # "SLEEP"
                        /\ (fsm = "DEBUG_TAKEN" => cause = "step")
  /\ stale => q.csr_flush_ack

\* Out of reset.
ResetInv ==
  fsm = "RESET" =>
    /\ wb = Bubble /\ ex = Bubble /\ id = Bubble /\ sub = 0 /\ ~dm /\ q = NoFlags
    /\ fetch = [pc |-> BOOT, op |-> 1, ok |-> FALSE, u |-> FALSE] /\ regs = ResetRegisters
\* A debug request that woke the core finds nothing that keeps it out.
WakeInv == q.woke_debug => fsm = "FUNCTIONAL" /\ ~dm /\ Quiescent /\ ~q.woke_irq /\ wb = Bubble

\* The inductive invariant.
PipelineInv ==
  /\ TypeInv /\ DecodeInv /\ PathInv /\ SeqInv /\ SubInv /\ BranchInv /\ JumpInv /\ MretInv
  /\ LevelInv /\ StepInv /\ DebugInv /\ SleepInv /\ FlushInv /\ ResetInv /\ WakeInv

\* The first request of the list, as a chain of conditions.
Chosen(i) ==
  IF nmi /\ nmi_allowed THEN "nmi"
  ELSE IF pending_async_debug(i) /\ async_debug_allowed THEN "debug"
  ELSE IF pending_interrupt /\ interrupt_allowed THEN "irq"
  ELSE IF pending_sync_debug THEN "sync_debug"
  ELSE IF exception_in_wb(i) THEN "exception"
  ELSE IF Is(wb, "wfi") THEN "sleep"
  ELSE IF fence_in_wb /\ ~fence_acked THEN "fence"
  ELSE IF fence_in_wb THEN "fence_done"
  ELSE IF Is(wb, "dret") THEN "dret"
  ELSE IF Is(wb, "pmp") THEN "csr_write"
  ELSE IF q.csr_flush_ack THEN "csr_flush"
  ELSE IF branch_taken_ex THEN "branch"
  ELSE IF jump_taken_id(i) THEN "jump" ELSE "none"

\* Of 14 requests, the first one that applies is selected.
LEMMA FirstRequest ==
  ASSUME NEW R, Len(R) = 14, NEW n \in 1 .. 14, R[n].if, \A m \in 1 .. (n - 1) : ~R[m].if
  PROVE  SelectInSeq(R, LAMBDA r : r.if) = n
<1> DEFINE I == {k \in 1 .. Len(R) : R[k].if}
<1>1. n \in I /\ \A y \in I : n =< y /\ y \in Nat
  OBVIOUS
<1>2. SelectInSeq(R, LAMBDA r : r.if) = Min(I)
  BY <1>1 DEF SelectInSeq
<1>3. Min(I) = CHOOSE x \in I : \A y \in I : x =< y
  BY DEF Min
<1> HIDE DEF I
<1> QED BY <1>1, <1>2, <1>3

\* In FUNCTIONAL the FSM takes the first request.
LEMMA DecisionIs ==
  ASSUME NEW i, fsm = "FUNCTIONAL"
  PROVE  Decision(i) = Chosen(i)
<1> DEFINE R == Requests(i)
<1>1. Decision(i) = R[SelectInSeq(R, LAMBDA r : r.if)].is /\ Len(R) = 14
  BY DEF Decision, Requests
<1>2. \A n \in 1 .. 14 : (R[n].if /\ \A m \in 1 .. (n - 1) : ~R[m].if) => Decision(i) = R[n].is
  <2> HIDE DEF R
  <2> QED BY <1>1, FirstRequest
<1>3. /\ R[1].if <=> nmi /\ nmi_allowed
      /\ R[2].if <=> pending_async_debug(i) /\ async_debug_allowed
      /\ R[3].if <=> pending_interrupt /\ interrupt_allowed
      /\ R[4].if <=> pending_sync_debug
      /\ R[5].if <=> exception_in_wb(i)
      /\ R[6].if <=> Is(wb, "wfi")
      /\ R[7].if <=> fence_in_wb /\ ~fence_acked
      /\ R[8].if <=> fence_in_wb
      /\ R[9].if <=> Is(wb, "dret")
      /\ R[10].if <=> Is(wb, "pmp")
      /\ R[11].if <=> q.csr_flush_ack
      /\ R[12].if <=> branch_taken_ex
      /\ R[13].if <=> jump_taken_id(i)
      /\ R[14].if
  BY DEF Requests
<1>4. /\ R[1].is = "nmi" /\ R[2].is = "debug" /\ R[3].is = "irq" /\ R[4].is = "sync_debug"
      /\ R[5].is = "exception" /\ R[6].is = "sleep" /\ R[7].is = "fence" /\ R[8].is = "fence_done"
      /\ R[9].is = "dret" /\ R[10].is = "csr_write" /\ R[11].is = "csr_flush" /\ R[12].is = "branch"
      /\ R[13].is = "jump" /\ R[14].is = "none"
  BY DEF Requests
<1> HIDE DEF R
<1>5. PICK n \in 1 .. 14 : R[n].if /\ \A m \in 1 .. (n - 1) : ~R[m].if
  BY <1>3
<1>6. Decision(i) = R[n].is
  BY <1>2, <1>5
<1> QED BY <1>3, <1>4, <1>5, <1>6 DEF Chosen

\* A cycle's inputs, decision, kills and halts.
LEMMA CycleParts ==
  ASSUME NEW c \in Cycles
  PROVE  /\ c.i \in Inputs /\ c.d = Decision(c.i)
         /\ c.kill = kill(c.d) /\ c.halt = halt(c.i, c.d)
BY DEF Cycles

\* What the inputs may be.
LEMMA InputParts ==
  ASSUME NEW i \in Inputs
  PROVE  /\ i.debug_req \in BOOLEAN /\ i.irq \in BOOLEAN /\ i.ready \in BOOLEAN
         /\ i.fetched \in BOOLEAN /\ i.hazard \in BOOLEAN
         /\ i.answer \in {"none", "fault", "ok", "err", "posted"}
         /\ i.drain \in {"none", "ok", "err"}
         /\ i.answer = "posted" => buffered < DEPTH
         /\ i.drain # "none" => buffered > 0
         /\ ~IsAccess(wb) => i.answer = "none"
         /\ Is(wb, "dcsr") => i.dcsr \in Dcsrs
         /\ i.dcsr \in Dcsrs \cup {NoDcsr}
BY DEF Inputs, Bit, Answers, Errors, Drains

\* The decision in each state of the FSM.
LEMMA Decided ==
  ASSUME NEW c \in Cycles
  PROVE  /\ fsm = "RESET" => c.d \in {"boot", "boot_debug"}
         /\ fsm = "SLEEP" => c.d = IF wake_from_sleep(c.i) THEN "wake" ELSE "asleep"
         /\ fsm = "DEBUG_TAKEN" => c.d = "enter_debug"
         /\ fsm = "FUNCTIONAL" => c.d = Chosen(c.i)
<1>1. c.d = Decision(c.i)
  BY CycleParts
<1>2. fsm = "FUNCTIONAL" => c.d = Chosen(c.i)
  BY <1>1, DecisionIs
<1>3. fsm \in {"RESET", "SLEEP", "DEBUG_TAKEN"} =>
        /\ fsm = "RESET" => c.d \in {"boot", "boot_debug"}
        /\ fsm = "SLEEP" => c.d = IF wake_from_sleep(c.i) THEN "wake" ELSE "asleep"
        /\ fsm = "DEBUG_TAKEN" => c.d = "enter_debug"
  BY <1>1 DEF Decision
<1> QED BY <1>2, <1>3

-----------------------------------------------------------------------------
(* Decisions and what they kill and halt.                                  *)

\* Four classes of decisions: the pipeline is emptied, WB is held, only WB goes
\* on, or instructions flow.
Clearing == {"nmi", "irq", "exception", "fence_done", "dret", "csr_flush", "enter_debug"}
Holding  == {"boot", "boot_debug", "debug", "sync_debug", "fence", "sleep", "asleep"}
Retiring == {"csr_write", "wake"}
Flowing  == {"branch", "jump", "none"}

\* There are no others.
LEMMA Classes ==
  ASSUME TypeInv, NEW c \in Cycles
  PROVE  c.d \in Clearing \cup Holding \cup Retiring \cup Flowing
BY Decided DEF TypeInv, Chosen, Clearing, Holding, Retiring, Flowing

\* What a cycle that empties the pipeline finds.
LEMMA ClearReasons ==
  ASSUME TypeInv, DebugInv, FlushInv, NEW c \in Cycles, c.d \in Clearing
  PROVE  /\ Answered(c.i)
         /\ c.d \in {"nmi", "irq"} => fsm = "FUNCTIONAL" /\ ~IsAccess(wb) /\ ~q.seq_wb /\ ~dm
                /\ ~StepBlocks(regs)
         /\ c.d = "irq" => IrqEnabled(regs)
         /\ c.d = "exception" => fsm = "FUNCTIONAL" /\ wb # Bubble /\ exception_in_wb(c.i)
         /\ c.d = "fence_done" => fsm = "FUNCTIONAL" /\ wb.kind \in {"fence", "fencei"}
         /\ c.d = "dret" => fsm = "FUNCTIONAL" /\ wb.kind = "dret"
         /\ c.d = "csr_flush" => fsm = "FUNCTIONAL" /\ q.csr_flush_ack /\ wb = Bubble /\ ~q.seq_wb
         /\ c.d = "enter_debug" => fsm = "DEBUG_TAKEN"
<1>1. /\ fsm \in {"RESET", "FUNCTIONAL", "SLEEP", "DEBUG_TAKEN"}
      /\ c.d \in {"nmi", "irq", "exception", "fence_done", "dret", "csr_flush"}
             => fsm = "FUNCTIONAL"
      /\ c.d = "enter_debug" => fsm = "DEBUG_TAKEN"
      /\ fsm = "FUNCTIONAL" => c.d = Chosen(c.i)
  BY Decided DEF TypeInv, Chosen
<1>2. c.d \in {"nmi", "irq"} => Quiescent /\ debug_interruptible
          /\ (c.d = "irq" => IrqEnabled(regs))
  BY <1>1 DEF Chosen, nmi_allowed, interrupt_allowed, pending_interrupt
<1>3. c.d \in {"nmi", "irq"} => fsm = "FUNCTIONAL" /\ ~IsAccess(wb) /\ ~q.seq_wb /\ ~dm
          /\ ~StepBlocks(regs)
  BY <1>1, <1>2 DEF Quiescent, lsu_interruptible, debug_interruptible, sequence_interruptible
<1>4. c.d = "exception" => exception_in_wb(c.i)
  BY <1>1 DEF Chosen
<1>5. c.d = "exception" => wb # Bubble /\ Answered(c.i)
  BY <1>4 DEF exception_in_wb, Bubble, IsAccess, Answered, Is, IsLoad
<1>6. c.d = "fence_done" => wb.kind \in {"fence", "fencei"}
  BY <1>1 DEF Chosen, fence_in_wb
<1>7. c.d = "dret" => wb.kind = "dret"
  BY <1>1 DEF Chosen, Is
<1>8. c.d = "csr_flush" => q.csr_flush_ack
  BY <1>1 DEF Chosen
<1>9. c.d = "csr_flush" => wb = Bubble /\ ~q.seq_wb
  BY <1>8 DEF FlushInv
<1>10. c.d = "enter_debug" => ~IsAccess(wb)
  BY <1>1 DEF DebugInv
<1>11. c.d \in {"fence_done", "dret", "csr_flush"} => ~IsAccess(wb)
  BY <1>6, <1>7, <1>9 DEF IsAccess, IsLoad, Bubble
<1>12. Answered(c.i)
  BY <1>3, <1>5, <1>10, <1>11 DEF Answered, Clearing
<1> QED BY <1>1, <1>2, <1>3, <1>4, <1>5, <1>6, <1>7, <1>8, <1>9, <1>12

\* The stages a decision kills.
LEMMA Kills ==
  ASSUME TypeInv, NEW c \in Cycles
  PROVE  /\ c.d \in {"nmi", "irq"} => c.kill = Stages
         /\ c.d \in {"exception", "fence_done", "dret", "csr_flush"} => c.kill = {"if", "id", "ex"}
         /\ c.d = "enter_debug" =>
              c.kill = CASE cause = "step" -> {"if"}
                         [] cause \in {"ebreak", "trigger"} -> {"if", "id", "ex"}
                         [] OTHER -> Stages
         /\ c.d = "branch" => c.kill = IF hard THEN {"if"} ELSE {"if", "id"}
         /\ c.d = "jump" => c.kill = {"if"}
         /\ c.d \in Holding \cup Retiring \cup {"none"} => c.kill = {}
BY CycleParts DEF kill, Flush, Holding, Retiring, Stages

\* The stages a decision halts.
LEMMA Halts ==
  ASSUME TypeInv, NEW c \in Cycles
  PROVE  /\ c.d \in {"debug", "sync_debug", "fence"} => c.halt = Stages
         /\ c.d \in {"sleep", "asleep"} => "wb" \in c.halt
         /\ c.d \in Clearing \cup Retiring \cup Flowing => "wb" \notin c.halt
         /\ c.d = "csr_write" => {"if", "id", "ex"} \subseteq c.halt
         /\ c.d = "wake" => "id" \in c.halt
         /\ (c.d \in Flowing /\ (stall_id(c.i) \/ event_halts_id(c.i))) => "id" \in c.halt
         /\ q.step_halt_if => "if" \in c.halt
BY CycleParts DEF halt, Flush, Clearing, Holding, Retiring, Flowing, Stages

\* What the flags are after a cycle, one by one.
LEMMA NextFlags ==
  ASSUME NEW c \in Cycles, Cycle(c)
  PROVE  /\ q'.branch_taken = branch_taken_n(c) /\ q'.jump_taken = jump_taken_n(c)
         /\ q'.step_halt_if = single_step_halt_if_n(c) /\ q'.csr_flush_ack = (c.d = "csr_write")
         /\ q'.seq_wb = sequence_in_progress_wb(c) /\ q'.seq_id = sequence_in_progress_id(c)
         /\ q'.ex_last = (IF id_ex(c) THEN last_op(IdToEx) ELSE q.ex_last)
         /\ q'.blanking = IsAccess(wb)
         /\ q'.fence_req = fence_req_n(c) /\ q'.fencei_ack = fencei_flush_req
         /\ q'.woke_debug = (fsm = "SLEEP" /\ c.i.debug_req /\ ~nmi)
         /\ q'.woke_irq = (fsm = "SLEEP" /\ c.i.irq /\ ~(nmi \/ c.i.debug_req))
BY DEF Cycle, flags_n

\* What a cycle that empties the pipeline leaves.
LEMMA ClearStep ==
  ASSUME PipelineInv, NEW c \in Cycles, Cycle(c), c.d \in Clearing
  PROVE  /\ wb' = Bubble /\ ex' = Bubble /\ id' = Bubble /\ sub' = 0
         /\ fetch'.pc = branch_addr(c) /\ fetch'.op = 1 /\ fetch'.u = fetch_priv_lvl(c)
         /\ ~q'.seq_wb /\ ~q'.csr_flush_ack /\ ~stale'
         /\ ~id_ex(c) /\ ~ex_wb(c) /\ ~if_id(c)
         /\ q'.ex_last = q.ex_last
         /\ q'.branch_taken => q.branch_taken /\ c.d = "enter_debug" /\ cause = "step"
         /\ q'.jump_taken => q.jump_taken /\ c.d = "enter_debug" /\ cause = "step"
<1> USE DEF PipelineInv
<1>1. /\ Answered(c.i) /\ "if" \in c.kill /\ "wb" \notin c.halt
      /\ ~("id" \in c.kill /\ "ex" \in c.kill) =>
            c.d = "enter_debug" /\ cause = "step" /\ wb = Bubble /\ ex = Bubble /\ id = Bubble
  BY ClearReasons, Kills, Halts DEF Clearing, DebugInv, Stages
<1>2. ~id_ex(c) /\ ~ex_wb(c) /\ ~if_id(c)
  BY <1>1 DEF id_ex, id_valid, ex_wb, ex_valid, if_id, if_valid, stopped
<1>3. wb_ready(c)
  BY <1>1 DEF wb_ready
<1>4. wb' = Bubble
  BY <1>2, <1>3 DEF Cycle, Advance
<1>5. ex' = Bubble
  <2>1. "ex" \in c.kill \/ ex = Bubble
    BY <1>1
  <2>2. "ex" \in c.kill => ex_ready(c)
    BY DEF ex_ready
  <2> QED BY <2>1, <2>2, <1>2 DEF Cycle, Advance
<1>6. id' = Bubble
  <2>1. "id" \in c.kill \/ id = Bubble
    BY <1>1
  <2>2. "id" \in c.kill => id_ready(c)
    BY DEF id_ready
  <2> QED BY <2>1, <2>2, <1>2 DEF Cycle, Advance
<1>7. sub' = 0
  <2>1. "id" \in c.kill \/ sub = 0
    BY <1>1 DEF SubInv, TypeInv
  <2> QED BY <2>1, <1>2 DEF Cycle, multi_op_cnt_n
<1>8. pc_set(c)
  BY DEF pc_set, Clearing
<1>9. fetch'.pc = branch_addr(c) /\ fetch'.op = 1 /\ fetch'.u = fetch_priv_lvl(c)
  BY <1>2, <1>8 DEF Cycle, fetch_n
<1>10. ~stale'
  BY <1>5, <1>6, <1>8 DEF Cycle
<1>11. ~q'.csr_flush_ack
  BY NextFlags DEF Clearing
<1>12. q'.ex_last = q.ex_last
  BY <1>2, NextFlags
<1>13. /\ q'.branch_taken => q.branch_taken /\ c.d = "enter_debug" /\ cause = "step"
       /\ q'.jump_taken => q.jump_taken /\ c.d = "enter_debug" /\ cause = "step"
  BY <1>1, NextFlags DEF branch_taken_n, jump_taken_n, Clearing
<1>14. ~q'.seq_wb
  <2>1. q'.seq_wb = InSequence(q.seq_wb, wb, wb_valid(c), abort_op(c.i))
    BY NextFlags DEF sequence_in_progress_wb
  <2>2. CASE wb = Bubble \/ "wb" \in c.kill
    <3>1. ~wb_valid(c)
      BY <2>2 DEF wb_valid, stopped
    <3>2. ~q.seq_wb
      BY <2>2, ClearReasons, Kills, Halts DEF Clearing, DebugInv, Bubble, Stages
    <3> QED BY <2>1, <3>1, <3>2 DEF InSequence
  <2>3. CASE wb # Bubble /\ "wb" \notin c.kill
    <3>1. wb_valid(c)
      BY <2>3, <1>1 DEF wb_valid, stopped
    <3>2. \/ wb.kind \in {"fault", "ecall", "ebreak", "fence", "fencei", "dret", "trigger"}
          \/ IsAccess(wb) /\ c.i.answer = "fault"
      <4>1. c.d \in {"exception", "fence_done", "dret"}
                \/ (c.d = "enter_debug" /\ cause \in {"ebreak", "trigger"})
        BY <2>3, ClearReasons, Kills, Halts DEF Clearing, DebugInv, Stages, TypeInv
      <4> QED BY <4>1, ClearReasons DEF DebugInv, exception_in_wb, Is
    <3>3. last_op(wb) \/ abort_op(c.i)
      <4>1. wb.kind \in {"fault", "ecall", "ebreak", "fence", "fencei", "dret", "trigger"}
                => Ops(wb.kind) = 1
        BY DEF Ops, Hardened
      <4>2. wb.op \in {1, 2} /\ wb.op <= Ops(wb.kind)
        BY <2>3 DEF TypeInv, Item, DecodeInv
      <4> QED BY <3>2, <4>1, <4>2 DEF last_op, abort_op
    <3>4. q.seq_wb => ~sequence_in_progress_wb(c)
      BY <3>1, <3>3 DEF sequence_in_progress_wb, InSequence
    <3>5. ~q.seq_wb => ~sequence_in_progress_wb(c)
      BY <3>1, <3>3 DEF sequence_in_progress_wb, InSequence
    <3> QED BY <3>4, <3>5, NextFlags
  <2> QED BY <2>2, <2>3
<1> QED BY <1>2, <1>4, <1>5, <1>6, <1>7, <1>9, <1>10, <1>11, <1>12, <1>13, <1>14

\* What a cycle that holds WB leaves as it was.
LEMMA HoldStep ==
  ASSUME PipelineInv, NEW c \in Cycles, Cycle(c), c.d \in Holding
  PROVE  /\ wb' = wb /\ ex' = ex /\ id' = id /\ sub' = sub
         /\ fetch'.pc = fetch.pc /\ fetch'.op = fetch.op /\ fetch'.u = fetch.u
         /\ regs' = regs /\ dm' = dm /\ ~wb_valid(c) /\ ~id_ex(c) /\ ~ex_wb(c) /\ ~if_id(c)
         /\ q'.branch_taken = q.branch_taken /\ q'.jump_taken = q.jump_taken
         /\ q'.step_halt_if = q.step_halt_if /\ ~q'.csr_flush_ack
         /\ q'.seq_wb = q.seq_wb /\ q'.ex_last = q.ex_last
         /\ stale' => stale
<1> USE DEF PipelineInv
<1>1. c.kill = {}
  BY Kills, Halts
<1>2. c.d \notin {"boot", "boot_debug"} => "wb" \in c.halt
  BY Kills, Halts DEF Holding, Stages
<1>3. c.d \in {"boot", "boot_debug"} => fsm = "RESET"
  BY Decided DEF TypeInv, Chosen
<1>4. fsm = "RESET" => wb = Bubble /\ ex = Bubble /\ id = Bubble /\ fetch.pc = BOOT /\ fetch.op = 1
          /\ sub = 0
  BY DEF ResetInv
<1>5. ~wb_valid(c)
  BY <1>2, <1>3, <1>4 DEF wb_valid, stopped
<1>6. c.d \notin {"boot", "boot_debug"} => ~wb_ready(c) /\ ~ex_ready(c) /\ ~id_ready(c)
  BY <1>1, <1>2 DEF wb_ready, ex_ready, id_ready
<1>7. ~id_ex(c) /\ ~ex_wb(c)
  BY <1>3, <1>4, <1>6 DEF id_ex, ex_wb, id_valid, ex_valid
<1>8. ~if_id(c)
  <2>1. fsm = "RESET" => ~fetch.ok
    BY DEF ResetInv
  <2> QED BY <1>3, <1>6, <2>1 DEF if_id, if_valid
<1>9. wb' = wb /\ ex' = ex /\ id' = id /\ sub' = sub
  <2>1. CASE c.d \in {"boot", "boot_debug"}
    BY <2>1, <1>1, <1>3, <1>4, <1>7, <1>8 DEF Cycle, Advance, multi_op_cnt_n
  <2>2. CASE c.d \notin {"boot", "boot_debug"}
    BY <2>2, <1>1, <1>6, <1>7, <1>8 DEF Cycle, Advance, multi_op_cnt_n
  <2> QED BY <2>1, <2>2
<1>10. regs' = regs /\ ~csr_save_cause(c) /\ ~csr_restore_mret(c) /\ c.d # "dret"
  BY <1>5 DEF Cycle, registers, csr_save_cause, csr_restore_mret, Holding
<1>11. fetch'.u = fetch.u
  BY <1>1, <1>10 DEF Cycle, fetch_n, fetch_priv_lvl, mret_jump_id, mret_killed, Holding
<1>12. fetch'.pc = fetch.pc /\ fetch'.op = fetch.op
  <2>1. CASE c.d \in {"boot", "boot_debug"}
    BY <2>1, <1>3, <1>4, <1>8 DEF Cycle, fetch_n, pc_set, branch_addr
  <2>2. CASE c.d \notin {"boot", "boot_debug"}
    <3>1. ~pc_set(c)
      BY <2>2 DEF pc_set, Holding
    <3> QED BY <3>1, <1>8 DEF Cycle, fetch_n
  <2> QED BY <2>1, <2>2
<1>13. dm' = dm
  BY DEF Cycle, Holding, TypeInv
<1>14. /\ q'.branch_taken = q.branch_taken /\ q'.jump_taken = q.jump_taken
       /\ ~q'.csr_flush_ack /\ q'.ex_last = q.ex_last
  BY <1>1, <1>7, <1>8, NextFlags DEF branch_taken_n, jump_taken_n, Holding, TypeInv, Flags
<1>15. q'.step_halt_if = q.step_halt_if
  BY <1>8, NextFlags DEF single_step_halt_if_n, Holding, TypeInv, Flags
<1>16. q'.seq_wb = q.seq_wb
  BY <1>5, NextFlags DEF sequence_in_progress_wb, InSequence, TypeInv, Flags
<1>17. stale' => stale
  BY <1>5 DEF Cycle
<1> QED BY <1>5, <1>7, <1>8, <1>9, <1>10, <1>11, <1>12, <1>13, <1>14, <1>15, <1>16, <1>17

\* A cycle in which only WB goes on.
LEMMA RetireStep ==
  ASSUME PipelineInv, NEW c \in Cycles, Cycle(c), c.d \in Retiring
  PROVE  /\ fsm = IF c.d = "wake" THEN "SLEEP" ELSE "FUNCTIONAL"
         /\ wb.kind = IF c.d = "wake" THEN "wfi" ELSE "pmp"
         /\ wb_valid(c) /\ wb' = Bubble /\ ex' = ex /\ id' = id /\ sub' = sub
         /\ fetch'.pc = fetch.pc /\ fetch'.op = fetch.op /\ fetch'.u = fetch.u
         /\ regs' = regs /\ dm' = dm /\ ~id_ex(c) /\ ~ex_wb(c) /\ ~if_id(c)
         /\ q'.branch_taken = q.branch_taken /\ q'.jump_taken = q.jump_taken
         /\ q'.step_halt_if = q.step_halt_if
         /\ q'.ex_last = q.ex_last /\ last_op(wb) /\ ~q'.seq_wb
<1> USE DEF PipelineInv
<1>1. c.kill = {} /\ "wb" \notin c.halt
  BY Kills, Halts
<1>2. fsm = IF c.d = "wake" THEN "SLEEP" ELSE "FUNCTIONAL"
  BY Decided DEF TypeInv, Chosen, Retiring
<1>3. wb.kind = IF c.d = "wake" THEN "wfi" ELSE "pmp"
  BY <1>2, Decided DEF Chosen, Is, SleepInv, Retiring
<1>4. wb_valid(c) /\ wb_ready(c)
  BY <1>1, <1>3 DEF wb_valid, wb_ready, stopped, Answered, IsAccess, IsLoad, Bubble
<1>5. c.d = "wake" => ex = Bubble
  BY <1>3 DEF SleepInv, Is
<1>6. ~ex_wb(c)
  BY <1>5, Kills, Halts DEF Retiring, ex_wb, ex_valid, stopped
<1>7. ~id_ex(c) /\ ~id_ready(c)
  BY <1>1, Kills, Halts DEF Retiring, id_ex, id_valid, stopped, id_ready
<1>8. ~if_id(c)
  BY <1>7 DEF if_id
<1>9. c.d = "csr_write" => ~ex_ready(c)
  BY <1>1, Kills, Halts DEF ex_ready
<1>10. wb' = Bubble /\ ex' = ex /\ id' = id /\ sub' = sub
  BY <1>1, <1>4, <1>5, <1>6, <1>7, <1>8, <1>9 DEF Cycle, Advance, multi_op_cnt_n, Retiring
<1>11. regs' = regs /\ ~csr_save_cause(c) /\ ~csr_restore_mret(c) /\ c.d # "dret"
  BY <1>3 DEF Cycle, registers, csr_save_cause, csr_restore_mret, Retiring, Written, Csrs, Is
<1>12. fetch'.u = fetch.u
  BY <1>1, <1>11 DEF Cycle, fetch_n, fetch_priv_lvl, mret_jump_id, mret_killed, Retiring
<1>13. ~pc_set(c)
  BY DEF pc_set, Retiring
<1>14. fetch'.pc = fetch.pc /\ fetch'.op = fetch.op
  BY <1>8, <1>13 DEF Cycle, fetch_n
<1>15. dm' = dm
  BY DEF Cycle, Retiring, TypeInv
<1>16. /\ q'.branch_taken = q.branch_taken /\ q'.jump_taken = q.jump_taken
       /\ q'.ex_last = q.ex_last
  BY <1>1, <1>7, <1>8, NextFlags DEF branch_taken_n, jump_taken_n, Retiring, TypeInv, Flags
<1>17. q'.step_halt_if = q.step_halt_if
  BY <1>8, NextFlags DEF single_step_halt_if_n, Retiring, TypeInv, Flags
<1>18. last_op(wb)
  <2>1. wb # Bubble /\ Ops(wb.kind) = 1
    BY <1>3 DEF Bubble, Ops, Hardened
  <2> QED BY <2>1 DEF DecodeInv, TypeInv, Item, last_op
<1>19. ~q'.seq_wb
  BY <1>4, <1>18, NextFlags DEF sequence_in_progress_wb, InSequence
<1> QED BY <1>2, <1>3, <1>4, <1>6, <1>7, <1>8, <1>10, <1>11, <1>12, <1>14, <1>15, <1>16, <1>17,
   <1>18, <1>19

-----------------------------------------------------------------------------
(* Cycles in which instructions flow.                                      *)

\* A branch kills ID, unless it is split.
IdKilled(c) == c.d = "branch" /\ ~hard

\* What a cycle in which instructions flow finds.
LEMMA FlowReasons ==
  ASSUME PipelineInv, NEW c \in Cycles, c.d \in Flowing
  PROVE  /\ fsm = "FUNCTIONAL" /\ c.d = Chosen(c.i)
         /\ wb = Bubble \/ wb.kind \in {"alu", "taken", "untaken", "jump", "mret", "pop", "epc",
                "ie", "dcsr", "load", "store"}
         /\ IsAccess(wb) => c.i.answer # "fault"
         /\ ~abort_op(c.i) /\ ~Is(wb, "wfi") /\ ~Is(wb, "dret") /\ ~q.csr_flush_ack
         /\ c.d = "branch" => Is(ex, "taken") /\ ~q.branch_taken
         /\ c.d # "branch" => BranchKnown
         /\ c.d = "jump" => jump_taken_id(c.i)
         /\ c.d = "none" => ~jump_taken_id(c.i)
<1>1. fsm = "FUNCTIONAL"
  BY Decided DEF PipelineInv, TypeInv, Flowing
<1>2. c.d = Chosen(c.i)
  BY <1>1, Decided
<1>3. ~exception_in_wb(c.i) /\ ~pending_sync_debug /\ ~fence_in_wb /\ ~Is(wb, "wfi")
          /\ ~Is(wb, "dret") /\ ~Is(wb, "pmp") /\ ~q.csr_flush_ack
  BY <1>2 DEF Chosen, Flowing
<1>4. wb = Bubble \/ wb.kind \in {"alu", "taken", "untaken", "jump", "mret", "pop", "epc", "ie",
          "dcsr", "load", "store"}
  BY <1>3 DEF PipelineInv, TypeInv, Item, Kinds, Csrs, Accesses, exception_in_wb,
     pending_sync_debug, fence_in_wb, Is
<1>5. (IsAccess(wb) => c.i.answer # "fault") /\ ~abort_op(c.i)
  BY <1>3, <1>4 DEF exception_in_wb, abort_op, Nop, Bubble
<1>6. /\ c.d = "branch" => branch_taken_ex
      /\ c.d # "branch" => ~branch_taken_ex
      /\ c.d = "jump" => jump_taken_id(c.i)
      /\ c.d = "none" => ~jump_taken_id(c.i)
  BY <1>2 DEF Chosen, Flowing
<1>7. /\ c.d = "branch" => Is(ex, "taken") /\ ~q.branch_taken
      /\ c.d # "branch" => BranchKnown
  BY <1>6 DEF branch_taken_ex, BranchKnown
<1> QED BY <1>1, <1>2, <1>3, <1>4, <1>5, <1>6, <1>7

\* Which stages are ready then, and which handshakes follow.
LEMMA FlowReady ==
  ASSUME PipelineInv, NEW c \in Cycles, c.d \in Flowing
  PROVE  /\ wb_ready(c) <=> Answered(c.i)
         /\ wb_valid(c) <=> wb # Bubble /\ Answered(c.i)
         /\ ex_ready(c) => wb_ready(c)
         /\ ex_wb(c) <=> ex # Bubble /\ ex_ready(c)
         /\ id_ex(c) => id # Bubble /\ ex_ready(c) /\ ~IdKilled(c) /\ "id" \notin c.halt
         /\ id_ready(c) => IdKilled(c) \/ (ex_ready(c) /\ (id # Bubble => id_ex(c) /\ last_sec_op))
         /\ (id_ex(c) /\ last_sec_op) => id_ready(c)
         /\ (IdKilled(c) \/ id = Bubble) => ~id_ex(c)
         /\ IdKilled(c) => id_ready(c)
         /\ if_id(c) => c.d = "none" /\ id_ready(c) /\ ~q.step_halt_if
         /\ "id" \in c.kill <=> IdKilled(c)
         /\ "ex" \notin c.kill /\ "wb" \notin c.kill
<1>1. /\ "wb" \notin c.kill /\ "wb" \notin c.halt /\ "ex" \notin c.kill
      /\ "id" \in c.kill <=> IdKilled(c)
      /\ c.d # "none" => "if" \in c.kill
      /\ q.step_halt_if => "if" \in c.halt
  BY Kills, Halts DEF Flowing, IdKilled, PipelineInv, TypeInv
<1>2. /\ wb_ready(c) <=> Answered(c.i)
      /\ wb_valid(c) <=> wb # Bubble /\ Answered(c.i)
  BY <1>1 DEF wb_ready, wb_valid, stopped
<1>3. /\ ex_ready(c) => wb_ready(c)
      /\ ex_wb(c) <=> ex # Bubble /\ ex_ready(c)
  BY <1>1 DEF ex_ready, ex_wb, ex_valid, stopped
<1>4. /\ id_ex(c) => id # Bubble /\ ex_ready(c) /\ ~IdKilled(c) /\ "id" \notin c.halt
      /\ (IdKilled(c) \/ id = Bubble) => ~id_ex(c)
  BY <1>1 DEF id_ex, id_valid, stopped
<1>5. /\ id_ready(c) => IdKilled(c) \/ (ex_ready(c) /\ (id # Bubble => id_ex(c) /\ last_sec_op))
      /\ (id_ex(c) /\ last_sec_op) => id_ready(c)
      /\ IdKilled(c) => id_ready(c)
  BY <1>1 DEF id_ready, id_ex, id_valid, stopped, multi_op_id_stall
<1>6. if_id(c) => c.d = "none" /\ id_ready(c) /\ ~q.step_halt_if
  BY <1>1 DEF if_id, if_valid, stopped
<1> QED BY <1>1, <1>2, <1>3, <1>4, <1>5, <1>6

\* The next state of the stages when instructions flow.
LEMMA FlowMoves ==
  ASSUME PipelineInv, NEW c \in Cycles, Cycle(c), c.d \in Flowing
  PROVE  /\ wb' = IF ex_wb(c) THEN ExToWb ELSE IF wb_ready(c) THEN Bubble ELSE wb
         /\ ex' = IF id_ex(c) THEN IdToEx ELSE IF ex_ready(c) THEN Bubble ELSE ex
         /\ id' = IF if_id(c) THEN IfToId ELSE IF id_ready(c) THEN Bubble ELSE id
         /\ sub' = IF IdKilled(c) THEN 0 ELSE IF id_ex(c) THEN (IF last_sec_op THEN 0 ELSE 1)
                ELSE sub
         /\ fetch'.pc = (CASE c.d = "branch" -> Target[ex.pc]
                           [] c.d = "jump" -> (IF IdKind = "mret" THEN regs.mepc ELSE Target[id.pc])
                           [] OTHER -> (IF if_id(c) /\ Last_if THEN Succ[fetch.pc] ELSE fetch.pc))
         /\ fetch'.op = (IF c.d = "none" /\ ~if_id(c) THEN fetch.op
                         ELSE IF if_id(c) /\ ~Last_if THEN 2 ELSE 1)
         /\ q'.branch_taken = (c.d = "branch" \/ (q.branch_taken /\ ~(id_ex(c) /\ q.ex_last)))
         /\ q'.jump_taken = (c.d = "jump" \/ (q.jump_taken /\ ~if_id(c) /\ ~IdKilled(c)))
         /\ q'.ex_last = (IF id_ex(c) THEN last_op(IdToEx) ELSE q.ex_last)
         /\ ~q'.csr_flush_ack
         /\ dm' = dm
<1> USE DEF PipelineInv
<1>1. /\ wb' = IF ex_wb(c) THEN ExToWb ELSE IF wb_ready(c) THEN Bubble ELSE wb
      /\ ex' = IF id_ex(c) THEN IdToEx ELSE IF ex_ready(c) THEN Bubble ELSE ex
      /\ id' = IF if_id(c) THEN IfToId ELSE IF id_ready(c) THEN Bubble ELSE id
      /\ sub' = multi_op_cnt_n(c)
      /\ fetch' = fetch_n(c)
      /\ dm' = (c.d = "enter_debug" \/ (dm /\ c.d # "dret"))
  BY DEF Cycle, Advance
<1>2. sub' = IF IdKilled(c) THEN 0 ELSE IF id_ex(c) THEN (IF last_sec_op THEN 0 ELSE 1) ELSE sub
  <2>1. ~last_sec_op => sub = 0
    BY DEF last_sec_op, TypeInv
  <2> QED BY <1>1, <2>1, FlowReady DEF multi_op_cnt_n
<1>3. pc_set(c) <=> c.d # "none"
  BY DEF pc_set, Flowing
<1>4. if_id(c) => c.d = "none"
  BY FlowReady
<1>5. /\ fetch'.pc = (IF pc_set(c) THEN branch_addr(c)
                      ELSE IF if_id(c) /\ Last_if THEN Succ[fetch.pc] ELSE fetch.pc)
      /\ fetch'.op = (IF pc_set(c) THEN 1 ELSE IF if_id(c) /\ Last_if THEN 1
                      ELSE IF if_id(c) /\ ~Last_if THEN 2 ELSE fetch.op)
  BY <1>1, <1>3, <1>4 DEF fetch_n
<1>6. /\ c.d = "branch" => branch_addr(c) = Target[ex.pc]
      /\ c.d = "jump" => branch_addr(c) = (IF IdKind = "mret" THEN regs.mepc ELSE Target[id.pc])
  BY DEF branch_addr
<1>7.    /\ fetch'.pc = (CASE c.d = "branch" -> Target[ex.pc]
                           [] c.d = "jump" -> (IF IdKind = "mret" THEN regs.mepc ELSE Target[id.pc])
                           [] OTHER -> (IF if_id(c) /\ Last_if THEN Succ[fetch.pc] ELSE fetch.pc))
         /\ fetch'.op = (IF c.d = "none" /\ ~if_id(c) THEN fetch.op
                         ELSE IF if_id(c) /\ ~Last_if THEN 2 ELSE 1)
  BY <1>3, <1>4, <1>5, <1>6 DEF Flowing
<1>8. q'.branch_taken = (c.d = "branch" \/ (q.branch_taken /\ ~(id_ex(c) /\ q.ex_last)))
  BY FlowReady, FlowReasons, NextFlags DEF branch_taken_n
<1>9. q'.jump_taken = (c.d = "jump" \/ (q.jump_taken /\ ~if_id(c) /\ ~IdKilled(c)))
  BY FlowReady, <1>4, NextFlags DEF jump_taken_n, IdKilled
<1>10. q'.ex_last = (IF id_ex(c) THEN last_op(IdToEx) ELSE q.ex_last) /\ ~q'.csr_flush_ack
  BY NextFlags DEF Flowing
<1>11. dm' = dm
  BY <1>1 DEF Flowing, TypeInv
<1> HIDE DEF PipelineInv
<1> QED BY <1>1, <1>2, <1>7, <1>8, <1>9, <1>10, <1>11

-----------------------------------------------------------------------------
(* Types.                                                                  *)

\* Decoding gives a kind of instruction.
LEMMA DecodedType ==
  ASSUME NEW k \in Kinds, NEW u, NEW d, NEW s
  PROVE  Decoded(k, u, d, s) \in Kinds
BY DEF Decoded, Kinds, Csrs, Accesses

\* What goes from ID to EX.
LEMMA IdToExType ==
  ASSUME TypeInv, id # Bubble
  PROVE  /\ IdKind = Decoded(prog[id.pc], id.u, dm, regs.dcsr.step) /\ IdKind \in Kinds
         /\ IdToEx \in Item /\ IdToEx.kind = IdKind /\ IdToEx.pc = id.pc /\ IdToEx.u = id.u
         /\ IdToEx # Bubble
<1>1. id.pc \in Addrs /\ prog[id.pc] \in Kinds /\ id.u \in BOOLEAN /\ id.op \in {1, 2}
  BY DEF TypeInv, Fetched
<1>2. IdKind = Decoded(prog[id.pc], id.u, dm, regs.dcsr.step) /\ IdKind \in Kinds
  BY <1>1, DecodedType DEF IdKind
<1>3. IdToEx \in Item
  BY <1>1, <1>2 DEF IdToEx, Item, TypeInv
<1>4. IdToEx.kind = IdKind /\ IdToEx.pc = id.pc /\ IdToEx.u = id.u
  BY DEF IdToEx
<1>5. IdToEx # Bubble
  BY <1>2, <1>4 DEF Bubble, Kinds, Csrs, Accesses
<1> QED BY <1>2, <1>3, <1>4, <1>5

\* What goes from EX to WB.
LEMMA ExToWbType ==
  ASSUME TypeInv, ex # Bubble
  PROVE  /\ ExToWb \in Item /\ ExToWb # Bubble
         /\ ExToWb.kind = (IF IllegalCsr(ex.kind, ex.u, dm) THEN "fault" ELSE ex.kind)
         /\ ExToWb.pc = ex.pc /\ ExToWb.u = ex.u /\ ExToWb.op = ex.op
<1>1. ex \in Item
  BY DEF TypeInv
<1>2. /\ ExToWb \in Item
      /\ ExToWb.kind = (IF IllegalCsr(ex.kind, ex.u, dm) THEN "fault" ELSE ex.kind)
      /\ ExToWb.pc = ex.pc /\ ExToWb.u = ex.u /\ ExToWb.op = ex.op
  BY <1>1 DEF ExToWb, Item, Kinds
<1>3. ExToWb # Bubble
  BY <1>2 DEF Item, Bubble, Kinds, Csrs, Accesses
<1> QED BY <1>2, <1>3

\* The addresses the pipeline works with.
LEMMA PcType ==
  ASSUME TypeInv
  PROVE  Behind \in Addrs /\ pipe_pc \in Addrs /\ dpc_n \in Addrs
BY DEF TypeInv, Behind, pipe_pc, dpc_n, Item, Fetched

\* The registers keep their types.
LEMMA RegistersType ==
  ASSUME TypeInv, NEW c \in Cycles
  PROVE  registers(c) \in RegisterFile
<1> USE HartParameters DEF TypeInv, RegisterFile
<1>1. Stopped(regs, dpc_n) \in RegisterFile
  BY PcType DEF Stopped
<1>2. Trapped(regs, pipe_pc) \in RegisterFile
  BY PcType DEF Trapped
<1>3. Resumed(regs) \in RegisterFile
  BY DEF Resumed
<1>4. Returned(regs) \in RegisterFile
  BY DEF Returned
<1>5. Written(regs, wb.kind, c.i.dcsr) \in RegisterFile
  <2>1. c.i.dcsr \in Dcsrs \cup {NoDcsr}
    BY CycleParts, InputParts
  <2> QED BY <2>1 DEF Written
<1> HIDE DEF RegisterFile
<1> QED BY <1>1, <1>2, <1>3, <1>4, <1>5 DEF registers

\* The flags stay Boolean.
LEMMA FlagsType ==
  ASSUME TypeInv, NEW c \in Cycles
  PROVE  flags_n(c) \in [Flags -> BOOLEAN]
<1>1. branch_taken_n(c) \in BOOLEAN /\ jump_taken_n(c) \in BOOLEAN
          /\ single_step_halt_if_n(c) \in BOOLEAN
  BY DEF branch_taken_n, jump_taken_n, single_step_halt_if_n
<1>2. sequence_in_progress_wb(c) \in BOOLEAN /\ sequence_in_progress_id(c) \in BOOLEAN
  BY DEF sequence_in_progress_wb, sequence_in_progress_id, InSequence
<1>3. fence_req_n(c) \in BOOLEAN /\ fencei_flush_req \in BOOLEAN
  BY DEF fence_req_n, fencei_flush_req, TypeInv, Flags
<1>4. last_op(IdToEx) \in BOOLEAN /\ q.ex_last \in BOOLEAN /\ IsAccess(wb) \in BOOLEAN
  BY DEF last_op, TypeInv, Flags, IsAccess, IsLoad
<1>5. \A f \in Flags : flags_n(c)[f] \in BOOLEAN
  <2>1. /\ flags_n(c).branch_taken \in BOOLEAN /\ flags_n(c).jump_taken \in BOOLEAN
        /\ flags_n(c).step_halt_if \in BOOLEAN /\ flags_n(c).csr_flush_ack \in BOOLEAN
        /\ flags_n(c).seq_wb \in BOOLEAN /\ flags_n(c).seq_id \in BOOLEAN
    BY <1>1, <1>2 DEF flags_n
  <2>2. /\ flags_n(c).ex_last \in BOOLEAN /\ flags_n(c).blanking \in BOOLEAN
        /\ flags_n(c).fence_req \in BOOLEAN /\ flags_n(c).fencei_ack \in BOOLEAN
    BY <1>3, <1>4 DEF flags_n
  <2>3. flags_n(c).woke_debug \in BOOLEAN /\ flags_n(c).woke_irq \in BOOLEAN
    BY DEF flags_n
  <2> QED BY <2>1, <2>2, <2>3 DEF Flags
<1>6. flags_n(c) = [f \in Flags |-> flags_n(c)[f]]
  BY DEF flags_n, Flags
<1> QED BY <1>5, <1>6

\* IF keeps its type.
LEMMA FetchType ==
  ASSUME TypeInv, NEW c \in Cycles
  PROVE  fetch_n(c) \in [pc : Addrs, op : {1, 2}, ok : BOOLEAN, u : BOOLEAN]
<1>1. c.i.fetched \in BOOLEAN
  BY CycleParts, InputParts
<1>2. fetch_priv_lvl(c) \in BOOLEAN
  <2>1. registers(c).u \in BOOLEAN /\ regs.mppu \in BOOLEAN /\ regs.u \in BOOLEAN
            /\ fetch.u \in BOOLEAN
    BY RegistersType DEF RegisterFile, TypeInv
  <2> QED BY <2>1 DEF fetch_priv_lvl
<1>3. pc_set(c) => branch_addr(c) \in Addrs
  <2>1. c.d = "branch" => Target[ex.pc] \in Addrs
    <3>1. c.d = "branch" => Is(ex, "taken")
      BY Decided DEF TypeInv, Chosen, branch_taken_ex
    <3> QED BY <3>1, HartParameters DEF Is, Bubble, TypeInv, Item
  <2>2. c.d = "jump" => (IF IdKind = "mret" THEN regs.mepc ELSE Target[id.pc]) \in Addrs
    <3>1. c.d = "jump" => id # Bubble
      BY Decided DEF TypeInv, Chosen, jump_taken_id, IdKind
    <3> QED BY <3>1, HartParameters DEF TypeInv, Fetched, RegisterFile
  <2>3. regs.dpc \in Addrs
    BY DEF TypeInv, RegisterFile
  <2> QED BY <2>1, <2>2, <2>3, PcType, HartParameters DEF pc_set, branch_addr
<1>4. fetch.pc \in Addrs /\ Succ[fetch.pc] \in Addrs /\ fetch.op \in {1, 2} /\ fetch.ok \in BOOLEAN
  BY HartParameters DEF TypeInv
<1> QED BY <1>1, <1>2, <1>3, <1>4 DEF fetch_n

\* A cycle keeps the types.
LEMMA TypeStep ==
  ASSUME TypeInv, DebugInv, FlushInv, NEW c \in Cycles, Cycle(c)
  PROVE  TypeInv'
<1>1. prog' \in [Addrs -> Kinds] /\ hard' \in BOOLEAN
  BY DEF TypeInv, Cycle
<1>2. fsm' \in {"RESET", "FUNCTIONAL", "SLEEP", "DEBUG_TAKEN"}
  BY DEF Cycle, ctrl_fsm_ns
<1>3. cause' \in {"none", "haltreq", "step", "ebreak", "trigger"}
  <2>1. c.d = "sync_debug" => wb.kind \in {"ebreak", "trigger"}
    BY Decided DEF TypeInv, Chosen, pending_sync_debug, Is
  <2> QED BY <2>1 DEF Cycle, debug_cause_n
<1>4. fetch' \in [pc : Addrs, op : {1, 2}, ok : BOOLEAN, u : BOOLEAN]
  BY FetchType DEF Cycle
<1>5. id' \in Fetched \cup {Bubble}
  <2>1. IfToId \in Fetched
    BY DEF IfToId, Fetched, TypeInv
  <2> QED BY <2>1 DEF Cycle, Advance, TypeInv
<1>6. ex' \in Item \cup {Bubble}
  <2>1. id_ex(c) => id # Bubble
    BY DEF id_ex, id_valid
  <2> QED BY <2>1, IdToExType DEF Cycle, Advance, TypeInv
<1>7. wb' \in Item \cup {Bubble}
  <2>1. ex_wb(c) => ex # Bubble
    BY DEF ex_wb, ex_valid
  <2> QED BY <2>1, ExToWbType DEF Cycle, Advance, TypeInv
<1>8. sub' \in {0, 1}
  BY DEF Cycle, multi_op_cnt_n, last_sec_op, TypeInv
<1>9. q' \in [Flags -> BOOLEAN]
  BY FlagsType DEF Cycle
<1>10. regs' \in RegisterFile
  BY RegistersType DEF Cycle
<1>11. dm' \in BOOLEAN /\ nmi' \in BOOLEAN /\ irq_q' \in BOOLEAN /\ asked' \in BOOLEAN
       /\ held' \in BOOLEAN
  BY CycleParts, InputParts DEF Cycle, TypeInv, bus_error
<1>12. buffered' \in 0 .. DEPTH
  <2>1. /\ buffered \in 0 .. 2
        /\ c.i.answer = "posted" => buffered < 2
        /\ c.i.drain # "none" => buffered > 0
    BY CycleParts, InputParts DEF TypeInv, DEPTH
  <2> QED BY <2>1 DEF Cycle, DEPTH
<1> QED BY <1>1, <1>2, <1>3, <1>4, <1>5, <1>6, <1>7, <1>8, <1>9, <1>10, <1>11, <1>12 DEF TypeInv

-----------------------------------------------------------------------------
(* Registers and decoding.                                                 *)

\* The registers when instructions flow: an mret or a CSR write retires, or they
\* stay.
LEMMA FlowRegs ==
  ASSUME PipelineInv, NEW c \in Cycles, Cycle(c), c.d \in Flowing
  PROVE  /\ regs' = registers(c)
         /\ regs' = (IF Returns(wb) /\ wb_valid(c) THEN Returned(regs)
                     ELSE IF wb.kind \in Csrs /\ wb_valid(c) THEN Written(regs, wb.kind, c.i.dcsr)
                     ELSE regs)
         /\ csr_restore_mret(c) <=> Returns(wb) /\ wb_valid(c)
         /\ ~csr_save_cause(c) /\ c.d # "dret"
<1>1. ~csr_save_cause(c) /\ c.d # "dret"
  BY DEF csr_save_cause, Flowing
<1>2. csr_restore_mret(c) <=> Returns(wb) /\ wb_valid(c)
  BY DEF csr_restore_mret, Returns
<1>3. Returns(wb) => wb.kind \notin Csrs
  BY DEF Returns, Is, Csrs
<1>4. regs' = registers(c)
  BY DEF Cycle
<1>5. registers(c) = (IF Returns(wb) /\ wb_valid(c) THEN Returned(regs)
                     ELSE IF wb.kind \in Csrs /\ wb_valid(c) THEN Written(regs, wb.kind, c.i.dcsr)
                     ELSE regs)
  BY <1>1, <1>2, <1>3 DEF registers
<1> QED BY <1>1, <1>2, <1>4, <1>5

\* The fields the stages depend on.
LEMMA FlowFields ==
  ASSUME PipelineInv, NEW c \in Cycles, Cycle(c), c.d \in Flowing
  PROVE  /\ regs'.mepc = regs.mepc \/ (wb.kind = "epc" /\ wb_valid(c))
         /\ regs'.u = (IF Returns(wb) /\ wb_valid(c) THEN regs.mppu ELSE regs.u)
         /\ ~(Returns(wb) /\ wb_valid(c)) => regs'.mppu = regs.mppu
         /\ dm \/ regs'.dcsr = regs.dcsr
         /\ ~wb_valid(c) => regs' = regs
<1> DEFINE W == Written(regs, wb.kind, c.i.dcsr)
<1>1. regs \in RegisterFile
  BY DEF PipelineInv, TypeInv
<1>2. /\ Returned(regs).mepc = regs.mepc /\ Returned(regs).u = regs.mppu
             /\ Returned(regs).dcsr = regs.dcsr
  BY <1>1 DEF Returned, RegisterFile
<1>3. /\ W.mepc = regs.mepc \/ wb.kind = "epc"
      /\ W.u = regs.u /\ W.mppu = regs.mppu
      /\ W.dcsr = regs.dcsr \/ wb.kind = "dcsr"
  BY <1>1 DEF Written, RegisterFile
<1>4. wb.kind = "dcsr" => dm
  BY DEF PipelineInv, DecodeInv, Executed, IllegalCsr, Bubble, Csrs
<1> HIDE DEF W
<1> QED BY <1>2, <1>3, <1>4, FlowRegs DEF W

\* The program and what decoding depends on stay, unless the pipeline is emptied.
Steady == /\ prog' = prog /\ hard' = hard /\ dm' = dm
          /\ dm \/ regs'.dcsr = regs.dcsr

\* So decoding stays.
LEMMA SteadyDecode ==
  ASSUME Steady, dm \in BOOLEAN, NEW k, NEW u
  PROVE  Decoded(k, u, dm', regs'.dcsr.step) = Decoded(k, u, dm, regs.dcsr.step)
BY DEF Steady, Decoded

\* And only an emptied pipeline has it otherwise.
LEMMA SteadyStep ==
  ASSUME PipelineInv, NEW c \in Cycles, Cycle(c), c.d \notin Clearing
  PROVE  Steady
<1>1. prog' = prog /\ hard' = hard
  BY DEF Cycle
<1>2. c.d \in Holding \/ c.d \in Retiring \/ c.d \in Flowing
  BY Classes DEF PipelineInv
<1>3. c.d \in Holding => dm' = dm /\ regs' = regs
  BY HoldStep
<1>4. c.d \in Retiring => dm' = dm /\ regs' = regs
  BY RetireStep
<1>5. c.d \in Flowing => dm' = dm /\ (dm \/ regs'.dcsr = regs.dcsr)
  BY FlowMoves, FlowFields
<1> QED BY <1>1, <1>2, <1>3, <1>4, <1>5 DEF Steady

\* The kind of the instruction in ID after the step.
LEMMA NextKind ==
  ASSUME TypeInv, Steady
  PROVE  /\ id' = id => IdKind' = IdKind
         /\ id' = Bubble => IdKind' = "bubble"
         /\ id' = IfToId =>
              /\ IdKind' = Decoded(prog[fetch.pc], fetch.u, dm, regs.dcsr.step)
              /\ id'.pc = fetch.pc /\ id'.u = fetch.u /\ id'.op = fetch.op /\ id' # Bubble
         /\ \A k : Hardened(k)' <=> Hardened(k)
         /\ \A k : Ops(k)' = Ops(k)
<1>1. dm \in BOOLEAN
  BY DEF TypeInv
<1>2. id' = id => IdKind' = IdKind
  BY <1>1, SteadyDecode DEF IdKind, Steady
<1>3. id' = Bubble => IdKind' = "bubble"
  BY DEF IdKind
<1>4. id' = IfToId => id'.pc = fetch.pc /\ id'.u = fetch.u /\ id'.op = fetch.op /\ id' # Bubble
  BY DEF IfToId, Bubble
<1>5. id' = IfToId => IdKind' = Decoded(prog[fetch.pc], fetch.u, dm, regs.dcsr.step)
  BY <1>1, <1>4, SteadyDecode DEF IdKind, Steady
<1>6. \A k : Hardened(k)' <=> Hardened(k)
  BY DEF Hardened, Steady
<1>7. \A k : Ops(k)' = Ops(k)
  BY <1>6 DEF Ops, Steady, Hardened
<1> QED BY <1>2, <1>3, <1>4, <1>5, <1>6, <1>7

\* A branch is taken in its turn: what is between it and WB waits.
LEMMA FlowBranch ==
  ASSUME PipelineInv, NEW c \in Cycles, c.d = "branch"
  PROVE  /\ ex # Bubble /\ Is(ex, "taken") /\ ~q.branch_taken
         /\ hard => /\ id # Bubble /\ IdKind = "taken" /\ sub = 1 /\ ex.pc = id.pc /\ ~last_op(ex)
                    /\ q.ex_last = FALSE
         /\ ~hard => last_op(ex) /\ q.ex_last = TRUE
<1> USE DEF PipelineInv
<1>1. Is(ex, "taken") /\ ~q.branch_taken
  BY FlowReasons DEF Flowing
<1>2. ex # Bubble /\ ex.op \in {1, 2} /\ ex.op <= Ops(ex.kind) /\ (q.ex_last <=> last_op(ex))
  BY <1>1 DEF Is, Bubble, TypeInv, Item, DecodeInv, BranchInv
<1>3. ASSUME hard
      PROVE  ~last_op(ex) /\ sub = 1
  <2>1. ex.op = 1 /\ Ops(ex.kind) = 2
    BY <1>1, <1>3 DEF BranchInv, Ops, Hardened, Is
  <2>2. ~last_op(ex)
    BY <2>1 DEF last_op
  <2>3. ex.kind # "pop"
    BY <1>1 DEF Is
  <2> QED BY <1>2, <2>2, <2>3 DEF SubInv, BeforeId
<1>4. hard => id # Bubble /\ IdKind = "taken" /\ ex.pc = id.pc
  BY <1>1, <1>2, <1>3 DEF SubInv, Is
<1>5. ~hard => last_op(ex)
  <2>1. ~hard => Ops(ex.kind) = 1
    BY <1>1 DEF Ops, Hardened, Is
  <2> QED BY <1>2, <2>1 DEF last_op
<1> QED BY <1>1, <1>2, <1>3, <1>4, <1>5

\* So is a jump or mret in ID.
LEMMA FlowJump ==
  ASSUME PipelineInv, NEW c \in Cycles, c.d = "jump"
  PROVE  /\ id # Bubble /\ IdKind \in {"jump", "mret"} /\ ~q.jump_taken /\ sub = 0
         /\ IdKind = "mret" => ~csr_write_in(ex) /\ ~csr_write_in(wb)
<1> USE DEF PipelineInv
<1>1. jump_taken_id(c.i)
  BY FlowReasons DEF Flowing
<1>2. IdKind \in {"jump", "mret"} /\ ~q.jump_taken /\ (IdKind = "mret" => ~csr_stall_id)
  BY <1>1 DEF jump_taken_id
<1>3. id # Bubble
  BY <1>2 DEF IdKind
<1>4. sub = 0
  BY <1>2 DEF SubInv, JumpKnown, TypeInv
<1>5. IdKind = "mret" => ~mret_self_stall
  <2>1. CASE hard
    <3>1. IdKind = "mret" => ~last_sec_op
      BY <2>1, <1>4 DEF last_sec_op, Hardened
    <3> QED BY <3>1 DEF mret_self_stall
  <2>2. CASE ~hard
    <3>1. \A x \in {ex, wb} : Is(x, "mret") => last_op(x)
      <4>1. Ops("mret") = 1
        BY <2>2 DEF Ops, Hardened
      <4>2. \A x \in {ex, wb} : Is(x, "mret") => x \in Item /\ x.op <= Ops("mret")
        BY DEF Is, DecodeInv, TypeInv, Bubble
      <4> QED BY <4>1, <4>2 DEF Item, last_op, Is
    <3> QED BY <3>1 DEF mret_self_stall
  <2> QED BY <2>1, <2>2
<1>6. IdKind = "mret" => ~csr_write_in(ex) /\ ~csr_write_in(wb)
  BY <1>2, <1>5 DEF csr_stall_id
<1> QED BY <1>2, <1>3, <1>4, <1>6

\* What leaves ID has been taken, if it is a jump or mret.
LEMMA FlowIssue ==
  ASSUME PipelineInv, NEW c \in Cycles, c.d \in Flowing, id_ex(c)
  PROVE  /\ IdKind \in {"jump", "mret"} => q.jump_taken \/ c.d = "jump"
         /\ IdKind = "mret" => \A x \in {ex, wb} : csr_write_in(x) => Is(x, "mret") /\ ~last_op(x)
         /\ ~Is(ex, "wfi")
         /\ BranchKnown \/ ~last_op(ex)
<1>1. "id" \notin c.halt /\ ~IdKilled(c)
  BY FlowReady
<1>2. ~stall_id(c.i)
  BY <1>1, Kills, Halts DEF PipelineInv
<1>3. ~jalr_stall(c.i) /\ ~csr_stall_id /\ ~Is(ex, "wfi")
  BY <1>2 DEF stall_id
<1>4. IdKind \in {"jump", "mret"} => q.jump_taken \/ c.d = "jump"
  <2>1. SUFFICES ASSUME IdKind \in {"jump", "mret"}, ~q.jump_taken
                 PROVE  c.d = "jump"
    OBVIOUS
  <2>2. jump_taken_id(c.i)
    BY <2>1, <1>3 DEF jump_taken_id
  <2>3. c.d # "branch"
    BY <2>1, <1>1, FlowBranch DEF IdKilled
  <2> QED BY <2>2, <2>3, FlowReasons DEF Flowing
<1>5. IdKind = "mret" => \A x \in {ex, wb} : csr_write_in(x) => Is(x, "mret") /\ ~last_op(x)
  BY <1>4, FlowJump DEF PipelineInv, MretInv
<1>6. BranchKnown \/ ~last_op(ex)
  BY <1>1, FlowReasons, FlowBranch DEF IdKilled
<1> QED BY <1>3, <1>4, <1>5, <1>6

\* The two ways instructions move: EX passes on what it has, or keeps it.
LEMMA FlowModes ==
  ASSUME PipelineInv, NEW c \in Cycles, Cycle(c), c.d \in Flowing
  PROVE  /\ ex_ready(c) =>
              /\ wb' = IF ex = Bubble THEN Bubble ELSE ExToWb
              /\ ex' = IF id_ex(c) THEN IdToEx ELSE Bubble
              /\ wb = Bubble \/ wb_valid(c)
         /\ ~ex_ready(c) =>
              /\ ex' = ex /\ ~id_ex(c) /\ ~ex_wb(c) /\ ~if_id(c)
              /\ wb' = (IF wb_valid(c) THEN Bubble ELSE wb)
         /\ Returns(wb) => wb_valid(c)
         /\ if_id(c) => /\ ex_ready(c) /\ c.d = "none" /\ id' = IfToId /\ sub' = 0 /\ ~q'.jump_taken
                        /\ id # Bubble => id_ex(c) /\ last_sec_op
                        /\ JumpKnown /\ BranchKnown
         /\ ~if_id(c) /\ id # Bubble =>
              id' = IF IdKilled(c) \/ (id_ex(c) /\ last_sec_op) THEN Bubble ELSE id
         /\ ~if_id(c) /\ id = Bubble => id' = Bubble
         /\ ~if_id(c) => (c.d = "none" => fetch'.pc = fetch.pc /\ fetch'.op = fetch.op)
         /\ ~id_ex(c) => (IF IdKilled(c) THEN sub' = 0 ELSE sub' = sub)
         /\ id_ex(c) => id # Bubble /\ ~IdKilled(c) /\ ex_ready(c)
                /\ sub' = (IF last_sec_op THEN 0 ELSE 1)
         /\ (id = Bubble /\ ~if_id(c)) => sub' = 0
         /\ id = Bubble => sub = 0
<1> USE DEF PipelineInv
<1>1. wb = Bubble => wb_ready(c)
  BY FlowReady DEF Answered, IsAccess, IsLoad, Bubble
<1>2. ex_ready(c) =>
              /\ wb' = IF ex = Bubble THEN Bubble ELSE ExToWb
              /\ ex' = IF id_ex(c) THEN IdToEx ELSE Bubble
              /\ wb = Bubble \/ wb_valid(c)
  BY FlowReady, FlowMoves
<1>3. ~ex_ready(c) =>
              /\ ex' = ex /\ ~id_ex(c) /\ ~ex_wb(c)
              /\ wb' = (IF wb_valid(c) THEN Bubble ELSE wb)
  BY <1>1, FlowReady, FlowMoves
<1>4. Returns(wb) => wb_valid(c)
  BY FlowReady DEF Returns, Is, Answered, IsAccess, IsLoad, Bubble
<1>5. id = Bubble => sub = 0
  BY DEF SubInv, TypeInv
<1>6. ASSUME if_id(c)
      PROVE  /\ ex_ready(c) /\ c.d = "none" /\ id' = IfToId /\ sub' = 0 /\ ~q'.jump_taken
             /\ id # Bubble => id_ex(c) /\ last_sec_op
             /\ JumpKnown /\ BranchKnown
  <2>1. c.d = "none" /\ id_ready(c) /\ ~IdKilled(c)
    BY <1>6, FlowReady DEF IdKilled
  <2>2. ex_ready(c) /\ (id # Bubble => id_ex(c) /\ last_sec_op)
    BY <2>1, FlowReady
  <2>3. id' = IfToId /\ ~q'.jump_taken
    BY <2>1, <1>6, FlowMoves
  <2>4. sub' = 0
    BY <2>1, <2>2, <1>5, FlowMoves, FlowReady
  <2>5. BranchKnown
    BY <2>1, FlowReasons
  <2>6. JumpKnown
    <3>1. id = Bubble => JumpKnown
      BY DEF JumpKnown, IdKind
    <3>2. id # Bubble => JumpKnown
      BY <2>1, <2>2, FlowIssue DEF JumpKnown
    <3> QED BY <3>1, <3>2
  <2> QED BY <2>1, <2>2, <2>3, <2>4, <2>5, <2>6
<1>7. ~if_id(c) /\ id # Bubble =>
              id' = IF IdKilled(c) \/ (id_ex(c) /\ last_sec_op) THEN Bubble ELSE id
  BY FlowReady, FlowMoves
<1>8. ~if_id(c) /\ id = Bubble => id' = Bubble
  BY FlowMoves
<1>9. ~if_id(c) => (c.d = "none" => fetch'.pc = fetch.pc /\ fetch'.op = fetch.op)
  BY FlowMoves
<1>10. ~id_ex(c) => (IF IdKilled(c) THEN sub' = 0 ELSE sub' = sub)
  BY FlowMoves
<1>11. id_ex(c) => id # Bubble /\ ~IdKilled(c) /\ ex_ready(c)
           /\ sub' = (IF last_sec_op THEN 0 ELSE 1)
  BY FlowReady, FlowMoves
<1>12. (id = Bubble /\ ~if_id(c)) => sub' = 0
  BY <1>5, FlowReady, FlowMoves
<1> QED BY <1>2, <1>3, <1>4, <1>5, <1>6, <1>7, <1>8, <1>9, <1>10, <1>11, <1>12

-----------------------------------------------------------------------------
(* Operations and their order.                                             *)

\* mepc stays while a return is on its way.
LEMMA FlowMepc ==
  ASSUME PipelineInv, NEW c \in Cycles, Cycle(c), c.d \in Flowing,
         \/ ~wb_valid(c) \/ Is(ex, "mret")
         \/ IdKind = "mret" /\ (q.jump_taken \/ c.d = "jump")
  PROVE  regs'.mepc = regs.mepc
<1>1. wb.kind = "epc" => csr_write_in(wb) /\ ~Is(wb, "mret")
  BY DEF csr_write_in, Csrs, Is
<1>2. wb.kind = "epc" => ~wb_valid(c)
  BY <1>1, FlowJump DEF PipelineInv, MretInv
<1> QED BY <1>2, FlowFields

\* What a stage holds after the step and what it was before.
LEMMA StageOps ==
  ASSUME PipelineInv, Steady
  PROVE  /\ wb' = wb => (last_op(wb)' <=> last_op(wb)) /\ (Returns(wb)' <=> Returns(wb))
                /\ (csr_write_in(wb)' <=> csr_write_in(wb))
         /\ (wb' = ExToWb /\ ex # Bubble) =>
              /\ wb' # Bubble /\ wb'.pc = ex.pc /\ wb'.op = ex.op /\ wb'.u = ex.u
              /\ last_op(wb)' <=> last_op(ex)
              /\ Returns(wb)' <=> Returns(ex)
              /\ Is(wb, "mret")' <=> Is(ex, "mret")
              /\ csr_write_in(wb)' => csr_write_in(ex)
         /\ wb' = Bubble => ~Returns(wb)' /\ ~csr_write_in(wb)'
         /\ ex' = ex => (last_op(ex)' <=> last_op(ex)) /\ (Returns(ex)' <=> Returns(ex))
                /\ (csr_write_in(ex)' <=> csr_write_in(ex))
         /\ (ex' = IdToEx /\ id # Bubble) =>
              /\ ex' # Bubble /\ ex'.kind = IdKind /\ ex'.pc = id.pc /\ ex'.u = id.u
              /\ ex'.op = IdToEx.op
              /\ last_op(ex)' <=> last_op(IdToEx)
              /\ Returns(ex)' <=> IdKind = "mret" /\ last_op(IdToEx)
         /\ ex' = Bubble => ~Returns(ex)' /\ ~csr_write_in(ex)'
<1> USE DEF Returns, Is, last_op
<1>1. \A k : Ops(k)' = Ops(k)
  BY NextKind DEF PipelineInv
<1>2. wb' = wb => (last_op(wb)' <=> last_op(wb)) /\ (Returns(wb)' <=> Returns(wb))
          /\ (csr_write_in(wb)' <=> csr_write_in(wb))
  BY <1>1 DEF csr_write_in
<1>3. ex' = ex => (last_op(ex)' <=> last_op(ex)) /\ (Returns(ex)' <=> Returns(ex))
          /\ (csr_write_in(ex)' <=> csr_write_in(ex))
  BY <1>1 DEF csr_write_in
<1>4. wb' = Bubble => ~Returns(wb)' /\ ~csr_write_in(wb)'
  BY DEF Bubble, csr_write_in, Csrs
<1>5. ex' = Bubble => ~Returns(ex)' /\ ~csr_write_in(ex)'
  BY DEF Bubble, csr_write_in, Csrs
<1>6. ASSUME wb' = ExToWb, ex # Bubble
      PROVE  /\ wb' # Bubble /\ wb'.pc = ex.pc /\ wb'.op = ex.op /\ wb'.u = ex.u
             /\ last_op(wb)' <=> last_op(ex)
             /\ Returns(wb)' <=> Returns(ex)
             /\ Is(wb, "mret")' <=> Is(ex, "mret")
             /\ csr_write_in(wb)' => csr_write_in(ex)
  <2>1. /\ wb' # Bubble /\ wb'.pc = ex.pc /\ wb'.op = ex.op /\ wb'.u = ex.u
        /\ wb'.kind = (IF IllegalCsr(ex.kind, ex.u, dm) THEN "fault" ELSE ex.kind)
    BY <1>6, ExToWbType DEF PipelineInv
  <2>2. IllegalCsr(ex.kind, ex.u, dm) => ex.kind \in Csrs
    BY DEF IllegalCsr
  <2>3. Ops(wb'.kind) = Ops(ex.kind)
    BY <2>1, <2>2 DEF Ops, Hardened, Csrs
  <2>4. last_op(wb)' <=> last_op(ex)
    BY <1>1, <2>1, <2>3
  <2>5. wb'.kind = "mret" <=> ex.kind = "mret"
    BY <2>1, <2>2 DEF Csrs
  <2>6. csr_write_in(wb)' => csr_write_in(ex)
    BY <2>1 DEF csr_write_in, Csrs
  <2> QED BY <2>1, <2>4, <2>5, <2>6
<1>7. ASSUME ex' = IdToEx, id # Bubble
      PROVE  /\ ex' # Bubble /\ ex'.kind = IdKind /\ ex'.pc = id.pc /\ ex'.u = id.u
             /\ ex'.op = IdToEx.op
             /\ last_op(ex)' <=> last_op(IdToEx)
             /\ Returns(ex)' <=> IdKind = "mret" /\ last_op(IdToEx)
  <2>1. ex' # Bubble /\ ex'.kind = IdKind /\ ex'.pc = id.pc /\ ex'.u = id.u /\ ex'.op = IdToEx.op
            /\ IdToEx.kind = IdKind
    BY <1>7, IdToExType DEF PipelineInv
  <2> QED BY <2>1, <1>1
<1> HIDE DEF Returns, Is, last_op
<1> QED BY <1>2, <1>3, <1>4, <1>5, <1>6, <1>7

\* Where the program goes after an instruction does not change while it moves.
LEMMA FlowAfter ==
  ASSUME PipelineInv, NEW c \in Cycles, Cycle(c), c.d \in Flowing
  PROVE  /\ wb' = wb /\ ~wb_valid(c) => After(wb)' = After(wb)
         /\ wb' = ExToWb /\ ex # Bubble => After(wb)' = After(ex)
         /\ ex' = ex => After(ex)' = After(ex)
         /\ id_ex(c) => After(ex)' = After(IdToEx)
<1>1. Is(ex, "mret") \/ ~wb_valid(c) => regs'.mepc = regs.mepc
  BY FlowMepc
<1>2. wb' = wb /\ ~wb_valid(c) => After(wb)' = After(wb)
  BY <1>1 DEF After
<1>3. ex' = ex => After(ex)' = After(ex)
  BY <1>1 DEF After, Is
<1>4. wb' = ExToWb /\ ex # Bubble => After(wb)' = After(ex)
  <2>1. SUFFICES ASSUME wb' = ExToWb, ex # Bubble PROVE After(wb)' = After(ex)
    OBVIOUS
  <2>2. wb'.pc = ex.pc /\ wb'.kind = (IF IllegalCsr(ex.kind, ex.u, dm) THEN "fault" ELSE ex.kind)
    BY <2>1, ExToWbType DEF PipelineInv
  <2>3. IllegalCsr(ex.kind, ex.u, dm) => ex.kind \in Csrs
    BY DEF IllegalCsr
  <2> QED BY <1>1, <2>2, <2>3 DEF After, Is, Csrs
<1>5. id_ex(c) => After(ex)' = After(IdToEx)
  <2>1. SUFFICES ASSUME id_ex(c) PROVE After(ex)' = After(IdToEx)
    OBVIOUS
  <2>2. ex' = IdToEx /\ id # Bubble
    BY <2>1, FlowModes
  <2>3. ex'.kind = IdKind /\ ex'.pc = id.pc /\ IdToEx.kind = IdKind /\ IdToEx.pc = id.pc
    BY <2>2, IdToExType DEF PipelineInv
  <2>4. IdKind = "mret" => regs'.mepc = regs.mepc
    BY <2>1, FlowIssue, FlowMepc
  <2> QED BY <2>3, <2>4 DEF After
<1> QED BY <1>2, <1>3, <1>4, <1>5

\* What is in ID, its next operation and its last one.
LEMMA IdOps ==
  ASSUME PipelineInv, id # Bubble
  PROVE  /\ LastOfId.kind = IdKind /\ LastOfId.pc = id.pc /\ LastOfId # Bubble
         /\ IdKind \notin {"pop", "bubble"} => last_op(LastOfId)
         /\ last_sec_op => LastOfId = IdToEx
         /\ ~last_sec_op => IdToEx.op = 1 /\ ~last_op(IdToEx) /\ sub = 0 /\ hard
                /\ Hardened(IdKind) /\ IdKind # "pop"
         /\ last_op(IdToEx) => last_sec_op
         /\ last_sec_op /\ ~last_op(IdToEx) => IdKind = "pop" /\ id.op = 1
         /\ sub = 1 => IdToEx.op = 2 /\ last_op(IdToEx) /\ Hardened(IdKind)
<1> USE DEF PipelineInv
<1>1. IdKind \in Kinds /\ id.op \in {1, 2} /\ sub \in {0, 1} /\ hard \in BOOLEAN
          /\ IdKind # "bubble"
  BY IdToExType DEF TypeInv, Fetched, Kinds, Csrs, Accesses
<1>2. LastOfId.kind = IdKind /\ LastOfId.pc = id.pc
          /\ LastOfId.op = (IF Hardened(IdKind) THEN 2 ELSE id.op) /\ LastOfId.u = id.u
  BY DEF LastOfId
<1>3. LastOfId # Bubble
  BY <1>1, <1>2 DEF Bubble
<1>4. IdKind # "pop" => id.op = 1
  BY <1>1 DEF DecodeInv
<1>5. IdToEx.kind = IdKind /\ IdToEx.pc = id.pc
          /\ IdToEx.op = (IF Hardened(IdKind) THEN sub + 1 ELSE id.op)
  BY DEF IdToEx
<1>6. IdKind # "pop" => last_op(LastOfId)
  BY <1>2, <1>4 DEF last_op, Ops
<1>7. last_sec_op => LastOfId = IdToEx
  BY <1>2 DEF last_sec_op, LastOfId, IdToEx
<1>8. ~last_sec_op => IdToEx.op = 1 /\ ~last_op(IdToEx) /\ sub = 0 /\ hard /\ Hardened(IdKind)
          /\ IdKind # "pop"
  BY <1>1, <1>5 DEF last_sec_op, last_op, Ops, Hardened
<1>9. last_sec_op /\ ~last_op(IdToEx) => IdKind = "pop" /\ id.op = 1
  BY <1>1, <1>2, <1>4, <1>7, <1>6 DEF last_op, Ops, Hardened
<1>10. sub = 1 => IdToEx.op = 2 /\ last_op(IdToEx) /\ Hardened(IdKind)
  BY <1>1, <1>5 DEF SubInv, last_op, Ops, Hardened
<1> QED BY <1>2, <1>3, <1>6, <1>7, <1>8, <1>9, <1>10, <1>1

\* ID after the step.
LEMMA IdNext ==
  ASSUME PipelineInv, Steady
  PROVE  /\ id' = id /\ id # Bubble /\ sub' = sub => IdToEx'.op = IdToEx.op
         /\ id' = id /\ id # Bubble /\ ~last_sec_op /\ sub' = 1 => IdToEx'.op = 2
         /\ (id' = id /\ id # Bubble) =>
              /\ IdKind' = IdKind
              /\ LastOfId' = LastOfId
              /\ last_op(LastOfId)' <=> last_op(LastOfId)
              /\ (regs'.mepc = regs.mepc \/ IdKind # "mret") => After(LastOfId)' = After(LastOfId)
         /\ id' = IfToId =>
              /\ id' # Bubble /\ id'.pc = fetch.pc
              /\ sub' = 0 => IdToEx'.op = fetch.op
              /\ Last_if => last_op(LastOfId)'
              /\ ~Last_if => ~last_op(LastOfId)' /\ fetch.op = 1 /\ IdKind' = "pop"
              /\ IdKind' \notin {"jump", "taken", "mret"} => After(LastOfId)' = Succ[fetch.pc]
              /\ LastOfId'.pc = fetch.pc /\ LastOfId' # Bubble
<1> USE DEF PipelineInv
<1>1. /\ id' = id => IdKind' = IdKind
      /\ id' = IfToId =>
           /\ IdKind' = Decoded(prog[fetch.pc], fetch.u, dm, regs.dcsr.step)
           /\ id'.pc = fetch.pc /\ id'.u = fetch.u /\ id'.op = fetch.op /\ id' # Bubble
      /\ \A k : Hardened(k)' <=> Hardened(k)
      /\ \A k : Ops(k)' = Ops(k)
  BY NextKind
<1>2. id' = id /\ sub' = sub => IdToEx'.op = IdToEx.op
  BY <1>1 DEF IdToEx
<1>3. id' = id /\ id # Bubble /\ ~last_sec_op /\ sub' = 1 => IdToEx'.op = 2
  BY <1>1, IdOps DEF IdToEx
<1>4. id' = id => LastOfId' = LastOfId
  BY <1>1 DEF LastOfId
<1>5. id' = id => (last_op(LastOfId)' <=> last_op(LastOfId))
  BY <1>1, <1>4 DEF last_op
<1>6. id' = id /\ id # Bubble
          => (regs'.mepc = regs.mepc \/ IdKind # "mret" => After(LastOfId)' = After(LastOfId))
  <2>1. LastOfId.kind = IdKind
    BY DEF LastOfId
  <2> QED BY <2>1, <1>4 DEF After
<1>7. ASSUME id' = IfToId
      PROVE  /\ id' # Bubble /\ id'.pc = fetch.pc
             /\ sub' = 0 => IdToEx'.op = fetch.op
             /\ Last_if => last_op(LastOfId)'
             /\ ~Last_if => ~last_op(LastOfId)' /\ fetch.op = 1 /\ IdKind' = "pop"
             /\ IdKind' \notin {"jump", "taken", "mret"} => After(LastOfId)' = Succ[fetch.pc]
             /\ LastOfId'.pc = fetch.pc /\ LastOfId' # Bubble
  <2>1. IdKind' = "pop" <=> prog[fetch.pc] = "pop"
    BY <1>1, <1>7 DEF Decoded
  <2>2. fetch.op \in {1, 2} /\ fetch.pc \in Addrs /\ prog[fetch.pc] \in Kinds
    BY DEF TypeInv
  <2>3. fetch.op = 2 => prog[fetch.pc] = "pop"
    BY DEF DecodeInv
  <2>4. sub' = 0 => IdToEx'.op = fetch.op
    BY <1>1, <1>7, <2>1, <2>2, <2>3 DEF IdToEx, Hardened
  <2>5. /\ LastOfId'.kind = IdKind' /\ LastOfId'.pc = fetch.pc
        /\ LastOfId'.op = (IF Hardened(IdKind)' THEN 2 ELSE fetch.op)
    BY <1>1, <1>7 DEF LastOfId
  <2>6. LastOfId' # Bubble
    <3>1. IdKind' \in Kinds
      BY <1>1, <1>7, <2>2, DecodedType
    <3> QED BY <3>1, <2>5 DEF Bubble, Kinds, Csrs, Accesses
  <2>7. last_op(LastOfId)' <=> LastOfId'.op = Ops(IdKind)'
    BY <2>5 DEF last_op
  <2>8. Last_if => last_op(LastOfId)'
    BY <2>1, <2>3, <2>5, <2>7 DEF Last_if, Ops, Hardened
  <2>9. ~Last_if => ~last_op(LastOfId)' /\ fetch.op = 1 /\ IdKind' = "pop"
    BY <2>1, <2>2, <2>3, <2>5, <2>7 DEF Last_if, Ops, Hardened
  <2>10. IdKind' \notin {"jump", "taken", "mret"} => After(LastOfId)' = Succ[fetch.pc]
    BY <2>5 DEF After
  <2> QED BY <1>1, <1>7, <2>4, <2>5, <2>6, <2>8, <2>9, <2>10
<1> QED BY <1>1, <1>2, <1>3, <1>4, <1>5, <1>6, <1>7

\* DecodeInv when instructions flow.
LEMMA FlowDecode ==
  ASSUME PipelineInv, NEW c \in Cycles, Cycle(c), c.d \in Flowing
  PROVE  DecodeInv'
<1> USE DEF PipelineInv
<1>0. Steady
  BY SteadyStep DEF Flowing, Clearing
<1>1. /\ \A k : Ops(k)' = Ops(k)
      /\ id' = id => IdKind' = IdKind
      /\ id' = Bubble => IdKind' = "bubble"
      /\ id' = IfToId => IdKind' = Decoded(prog[fetch.pc], fetch.u, dm, regs.dcsr.step)
             /\ id'.op = fetch.op
  BY <1>0, NextKind
<1>a. Ops(ex.kind)' = Ops(ex'.kind) /\ Ops(wb.kind)' = Ops(wb'.kind)
  BY <1>0 DEF Ops, Hardened, Steady
<1>2. ASSUME ex' # Bubble
      PROVE  ex'.kind = Decoded(prog'[ex'.pc], ex'.u, dm', regs'.dcsr.step)
                 /\ ex'.op <= Ops(ex'.kind)
  <2>1. CASE ex' = ex
    <3>1. ex.kind = Decoded(prog[ex.pc], ex.u, dm, regs.dcsr.step) /\ ex.op <= Ops(ex.kind)
      BY <1>2, <2>1 DEF DecodeInv
    <3> QED BY <3>1, <2>1, <1>0, SteadyDecode DEF TypeInv, Steady
  <2>2. CASE ex' # ex
    <3>1. id_ex(c) /\ ex' = IdToEx /\ id # Bubble
      BY <1>2, <2>2, FlowModes
    <3>2. ex'.kind = IdKind /\ ex'.pc = id.pc /\ ex'.u = id.u /\ ex'.op = IdToEx.op
      BY <3>1, IdToExType
    <3>3. IdKind = Decoded(prog'[id.pc], id.u, dm', regs'.dcsr.step)
      BY <3>1, IdToExType, <1>0, SteadyDecode DEF TypeInv, Steady
    <3>4. IdToEx.op <= Ops(IdKind)
      <4>1. IdToEx.op \in {1, 2} /\ IdToEx.kind = IdKind
        BY <3>1, IdToExType DEF Item
      <4>2. last_op(IdToEx) => IdToEx.op = Ops(IdKind)
        BY <4>1 DEF last_op
      <4>3. Ops(IdKind) \in {1, 2}
        BY DEF Ops
      <4>4. ~last_op(IdToEx) => IdToEx.op = 1
        <5>1. last_sec_op /\ ~last_op(IdToEx) => IdKind = "pop" /\ id.op = 1
          BY <3>1, IdOps
        <5>2. IdKind = "pop" /\ id.op = 1 => IdToEx.op = 1
          BY DEF IdToEx, Hardened
        <5> QED BY <3>1, <5>1, <5>2, IdOps
      <4> QED BY <4>1, <4>2, <4>3, <4>4
    <3> QED BY <3>2, <3>3, <3>4
  <2> QED BY <2>1, <2>2
<1>3. ASSUME wb' # Bubble
      PROVE  wb'.kind = Executed(wb)' /\ wb'.op <= Ops(wb'.kind)
  <2>1. CASE wb' = wb
    <3>1. wb.kind = Executed(wb) /\ wb.op <= Ops(wb.kind)
      BY <1>3, <2>1 DEF DecodeInv
    <3>3. Executed(wb)' = Executed(wb)
      BY <2>1, <1>0, SteadyDecode DEF TypeInv, Steady, Executed
    <3> QED BY <3>1, <3>3, <2>1
  <2>2. CASE wb' # wb
    <3>1. wb' = ExToWb /\ ex # Bubble
      BY <1>3, <2>2, FlowModes
    <3>2. ex.kind = Decoded(prog[ex.pc], ex.u, dm, regs.dcsr.step) /\ ex.op <= Ops(ex.kind)
      BY <3>1 DEF DecodeInv
    <3>3. /\ wb'.kind = (IF IllegalCsr(ex.kind, ex.u, dm) THEN "fault" ELSE ex.kind)
          /\ wb'.pc = ex.pc /\ wb'.u = ex.u /\ wb'.op = ex.op
      BY <3>1, ExToWbType
    <3>4. Executed(wb)' = (IF IllegalCsr(ex.kind, ex.u, dm) THEN "fault" ELSE ex.kind)
      BY <3>2, <3>3, <1>0, SteadyDecode DEF TypeInv, Steady, Executed
    <3>5. IllegalCsr(ex.kind, ex.u, dm) => ex.kind \in Csrs
      BY DEF IllegalCsr
    <3>6. Ops(wb'.kind) = Ops(ex.kind)
      BY <3>3, <3>5 DEF Ops, Hardened, Csrs
    <3> QED BY <3>2, <3>3, <3>4, <3>6, <1>1
  <2> QED BY <2>1, <2>2
<1>4. fetch'.op = 2 => prog'[fetch'.pc] = "pop"
  <2>1. SUFFICES ASSUME fetch'.op = 2 PROVE prog[fetch'.pc] = "pop"
    BY DEF Cycle
  <2>2. c.d = "none"
    BY <2>1, FlowMoves, FlowReady DEF Flowing
  <2>3. CASE ~if_id(c)
    BY <2>1, <2>2, <2>3, FlowMoves DEF DecodeInv
  <2>4. CASE if_id(c)
    <3>1. ~Last_if
      BY <2>1, <2>4, FlowMoves
    <3>2. fetch'.pc = fetch.pc
      BY <2>2, <3>1, FlowMoves
    <3>3. prog[fetch.pc] = "pop"
      BY <3>1 DEF Last_if, DecodeInv, TypeInv
    <3> QED BY <3>2, <3>3
  <2> QED BY <2>3, <2>4
<1>5. id' # Bubble => (id'.op = 2 => IdKind' = "pop")
  <2>1. SUFFICES ASSUME id' # Bubble, id'.op = 2 PROVE IdKind' = "pop"
    OBVIOUS
  <2>2. id' = id \/ id' = IfToId
    BY <2>1, FlowModes
  <2>3. CASE id' = id
    BY <2>1, <2>3, <1>1 DEF DecodeInv
  <2>4. CASE id' = IfToId
    <3>1. prog[fetch.pc] = "pop"
      BY <2>1, <2>4, <1>1 DEF DecodeInv
    <3> QED BY <3>1, <2>4, <1>1 DEF Decoded
  <2> QED BY <2>2, <2>3, <2>4
<1> HIDE DEF PipelineInv
<1> QED BY <1>a, <1>2, <1>3, <1>4, <1>5 DEF DecodeInv

\* PathInv: WB goes before EX.
LEMMA FlowPathEx ==
  ASSUME PipelineInv, NEW c \in Cycles, Cycle(c), c.d \in Flowing, ex' # Bubble
  PROVE  Follows(wb, ex.pc, ex.op)'
<1> USE DEF PipelineInv
<1>0. Steady
  BY SteadyStep DEF Flowing, Clearing
<1>1. CASE ex_ready(c)
  <2>1. id_ex(c) /\ ex' = IdToEx /\ id # Bubble /\ wb' = IF ex = Bubble THEN Bubble ELSE ExToWb
    BY <1>1, FlowModes
  <2>2. CASE ex = Bubble
    BY <2>1, <2>2 DEF Follows
  <2>3. CASE ex # Bubble
    <3>1. Follows(ex, id.pc, IdToEx.op)
      BY <2>1, <2>3, FlowIssue DEF PathInv, BeforeId
    <3>2. ex'.pc = id.pc /\ ex'.op = IdToEx.op
      BY <1>0, <2>1, StageOps
    <3>3. (last_op(wb)' <=> last_op(ex)) /\ wb'.pc = ex.pc
      BY <1>0, <2>1, <2>3, StageOps
    <3>4. After(wb)' = After(ex)
      BY <2>1, <2>3, FlowAfter
    <3> HIDE DEF PipelineInv
    <3> QED BY <2>3, <3>1, <3>2, <3>3, <3>4 DEF Follows
  <2> QED BY <2>2, <2>3
<1>2. CASE ~ex_ready(c)
  <2>1. ex' = ex /\ wb' = (IF wb_valid(c) THEN Bubble ELSE wb)
    BY <1>2, FlowModes
  <2>2. CASE wb_valid(c)
    BY <2>1, <2>2 DEF Follows
  <2>3. CASE ~wb_valid(c)
    <3>1. Follows(wb, ex.pc, ex.op)
      BY <2>1 DEF PathInv
    <3>2. (last_op(wb)' <=> last_op(wb)) /\ After(wb)' = After(wb)
      BY <1>0, <2>1, <2>3, StageOps, FlowAfter
    <3> HIDE DEF PipelineInv
    <3> QED BY <2>1, <2>3, <3>1, <3>2 DEF Follows
  <2> QED BY <2>2, <2>3
<1> QED BY <1>1, <1>2

\* What goes before ID after the step.
LEMMA FlowBefore ==
  ASSUME PipelineInv, NEW c \in Cycles, Cycle(c), c.d \in Flowing, ~id_ex(c), NEW pc, NEW op,
         Follows(BeforeId, pc, op)
  PROVE  Follows(BeforeId, pc, op)'
<1> USE DEF PipelineInv
<1>0. Steady
  BY SteadyStep DEF Flowing, Clearing
<1>1. CASE ex_ready(c)
  <2>1. ex' = Bubble /\ wb' = (IF ex = Bubble THEN Bubble ELSE ExToWb) /\ BeforeId' = wb'
    BY <1>1, FlowModes DEF BeforeId
  <2>2. CASE ex = Bubble
    BY <2>1, <2>2 DEF Follows
  <2>3. CASE ex # Bubble
    <3>1. (last_op(wb)' <=> last_op(ex)) /\ wb'.pc = ex.pc /\ After(wb)' = After(ex)
      BY <1>0, <2>1, <2>3, StageOps, FlowAfter
    <3>2. Follows(ex, pc, op)
      BY <2>3 DEF BeforeId
    <3>3. Follows(wb, pc, op)'
      BY <2>3, <3>1, <3>2 DEF Follows
    <3> QED BY <2>1, <3>3 DEF BeforeId
  <2> QED BY <2>2, <2>3
<1>2. CASE ~ex_ready(c)
  <2>1. ex' = ex /\ wb' = (IF wb_valid(c) THEN Bubble ELSE wb)
    BY <1>2, FlowModes
  <2>2. CASE ex # Bubble
    <3>1. BeforeId' = ex' /\ BeforeId = ex
      BY <2>1, <2>2 DEF BeforeId
    <3>2. (last_op(ex)' <=> last_op(ex)) /\ After(ex)' = After(ex)
      BY <1>0, <2>1, StageOps, FlowAfter
    <3>3. Follows(ex, pc, op)'
      BY <2>1, <2>2, <3>1, <3>2 DEF Follows
    <3> QED BY <2>1, <2>2, <3>3 DEF BeforeId
  <2>3. CASE ex = Bubble /\ wb_valid(c)
    BY <2>1, <2>3 DEF Follows, BeforeId
  <2>4. CASE ex = Bubble /\ ~wb_valid(c)
    <3>1. (last_op(wb)' <=> last_op(wb)) /\ After(wb)' = After(wb) /\ wb' = wb
      BY <1>0, <2>1, <2>4, StageOps, FlowAfter
    <3>2. Follows(wb, pc, op)
      BY <2>4 DEF BeforeId
    <3>3. Follows(wb, pc, op)'
      BY <3>1, <3>2 DEF Follows
    <3> QED BY <2>1, <2>4, <3>3 DEF BeforeId
  <2> QED BY <2>2, <2>3, <2>4
<1> QED BY <1>1, <1>2

\* A branch that enters EX is still to be taken.
LEMMA FreshTaken ==
  ASSUME PipelineInv, NEW c \in Cycles, Cycle(c), c.d \in Flowing, id_ex(c), IdKind = "taken",
             sub # 1
  PROVE  ~BranchKnown'
<1> USE DEF PipelineInv
<1>1. ex' = IdToEx /\ id # Bubble /\ ~IdKilled(c)
  BY FlowModes
<1>2. ex'.kind = "taken"
  BY <1>1, IdToExType
<1>3. ~q'.branch_taken
  BY <1>1, FlowMoves, FlowBranch DEF BranchInv, IdKilled
<1> QED BY <1>2, <1>3 DEF BranchKnown, Is

\* PathInv: EX, or WB, goes before ID.
LEMMA FlowPathId ==
  ASSUME PipelineInv, NEW c \in Cycles, Cycle(c), c.d \in Flowing, id' # Bubble,
         (BranchKnown \/ ~last_op(ex))'
  PROVE  Follows(BeforeId, id.pc, IdToEx.op)'
<1> USE DEF PipelineInv
<1>0. Steady
  BY SteadyStep DEF Flowing, Clearing
<1>1. CASE if_id(c)
  <2>1. /\ ex_ready(c) /\ c.d = "none" /\ id' = IfToId /\ sub' = 0
        /\ id # Bubble => id_ex(c) /\ last_sec_op
        /\ JumpKnown /\ BranchKnown
    BY <1>1, FlowModes
  <2>2. id'.pc = fetch.pc /\ IdToEx'.op = fetch.op
    BY <1>0, <2>1, IdNext
  <2>3. CASE id = Bubble
    <3>1. ~id_ex(c)
      BY <2>3, FlowReady
    <3>2. Follows(BeforeId, fetch.pc, fetch.op)
      BY <2>1, <2>3 DEF PathInv, BeforeIf, IdKnown, IdKind
    <3> QED BY <3>1, <3>2, FlowBefore, <2>2 DEF Follows
  <2>4. CASE id # Bubble
    <3>1. id_ex(c) /\ last_sec_op /\ ex' = IdToEx
      BY <2>1, <2>4, FlowModes
    <3>2. IdKind = "taken" => sub = 1
      <4>1. SUFFICES ASSUME IdKind = "taken", sub # 1 PROVE FALSE
        OBVIOUS
      <4>2. ~BranchKnown' /\ ~Hardened("taken")
        BY <3>1, <4>1, FreshTaken DEF last_sec_op
      <4>3. last_op(IdToEx)
        BY <2>4, <3>1, <4>1, IdOps
      <4>4. last_op(ex)'
        BY <1>0, <2>4, <3>1, <4>3, StageOps
      <4> QED BY <4>2, <4>4
    <3>3. Follows(LastOfId, fetch.pc, fetch.op)
      BY <2>1, <2>4, <3>2 DEF PathInv, BeforeIf, IdKnown
    <3>4. LastOfId = IdToEx /\ IdToEx # Bubble /\ IdToEx.pc = id.pc
      BY <2>4, <3>1, IdOps, IdToExType
    <3>5. (last_op(ex)' <=> last_op(IdToEx)) /\ ex'.pc = id.pc /\ ex' # Bubble
      BY <1>0, <2>4, <3>1, StageOps
    <3>6. After(ex)' = After(IdToEx)
      BY <3>1, FlowAfter
    <3>7. BeforeId' = ex'
      BY <3>5 DEF BeforeId
    <3>8. Follows(ex, id.pc, IdToEx.op)'
      BY <3>3, <3>4, <3>5, <3>6, <2>2 DEF Follows
    <3> QED BY <3>5, <3>8 DEF BeforeId
  <2> QED BY <2>3, <2>4
<1>2. CASE ~if_id(c)
  <2>1. id # Bubble /\ id' = id /\ ~IdKilled(c) /\ ~(id_ex(c) /\ last_sec_op)
    BY <1>2, FlowModes
  <2>2. CASE id_ex(c)
    <3>1. ~last_sec_op /\ sub' = 1 /\ ex' = IdToEx
      BY <2>1, <2>2, FlowModes
    <3>2. IdToEx'.op = 2 /\ ~last_op(IdToEx)
      BY <1>0, <2>1, <3>1, IdNext, IdOps
    <3>3. ~last_op(ex)' /\ ex'.pc = id.pc /\ ex' # Bubble
      BY <1>0, <2>1, <3>1, <3>2, StageOps
    <3>4. Follows(ex, id.pc, IdToEx.op)'
      BY <2>1, <3>2, <3>3 DEF Follows
    <3> QED BY <3>3, <3>4 DEF BeforeId
  <2>3. CASE ~id_ex(c)
    <3>1. sub' = sub
      BY <2>1, <2>3, FlowModes
    <3>2. IdToEx'.op = IdToEx.op
      BY <1>0, <2>1, <3>1, IdNext
    <3>3. BranchKnown \/ ~last_op(ex)
      BY <2>1, FlowReasons, FlowBranch DEF IdKilled
    <3>4. Follows(BeforeId, id.pc, IdToEx.op)
      BY <2>1, <3>3 DEF PathInv
    <3> QED BY <2>1, <2>3, <3>2, <3>4, FlowBefore DEF Follows
  <2> QED BY <2>2, <2>3
<1> QED BY <1>1, <1>2

\* Without a fetch, what goes before IF did so before.
LEMMA FlowKept ==
  ASSUME PipelineInv, NEW c \in Cycles, Cycle(c), c.d \in Flowing, ~if_id(c),
         (BranchKnown /\ IdKnown)', c.d = "branch" => ~hard,
         c.d = "jump" => id # Bubble, NEW pc, NEW op,
         IF c.d = "branch" THEN Follows(ex, pc, op)
         ELSE IF id = Bubble THEN Follows(BeforeId, pc, op) ELSE Follows(LastOfId, pc, op)
  PROVE  Follows(BeforeIf, pc, op)'
<1> USE DEF PipelineInv
<1>0. Steady
  BY SteadyStep DEF Flowing, Clearing
<1>1. CASE id' # Bubble
  <2>1. id # Bubble /\ id' = id /\ c.d # "branch"
    BY <1>1, FlowModes DEF IdKilled, TypeInv
  <2>2. IdKind = "mret" => regs'.mepc = regs.mepc
    <3>1. IdKind = "mret" => q.jump_taken \/ c.d = "jump"
      <4>1. IdKind' = IdKind
        BY <1>0, <2>1, NextKind
      <4>2. IdKind = "mret" => q'.jump_taken
        BY <4>1 DEF IdKnown, JumpKnown
      <4> QED BY <4>2, FlowMoves
    <3> QED BY <3>1, FlowMepc
  <2>a. LastOfId' = LastOfId /\ (last_op(LastOfId)' <=> last_op(LastOfId))
    BY <1>0, <2>1, IdNext
  <2>b. After(LastOfId)' = After(LastOfId)
    BY <1>0, <2>1, <2>2, IdNext
  <2>3. LastOfId' = LastOfId /\ (last_op(LastOfId)' <=> last_op(LastOfId))
            /\ After(LastOfId)' = After(LastOfId)
    BY <2>a, <2>b
  <2>4. Follows(LastOfId, pc, op)'
    BY <2>1, <2>3 DEF Follows
  <2> QED BY <1>1, <2>4 DEF BeforeIf
<1>2. CASE id' = Bubble /\ ~id_ex(c)
  <2>1. CASE c.d = "branch"
    <3>1. BeforeId = ex
      BY <2>1, FlowBranch DEF BeforeId
    <3> QED BY <1>2, <2>1, <3>1, FlowBefore DEF BeforeIf
  <2>2. CASE c.d # "branch"
    <3>1. id = Bubble
      BY <1>2, <2>2, FlowModes DEF IdKilled
    <3> QED BY <1>2, <2>2, <3>1, FlowBefore DEF BeforeIf
  <2> QED BY <2>1, <2>2
<1>3. CASE id' = Bubble /\ id_ex(c)
  <2>1. id # Bubble /\ last_sec_op /\ ex' = IdToEx /\ c.d # "branch"
    BY <1>3, FlowModes DEF IdKilled, TypeInv
  <2>2. LastOfId = IdToEx /\ IdToEx # Bubble /\ IdToEx.pc = id.pc
    BY <2>1, IdOps, IdToExType
  <2>3. (last_op(ex)' <=> last_op(IdToEx)) /\ ex'.pc = id.pc /\ ex' # Bubble
            /\ After(ex)' = After(IdToEx)
    BY <1>0, <1>3, <2>1, StageOps, FlowAfter
  <2>4. Follows(ex, pc, op)'
    BY <2>1, <2>2, <2>3 DEF Follows
  <2> QED BY <1>3, <2>3, <2>4 DEF BeforeIf, BeforeId
<1> QED BY <1>1, <1>2, <1>3

\* PathInv: ID, or what is before it, goes before IF.
LEMMA FlowPathIf ==
  ASSUME PipelineInv, NEW c \in Cycles, Cycle(c), c.d \in Flowing, (BranchKnown /\ IdKnown)'
  PROVE  Follows(BeforeIf, fetch.pc, fetch.op)'
<1> USE DEF PipelineInv
<1>0. Steady
  BY SteadyStep DEF Flowing, Clearing
<1>1. CASE c.d = "branch" /\ ~hard
  <2>1. ~if_id(c) /\ fetch'.pc = Target[ex.pc] /\ fetch'.op = 1
    BY <1>1, FlowModes, FlowMoves
  <2>2. Follows(ex, Target[ex.pc], 1)
    BY <1>1, FlowBranch DEF Follows, After, Is
  <2> QED BY <1>1, <2>1, <2>2, FlowKept DEF Follows
<1>2. CASE c.d = "branch" /\ hard
  <2>1. ~if_id(c) /\ fetch'.pc = Target[ex.pc] /\ fetch'.op = 1 /\ ~IdKilled(c)
    BY <1>2, FlowModes, FlowMoves DEF IdKilled
  <2>2. id # Bubble /\ IdKind = "taken" /\ sub = 1 /\ ex.pc = id.pc
    BY <1>2, FlowBranch
  <2>3. last_op(LastOfId) /\ LastOfId # Bubble /\ After(LastOfId) = Target[id.pc]
    BY <2>2, IdOps DEF After
  <2>4. CASE id' = id
    <3>a. LastOfId' = LastOfId /\ (last_op(LastOfId)' <=> last_op(LastOfId))
      BY <1>0, <2>2, <2>4, IdNext
    <3>b. After(LastOfId)' = After(LastOfId)
      BY <1>0, <2>2, <2>4, IdNext
    <3>1. LastOfId' = LastOfId /\ (last_op(LastOfId)' <=> last_op(LastOfId))
              /\ After(LastOfId)' = After(LastOfId)
      BY <3>a, <3>b
    <3>2. Follows(LastOfId, fetch.pc, fetch.op)'
      BY <2>1, <2>2, <2>3, <3>1 DEF Follows
    <3> QED BY <2>2, <2>4, <3>2 DEF BeforeIf
  <2>5. CASE id' # id
    <3>1. id_ex(c) /\ last_sec_op /\ ex' = IdToEx /\ id' = Bubble
      BY <2>1, <2>2, <2>5, FlowModes
    <3>2. LastOfId = IdToEx
      BY <2>2, <3>1, IdOps
    <3>3. (last_op(ex)' <=> last_op(IdToEx)) /\ ex' # Bubble /\ After(ex)' = After(IdToEx)
      BY <1>0, <2>2, <3>1, StageOps, FlowAfter
    <3>4. Follows(ex, fetch.pc, fetch.op)'
      BY <2>1, <2>2, <2>3, <3>2, <3>3 DEF Follows
    <3> QED BY <3>1, <3>3, <3>4 DEF BeforeIf, BeforeId
  <2> QED BY <2>4, <2>5
<1>3. CASE c.d = "jump"
  <2>1. id # Bubble /\ IdKind \in {"jump", "mret"} /\ ~if_id(c)
    BY <1>3, FlowJump, FlowReady
  <2>2. fetch'.pc = After(LastOfId) /\ fetch'.op = 1
    <3>1. LastOfId.kind = IdKind /\ LastOfId.pc = id.pc
      BY DEF LastOfId
    <3> QED BY <1>3, <2>1, <3>1, FlowMoves DEF After
  <2>3. last_op(LastOfId)
    BY <2>1, IdOps
  <2>4. Follows(LastOfId, After(LastOfId), 1)
    BY <2>3 DEF Follows
  <2> QED BY <1>3, <2>1, <2>2, <2>4, FlowKept DEF Follows
<1>4. CASE c.d = "none" /\ if_id(c)
  <2>1. id' = IfToId /\ sub' = 0 /\ ~q'.jump_taken
    BY <1>4, FlowModes
  <2>2. IdKind' \notin {"jump", "taken", "mret"}
    BY <2>1 DEF IdKnown, JumpKnown
  <2>3. /\ Last_if => last_op(LastOfId)' /\ fetch'.pc = Succ[fetch.pc] /\ fetch'.op = 1
        /\ ~Last_if => ~last_op(LastOfId)' /\ fetch'.pc = fetch.pc /\ fetch'.op = 2
    BY <1>0, <1>4, <2>1, IdNext, FlowMoves
  <2>4. After(LastOfId)' = Succ[fetch.pc] /\ LastOfId'.pc = fetch.pc /\ LastOfId' # Bubble
            /\ id' # Bubble
    BY <1>0, <2>1, <2>2, IdNext
  <2>5. Follows(LastOfId, fetch.pc, fetch.op)'
    BY <2>3, <2>4 DEF Follows
  <2> QED BY <2>4, <2>5 DEF BeforeIf
<1>5. CASE c.d = "none" /\ ~if_id(c)
  <2>1. fetch'.pc = fetch.pc /\ fetch'.op = fetch.op /\ BranchKnown
    BY <1>5, FlowModes, FlowReasons DEF Flowing
  <2>2. IdKnown
    <3>1. CASE id = Bubble
      BY <3>1 DEF IdKnown, JumpKnown, IdKind
    <3>2. CASE id # Bubble /\ id' = id
      <4>1. IdKind' = IdKind
        BY <1>0, <3>2, NextKind
      <4>2. JumpKnown
        BY <1>5, <4>1, FlowMoves DEF IdKnown, JumpKnown
      <4>3. IdKind = "taken" => sub = 1
        <5>1. SUFFICES ASSUME IdKind = "taken", sub # 1 PROVE FALSE
          OBVIOUS
        <5>2. sub' = 1
          BY <4>1, <5>1 DEF IdKnown
        <5>3. id_ex(c)
          BY <1>5, <5>1, <5>2, FlowModes DEF IdKilled
        <5> QED BY <5>1, <5>3, FreshTaken
      <4> QED BY <4>2, <4>3 DEF IdKnown
    <3>3. CASE id # Bubble /\ id' # id
      <4>1. id_ex(c)
        BY <1>5, <3>3, FlowModes DEF IdKilled
      <4>2. JumpKnown
        BY <1>5, <4>1, FlowIssue DEF JumpKnown, Flowing
      <4>3. IdKind = "taken" => sub = 1
        BY <4>1, FreshTaken
      <4> QED BY <4>2, <4>3 DEF IdKnown
    <3> QED BY <3>1, <3>2, <3>3
  <2>3. Follows(BeforeIf, fetch.pc, fetch.op)
    BY <2>1, <2>2 DEF PathInv
  <2>4. IF id = Bubble THEN Follows(BeforeId, fetch.pc, fetch.op)
            ELSE Follows(LastOfId, fetch.pc, fetch.op)
    BY <2>3 DEF BeforeIf
  <2>5. c.d # "branch" /\ c.d # "jump"
    BY <1>5
  <2> QED BY <1>5, <2>1, <2>4, <2>5, FlowKept DEF Follows
<1> QED BY <1>1, <1>2, <1>3, <1>4, <1>5 DEF Flowing, TypeInv

\* PathInv when instructions flow.
LEMMA FlowPath ==
  ASSUME PipelineInv, NEW c \in Cycles, Cycle(c), c.d \in Flowing
  PROVE  PathInv'
BY FlowPathEx, FlowPathId, FlowPathIf DEF PathInv

\* The oldest operation after the step.
LEMMA FlowOldest ==
  ASSUME PipelineInv, NEW c \in Cycles, Cycle(c), c.d \in Flowing
  PROVE  OldestOp' = IF wb # Bubble /\ ~wb_valid(c) THEN wb.op
                     ELSE IF ex # Bubble THEN ex.op
                     ELSE IF id # Bubble THEN IdToEx.op ELSE fetch.op
<1> USE DEF PipelineInv
<1>0. Steady
  BY SteadyStep DEF Flowing, Clearing
<1>1. CASE wb # Bubble /\ ~wb_valid(c)
  BY <1>1, FlowModes DEF OldestOp
<1>2. CASE (wb = Bubble \/ wb_valid(c)) /\ ex # Bubble
  <2>1. CASE ex_ready(c)
    BY <1>0, <1>2, <2>1, FlowModes, StageOps DEF OldestOp
  <2>2. CASE ~ex_ready(c)
    BY <1>2, <2>2, FlowModes DEF OldestOp
  <2> QED BY <2>1, <2>2
<1>3. CASE (wb = Bubble \/ wb_valid(c)) /\ ex = Bubble /\ id # Bubble
  <2>1. wb' = Bubble
    BY <1>3, FlowModes
  <2>2. c.d # "branch" /\ ~IdKilled(c)
    BY <1>3, FlowBranch DEF IdKilled
  <2>3. CASE id_ex(c)
    <3>1. ex' = IdToEx
      BY <2>3, FlowModes
    <3>2. ex' # Bubble /\ ex'.op = IdToEx.op
      BY <1>0, <1>3, <3>1, StageOps
    <3> QED BY <1>3, <2>1, <3>2 DEF OldestOp
  <2>4. CASE ~id_ex(c)
    <3>1. ~if_id(c)
      BY <1>3, <2>4, FlowModes
    <3>2. ex' = Bubble /\ id' = id /\ sub' = sub
      BY <1>3, <2>2, <2>4, <3>1, FlowModes
    <3>3. IdToEx'.op = IdToEx.op
      BY <1>0, <1>3, <3>2, IdNext
    <3> QED BY <1>3, <2>1, <3>2, <3>3 DEF OldestOp
  <2> QED BY <2>3, <2>4
<1>4. CASE (wb = Bubble \/ wb_valid(c)) /\ ex = Bubble /\ id = Bubble
  <2>1. wb' = Bubble /\ ex' = Bubble
    BY <1>4, FlowModes
  <2>2. c.d = "none"
    BY <1>4, FlowBranch, FlowJump DEF Flowing
  <2>3. CASE if_id(c)
    <3>1. id' = IfToId /\ sub' = 0
      BY <2>3, FlowModes
    <3>2. id' # Bubble /\ IdToEx'.op = fetch.op
      BY <1>0, <3>1, IdNext
    <3> QED BY <1>4, <2>1, <3>2 DEF OldestOp
  <2>4. CASE ~if_id(c)
    <3>1. id' = Bubble /\ fetch'.op = fetch.op
      BY <1>4, <2>2, <2>4, FlowModes
    <3> QED BY <1>4, <2>1, <3>1 DEF OldestOp
  <2> QED BY <2>3, <2>4
<1> QED BY <1>1, <1>2, <1>3, <1>4

\* What follows WB, whichever stage it is in.
LEMMA AfterWb ==
  ASSUME PipelineInv, wb # Bubble
  PROVE  LET op == IF ex # Bubble THEN ex.op ELSE IF id # Bubble THEN IdToEx.op ELSE fetch.op
         IN Follows(wb, Behind, op)
<1> USE DEF PipelineInv
<1>1. CASE ex # Bubble
  BY <1>1 DEF PathInv, Behind
<1>2. CASE ex = Bubble
  <2>1. BranchKnown /\ BeforeId = wb
    BY <1>2 DEF BranchKnown, Is, Bubble, BeforeId
  <2>2. CASE id # Bubble
    BY <1>2, <2>1, <2>2 DEF PathInv, Behind
  <2>3. CASE id = Bubble
    <3>1. IdKnown /\ BeforeIf = wb
      BY <2>1, <2>3 DEF IdKnown, JumpKnown, IdKind, BeforeIf
    <3> QED BY <1>2, <2>1, <2>3, <3>1 DEF PathInv, Behind
  <2> QED BY <2>2, <2>3
<1> QED BY <1>1, <1>2

\* SeqInv when instructions flow, and the flag of the sequence in WB.
LEMMA FlowSeq ==
  ASSUME PipelineInv, NEW c \in Cycles, Cycle(c), c.d \in Flowing
  PROVE  SeqInv' /\ (wb_valid(c) => (q'.seq_wb <=> ~last_op(wb)))
             /\ (~wb_valid(c) => (q'.seq_wb <=> q.seq_wb))
<1> USE DEF PipelineInv
<1>1. q'.seq_wb = InSequence(q.seq_wb, wb, wb_valid(c), abort_op(c.i)) /\ ~abort_op(c.i)
  BY NextFlags, FlowReasons DEF sequence_in_progress_wb
<1>2. ASSUME wb_valid(c) PROVE q'.seq_wb <=> ~last_op(wb)
  <2>1. wb # Bubble
    BY <1>2, FlowReady
  <2>2. wb.op = (IF q.seq_wb THEN 2 ELSE 1)
    BY <2>1 DEF SeqInv, OldestOp
  <2>3. wb.op <= Ops(wb.kind) /\ Ops(wb.kind) \in {1, 2}
    BY <2>1 DEF DecodeInv, Ops
  <2> QED BY <1>1, <1>2, <2>2, <2>3 DEF InSequence, last_op
<1>3. ASSUME ~wb_valid(c) PROVE q'.seq_wb <=> q.seq_wb
  BY <1>1, <1>3 DEF InSequence, TypeInv, Flags
<1>4. SeqInv'
  <2>1. CASE ~wb_valid(c)
    <3>1. OldestOp' = OldestOp
      BY <2>1, FlowOldest DEF OldestOp
    <3> QED BY <1>3, <2>1, <3>1 DEF SeqInv
  <2>2. CASE wb_valid(c)
    <3>1. wb # Bubble
      BY <2>2, FlowReady
    <3>2. OldestOp' = IF last_op(wb) THEN 1 ELSE 2
      BY <2>2, <3>1, FlowOldest, AfterWb DEF Follows
    <3> QED BY <1>2, <2>2, <3>2 DEF SeqInv
  <2> QED BY <2>1, <2>2
<1> QED BY <1>2, <1>3, <1>4

\* SubInv when instructions flow.
LEMMA FlowSub ==
  ASSUME PipelineInv, NEW c \in Cycles, Cycle(c), c.d \in Flowing
  PROVE  SubInv'
<1> USE DEF PipelineInv
<1>0. Steady
  BY SteadyStep DEF Flowing, Clearing
<1>a. (id' = id => IdKind' = IdKind) /\ \A k : Hardened(k)' <=> Hardened(k)
  BY <1>0, NextKind
<1>1. ASSUME sub' = 1
      PROVE  /\ id' # Bubble /\ Hardened(IdKind)'
             /\ ex' # Bubble => ex'.kind = IdKind' /\ ex'.pc = id'.pc /\ ex'.op = 1
             /\ JumpKnown'
  <2>1. ~if_id(c) /\ ~IdKilled(c) /\ id # Bubble
    BY <1>1, FlowModes
  <2>2. CASE id_ex(c)
    <3>1. ~last_sec_op /\ id' = id /\ ex' = IdToEx
      BY <1>1, <2>1, <2>2, FlowModes
    <3>2. Hardened(IdKind) /\ IdToEx.op = 1
      BY <2>1, <3>1, IdOps
    <3>3. ex'.kind = IdKind /\ ex'.pc = id.pc /\ ex'.op = 1
      BY <1>0, <2>1, <3>1, <3>2, StageOps
    <3>4. IdKind \in {"jump", "mret"} => q'.jump_taken
      BY <2>1, <2>2, FlowIssue, FlowMoves
    <3>5. Hardened(IdKind)'
      BY <1>a, <3>1, <3>2 DEF Hardened
    <3> QED BY <1>a, <2>1, <3>1, <3>3, <3>4, <3>5 DEF JumpKnown
  <2>3. CASE ~id_ex(c)
    <3>1. sub = 1 /\ id' = id /\ (ex' = ex \/ ex' = Bubble)
      BY <1>1, <2>1, <2>3, FlowModes
    <3>2. Hardened(IdKind) /\ (ex # Bubble => ex.kind = IdKind /\ ex.pc = id.pc /\ ex.op = 1)
              /\ JumpKnown
      BY <3>1 DEF SubInv
    <3>3. IdKind \in {"jump", "mret"} => q'.jump_taken
      BY <2>1, <3>2, FlowMoves DEF JumpKnown
    <3>4. Hardened(IdKind)'
      BY <1>a, <3>1, <3>2 DEF Hardened
    <3> QED BY <1>a, <2>1, <3>1, <3>2, <3>3, <3>4 DEF JumpKnown
  <2> QED BY <2>2, <2>3
<1>2. ASSUME BeforeId' # Bubble, ~last_op(BeforeId)', BeforeId'.kind # "pop"
      PROVE  sub' = 1
  <2>1. CASE id_ex(c)
    <3>1. ex' = IdToEx /\ id # Bubble
      BY <2>1, FlowModes
    <3>2. ex' # Bubble /\ ex'.kind = IdKind /\ (last_op(ex)' <=> last_op(IdToEx))
      BY <1>0, <3>1, StageOps
    <3>3. BeforeId' = ex'
      BY <3>2 DEF BeforeId
    <3>4. IdKind # "pop" /\ ~last_op(IdToEx)
      BY <1>2, <3>2, <3>3 DEF last_op
    <3>5. ~last_sec_op
      BY <3>1, <3>4, IdOps
    <3> QED BY <2>1, <3>5, FlowModes
  <2>2. CASE ~id_ex(c)
    <3>1. BeforeId # Bubble /\ ~last_op(BeforeId) /\ BeforeId.kind # "pop"
      <4>1. CASE ex # Bubble /\ ex_ready(c)
        <5>1. wb' = ExToWb /\ ex' = Bubble
          BY <2>2, <4>1, FlowModes
        <5>2. BeforeId' = wb' /\ BeforeId = ex
          BY <4>1, <5>1 DEF BeforeId
        <5>3. last_op(BeforeId)' <=> last_op(ex)
          BY <1>0, <4>1, <5>1, <5>2, StageOps DEF last_op
        <5>4. ex.kind = "pop" => wb'.kind = "pop"
          BY <4>1, <5>1, ExToWbType DEF IllegalCsr, Csrs
        <5> QED BY <1>2, <4>1, <5>2, <5>3, <5>4
      <4>2. CASE ex # Bubble /\ ~ex_ready(c)
        <5>1. ex' = ex /\ BeforeId' = ex' /\ BeforeId = ex
          BY <4>2, FlowModes DEF BeforeId
        <5>2. last_op(BeforeId)' <=> last_op(ex)
          BY <1>0, <5>1, StageOps DEF last_op
        <5> QED BY <1>2, <5>1, <5>2
      <4>3. CASE ex = Bubble
        <5>1. ex' = Bubble /\ BeforeId' = wb' /\ BeforeId = wb
          BY <2>2, <4>3, FlowModes DEF BeforeId
        <5>2. wb' = wb
          BY <1>2, <4>3, <5>1, FlowModes
        <5>3. last_op(BeforeId)' <=> last_op(wb)
          BY <1>0, <5>1, <5>2, StageOps DEF last_op
        <5> QED BY <1>2, <5>1, <5>2, <5>3
      <4> QED BY <4>1, <4>2, <4>3
    <3>2. sub = 1
      BY <3>1 DEF SubInv
    <3>3. ~IdKilled(c)
      <4>1. IdKilled(c) => BeforeId = ex /\ last_op(ex)
        BY FlowBranch DEF IdKilled, BeforeId
      <4> QED BY <3>1, <4>1
    <3> QED BY <2>2, <3>2, <3>3, FlowModes
  <2> QED BY <2>1, <2>2
<1> HIDE DEF PipelineInv
<1> QED BY <1>1, <1>2 DEF SubInv

\* BranchInv when instructions flow.
LEMMA FlowBranches ==
  ASSUME PipelineInv, NEW c \in Cycles, Cycle(c), c.d \in Flowing
  PROVE  BranchInv'
<1> USE DEF PipelineInv
<1>0. Steady
  BY SteadyStep DEF Flowing, Clearing
<1>a. (id' = id => IdKind' = IdKind) /\ (id # Bubble /\ ex' = IdToEx => ex'.kind = IdKind)
  BY <1>0, NextKind, StageOps
<1>b. q.ex_last \in BOOLEAN /\ q.branch_taken \in BOOLEAN /\ hard \in BOOLEAN
  BY DEF TypeInv, Flags
<1>c. Is(ex, "taken") /\ ~q.branch_taken => c.d = "branch"
  BY FlowReasons DEF BranchKnown
<1>d. /\ q'.branch_taken = (c.d = "branch" \/ (q.branch_taken /\ ~(id_ex(c) /\ q.ex_last)))
      /\ q'.ex_last = (IF id_ex(c) THEN last_op(IdToEx) ELSE q.ex_last)
  BY FlowMoves
<1>1. ex' # Bubble => (q'.ex_last <=> last_op(ex)')
  <2>1. CASE id_ex(c)
    BY <1>0, <1>d, <2>1, FlowModes, StageOps
  <2>2. CASE ~id_ex(c)
    <3>1. ex' = ex \/ ex' = Bubble
      BY <2>2, FlowModes
    <3> QED BY <1>0, <1>d, <2>2, <3>1, StageOps DEF BranchInv
  <2> QED BY <2>1, <2>2
<1>2. ASSUME q'.branch_taken
      PROVE  (ex' # Bubble => ex'.kind = "taken") /\ (~q'.ex_last => sub' = 1 /\ IdKind' = "taken")
  <2>1. CASE c.d = "branch" /\ ~hard
    <3>1. IdKilled(c)
      BY <2>1 DEF IdKilled
    <3> QED BY <1>d, <2>1, <3>1, FlowBranch, FlowModes DEF Is
  <2>2. CASE (c.d = "branch" /\ hard) \/ (c.d # "branch" /\ q.branch_taken)
    <3>1. ~IdKilled(c) /\ ~(id_ex(c) /\ q.ex_last)
      BY <1>d, <1>2, <2>2, FlowBranch DEF IdKilled
    <3>2. CASE id_ex(c)
      <4>1. sub = 1 /\ IdKind = "taken" /\ id # Bubble
        BY <2>2, <3>1, <3>2, FlowBranch, FlowModes DEF BranchInv
      <4>2. last_op(IdToEx) /\ ex' = IdToEx
        BY <3>2, <4>1, IdOps, FlowModes
      <4> QED BY <1>a, <1>d, <3>2, <4>1, <4>2
    <3>3. CASE ~id_ex(c)
      <4>1. (ex' # Bubble => ex'.kind = "taken") /\ q'.ex_last = q.ex_last
        BY <1>d, <2>2, <3>3, FlowBranch, FlowModes DEF BranchInv, Is
      <4>2. ~q.ex_last => sub = 1 /\ IdKind = "taken"
        BY <2>2, FlowBranch DEF BranchInv
      <4>3. ~q.ex_last => id' = id /\ sub' = sub
        <5>1. ~q.ex_last => id # Bubble
          BY <4>2 DEF SubInv
        <5>2. ~if_id(c) \/ id = Bubble
          BY <3>3, FlowModes
        <5> QED BY <3>1, <3>3, <5>1, <5>2, FlowModes
      <4> QED BY <1>a, <4>1, <4>2, <4>3
    <3> QED BY <3>2, <3>3
  <2> QED BY <1>b, <1>d, <1>2, <2>1, <2>2
<1>3. ASSUME sub' = 1, IdKind' = "taken"
      PROVE  ~q'.ex_last /\ (q'.branch_taken \/ Is(ex, "taken")')
  <2>1. ~if_id(c) /\ ~IdKilled(c) /\ id # Bubble
    BY <1>3, FlowModes
  <2>2. CASE id_ex(c)
    <3>1. ~last_sec_op /\ id' = id /\ ex' = IdToEx
      BY <1>3, <2>1, <2>2, FlowModes
    <3> QED BY <1>a, <1>d, <1>3, <2>1, <2>2, <3>1, IdOps DEF Is
  <2>3. CASE ~id_ex(c)
    <3>1. sub = 1 /\ id' = id
      BY <1>3, <2>1, <2>3, FlowModes
    <3>2. ~q.ex_last /\ (q.branch_taken \/ Is(ex, "taken"))
      BY <1>a, <1>3, <3>1 DEF BranchInv
    <3> QED BY <1>c, <1>d, <2>3, <3>2
  <2> QED BY <2>2, <2>3
<1>4. ASSUME Is(ex, "taken")', ~q'.branch_taken
      PROVE  ex'.op = 1
  <2>1. CASE id_ex(c)
    <3>1. ex' = IdToEx /\ id # Bubble /\ IdKind = "taken" /\ ex'.op = IdToEx.op
      BY <1>0, <1>a, <1>4, <2>1, FlowModes, StageOps DEF Is
    <3>2. sub = 1 => FALSE
      BY <1>c, <1>d, <1>4, <3>1 DEF BranchInv
    <3>3. sub = 0
      BY <3>2 DEF TypeInv
    <3>4. IdToEx.op = 1
      BY <3>1, <3>3 DEF IdToEx, DecodeInv, TypeInv, Fetched
    <3> QED BY <3>1, <3>4
  <2>2. CASE ~id_ex(c)
    <3>1. ex' = ex
      BY <1>4, <2>2, FlowModes DEF Is, Bubble
    <3> QED BY <1>c, <1>d, <1>4, <2>2, <3>1 DEF Is
  <2> QED BY <2>1, <2>2
<1> HIDE DEF PipelineInv
<1> QED BY <1>1, <1>2, <1>3, <1>4 DEF BranchInv

\* JumpInv and MretInv when instructions flow.
LEMMA FlowReturns ==
  ASSUME PipelineInv, NEW c \in Cycles, Cycle(c), c.d \in Flowing
  PROVE  JumpInv' /\ MretInv'
<1> USE DEF PipelineInv
<1>0. Steady
  BY SteadyStep DEF Flowing, Clearing
<1>a. (id' = id => IdKind' = IdKind) /\ (id' = Bubble => IdKind' = "bubble")
  BY <1>0, NextKind
<1>1. ASSUME q'.jump_taken
      PROVE  ~if_id(c) /\ (id' = id \/ id' = Bubble) /\ (q.jump_taken \/ c.d = "jump")
  BY <1>1, FlowModes, FlowMoves
<1>2. JumpInv'
  <2>1. q.jump_taken => id = Bubble \/ IdKind \in {"jump", "mret"}
    BY DEF JumpInv
  <2>2. c.d = "jump" => IdKind \in {"jump", "mret"}
    BY FlowJump
  <2> QED BY <1>a, <1>1, <2>1, <2>2 DEF JumpInv
<1>3. ASSUME IdKind' = "mret", q'.jump_taken
      PROVE  /\ csr_write_in(ex)' => Is(ex, "mret")' /\ ~last_op(ex)'
             /\ csr_write_in(wb)' => Is(wb, "mret")' /\ ~last_op(wb)'
  <2>1. id' = id /\ id # Bubble /\ IdKind = "mret" /\ ~if_id(c)
    BY <1>a, <1>1, <1>3, FlowModes
  <2>2. \A x \in {ex, wb} : csr_write_in(x) => Is(x, "mret") /\ ~last_op(x)
    BY <1>1, <1>3, <2>1, FlowJump DEF MretInv
  <2>3. csr_write_in(wb)' => Is(wb, "mret")' /\ ~last_op(wb)'
    <3>1. CASE wb' = Bubble
      BY <1>0, <3>1, StageOps
    <3>2. CASE wb' = wb
      BY <1>0, <2>2, <3>2, StageOps DEF Is
    <3>3. CASE wb' = ExToWb /\ ex # Bubble
      BY <1>0, <2>2, <3>3, StageOps DEF Is
    <3> QED BY <3>1, <3>2, <3>3, FlowModes
  <2>4. csr_write_in(ex)' => Is(ex, "mret")' /\ ~last_op(ex)'
    <3>1. CASE ex' = Bubble
      BY <1>0, <3>1, StageOps
    <3>2. CASE ex' = ex
      BY <1>0, <2>2, <3>2, StageOps DEF Is
    <3>3. CASE id_ex(c)
      <4>1. ex' = IdToEx /\ ~last_sec_op
        BY <2>1, <3>3, FlowModes DEF Fetched, Bubble, TypeInv
      <4> QED BY <1>0, <2>1, <4>1, IdOps, StageOps DEF Is
    <3> QED BY <3>1, <3>2, <3>3, FlowModes
  <2> QED BY <2>3, <2>4
<1>4. ASSUME Is(ex, "mret")', csr_write_in(wb)'
      PROVE  Is(wb, "mret")' /\ ~last_op(wb)'
  <2>1. CASE id_ex(c)
    <3>1. ex' = IdToEx /\ id # Bubble /\ wb' = IF ex = Bubble THEN Bubble ELSE ExToWb
      BY <2>1, FlowModes
    <3>2. IdKind = "mret"
      BY <1>0, <1>4, <3>1, StageOps DEF Is
    <3>3. csr_write_in(ex) => Is(ex, "mret") /\ ~last_op(ex)
      BY <2>1, <3>2, FlowIssue
    <3>4. ex # Bubble /\ wb' = ExToWb
      BY <1>0, <1>4, <3>1, StageOps
    <3> QED BY <1>0, <1>4, <3>3, <3>4, StageOps
  <2>2. CASE ~id_ex(c)
    <3>1. ex' = ex /\ (wb' = wb \/ wb' = Bubble)
      BY <1>4, <2>2, FlowModes DEF Is, Bubble
    <3>2. wb' = wb
      BY <1>0, <1>4, <3>1, StageOps
    <3> QED BY <1>0, <1>4, <3>1, <3>2, StageOps DEF MretInv, Is
  <2> QED BY <2>1, <2>2
<1>5. MretInv'
  <2> HIDE DEF PipelineInv
  <2> QED BY <1>3, <1>4 DEF MretInv
<1> QED BY <1>2, <1>5

-----------------------------------------------------------------------------
(* Levels and single steps.                                                *)

\* At most one mret that has jumped is in the pipeline.
LEMMA OneReturn ==
  ASSUME PipelineInv
  PROVE  /\ Returns(wb) => ~Is(ex, "mret") /\ ~(IdKind = "mret" /\ q.jump_taken)
         /\ Returns(ex) => ~(IdKind = "mret" /\ q.jump_taken)
BY DEF PipelineInv, MretInv, Returns, csr_write_in, Is

\* LevelInv when instructions flow.
LEMMA FlowLevel ==
  ASSUME PipelineInv, NEW c \in Cycles, Cycle(c), c.d \in Flowing
  PROVE  LevelInv'
<1> USE DEF PipelineInv
<1>0. Steady
  BY SteadyStep DEF Flowing, Clearing
<1>a. /\ id' = id => IdKind' = IdKind
      /\ id' = Bubble => IdKind' = "bubble"
      /\ id' = IfToId => id'.u = fetch.u
  BY <1>0, NextKind
<1>b. IF Returns(wb) THEN regs'.u = regs.mppu ELSE regs'.u = regs.u /\ regs'.mppu = regs.mppu
  BY FlowModes, FlowFields
<1>c. wb' = wb /\ wb # Bubble => ~Returns(wb)
  <2>1. SUFFICES ASSUME wb' = wb, wb # Bubble, Returns(wb) PROVE FALSE
    OBVIOUS
  <2>2. wb' = ExToWb /\ ex # Bubble
    BY <2>1, FlowModes
  <2>3. Is(ex, "mret")
    BY <1>0, <2>1, <2>2, StageOps DEF Returns, Is
  <2> QED BY <2>1, <2>3, OneReturn
<1>1. wb' # Bubble => wb'.u = regs'.u
  <2>1. CASE wb' = ExToWb /\ ex # Bubble
    <3>1. wb'.u = ex.u
      BY <2>1, ExToWbType
    <3> QED BY <1>b, <2>1, <3>1 DEF LevelInv, Level
  <2>2. CASE wb' = wb
    BY <1>b, <1>c, <2>2 DEF LevelInv
  <2> QED BY <2>1, <2>2, FlowModes
<1>2. ex' # Bubble => ex'.u = Level(Returns(wb))'
  <2>1. CASE id_ex(c)
    <3>1. ex'.u = id.u /\ id # Bubble /\ wb' = IF ex = Bubble THEN Bubble ELSE ExToWb
      BY <2>1, <1>0, FlowModes, StageOps
    <3>2. Returns(wb)' <=> Returns(ex)
      BY <1>0, <3>1, StageOps DEF Returns, Is, Bubble
    <3>3. id.u = Level(Returns(wb) \/ Returns(ex))
      BY <3>1 DEF LevelInv
    <3>4. Returns(ex) => ~Returns(wb)
      BY OneReturn DEF Returns
    <3> QED BY <1>b, <3>1, <3>2, <3>3, <3>4 DEF Level
  <2>2. CASE ~id_ex(c) /\ ex' = ex
    <3>1. ex # Bubble => ex.u = Level(Returns(wb))
      BY DEF LevelInv
    <3>2. ex # Bubble => ~Returns(wb)'
      <4>1. wb' = wb \/ wb' = Bubble \/ ex = Bubble
        BY <2>2, FlowModes
      <4> QED BY <1>0, <1>c, <4>1, StageOps DEF Returns, Is, Bubble
    <3> QED BY <1>b, <2>2, <3>1, <3>2 DEF Level
  <2> QED BY <2>1, <2>2, FlowModes
<1>d. Returns(wb)' => Returns(ex) /\ ex_ready(c)
  <2>1. CASE wb' = wb
    BY <1>0, <1>c, <2>1, StageOps DEF Returns, Is, Bubble
  <2> QED BY <1>0, <2>1, FlowModes, StageOps
<1>e. Returns(ex)' => (Returns(ex) /\ ~ex_ready(c)) \/ (id_ex(c) /\ last_sec_op /\ IdKind = "mret")
  <2>1. CASE id_ex(c)
    BY <1>0, <2>1, FlowModes, StageOps, IdOps
  <2>2. CASE ~id_ex(c)
    BY <1>0, <2>2, FlowModes, StageOps
  <2> QED BY <2>1, <2>2
<1>f. Returns(ex) => Returns(wb)' \/ Returns(ex)'
  BY <1>0, FlowModes, StageOps DEF Returns, Is, Bubble
<1>g. id_ex(c) /\ last_sec_op /\ IdKind = "mret" => Returns(ex)'
  BY <1>0, FlowModes, StageOps, IdOps
<1>h. id_ex(c) /\ IdKind = "mret" => ~Returns(wb) /\ ~Returns(ex)
  BY FlowIssue DEF csr_write_in, Returns, Is
<1>3. id' # Bubble => id'.u = Level(Returns(wb) \/ Returns(ex))'
  <2>1. CASE if_id(c)
    <3>1. id'.u = fetch.u /\ (id # Bubble => id_ex(c) /\ last_sec_op) /\ JumpKnown /\ ex_ready(c)
      BY <1>a, <2>1, FlowModes
    <3>2. (Returns(wb) \/ Returns(ex))' <=> Returns(ex) \/ (IdKind = "mret" /\ q.jump_taken)
      BY <1>d, <1>e, <1>f, <1>g, <3>1 DEF JumpKnown, IdKind
    <3>3. Returns(wb) => ~(Returns(ex) \/ (IdKind = "mret" /\ q.jump_taken))
      BY OneReturn DEF Returns
    <3>4. fetch.u = Level(Returns(wb) \/ Returns(ex) \/ (IdKind = "mret" /\ q.jump_taken))
      BY DEF LevelInv
    <3> QED BY <1>b, <3>1, <3>2, <3>3, <3>4 DEF Level
  <2>2. CASE ~if_id(c) /\ id' # Bubble
    <3>1. id' = id /\ id # Bubble /\ ~(id_ex(c) /\ last_sec_op)
      BY <2>2, FlowModes
    <3>2. (Returns(wb) \/ Returns(ex))' <=> Returns(ex)
      BY <1>d, <1>e, <1>f, <3>1
    <3>3. Returns(wb) => ~Returns(ex)
      BY OneReturn DEF Returns
    <3>4. id.u = Level(Returns(wb) \/ Returns(ex))
      BY <3>1 DEF LevelInv
    <3> QED BY <1>b, <3>1, <3>2, <3>3, <3>4 DEF Level
  <2> QED BY <2>1, <2>2
<1>4. fetch'.u = Level(Returns(wb) \/ Returns(ex) \/ (IdKind = "mret" /\ q.jump_taken))'
  <2>1. fetch'.u = fetch_priv_lvl(c)
    BY DEF Cycle, fetch_n
  <2>2. csr_restore_mret(c) <=> Returns(wb)
    BY FlowRegs, FlowModes
  <2>3. q'.jump_taken = (c.d = "jump" \/ (q.jump_taken /\ ~if_id(c) /\ ~IdKilled(c)))
    BY FlowMoves
  <2>4. (IdKind' = "mret" /\ q'.jump_taken) =>
          IdKind = "mret" /\ (q.jump_taken \/ c.d = "jump") /\ id' = id
    BY <1>a, <2>3, FlowModes
  <2>5. CASE Returns(wb)
    <3>a. fetch_priv_lvl(c) = registers(c).u
      BY <2>2, <2>5 DEF fetch_priv_lvl
    <3>1. fetch'.u = regs'.u
      BY <2>1, <3>a, FlowRegs
    <3>2. ~(Returns(wb) \/ Returns(ex) \/ (IdKind = "mret" /\ q.jump_taken))'
      <4>1. c.d = "jump" => IdKind # "mret"
        BY <2>5, FlowJump DEF Returns, csr_write_in, Is
      <4> QED BY <1>d, <1>e, <1>h, <2>4, <2>5, <4>1, OneReturn DEF Returns
    <3> QED BY <3>1, <3>2 DEF Level
  <2>6. CASE ~Returns(wb) /\ c.d = "jump" /\ IdKind = "mret"
    <3>1. id # Bubble /\ ~if_id(c) /\ ~IdKilled(c)
      BY <2>6, FlowJump, FlowReady DEF IdKilled
    <3>2. ~dm
      BY <2>6, <3>1, IdToExType DEF Decoded
    <3>a. ~csr_save_cause(c) /\ c.d # "dret" /\ ~csr_restore_mret(c) /\ mret_jump_id(c)
      BY <2>2, <2>6, FlowRegs DEF mret_jump_id
    <3>b. fetch_priv_lvl(c) = regs.mppu
      BY <3>2, <3>a DEF fetch_priv_lvl
    <3>3. fetch'.u = regs.mppu
      BY <2>1, <3>b
    <3>4. (Returns(wb) \/ Returns(ex) \/ (IdKind = "mret" /\ q.jump_taken))'
      <4>1. CASE id_ex(c) /\ last_sec_op
        BY <1>g, <2>6, <4>1
      <4>2. CASE ~(id_ex(c) /\ last_sec_op)
        <5>1. id' = id
          BY <3>1, <4>2, FlowModes
        <5> QED BY <1>a, <2>3, <2>6, <5>1
      <4> QED BY <4>1, <4>2
    <3> QED BY <1>b, <2>6, <3>3, <3>4 DEF Level
  <2>7. CASE ~Returns(wb) /\ ~(c.d = "jump" /\ IdKind = "mret") /\ IdKind = "mret" /\ IdKilled(c)
    <3>1. fetch'.u = regs.u
      BY <2>1, <2>2, <2>7, FlowRegs, FlowReady DEF fetch_priv_lvl, mret_jump_id, mret_killed
    <3>2. id' = Bubble /\ ~id_ex(c) /\ c.d = "branch"
      BY <2>7, FlowModes, FlowReady DEF IdKilled, IdKind
    <3>3. ~Returns(ex)
      BY <3>2, FlowBranch DEF Returns, Is
    <3>4. ~(Returns(wb) \/ Returns(ex) \/ (IdKind = "mret" /\ q.jump_taken))'
      BY <1>a, <1>d, <1>e, <3>2, <3>3
    <3> QED BY <1>b, <2>7, <3>1, <3>4 DEF Level
  <2>8. CASE ~Returns(wb) /\ ~(c.d = "jump" /\ IdKind = "mret") /\ ~(IdKind = "mret" /\ IdKilled(c))
    <3>1. ~mret_killed(c)
      BY <2>8, FlowReady DEF mret_killed
    <3>2. fetch'.u = fetch.u
      BY <2>1, <2>2, <2>8, <3>1, FlowRegs DEF fetch_priv_lvl, mret_jump_id
    <3>3. (Returns(wb) \/ Returns(ex) \/ (IdKind = "mret" /\ q.jump_taken))'
            <=> (Returns(ex) \/ (IdKind = "mret" /\ q.jump_taken))
      <4>1. (IdKind = "mret" /\ q.jump_taken) => (Returns(ex) \/ (IdKind = "mret" /\ q.jump_taken))'
        <5>1. CASE id_ex(c) /\ last_sec_op
          BY <1>g, <5>1
        <5>2. CASE ~(id_ex(c) /\ last_sec_op) /\ IdKind = "mret" /\ q.jump_taken
          <6>1. id # Bubble /\ ~if_id(c)
            BY <5>2, FlowModes DEF IdKind
          <6>2. id' = id
            BY <2>8, <5>2, <6>1, FlowModes
          <6> QED BY <1>a, <2>3, <2>8, <5>2, <6>1, <6>2
        <5> QED BY <5>1, <5>2
      <4>2. id_ex(c) /\ IdKind = "mret" => q.jump_taken
        BY <2>8, FlowIssue
      <4> QED BY <1>d, <1>e, <1>f, <2>4, <2>8, <4>1, <4>2
    <3>4. fetch.u = Level(Returns(wb) \/ Returns(ex) \/ (IdKind = "mret" /\ q.jump_taken))
      BY DEF LevelInv
    <3> QED BY <1>b, <2>8, <3>2, <3>3, <3>4 DEF Level
  <2> QED BY <2>5, <2>6, <2>7, <2>8
<1> HIDE DEF PipelineInv
<1> QED BY <1>1, <1>2, <1>3, <1>4 DEF LevelInv

\* StepInv when instructions flow.
LEMMA FlowSingleStep ==
  ASSUME PipelineInv, NEW c \in Cycles, Cycle(c), c.d \in Flowing
  PROVE  StepInv'
<1> USE DEF PipelineInv
<1>0. Steady
  BY SteadyStep DEF Flowing, Clearing
<1>a. /\ id' = id => IdKind' = IdKind
      /\ id' = IfToId => id'.op = fetch.op
  BY <1>0, NextKind
<1>b. q'.step_halt_if <=> \/ ~dm /\ regs.dcsr.step /\ ~q.step_halt_if /\ if_id(c) /\ Last_if
                          \/ q.step_halt_if
  BY NextFlags DEF single_step_halt_if_n, Flowing, TypeInv, Flags
<1>1. dm' => ~q'.step_halt_if
  BY <1>0, <1>b DEF StepInv, Steady
<1>2. ASSUME ~dm', regs'.dcsr.step
      PROVE  /\ (wb' # Bubble /\ last_op(wb)') => ex' = Bubble /\ id' = Bubble
             /\ (ex' # Bubble /\ last_op(ex)') => id' = Bubble
             /\ ~q'.step_halt_if => /\ wb' # Bubble => Part(wb)'
                                    /\ ex' # Bubble => Part(ex)'
                                    /\ id' # Bubble => IdKind' = "pop" /\ id'.op = 1
  <2>1. ~dm /\ regs.dcsr.step
    BY <1>0, <1>2 DEF Steady
  <2>2. /\ (wb # Bubble /\ last_op(wb)) => ex = Bubble /\ id = Bubble
        /\ (ex # Bubble /\ last_op(ex)) => id = Bubble
        /\ ~q.step_halt_if => /\ wb # Bubble => Part(wb)
                              /\ ex # Bubble => Part(ex)
                              /\ id # Bubble => IdKind = "pop" /\ id.op = 1
    BY <2>1 DEF StepInv
  <2>3. if_id(c) => ~q.step_halt_if
    BY FlowReady
  <2>4. Part(ex) => ~last_op(ex)
    BY DEF Part, Is, last_op, Ops
  <2>5. IdKind = "pop" /\ id.op = 1 => IdToEx.op = 1 /\ ~last_op(IdToEx)
    BY DEF IdToEx, last_op, Ops, Hardened
  <2>6. (wb' # Bubble /\ last_op(wb)') => ex' = Bubble /\ id' = Bubble
    <3>1. SUFFICES ASSUME wb' # Bubble, last_op(wb)' PROVE ex' = Bubble /\ id' = Bubble
      OBVIOUS
    <3>2. CASE wb' = wb /\ ~ex_ready(c)
      BY <1>0, <2>2, <3>1, <3>2, FlowModes, StageOps
    <3>3. CASE ex_ready(c)
      <4>1. wb' = ExToWb /\ ex # Bubble
        BY <3>1, <3>3, FlowModes
      <4>2. last_op(ex)
        BY <1>0, <3>1, <4>1, StageOps
      <4>3. id = Bubble /\ ~if_id(c)
        BY <2>2, <2>3, <2>4, <4>1, <4>2
      <4> QED BY <3>3, <4>3, FlowModes
    <3> QED BY <3>1, <3>2, <3>3, FlowModes
  <2>7. (ex' # Bubble /\ last_op(ex)') => id' = Bubble
    <3>1. SUFFICES ASSUME ex' # Bubble, last_op(ex)' PROVE id' = Bubble
      OBVIOUS
    <3>2. CASE ~id_ex(c)
      <4>1. ex' = ex /\ ~ex_ready(c)
        BY <3>1, <3>2, FlowModes
      <4> QED BY <1>0, <2>2, <3>1, <4>1, FlowModes, StageOps
    <3>3. CASE id_ex(c)
      <4>1. ex' = IdToEx /\ id # Bubble /\ ~IdKilled(c)
        BY <3>3, FlowModes
      <4>2. last_op(IdToEx)
        BY <1>0, <3>1, <4>1, StageOps
      <4>3. ~if_id(c)
        BY <2>2, <2>3, <2>5, <4>1, <4>2
      <4> QED BY <3>3, <4>1, <4>2, <4>3, FlowModes, IdOps
    <3> QED BY <3>2, <3>3
  <2>8. ASSUME ~q'.step_halt_if
        PROVE  /\ wb' # Bubble => Part(wb)'
               /\ ex' # Bubble => Part(ex)'
               /\ id' # Bubble => IdKind' = "pop" /\ id'.op = 1
    <3>1. /\ wb # Bubble => Part(wb)
          /\ ex # Bubble => Part(ex)
          /\ id # Bubble => IdKind = "pop" /\ id.op = 1
          /\ if_id(c) => ~Last_if
      BY <1>b, <2>1, <2>2, <2>8
    <3>2. wb' # Bubble => Part(wb)'
      <4>1. CASE wb' = wb
        BY <3>1, <4>1 DEF Part, Is
      <4>2. CASE wb' = ExToWb /\ ex # Bubble
        <5>1. wb'.kind = "pop" /\ wb'.op = 1
          BY <3>1, <4>2, ExToWbType DEF Part, Is, IllegalCsr, Csrs
        <5> QED BY <5>1 DEF Part, Is
      <4> QED BY <4>1, <4>2, FlowModes
    <3>3. ex' # Bubble => Part(ex)'
      <4>1. CASE ex' = ex
        BY <3>1, <4>1 DEF Part, Is
      <4>2. CASE ex' = IdToEx /\ id # Bubble
        BY <1>0, <2>5, <3>1, <4>2, StageOps DEF Part, Is
      <4> QED BY <4>1, <4>2, FlowModes
    <3>4. id' # Bubble => IdKind' = "pop" /\ id'.op = 1
      <4>1. CASE id' = id
        BY <1>a, <3>1, <4>1
      <4>2. CASE if_id(c)
        BY <1>0, <1>a, <3>1, <4>2, FlowModes, IdNext
      <4> QED BY <4>1, <4>2, FlowModes
    <3> QED BY <3>2, <3>3, <3>4
  <2> QED BY <2>6, <2>7, <2>8
<1> HIDE DEF PipelineInv
<1> QED BY <1>1, <1>2 DEF StepInv

\* An instruction that retires while single stepping is the only one.
LEMMA FlowStepped ==
  ASSUME PipelineInv, NEW c \in Cycles, Cycle(c), c.d \in Flowing
  PROVE  /\ fsm' = (IF wb_valid(c) /\ last_op(wb) /\ ~dm /\ regs.dcsr.step THEN "DEBUG_TAKEN"
                ELSE "FUNCTIONAL")
         /\ fsm' = "DEBUG_TAKEN" => cause' = "step" /\ wb' = Bubble /\ ex' = Bubble /\ id' = Bubble
                /\ ~q'.seq_wb /\ ~dm'
<1> USE DEF PipelineInv
<1>1. fsm = "FUNCTIONAL" /\ ~abort_op(c.i) /\ c.d = Chosen(c.i)
  BY FlowReasons
<1>2. ~(nmi /\ nmi_allowed)
  BY <1>1 DEF Chosen, Flowing
<1>3. pending_single_step(c) <=> wb_valid(c) /\ last_op(wb) /\ ~dm /\ regs.dcsr.step
  BY <1>1, <1>2 DEF pending_single_step, retires, Flowing
<1>4. fsm' = (IF pending_single_step(c) THEN "DEBUG_TAKEN" ELSE "FUNCTIONAL")
          /\ (pending_single_step(c) => cause' = "step")
  BY DEF Cycle, ctrl_fsm_ns, debug_cause_n, Flowing
<1>5. ASSUME wb_valid(c), last_op(wb), ~dm, regs.dcsr.step
      PROVE  wb' = Bubble /\ ex' = Bubble /\ id' = Bubble /\ ~q'.seq_wb /\ ~dm'
  <2>1. wb # Bubble
    BY <1>5, FlowReady
  <2>2. ex = Bubble /\ id = Bubble /\ (~q.step_halt_if => Part(wb))
    BY <1>5, <2>1 DEF StepInv
  <2>3. ~Part(wb)
    BY <1>5 DEF Part, Is, last_op, Ops
  <2>4. ~if_id(c)
    BY <2>2, <2>3, FlowReady
  <2>5. wb' = Bubble /\ ex' = Bubble /\ id' = Bubble
    BY <1>5, <2>2, <2>4, FlowModes
  <2> QED BY <1>5, <2>5, FlowSeq, FlowMoves
<1> QED BY <1>3, <1>4, <1>5

\* All of the invariant when instructions flow.
LEMMA FlowStep ==
  ASSUME PipelineInv, NEW c \in Cycles, Cycle(c), c.d \in Flowing
  PROVE  PipelineInv'
<1>1. TypeInv'
  BY TypeStep DEF PipelineInv
<1>2. fsm = "FUNCTIONAL" /\ fsm' \in {"FUNCTIONAL", "DEBUG_TAKEN"}
  BY FlowReasons, FlowStepped
<1>3. DebugInv'
  BY FlowStepped DEF DebugInv, Bubble, IsAccess, IsLoad
<1>4. SleepInv'
  <2>1. Is(wb, "wfi")' => ex' = Bubble
    <3>1. SUFFICES ASSUME wb'.kind = "wfi" PROVE ex' = Bubble
      BY DEF Is
    <3>2. wb' = ExToWb /\ ex # Bubble /\ ex_ready(c)
      BY <3>1, FlowModes, FlowReasons DEF Is, Bubble
    <3>3. ex.kind = "wfi"
      BY <3>1, <3>2, ExToWbType DEF PipelineInv
    <3> QED BY <3>2, <3>3, FlowIssue, FlowModes DEF Is
  <2> QED BY <1>2, <2>1 DEF SleepInv
<1>5. FlushInv'
  <2>1. ~q'.csr_flush_ack
    BY FlowMoves
  <2>2. ~stale'
    <3>1. ~stale /\ wb.kind \notin {"pmp", "fence", "fencei"}
      BY FlowReasons DEF PipelineInv, FlushInv, Bubble
    <3> QED BY <3>1 DEF Cycle
  <2> QED BY <2>1, <2>2 DEF FlushInv
<1>6. ResetInv' /\ WakeInv'
  BY <1>2, NextFlags DEF ResetInv, WakeInv
<1>7. DecodeInv' /\ PathInv' /\ SeqInv' /\ SubInv' /\ BranchInv' /\ JumpInv' /\ MretInv'
          /\ LevelInv' /\ StepInv'
  BY FlowDecode, FlowPath, FlowSeq, FlowSub, FlowBranches, FlowReturns, FlowLevel, FlowSingleStep
<1> QED BY <1>1, <1>3, <1>4, <1>5, <1>6, <1>7 DEF PipelineInv

-----------------------------------------------------------------------------
(* The invariant holds.                                                    *)

\* The invariant when the pipeline is emptied.
LEMMA ClearInv ==
  ASSUME PipelineInv, NEW c \in Cycles, Cycle(c), c.d \in Clearing
  PROVE  PipelineInv'
<1> USE DEF PipelineInv
<1>1. TypeInv'
  BY TypeStep
<1>2. /\ wb' = Bubble /\ ex' = Bubble /\ id' = Bubble /\ sub' = 0
      /\ fetch'.op = 1 /\ fetch'.u = fetch_priv_lvl(c)
      /\ ~q'.seq_wb /\ ~q'.csr_flush_ack /\ ~stale'
      /\ q'.ex_last = q.ex_last
      /\ q'.branch_taken => q.branch_taken /\ c.d = "enter_debug" /\ cause = "step"
  BY ClearStep
<1>3. fsm \in {"FUNCTIONAL", "DEBUG_TAKEN"} /\ (c.d = "enter_debug" <=> fsm = "DEBUG_TAKEN")
  BY ClearReasons DEF Clearing
<1>4. ~Is(ex, "mret")' /\ ~Is(ex, "taken")' /\ ~Is(wb, "mret")' /\ IdKind' = "bubble"
          /\ ~Returns(wb)' /\ ~Returns(ex)'
      /\ ~Is(wb, "wfi")' /\ ~IsAccess(wb)'
  BY <1>2 DEF Is, Bubble, IdKind, Returns, IsAccess, IsLoad
<1>5. DecodeInv'
  BY <1>2 DEF DecodeInv
<1>6. PathInv'
  BY <1>2 DEF PathInv, Follows, BeforeIf, BeforeId
<1>7. SeqInv'
  BY <1>2 DEF SeqInv, OldestOp
<1>8. SubInv'
  BY <1>2 DEF SubInv, BeforeId
<1>9. BranchInv'
  <2>1. q'.branch_taken => q'.ex_last
    <3>1. cause = "step" /\ c.d = "enter_debug" => id = Bubble
      BY <1>3 DEF DebugInv
    <3>2. q.branch_taken /\ ~q.ex_last => id # Bubble
      BY DEF BranchInv, SubInv
    <3> QED BY <1>2, <3>1, <3>2
  <2> QED BY <1>2, <1>4, <2>1 DEF BranchInv
<1>10. JumpInv' /\ MretInv'
  BY <1>2, <1>4 DEF JumpInv, MretInv
<1>11. LevelInv'
  <2>1. fetch_priv_lvl(c) = registers(c).u
    <3>1. CASE csr_save_cause(c) \/ c.d = "dret" \/ csr_restore_mret(c)
      BY <3>1 DEF fetch_priv_lvl
    <3>2. CASE ~(csr_save_cause(c) \/ c.d = "dret" \/ csr_restore_mret(c))
      <4>1. registers(c).u = regs.u
        <5>1. registers(c) \in {regs, Written(regs, wb.kind, c.i.dcsr)}
          BY <3>2 DEF registers
        <5>2. Written(regs, wb.kind, c.i.dcsr).u = regs.u
          BY DEF Written, TypeInv, RegisterFile
        <5> QED BY <5>1, <5>2
      <4>2. ~(mret_jump_id(c) /\ ~dm)
        BY DEF mret_jump_id, Clearing
      <4>3. ~mret_killed(c) => fetch.u = regs.u
        <5>1. SUFFICES ASSUME ~mret_killed(c) PROVE fetch.u = regs.u
          OBVIOUS
        <5>2. CASE c.d \in {"csr_flush", "fence_done", "exception"}
          <6>1. ~Returns(wb)
            BY <5>2, ClearReasons DEF Returns, Is, Bubble, exception_in_wb, IsAccess, IsLoad
          <6>2. IdKind # "mret" /\ ~Is(ex, "mret")
            BY <5>1, <5>2, Kills DEF mret_killed
          <6> QED BY <6>1, <6>2 DEF LevelInv, Level, Returns
        <5>3. CASE c.d = "enter_debug" /\ cause = "step"
          <6>1. wb = Bubble /\ ex = Bubble /\ IdKind # "mret"
            BY <1>3, <5>3 DEF DebugInv, IdKind
          <6> QED BY <6>1 DEF LevelInv, Level, Returns, Is, Bubble
        <5>4. CASE c.d = "enter_debug" /\ cause \in {"ebreak", "trigger"}
          <6>1. wb.kind # "mret"
            BY <1>3, <5>4 DEF DebugInv
          <6>2. "id" \in c.kill /\ "ex" \in c.kill
            BY <5>4, Kills
          <6>3. IdKind # "mret" /\ ~Is(ex, "mret")
            BY <5>1, <6>2 DEF mret_killed
          <6> QED BY <6>1, <6>3 DEF LevelInv, Level, Returns, Is
        <5>5. CASE c.d = "enter_debug" /\ cause \notin {"step", "ebreak", "trigger"}
          <6>1. c.kill = Stages
            BY <5>5, Kills
          <6>2. IdKind # "mret" /\ ~Is(ex, "mret") /\ ~Is(wb, "mret")
            BY <5>1, <6>1 DEF mret_killed, Stages
          <6> QED BY <6>2 DEF LevelInv, Level, Returns
        <5>6. c.d \notin {"nmi", "irq", "dret"}
          BY <3>2 DEF csr_save_cause
        <5> QED BY <5>2, <5>3, <5>4, <5>5, <5>6 DEF Clearing
      <4> QED BY <3>2, <4>1, <4>2, <4>3 DEF fetch_priv_lvl
    <3> QED BY <3>1, <3>2
  <2>2. regs' = registers(c)
    BY DEF Cycle
  <2> QED BY <1>2, <1>4, <2>1, <2>2 DEF LevelInv, Level
<1>12. StepInv'
  <2>1. dm' => ~q'.step_halt_if
    <3>1. dm' => c.d = "enter_debug" \/ (dm /\ c.d # "dret")
      BY DEF Cycle
    <3>2. c.d = "enter_debug" => ~q'.step_halt_if
      BY ClearStep, NextFlags DEF single_step_halt_if_n
    <3>3. dm => ~q'.step_halt_if
      BY NextFlags DEF single_step_halt_if_n, StepInv
    <3> QED BY <3>1, <3>2, <3>3
  <2> QED BY <1>2, <2>1 DEF StepInv
<1>13. DebugInv' /\ ResetInv' /\ SleepInv'
  <2>1. fsm' = (IF pending_single_step(c) THEN "DEBUG_TAKEN" ELSE "FUNCTIONAL")
            /\ (pending_single_step(c) => cause' = "step")
    BY DEF Cycle, ctrl_fsm_ns, debug_cause_n, Clearing
  <2>2. pending_single_step(c) => ~dm'
    BY <1>3 DEF Cycle, pending_single_step
  <2> QED BY <1>2, <1>4, <2>1, <2>2 DEF DebugInv, ResetInv, SleepInv
<1>14. FlushInv' /\ WakeInv'
  BY <1>2, <1>3, NextFlags DEF FlushInv, WakeInv
<1> HIDE DEF PipelineInv
<1> QED BY <1>1, <1>5, <1>6, <1>7, <1>8, <1>9, <1>10, <1>11, <1>12, <1>13, <1>14 DEF PipelineInv

\* What depends only on the stages, the program and the registers.
LEMMA SameStages ==
  ASSUME DecodeInv, PathInv, SeqInv, SubInv, BranchInv, JumpInv, MretInv, LevelInv, StepInv,
         prog' = prog, hard' = hard, regs' = regs, dm' = dm,
         wb' = wb, ex' = ex, id' = id, sub' = sub,
         fetch'.pc = fetch.pc, fetch'.op = fetch.op, fetch'.u = fetch.u,
         q'.branch_taken = q.branch_taken, q'.jump_taken = q.jump_taken,
         q'.step_halt_if = q.step_halt_if, q'.seq_wb = q.seq_wb, q'.ex_last = q.ex_last
  PROVE  DecodeInv' /\ PathInv' /\ SeqInv' /\ SubInv' /\ BranchInv' /\ JumpInv' /\ MretInv'
             /\ LevelInv' /\ StepInv'
<1> USE DEF IdKind, last_op, Ops, Hardened, Is
<1>1. DecodeInv'
  BY DEF DecodeInv, Executed
<1>2. PathInv'
  <2>1. (BranchKnown <=> BranchKnown') /\ (IdKnown <=> IdKnown') /\ IdToEx' = IdToEx
        /\ BeforeId' = BeforeId /\ BeforeIf' = BeforeIf
    BY DEF BranchKnown, IdKnown, JumpKnown, IdToEx, BeforeId, BeforeIf, LastOfId
  <2>2. \A x, pc, op : Follows(x, pc, op)' <=> Follows(x, pc, op)
    BY DEF Follows, After
  <2> QED BY <2>1, <2>2 DEF PathInv, Follows, After
<1>3. SeqInv'
  BY DEF SeqInv, OldestOp, IdToEx
<1>4. SubInv'
  BY DEF SubInv, JumpKnown, BeforeId
<1>5. BranchInv' /\ JumpInv' /\ MretInv'
  BY DEF BranchInv, JumpInv, MretInv, csr_write_in
<1>6. LevelInv' /\ StepInv'
  BY DEF LevelInv, Level, Returns, StepInv, Part
<1> QED BY <1>1, <1>2, <1>3, <1>4, <1>5, <1>6

\* The invariant when WB is held.
LEMMA HoldInv ==
  ASSUME PipelineInv, NEW c \in Cycles, Cycle(c), c.d \in Holding
  PROVE  PipelineInv'
<1> USE DEF PipelineInv
<1>1. TypeInv'
  BY TypeStep
<1>2. DecodeInv' /\ PathInv' /\ SeqInv' /\ SubInv' /\ BranchInv' /\ JumpInv' /\ MretInv'
          /\ LevelInv' /\ StepInv'
  <2>1. prog' = prog /\ hard' = hard
    BY DEF Cycle
  <2> QED BY <2>1, HoldStep, SameStages
<1>3. /\ c.d \in {"debug", "sync_debug", "fence", "sleep"} => fsm = "FUNCTIONAL"
             /\ c.d = Chosen(c.i)
      /\ c.d \in {"boot", "boot_debug"} => fsm = "RESET"
      /\ c.d = "asleep" => fsm = "SLEEP"
  BY Decided DEF TypeInv, Chosen, Holding
<1>4. DebugInv'
  <2>1. ~pending_single_step(c)
    <3>1. ~wb_valid(c)
      BY HoldStep
    <3>2. fsm = "FUNCTIONAL" => ~(nmi /\ nmi_allowed)
      BY <1>3 DEF Chosen, Holding
    <3> QED BY <3>1, <3>2 DEF pending_single_step, retires, Holding
  <2>2. fsm' = "DEBUG_TAKEN" => c.d \in {"boot_debug", "debug", "sync_debug"}
    BY <2>1 DEF Cycle, ctrl_fsm_ns
  <2>3. CASE c.d = "boot_debug"
    <3>1. wb = Bubble /\ ~q.seq_wb /\ ~dm
      BY <1>3, <2>3 DEF ResetInv, NoFlags, Flags
    <3>2. cause' = "haltreq"
      BY <2>1, <2>3 DEF Cycle, debug_cause_n
    <3> QED BY <3>1, <3>2, HoldStep DEF DebugInv, IsAccess, IsLoad, Bubble
  <2>4. CASE c.d = "debug"
    <3>1. ~q.seq_wb /\ ~IsAccess(wb) /\ ~dm
      BY <1>3, <2>4 DEF Chosen, async_debug_allowed, pending_async_debug, Quiescent,
         lsu_interruptible, sequence_interruptible
    <3>2. cause' = "haltreq"
      BY <2>1, <2>4 DEF Cycle, debug_cause_n
    <3> QED BY <3>1, <3>2, HoldStep DEF DebugInv, IsAccess, IsLoad
  <2>5. CASE c.d = "sync_debug"
    <3>1. wb.kind \in {"trigger", "ebreak"} /\ cause' = wb.kind
      BY <1>3, <2>1, <2>5 DEF Chosen, pending_sync_debug, Is, Cycle, debug_cause_n
    <3>2. wb # Bubble
      BY <3>1 DEF Bubble
    <3>3. wb.op = 1
      BY <3>1, <3>2 DEF DecodeInv, Ops, Hardened, TypeInv, Item
    <3>4. ~q.seq_wb
      BY <3>2, <3>3 DEF SeqInv, OldestOp
    <3>5. dm => wb.kind = "ebreak"
      BY <3>1, <3>2 DEF DecodeInv, Executed, Decoded, IllegalCsr, Csrs
    <3> QED BY <3>1, <3>4, <3>5, HoldStep DEF DebugInv, IsAccess, IsLoad
  <2> QED BY <2>2, <2>3, <2>4, <2>5 DEF DebugInv
<1>5. SleepInv'
  <2>1. Is(wb, "wfi")' => ex' = Bubble
    BY HoldStep DEF SleepInv, Is
  <2>2. fsm' = "SLEEP" => c.d \in {"sleep", "asleep"}
    BY DEF Cycle, ctrl_fsm_ns
  <2>3. c.d \in {"sleep", "asleep"} => Is(wb, "wfi")
    BY <1>3 DEF Chosen, SleepInv
  <2> QED BY <2>1, <2>2, <2>3, HoldStep DEF SleepInv, Is
<1>6. FlushInv'
  <2>1. ~q.csr_flush_ack
    <3>1. SUFFICES ASSUME q.csr_flush_ack PROVE FALSE
      OBVIOUS
    <3>2. wb = Bubble /\ fsm # "SLEEP"
      BY <3>1 DEF FlushInv
    <3>3. c.d \notin {"sync_debug", "fence", "sleep"}
      BY <1>3, <3>2 DEF Chosen, pending_sync_debug, fence_in_wb, Is, Bubble
    <3>4. c.d # "debug"
      BY <1>3, <3>1 DEF Chosen, async_debug_allowed, Quiescent
    <3>5. c.d \notin {"boot", "boot_debug"}
      BY <1>3, <3>1 DEF ResetInv, NoFlags, Flags
    <3> QED BY <1>3, <3>2, <3>3, <3>4, <3>5 DEF Holding
  <2> QED BY <2>1, HoldStep DEF FlushInv
<1>7. ResetInv' /\ WakeInv'
  <2>1. fsm' # "RESET"
    BY DEF Cycle, ctrl_fsm_ns
  <2>2. ~q'.woke_debug
    <3>1. SUFFICES ASSUME fsm = "SLEEP", c.i.debug_req PROVE FALSE
      BY NextFlags
    <3>2. wb.kind = "wfi" /\ wb # Bubble
      BY <3>1 DEF SleepInv, Is, Bubble
    <3>3. ~dm
      BY <3>2 DEF DecodeInv, Executed, Decoded
    <3>4. wake_from_sleep(c.i)
      BY <3>1, <3>3 DEF wake_from_sleep, pending_async_debug
    <3> QED BY <3>1, <3>4, Decided DEF Holding
  <2> QED BY <2>1, <2>2 DEF ResetInv, WakeInv
<1> HIDE DEF PipelineInv
<1> QED BY <1>1, <1>2, <1>4, <1>5, <1>6, <1>7 DEF PipelineInv

\* The invariant when only WB goes on.
LEMMA RetireInv ==
  ASSUME PipelineInv, NEW c \in Cycles, Cycle(c), c.d \in Retiring
  PROVE  PipelineInv'
<1> USE DEF PipelineInv
<1>1. TypeInv'
  BY TypeStep
<1>2. /\ fsm = IF c.d = "wake" THEN "SLEEP" ELSE "FUNCTIONAL"
      /\ wb.kind = IF c.d = "wake" THEN "wfi" ELSE "pmp"
      /\ wb_valid(c) /\ wb' = Bubble /\ ex' = ex /\ id' = id /\ sub' = sub
      /\ fetch'.pc = fetch.pc /\ fetch'.op = fetch.op /\ fetch'.u = fetch.u
      /\ regs' = regs /\ dm' = dm
      /\ q'.branch_taken = q.branch_taken /\ q'.jump_taken = q.jump_taken
      /\ q'.step_halt_if = q.step_halt_if
      /\ q'.ex_last = q.ex_last /\ last_op(wb) /\ ~q'.seq_wb
  BY RetireStep
<1>3. prog' = prog /\ hard' = hard /\ wb # Bubble
  BY <1>2 DEF Cycle, Bubble
<1>4. ~Returns(wb)' /\ ~Is(wb, "mret")' /\ ~csr_write_in(wb)' /\ ~Returns(wb) /\ ~IsAccess(wb)'
          /\ ~Is(wb, "wfi")'
  BY <1>2 DEF Returns, Is, Bubble, csr_write_in, Csrs, IsAccess, IsLoad
<1>5. /\ IdKind' = IdKind /\ IdToEx' = IdToEx /\ LastOfId' = LastOfId
      /\ (last_op(ex)' <=> last_op(ex)) /\ (Is(ex, "mret")' <=> Is(ex, "mret"))
             /\ (Returns(ex)' <=> Returns(ex))
      /\ Is(ex, "taken")' <=> Is(ex, "taken")
      /\ csr_write_in(ex)' <=> csr_write_in(ex)
      /\ BranchKnown' <=> BranchKnown
      /\ IdKnown' <=> IdKnown
      /\ JumpKnown' <=> JumpKnown
  BY <1>2, <1>3 DEF IdKind, IdToEx, LastOfId, last_op, Is, Returns, Ops, Hardened, csr_write_in,
     BranchKnown, IdKnown, JumpKnown
<1>6. DecodeInv'
  BY <1>2, <1>3, <1>5 DEF DecodeInv, Ops, Hardened
<1>7. PathInv'
  <2>1. BeforeId' = ex /\ (ex # Bubble => BeforeId = ex)
    BY <1>2 DEF BeforeId
  <2>2. BeforeIf' = (IF id # Bubble THEN LastOfId ELSE ex)
    BY <1>2, <1>5, <2>1 DEF BeforeIf
  <2>3. ASSUME NEW x, NEW pc, NEW op, Follows(x, pc, op) PROVE Follows(x, pc, op)'
    BY <2>3, <1>2, <1>3 DEF Follows, After, last_op, Ops, Hardened
  <2>4. (id' # Bubble /\ (BranchKnown \/ ~last_op(ex))') => Follows(BeforeId, id.pc, IdToEx.op)'
    <3>1. SUFFICES ASSUME id # Bubble, BranchKnown \/ ~last_op(ex), ex # Bubble
                   PROVE  Follows(BeforeId, id.pc, IdToEx.op)'
      BY <1>2, <1>5, <2>1 DEF Follows
    <3>2. Follows(ex, id.pc, IdToEx.op)
      BY <2>1, <3>1 DEF PathInv
    <3> QED BY <1>2, <1>5, <2>1, <2>3, <3>2 DEF Follows
  <2>5. (BranchKnown /\ IdKnown)' => Follows(BeforeIf, fetch.pc, fetch.op)'
    <3>1. SUFFICES ASSUME BranchKnown, IdKnown, BeforeIf' # Bubble
                   PROVE  Follows(BeforeIf, fetch.pc, fetch.op)'
      BY <1>5 DEF Follows
    <3>2. Follows(BeforeIf', fetch.pc, fetch.op)
      BY <2>1, <2>2, <3>1 DEF PathInv, BeforeIf
    <3>3. Follows(BeforeIf', fetch'.pc, fetch'.op)
      BY <1>2, <3>2
    <3> QED BY <1>2, <1>3, <3>3 DEF Follows, After, last_op, Ops, Hardened
  <2> QED BY <1>2, <2>4, <2>5 DEF PathInv, Follows
<1>8. SeqInv'
  <2>1. OldestOp' = 1
    BY <1>2, <1>3, <1>5, AfterWb DEF OldestOp, Follows
  <2> QED BY <1>2, <2>1 DEF SeqInv
<1>9. SubInv'
  <2>1. Hardened(IdKind)' <=> Hardened(IdKind)
    BY <1>3, <1>5 DEF Hardened
  <2>2. BeforeId' = ex /\ (ex # Bubble => BeforeId = ex)
    BY <1>2 DEF BeforeId
  <2>3. last_op(BeforeId)' <=> last_op(ex)
    BY <1>2, <1>5, <2>2 DEF last_op
  <2>4. (sub = 1 /\ ex # Bubble) => ex.kind = IdKind /\ ex.pc = id.pc /\ ex.op = 1
    BY DEF SubInv
  <2>5. sub = 1 => id # Bubble /\ Hardened(IdKind) /\ JumpKnown
    BY DEF SubInv
  <2>6. (ex # Bubble /\ ~last_op(ex) /\ ex.kind # "pop") => sub = 1
    BY <2>2 DEF SubInv
  <2> HIDE DEF PipelineInv
  <2> QED BY <1>2, <1>5, <2>1, <2>2, <2>3, <2>4, <2>5, <2>6 DEF SubInv
<1>10. BranchInv' /\ JumpInv' /\ MretInv'
  BY <1>2, <1>4, <1>5 DEF BranchInv, JumpInv, MretInv
<1>11. LevelInv' /\ StepInv'
  BY <1>2, <1>4, <1>5 DEF LevelInv, Level, StepInv, Part, Is
<1>12. DebugInv'
  <2>1. fsm' = "DEBUG_TAKEN" => pending_single_step(c) /\ cause' = "step"
    BY DEF Cycle, ctrl_fsm_ns, debug_cause_n, Retiring
  <2>2. pending_single_step(c) => ~dm /\ regs.dcsr.step
    BY DEF pending_single_step
  <2>3. ~dm /\ regs.dcsr.step => ex = Bubble /\ id = Bubble
    BY <1>2, <1>3 DEF StepInv
  <2> QED BY <1>2, <1>4, <2>1, <2>2, <2>3 DEF DebugInv
<1>13. SleepInv' /\ ResetInv' /\ fsm' \in {"FUNCTIONAL", "DEBUG_TAKEN"}
  <2>1. fsm' \in {"FUNCTIONAL", "DEBUG_TAKEN"}
    BY DEF Cycle, ctrl_fsm_ns, Retiring
  <2> QED BY <1>4, <2>1 DEF SleepInv, ResetInv
<1>14. FlushInv'
  <2>1. fsm' = "DEBUG_TAKEN" => cause' = "step"
    BY DEF Cycle, ctrl_fsm_ns, debug_cause_n, Retiring
  <2>2. stale' => q'.csr_flush_ack
    <3>1. c.d = "csr_write" => q'.csr_flush_ack
      BY NextFlags
    <3>2. c.d = "wake" => ~stale'
      BY <1>2 DEF FlushInv, Cycle
    <3> QED BY <3>1, <3>2 DEF Retiring
  <2> QED BY <1>2, <1>13, <2>1, <2>2 DEF FlushInv
<1>15. WakeInv'
  <2>1. SUFFICES ASSUME q'.woke_debug
            PROVE (fsm = "FUNCTIONAL" /\ ~dm /\ Quiescent /\ ~q.woke_irq /\ wb = Bubble)'
    BY DEF WakeInv
  <2>2. fsm = "SLEEP" /\ c.i.debug_req /\ ~q'.woke_irq /\ c.d = "wake"
    BY <1>2, <2>1, NextFlags DEF Retiring
  <2>3. fsm' = "FUNCTIONAL"
    BY <2>2 DEF Cycle, ctrl_fsm_ns, pending_single_step
  <2>4. ~dm
    BY <1>2, <1>3, <2>2 DEF DecodeInv, Executed, Decoded
  <2>5. ~asked'
    <3>1. ex = Bubble
      BY <1>2, <2>2 DEF SleepInv, Is
    <3>2. ~IsAccess(ex)
      BY <3>1 DEF IsAccess, IsLoad, Bubble
    <3> QED BY <3>2 DEF Cycle
  <2>6. ~q'.fencei_ack /\ ~q'.csr_flush_ack
    BY <1>2, <2>2, NextFlags DEF fencei_flush_req, Is
  <2>7. ~Is(wb, "fencei")'
    BY <1>2 DEF Is, Bubble
  <2> QED BY <1>2, <1>4, <2>2, <2>3, <2>4, <2>5, <2>6, <2>7
        DEF Quiescent, lsu_interruptible, fencei_ongoing, fencei_flush_req, sequence_interruptible
<1> HIDE DEF PipelineInv
<1> QED BY <1>1, <1>6, <1>7, <1>8, <1>9, <1>10, <1>11, <1>12, <1>13, <1>14, <1>15 DEF PipelineInv

\* Every step keeps the invariant.
LEMMA StepKeeps ==
  ASSUME PipelineInv, [Next]_vars
  PROVE  PipelineInv'
<1>1. CASE Next
  <2>1. PICK c \in Cycles : Cycle(c)
    BY <1>1 DEF Next
  <2>2. c.d \in Clearing \/ c.d \in Holding \/ c.d \in Retiring \/ c.d \in Flowing
    BY Classes DEF PipelineInv
  <2> QED BY <2>1, <2>2, ClearInv, HoldInv, RetireInv, FlowStep
<1>2. CASE UNCHANGED vars
  <2>1. /\ prog' = prog /\ hard' = hard /\ regs' = regs /\ dm' = dm /\ fsm' = fsm /\ cause' = cause
        /\ wb' = wb /\ ex' = ex /\ id' = id /\ sub' = sub /\ fetch' = fetch /\ q' = q
        /\ stale' = stale /\ asked' = asked /\ nmi' = nmi /\ irq_q' = irq_q
        /\ buffered' = buffered /\ held' = held
    BY <1>2 DEF vars
  <2>2. DecodeInv' /\ PathInv' /\ SeqInv' /\ SubInv' /\ BranchInv' /\ JumpInv' /\ MretInv'
            /\ LevelInv' /\ StepInv'
    BY <2>1, SameStages DEF PipelineInv
  <2>3. TypeInv'
    BY <2>1 DEF PipelineInv, TypeInv
  <2>4. DebugInv' /\ SleepInv' /\ FlushInv' /\ ResetInv'
    BY <2>1 DEF PipelineInv, DebugInv, SleepInv, FlushInv, ResetInv, IsAccess, IsLoad, Is
  <2>5. WakeInv'
    BY <2>1 DEF PipelineInv, WakeInv, Quiescent, lsu_interruptible, fencei_ongoing,
       fencei_flush_req,
       sequence_interruptible, IsAccess, IsLoad, Is
  <2> QED BY <2>2, <2>3, <2>4, <2>5 DEF PipelineInv
<1> QED BY <1>1, <1>2

\* It holds out of reset.
LEMMA InitHolds == Init => PipelineInv
<1> SUFFICES ASSUME Init PROVE PipelineInv
  OBVIOUS
<1>1. TypeInv
  <2>1. buffered \in 0 .. DEPTH
    BY DEF Init, DEPTH
  <2> QED BY <2>1, HartParameters, ScenarioParameters
          DEF Init, TypeInv, NoFlags, ResetRegisters, RegisterFile
<1>2. /\ IdKind = "bubble" /\ ~Is(ex, "mret") /\ ~Is(wb, "mret") /\ ~Is(ex, "taken")
             /\ ~Is(wb, "wfi")
      /\ ~Returns(wb) /\ ~Returns(ex)
      /\ ~q.seq_wb /\ ~q.csr_flush_ack /\ ~q.branch_taken /\ ~q.jump_taken /\ ~q.woke_debug
  BY DEF Init, IdKind, Is, Returns, Bubble, NoFlags, Flags
<1>3. DecodeInv /\ PathInv /\ SeqInv /\ SubInv
  BY <1>2 DEF Init, DecodeInv, PathInv, SeqInv, SubInv, Follows, BeforeIf, BeforeId, OldestOp
<1>4. BranchInv /\ JumpInv /\ MretInv
  BY <1>2 DEF Init, BranchInv, JumpInv, MretInv
<1>5. LevelInv /\ StepInv
  BY <1>2 DEF Init, LevelInv, Level, StepInv, ResetRegisters
<1>6. DebugInv /\ SleepInv /\ FlushInv /\ ResetInv /\ WakeInv
  BY <1>2 DEF Init, DebugInv, SleepInv, FlushInv, ResetInv, WakeInv
<1> QED BY <1>1, <1>3, <1>4, <1>5, <1>6 DEF PipelineInv

\* For every program, any delays and any events, the pipeline keeps its
\* invariant: what is in its stages is a stretch of the program, each
\* instruction once, decoded as it will be carried out and at its level.
THEOREM PipelineInvariant == Spec => []PipelineInv
BY InitHolds, StepKeeps, PTL DEF Spec

\* An instruction is carried out at the level it was fetched for, also when the
\* mret before it jumps early, is killed or retires (cs_registers.sv,
\* priv_lvl_if_ctrl_o).
THEOREM LevelsKept == Spec => []FetchedAtItsLevel
<1>1. PipelineInv => FetchedAtItsLevel
  BY DEF PipelineInv, LevelInv, FetchedAtItsLevel
<1> QED BY <1>1, PipelineInvariant, PTL

\* No instruction fetched before a write of a PMP register or a fence reaches WB
\* after it (controller_fsm.sv, csr_flush_ack_q).
THEOREM FlushSafe == Spec => []NothingStaleRuns
<1>1. PipelineInv => NothingStaleRuns
  BY DEF PipelineInv, FlushInv, NothingStaleRuns
<1> QED BY <1>1, PipelineInvariant, PTL

\* A debug request that woke the core enters debug mode in the next cycle,
\* although it may be gone by then (controller_fsm.sv, woke_to_debug_q).
THEOREM WakeEnters == Spec => WakeForDebugEnters
<1>1. PipelineInv /\ [Next]_vars => [q.woke_debug => fsm' = "DEBUG_TAKEN"]_vars
  <2>1. SUFFICES ASSUME PipelineInv, Next, q.woke_debug PROVE fsm' = "DEBUG_TAKEN"
    OBVIOUS
  <2>2. PICK c \in Cycles : Cycle(c)
    BY <2>1 DEF Next
  <2>3. fsm = "FUNCTIONAL" /\ ~dm /\ Quiescent /\ ~q.woke_irq
    BY <2>1 DEF PipelineInv, WakeInv
  <2>4. c.d = "debug"
    BY <2>1, <2>2, <2>3, Decided DEF Chosen, nmi_allowed, pending_async_debug, async_debug_allowed
  <2> QED BY <2>2, <2>4 DEF Cycle, ctrl_fsm_ns
<1> QED BY <1>1, PipelineInvariant, PTL DEF Spec, WakeForDebugEnters

-----------------------------------------------------------------------------
(* The refinement.                                                         *)

\* The state of the hart below: begun, and owing a stop.
Mid  == q.seq_wb \/ IsAccess(wb)
Owed == fsm = "DEBUG_TAKEN" /\ cause = "step"
Stepping == ~dm /\ regs.dcsr.step

\* The hart below names what the pipeline names.
LEMMA SameWords ==
  /\ HartBelow!Csrs = Csrs /\ HartBelow!Accesses = Accesses
  /\ HartBelow!ResetRegisters = ResetRegisters
  /\ \A k, u, d, s : HartBelow!Decoded(k, u, d, s) = Decoded(k, u, d, s)
  /\ \A k, u, d : HartBelow!IllegalCsr(k, u, d) <=> IllegalCsr(k, u, d)
  /\ \A r, k, d : HartBelow!Written(r, k, d) = Written(r, k, d)
  /\ \A r, a : HartBelow!Trapped(r, a) = Trapped(r, a) /\ HartBelow!Stopped(r, a) = Stopped(r, a)
  /\ \A r : /\ HartBelow!Returned(r) = Returned(r) /\ HartBelow!Resumed(r) = Resumed(r)
            /\ HartBelow!IrqEnabled(r) <=> IrqEnabled(r)
            /\ HartBelow!StepBlocks(r) <=> StepBlocks(r)
<1>1. HartBelow!Csrs = Csrs /\ HartBelow!Accesses = Accesses
  BY DEF HartBelow!Csrs, HartBelow!Accesses, Csrs, Accesses
<1>2. HartBelow!ResetRegisters = ResetRegisters
  BY DEF HartBelow!ResetRegisters, HartBelow!NoDcsr, ResetRegisters, NoDcsr
<1>3. \A k, u, d, s : HartBelow!Decoded(k, u, d, s) = Decoded(k, u, d, s)
  BY DEF HartBelow!Decoded, Decoded
<1>4. \A k, u, d : HartBelow!IllegalCsr(k, u, d) <=> IllegalCsr(k, u, d)
  BY DEF HartBelow!IllegalCsr, IllegalCsr, HartBelow!Csrs, Csrs
<1>5. \A r, k, d : HartBelow!Written(r, k, d) = Written(r, k, d)
  BY DEF HartBelow!Written, Written
<1>6. \A r, a : HartBelow!Trapped(r, a) = Trapped(r, a) /\ HartBelow!Stopped(r, a) = Stopped(r, a)
  BY DEF HartBelow!Trapped, HartBelow!Stopped, Trapped, Stopped
<1>7. \A r : /\ HartBelow!Returned(r) = Returned(r) /\ HartBelow!Resumed(r) = Resumed(r)
             /\ HartBelow!IrqEnabled(r) <=> IrqEnabled(r)
             /\ HartBelow!StepBlocks(r) <=> StepBlocks(r)
  BY DEF HartBelow!Returned, HartBelow!Resumed, HartBelow!IrqEnabled, HartBelow!StepBlocks,
     Returned, Resumed, IrqEnabled, StepBlocks
<1> QED BY <1>1, <1>2, <1>3, <1>4, <1>5, <1>6, <1>7

\* The instruction in WB is the one the hart is at.
LEMMA KindBelow ==
  ASSUME PipelineInv, wb # Bubble
  PROVE  HartBelow!Kind = wb.kind /\ pipe_pc = wb.pc
<1>1. pipe_pc = wb.pc /\ wb.u = regs.u /\ wb.kind = Executed(wb)
  BY DEF pipe_pc, PipelineInv, LevelInv, DecodeInv
<1> QED BY <1>1, SameWords DEF HartBelow!Kind, Executed

\* An instruction is done.
LEMMA DoneBelow ==
  ASSUME NEW next, NEW r, pipe_pc' = next, regs' = r, Owed' <=> Stepping, prog' = prog, dm' = dm
  PROVE  HartBelow!Done(next, r)
<1>1. Owed' = Stepping
  BY DEF Owed, Stepping
<1> QED BY <1>1 DEF HartBelow!Done, HartBelow!Stepping, Owed, Stepping

\* A step in which the hart does nothing.
LEMMA StutterBelow ==
  ASSUME pipe_pc' = pipe_pc, regs' = regs, prog' = prog, dm' = dm, Mid' <=> Mid, Owed' <=> Owed
  PROVE  UNCHANGED HartBelow!vars
<1>1. Mid' = Mid /\ Owed' = Owed
  BY DEF Mid, Owed
<1> QED BY <1>1 DEF HartBelow!vars, Mid, Owed

\* A step in which it begins an instruction.
LEMMA BeginBelow ==
  ASSUME pipe_pc' = pipe_pc, regs' = regs, prog' = prog, dm' = dm, ~Mid, Mid', ~Owed, ~Owed'
  PROVE  HartBelow!Next
<1>1. Mid' = TRUE /\ Owed' = Owed
  BY DEF Mid, Owed
<1> QED BY <1>1 DEF HartBelow!Begin, HartBelow!Next, Mid, Owed

\* A cycle that empties the pipeline is a trap, a debug entry or exit, the end
\* of a fence, or nothing.
LEMMA ClearBelow ==
  ASSUME PipelineInv, NEW c \in Cycles, Cycle(c), c.d \in Clearing
  PROVE  [HartBelow!Next]_(HartBelow!vars)
<1> USE DEF PipelineInv
<1>1. /\ pipe_pc' = branch_addr(c) /\ ~Mid' /\ prog' = prog
      /\ wb' = Bubble
  <2>1. wb' = Bubble /\ ex' = Bubble /\ id' = Bubble /\ fetch'.pc = branch_addr(c) /\ ~q'.seq_wb
    BY ClearStep
  <2>2. pipe_pc' = branch_addr(c)
    BY <2>1 DEF pipe_pc, Behind
  <2>3. ~Mid'
    BY <2>1 DEF Mid, IsAccess, IsLoad, Bubble
  <2> QED BY <2>1, <2>2, <2>3 DEF Cycle
<1>2. regs' = registers(c) /\ dm' = (c.d = "enter_debug" \/ (dm /\ c.d # "dret"))
  BY DEF Cycle
<1>3. /\ Answered(c.i)
      /\ c.d # "enter_debug" => fsm = "FUNCTIONAL" /\ c.d = Chosen(c.i)
      /\ c.d = "enter_debug" => fsm = "DEBUG_TAKEN"
  BY ClearReasons, Decided DEF Clearing
<1>4. Owed' <=> pending_single_step(c)
  BY DEF Cycle, ctrl_fsm_ns, debug_cause_n, Clearing, Owed
<1>5. c.d # "enter_debug" => ~Owed
  BY <1>3 DEF Owed
<1>6. c.d # "enter_debug" /\ c.d # "dret" => dm' = dm
  BY <1>2 DEF TypeInv
<1>7. Stepping => (pending_single_step(c) <=> /\ fsm = "FUNCTIONAL"
                                              /\ retires(c) \/ c.d = "irq" \/ (nmi /\ nmi_allowed))
  BY DEF pending_single_step, Stepping
<1>8. ~Stepping => ~pending_single_step(c)
  BY DEF pending_single_step, Stepping
<1>9. c.d \in {"exception", "fence_done", "dret"} => wb_valid(c)
  BY <1>3, ClearReasons, Kills, Halts DEF wb_valid, stopped, Clearing, Bubble
<1>10. CASE c.d \in {"nmi", "irq"}
  <2>1. ~Mid /\ ~dm /\ ~StepBlocks(regs) /\ (c.d = "irq" => IrqEnabled(regs))
    BY <1>10, ClearReasons DEF Mid, Clearing
  <2>2. regs' = Trapped(regs, pipe_pc)
    <3>1. ~csr_restore_mret(c) /\ ~wb_valid(c) /\ csr_save_cause(c) /\ c.d # "enter_debug"
              /\ c.d # "dret"
      BY <1>10, Kills DEF csr_restore_mret, wb_valid, stopped, csr_save_cause, Stages
    <3> QED BY <1>2, <3>1 DEF registers
  <2>3. Owed' <=> Stepping
    BY <1>3, <1>4, <1>7, <1>8, <1>10 DEF Chosen
  <2>4. pipe_pc' = (IF c.d = "nmi" THEN TRAP_NMI ELSE TRAP_IRQ)
    BY <1>1, <1>10 DEF branch_addr
  <2>5. HartBelow!Done(IF c.d = "nmi" THEN TRAP_NMI ELSE TRAP_IRQ, Trapped(regs, pipe_pc))
    BY <1>1, <1>6, <1>10, <2>2, <2>3, <2>4, DoneBelow
  <2>6. HartBelow!Interrupt
    <3>1. Mid' = FALSE
      BY <1>1
    <3> QED BY <1>10, <2>1, <2>5, <3>1, SameWords DEF HartBelow!Interrupt, Mid
  <2> QED BY <1>5, <1>10, <2>6 DEF HartBelow!Next, Owed
<1>11. CASE c.d = "exception"
  <2>1. wb # Bubble /\ exception_in_wb(c.i)
    BY <1>11, ClearReasons DEF Clearing
  <2>2. HartBelow!Kind = wb.kind /\ pipe_pc = wb.pc
    BY <2>1, KindBelow
  <2>3. /\ wb.kind \in Accesses \cup {"fault", "ecall", "ebreak", "pop"}
        /\ wb.kind = "ebreak" => ~dm /\ ~regs.dcsr.ebreak
        /\ wb.kind \in {"fault", "ecall", "ebreak"} \/ (IsAccess(wb) /\ c.i.answer = "fault")
    BY <2>1 DEF exception_in_wb, Is, IsAccess, IsLoad, Accesses
  <2>4. last_op(wb) \/ abort_op(c.i)
    <3>1. wb.kind \in {"fault", "ecall", "ebreak"} => Ops(wb.kind) = 1
      BY DEF Ops, Hardened
    <3>2. wb.op \in {1, 2} /\ wb.op <= Ops(wb.kind)
      BY <2>1 DEF TypeInv, Item, DecodeInv
    <3> QED BY <2>3, <3>1, <3>2 DEF last_op, abort_op
  <2>5. Owed' <=> Stepping
    BY <1>3, <1>4, <1>7, <1>8, <1>9, <1>11, <2>4 DEF retires
  <2>6. regs' = IF dm THEN regs ELSE Trapped(regs, pipe_pc)
    <3>1. ~csr_restore_mret(c) /\ wb.kind \notin Csrs
      BY <2>3 DEF csr_restore_mret, Is, Accesses, Csrs
    <3>2. csr_save_cause(c) <=> ~dm
      BY <1>11 DEF csr_save_cause
    <3> QED BY <1>2, <1>11, <3>1, <3>2 DEF registers
  <2>7. pipe_pc' = IF dm THEN DM_EXC ELSE TRAP_EXC
    BY <1>1, <1>11 DEF branch_addr
  <2>8. IF dm THEN HartBelow!Done(DM_EXC, regs)
            ELSE HartBelow!Done(TRAP_EXC, Trapped(regs, pipe_pc))
    BY <1>1, <1>6, <1>11, <2>5, <2>6, <2>7, DoneBelow
  <2>9. HartBelow!Trap
    <3>1. Mid' = FALSE
      BY <1>1
    <3> QED BY <2>2, <2>3, <2>8, <3>1, SameWords DEF HartBelow!Trap, Mid
  <2> QED BY <1>5, <1>11, <2>9 DEF HartBelow!Next, Owed
<1>12. CASE c.d = "fence_done"
  <2>1. wb.kind \in {"fence", "fencei"} /\ wb # Bubble
    BY <1>12, ClearReasons DEF Clearing, Bubble
  <2>2. HartBelow!Kind = wb.kind /\ pipe_pc = wb.pc
    BY <2>1, KindBelow
  <2>3. last_op(wb)
    BY <2>1 DEF Ops, Hardened, TypeInv, Item, DecodeInv, last_op
  <2>4. pipe_pc' = Succ[pipe_pc]
    BY <1>1, <1>12, <2>1, <2>2, <2>3, AfterWb DEF branch_addr, Follows, After
  <2>5. regs' = regs
    BY <1>2, <1>12, <2>1 DEF registers, csr_save_cause, csr_restore_mret, Is, Csrs
  <2>6. Owed' <=> Stepping
    BY <1>3, <1>4, <1>7, <1>8, <1>9, <1>12, <2>3 DEF retires
  <2>7. HartBelow!Done(Succ[pipe_pc], regs)
    BY <1>1, <1>6, <1>12, <2>4, <2>5, <2>6, DoneBelow
  <2>8. HartBelow!Sequential
    <3>1. Mid' = FALSE
      BY <1>1
    <3> QED BY <2>1, <2>2, <2>7, <3>1 DEF HartBelow!Sequential, Mid
  <2> QED BY <1>5, <1>12, <2>8 DEF HartBelow!Next, Owed
<1>13. CASE c.d = "dret"
  <2>1. wb.kind = "dret" /\ wb # Bubble
    BY <1>13, ClearReasons DEF Clearing, Bubble
  <2>2. HartBelow!Kind = wb.kind /\ pipe_pc = wb.pc
    BY <2>1, KindBelow
  <2>3. dm
    BY <2>1 DEF DecodeInv, Executed, Decoded, IllegalCsr, Csrs
  <2>4. ~Mid
    <3>1. wb.op = 1
      BY <2>1 DEF DecodeInv, Ops, Hardened, TypeInv, Item
    <3> QED BY <2>1, <3>1 DEF Mid, SeqInv, OldestOp, IsAccess, IsLoad
  <2>5. ~Owed /\ ~Owed'
    BY <1>4, <1>5, <1>8, <1>13, <2>3 DEF Stepping
  <2>6. pipe_pc' = regs.dpc /\ dm' = FALSE
    BY <1>1, <1>2, <1>13 DEF branch_addr
  <2>7. regs' = Resumed(regs)
    <3>1. ~csr_save_cause(c) /\ ~csr_restore_mret(c) /\ wb.kind \notin Csrs
      BY <1>13, <2>1 DEF csr_save_cause, csr_restore_mret, Is, Csrs
    <3> QED BY <1>2, <1>13, <3>1 DEF registers
  <2>8. Mid' = Mid /\ Owed' = Owed
    BY <1>1, <2>4, <2>5 DEF Mid, Owed
  <2>9. HartBelow!Resume
    BY <1>1, <2>1, <2>2, <2>6, <2>7, <2>8, SameWords DEF HartBelow!Resume, Mid, Owed
  <2> QED BY <1>5, <1>13, <2>9 DEF HartBelow!Next, Owed
<1>14. CASE c.d = "csr_flush"
  <2>1. wb = Bubble /\ ~q.seq_wb
    BY <1>14, ClearReasons DEF Clearing
  <2>2. pipe_pc' = pipe_pc
    BY <1>1, <1>14, <2>1 DEF branch_addr, pipe_pc
  <2>3. regs' = regs
    BY <1>2, <1>14, <2>1 DEF registers, csr_save_cause, csr_restore_mret, Is, Bubble, Csrs
  <2>4. ~Mid
    BY <2>1 DEF Mid, IsAccess, IsLoad, Bubble
  <2>5. ~Owed'
    BY <1>3, <1>4, <1>14, <2>1 DEF pending_single_step, retires, wb_valid, Chosen
  <2> QED BY <1>1, <1>5, <1>6, <1>14, <2>2, <2>3, <2>4, <2>5, StutterBelow
<1>15. CASE c.d = "enter_debug"
  <2>1. /\ cause # "none" /\ ~q.seq_wb /\ ~IsAccess(wb)
        /\ cause = "step" => wb = Bubble /\ ex = Bubble /\ id = Bubble
        /\ cause \in {"ebreak", "trigger"} => wb.kind = cause
        /\ dm => cause = "ebreak"
    BY <1>3, <1>15 DEF DebugInv
  <2>2. ~Mid /\ ~Owed'
    BY <1>3, <1>4, <1>15, <2>1 DEF Mid, pending_single_step
  <2>3. pipe_pc' = DM_HALT /\ dm' = TRUE
    BY <1>1, <1>2, <1>15 DEF branch_addr
  <2>4. ~dm => regs' = Stopped(regs, pipe_pc)
    <3>1. dpc_n = pipe_pc
      BY <2>1 DEF dpc_n, pipe_pc, Behind
    <3>2. ~dm => csr_save_cause(c)
      BY <1>15 DEF csr_save_cause
    <3>3. ~csr_restore_mret(c) /\ ~(wb.kind \in Csrs /\ wb_valid(c))
      <4>1. CASE cause = "step"
        BY <2>1, <4>1 DEF csr_restore_mret, wb_valid
      <4>2. CASE cause \in {"ebreak", "trigger"}
        BY <2>1, <4>2 DEF csr_restore_mret, Is, Csrs
      <4>3. CASE cause \notin {"step", "ebreak", "trigger"}
        BY <1>15, <4>3, Kills DEF csr_restore_mret, wb_valid, stopped, Stages
      <4> QED BY <4>1, <4>2, <4>3
    <3> QED BY <1>2, <1>15, <3>1, <3>2, <3>3 DEF registers
  <2>5. dm => HartBelow!Kind = "ebreak" /\ regs' = regs
    <3>1. SUFFICES ASSUME dm PROVE HartBelow!Kind = "ebreak" /\ regs' = regs
      OBVIOUS
    <3>2. wb.kind = "ebreak" /\ wb # Bubble
      BY <2>1, <3>1 DEF Bubble
    <3>3. ~csr_save_cause(c) /\ ~csr_restore_mret(c) /\ wb.kind \notin Csrs
      BY <1>15, <3>1, <3>2 DEF csr_save_cause, csr_restore_mret, Is, Csrs
    <3>4. regs' = regs
      BY <1>2, <1>15, <3>3 DEF registers
    <3> QED BY <3>2, <3>4, KindBelow
  <2>6. Mid' = Mid /\ Owed' = FALSE
    BY <1>1, <2>2 DEF Mid, Owed
  <2>7. HartBelow!Stop
    BY <1>1, <2>2, <2>3, <2>4, <2>5, <2>6, SameWords DEF HartBelow!Stop, Mid, Owed, TypeInv
  <2> QED BY <2>7 DEF HartBelow!Next
<1> HIDE DEF PipelineInv
<1> QED BY <1>10, <1>11, <1>12, <1>13, <1>14, <1>15 DEF Clearing

\* A cycle that holds WB is nothing.
LEMMA HoldBelow ==
  ASSUME PipelineInv, NEW c \in Cycles, Cycle(c), c.d \in Holding
  PROVE  UNCHANGED HartBelow!vars
<1>1. prog' = prog
  BY DEF Cycle
<1>2. pipe_pc' = pipe_pc /\ (Mid' <=> Mid)
  BY HoldStep DEF pipe_pc, Behind, Mid, IsAccess, IsLoad, Is
<1>3. fsm # "DEBUG_TAKEN"
  BY Decided DEF Holding
<1>4. ~Owed'
  <2>1. ~pending_single_step(c)
    <3>1. ~wb_valid(c)
      BY HoldStep
    <3>2. fsm = "FUNCTIONAL" => ~(nmi /\ nmi_allowed)
      BY Decided DEF Chosen, Holding
    <3> QED BY <3>1, <3>2 DEF pending_single_step, retires, Holding
  <2>2. fsm' = "DEBUG_TAKEN" => c.d \in {"boot_debug", "debug", "sync_debug"}
    BY <2>1 DEF Cycle, ctrl_fsm_ns
  <2>3. c.d \in {"boot_debug", "debug"} => cause' = "haltreq"
    BY <2>1 DEF Cycle, debug_cause_n
  <2>4. c.d = "sync_debug" => cause' \in {"trigger", "ebreak"}
    <3>1. c.d = "sync_debug" => cause' = wb.kind
      BY <2>1 DEF Cycle, debug_cause_n
    <3>2. c.d = "sync_debug" => pending_sync_debug
      BY Decided DEF PipelineInv, TypeInv, Chosen
    <3> QED BY <3>1, <3>2 DEF pending_sync_debug, Is
  <2> QED BY <2>2, <2>3, <2>4 DEF Owed
<1> QED BY <1>1, <1>2, <1>3, <1>4, HoldStep, StutterBelow DEF Owed

\* A cycle in which only WB goes on carries out a wfi or a CSR write.
LEMMA RetireBelow ==
  ASSUME PipelineInv, NEW c \in Cycles, Cycle(c), c.d \in Retiring
  PROVE  HartBelow!Next
<1> USE DEF PipelineInv
<1>1. /\ fsm = IF c.d = "wake" THEN "SLEEP" ELSE "FUNCTIONAL"
      /\ wb.kind = IF c.d = "wake" THEN "wfi" ELSE "pmp"
      /\ wb_valid(c) /\ last_op(wb) /\ wb' = Bubble /\ ~q'.seq_wb
      /\ regs' = regs /\ dm' = dm
  BY RetireStep
<1>2. wb # Bubble /\ prog' = prog
  BY <1>1 DEF Bubble, Cycle
<1>3. HartBelow!Kind = wb.kind /\ pipe_pc = wb.pc
  BY <1>2, KindBelow
<1>4. pipe_pc' = Succ[pipe_pc]
  <2>1. pipe_pc' = Behind
    BY RetireStep DEF pipe_pc, Behind
  <2> QED BY <1>1, <1>2, <1>3, <2>1, AfterWb DEF Follows, After
<1>5. ~Mid'
  BY <1>1 DEF Mid, IsAccess, IsLoad, Bubble
<1>6. ~Owed /\ (Owed' <=> Stepping)
  <2>1. Owed' <=> pending_single_step(c)
    BY DEF Cycle, ctrl_fsm_ns, debug_cause_n, Retiring, Owed
  <2>2. c.d = "wake" => ~Stepping
    BY <1>1, <1>2 DEF DecodeInv, Executed, Decoded, Stepping
  <2>3. c.d = "csr_write" => (pending_single_step(c) <=> Stepping)
    BY <1>1 DEF pending_single_step, retires, Stepping
  <2> QED BY <1>1, <2>1, <2>2, <2>3 DEF Owed, Retiring, pending_single_step, Stepping
<1>7. HartBelow!Done(Succ[pipe_pc], regs)
  BY <1>1, <1>2, <1>4, <1>6, DoneBelow
<1>8. Mid' = FALSE
  BY <1>5
<1>9. c.d = "wake" => HartBelow!Sequential
  BY <1>1, <1>3, <1>7, <1>8 DEF HartBelow!Sequential, Mid
<1>10. c.d = "csr_write" => HartBelow!Write
  <2>1. SUFFICES ASSUME c.d = "csr_write" PROVE HartBelow!Write
    OBVIOUS
  <2>2. PICK d \in Dcsrs : TRUE
    BY HartParameters
  <2>3. HartBelow!Kind = "pmp" /\ "pmp" \in HartBelow!Csrs
    BY <1>1, <1>3, <2>1 DEF HartBelow!Csrs
  <2>4. HartBelow!Written(regs, "pmp", d) = regs
    BY DEF HartBelow!Written
  <2> QED BY <1>7, <1>8, <2>3, <2>4 DEF HartBelow!Write, Mid
<1> QED BY <1>6, <1>9, <1>10 DEF HartBelow!Next, Retiring, Owed

\* The oldest instruction after the step.
LEMMA FlowPc ==
  ASSUME PipelineInv, NEW c \in Cycles, Cycle(c), c.d \in Flowing
  PROVE  pipe_pc' = IF wb # Bubble /\ ~wb_valid(c) THEN wb.pc ELSE Behind
<1> USE DEF PipelineInv
<1>1. CASE wb # Bubble /\ ~wb_valid(c)
  BY <1>1, FlowModes DEF pipe_pc
<1>2. CASE (wb = Bubble \/ wb_valid(c)) /\ ex # Bubble
  <2>1. CASE ex_ready(c)
    <3>1. wb' = ExToWb
      BY <1>2, <2>1, FlowModes
    <3>2. ExToWb # Bubble /\ ExToWb.pc = ex.pc
      BY <1>2 DEF ExToWb, TypeInv, Item, Bubble, Kinds, Csrs, Accesses
    <3> QED BY <1>2, <3>1, <3>2 DEF pipe_pc, Behind
  <2>2. CASE ~ex_ready(c)
    BY <1>2, <2>2, FlowModes DEF pipe_pc, Behind
  <2> QED BY <2>1, <2>2
<1>3. CASE (wb = Bubble \/ wb_valid(c)) /\ ex = Bubble /\ id # Bubble
  <2>1. wb' = Bubble
    BY <1>3, FlowModes
  <2>2. c.d # "branch" /\ ~IdKilled(c)
    BY <1>3, FlowBranch DEF IdKilled
  <2>3. CASE id_ex(c)
    <3>1. ex' = IdToEx
      BY <2>3, FlowModes
    <3>2. IdToEx # Bubble /\ IdToEx.pc = id.pc
      BY <1>3 DEF IdToEx, Bubble
    <3> QED BY <1>3, <2>1, <3>1, <3>2 DEF pipe_pc, Behind
  <2>4. CASE ~id_ex(c)
    <3>1. ~if_id(c)
      BY <1>3, <2>4, FlowModes
    <3>2. ex' = Bubble /\ id' = id
      BY <1>3, <2>2, <2>4, <3>1, FlowModes
    <3> QED BY <1>3, <2>1, <3>2 DEF pipe_pc, Behind
  <2> QED BY <2>3, <2>4
<1>4. CASE (wb = Bubble \/ wb_valid(c)) /\ ex = Bubble /\ id = Bubble
  <2>1. wb' = Bubble /\ ex' = Bubble
    BY <1>4, FlowModes
  <2>2. c.d = "none"
    BY <1>4, FlowBranch, FlowJump DEF Flowing
  <2>3. CASE if_id(c)
    <3>1. id' = IfToId
      BY <2>3, FlowModes
    <3>2. IfToId # Bubble /\ IfToId.pc = fetch.pc
      BY DEF IfToId, Bubble
    <3> QED BY <1>4, <2>1, <3>1, <3>2 DEF pipe_pc, Behind
  <2>4. CASE ~if_id(c)
    <3>1. id' = Bubble /\ fetch'.pc = fetch.pc
      BY <1>4, <2>2, <2>4, FlowModes
    <3> QED BY <1>4, <2>1, <3>1 DEF pipe_pc, Behind
  <2> QED BY <2>3, <2>4
<1> QED BY <1>1, <1>2, <1>3, <1>4

\* An instruction that leaves WB is carried out.
LEMMA FlowDone ==
  ASSUME PipelineInv, NEW c \in Cycles, Cycle(c), c.d \in Flowing, wb_valid(c), last_op(wb)
  PROVE  HartBelow!Sequential \/ HartBelow!Write \/ HartBelow!Jump \/ HartBelow!Return
<1> USE DEF PipelineInv
<1>1. wb # Bubble /\ HartBelow!Kind = wb.kind /\ pipe_pc = wb.pc
  BY FlowReady, KindBelow
<1>2. pipe_pc' = After(wb)
  BY <1>1, FlowPc, AfterWb DEF Follows
<1>3. prog' = prog /\ dm' = dm
  BY FlowMoves DEF Cycle
<1>4. Owed' <=> Stepping
  BY FlowStepped DEF Owed, Stepping
<1>5. HartBelow!Done(After(wb), regs')
  BY <1>2, <1>3, <1>4, DoneBelow
<1>6. regs' = (IF Returns(wb) THEN Returned(regs)
               ELSE IF wb.kind \in Csrs THEN Written(regs, wb.kind, c.i.dcsr) ELSE regs)
  BY FlowRegs
<1>7. Mid' \in BOOLEAN
  <2>1. q'.seq_wb \in BOOLEAN
    BY FlowStep DEF TypeInv, Flags
  <2> QED BY <2>1 DEF Mid
<1>8. CASE wb.kind \in {"alu", "untaken", "pop", "load", "store"}
  <2>1. After(wb) = Succ[pipe_pc] /\ regs' = regs
    BY <1>1, <1>6, <1>8 DEF After, Returns, Is, Csrs
  <2> QED BY <1>1, <1>5, <1>7, <1>8, <2>1, SameWords DEF HartBelow!Sequential, Mid, Accesses
<1>9. CASE wb.kind \in {"epc", "ie", "dcsr"}
  <2>1. After(wb) = Succ[pipe_pc] /\ regs' = Written(regs, wb.kind, c.i.dcsr)
    BY <1>1, <1>6, <1>9 DEF After, Returns, Is, Csrs
  <2>2. PICK d \in Dcsrs : Written(regs, wb.kind, c.i.dcsr) = Written(regs, wb.kind, d)
    <3>1. CASE wb.kind = "dcsr"
      BY <3>1, CycleParts, InputParts DEF Is
    <3>2. CASE wb.kind # "dcsr"
      BY <1>9, <3>2, HartParameters DEF Written
    <3> QED BY <3>1, <3>2
  <2>3. HartBelow!Done(Succ[pipe_pc], HartBelow!Written(regs, HartBelow!Kind, d))
    BY <1>1, <1>5, <2>1, <2>2, SameWords
  <2>4. HartBelow!Kind \in HartBelow!Csrs
    BY <1>1, <1>9, SameWords DEF Csrs
  <2> QED BY <1>7, <2>3, <2>4 DEF HartBelow!Write, Mid
<1>10. CASE wb.kind \in {"taken", "jump"}
  <2>1. After(wb) = Target[pipe_pc] /\ regs' = regs
    BY <1>1, <1>6, <1>10 DEF After, Returns, Is, Csrs
  <2> QED BY <1>1, <1>5, <1>7, <1>10, <2>1 DEF HartBelow!Jump, Mid
<1>11. CASE wb.kind = "mret"
  <2>1. After(wb) = regs.mepc /\ regs' = Returned(regs)
    BY <1>6, <1>11 DEF After, Returns, Is
  <2> QED BY <1>1, <1>5, <1>7, <1>11, <2>1, SameWords DEF HartBelow!Return, Mid
<1> HIDE DEF PipelineInv
<1> QED BY <1>1, <1>8, <1>9, <1>10, <1>11, FlowReasons

\* When instructions flow at most one is carried out or begun.
LEMMA FlowBelow ==
  ASSUME PipelineInv, NEW c \in Cycles, Cycle(c), c.d \in Flowing
  PROVE  [HartBelow!Next]_(HartBelow!vars)
<1> USE DEF PipelineInv
<1>1. ~Owed
  BY FlowReasons DEF Owed
<1>2. prog' = prog /\ dm' = dm
  BY FlowMoves DEF Cycle
<1>3. CASE wb_valid(c) /\ last_op(wb)
  <2>1. HartBelow!Sequential \/ HartBelow!Write \/ HartBelow!Jump \/ HartBelow!Return
    BY <1>3, FlowDone
  <2> QED BY <1>1, <2>1 DEF HartBelow!Next, Owed
<1>4. CASE ~(wb_valid(c) /\ last_op(wb))
  <2>1. ~Owed'
    BY <1>4, FlowStepped DEF Owed
  <2>2. pipe_pc' = pipe_pc /\ (Mid => Mid')
    <3>1. CASE wb # Bubble /\ ~wb_valid(c)
      <4>1. wb' = wb
        BY <3>1, FlowModes
      <4> QED BY <3>1, <4>1, FlowPc, FlowSeq DEF pipe_pc, Mid, IsAccess, IsLoad, Is
    <3>2. CASE wb = Bubble
      <4>1. ~wb_valid(c) /\ ~IsAccess(wb)
        BY <3>2, FlowReady DEF IsAccess, IsLoad, Bubble
      <4> QED BY <3>2, <4>1, FlowPc, FlowSeq DEF pipe_pc, Mid
    <3>3. CASE wb # Bubble /\ wb_valid(c) /\ ~last_op(wb)
      <4>1. Behind = wb.pc
        BY <3>3, AfterWb DEF Follows
      <4> QED BY <3>3, <4>1, FlowPc, FlowSeq DEF pipe_pc, Mid
    <3> QED BY <1>4, <3>1, <3>2, <3>3
  <2>3. regs' = regs
    <3>1. CASE ~wb_valid(c)
      BY <3>1, FlowFields
    <3>2. CASE wb_valid(c) /\ ~last_op(wb)
      <4>1. wb # Bubble
        BY <3>2, FlowReady
      <4>2. wb.kind \notin Csrs
        BY <3>2, <4>1 DEF Csrs, last_op, Ops, Hardened, DecodeInv, TypeInv, Item
      <4> QED BY <3>2, <4>2, FlowRegs DEF Returns
    <3> QED BY <1>4, <3>1, <3>2
  <2>4. CASE Mid' <=> Mid
    BY <1>1, <1>2, <2>1, <2>2, <2>3, <2>4, StutterBelow
  <2>5. CASE ~(Mid' <=> Mid)
    BY <1>1, <1>2, <2>1, <2>2, <2>3, <2>5, BeginBelow
  <2> QED BY <2>4, <2>5
<1> QED BY <1>3, <1>4

\* A step of the pipeline is one of the hart, or none.
LEMMA StepBelow ==
  ASSUME PipelineInv, [Next]_vars
  PROVE  [HartBelow!Next]_(HartBelow!vars)
<1>1. CASE Next
  <2>1. PICK c \in Cycles : Cycle(c)
    BY <1>1 DEF Next
  <2>2. c.d \in Clearing \/ c.d \in Holding \/ c.d \in Retiring \/ c.d \in Flowing
    BY Classes DEF PipelineInv
  <2> QED BY <2>1, <2>2, ClearBelow, HoldBelow, RetireBelow, FlowBelow
<1>2. CASE UNCHANGED vars
  <2>1. /\ prog' = prog /\ regs' = regs /\ dm' = dm /\ fsm' = fsm /\ cause' = cause
        /\ wb' = wb /\ ex' = ex /\ id' = id /\ fetch' = fetch /\ q' = q
    BY <1>2 DEF vars
  <2>2. pipe_pc' = pipe_pc /\ (Mid' <=> Mid) /\ (Owed' <=> Owed)
    BY <2>1 DEF pipe_pc, Behind, Mid, Owed, IsAccess, IsLoad, Is
  <2> QED BY <2>1, <2>2, StutterBelow
<1> QED BY <1>1, <1>2

\* Out of reset so is the hart.
LEMMA InitBelow == Init => HartBelow!Init
<1> SUFFICES ASSUME Init PROVE HartBelow!Init
  OBVIOUS
<1>1. pipe_pc = BOOT /\ regs = HartBelow!ResetRegisters /\ dm = FALSE
  BY SameWords DEF Init, pipe_pc, Behind, Bubble
<1>2. Mid = FALSE /\ Owed = FALSE
  BY DEF Init, Mid, Owed, IsAccess, IsLoad, Is, Bubble, NoFlags, Flags
<1> QED BY <1>1, <1>2 DEF HartBelow!Init, Mid, Owed

\* The pipeline implements the hart: for every program, all delays of memory,
\* register hazards, interrupts, NMIs, debug requests and single steps, in
\* whatever cycle they meet (controller_fsm.sv 740-1249).
THEOREM HartRefined == Spec => HartSpec
BY InitBelow, StepBelow, PipelineInvariant, PTL DEF Spec, HartSpec, HartBelow!Spec
=============================================================================
