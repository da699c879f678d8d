----------------------------- MODULE FetchPath -----------------------------
(***************************************************************************)
(* Instruction fetch: the alignment buffer, the prefetcher, the MPU gate   *)
(* and the OBI interface, in front of a memory that grants when it likes   *)
(* and answers in order.  A step is one clock cycle.  The controller jumps *)
(* at any moment, also while words of the old stream are on their way.     *)
(*                                                                         *)
(* A word is a number, a halfword address is twice that plus the half.  Of *)
(* a word's contents only the set of halves is kept whose low bits are 11, *)
(* those that begin a 32-bit instruction.                                  *)
(***************************************************************************)
EXTENDS Naturals, Sequences, FiniteSets

CONSTANTS
  Words,             \* bound: words in the address space, which wraps
  ALBUF_DEPTH,       \* words the buffer holds (3 in the core)
  MAX_OUTSTANDING,   \* transfers in flight (2 in the core)
  Targets            \* bound: jumps, [addr : halfword, ptr : is a pointer fetched there]

\* The buffer takes three words to work, and one more than are in flight.
ASSUME FetchPathParameters ==
  /\ MAX_OUTSTANDING \in Nat \ {0}
  /\ ALBUF_DEPTH \in Nat /\ ALBUF_DEPTH > 2 /\ ALBUF_DEPTH > MAX_OUTSTANDING
  /\ Words \in Nat /\ Words > ALBUF_DEPTH
  /\ \A t \in Targets : /\ t.addr \in 0..(2 * Words - 1) /\ t.ptr \in BOOLEAN
                        /\ t.ptr => t.addr % 2 = 0

VARIABLES
  boot,                  \* the controller: "RESET", "DEBUG" (halted out of reset) or "RUN"
  addr_q,                \* halfword address of the instruction to emit
  is_ptr_q,              \* it is a pointer (CLIC, mret or table jump)
  buf,                   \* resp_q and valid_q: slot -> its word, or none
  rptr, wptr,
  aligned_q, complete_q, \* where the next word to arrive begins
  instr_cnt_q,           \* instructions in the buffer, one cycle late
  pop_q,                 \* an instruction was emitted in the last cycle
  n_flush_q,             \* answers to drop
  outstanding_cnt_q,
  ptr_fetch_accepted_q,
  branch_wait,           \* the prefetcher's state_q is BRANCH_WAIT
  trans_addr_q, trans_ptr_access_q,
  mpu_state,             \* MPU gate: "IDLE", "ERR_WAIT" or "ERR_RESP"
  obi_a_req_q,           \* OBI interface: the request held in state REGISTERED, or none
  \* the memory, and the words as a monitor labels them
  slave,                 \* granted and unanswered
  blocked,               \* the fetch the MPU gate will answer itself, or none
  answered,              \* in the last cycle the memory answered, or owed nothing
  quiet                  \* in the last cycle IF took what came, without jump or sleep

vars == <<boot, addr_q, is_ptr_q, buf, rptr, wptr, aligned_q, complete_q, instr_cnt_q, pop_q,
          n_flush_q, outstanding_cnt_q, ptr_fetch_accepted_q, branch_wait, trans_addr_q,
          trans_ptr_access_q, mpu_state, obi_a_req_q, slave, blocked, answered, quiet>>

Halves  == 0..(2 * Words - 1)
Half(a) == a % 2
Word(a) == a \div 2
Slots   == 0..(ALBUF_DEPTH - 1)
Next1(slot) == (slot + 1) % ALBUF_DEPTH
rptr2   == Next1(rptr)
The(S)  == CHOOSE x \in S : TRUE

\* A word on its way: stale once the core has jumped away from it.
Flights == [word : 0..(Words - 1), stale : BOOLEAN]
\* A word that has arrived, and whether the MPU refused its fetch.
Entries == [word : 0..(Words - 1), stale : BOOLEAN, wide : SUBSET {0, 1}, fault : BOOLEAN]

Arrived(f, wide, fault) == [word |-> f.word, stale |-> f.stale, wide |-> wide, fault |-> fault]

-----------------------------------------------------------------------------
(* The signals of a cycle: pc_set is the jump the controller makes, or     *)
(* none; a jump kills IF.  rvalid: the memory answers, with contents wide; *)
(* bad: the MPU refuses the address the prefetcher shows.                  *)
Mut_Cnt == instr_cnt_q

Cnt == instr_cnt_q - (IF pop_q THEN 1 ELSE 0)

Mut_fetch_valid_o(pc_set, instr_req) ==
  /\ instr_req /\ outstanding_cnt_q < MAX_OUTSTANDING
  /\ Cnt = 0 \/ (Cnt = 1 /\ outstanding_cnt_q = 0) \/ pc_set # {}

Mut2_fetch_valid_o(pc_set, instr_req) ==
  /\ instr_req /\ outstanding_cnt_q < MAX_OUTSTANDING
  /\ ~(ptr_fetch_accepted_q /\ pc_set = {})
  /\ Cnt \in {0, 1} \/ pc_set # {}

fetch_valid_o(pc_set, instr_req) ==
  /\ instr_req /\ outstanding_cnt_q < MAX_OUTSTANDING
  /\ ~(ptr_fetch_accepted_q /\ pc_set = {})
  /\ Cnt = 0 \/ (Cnt = 1 /\ outstanding_cnt_q = 0) \/ pc_set # {}

trans_addr_o(pc_set) ==
  IF pc_set # {} THEN Word(The(pc_set).addr)
  ELSE IF branch_wait THEN trans_addr_q ELSE (trans_addr_q + 1) % Words

fetch_ptr_access_o(pc_set) ==
  IF pc_set # {} THEN The(pc_set).ptr ELSE branch_wait /\ trans_ptr_access_q

Fetch(pc_set) == [word |-> trans_addr_o(pc_set), stale |-> FALSE]

mpu_block_bus(bad) == mpu_state # "IDLE" \/ bad

\* The fetch handed to the OBI interface, which takes one unless it holds one.
bus_trans(pc_set, instr_req, bad) ==
  IF fetch_valid_o(pc_set, instr_req) /\ ~mpu_block_bus(bad) THEN {Fetch(pc_set)} ELSE {}

Refused(pc_set, instr_req, bad) ==
  fetch_valid_o(pc_set, instr_req) /\ mpu_state = "IDLE" /\ bad

fetch_ready(pc_set, instr_req, bad) ==
  \/ Refused(pc_set, instr_req, bad)
  \/ fetch_valid_o(pc_set, instr_req) /\ obi_a_req_q = {} /\ mpu_state = "IDLE"

obi_req(pc_set, instr_req, bad) ==
  IF obi_a_req_q # {} THEN obi_a_req_q ELSE bus_trans(pc_set, instr_req, bad)

resp(rvalid, wide) ==
  IF mpu_state = "ERR_RESP" THEN {Arrived(f, wide, TRUE) : f \in blocked}
  ELSE IF rvalid THEN {Arrived(Head(slave), wide, FALSE)} ELSE {}

resp_gated(rvalid, wide) == IF n_flush_q > 0 THEN {} ELSE resp(rvalid, wide)

outstanding_cnt_n(up, down) ==
  outstanding_cnt_q + (IF up THEN 1 ELSE 0) - (IF down THEN 1 ELSE 0)

\* The gate answers a refused fetch once it is the only one left.
mpu_state_n(refused, pend) ==
  IF refused \/ mpu_state = "ERR_WAIT" THEN IF pend = 1 THEN "ERR_RESP" ELSE "ERR_WAIT"
  ELSE "IDLE"

-----------------------------------------------------------------------------
(* The instruction shown to the IF stage: one word, or the ends of two.    *)
First(in)  == IF buf[rptr] # {} THEN buf[rptr] ELSE in
Second(in) == IF buf[rptr2] # {} THEN buf[rptr2] ELSE in

is_compressed(in) == Half(addr_q) \notin The(First(in)).wide /\ ~is_ptr_q
Unaligned(in) == Half(addr_q) = 1 /\ ~is_ptr_q /\ ~is_compressed(in)

instr_valid_o(pc_set, in) ==
  /\ pc_set = {} /\ First(in) # {}
  /\ Unaligned(in) => (buf[rptr2] # {} \/ (buf[rptr] # {} /\ in # {}))

Mut_fault(in) == The(First(in)).fault

fault(in) == The(First(in)).fault \/ (Unaligned(in) /\ The(Second(in)).fault)

\* Emitting moves past the word unless its upper half is still to come.
Advances(in) == Half(addr_q) = 1 \/ ~is_compressed(in)

addr_n(in) == (addr_q + IF is_compressed(in) THEN 1 ELSE 2) % (2 * Words)

buf_n(in, emit) ==
  LET written == IF in = {} THEN buf ELSE [buf EXCEPT ![wptr] = in]
  IN  IF emit /\ Advances(in) THEN [written EXCEPT ![rptr] = {}] ELSE written

\* Instructions that the arriving word completes, and where the next begins.
n_incoming_ins(in) ==
  LET w == The(in).wide
  IN  IF in = {} THEN 0
      ELSE IF aligned_q THEN IF w \cap {0, 1} = {} THEN 2 ELSE 1
      ELSE (IF complete_q THEN 0 ELSE 1) + (IF 1 \in w THEN 0 ELSE 1)

Mut_aligned_n(pc_set, in) ==
  IF pc_set # {} THEN Half(The(pc_set).addr) = 0
  ELSE IF in = {} THEN aligned_q ELSE 1 \notin The(in).wide

aligned_n(pc_set, in) ==
  IF pc_set # {} THEN Half(The(pc_set).addr) = 0
  ELSE IF in = {} \/ (aligned_q /\ 0 \in The(in).wide) THEN aligned_q
  ELSE 1 \notin The(in).wide

complete_n(pc_set, in) ==
  IF pc_set # {} THEN Half(The(pc_set).addr) = 1
  ELSE IF in = {} \/ (aligned_q /\ 0 \in The(in).wide) THEN complete_q
  ELSE 1 \notin The(in).wide

instr_cnt_n(pc_set, in) == IF pc_set # {} THEN 0 ELSE Cnt + n_incoming_ins(in)

Mut_n_flush_n(pc_set, down) ==
  IF pc_set # {} THEN outstanding_cnt_q
  ELSE IF down /\ n_flush_q > 0 THEN n_flush_q - 1 ELSE n_flush_q

n_flush_n(pc_set, down) ==
  IF pc_set # {} THEN outstanding_cnt_q - (IF down THEN 1 ELSE 0)
  ELSE IF down /\ n_flush_q > 0 THEN n_flush_q - 1 ELSE n_flush_q

-----------------------------------------------------------------------------
Init ==
  /\ boot = "RESET" /\ addr_q = 0 /\ is_ptr_q = FALSE
  /\ buf = [s \in Slots |-> {}] /\ rptr = 0 /\ wptr = 0
  /\ aligned_q = FALSE /\ complete_q = FALSE
  /\ instr_cnt_q = 0 /\ pop_q = FALSE /\ n_flush_q = 0 /\ outstanding_cnt_q = 0
  /\ ptr_fetch_accepted_q = FALSE /\ branch_wait = FALSE
  /\ trans_addr_q = 0 /\ trans_ptr_access_q = FALSE
  /\ mpu_state = "IDLE" /\ obi_a_req_q = {} /\ slave = <<>> /\ blocked = {}
  /\ answered = TRUE /\ quiet = FALSE

\* The controller fetches nothing before it boots or while it sleeps, never
\* jumps asleep, and out of reset may go straight to debug mode.
Controller(pc_set, instr_req) ==
  /\ boot = "RESET" => (pc_set = {} => ~instr_req)
  /\ boot = "DEBUG" => pc_set # {}
  /\ (boot # "RESET" /\ pc_set # {}) => instr_req
  /\ \A t \in pc_set : t.ptr => boot = "RUN"
  /\ boot' = IF pc_set = {} THEN boot ELSE IF instr_req THEN "RUN" ELSE "DEBUG"

\* The words on their way are of the old stream once the core jumps.
Aged(pc_set, f) == [f EXCEPT !.stale = @ \/ pc_set # {}]

Cycle(pc_set, instr_req, ready, gnt, rvalid, wide, bad) ==
  LET in    == resp_gated(rvalid, wide)
      down  == resp(rvalid, wide) # {}
      emit  == instr_valid_o(pc_set, in) /\ ready
      up    == fetch_ready(pc_set, instr_req, bad)
      req   == obi_req(pc_set, instr_req, bad)
      left  == IF rvalid THEN Tail(slave) ELSE slave
      aged  == {Aged(pc_set, f) : f \in obi_a_req_q}
      onbus == IF obi_a_req_q # {} THEN aged ELSE req
      ref   == Refused(pc_set, instr_req, bad)
  IN
  /\ Controller(pc_set, instr_req)
  /\ addr_q' = IF pc_set # {} THEN The(pc_set).addr ELSE IF emit THEN addr_n(in) ELSE addr_q
  /\ is_ptr_q' = IF pc_set # {} THEN The(pc_set).ptr ELSE is_ptr_q /\ ~emit
  /\ buf' = IF pc_set # {} THEN [s \in Slots |-> {}] ELSE buf_n(in, emit)
  /\ rptr' = IF pc_set # {} THEN 0 ELSE IF emit /\ Advances(in) THEN rptr2 ELSE rptr
  /\ wptr' = IF pc_set # {} THEN 0 ELSE IF in # {} THEN Next1(wptr) ELSE wptr
  /\ aligned_q' = aligned_n(pc_set, in)
  /\ complete_q' = complete_n(pc_set, in)
  /\ instr_cnt_q' = instr_cnt_n(pc_set, in)
  /\ pop_q' = emit
  /\ n_flush_q' = n_flush_n(pc_set, down)
  /\ outstanding_cnt_q' = outstanding_cnt_n(up, down)
  /\ ptr_fetch_accepted_q' = IF up /\ fetch_ptr_access_o(pc_set) THEN TRUE
                             ELSE ptr_fetch_accepted_q /\ pc_set = {}
  /\ branch_wait' = ((pc_set # {} \/ branch_wait) /\ ~up)
  /\ trans_addr_q' = IF pc_set # {} \/ up THEN trans_addr_o(pc_set) ELSE trans_addr_q
  /\ trans_ptr_access_q' = IF pc_set # {} \/ up THEN fetch_ptr_access_o(pc_set)
                           ELSE trans_ptr_access_q
  /\ mpu_state' = mpu_state_n(ref, outstanding_cnt_n(up, down))
  /\ obi_a_req_q' = IF gnt THEN {} ELSE onbus
  /\ slave' = [i \in DOMAIN left |-> Aged(pc_set, left[i])]
                \o (IF gnt /\ onbus # {} THEN <<The(onbus)>> ELSE <<>>)
  /\ blocked' = IF ref THEN {Fetch(pc_set)}
                ELSE IF mpu_state = "ERR_WAIT" THEN {Aged(pc_set, f) : f \in blocked} ELSE {}
  /\ answered' = (rvalid \/ slave = <<>>)
  /\ quiet' = (pc_set = {} /\ instr_req /\ ready)

Jumps == {{}} \cup {{t} : t \in Targets}

\* A clock edge with these inputs from the core, and any from the memory and the PMP.
Tick(pc_set, instr_req, ready) ==
  \E gnt, rvalid, bad \in BOOLEAN, wide \in SUBSET {0, 1} :
    /\ rvalid => slave # <<>>
    /\ gnt => obi_req(pc_set, instr_req, bad) # {}
    /\ wide # {} => resp_gated(rvalid, wide) # {}
    /\ bad => Refused(pc_set, instr_req, bad)
    /\ Cycle(pc_set, instr_req, ready, gnt, rvalid, wide, bad)

Next == \E pc_set \in Jumps, instr_req, ready \in BOOLEAN : Tick(pc_set, instr_req, ready)

Spec == Init /\ [][Next]_vars

\* The clock runs; the memory grants what keeps waiting and answers what it granted.
Fairness == WF_vars(Tick({}, TRUE, TRUE)) /\ []<>(obi_a_req_q = {}) /\ []<>answered

FairSpec == Spec /\ Fairness

-----------------------------------------------------------------------------
AsSeq(S) == IF S = {} THEN <<>> ELSE <<The(S)>>

\* The fetches on their way, oldest first.
InFlight == slave \o AsSeq(obi_a_req_q) \o AsSeq(blocked)

Rvalids == {FALSE, slave # <<>>}
Gated   == {resp_gated(rvalid, wide) : rvalid \in Rvalids, wide \in SUBSET {0, 1}}

\* What the IF stage is shown lies at the address it is shown with, in the
\* stream of the last jump, whether it comes from the buffer, the bus or both.
OwnInstruction ==
  \A in \in Gated :
    instr_valid_o({}, in) =>
      LET lo == The(First(in))  hi == The(Second(in))
      IN  /\ lo.word = Word(addr_q) /\ ~lo.stale
          /\ Unaligned(in) => (hi.word = (lo.word + 1) % Words /\ ~hi.stale)

\* An instruction is reported as refused iff a word it reaches into was.
FaultIsOwn ==
  \A in \in Gated :
    instr_valid_o({}, in) =>
      LET reach == {Word(addr_q)} \cup
                   (IF is_ptr_q THEN {}
                    ELSE {Word((addr_n(in) + 2 * Words - 1) % (2 * Words))})
      IN  fault(in) <=> \E e \in in \cup UNION {buf[s] : s \in Slots} : e.word \in reach /\ e.fault

\* The halves of the buffer at which the instructions begin that also end in it.
Held == Cardinality({s \in Slots : buf[s] # {}})
Width(h) == IF h % 2 \in The(buf[(rptr + Word(h)) % ALBUF_DEPTH]).wide THEN 2 ELSE 1
AreBegun(S) ==
  \A h \in 0..(2 * Held - 1) :
    h \in S <=> /\ h = Half(addr_q) \/ \E g \in S : g + Width(g) = h
                /\ h + Width(h) <= 2 * Held

\* The bookkeeping of the prefetcher is exact, though it is kept from the words
\* as they come in and corrected a cycle late (pop_q): the count that decides
\* about fetching is the number of instructions in the buffer; a word never
\* arrives at a full slot, although nothing holds it back; and nothing is
\* fetched or held beyond a pointer until the jump to where it points.
CountsExact ==
  /\ ~(is_ptr_q \/ ptr_fetch_accepted_q) =>
       /\ instr_cnt_q >= (IF pop_q THEN 1 ELSE 0)
       /\ \E S \in SUBSET (0..(2 * Held - 1)) : AreBegun(S) /\ Cnt = Cardinality(S)
  /\ \A in \in Gated : in # {} => buf[wptr] = {}
  /\ ptr_fetch_accepted_q => Held + Len(InFlight) - n_flush_q = (IF is_ptr_q THEN 1 ELSE 0)

\* If the core keeps taking instructions and does not jump, they keep coming.
InstructionsKeepComing ==
  <>[]quiet => []<>(pop_q \/ ptr_fetch_accepted_q)
=============================================================================
