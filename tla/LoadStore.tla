----------------------------- MODULE LoadStore -----------------------------
(***************************************************************************)
(* The load/store unit of cv32e40s_load_store_unit.sv between the EX and   *)
(* WB stages, with the watchpoint gate, the MPU gate and the bus side of   *)
(* module DataObi.  A transfer has the class its checks give it: OK,       *)
(* FAULT (PMP or PMA) or WPT (watchpoint).  The controller is present as   *)
(* the events that halt or kill EX and WB, under its own guards.           *)
(***************************************************************************)
EXTENDS DataObi

CONSTANT Instructions  \* bound: sequences of one transfer, or of two if split

ASSUME LoadStoreParameters ==
  /\ DEPTH = 2
  /\ \A t \in Transfers : t.class \in {"OK", "FAULT", "WPT"}
  /\ \A x \in Instructions : x \in Seq(Transfers) /\ x # <<>>

VARIABLES
  ex,             \* EX: "bubble", "other" or "lsu", with the transfers of a load or store
  split_q,        \* the second transfer of ex is being presented
  wb,             \* WB: "bubble", "other" or "lsu"
  wb_status_q,    \* lsu_valid_q and the status it keeps, or "none"
  ctrl,           \* the controller: "FUNCTIONAL", "DEBUG_TAKEN" or "FLUSH"
  cnt_q,          \* transfers accepted and not answered, as the LSU counts
  trans_valid_q,  \* a request of EX has been presented for a cycle
  wpt_state,      \* WPT gate
  mpu_state,      \* MPU gate
  \* a monitor between the core and the gates
  due,            \* accepted transfers that have not been answered
  issued          \* the transfer EX presents has been accepted

lsuVars == <<ex, split_q, wb, wb_status_q, ctrl, cnt_q, trans_valid_q, wpt_state, mpu_state, due, issued>>
vars == <<lsuVars, obiVars>>

Offers == {[kind |-> k, xs |-> <<>>] : k \in {"bubble", "other"}} \cup
          {[kind |-> "lsu", xs |-> x] : x \in Instructions}

ExIsLsu  == ex.kind = "lsu"
Transfer == ex.xs[IF split_q THEN 2 ELSE 1]

-----------------------------------------------------------------------------
(* Responses: of the bus through the filter, and of the two gates.         *)
mpu_resp_valid(rvalid) == resp_valid_o(rvalid) \/ mpu_state = "ERR_RESP"
resp_valid(rvalid)     == mpu_resp_valid(rvalid) \/ wpt_state = "MATCH_RESP"
mpu_status             == IF mpu_state = "ERR_RESP" THEN "FAULT" ELSE "OK"
Status                 == IF wpt_state = "MATCH_RESP" THEN "WPT" ELSE mpu_status
WbStatus               == IF wb_status_q # "none" THEN wb_status_q ELSE Status

(* The controller's decision in this cycle, ev being what else happens:    *)
(* an interrupt or NMI ("kill_all") and a debug request ("debug") wait     *)
(* until the LSU is interruptible; an instruction in WB that is not a load *)
(* or store may halt EX, with ("flush") or without ("stall") a flush in    *)
(* the next cycle, hold the pipeline ("fence") or kill EX ("kill").        *)
Mut_interruptible_o == cnt_q = 0

interruptible_o == ~trans_valid_q /\ cnt_q = 0

Events ==
  IF ctrl # "FUNCTIONAL" THEN {"none"}
  ELSE {"none"} \cup (IF interruptible_o THEN {"kill_all", "debug"} ELSE {})
                \cup (IF wb = "other" THEN {"stall", "flush", "fence", "kill"} ELSE {})

exception_in_wb     == wb # "bubble" /\ WbStatus = "FAULT"
trigger_match_in_wb == wb # "bubble" /\ WbStatus = "WPT"

Quiet(ev) == ctrl = "FUNCTIONAL" /\ ev \notin {"kill_all", "debug"}

halt_all(ev) == ev = "debug" \/ (Quiet(ev) /\ trigger_match_in_wb)
halt_wb(ev)  == halt_all(ev) \/ ev = "fence"
halt_ex(ev)  == halt_wb(ev) \/ ev \in {"stall", "flush"}
kill_wb(ev)  == ctrl = "DEBUG_TAKEN" \/ ev = "kill_all"
kill_ex(ev)  == \/ kill_wb(ev) \/ ctrl = "FLUSH" \/ ev = "kill"
                \/ Quiet(ev) /\ ~trigger_match_in_wb /\ exception_in_wb

ctrl_n(ev) ==
  IF halt_all(ev) THEN "DEBUG_TAKEN" ELSE IF ev = "flush" THEN "FLUSH" ELSE "FUNCTIONAL"

-----------------------------------------------------------------------------
(* The request of EX and how it passes the gates.                          *)
valid_0_i(ev) == ExIsLsu /\ ~halt_ex(ev) /\ ~kill_ex(ev)

trans_valid(ev) == valid_0_i(ev) /\ cnt_q < DEPTH

Caught(ev) == trans_valid(ev) /\ wpt_state = "IDLE" /\ Transfer.class = "WPT"

mpu_trans_valid(ev) == trans_valid(ev) /\ wpt_state = "IDLE" /\ ~Caught(ev)

Faulting(ev) == mpu_trans_valid(ev) /\ mpu_state = "IDLE" /\ Transfer.class = "FAULT"

Mut_bus_req(ev) == IF mpu_trans_valid(ev) /\ mpu_state = "IDLE" THEN {Transfer} ELSE {}

bus_req(ev) ==
  IF mpu_trans_valid(ev) /\ mpu_state = "IDLE" /\ ~Faulting(ev) THEN {Transfer} ELSE {}

filter_ready_o(gnt) == Room /\ buffer_ready_o(Transfer, gnt)

trans_ready(ev, gnt) ==
  \/ Caught(ev) \/ Faulting(ev)
  \/ wpt_state = "IDLE" /\ mpu_state = "IDLE" /\ filter_ready_o(gnt)

count_up(ev, gnt)    == trans_valid(ev) /\ trans_ready(ev, gnt)

Mut_next_cnt(ev, gnt, rvalid) ==
  IF resp_valid(rvalid) THEN cnt_q - 1 ELSE Count(cnt_q, count_up(ev, gnt), FALSE)

next_cnt(ev, gnt, rvalid) == Count(cnt_q, count_up(ev, gnt), resp_valid(rvalid))

Mut_one_txn_pend_n(ev, gnt, rvalid) == next_cnt(ev, gnt, rvalid) = 0

one_txn_pend_n(ev, gnt, rvalid) == next_cnt(ev, gnt, rvalid) = 1

-----------------------------------------------------------------------------
(* The gates: a caught transfer is consumed, everything after it is held,  *)
(* and it is answered when it is the only one left.                        *)
wpt_state_n(ev, gnt, rvalid) ==
  IF Caught(ev) \/ wpt_state = "MATCH_WAIT"
  THEN IF one_txn_pend_n(ev, gnt, rvalid) THEN "MATCH_RESP" ELSE "MATCH_WAIT"
  ELSE "IDLE"

Mut_mpu_state_n(ev, gnt, rvalid) ==
  IF Faulting(ev) /\ one_txn_pend_n(ev, gnt, rvalid) THEN "ERR_RESP"
  ELSE IF Faulting(ev) THEN "ERR_WAIT" ELSE IF mpu_state = "ERR_WAIT" THEN "ERR_RESP" ELSE "IDLE"

mpu_state_n(ev, gnt, rvalid) ==
  IF Faulting(ev) \/ mpu_state = "ERR_WAIT"
  THEN IF one_txn_pend_n(ev, gnt, rvalid) THEN "ERR_RESP" ELSE "ERR_WAIT"
  ELSE "IDLE"

-----------------------------------------------------------------------------
(* The handshakes of EX and WB: a transfer moves to WB in lock step with   *)
(* the answer of the one before it.                                        *)
wb_ready_o(ev, rvalid) ==
  kill_wb(ev) \/ ((cnt_q = 0 \/ resp_valid(rvalid)) /\ ~halt_wb(ev))

Mut_done_0(ev, gnt, rvalid) ==
  (~valid_0_i(ev) \/ count_up(ev, gnt)) /\ wb_ready_o(ev, rvalid)

done_0(ev, gnt, rvalid) ==
  /\ ~valid_0_i(ev) \/ cnt_q \notin {0, 1} \/ count_up(ev, gnt)
  /\ wb_ready_o(ev, rvalid)

valid_0_o(ev, gnt) == valid_0_i(ev) /\ (cnt_q \notin {0, 1} \/ count_up(ev, gnt))

lsu_split_0_o(ev) == valid_0_i(ev) /\ ~split_q /\ Len(ex.xs) = 2

ctrl_update(ev, gnt, rvalid) == done_0(ev, gnt, rvalid) /\ valid_0_i(ev)

ex_valid_o(ev, gnt) ==
  /\ IF ExIsLsu THEN valid_0_o(ev, gnt) ELSE ex.kind = "other"
  /\ ~halt_ex(ev) /\ ~kill_ex(ev)

ex_ready_o(ev, gnt, rvalid) ==
  \/ kill_ex(ev)
  \/ /\ wb_ready_o(ev, rvalid) /\ ~halt_ex(ev)
     /\ done_0(ev, gnt, rvalid) /\ ~lsu_split_0_o(ev)

wb_n(ev, gnt, rvalid) ==
  IF ~wb_ready_o(ev, rvalid) THEN wb
  ELSE IF ex_valid_o(ev, gnt) THEN ex.kind ELSE "bubble"

wb_valid(ev, rvalid) ==
  /\ wb = "other" \/ (wb = "lsu" /\ (wb_status_q # "none" \/ resp_valid(rvalid)))
  /\ ~kill_wb(ev) /\ ~halt_wb(ev)

\* A status that arrives while WB is halted is kept.
wb_status_n(ev, rvalid) ==
  IF wb_valid(ev, rvalid) \/ kill_wb(ev) THEN "none"
  ELSE IF wb = "lsu" /\ resp_valid(rvalid) THEN WbStatus ELSE wb_status_q

Mut_trans_valid_n(ev, gnt, rvalid) == trans_valid(ev)

trans_valid_n(ev, gnt, rvalid) ==
  IF ctrl_update(ev, gnt, rvalid) THEN FALSE ELSE trans_valid_q \/ trans_valid(ev)

Init ==
  /\ ObiInit
  /\ ex = [kind |-> "bubble", xs |-> <<>>] /\ split_q = FALSE /\ wb = "bubble" /\ wb_status_q = "none"
  /\ ctrl = "FUNCTIONAL" /\ cnt_q = 0 /\ trans_valid_q = FALSE
  /\ wpt_state = "IDLE" /\ mpu_state = "IDLE" /\ due = <<>> /\ issued = FALSE

\* A clock edge.  When EX is ready it takes whatever ID offers.
Cycle(ev, gnt, rvalid) ==
  /\ ev \in Events
  /\ ex' \in (IF ex_ready_o(ev, gnt, rvalid) THEN Offers ELSE {ex})
  /\ ObiClock(bus_req(ev), gnt, FALSE, rvalid)
  /\ cnt_q' = next_cnt(ev, gnt, rvalid)
  /\ wpt_state' = wpt_state_n(ev, gnt, rvalid)
  /\ mpu_state' = mpu_state_n(ev, gnt, rvalid)
  /\ trans_valid_q' = trans_valid_n(ev, gnt, rvalid)
  /\ ctrl' = ctrl_n(ev)
  /\ wb' = wb_n(ev, gnt, rvalid)
  /\ wb_status_q' = wb_status_n(ev, rvalid)
  /\ split_q' = (valid_0_i(ev) /\ IF ctrl_update(ev, gnt, rvalid) THEN lsu_split_0_o(ev) ELSE split_q)
  /\ due' = Popped(due, resp_valid(rvalid) /\ due # <<>>)
              \o (IF count_up(ev, gnt) THEN <<Transfer>> ELSE <<>>)
  /\ issued' = /\ issued \/ count_up(ev, gnt)
               /\ ~ctrl_update(ev, gnt, rvalid) /\ ~kill_ex(ev)

Next == \E ev \in Events, gnt, rvalid \in BOOLEAN : Cycle(ev, gnt, rvalid)

Spec == Init /\ [][Next]_vars

\* The clock runs, also when nothing halts or kills; the slave grants what keeps
\* waiting and answers what it granted.
ClockRuns    == \E gnt, rvalid \in BOOLEAN : Cycle("none", gnt, rvalid)
SlaveGrants  == stalled # {} /\ \E ev \in Events, rvalid \in BOOLEAN : Cycle(ev, TRUE, rvalid)
SlaveAnswers == \E ev \in Events, gnt \in BOOLEAN : Cycle(ev, gnt, TRUE)

-----------------------------------------------------------------------------
\* Each answer goes to the oldest transfer and reports what happened to that
\* one: the faults and watchpoints of the gates are never reordered with, or
\* merged into, the answers of the bus, and a transfer that fails a check, or
\* that a watchpoint stops, stays off the bus (wpt.sv, mpu.sv).
RightStatus ==
  /\ \A i \in DOMAIN BusQueue : BusQueue[i].class = "OK"
  /\ \A rvalid \in Rvalids :
       resp_valid(rvalid) =>
         /\ due # <<>>
         /\ Status = Head(due).class
         /\ resp_valid_o(rvalid) <=> Status = "OK"
         /\ Status = "OK" => (owed # <<>> /\ Head(owed) = Head(due))

\* A request on the bus side of the gates is not withdrawn by an interrupt, a
\* debug request, an exception or a second request.
RequestNotRetracted ==
  [][\A t \in waiting : t \in waiting' \/ (owed' # <<>> /\ owed'[Len(owed')] = t)]_vars

\* No transfer is issued twice while it waits in EX for WB.
IssuedOnce == \A ev \in Events, gnt \in BOOLEAN : count_up(ev, gnt) => ~issued

\* A load or store is only killed or halted in EX if none of its transfers
\* has been performed: re-executing it repeats no access.
KilledBeforeAccess ==
  \A ev \in Events :
    (ExIsLsu /\ ~valid_0_i(ev)) => (~issued /\ (split_q => ex.xs[1].class # "OK"))

\* Each transfer of an access is performed at most once, though it may wait in
\* EX after the bus has taken it, and interrupts, debug requests and flushes
\* come at any time (load_store_unit.sv 486 and 592).
PerformedOnce == IssuedOnce /\ KilledBeforeAccess

\* The counters never pass the depth of the queues and are exact: the core's
\* is never more than the bus's.
CountersExact == CountsAgree /\ cnt_q \in 0..DEPTH

\* The load/store unit does not stand still: a gate that holds back the core
\* opens again; a transfer accepted in EX moves on, for EX and WB never wait on
\* each other; and the flag that blocks interrupts and debug is only set for a
\* request that is still in EX, so it does not block them for good.
MovesOn ==
  /\ mpu_state # "IDLE" ~> mpu_state = "IDLE"
  /\ wpt_state # "IDLE" ~> wpt_state = "IDLE"
  /\ issued ~> ~issued
  /\ [](trans_valid_q => ExIsLsu)
=============================================================================
