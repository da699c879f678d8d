------------------------------ MODULE DataObi ------------------------------
(***************************************************************************)
(* The bus side of the load/store unit: the response filter, the write     *)
(* buffer and the OBI interface with its integrity FIFO, in front of a     *)
(* slave that grants when it likes and answers in order.  A step is one    *)
(* clock cycle.  Bufferable stores are answered to the core early, so the  *)
(* core and the bus disagree on what is outstanding.                       *)
(***************************************************************************)
EXTENDS Naturals, Sequences

CONSTANTS
  DEPTH,      \* DEPTH, MAX_OUTSTANDING: transfers in flight (2 in the core)
  Transfers   \* bound: the transfers the core may issue

ASSUME DataObiParameters ==
  /\ DEPTH \in Nat \ {0}
  /\ \A t \in Transfers : t.bufferable \in BOOLEAN /\ t.we \in BOOLEAN

VARIABLES
  bus_cnt_q,      \* filter: transfers the bus has not answered
  core_cnt_q,     \* filter: transfers the core has not been answered for
  outstanding_q,  \* filter: shift register of their attributes, youngest at 1
  wbuf,           \* write buffer: its transfer, or none
  obi_cnt_q,      \* integrity FIFO: granted and unanswered
  fifo_q,         \* integrity FIFO: their attributes, youngest at 1
  gntpar_err_q,   \* a waiting request has seen a grant parity error
  \* the slave, and what a monitor on both sides of the filter has seen
  slave,          \* granted transfers to answer, with their parity history
  stalled,        \* the bus request not granted in the last cycle, and its history
  owed,           \* accepted transfers the core has no answer for yet
  waiting         \* the core's request not accepted in the last cycle

obiVars == <<bus_cnt_q, core_cnt_q, outstanding_q, wbuf, obi_cnt_q, fifo_q,
             gntpar_err_q, slave, stalled, owed, waiting>>

Attributes(t) == [bufferable |-> t.bufferable, store |-> t.we]
TiedOff       == [bufferable |-> FALSE, store |-> FALSE]
NoError       == [gnterr |-> FALSE, store |-> FALSE]

\* The shift registers: a new entry enters at 1, index 0 stays tied off.
Shift(reg, e, low) == [k \in 0..DEPTH |-> IF k = 0 THEN low ELSE IF k = 1 THEN e ELSE reg[k - 1]]

-----------------------------------------------------------------------------
(* The combinational signals of a cycle in which the core presents the     *)
(* requests req (a set of at most one transfer), the slave grants iff gnt, *)
(* and answers iff rvalid.                                                 *)
Room == bus_cnt_q < DEPTH

filter_valid_o(req) == IF Room THEN req ELSE {}

Mut_buffer_ready_o(t, gnt) == t.bufferable \/ gnt

\* A full buffer takes another bufferable store only as it drains.
buffer_ready_o(t, gnt) ==
  IF wbuf # {} THEN t.bufferable /\ gnt ELSE t.bufferable \/ gnt

Accepted(req, gnt) == {t \in filter_valid_o(req) : buffer_ready_o(t, gnt)}

obi_req(req) == IF wbuf # {} THEN wbuf ELSE filter_valid_o(req)

Bufferable(req) == {t \in filter_valid_o(req) : t.bufferable}

Mut_wbuf_n(req, gnt) ==
  IF gnt THEN {} ELSE IF wbuf # {} THEN wbuf ELSE Bufferable(req)

\* A bufferable store is stored when the bus does not take it at once.
wbuf_n(req, gnt) ==
  IF wbuf # {} /\ ~gnt THEN wbuf
  ELSE IF wbuf = {} /\ gnt THEN {} ELSE Bufferable(req)

Mut_resp_valid_o(rvalid) == outstanding_q[core_cnt_q].bufferable \/ rvalid

\* While the bus owes a bufferable store, the core is answered early or waits.
resp_valid_o(rvalid) ==
  IF outstanding_q[bus_cnt_q].bufferable
  THEN outstanding_q[core_cnt_q].bufferable
  ELSE rvalid

\* What comes with the answer of the bus: a bus error is imprecise, so it
\* says whether a store is to blame; so does the grant parity error.
err_is_store      == outstanding_q[bus_cnt_q].store
gntpar_err_resp_o == fifo_q[obi_cnt_q].gnterr
resp_is_store     == fifo_q[obi_cnt_q].store

Count(cnt, up, down) == (IF up THEN cnt + 1 ELSE cnt) - (IF down THEN 1 ELSE 0)

\* Sticky over the cycles a request waits for its grant.
gntpar_err_n(req, gnt, gntpar_err) ==
  IF obi_req(req) = {} THEN gntpar_err_q ELSE ~gnt /\ (gntpar_err \/ gntpar_err_q)

ObiInit ==
  /\ bus_cnt_q = 0 /\ core_cnt_q = 0 /\ obi_cnt_q = 0
  /\ outstanding_q = [k \in 0..DEPTH |-> TiedOff]
  /\ fifo_q = [k \in 0..DEPTH |-> NoError]
  /\ wbuf = {} /\ gntpar_err_q = FALSE
  /\ slave = <<>> /\ stalled = {} /\ owed = <<>> /\ waiting = {}

Members(S) == IF S = {} THEN <<>> ELSE <<CHOOSE x \in S : TRUE>>
Popped(q, pop) == IF pop THEN Tail(q) ELSE q

Mut_fifo_n(granted, gntpar_err) ==
  IF granted = {} THEN fifo_q
  ELSE Shift(fifo_q, [gnterr |-> gntpar_err, store |-> Members(granted)[1].we], NoError)

fifo_n(granted, gntpar_err) ==
  IF granted = {} THEN fifo_q
  ELSE Shift(fifo_q, [gnterr |-> gntpar_err \/ gntpar_err_q,
                      store |-> Members(granted)[1].we], NoError)

(* The clock edge.  The slave remembers with each transfer whether a grant *)
(* parity error was seen in its address phase.                             *)
ObiClock(req, gnt, gntpar_err, rvalid) ==
  LET acc     == Accepted(req, gnt)
      phase   == {[t |-> t, err |-> gntpar_err \/ \E s \in stalled : s.t = t /\ s.err] : t \in obi_req(req)}
  IN
  /\ rvalid => slave # <<>>
  /\ bus_cnt_q' = Count(bus_cnt_q, acc # {}, rvalid)
  /\ core_cnt_q' = Count(core_cnt_q, acc # {}, resp_valid_o(rvalid))
  /\ outstanding_q' = IF acc = {} THEN outstanding_q
                      ELSE Shift(outstanding_q, Attributes(Members(acc)[1]), TiedOff)
  /\ wbuf' = wbuf_n(req, gnt)
  /\ obi_cnt_q' = Count(obi_cnt_q, gnt /\ obi_req(req) # {}, rvalid)
  /\ fifo_q' = fifo_n(IF gnt THEN obi_req(req) ELSE {}, gntpar_err)
  /\ gntpar_err_q' = gntpar_err_n(req, gnt, gntpar_err)
  /\ slave' = Popped(slave, rvalid) \o (IF gnt THEN Members(phase) ELSE <<>>)
  /\ stalled' = IF gnt THEN {} ELSE phase
  /\ owed' = Popped(owed, resp_valid_o(rvalid) /\ owed # <<>>) \o Members(acc)
  /\ waiting' = req \ acc

-----------------------------------------------------------------------------
(* The interface on its own: the core holds a request until it is accepted *)
(* and tells the transfers in flight apart.                                *)
InFlight == {slave[i].t : i \in DOMAIN slave} \cup wbuf \cup {owed[i] : i \in DOMAIN owed}

Requests == IF waiting # {} THEN {waiting} ELSE {{}} \cup {{t} : t \in Transfers \ InFlight}

Clock(gnt, rvalid) ==
  \E req \in Requests, gntpar_err \in BOOLEAN : ObiClock(req, gnt, gntpar_err, rvalid)

ObiNext == \E gnt, rvalid \in BOOLEAN : Clock(gnt, rvalid)

ObiSpec == ObiInit /\ [][ObiNext]_obiVars

-----------------------------------------------------------------------------
(* The counters and shift registers agree with what is really in flight:   *)
(* the bus owes the slave's queue and then the write buffer, and the core  *)
(* has been answered for a prefix of them.                                 *)
SlaveQueue == [i \in DOMAIN slave |-> slave[i].t]
BusQueue   == SlaveQueue \o Members(wbuf)

\* The core's count is never more than the bus's, and both are exact.
CountsAgree ==
  /\ bus_cnt_q = Len(BusQueue)
  /\ core_cnt_q = Len(owed)
  /\ obi_cnt_q = Len(slave)
  /\ core_cnt_q <= bus_cnt_q

Rvalids == {FALSE, slave # <<>>}

\* A bus or parity error that arrives with an answer is charged to the
\* transfer it belongs to, also when that store was answered long ago.
BlameIsRight ==
  slave # <<>> =>
    /\ err_is_store = Head(slave).t.we
    /\ resp_is_store = Head(slave).t.we
    /\ gntpar_err_resp_o = Head(slave).err

\* The response filter, the write buffer and the OBI interface together
\* implement the in-order port the core relies on.
Port == INSTANCE MemoryPort WITH queue <- BusQueue
PortSpec == Port!Spec
=============================================================================
