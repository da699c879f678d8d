------------------------------ MODULE UartLine ------------------------------
(***************************************************************************)
(* The serial line between the SoC and the simulation: the UART of         *)
(* rtl/uart.sv, driven by the clock, and its counterpart emulated cycle by *)
(* cycle in libcsoc/uart.c.  Operators only: each gives the next state of  *)
(* one half of one end.  A byte is a sequence of bits, lowest bit first.   *)
(***************************************************************************)
EXTENDS Integers, Sequences

CONSTANTS
  DataBits,        \* 8 in the code
  ClocksPerBaud,   \* also the baud_limit of the emulation
  FifoDepth        \* RxFifoDepth, TxFifoDepth

ASSUME LineParameters ==
  /\ DataBits \in Nat \ {0} /\ ClocksPerBaud \in Nat \ {0, 1} /\ FifoDepth \in Nat \ {0}

WireBits == {0, 1}
Bytes == [1 .. DataBits -> WireBits]
Zeros == [i \in 1 .. DataBits |-> 0]
-----------------------------------------------------------------------------
(* rtl/uart.sv, transmitter.                                               *)

TxReset == [state |-> "IDLE", bit_counter |-> 0, current_byte |-> Zeros, baud_counter |-> 0,
            fifo |-> <<>>]

tx_fifo_full(tx) == Len(tx.fifo) = FifoDepth

\* A write to a full FIFO is lost.
TxWrite(tx, byte) == IF tx_fifo_full(tx) THEN tx ELSE [tx EXCEPT !.fifo = Append(@, byte)]

uart_tx_o(tx) ==
  CASE tx.state \in {"IDLE", "STOP"} -> 1
    [] tx.state = "START" -> 0
    [] tx.state = "PROC" -> Head(tx.current_byte)

TxClock(tx) ==
  IF tx.baud_counter # ClocksPerBaud - 1 THEN [tx EXCEPT !.baud_counter = @ + 1]
  ELSE [CASE tx.state \in {"IDLE", "STOP"} ->
               [tx EXCEPT !.state = IF tx.fifo # <<>> THEN "START" ELSE "IDLE"]
          [] tx.state = "START" ->
               [tx EXCEPT !.state = "PROC", !.bit_counter = 0,
                          !.current_byte = Head(tx.fifo), !.fifo = Tail(@)]
          [] tx.state = "PROC" ->
               [tx EXCEPT !.current_byte = Append(Tail(@), 0),
                          !.state = IF tx.bit_counter = DataBits - 1 THEN "STOP" ELSE "PROC",
                          !.bit_counter = IF tx.bit_counter = DataBits - 1 THEN @ ELSE @ + 1]
        EXCEPT !.baud_counter = 0]
-----------------------------------------------------------------------------
(* rtl/uart.sv, receiver.  The line passes through three flops, newest     *)
(* first in q.                                                             *)

RxReset == [state |-> "IDLE", bit_counter |-> 0, current_byte |-> Zeros, baud_counter |-> 0,
            q |-> <<0, 0, 0>>, fifo |-> <<>>]

rx_start(rx) == rx.state = "IDLE" /\ rx.q[2] = 0 /\ rx.q[3] = 1
rx_baud_tick(rx) == rx.baud_counter = ClocksPerBaud - 1

Mut_rx_baud_counter_d(rx) ==
  IF rx_baud_tick(rx) THEN 0
  ELSE IF rx_start(rx) THEN ClocksPerBaud - 1 ELSE rx.baud_counter + 1

\* A start on a tick of the idle counter samples at the end of each bit.
rx_baud_counter_d(rx) ==
  IF rx_baud_tick(rx) THEN 0
  ELSE IF rx_start(rx) THEN ClocksPerBaud \div 2 ELSE rx.baud_counter + 1

\* The byte received in this cycle, if any, and whether it is lost.
RxDone(rx) == rx_baud_tick(rx) /\ rx.state = "STOP" /\ rx.q[3] = 1
RxLost(rx) == RxDone(rx) /\ Len(rx.fifo) = FifoDepth

RxClock(rx, line) ==
  LET next ==
        CASE rx.state = "IDLE" -> [rx EXCEPT !.state = IF rx_start(rx) THEN "START" ELSE "IDLE"]
          [] rx.state = "START" ->
               [rx EXCEPT !.current_byte = Zeros, !.bit_counter = 0,
                          !.state = IF rx.q[3] = 0 THEN "PROC" ELSE "IDLE"]
          [] rx.state = "PROC" ->
               [rx EXCEPT !.current_byte = Append(Tail(@), rx.q[3]),
                          !.state = IF rx.bit_counter = DataBits - 1 THEN "STOP" ELSE "PROC",
                          !.bit_counter = IF rx.bit_counter = DataBits - 1 THEN @ ELSE @ + 1]
          [] rx.state = "STOP" -> [rx EXCEPT !.state = "IDLE"]
  IN  [(IF rx_start(rx) \/ rx_baud_tick(rx) THEN next ELSE rx)
        EXCEPT !.baud_counter = rx_baud_counter_d(rx),
               !.q = <<line, rx.q[1], rx.q[2]>>,
               !.fifo = IF RxDone(rx) /\ ~RxLost(rx) THEN Append(@, rx.current_byte) ELSE @]

\* A read takes the first byte; of an empty FIFO it is 0.
RxFront(rx) == IF rx.fifo = <<>> THEN Zeros ELSE Head(rx.fifo)
RxRead(rx) == IF rx.fifo = <<>> THEN rx ELSE [rx EXCEPT !.fifo = Tail(@)]
-----------------------------------------------------------------------------
(* libcsoc/uart.c.                                                         *)

RxInit == [state |-> "RX_IDLE", baud_cnt |-> 0, shreg |-> Zeros, bits_rcvd |-> 0]

\* tx_shreg and tx_bits_sent are left as they are in memory.
TxInit(shreg, bits_sent) ==
  [state |-> "TX_IDLE", baud_cnt |-> 0, shreg |-> shreg, bits_sent |-> bits_sent]

uart_rx_idle(u, line) == u.state = "RX_IDLE" /\ line = 1

\* RX_END: a whole stop bit has passed.
uart_rx_ends(u, line) ==
  ~uart_rx_idle(u, line) /\ u.baud_cnt + 1 >= ClocksPerBaud /\ u.bits_rcvd + 1 = DataBits + 2

Mut_Samples(u) == u.bits_rcvd \in 1 .. DataBits /\ u.baud_cnt + 1 = ClocksPerBaud

Samples(u) == u.bits_rcvd \in 1 .. DataBits /\ u.baud_cnt + 1 = ClocksPerBaud \div 2

uart_rx_protocol(u, line) ==
  IF uart_rx_idle(u, line) THEN u
  ELSE IF uart_rx_ends(u, line) THEN RxInit
  ELSE IF u.baud_cnt + 1 >= ClocksPerBaud
       THEN [u EXCEPT !.state = "RX_ONGOING", !.baud_cnt = 0, !.bits_rcvd = @ + 1]
       ELSE [u EXCEPT !.state = "RX_ONGOING", !.baud_cnt = @ + 1,
                      !.shreg = IF Samples(u) /\ line = 1 THEN [@ EXCEPT ![u.bits_rcvd] = 1]
                                                         ELSE @]

uart_tx_idle(u, start) == u.state = "TX_IDLE" /\ ~start

\* TX_END: bits_sent has eight bits.
uart_tx_ends(u, start) ==
  ~uart_tx_idle(u, start) /\ u.baud_cnt + 1 >= ClocksPerBaud
     /\ (u.bits_sent + 1) % 256 = DataBits + 2

TxBegun(u, byte) ==
  IF u.state = "TX_IDLE" THEN [u EXCEPT !.state = "TX_ONGOING", !.shreg = byte] ELSE u

uart_tx_protocol(u, byte, start) ==
  IF uart_tx_idle(u, start) THEN u
  ELSE IF uart_tx_ends(u, start)
       THEN TxInit([i \in 1 .. DataBits |-> 1], 0)
  ELSE IF u.baud_cnt + 1 >= ClocksPerBaud
       THEN [TxBegun(u, byte) EXCEPT !.baud_cnt = 0, !.bits_sent = (@ + 1) % 256]
       ELSE [TxBegun(u, byte) EXCEPT !.baud_cnt = @ + 1]

\* tx_line after the cycle; at the end of a bit it stays as it was.
tx_line(u, byte, start, line) ==
  IF uart_tx_idle(u, start) \/ uart_tx_ends(u, start) THEN 1
  ELSE IF u.baud_cnt + 1 >= ClocksPerBaud THEN line
  ELSE IF u.bits_sent = 0 THEN 0
  ELSE IF u.bits_sent <= DataBits THEN TxBegun(u, byte).shreg[u.bits_sent]
  ELSE 1
=============================================================================
