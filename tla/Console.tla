------------------------------ MODULE Console ------------------------------
(***************************************************************************)
(* The serial console: the firmware's lib/uart.c and lib/vstream.c, the    *)
(* UART and its line, and the simulation side, libcsoc/libcsoc.cpp.  The   *)
(* program and its interrupt handler interleave at accesses to the devices *)
(* and to the receive queue; the clock ticks at any time between them, and *)
(* a tick is one pass of the loop of the libcsoc function that runs.       *)
(***************************************************************************)
EXTENDS UartLine, RingQueue, SequencesExt

CONSTANTS
  Sessions,       \* bound: what each side sends and how it is read
  LeftInMemory    \* what uart_init may find in tx_bits_sent

\* calls: the libcsoc functions the simulation calls, op "clocks" or "recv"
\* with a number n, or "send" with buf; afterwards it clocks on for ever.
\* out: bytes the program sends.  reader: how bytes are received, by the
\* callback of the stream once batch of them are there, by the program from
\* the stream, or by the program with getchar and the interrupt off.  The
\* program stops the simulation after halt bytes, with -1 never.
HostCalls == [op : {"clocks", "recv"}, n : Nat] \cup [op : {"send"}, buf : Seq(Bytes)]

ASSUME ConsoleParameters ==
  /\ \A x \in Sessions :
       /\ x.calls \in Seq(HostCalls) /\ x.out \in Seq(Bytes)
       /\ x.reader \in {"callback", "stream", "getchar"}
       /\ x.batch \in 1 .. CQUEUE_SIZE /\ x.halt \in Nat \cup {-1}
  /\ LeftInMemory \subseteq 0 .. 255

VARIABLES
  session,              \* the case that runs
  tx, rx, line,         \* the UART and its input wire
  finish,               \* sim_finish of the simulation stop device
  uartTx, uartRx,       \* the emulated UART
  host,                 \* libcsoc: number of the call, i, and what it does
  recv_queue, got,      \* its queue, and the bytes given to its caller
  prog, isr,            \* program and handler: what they do next
  mie,                  \* UART_IRQ is set in mie
  elem, nelem_reg,      \* byte and counter held in registers
  rcv_cqueue, nelem,    \* the queue of vstream.c and its counter
  written, read,        \* bytes the program has sent, and has received
  lost,                 \* monitor: buffers that were full when a byte came
  late                  \* monitor: a start bit came on a baud tick

hostVars == <<uartTx, uartRx, host, recv_queue, got, line>>
streamVars == <<elem, nelem_reg, rcv_cqueue, nelem, read>>
consoleVars == <<session, tx, rx, finish, hostVars, prog, isr, mie, streamVars, written, lost,
                 late>>

EmptyMem == [i \in Slots |-> Zeros]

ConsoleStart ==
  /\ tx = TxReset /\ rx = RxReset /\ line = 1 /\ finish = 0
  /\ uartRx = RxInit
  /\ \E n \in LeftInMemory : uartTx = TxInit(Zeros, n)
  /\ host = [call |-> 1, i |-> 0, at |-> "drain"]
  /\ recv_queue = cqueue_init(EmptyMem) /\ got = <<>>
  /\ prog = "out" /\ isr = "none" /\ mie = (session.reader # "getchar")
  /\ elem = Zeros /\ nelem_reg = 0
  /\ rcv_cqueue = cqueue_init(EmptyMem) /\ nelem = 0
  /\ written = <<>> /\ read = <<>>
  /\ lost = {} /\ late = FALSE

ConsoleInit == session \in Sessions /\ ConsoleStart
-----------------------------------------------------------------------------
(* libcsoc.cpp.                                                            *)

\* sim_finish counts on after the program's write; $finish comes at 2.
gotFinish == finish = 3

Returned == host.call > Len(session.calls)

\* The call in progress; main clocks until the program stops the simulation.
ThisCall == IF Returned THEN [op |-> "clocks", n |-> -1] ELSE session.calls[host.call]
Wanted == IF ThisCall.op = "send" THEN Len(ThisCall.buf) ELSE ThisCall.n

\* csoc_soc_proceedRecv first takes what is in the queue.
Drain ==
  /\ host.at = "drain" /\ ThisCall.op = "recv"
  /\ ~cqueue_empty(recv_queue) /\ host.i < Wanted
  /\ got' = Append(got, FirstOf(recv_queue))
  /\ recv_queue' = cqueue_deq(recv_queue)
  /\ host' = [host EXCEPT !.i = @ + 1]
  /\ UNCHANGED <<session, tx, rx, finish, uartTx, uartRx, line, prog, isr, mie, streamVars,
                 written, lost, late>>

Drained ==
  /\ host.at = "drain"
  /\ ThisCall.op = "recv" => cqueue_empty(recv_queue) \/ host.i = Wanted
  /\ host' = [host EXCEPT !.at = "clock"]
  /\ UNCHANGED <<session, tx, rx, finish, uartTx, uartRx, recv_queue, got, line, prog, isr, mie,
                 streamVars, written, lost, late>>

\* One pass of the loop: a clock period, then both halves of the emulation.
ClockTick ==
  /\ host.at = "clock" /\ ~gotFinish /\ host.i # Wanted
  /\ LET out == uart_tx_o(TxClock(tx))
         send == ThisCall.op = "send"
         byte == IF send THEN ThisCall.buf[host.i + 1] ELSE Zeros
         ends == uart_rx_ends(uartRx, out)
         keeps == ThisCall.op # "recv"
     IN  /\ tx' = TxClock(tx)
         /\ rx' = RxClock(rx, line)
         /\ finish' = IF finish = 0 THEN 0 ELSE finish + 1
         /\ uartTx' = uart_tx_protocol(uartTx, byte, send)
         /\ line' = tx_line(uartTx, byte, send, line)
         /\ uartRx' = uart_rx_protocol(uartRx, out)
         /\ recv_queue' = IF ends /\ keeps THEN cqueue_enq(recv_queue, uartRx.shreg)
                                           ELSE recv_queue
         /\ got' = IF ends /\ ~keeps THEN Append(got, uartRx.shreg) ELSE got
         /\ host' = IF \/ ThisCall.op = "clocks" /\ ~Returned
                       \/ send /\ uart_tx_ends(uartTx, send)
                       \/ ~keeps /\ ends
                    THEN [host EXCEPT !.i = @ + 1] ELSE host
         /\ lost' = lost \cup (IF RxLost(rx) THEN {"fifo"} ELSE {})
                         \cup (IF ends /\ keeps /\ cqueue_full(recv_queue) THEN {"recv_queue"}
                                                                            ELSE {})
         /\ late' = (late \/ (rx_start(rx) /\ rx_baud_tick(rx)))
  /\ UNCHANGED <<session, prog, isr, mie, streamVars, written>>

NextCall ==
  /\ host.at = "clock" /\ ~Returned /\ (gotFinish \/ host.i = Wanted)
  /\ host' = [call |-> host.call + 1, i |-> 0, at |-> "drain"]
  /\ UNCHANGED <<session, tx, rx, finish, uartTx, uartRx, recv_queue, got, line, prog, isr, mie,
                 streamVars, written, lost, late>>

Simulation == Drain \/ Drained \/ ClockTick \/ NextCall
-----------------------------------------------------------------------------
(* lib/uart.c and lib/vstream.c, run by a program that sends and then      *)
(* receives.  The program stands still while the handler runs.             *)

simVars == <<session, finish, hostVars, late>>

Mut_disable_interrupts(enabled) == enabled

disable_interrupts(enabled) == FALSE

Mut_enable_interrupts(enabled) == enabled

enable_interrupts(enabled) == TRUE

Receiving == CASE session.reader = "callback" -> "halt"
               [] session.reader = "stream" -> "mask"
               [] session.reader = "getchar" -> "poll"

\* uart_out: waits until the FIFO is not full, then writes.
Mut_OutPoll ==
  /\ prog = "out" /\ isr = "none" /\ Len(written) < Len(session.out)
  /\ prog' = "put"
  /\ UNCHANGED <<simVars, tx, rx, isr, mie, streamVars, written, lost>>

OutPoll ==
  /\ prog = "out" /\ isr = "none" /\ Len(written) < Len(session.out)
  /\ ~tx_fifo_full(tx)
  /\ prog' = "put"
  /\ UNCHANGED <<simVars, tx, rx, isr, mie, streamVars, written, lost>>

OutWrite ==
  /\ prog = "put" /\ isr = "none"
  /\ LET byte == session.out[Len(written) + 1]
     IN  tx' = TxWrite(tx, byte) /\ written' = Append(written, byte)
  /\ prog' = "out"
  /\ UNCHANGED <<simVars, rx, isr, mie, streamVars, lost>>

\* vstream_send returns.
OutDone ==
  /\ prog = "out" /\ isr = "none" /\ Len(written) = Len(session.out)
  /\ prog' = Receiving
  /\ UNCHANGED <<simVars, tx, rx, isr, mie, streamVars, written, lost>>

\* getchar until it gives a byte: the status, then the data register.
InPoll ==
  /\ prog = "poll" /\ isr = "none"
  /\ rx.fifo # <<>>
  /\ prog' = "take"
  /\ UNCHANGED <<simVars, tx, rx, isr, mie, streamVars, written, lost>>

InTake ==
  /\ prog = "take" /\ isr = "none"
  /\ read' = Append(read, RxFront(rx))
  /\ rx' = RxRead(rx)
  /\ prog' = "halt"
  /\ UNCHANGED <<simVars, tx, isr, mie, elem, nelem_reg, rcv_cqueue, nelem, written, lost>>

\* The program masks the interrupt around vstream_rcv(&byte, 1).
Mask ==
  /\ prog = "mask" /\ isr = "none"
  /\ mie' = disable_interrupts(mie)
  /\ prog' = "rcv"
  /\ UNCHANGED <<simVars, tx, rx, isr, streamVars, written, lost>>

\* vstream_rcv and cqueue_deq, one access of the queue that the handler
\* could change at a time.
RcvEmpty ==
  /\ prog = "rcv" /\ isr = "none"
  /\ cqueue_empty(rcv_cqueue)
  /\ prog' = "unmask"
  /\ UNCHANGED <<simVars, tx, rx, isr, mie, streamVars, written, lost>>

RcvTake ==
  /\ prog = "rcv" /\ isr = "none"
  /\ ~cqueue_empty(rcv_cqueue)
  /\ elem' = FirstOf(rcv_cqueue)
  /\ prog' = "compare"
  /\ UNCHANGED <<simVars, tx, rx, isr, mie, nelem_reg, rcv_cqueue, nelem, read, written, lost>>

RcvCompare ==
  /\ prog = "compare" /\ isr = "none"
  /\ prog' = IF rcv_cqueue.head = rcv_cqueue.tail THEN "empty_head" ELSE "advance"
  /\ UNCHANGED <<simVars, tx, rx, isr, mie, streamVars, written, lost>>

RcvEmptyHead ==
  /\ prog = "empty_head" /\ isr = "none"
  /\ rcv_cqueue' = [rcv_cqueue EXCEPT !.head = -1]
  /\ prog' = "empty_tail"
  /\ UNCHANGED <<simVars, tx, rx, isr, mie, elem, nelem_reg, nelem, read, written, lost>>

RcvEmptyTail ==
  /\ prog = "empty_tail" /\ isr = "none"
  /\ rcv_cqueue' = [rcv_cqueue EXCEPT !.tail = -1]
  /\ prog' = "load"
  /\ UNCHANGED <<simVars, tx, rx, isr, mie, elem, nelem_reg, nelem, read, written, lost>>

RcvAdvance ==
  /\ prog = "advance" /\ isr = "none"
  /\ rcv_cqueue' = [rcv_cqueue EXCEPT !.head = Following(@)]
  /\ prog' = "load"
  /\ UNCHANGED <<simVars, tx, rx, isr, mie, elem, nelem_reg, nelem, read, written, lost>>

RcvLoad ==
  /\ prog = "load" /\ isr = "none"
  /\ nelem_reg' = nelem
  /\ prog' = "store"
  /\ UNCHANGED <<simVars, tx, rx, isr, mie, elem, rcv_cqueue, nelem, read, written, lost>>

RcvStore ==
  /\ prog = "store" /\ isr = "none"
  /\ nelem' = nelem_reg - 1
  /\ read' = Append(read, elem)
  /\ prog' = "unmask"
  /\ UNCHANGED <<simVars, tx, rx, isr, mie, elem, nelem_reg, rcv_cqueue, written, lost>>

Unmask ==
  /\ prog = "unmask" /\ isr = "none"
  /\ mie' = enable_interrupts(mie)
  /\ prog' = "halt"
  /\ UNCHANGED <<simVars, tx, rx, isr, streamVars, written, lost>>

\* sim_halt, once the program has what it waits for.
MoreToCome ==
  /\ prog = "halt" /\ isr = "none" /\ session.reader # "callback"
  /\ session.halt = -1 \/ Len(read) < session.halt
  /\ prog' = Receiving
  /\ UNCHANGED <<simVars, tx, rx, isr, mie, streamVars, written, lost>>

sim_halt ==
  /\ prog = "halt" /\ isr = "none"
  /\ session.halt # -1 /\ Len(read) >= session.halt
  /\ finish' = IF finish = 0 THEN 1 ELSE finish
  /\ prog' = "end"
  /\ UNCHANGED <<session, hostVars, late, tx, rx, isr, mie, streamVars, written, lost>>
-----------------------------------------------------------------------------
(* uart_irq_handler, with interrupts off.                                  *)

\* Enters, and reads the status: the FIFO is not empty.
Irq ==
  /\ isr = "none" /\ mie /\ rx.fifo # <<>>
  /\ isr' = "read"
  /\ UNCHANGED <<simVars, tx, rx, prog, mie, streamVars, written, lost>>

\* The queue after all its elements are taken out.
Emptied(q) ==
  LET after[n \in 0 .. Length(q)] == IF n = 0 THEN q ELSE cqueue_deq(after[n - 1])
  IN  after[Length(q)]

\* The byte goes into the queue; then the callback, which takes all there is
\* with vstream_rcv when it is told of batch bytes or more.
IrqDeliver ==
  /\ isr = "read"
  /\ LET full == cqueue_full(rcv_cqueue)
         queue == cqueue_enq(rcv_cqueue, RxFront(rx))
         ready == IF full THEN nelem ELSE nelem + 1
         takes == session.reader = "callback" /\ ready >= session.batch
     IN  /\ rcv_cqueue' = IF takes THEN Emptied(queue) ELSE queue
         /\ nelem' = IF takes THEN ready - Length(queue) ELSE ready
         /\ read' = IF takes THEN read \o Contents(queue) ELSE read
         /\ lost' = IF full THEN lost \cup {"rcv_cqueue"} ELSE lost
  /\ rx' = RxRead(rx)
  /\ isr' = "none"
  /\ UNCHANGED <<simVars, tx, prog, mie, elem, nelem_reg, written>>

uart_irq_handler == Irq \/ IrqDeliver

Program ==
  \/ OutPoll \/ OutWrite \/ OutDone
  \/ InPoll \/ InTake
  \/ Mask \/ RcvEmpty \/ RcvTake \/ RcvCompare \/ RcvEmptyHead \/ RcvEmptyTail \/ RcvAdvance
  \/ RcvLoad \/ RcvStore \/ Unmask
  \/ MoreToCome \/ sim_halt

ConsoleOver ==
  gotFinish /\ Returned /\ host.at = "clock" /\ UNCHANGED consoleVars

ConsoleNext == Simulation \/ Program \/ uart_irq_handler \/ ConsoleOver

\* The simulation clocks on and the core runs the program; an interrupt is
\* taken ahead of the next instruction, so masking now and then does not keep
\* it out for ever.
ConsoleFairness ==
  WF_consoleVars(Simulation) /\ WF_consoleVars(Program) /\ SF_consoleVars(uart_irq_handler)

ConsoleSpec == ConsoleInit /\ [][ConsoleNext]_consoleVars /\ ConsoleFairness
-----------------------------------------------------------------------------
(* What the two ends promise.                                              *)

\* What all the calls together send.
Sent ==
  LET upTo[k \in 0 .. Len(session.calls)] ==
        IF k = 0 THEN <<>>
        ELSE IF session.calls[k].op = "send" THEN upTo[k - 1] \o session.calls[k].buf
        ELSE upTo[k - 1]
  IN  upTo[Len(session.calls)]

\* The program is between two operations on the queue.
StreamAtRest ==
  prog \notin {"compare", "empty_head", "empty_tail", "advance", "load", "store"}

ReceivedInOrder ==
  StreamAtRest => IsPrefix(read \o Contents(rcv_cqueue) \o rx.fifo, Sent)

\* The bytes the program has read, those in the queue of the stream and those
\* in the FIFO are the bytes the simulation sent, in order.
FirmwareReceives == lost = {} /\ ~late => ReceivedInOrder

\* What csoc_soc_proceedRecv has given out and what is in its queue are the
\* bytes the firmware wrote, in order: uart_out never writes to a full FIFO.
HostReceives == "recv_queue" \notin lost => IsPrefix(got \o Contents(recv_queue), written)

\* The number the callback is told is the number of bytes ready (vstream.c:124
\* and 143 change the counter, the program with the interrupt masked).
CountIsTrue == StreamAtRest => nelem = Length(rcv_cqueue)

\* Nothing is lost, repeated or reordered in either direction, and the count of
\* the stream is right, however removals by the program and additions by the
\* handler interleave: as long as no buffer overflowed and no start bit came on
\* a tick of the idle baud counter (vstream.c, libcsoc/uart.c, uart.sv).
StreamsInOrder == FirmwareReceives /\ HostReceives /\ CountIsTrue

\* The same without the exception of the baud tick: the comment of uart.sv:123
\* has every start bit put the sampling in the middle of the bits.
EveryStartIsSeen == lost = {} => ReceivedInOrder

\* Whatever both sides send gets through: everything the simulation sent is
\* read or waits in the stream, everything the program has to say is with the
\* simulation, unless a byte was lost or the simulation ended (uart_out and
\* getchar wait in a loop, csoc_soc_proceedSend clocks until all is sent).
EverythingArrives ==
  <>(\/ lost # {} \/ late \/ gotFinish
     \/ /\ Len(read) + Length(rcv_cqueue) = Len(Sent)
        /\ Len(got) + Length(recv_queue) = Len(session.out))
=============================================================================
