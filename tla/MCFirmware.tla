----------------------------- MODULE MCFirmware ----------------------------
(***************************************************************************)
(* The firmware: the parts it is built on, and the three test programs.  In *)
(* a behaviour one of these works and the others rest.                      *)
(***************************************************************************)
EXTENDS Memcpy, PrintEngine, Timer, Console, TestPrograms

VARIABLE part

allVars == <<part, copyVars, printVars, timerVars, consoleVars, progVars>>

\* Calls of the print engine.
Chars(s) == CASE s = "" -> <<>> [] s = "h" -> <<"h">> [] s = "hh" -> <<"h", "h">>
              [] s = "l" -> <<"l">> [] s = "ll" -> <<"l", "l">> [] s = "j" -> <<"j">>
              [] s = "z" -> <<"z">> [] s = "t" -> <<"t">>

Conv(f, w, z, l, a) ==
  [flags |-> ToSet(f), width |-> w, size |-> z, letter |-> l, arg |-> a,
   fmt |-> <<"%">> \o f \o (IF w = 0 THEN <<>> ELSE <<Digits[w + 1]>>) \o Chars(z) \o <<l>>]

Text(t) == [flags |-> {}, width |-> 0, size |-> "", letter |-> "text", arg |-> t, fmt |-> t]

Job(ps) ==
  [fn |-> "printf", fmt |-> FlattenSeq([i \in DOMAIN ps |-> ps[i].fmt]),
   args |-> FlattenSeq([i \in DOMAIN ps |-> IF TakesArgument(ps[i].letter) THEN <<ps[i].arg>>
                                                                          ELSE <<>>]),
   parts |-> ps]

PlainJob(fn, c) == [fn |-> fn, fmt |-> <<>>, args |-> <<c.arg>>, parts |-> <<c>>]

MCFlags == {<<>>, <<"-">>, <<"0">>, <<"+", "0">>, <<" ">>, <<"-", "+">>, <<"-", "0">>, <<"#">>}

Numbers == {Conv(f, w, z, l, a) : f \in MCFlags, w \in {0, 5}, z \in {"", "h", "ll"},
                                  l \in {"d", "u", "X"}, a \in {0, 10, 200, 300}}
SizeConversions == {Conv(<<"0">>, 3, z, l, a) : z \in {"hh", "l", "j", "z", "t"}, l \in {"d", "x"},
                                      a \in {5, 127, 300, 511}}
Others == {Conv(f, w, "", "s", s) : f \in {<<>>, <<"-">>, <<"0">>}, w \in {0, 3},
                                    s \in {<<>>, <<"a", "b">>}}
            \cup {Conv(<<>>, 0, "", "c", "z"), Conv(<<>>, 0, "", "%", 0)}

MCJobs ==
  {Job(<<Text(<<"a">>), c, Text(<<"b", "c">>)>>) : c \in Numbers \cup SizeConversions \cup Others}
  \cup {Job(<<c, d>>) : c \in {x \in Numbers : x.arg = 200 /\ x.size # "h"},
                        d \in {Conv(<<>>, 2, "", "d", 15), Conv(<<>>, 3, "", "s", <<"a">>),
                               Conv(<<>>, 0, "ll", "u", 300)}}
  \cup {PlainJob(fn, Conv(<<"0">>, 2, "", "X", a)) : fn \in {"puthex", "putbyte"},
                                                     a \in {0, 9, 10, 171, 255}}
  \cup {PlainJob("putdec", Conv(<<>>, 0, "", "u", a)) : a \in {0, 9, 10, 99, 100, 255}}

\* Sessions of the console.
A == <<0, 1>>
B == <<1, 0>>
C == <<1, 1>>

Clocks(n) == [op |-> "clocks", n |-> n]
Send(buf) == [op |-> "send", buf |-> buf]
Recv(n) == [op |-> "recv", n |-> n]

Session(does, out, reader, batch, halt) ==
  [calls |-> does, out |-> out, reader |-> reader, batch |-> batch, halt |-> halt]

Quiet == Session(<<>>, <<>>, "callback", 1, -1)

MCSessions ==
  {Session(<<Clocks(k), Send(<<B, A, C>>)>>, <<>>, "callback", 2, -1) : k \in 0 .. 3}
  \cup {Quiet,
        Session(<<Clocks(1), Send(<<A, B, C>>)>>, <<>>, "stream", 1, -1),
        Session(<<Clocks(2), Send(<<B, A>>), Recv(1)>>, <<C>>, "getchar", 1, 2),
        Session(<<Clocks(30), Recv(2)>>, <<A, C, B>>, "callback", 1, -1),
        Session(<<Recv(1), Send(<<B>>), Clocks(20)>>, <<B, A>>, "callback", 1, 0)}

\* Sections of one unit, and each of them, or the gap before .data, larger.
Small ==
  [text |-> Line, m_code |-> Line, user_code |-> Line, rodata |-> Line, gap |-> 0,
   data |-> 3 * Line, bss |-> Line]
MCLayouts == {Small} \cup {[Small EXCEPT ![s] = @ + Line] : s \in DOMAIN Small}

FirmwareInit ==
  /\ part \in {"copy", "print", "timer", "console", "program"}
  /\ IF part = "print" THEN PrintInit
     ELSE job = PlainJob("putdec", Conv(<<>>, 0, "", "u", 0)) /\ PrintStart
  /\ IF part = "console" THEN ConsoleInit
     ELSE session = Quiet /\ ConsoleStart /\ uartTx.bits_sent = 0
  /\ IF part = "program" THEN ProgramInit
     ELSE /\ program = "basic" /\ layout = Small /\ ProgramStart /\ routine = "halted"
          /\ security_level = "NS"
  /\ TimerInit
  /\ CopyInit /\ (part = "copy" \/ source + target + count = 0)

CopyWorks == part = "copy" /\ CopyStep /\ UNCHANGED <<part, printVars, timerVars, consoleVars, progVars>>
PrintWorks == part = "print" /\ PrintStep /\ UNCHANGED <<part, copyVars, timerVars, consoleVars, progVars>>
TimerWorks == part = "timer" /\ TimerNext /\ UNCHANGED <<part, copyVars, printVars, consoleVars, progVars>>

InConsole(Action) ==
  part = "console" /\ Action /\ UNCHANGED <<part, copyVars, printVars, timerVars, progVars>>

ConsoleWorks == InConsole(ConsoleNext)

InProgram(Action) ==
  part = "program" /\ Action /\ UNCHANGED <<part, copyVars, printVars, timerVars, consoleVars>>

ProgramWorks == InProgram(ProgramNext)

FirmwareNext == CopyWorks \/ PrintWorks \/ TimerWorks \/ ConsoleWorks \/ ProgramWorks

FirmwareSpec ==
  /\ FirmwareInit /\ [][FirmwareNext]_allVars
  /\ WF_allVars(InConsole(Simulation)) /\ WF_allVars(InConsole(Program))
  /\ SF_allVars(InConsole(uart_irq_handler))
  /\ WF_allVars(InProgram(ProgramNext))
=============================================================================
