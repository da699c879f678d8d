------------------------------- MODULE Timer -------------------------------
(***************************************************************************)
(* The timer rtl/timer.sv and its driver lib/timer.c (one file, the same   *)
(* in the three programs), whose interrupt handler runs between any two    *)
(* instructions of the program.  A register of the device is two words,    *)
(* and an access to a word is one action and takes one cycle.              *)
(***************************************************************************)
EXTENDS Integers

CONSTANTS
  WordValues,  \* values of a word (2^32 in the code)
  MaxTime,     \* bound: mtime does not wrap
  Bases,       \* bound: the periods timer_enable is called with
  MaxCalls     \* bound: calls of the program

ASSUME TimerParameters ==
  /\ WordValues \in Nat \ {0} /\ MaxTime \in Nat /\ MaxCalls \in Nat
  /\ Bases \subseteq Nat \ {0}

Contexts == {"program", "handler"}
High(t) == t \div WordValues
Low(t)  == t % WordValues
Join(h, l) == h * WordValues + l

VARIABLES
  mtime, mtimecmp, interrupt,      \* the device
  timer_mie, inHandler,                  \* timer interrupt enabled; in the handler
  time_increment, time_elapsed,
  time_base,                       \* argument of timer_enable
  at,                              \* per context: the access that is next
  reads,                           \* timer_read is called for its result
  timeh, time,                     \* per context: current_timeh, current_time
  calls,
  asked, deadline,                 \* monitors: mtime before timer_read, last time set,
  unmasked                         \* the handler undid the mask of timer_enable

device == <<mtime, mtimecmp, interrupt>>
driver == <<time_increment, time_elapsed>>
timerVars == <<device, timer_mie, inHandler, driver, at, reads, timeh, time, calls,
              time_base, asked, deadline, unmasked>>

\* One cycle, with or without a write to the compare register.
Cycle(cmp, written) ==
  /\ mtime < MaxTime /\ mtime' = mtime + 1
  /\ mtimecmp' = cmp
  /\ interrupt' = ((mtime >= mtimecmp \/ interrupt) /\ ~written)

Read == Cycle(mtimecmp, FALSE)
Write(cmp) == Cycle(cmp, TRUE)

TimerInit ==
  /\ mtime = 0 /\ mtimecmp = 0 /\ interrupt = FALSE
  /\ timer_mie = FALSE /\ inHandler = FALSE
  /\ time_increment = 0 /\ time_elapsed = 0 /\ time_base = 0
  /\ at = [c \in Contexts |-> "return"] /\ reads = FALSE
  /\ timeh = [c \in Contexts |-> 0] /\ time = timeh
  /\ calls = 0 /\ asked = time /\ deadline = 0 /\ unmasked = FALSE

\* Cycles in which the program does something else.
Wait == Read /\ UNCHANGED <<timer_mie, inHandler, driver, at, reads, timeh, time, calls,
                          time_base, asked, deadline, unmasked>>

Begin(c, place) ==
  /\ at' = [at EXCEPT ![c] = place] /\ asked' = [asked EXCEPT ![c] = mtime]

Call ==
  /\ ~inHandler /\ at["program"] = "return"
  /\ calls < MaxCalls /\ calls' = calls + 1

CallTimerRead ==
  /\ Call /\ Begin("program", "high") /\ reads' = TRUE
  /\ UNCHANGED <<device, timer_mie, inHandler, driver, time_base, timeh, time, deadline, unmasked>>

CallTimerEnable(base) ==
  /\ Call /\ Begin("program", "elapsed") /\ reads' = FALSE /\ time_base' = base
  /\ UNCHANGED <<device, timer_mie, inHandler, driver, timeh, time, deadline, unmasked>>

\* The variables timer_enable sets have two words each, stored the low one first.
Store(from, to, elapsed, increment) ==
  /\ ~inHandler /\ at["program"] = from /\ Begin("program", to)
  /\ time_elapsed' = elapsed /\ time_increment' = increment
  /\ UNCHANGED <<device, timer_mie, inHandler, reads, timeh, time, calls, time_base, deadline, unmasked>>

StoreElapsed ==
  \/ Store("elapsed", "elapsedh", Join(High(time_elapsed), 0), time_increment)
  \/ Store("elapsedh", "increment", Low(time_elapsed), time_increment)

StoreIncrement ==
  \/ Store("increment", "incrementh", time_elapsed, Join(High(time_increment), Low(time_base)))
  \/ Store("incrementh", "high", time_elapsed, Join(High(time_base), Low(time_increment)))

CallTimerDisable ==
  /\ Call /\ timer_mie' = FALSE
  /\ UNCHANGED <<device, inHandler, driver, at, reads, timeh, time, time_base, asked, deadline, unmasked>>

\* timer_irq_handler is entered; it cannot be interrupted.
TakeInterrupt ==
  /\ interrupt /\ timer_mie /\ ~inHandler
  /\ inHandler' = TRUE /\ Begin("handler", "high")
  /\ unmasked' = (unmasked \/ at["program"] = "cmph")
  /\ UNCHANGED <<device, timer_mie, driver, reads, timeh, time, calls, time_base, deadline>>

Runs(c) == inHandler <=> c = "handler"
Reading(c) == c = "program" /\ reads
Goto(c, place) == at' = [at EXCEPT ![c] = place]
ctrl == <<timer_mie, inHandler, driver, reads, calls, time_base, asked>>

ReadTimeh(c) ==
  /\ Runs(c) /\ at[c] = "high" /\ Read
  /\ timeh' = [timeh EXCEPT ![c] = High(mtime)] /\ Goto(c, "low")
  /\ UNCHANGED <<ctrl, time, deadline, unmasked>>

ReadTime(c) ==
  /\ Runs(c) /\ at[c] = "low" /\ Read
  /\ time' = [time EXCEPT ![c] = Low(mtime)] /\ Goto(c, "again")
  /\ UNCHANGED <<ctrl, timeh, deadline, unmasked>>

Mut_Retry(c) == FALSE

Retry(c) == High(mtime) # timeh[c]

ReadTimehAgain(c) ==
  /\ Runs(c) /\ at[c] = "again" /\ Read
  /\ Goto(c, IF Retry(c) THEN "high" ELSE IF Reading(c) THEN "result" ELSE "mask")
  /\ UNCHANGED <<ctrl, timeh, time, deadline, unmasked>>

Result(c) == Join(timeh[c], time[c])
\* timer_enable passes time_base, which time_increment then holds.
NewTime(c) == Result(c) + (IF c = "program" THEN time_base ELSE time_increment)

TimerReadReturns ==
  /\ Runs("program") /\ at["program"] = "result" /\ Goto("program", "return")
  /\ UNCHANGED <<device, ctrl, timeh, time, deadline, unmasked>>

Mut_MaskTimecmp(c) == Join(High(mtimecmp), Low(NewTime(c)))

MaskTimecmp(c) == Join(High(mtimecmp), WordValues - 1)

\* timecmp_update: the low word is -1 while the high word is written.
WriteMask(c) ==
  /\ Runs(c) /\ at[c] = "mask" /\ Write(MaskTimecmp(c)) /\ Goto(c, "cmph")
  /\ UNCHANGED <<ctrl, timeh, time, deadline, unmasked>>

WriteTimecmph(c) ==
  /\ Runs(c) /\ at[c] = "cmph" /\ Write(Join(High(NewTime(c)), Low(mtimecmp)))
  /\ Goto(c, "cmp")
  /\ UNCHANGED <<ctrl, timeh, time, deadline, unmasked>>

WriteTimecmp(c) ==
  /\ Runs(c) /\ at[c] = "cmp" /\ Write(Join(High(mtimecmp), Low(NewTime(c))))
  /\ Goto(c, "rest") /\ deadline' = NewTime(c)
  /\ unmasked' = (unmasked /\ c # "program")
  /\ UNCHANGED <<ctrl, timeh, time>>

\* timer_enable enables the interrupt; the handler counts and returns.
Rest(c) ==
  /\ Runs(c) /\ at[c] = "rest" /\ Goto(c, "return")
  /\ IF c = "program" THEN timer_mie' = TRUE /\ UNCHANGED <<inHandler, time_elapsed>>
     ELSE time_elapsed' = time_elapsed + 1 /\ inHandler' = FALSE /\ UNCHANGED timer_mie
  /\ UNCHANGED <<device, time_increment, reads, timeh, time, calls,
                 time_base, asked, deadline, unmasked>>

TimerNext ==
  \/ Wait \/ CallTimerRead \/ CallTimerDisable \/ TakeInterrupt \/ TimerReadReturns
  \/ \E base \in Bases : CallTimerEnable(base)
  \/ StoreElapsed \/ StoreIncrement
  \/ \E c \in Contexts :
       \/ ReadTimeh(c) \/ ReadTime(c) \/ ReadTimehAgain(c)
       \/ WriteMask(c) \/ WriteTimecmph(c) \/ WriteTimecmp(c) \/ Rest(c)

TimerSpec == TimerInit /\ [][TimerNext]_timerVars
-----------------------------------------------------------------------------
\* timer_read gives a time between its call and its return, also when the low
\* word wraps between the reads or the handler runs in between (timer.c:34).
ReadIsATime ==
  \A c \in Contexts :
    at[c] \in {"result", "mask", "cmph", "cmp"} => Result(c) \in asked[c] .. mtime

\* The times an interrupt may be due at: the last one set, and the one an
\* interrupted timer_enable is setting.
DueTimes == {deadline} \cup (IF at["program"] \in {"cmph", "cmp"} THEN {NewTime("program")} ELSE {})

\* The handler never runs early, not even when timer_enable is called again
\* with the interrupt enabled and a half-written compare register, or the
\* reset value of it, is passed by the time (timer.c:13).  The one exception:
\* a tick between the first two of its writes undoes its mask, and the next
\* one comes early if the two times differ in their high words.
TickNotEarly ==
  [][TakeInterrupt /\ ~unmasked => \E t \in DueTimes : mtime >= t]_timerVars
=============================================================================
