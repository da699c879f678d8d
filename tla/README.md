# Verification of the PMP secure extension

TLA+ models, TLC runs and TLAPS proofs for the system-on-chip in this
repository: a cv32e40s RISC-V core whose physical memory protection (PMP) has
been extended with a security level and an S-lock bit (`SL`), the C library
that programs it (`lib/pmp.c`), the bus, devices and debug module around
the core, and the firmware and test programs that run on it. Paths below are
relative to the repository's root; the hardware is under `rtl/`, the core under
`rtl/cv32e40s/`, the programs and their library under `software/`, and the other
end of the serial line under `libcsoc/`.

Contents: [inventory](#inventory), [modules](#modules-and-the-code),
[runs](#runs-and-bounds), [fairness](#fairness), [proofs](#proofs),
[findings](#findings), [limits](#what-is-only-model-checked-and-what-is-not-modelled),
[plan](#plan).

## Inventory

### What the system does

Software at two privilege levels (M, U) runs on the core. The PMP checks each
fetch and each data access against up to 64 entries, each a configuration
(`pmpncfg`: lock, mode, permissions) and an address register. `mseccfg`
(Smepmp) adds machine-mode lockdown (MML), a deny-by-default policy (MMWP) and
rule-locking bypass (RLB). The secure extension adds a *security level*
(`S`/`NS`): secure M-mode bypasses every rule, and an entry with `SL` is locked
for the non-secure level only, so a secure monitor can set rules that
non-secure firmware cannot undo. In this repository the level lives in a
simulation device on the bus (`sim_only/secure_control.sv`), and the core
copies it into a register whenever the device answers.

### Components

Modelled in this project:

| Component | State | Operations | What makes it correct |
|---|---|---|---|
| PMP access check, `cv32e40s_pmp.sv` | none | match, permission, priority, default, verdict | regions cover exactly the block their mode describes; MML separates code from data and M from U |
| PMP and level registers, `cv32e40s_cs_registers.sv` | `pmpncfg`, `pmpaddr`, `mseccfg`, `security_lvl` | CSR write, set and clear of each register; load of the level; reset | a locked rule cannot be weakened by any sequence of writes; non-secure software gains no access to what secure rules protect; sticky and WARL fields |
| Data bus interface: response filter, write buffer, OBI interface with integrity FIFO | counters, shift registers of attributes, one buffered store | accept, forward, answer early, answer, clock | in-order answers, exact counts, imprecise errors charged to the right transfer |
| Load/store unit with watchpoint and MPU gates, EX/WB handshake | outstanding counter, gate FSMs, split flag, WB status | present, accept, catch, fault, answer, halt, kill | each answer is that of its own transfer; nothing faulting reaches the bus; nothing issued twice; no deadlock between EX, WB and the gates |
| SoC bus, `bus.sv` and `CSoC_top.sv` | response selectors, fetch-port answer flags | arbitrate, decode, route, share the debug module's port | an answer reaches its own host, a fetch its own data |
| System bus access, `dm/dm_sba.sv` | request FSM | start, request, wait, finish | as a host of the bus |
| Level device and register | device flop (no reset), core register | write, copy on any answer, reset of the register alone | the level in force is the one last written |
| PMP library, `lib/pmp.c` | none of its own (PMP registers) | `pmp_configure_region`, `remove_region`, `setRLB`, `setMML`, `setMMWP`, mode switches | errors change nothing, success means the rule is in force, other entries are kept |
| Instruction fetch: alignment buffer, prefetcher, MPU gate, instruction OBI interface | three-word buffer, incremental counters, flush counter, pending target | fetch, jump, receive, refuse, emit | the core is shown the instructions of its own stream, once, and they keep coming |
| Pipeline control, `cv32e40s_controller_fsm.sv`, `_bypass.sv`, the four stages, and the trap registers it writes | FSM state, debug mode, flags (branch and jump taken, step halt, flush, sequences, fences, wake-up cause), instructions in IF, ID, EX, WB; level, `mstatus`, `mepc`, `dpc`, `dcsr` | a clock cycle: interrupt, NMI, debug entry and exit, exception, wfi, fence, CSR flush, branch, jump, mret, step, and every handshake | instructions are carried out once, in order and at their level; what is saved is the first not carried out; nothing fetched under old rules runs; the debugger is served |
| Firmware library: `memcpy.c`, `print_engine.c`, `timer.c` (the same file in each of the three programs) | none; the position in a format; `time_increment` and two 64-bit device registers accessed by halves | copy, format, read the time, set the next tick (program and interrupt handler) | exact copies that read nothing outside the source; what C says is printed; the time read is one that passed; no tick comes early |
| Serial console: `uart.sv`, `lib/uart.c`, `lib/vstream.c`, and the simulation's `libcsoc` | transmitter and receiver FSMs with FIFOs at both ends, two ring queues, the stop device | clock, send, receive, interrupt, stream read under a masked interrupt, halt | bytes arrive in order, and all of them when nobody had to drop one |
| Test programs `pmp-basic`, `pmp-smepmp`, `pmp-secure`, each with its own copy of the PMP library | PMP registers, running function, privilege, output | configure under the rules in force, access, be refused, change mode and level, return from the exception | the program is never locked out of its own code and data; the rules grant just what its comments say; the output is the recorded one |

Known and not (or only partly) modelled:

| Component | State and hard behaviour |
|---|---|
| Interrupt controllers, sleep unit | `Pipeline` has the registered line and the state SLEEP; not the choice between interrupts, the CLIC, the clock gate |
| Counters, `mcause`, the rest of the trap registers | change only as the pipeline control decides |
| Debug triggers | a match is a kind of instruction in `Pipeline` and a class of transfer in `LoadStore` |
| Decoders, compressed decoder, sequencer (push/pop) | tables, of which `HartBase` has what is illegal where; the sequencer is a small FSM, a sequence of two operations in `Pipeline` |
| ALU, multiplier, divider | data path, the latter two multi-cycle |
| PMA (`cv32e40s_pma.sv`) | a table of the address map; appears as the class and the bufferable attribute of a transfer |
| Security hardening (PC check, dummy instructions, ECC, shadow registers, rchk) | alerts on disturbed hardware |
| Debug module (`dm_csrs`, `dm_mem`, debug ROM) | halt, resume and abstract-command handshakes with the hart |
| Debug transport (`dmi_jtag`, `dmi_cdc`, `cdc_2phase_clearable`, `cdc_reset_ctrlr`) | two clock domains, one-sided resets, sticky busy errors |
| SPI, GPIO and its debouncer | shift register, edge detection; their drivers are one register access each |
| RAM, primitives | RAM as a device that answers in the next cycle; the vendored FIFO as the sequence of its contents |
| Rest of the simulation environment | opening, tracing, GPIO and reset calls of `libcsoc` |
| Rest of the firmware | `strlen`, SPI and GPIO drivers, the encoding of the jump that `install_exception_handler` writes |

### Interactions

* The core's fetch port goes to the RAM's second port or to the debug module;
  its data port and the debug module's bus master share `bus.sv`. Fetches and
  data accesses of the debug module share one device port and one `rvalid`.
* Fetch and data side each pass an MPU gate that asks the PMP and PMA, answers
  a refused access itself, and must not let that answer overtake older ones.
* The controller halts and kills stages; it may do so only while the load/store
  unit reports that it is interruptible. Where it goes and at which level the
  fetch path fetches is decided by registers that it writes at the same time.
* The level device answers on the bus; the answer, whoever it is for, loads the
  level register next to the PMP registers.
* A test program configures the rules while it runs under them; its fetches,
  its stack and its messages are subject to each register write.
* The program and its interrupt handlers share the receive queue, the timer's
  compare register and the UART's registers; the simulation works at the other end
  of the serial line, one pass of a loop per clock.
* The library reads and writes four entries per CSR and reads the level device.

### Hard behaviour

Concurrency is that of hardware: independent FSMs stepping in the same cycle,
with a memory that grants and answers when it likes, a debugger that acts at
any moment, and resets of one part of the system but not of another. In the
software it is that of interrupt handlers, of multi-word device registers, and of
rules that take effect between two instructions of the code that sets them.
`PROJECT.json` lists the 40 main hazards with the line at which each bites and the
properties that would catch it. One is without a property: the flags by which
the hart and `dm/dm_mem.sv` (line 182) exchange halt, resume and command requests;
the debug module is not modelled.

## Modules and the code

`PROJECT.json`, under `map`, names for each definition the source lines it
stands for. A step of a hardware module is one clock cycle: the definitions
without a prime are the combinational signals of the cycle (named as in the
SystemVerilog source), the `_n` operators the values at the next edge, and one
action (`Cycle`, `Clock`) is the edge. A step of `PmpCsr` is one CSR write, a
step of `PmpLib` one library call. A step of the firmware's modules is one
access to something another actor sees (a device word, a shared variable, a PMP
register), or one pass of a loop where nobody looks.

| Module | Models | Extends |
|---|---|---|
| `PmpCheck` | the access check as operators; a register value is the set of its 1 bits | |
| `PmpCsr` | the registers, their write rules, level and reset; the security properties | `PmpCheck` |
| `PmpMatch` | the mask-and-compare network against arithmetic on numbers | `PmpCsr` |
| `PmpCsrProofs` | theorems about `PmpCsr` and the MML table | `PmpCsr`, TLAPS |
| `PmpMatchProofs` | its theorem, and what it needs of powers of two and the bits of numbers | `PmpMatch`, `PmpCsrProofs` |
| `MemoryPort` | abstract specification: an in-order port that may acknowledge bufferable stores early | |
| `DataObi` | response filter, write buffer and OBI interface; refines `MemoryPort` | |
| `LoadStore` | load/store unit, gates, EX and WB handshakes on top of `DataObi` | `DataObi` |
| `LoadStoreProofs` | theorems about both, the refinement of `MemoryPort`, and the specification of the run | `MCLoadStore`, TLAPS |
| `SocBus` | the bus, the debug module's port and master, fetch port, level device and register | |
| `SocBusProofs` | its theorems | `SocBus`, TLAPS |
| `PmpLib` | `lib/pmp.c` on the registers of `PmpCsr` | `PmpCsr` |
| `PmpLibProofs` | theorems: what a call may report and change, and that the security properties of the registers survive calls | `PmpLib`, `PmpMatchProofs` |
| `FetchPath` | alignment buffer, prefetcher, MPU gate and OBI interface | |
| `FetchPathProofs` | its theorems | `FetchPath`, TLAPS |
| `HartBase` | kinds of instructions, the registers that decide where a hart goes, and what CSR writes, traps, returns and debug entries do to them | |
| `Hart` | abstract specification: one instruction after the other, traps and debug entries between them | `HartBase` |
| `Pipeline` | controller FSM, bypass stalls, stage handshakes; refines `Hart` | `HartBase` |
| `PipelineProofs` | its theorems, and the refinement | `Pipeline`, TLAPS |
| `Memcpy` | `memcpy`, one pass of a loop per step | |
| `PrintEngine` | `printf_engine` and the plain numbers of `lib/system.c`, against what C says of a conversion | |
| `Timer` | the timer device and its driver, program and interrupt handler | |
| `RingQueue` | the circular queue of `cqueue.c` and `vstream.c`, as operators | |
| `FirmwareProofs` | theorems about `memcpy`, the timer, the ring queue and the serial line | `Memcpy`, `Timer`, `Console`, TLAPS |
| `UartLine` | both halves of both ends of the serial line, as operators | |
| `Console` | program, interrupt handler, UART, line and simulation together | `UartLine`, `RingQueue` |
| `ProgramLib` | the programs' copies of the PMP library, one register write per step | `PmpLib` |
| `TestPrograms` | the three programs, their exception handler, against the access check | `ProgramLib` |
| `MC*` | values of the constants for TLC | the module they name |

Composition. `PmpLib` drives the registers of `PmpCsr` with the hardware's own
write rules, so what the library reports can be compared with what the hardware
enforces. `LoadStore` steps `DataObi` in the same cycle through `ObiClock`,
with the request its gates let through; in the behaviours of `MCLoadStore` in
which `alone` is set, an unconstrained core steps it instead. The verdicts of the checker are data to `LoadStore`
and `FetchPath` (the class `FAULT`, the input `bad`): which transfer faults is
arbitrary there, and what faults is `PmpCheck`'s subject. `Pipeline` has
`FetchPath` and `LoadStore` below it as what their runs show: a fetch delivers
the instruction at `pc_if` after some time (`OwnInstruction`,
`InstructionsKeepComing`), an access is accepted once and answered once with
its own status (`PerformedOnce`, `StatusIsRight`, `MovesOn`), and it is
interruptible as `interruptible_o` says. `TestPrograms` asks `PmpCheck` for every
access, writes the registers through `PmpCsr`, and is interrupted by its own
exceptions only. `MCFirmware` puts the parts of the firmware side by side: `part`
says which of them works in a behaviour, and the others rest.

The mapping of `Pipeline` to `Hart`: the hart is at `pipe_pc`, the address the
FSM saves; it has begun that instruction while its access is outstanding in WB
or while a sequence of operations is in WB; it owes a stop when the FSM is on
its way to debug mode after a step. A cycle is then at most one step of `Hart`:
WB is the only stage in which something is carried out.

Ghost state is confined to the last variables of a module and is marked in its
declarations: `owed`, `slave` and `waiting` in `DataObi`, `due` and `issued` in
`LoadStore`, `owed`, `fetch_owed` and `written` in `SocBus`, the `stale` label
of words, `answered` and `quiet` in `FetchPath`, `waited`, `tick` and `stale` in
`Pipeline`, `reach` in `Memcpy`, `asked`, `deadline` and `unmasked` in `Timer`, `lost` and
`late` in `Console`. `slave` is at the same time the environment's queue, and `held` in
`Pipeline` a debugger that does not take its request back. No action reads ghost state to decide what the code does.

Abstractions worth knowing:

* Requests, instructions and words carry tags, not contents. A word of the
  instruction stream is the set of its halves that begin a 32-bit instruction,
  drawn afresh whenever one arrives.
* OBI parity and checksum values are left out; the bookkeeping of the grant
  parity error (which response it is reported with) is in.
* `WriteSecurityLevel` in `PmpCsr` lets the level change at any time; `SocBus`
  says how it does.
* An instruction of `Pipeline` is the kind of thing it asks of the controller;
  operands are gone, so a register hazard is an input where one can exist, and a
  program is a map from addresses to kinds. `mstatus.TW` is 0, and
  `dcsr.ebreakm` and `dcsr.ebreaku` are one bit. A step written to `dcsr` is a
  choice of the debug ROM's program.
* `lib/pmp.c` reads an uninitialised variable for a region number of
  `PMP_REGIONS`, which it lets through; `Reads` is any value then.
* A device without reset (`security_level`) starts with any value, and so do the slots
  of a queue. `tx_bits_sent` of `libcsoc`, which nothing initialises, starts with any value
  of `LeftInMemory`; the run `firmware` takes 0 and 254 only, because 1 to 9 break
  `StreamsInOrder` (see [findings](#findings)).
* A 64-bit variable of `timer.c` that program and handler share is stored as two
  words, in the order of the source and the low word first; the compiler may choose
  another order.
* `Pipeline` counts the stores that are answered before the bus answers, up to `DEPTH`;
  which of them an error belongs to is the business of `LoadStore`.
* The address map of `TestPrograms` is scaled: the devices, the RAM and the blocks
  the programs name keep their order, alignment and adjacency; sections are a
  small number of lines. `user_area` and `m_area` lie in `.data` behind at least one
  line of other variables, as the linker has to place them.
* Of an exception of a program the model keeps what decides how it goes on: where
  `mret` lands, the privilege, the static counter of the tests, and (`stray`) the
  registers the handler has overwritten.

Mutants. A definition `Mut_X` (`Mut2_X`) stands next to `X` and is a plausible
faulty version of it; with it in the place of `X` the property paired with it in
`PROJECT.json` fails. They take no part in the models.

## Runs and bounds

Each run is `tlc -config <cfg> <module>`; sizes are of distinct states.

| Run | Question | Bounds, and why they suffice |
|---|---|---|
| `pmp_csr` (14k) | Can any sequence of CSR writes, level changes and resets weaken a locked rule, widen the access to a shielded word, add machine code under MML, or make the reserved encoding effective? | Two entries in one `pmpcfg` register: the rules relate an entry to itself and to its neighbour. Two address bits. Four written configurations: unlocked, `SL`, `L`, and one per way the MML table treats a locked entry; both address values differ in one bit |
| `pmp_grain` (7k) | Do the comparators cover exactly the block of the mode, and do CSR set/clear touch only their mask, when read-back differs from storage? | Granularity 2 with three address bits, so a stored bit, a hidden bit and a compared bit all exist; built without the extension |
| `load_store` (13k) | Are answers, faults, watchpoints, kills and halts right for back-to-back and split accesses, with early acknowledgement below them, and does everything move on? | Depth 2 as in the core. Loads of each class, whole or in two halves of independent classes, and stores that may be buffered; a non-bufferable store differs from a load in data only, and is among the transfers the bus side alone is driven with |
| `soc_bus` (5k) | Do answers reach their host, fetches their data, level writes the register? | RAM, debug module and level device, and an unmapped address: a device not named behaves like the RAM's data port |
| `pmp_lib` (7k) | Do results of calls agree with the hardware? | Two regions, 16 bytes; TOR and NAPOT in good and bad shapes, with `L`, `SL` and neither; region numbers up to the first that does not exist |
| `fetch_path` (10k) | Is the core shown its own instructions, and do they keep coming? | Buffer of 3 and 2 outstanding as in the core; 4 words of address space, more than the buffer holds, so two words in the buffer never share an address; jumps to an aligned, an unaligned and a pointer target |
| `pipeline` (199k) | Does the pipeline do what the program says, whatever meets in a cycle? | 486 programs of nine addresses: start-up code that sets `mepc` and returns to the lower level, two instructions of every pair of kinds, a trap handler, a debug ROM; the pipeline holds four instructions. Families of them meet no event, interrupts, debug requests, NMIs or a request that stays; with and without `pc_hardening`, which splits jumps in two |
| `firmware` (160k) | Does the software below the programs do what its callers rely on, and do the programs do what they and the repository's logs say? | `memcpy`: every pair of alignments and every length to 56, so that all loops and all conditional copies of the tail run. Printing: words scaled to 3, 5, 8 and 9 bits, so each size truncates some argument differently; every flag, widths below and above the text, two conversions in a row. Timer: words of four values and 16 cycles, so three carries into the high word; a period of one cycle and one longer than three words, which differ in both words, so a half-stored one is neither; two calls. Console: bytes of two bits, four clocks per bit (a tick in the middle and one at the edge), all queues of two places so that each fills; nine sessions, one per way to receive and per phase of the baud counter. Programs: twelve regions, a memory of 512 bytes, a layout with the smallest sections and one with each section larger |
| `soc_bus_idle`, `pmp_lib_rlb`, `pmp_lib_small`, `uart_edge` | Does what a comment or the header says hold? | They end in the counterexamples under [findings](#findings) |

Deadlock is checked in every run but `firmware` and `uart_edge`, whose parts come to
an end; that the programs do so only at their end is `EveryProgramEnds`, and that
the console does not stop with bytes on the way `EverythingArrives`.

## Fairness

Fairness is that of hardware: the clock runs, and the environment keeps to OBI.

* `load_store`: a request that keeps waiting is granted in the end, and a granted
  one is answered. Both are what OBI asks of a subordinate, and
  `bus.sv` and the devices grant and answer at once or after another host's
  access. The clock also runs with no event: the controller does
  not take an interrupt or halt the pipeline in every cycle for good. The bus side
  alone gets no fairness; only safety is asked of it.
* `SocBus`: `[]<><<TRUE>>_vars`, the clock. While a fetch waits no cycle leaves
  the state unchanged. That the core makes at most `MaxRun` data accesses
  without another fetch is a bound of the model which its liveness property
  needs: a data access comes from an instruction that was fetched.
* `Pipeline`: the clock, which `tick` makes visible once the debugger holds its
  request, so that a pipeline that stands still is not ruled out by the fairness;
  and a memory that does not keep the same fetch, request, access or buffered
  store waiting for good, each on its own (`waited`). `LoadStore` and
  `FetchPath` show the latter under their fairness.
* `FetchPath`: the same memory, and a clock that also ticks with an IF stage
  that is ready; the liveness property itself assumes that the core goes on
  taking instructions without jumping.
* `Console`: the simulation clocks on and the core runs the program (weak
  fairness each); the interrupt handler has strong fairness, as an interrupt that
  is pending and enabled is taken ahead of the next instruction, however
  short the program leaves it unmasked.
* `TestPrograms`: the program's one thread goes on.

## Proofs

A theorem holds for every value of the constants that the named assumptions in the
modules allow. TLC checks the same properties, and each inductive invariant was put
to TLC before it was proved. Where a theorem has a hypothesis of its own, it is
given here with the reason.

| Module | Theorems |
|---|---|
| `PmpCsrProofs` | `NoReservedPerm`, `LockedRuleHolds`, `NonSecureCannotGain`, `MachineCodeSealed`; `CodeIsNotWritten` |
| `PmpMatchProofs` | `MatchesBlock` |
| `PmpLibProofs` | `LockedNotOk`, `OkIsInForce`, `NothingElseChanged`, and the first two security properties again, over calls |
| `SocBusProofs` | `AnswerIsOwn`, `FetchIsOwn`, `LastWriteInForce` |
| `LoadStoreProofs` | `CountersExact`, `BlameIsRight`, `StatusIsRight`, `PerformedOnce`, `RequestNotRetracted`, `PortSpec` |
| `FetchPathProofs` | `OwnInstruction`, `FaultIsOwn`, `CountsExact` |
| `PipelineProofs` | `FetchedAtItsLevel`, `NothingStaleRuns`, `WakeForDebugEnters`, `HartSpec` |
| `FirmwareProofs` | `CopiesExactly`, `ReadIsATime`, `TickNotEarly`, `StreamsInOrder`; the queue is a bounded sequence |

### The PMP registers

`PmpCsrProofs` proves the properties of `pmp_csr`, for every number of entries,
address width, granularity, group size, with or without the extension and for
any sets of written values, from `PmpParameters` and `CsrParameters` alone.
`PmpMatchProofs` adds that of `pmp_grain`.

* The invariant of the registers is `Inv == TypeOK /\ NoReservedPerm`. `TypeOK` alone is
  inductive; `NoReservedPerm` needs it (the permissions that are kept when a
  write is refused are legal), and MML must not clear. `InitInv` and `StepInv`
  show it, with one step per action; `TypeCorrect` and `ReservedPermExcluded`
  are its two halves.
* `LockedRuleTheorem`: `MatchDependsOn` says which registers a match depends on
  (the entry, its address, and below a TOR entry the next address; the stored
  bits below the granularity do not matter, `ComparedReadData`). `LockedStep`
  shows that no action changes these while the entry is locked;
  `LockedCoverage` joins the two.
* `NonSecureTheorem`: `ShieldStep` lifts this to the deciding rule of a word,
  `DecidingRule` reduces the verdict to that rule, and `MmlRestricts` shows that
  turning MML on takes rights from a rule that is not in the reserved encoding.
  This is where `NoReservedPerm` is needed: the reserved encoding would gain
  rights.
* `MachineCodeTheorem`: a rule that gives machine mode execution under MML has
  `L` set (`MachineCodeIsLocked`), so a new one would have to be written, which
  the WARL rule ignores, and an old one is locked.
* `MmlSeparates`: `MmlRule` goes through the MML table, rule by rule; `OneDecides` and
  `DecidingRule` reduce the verdict of the whole check on a word to that of the first
  matching rule; a word without a rule is executed by neither level. The exception
  is the encoding `RWX` without `L`: user mode may write what it executes, and
  machine mode has no access. `CodeIsNotWritten` is about the non-secure level; it follows
  from `TypeOK`, and no run checks it.
* `BlocksMatched`: the comparators against arithmetic. Bits become numbers step by
  step: two numbers agree, or are in order, above bit `k` iff their quotients by
  `2^k` do (`AgreeHigh`, `LowerHigh`), every set of bits is that of one number
  (`BitsOnto`), and a run of `n` ones at the low end masks `2^(n + 1)` words
  (`TrailingIs`, `QuotientBlock`). `MatchTor`, `MatchNa4` and `MatchNapot` put the
  comparators into these terms, one lemma for each mode. NA4 is right only because the
  WARL rule never stores it at a coarser granularity (`NoNa4`), which is the
  invariant added to `Inv`. The inductions over the bits are by a least
  counterexample (`DownTo`, `NatSets`), and that `2^(n + 1)` is twice `2^n` comes
  from counting subsets (`PowSucc`).

### The library

`LibInv` is the registers' invariant and `LevelInv`: the core is non-secure only when
the device the library reads says so. The converse fails, because a reset of the core
takes its register to `S` and leaves the device; `LevelInv` is the half that
`LockedNeverOk` needs, as the library then believes in more locks than the hardware
has. Two lemmas carry the rest: a write of one entry of a shared configuration
register writes the others back as they are (`WrittenBack`, which needs that the
stored permissions are legal), and the outcomes of a call by its early returns
(`OutcomesOfConfigure`).

`NothingElseChanges` assumes `Granularity = 0`, which is what the core is built with
and the library's constant: with a coarser one, a TOR start that is no multiple of it is
written to the lower entry before the call finds out and refuses. `OthersAreKept` needs
no such hypothesis. `SuccessIsInForce` assumes the two things both are built with:
granularity 0, because a coarser one drops the low bits of a NAPOT address
whose dimension is the granularity's own, and the secure extension, without which `SL` is not
stored. Its lemmas go through the modes: `OkTor` and `OkNapot` compare the words
asked for with those the comparators select, `NapotSpelled` shows that the library's
`addr + dim/8 - 1` is the base with as many trailing ones as the size calls for, and
`OkMeans` that a reported success has passed all the early returns. `LockedRulesOutliveCalls` and `CallsGainNothing` carry the first
two properties of the registers over to sequences of calls: `CallsKeepLocked` shows
that a call is a sequence of writes that each respect the locks.

### The SoC bus

`AnswerInv` says that the registered selection remembers the one access under way and
the other host waits for nothing. It is inductive only while the idle address lines of
the core's data port do not decode to the debug module, the hypothesis `QuietLines`
(a predicate on the constants `IdleAddr` and `Window`) of `AnswersAreOwn` and `RvalidsAreOwed`.
The run `soc_bus_idle` shows that it is needed. `FetchesAreOwn` and
`LastWritesInForce` hold without it. Any device set and any address map will do whose
windows do not overlap and whose named devices differ (`BusParameters`).

### The data side

The bus side for every `DEPTH`, the load/store unit for depth 2, as its code has it (the
halves of one split access); both for every set of transfers and instructions of the
classes the code tells apart (`LoadStoreParameters`):

* `ObiInv` is about the response filter, the write buffer and the OBI interface: the
  counters are the lengths of the queues, each bit of the filter's and the interface's shift
  registers belongs to its transfer, the buffer's transfer is the youngest, a
  grant-parity error waits with the request it belongs to; what the core no longer waits
  for is bufferable. `ObiInvStep` shows that a cycle keeps it whoever steps the bus side
  with a request of its own. `BusCounts` and `BusBlame` follow.
* `BusIsAPort` and `LsuIsAPort` are the refinement of `MemoryPort`, step by step: a
  cycle accepts at most one transfer, performs at most one and answers at most one, and
  the abstract step is the composition; initial states map to initial states, and a
  cycle in which none of this happens maps to a stutter.
* `LsuInv` adds what the core waits for, the bus's transfers and then the one a gate
  holds, which is of the gate's class (`GatesInv`), and how EX and WB stand while a
  transfer is outstanding (`StagesInv`): a request in EX keeps its place, since the
  instruction in WB is a load or store that goes without trouble and `interruptible_o`
  keeps the controller off (`Decides`). `CountersAreExact`, `StatusesAreRight`,
  `PerformsOnce` and `NotRetracted` follow from `ObiInv /\ LsuInv`.
* `RunInv` joins them over `alone`, and `RunsAreSafe` and `RunsAreAPort` state the
  properties for `MCSpec`, the specification that the run checks.

### The fetch path

For every depth from three, any number of transfers in flight below it, every address
space larger than the buffer and any jumps (`FetchPathParameters`). `FetchInv` says,
in its parts: the buffer holds the first words of the stream that begins at `addr_q`,
in order (`BufferInv`); the words on their way are `n_flush_q` to drop and then the
stream's next ones, and a refused fetch is the last (`FlightInv`); the prefetcher goes
on behind them (`AddressInv`); a pointer is alone (`PointerInv`); there is room for
all (`RoomInv`); `instr_cnt_q`, less what left in the last cycle, is the number of
instructions complete in the buffer, and `aligned_q` and `complete_q` say where the
next one begins (`CountInv`). The parts need each other. Nothing holds a word back
when the buffer is full: that there is room follows from the count being right, as the
prefetcher asks for a word only when at most one complete instruction is held, which
needs at most two words (`FewWords`). And that the count is right follows from the
words arriving in order.

`CountInv` is stated with a chain of starts (`Chain`, each instruction beginning where the
one before it ends) so that it needs no recursion: a word that comes in extends it
(`PushChain`) and an instruction that leaves shortens it (`PopChain`). The address
space must be larger than the buffer so that words in it are told apart by their
addresses; the core's has 2^30 words.

A cycle without a jump keeps each part (`OnwardInv`, one lemma per part), and one with
a jump empties the buffer and leaves only words to drop in flight (`JumpInv`).
`OwnInstructions`, `FaultsAreOwn` and `CountsAreExact` follow without another
induction.

### The pipeline

For every program, that is, every map from addresses to kinds, every `Succ` and
`Target`, with and without `pc_hardening` (`HartParameters`, `ScenarioParameters`).
`PipelineInv` says of the stages and the flags of the controller:

* `DecodeInv`: an instruction in EX or WB is what it was decoded as. Decoding depends
  on debug mode and `dcsr.step`, which change only together with a flush or behind a
  write that empties the pipeline.
* `PathInv`: each operation follows the one before it in the program, from WB to the
  fetch address, except behind a branch or jump that has not been taken yet; `BranchInv`,
  `JumpInv` and `SubInv` say which of the split branches and jumps have been
  (`branch_taken_q`, `jump_taken_q`, `multi_op_cnt`), and `SeqInv` which operation of
  an instruction is the oldest.
* `LevelInv`: each stage has the level that is in force behind all instructions before
  it; behind an `mret` that is `MPP`. It needs `MretInv`: while an `mret` that has jumped
  waits, nothing before it writes the registers it has read.
* `StepInv`, `DebugInv`, `SleepInv`, `WakeInv`, `FlushInv`, `ResetInv`: what is empty or
  halted while a step, a debug entry, a sleep, a wake-up, the flush after a register
  write, or reset is on its way.

The 19 outcomes of the FSM fall into four classes, each with one lemma: the pipeline is
emptied (`ClearInv`), WB is held (`HoldInv`), only WB goes on (`RetireInv`) or
instructions flow (`FlowStep`, one lemma per part of the invariant). The decision is the
first request that applies (`DecisionIs`), and what it kills and halts follows from it
(`Kills`, `Halts`).

`LevelsKept`, `FlushSafe` and `WakeEnters` follow from the invariant: a debug request
that woke the core finds it quiescent and outside debug mode, so it is allowed at once;
`stale` implies that the flush is pending and WB empty. `HartRefined` is the refinement,
with the mapping described [above](#modules-and-the-code): initial states map to initial
states, and each cycle to at most one step of `Hart` (`ClearBelow`, `HoldBelow`,
`RetireBelow`, `FlowBelow`). When instructions flow, one is carried out if the last
operation leaves WB, the hart goes to where the invariant says the next one is
(`FlowPc`, `AfterWb`), and otherwise at most begun.

The attempt to prove `LevelInv` corrected the model: `fetch_priv_lvl` was written as
a choice between two conditions that can hold at once, when an `mret` retires in the
cycle in which a younger one is killed in ID. The code gives the retiring one priority
(`cs_registers.sv:2276`), and the model now does.

### The firmware

The timer: `TimerInv` has the types, what each context knows of the time between
its three reads (`ReadInv`: the time read lies between the last and the next reading
of the high word, which are equal when the loop ends) and what the compare register
says while it is written by halves (`CompareInv`: it is never below every time that is
due, unless the mask was undone), and that the two words of `time_increment` have both
been stored when the program computes a time (`StoreInv`). Proving it showed the exception `unmasked`, which is
described under [findings](#findings). Words of any number of values, any periods
above 0, any number of calls.

`MemcpyCopiesExactly` shows `CopiesExactly` for every alignment and length (`MaxCount` only
says how far): `CopyInv` adds to it what each stage establishes: `Remaining`, that
what is left to copy is `left`, and in the tail the bits of `left` from `chunk` down,
and `Carried`, that in the shifted loop the destination is aligned, the source is not,
and `word` is the source word the pointer is in. `Filling` is the step they share.

The ring queue is, for every size and every element, the
sequence `Contents`: an element enters at its end unless the queue is full
(`EnqAppends`) and the first one leaves (`DeqTakesFirst`). `Console` uses the
queue of both ends through these operators.

`StreamsKept` shows `StreamsInOrder` for every session, any size of the byte, of the
FIFOs and of the queues, under two hypotheses. `Paced`: a bit lasts four clocks or more
(the receiver sees the line three clocks late; the SoC and `libcsoc` have 100) and a frame
has fewer bits than its 8-bit counter counts (10). `StartsClean`: the emulation does not
start in the middle of a byte; without it the property fails
([findings](#findings)). The invariant `ConsoleInv` has three parts.

* `HostInv`, for what the program prints. Both ends of this direction count the same
  clocks, so the emulated receiver stays in the transmitter's bit
  (`Hooked`): which bit each is in, with which count, and that the bits taken so far are
  the first of the byte on the wire (`OnWire`). What the host has, its queue, that byte and
  the transmitter's FIFO together are what the program wrote.
* `StreamInv`, for the driver. The program and the handler share the queue and its
  counter; `Discipline` says which of the two may be between which steps, from what
  masks the interrupt. In the middle of a removal the element is in a register only; `Held`
  puts it back in front, and `Counted` says that the counter is the length of that.
* `LineInv`, for what the host sends. Here the receiver's counter runs on its own and is
  set by the start bit. `InStep` says how far the transmitter is ahead of it: the
  receiver waits (`Waiting`), is `Within` the byte, where the two counts differ by the
  four clocks of delay less half a bit (`BitsAhead`), or is `Past` its last bit; `Bits`
  says that the bits sampled so far are those of the byte sent. `Stream` is what has been received, and is at most one byte
  ahead of or behind what has been sent to the end.

`ConsoleInv` was put to TLC for 4, 5, 7, 10 and 12 clocks per bit before it was proved; it
does not hold for 3, nor for a start in the middle of a byte. The steps of the line are
by cases: `WaitingMoves`, `StartMoves`, `WithinMoves`, `SampleMoves`, `StopMoves` and
`PastMoves`. `late` is a
hypothesis of this part alone: a byte whose start bit meets the tick is excepted.

## Findings

Four disagreements between code and comments have a run.

* `soc_bus_idle`: `cv32e40s_load_store_unit.sv:512` relies on the data port
  seeing `rvalid` only for an accepted request. `bus.sv` registers the decoded
  device in every cycle, also without a request, and the debug module raises its
  one `rvalid` for fetches too. A fetch from the debug ROM while the idle data
  address decodes to it gives the core an answer it is not owed. The runs of
  `SocBus` that pass keep the idle address off the debug module.
* `pmp_lib_rlb`: `setRLB(1)` returns `PMP_OK` although a locked rule keeps RLB
  clear, because `v&RLB!=RLB` is `v & (RLB!=RLB)`.
* `pmp_lib_small`: a NAPOT region of exactly the granularity is accepted, and
  its address underflows to all ones, which covers everything; the header says
  the dimension must be larger.
* `uart_edge`: `uart.sv:123` sets the baud counter half-way at a start bit "to ensure
  sampling the bits 'in the middle'", but a tick of the idle counter has precedence. A
  start bit on a tick has its byte sampled in the last cycle of each bit, and the byte
  sent directly after it is missed. `EverythingArrives` assumes that it does
  not happen (`late`).

Seen while modelling `lib/pmp.c`, modelled as the code does it, without a run:
NA4 is refused whatever its dimension (line 696); `remove_region` does not look
at `SL` and reports success for an entry that stays (658, with a TODO);
`pmp_configure_region` reports success when lockdown or a locked TOR entry above
makes the hardware ignore a write (757), which is why `OkIsInForce` is
conditional; the level device keeps its value over a core reset while the
register returns to `S`.

Seen in the simulation library while proving `StreamsKept`, modelled as the code does
it, without a run: `uart_init` does not assign `tx_bits_sent` (`libcsoc/uart.c:9`), and
`main.cpp` has the `csoc_t` on the stack. With 1 to 9 left in it the first byte goes out
without its start bit and the bits before the one counted, with 9 as a stop bit only,
and the SoC loses or misreads it: with `LeftInMemory` `{0, 3}` in `MCFirmware.cfg`, where a
byte has two bits, TLC finds `StreamsInOrder` violated. The run `firmware` starts from 0
and from a value above, which delays the first byte.

Seen in the firmware, modelled as the code does it, without a run: an interrupt that
is taken in `timer_enable` after it has masked the compare register, and before it has
written the high word (`timer.c:13`), has the handler set a time of its own and so
lift the mask; the interrupted call then writes the high word against the low word of
the handler's time, and the next tick comes early if the two times differ in the high
word. It takes a call with the interrupt enabled already, which the programs do not
make. `unmasked` records it and `TickNotEarly` excepts it; without the exception TLC
finds the early tick with `MaxTime` 21. An interrupt between the two words of
`time_increment` (`timer.c:45`) has the handler count with one word of the old period
and one of the new (2 when 14 follows 1, with words of two bits); the run takes such
ticks, and none is early for the time that the handler set. The earlier
library (`pmp-basic`, `pmp-smepmp`) tests `word & PMP_CFG_L == PMP_CFG_L`, which is
`word & 1`, and so takes a readable entry for a locked one; the handler of
`pmp-basic` returns to the refused access with `a5` as `puts` left it, so the retried
access goes to address 0, and the recorded log is what then follows; the `mret` of the
handlers skips their epilogue, which leaves their stack frames behind; `sim_halt` can end the
simulation with bytes still in the transmit FIFO; in a build with 64 regions
`read_pmpaddr_csr_value` gives `pmpaddr62` for 63
(`software/pmp-secure/lib/pmp.c:608`). The print engine departs from C in four ways
(`Departs`): `-` drops the sign, `+` and space apply to `%u`, and the prefix of `#` is
outside the width and is put before 0 too; `PrintsAsC` is about all other conversions.

## What is only model-checked, and what is not modelled

TLAPS proves neither liveness nor `ENABLED`, and cannot follow recursive operators. The
library's induction theorems cannot be instantiated here either; where a proof needs
one, it takes the least element of a set of numbers. So these stay with TLC, at the bounds above:

* liveness: `MovesOn`, `EveryFetchGranted`, `InstructionsKeepComing`,
  `DebugServed`, `EverythingArrives`, `EveryProgramEnds`;
* `PrintsAsC`, whose reference definition is recursive;
* `NeverLockedOut`, `AsDocumented` and `FollowsLog` of `TestPrograms`.

Not modelled: the components of the second table above. What surrounds the
models is left arbitrary rather than assumed where possible: the controller may
raise any event its guards allow in `LoadStore`, jump at any cycle in
`FetchPath`; a slave grants and answers at any time; in `Pipeline` an access may
fault and, among the events of some programs, a bus error arrive with any
answer. Of the controller, CLIC pointers,
table jumps, watchpoint and exception triggers and dummy instructions are left
out. `Pipeline` says nothing about the address of a trap vector or the cause
registers.

Of the firmware, the drivers of SPI and GPIO and `strlen` are left out: one register
access or one loop each. So is the conversion `%n`. `remove_region` and the addresses
that `pmp_read_region` reports have no caller in the programs. Instructions between two
accesses of a program are not steps: nothing else runs in the test programs, and in
`Timer` and `Console` the accesses to the variables that a handler shares are steps
too; what lies between touches nothing the handler uses.

## Plan

Done in this order: the PMP registers and check with their proofs; the data
side from the bus upwards; the SoC bus with the level device; the library; the
fetch path; the pipeline; the firmware, the serial line and the test programs; the
proofs about the data side, the bus, the library, the firmware, the fetch path and the
pipeline.

1. The rest of `Pipeline`: table jumps and the sequencer's operations one by one,
   watchpoint triggers as answers of WB, dummy instructions.
2. `FetchPath` with the privilege level of a fetch as the prefetcher holds it
   while a target waits.
3. `DebugModule`: `dm_csrs`, `dm_mem` and the debug ROM loop as halt, resume and
   abstract-command handshakes; abstract specification: a command runs once, and
   busy is shown until it has. Then `ClockCrossing`: `cdc_2phase_clearable` with
   `cdc_reset_ctrlr` as two processes, refining a one-place channel that may be
   cleared, and `dmi_jtag` on top.
4. `Sequencer`, triggers, multiplier and divider as algorithms against their
   definitions; SPI.
5. Proofs: `NeverLockedOut` of `TestPrograms`, for every layout whose sections are in
   the order of the linker script.
