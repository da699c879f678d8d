---------------------------- MODULE TestPrograms ----------------------------
(* The programs pmp-basic, pmp-smepmp and pmp-secure: the rules main()        *)
(* configures while it runs under them, the accesses tried in each mode, and  *)
(* the exception handler that takes a program past a refused one.  A step is  *)
(* a message, an access, a CSR write or a return from an exception.           *)
(* pmp-basic and pmp-smepmp are built for a core without the secure extension *)
(* (their READMEs): they start at the level NS and nothing changes it.        *)
EXTENDS ProgramLib

CONSTANTS
  Layouts,   \* sizes of the sections the linker may produce
  MaxSaid    \* bound: lines of output kept

Line == 16   \* the 32 bytes to which sections and areas are aligned

ASSUME ProgramParameters ==
  /\ SecureMonitor /\ MaxSaid \in Nat
  /\ \A l \in Layouts :
       /\ \A s \in DOMAIN l : l[s] \in Nat /\ l[s] % Line = 0
       /\ l.text > 0 /\ l.m_code > 0 /\ l.user_code > 0
       /\ l.rodata > 0 /\ l.bss > 0
       /\ l.data >= 3 * Line      \* room for user_area and m_area

VARIABLES
  program,   \* "basic", "smepmp" or "secure"
  layout,    \* of its sections
  routine,   \* what runs: "setup", the M-mode "tests", "user", or "halted"
  step,      \* the next step of each routine; its static count past that label
  priv,      \* privilege
  mpp,       \* mstatus.MPP
  stray,     \* the handler has overwritten the registers of a refused access
  said       \* the lines of output

choice  == <<program, layout>>
control == <<routine, step, priv, mpp, stray>>
progVars == <<libVars, writes, choice, control, said>>

-----------------------------------------------------------------------------
(* The address map, in bytes, with the large blocks scaled down.              *)
SIM_CTRL == 32      \* 0x20000
LEVEL    == 64      \* 0x40000, the device with the security level
RAM      == 128     \* 0x100000
RAM_END  == 384     \* 0x110000
RO       == 424     \* 0x120004, in a block that ends at RO_END
RO_END   == 448     \* 0x130000
NO_RULE  == 480     \* 0x140000
REGION1  == 416     \* 0x120000
REGION2  == 432     \* 0x125000

text_end     == RAM + layout.text
mcode_end    == text_end + layout.m_code
usertext_end == mcode_end + layout.user_code
rodata_end   == usertext_end + layout.rodata
data_start   == rodata_end + layout.gap
bss_start    == data_start + layout.data
bss_end      == bss_start + layout.bss
user_area    == data_start + Line
m_area       == user_area + Line

-----------------------------------------------------------------------------
(* Steps of a program.                                                        *)
Say(line, k) == [op |-> "say", line |-> <<line, k>>]

Config(n, mode, from, to, size, locks, perm) ==
  [op |-> "configure",
   config |-> [region_number |-> n, A |-> mode, perm |-> perm,
               L |-> "L" \in locks, SL |-> "SL" \in locks,
               region_start_address |-> from, region_end_address |-> to,
               region_dimension |-> size]]

Tor(n, from, to, locks, perm)     == Config(n, "TOR", from, to, 0, locks, perm)
Napot(n, from, size, locks, perm) == Config(n, "NAPOT", from, 0, size, locks, perm)

Mseccfg(field, on) == [op |-> "mseccfg", field |-> field, on |-> on]

\* An access; a store to the device of the level sets it.
Access(t, a, may) ==
  [op |-> "access", type |-> t, to |-> a, may |-> may, sets |-> "none", prints |-> <<>>]
SetLevel(l) == [Access("W", LEVEL, TRUE) EXCEPT !.sets = l]

\* Test k announces its access, and whether it should succeed.
Test(k, t, a, may) == <<Say("test", k), Access(t, a, may)>>

\* A test that calls a function, which prints a line.
CallTest(k, f, may, line) ==
  <<Say("test", k), [Access("X", f, may) EXCEPT !.prints = <<<<line, 0>>>>]>>

Enter(f) == <<[op |-> "enter", to |-> f]>>

\* mret, by switchToUser with MPP cleared.
Mret(f, user) == <<[op |-> "mret", to |-> f, user |-> user]>>

switchToUser == <<Say("switching", 0)>> \o Mret("user", TRUE)

End == <<Say("end", 0), [op |-> "halt"]>>

-----------------------------------------------------------------------------
(* pmp-basic.                                                                 *)
basic_main ==
  <<Tor(0, 0, RAM, {}, Perms), Tor(1, RAM, RAM_END, {}, Perms),
    Tor(2, RAM_END, RO_END, {"L"}, {"R"}),
    Napot(3, RO_END, Line, {}, {"R"}),
    Mseccfg("mmwp", TRUE)>> \o Enter("tests")

basic_tests ==
  Test(0, "W", RO, FALSE)
    \o Test(1, "W", RO_END + 4, TRUE) \o Test(2, "R", RO_END + 4, TRUE)
    \o Test(3, "R", NO_RULE, FALSE) \o switchToUser

basic_user ==
  <<Say("user", 0)>> \o Test(0, "R", RO_END + 4, TRUE)
    \o Test(1, "W", RO_END + 4, FALSE) \o End

-----------------------------------------------------------------------------
(* pmp-smepmp.                                                                *)

\* RX for M, until MML turns the second rule over into RX for M and X for U.
smepmp_code ==
  <<Mseccfg("rlb", TRUE),
    Tor(2, text_end, mcode_end, {"L"}, {"R", "X"}),
    Tor(1, RAM, text_end, {"L"}, {"R", "X"}),
    Mseccfg("mml", TRUE), Say("mml", 0),
    Tor(1, RAM, text_end, {"L"}, {"W", "X"})>>

\* The devices for printf, user code, and the constants.
Mut_smepmp_shared ==
  <<Tor(0, 0, RAM, {}, {"W"}),
    Tor(3, mcode_end, usertext_end, {}, {"R", "X"}),
    Tor(4, usertext_end, rodata_end, {"L"}, Perms)>>

smepmp_shared ==
  <<Tor(0, 0, RAM, {}, {"W", "X"}),
    Tor(3, mcode_end, usertext_end, {}, {"R", "X"}),
    Tor(4, usertext_end, rodata_end, {"L"}, Perms)>>

\* user_area and m_area lie in .data and need a lower number than its rule.
Mut_smepmp_data ==
  <<Napot(5, user_area, Line, {}, {"R", "W"}), Napot(6, m_area, Line, {"L"}, {"R", "W"}),
    Mseccfg("mmwp", TRUE),
    Tor(8, data_start, bss_end, {}, {"W", "X"}), Tor(9, bss_end, RAM_END, {}, {"W", "X"}),
    Mseccfg("rlb", FALSE)>>

smepmp_data ==
  <<Napot(5, user_area, Line, {}, {"R", "W"}), Napot(6, m_area, Line, {"L"}, {"R", "W"}),
    Tor(8, data_start, bss_end, {}, {"W", "X"}), Tor(9, bss_end, RAM_END, {}, {"W", "X"}),
    Mseccfg("mmwp", TRUE), Mseccfg("rlb", FALSE)>>

smepmp_main ==
  smepmp_code \o smepmp_shared \o smepmp_data \o <<Say("starting", 0)>> \o Enter("tests")

\* The functions called: in .text, in .m_code and in .user_code.
shared_function == RAM
m_function      == text_end
u_function      == mcode_end

\* The 14 bytes past an area's start make the access a misaligned one.
Odd(area) == area + 6

Mtests ==
  Test(0, "W", Odd(m_area), TRUE) \o Test(1, "R", Odd(m_area), TRUE)
    \o Test(2, "W", Odd(user_area), FALSE) \o Test(3, "R", Odd(user_area), FALSE)
    \o CallTest(4, shared_function, TRUE, "shared") \o CallTest(5, m_function, TRUE, "M only")
    \o CallTest(6, u_function, FALSE, "U only") \o switchToUser

Utests ==
  <<Say("user", 0)>> \o Test(0, "W", Odd(user_area), TRUE) \o Test(1, "R", Odd(user_area), TRUE)
    \o Test(2, "W", Odd(m_area), FALSE) \o Test(3, "R", Odd(m_area), FALSE)
    \o CallTest(4, shared_function, TRUE, "shared") \o CallTest(5, m_function, FALSE, "M only")
    \o CallTest(6, u_function, TRUE, "U only") \o End

-----------------------------------------------------------------------------
(* pmp-secure.                                                                *)
Probe == REGION1 + 8
Probe2 == REGION2 + 8

SMRET_mock == <<SetLevel("NS")>> \o Mret("tests", FALSE)

secure_main ==
  <<Access("W", Probe, TRUE), Tor(0, 0, RAM_END, {"SL"}, Perms),
    Napot(1, REGION1, Line, {"SL", "L"}, {"R", "X"}),
    Napot(2, REGION2, Line, {"SL"}, {"X"})>>
    \o Test(0, "R", Probe, TRUE) \o Test(1, "W", Probe, TRUE)
    \o Test(2, "R", Probe2, TRUE) \o Test(3, "W", Probe2, TRUE) \o SMRET_mock

nonSecure ==
  <<Say("non secure", 0)>> \o Test(0, "R", Probe, TRUE) \o Test(1, "W", Probe, FALSE)
    \o Test(2, "R", Probe2, TRUE) \o Test(3, "W", Probe2, TRUE)
    \o <<Say("test", 4), Napot(2, REGION2, Line, {"SL"}, {})>> \o switchToUser

ProbeAll(k) ==
  Test(k, "R", Probe, TRUE) \o Test(k + 1, "W", Probe, FALSE)
    \o Test(k + 2, "R", Probe2, FALSE) \o Test(k + 3, "W", Probe2, FALSE)

secure_user ==
  <<Say("user", 0)>> \o ProbeAll(0)
    \o <<Say("test", 4), SetLevel("S"), Say("secure", 0)>> \o ProbeAll(5) \o End

-----------------------------------------------------------------------------
(* The machine.                                                               *)
Body ==
  CASE program = "basic"  -> [setup |-> basic_main, tests |-> basic_tests, user |-> basic_user]
    [] program = "smepmp" -> [setup |-> smepmp_main, tests |-> Mtests, user |-> Utests]
    [] program = "secure" -> [setup |-> secure_main, tests |-> nonSecure, user |-> secure_user]

Working  == routine # "halted" /\ writes = <<>>
Now      == Body[routine][step[routine]]
Advanced == [step EXCEPT ![routine] = @ + 1]

Tells(lines) == said' = IF Len(said) + Len(lines) <= MaxSaid THEN said \o lines ELSE said

WordBits == [w \in 0 .. (2^AddrBits \div 4 - 1) |-> Bits(w)]

\* An access of four bytes; a misaligned one is made in two parts.
Passes(p, t, a) == \A w \in {a \div 4, (a + 3) \div 4} : Allowed(p, t, WordBits[w])

\* A retried access uses the register the handler left, the 0 that puts returns.
Target == IF stray THEN 0 ELSE Now.to

ProgramStart ==
  /\ pmpncfg = [i \in Regions |-> PMPNCFG_DEFAULT] /\ pmpaddr = [i \in Regions |-> {}]
  /\ mseccfg = MSECCFG_DEFAULT
  /\ security_lvl = (IF program = "secure" THEN "S" ELSE "NS")
  /\ writes = <<>> /\ step = [f \in {"setup", "tests", "user"} |-> 1]
  /\ priv = "M" /\ mpp = "M"       \* startup.s sets MPP
  /\ stray = FALSE /\ said = <<>>

ProgramInit ==
  /\ program \in {"basic", "smepmp", "secure"} /\ layout \in Layouts
  /\ ProgramStart /\ routine = "setup"
  /\ security_level \in Levels      \* its flop has no reset

Tell ==
  /\ Working /\ Now.op = "say"
  /\ Tells(<<Now.line>>) /\ step' = Advanced
  /\ UNCHANGED <<libVars, writes, choice, routine, priv, mpp, stray>>

Refuses(c) == IF program = "secure" THEN secure_refuses(c) ELSE first_refuses(c)

\* The caller prints when the library refuses, the earlier library when it does not.
pmp_configure ==
  /\ Working /\ Now.op = "configure"
  /\ LET c == Now.config
     IN  /\ LevelRead(c, pmpncfg[c.region_number])
         /\ IF Refuses(c)
            THEN /\ Tells(<<<<"error", c.region_number>>>>) /\ step' = Advanced
                 /\ UNCHANGED writes
            ELSE writes' = CsrSteps(c) /\ UNCHANGED <<step, said>>
  /\ UNCHANGED <<registers, security_level, choice, routine, priv, mpp, stray>>

WriteCsr ==
  /\ write_pmpaddr_csr_value \/ write_pmp_csr_value
  /\ IF Len(writes) > 1 THEN UNCHANGED <<step, said>>
     ELSE /\ step' = Advanced
          /\ Tells(IF program = "secure" THEN <<>>
                   ELSE <<<<"configured", Now.config.region_number>>>>)
  /\ UNCHANGED <<choice, routine, priv, mpp, stray>>

SetMseccfg ==
  /\ Working /\ Now.op = "mseccfg"
  /\ CASE Now.field = "rlb" -> setRLB(Now.on)
       [] Now.field = "mml" -> setMML
       [] Now.field = "mmwp" -> setMMWP
  /\ step' = Advanced
  /\ UNCHANGED <<writes, choice, routine, priv, mpp, stray, said>>

Succeed ==
  /\ Working /\ Now.op = "access" /\ Passes(priv, Now.type, Target)
  /\ IF Now.sets = "none" \/ stray THEN UNCHANGED libVars ELSE SetMode(Now.sets)
  /\ Tells(Now.prints) /\ step' = Advanced /\ stray' = FALSE
  /\ UNCHANGED <<writes, choice, routine, priv, mpp>>

Cause(t) == CASE t = "X" -> 1 [] t = "R" -> 5 [] t = "W" -> 7

Mut_Resume == step' = step /\ stray' = FALSE /\ routine' = routine

\* pmp-basic goes back to the access; the others start the function of the
\* mode they came from anew, which has already counted the test.
Resume ==
  IF program = "basic" THEN stray' = TRUE /\ UNCHANGED <<routine, step>>
  ELSE /\ routine' = (IF priv = "U" THEN "user" ELSE "tests")
       /\ step' = Advanced /\ UNCHANGED stray

\* A refused access: the handler prints the cause and returns with mret.
simple_exc_handler ==
  /\ Working /\ Now.op = "access" /\ ~Passes(priv, Now.type, Target)
  /\ Tells(<<<<"exception", Cause(Now.type)>>>>)
  /\ Resume /\ mpp' = "U"
  /\ UNCHANGED <<libVars, writes, choice, priv>>

EnterFunction ==
  /\ Working /\ Now.op = "enter"
  /\ routine' = Now.to
  /\ UNCHANGED <<libVars, writes, choice, step, priv, mpp, stray, said>>

ReturnFromTrap ==
  /\ Working /\ Now.op = "mret"
  /\ routine' = Now.to /\ priv' = (IF Now.user THEN "U" ELSE mpp) /\ mpp' = "U"
  /\ UNCHANGED <<libVars, writes, choice, step, stray, said>>

StopSimulation ==
  /\ Working /\ Now.op = "halt" /\ Passes(priv, "W", SIM_CTRL)
  /\ routine' = "halted"
  /\ UNCHANGED <<libVars, writes, choice, step, priv, mpp, stray, said>>

ProgramNext ==
  \/ Tell \/ pmp_configure \/ WriteCsr \/ SetMseccfg
  \/ Succeed \/ simple_exc_handler
  \/ EnterFunction \/ ReturnFromTrap \/ StopSimulation

\* The only thread of the program goes on.
ProgramSpec == ProgramInit /\ [][ProgramNext]_progVars /\ WF_progVars(ProgramNext)

-----------------------------------------------------------------------------
(* Properties.                                                                *)

Reached(p, types, from, to) ==
  \A w \in (from \div 4) .. (to \div 4 - 1), t \in types : Allowed(p, t, WordBits[w])

\* The section the running function lies in.
Section ==
  IF program # "smepmp" THEN <<RAM, text_end>>
  ELSE IF routine = "user" THEN <<mcode_end, usertext_end>> ELSE <<text_end, mcode_end>>

\* Whatever is configured, and also between the writes of one rule, the code
\* that runs can be fetched, can print (library code, constants and the device)
\* and can use the stack and its variables; and so can the handler in machine
\* mode (order of main.c:191-388 and of lib/pmp.c:345-377).
NeverLockedOut ==
  routine # "halted" =>
    /\ Reached(priv, {"X"}, Section[1], Section[2])
    /\ \A p \in {priv, "M"} :
         /\ Reached(p, {"X"}, RAM, text_end)
         /\ Reached(p, {"R"}, usertext_end, rodata_end)
         /\ Reached(p, {"R", "W"}, bss_start, RAM_END)
         /\ Passes(p, "W", SIM_CTRL)

\* An access succeeds exactly when the message before it says that it should
\* ("should succeed" and "should fail").
AsAnnounced ==
  (Working /\ routine # "halted" /\ Now.op = "access" /\ ~stray) =>
    (Passes(priv, Now.type, Now.to) <=> Now.may)

Between(v, from, to) == from <= v /\ v < to

\* What the comments in main() say of the rules: rights of p at byte v.
basic_rights(p, v) ==
  CASE v < RAM_END -> Perms
    [] Between(v, RAM_END, RO_END) -> {"R"}
    [] Between(v, RO_END, RO_END + Line) -> IF p = "M" THEN Perms ELSE {"R"}
    [] OTHER -> {}

smepmp_rights(p, v) ==
  CASE v < RAM -> {"R", "W"}
    [] Between(v, RAM, text_end) -> IF p = "M" THEN {"R", "X"} ELSE {"X"}
    [] Between(v, text_end, mcode_end) -> IF p = "M" THEN {"R", "X"} ELSE {}
    [] Between(v, mcode_end, usertext_end) -> IF p = "U" THEN {"R", "X"} ELSE {}
    [] Between(v, usertext_end, rodata_end) -> {"R"}
    [] Between(v, user_area, user_area + Line) -> IF p = "U" THEN {"R", "W"} ELSE {}
    [] Between(v, m_area, m_area + Line) -> IF p = "M" THEN {"R", "W"} ELSE {}
    [] Between(v, data_start, user_area) \/ Between(v, m_area + Line, RAM_END) -> {"R", "W"}
    [] OTHER -> {}

secure_rights(p, v, level) ==
  CASE p = "M" /\ level = "S" -> Perms
    [] Between(v, REGION1, REGION1 + Line) -> {"R", "X"}
    [] p = "M" \/ v < RAM_END -> Perms
    [] Between(v, REGION2, REGION2 + Line) -> {"X"}
    [] OTHER -> {}

Rights(p, v, level) ==
  CASE program = "basic" -> basic_rights(p, v)
    [] program = "smepmp" -> smepmp_rights(p, v)
    [] program = "secure" -> secure_rights(p, v, level)

\* When the tests begin, every word of the memory, for both modes, has just the
\* rights the comments in main() give it, at either level.
AsCommented ==
  (routine = "tests" /\ step.tests = 1) =>
    \A p \in Privs, w \in DOMAIN WordBits,
       level \in (IF program = "secure" THEN Levels ELSE {"NS"}) :
      {t \in Perms : ~pmp_req_err_o(pmpncfg, pmpaddr, mseccfg, level, p, t, WordBits[w], FALSE)}
        = Rights(p, 4 * w, level)

\* The rules do what the programs say of them, in their comments (main.c:203-371,
\* 45-108 and 169-197 of the three) and in the message before each access: rules
\* share address registers and overlap, the order of their numbers decides, and
\* locks and the level in force change what a later call achieves.
AsDocumented == AsAnnounced /\ AsCommented

Lines(line, ks) == [i \in DOMAIN ks |-> <<line, ks[i]>>]
Refused(k, cause) == <<<<"test", k>>, <<"exception", cause>>>>
Line0(line) == <<<<line, 0>>>>

\* The recorded runs: pmp-basic.log, pmp-smepmp.log and pmp-secure.log.
Log ==
  CASE program = "basic" ->
         Lines("configured", <<0, 1, 2, 3>>) \o Refused(0, 7) \o Lines("test", <<1, 2>>)
           \o Refused(3, 5) \o Line0("switching") \o Line0("user")
           \o Lines("test", <<0>>) \o Refused(1, 7) \o Line0("end")
    [] program = "smepmp" ->
         Lines("configured", <<2, 1>>) \o Line0("mml")
           \o Lines("configured", <<1, 0, 3, 4, 5, 6, 8, 9>>) \o Line0("starting")
           \o Lines("test", <<0, 1>>) \o Refused(2, 7) \o Refused(3, 5)
           \o Lines("test", <<4>>) \o Line0("shared") \o Lines("test", <<5>>) \o Line0("M only")
           \o Refused(6, 1) \o Line0("switching") \o Line0("user")
           \o Lines("test", <<0, 1>>) \o Refused(2, 7) \o Refused(3, 5)
           \o Lines("test", <<4>>) \o Line0("shared") \o Refused(5, 1)
           \o Lines("test", <<6>>) \o Line0("U only") \o Line0("end")
    [] program = "secure" ->
         Lines("test", <<0, 1, 2, 3>>) \o Line0("non secure") \o Lines("test", <<0>>)
           \o Refused(1, 7) \o Lines("test", <<2, 3, 4>>) \o Lines("error", <<2>>)
           \o Line0("switching") \o Line0("user")
           \o Lines("test", <<0>>) \o Refused(1, 7) \o Refused(2, 5) \o Refused(3, 7)
           \o Lines("test", <<4>>) \o Line0("secure")
           \o Lines("test", <<5>>) \o Refused(6, 7) \o Refused(7, 5) \o Refused(8, 7)
           \o Line0("end")

\* A program prints what the repository records of it, line by line, for every
\* layout: no test is skipped, repeated or answered with another exception, and
\* at the end all of it has been printed (handlers of the three system.c).
FollowsLog ==
  /\ Len(said) <= Len(Log) /\ said = SubSeq(Log, 1, Len(said))
  /\ (routine = "halted" /\ said # <<>>) => said = Log

\* Every program comes to its end: no refused access is retried for ever and
\* no rule stops the code that goes on (sim_halt in user() and Utests()).
EveryProgramEnds == routine # "halted" ~> routine = "halted"
=============================================================================
