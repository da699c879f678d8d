------------------------------- MODULE SocBus -------------------------------
(* The bus of the SoC, rtl/bus.sv, as CSoC_top.sv wires it: two hosts (the   *)
(* core's data port and the system bus access unit of the debug module), the *)
(* devices, the core's fetch port, which reaches the RAM's second port and   *)
(* shares the only port of the debug module with the bus, and the device     *)
(* that holds the security level.  One Cycle is one clock.                   *)
EXTENDS Naturals, FiniteSetsExt

CONSTANTS
  Addr,      \* addresses, as far as decoding tells them apart
  Device,    \* device numbers, in the order of bus_device_e
  DbgDev,    \* the debug module
  SecCtrl,   \* the device holding the security level
  Window,    \* Window[d]: the addresses of device d
  IdleAddr,  \* what the data address lines may show without a request
  MaxRun     \* bound: data accesses the core makes without another fetch

CoreD == 0
DbgHost == 1
Host == {CoreD, DbgHost}
Ram == 0

ASSUME BusParameters ==
  /\ Device \subseteq Nat /\ {Ram, DbgDev, SecCtrl} \subseteq Device
  /\ Ram # DbgDev /\ Ram # SecCtrl /\ DbgDev # SecCtrl
  /\ Window \in [Device -> SUBSET Addr]
  /\ \A d, e \in Device : d # e => Window[d] \cap Window[e] = {}
  /\ IdleAddr \subseteq Addr
  /\ MaxRun \in Nat \ {0}

\* A data access.  What is written matters to the security level only: "set"
\* and "clear" write its bit, "other" is a read or a write of other bytes.
Access ==
  {a \in [host : Host, addr : Addr, kind : {"set", "clear", "other"}] :
     a.addr \in Window[SecCtrl] \/ a.kind = "other"}
Fetch == [addr : Addr]

VARIABLES
  host_sel_resp, device_sel_resp,   \* where the next answer goes, comes from
  answer,             \* answer[d]: {} or the access device d answers now
  fetch,              \* {} or the fetch that waits for its grant
  core_instr_rvalid, core_instr_sel_dbg,
  mem_instr_rdata,    \* {} or the fetch the RAM's second port answers
  sba, sba_access,    \* the debug module's master
  security_level,     \* the flop of the device
  security_lvl_q,     \* the level in force in the core
  ndmreset,           \* the debugger holds the core in reset
  run,                \* data accesses since the last fetch, up to MaxRun
  owed, fetch_owed,   \* history: accesses granted and not answered
  written             \* history: {} or the level last written and in force

vars == <<host_sel_resp, device_sel_resp, answer, fetch, run,
          core_instr_rvalid, core_instr_sel_dbg, mem_instr_rdata, sba,
          sba_access, security_level, security_lvl_q, ndmreset, owed,
          fetch_owed, written>>

\* The devices with rvalid: every one answers in the cycle after its request.
rvalid == {d \in Device : answer[d] # {}}

-----------------------------------------------------------------------------
(* The bus.  core and dbg are the sets of at most one access the hosts        *)
(* request, idle is the core's address without a request.                     *)

host_sel_req(core, dbg) == IF core = {} /\ dbg # {} THEN DbgHost ELSE CoreD

Selected(core, dbg) == IF core = {} THEN dbg ELSE core

\* The last device whose window holds the address; the RAM if none does.
Decoded(addr) == Max({d \in Device : addr \in Window[d]} \cup {0})

device_sel_req(core, dbg, idle) ==
  LET shown == {a.addr : a \in Selected(core, dbg)}
  IN Decoded(IF shown = {} THEN idle ELSE CHOOSE a \in shown : TRUE)

\* The access device d is given.
device_req(core, dbg, idle, d) ==
  IF d = device_sel_req(core, dbg, idle) THEN Selected(core, dbg) ELSE {}

host_gnt(core, dbg, h) ==
  IF h = host_sel_req(core, dbg) THEN Selected(core, dbg) ELSE {}

host_rvalid(h) == h = host_sel_resp /\ device_sel_resp \in rvalid

-----------------------------------------------------------------------------
(* The fetch port.                                                            *)

mem_instr_req(f) == {a \in f : a.addr \in Window[Ram]}
dbg_instr_req(f) == {a \in f : a.addr \in Window[DbgDev]}

Mut_core_instr_gnt(f, core, dbg, idle) == mem_instr_req(f) \cup dbg_instr_req(f)

Mut2_core_instr_gnt(f, core, dbg, idle) ==
  mem_instr_req(f) \cup (IF DbgDev \notin rvalid THEN dbg_instr_req(f) ELSE {})

core_instr_gnt(f, core, dbg, idle) ==
  mem_instr_req(f) \cup
    (IF device_req(core, dbg, idle, DbgDev) = {} THEN dbg_instr_req(f) ELSE {})

Mut_dm_device_req(f, core, dbg, idle) ==
  IF dbg_instr_req(f) # {}
  THEN dbg_instr_req(f) ELSE device_req(core, dbg, idle, DbgDev)

\* The port of the debug module: the bus goes first.
dm_device_req(f, core, dbg, idle) ==
  IF device_req(core, dbg, idle, DbgDev) # {}
  THEN device_req(core, dbg, idle, DbgDev) ELSE dbg_instr_req(f)

Served(f, core, dbg, idle, d) ==
  IF d = DbgDev THEN dm_device_req(f, core, dbg, idle)
                ELSE device_req(core, dbg, idle, d)

InstrData == IF core_instr_sel_dbg THEN answer[DbgDev] ELSE mem_instr_rdata

-----------------------------------------------------------------------------
(* The master of the debug module.  An access of an unsupported size or       *)
(* alignment has been given up after one cycle, without a request.            *)

sba_req == IF sba = "Access" THEN sba_access ELSE {}

\* start is the set of at most one access the debugger asks for.
sba_n(start, granted) ==
  CASE sba = "Idle" -> IF start # {} THEN {"Access", "Malformed"} ELSE {"Idle"}
    [] sba = "Malformed" -> {"Idle"}
    [] sba = "Access" -> IF granted THEN {"Wait"} ELSE {"Access"}
    [] OTHER -> IF host_rvalid(DbgHost) THEN {"Idle"} ELSE {"Wait"}

-----------------------------------------------------------------------------
(* The security level: the device and the register it is copied to.           *)

security_level_n(req) ==
  IF \E a \in req : a.kind # "other"
  THEN \E a \in req : a.kind = "set" ELSE security_level

Mut_security_lvl_n == IF SecCtrl = device_sel_resp /\ host_sel_resp = CoreD
                      /\ SecCtrl \in rvalid
                      THEN security_level ELSE security_lvl_q

security_lvl_n == IF SecCtrl \in rvalid THEN security_level ELSE security_lvl_q

-----------------------------------------------------------------------------

Init ==
  /\ host_sel_resp = CoreD /\ device_sel_resp = Ram
  /\ answer = [d \in Device |-> {}]
  /\ fetch = {} /\ fetch_owed = {}
  /\ core_instr_rvalid = FALSE /\ core_instr_sel_dbg = FALSE
  /\ mem_instr_rdata = {}
  /\ sba = "Idle" /\ sba_access = {}
  /\ security_level \in BOOLEAN      \* this flop has no reset
  /\ security_lvl_q = TRUE
  /\ ndmreset = FALSE
  /\ run = 0
  /\ owed = [h \in Host |-> {}]
  /\ written = {}

\* History: what each host waits for; a reset core waits for nothing.
owed_n(core, dbg) ==
  [h \in Host |-> IF h = CoreD /\ ndmreset' THEN {}
                  ELSE (IF host_rvalid(h) THEN {} ELSE owed[h])
                         \cup host_gnt(core, dbg, h)]

written_n(req) ==
  IF ndmreset' \/ ndmreset THEN {}
  ELSE IF \E a \in req : a.kind # "other"
       THEN {\E a \in req : a.kind = "set"} ELSE written

Clock(core, idle, f, start) ==
  LET dbg == sba_req
      sec == device_req(core, dbg, idle, SecCtrl)
      igrant == core_instr_gnt(f, core, dbg, idle)
  IN
  /\ host_sel_resp' = host_sel_req(core, dbg)
  /\ device_sel_resp' = device_sel_req(core, dbg, idle)
  /\ answer' = [d \in Device |-> Served(f, core, dbg, idle, d)]
  /\ fetch' = IF ndmreset' THEN {} ELSE f \ igrant
  /\ fetch_owed' = IF ndmreset' THEN {} ELSE igrant
  /\ core_instr_rvalid' = (igrant # {})
  /\ core_instr_sel_dbg' = (dbg_instr_req(f) # {})
  /\ mem_instr_rdata' = mem_instr_req(f)
  /\ sba' \in sba_n(start, host_gnt(core, dbg, DbgHost) # {})
  /\ sba_access' = IF sba = "Idle" THEN start
                   ELSE IF sba' = "Access" THEN sba_access ELSE {}
  /\ security_level' = security_level_n(sec)
  /\ security_lvl_q' = IF ndmreset' THEN TRUE ELSE security_lvl_n
  /\ run' = IF igrant # {} THEN 0 ELSE IF core # {} THEN run + 1 ELSE run
  /\ owed' = owed_n(core, dbg)
  /\ written' = written_n(sec)

\* One clock.  The core asks for data only with an instruction to ask it for,
\* a fetch that was not granted stays (instr_obi_interface, REGISTERED), and a
\* core in reset asks for nothing.
Cycle ==
  LET data == IF ndmreset \/ run = MaxRun THEN {} ELSE
                {a \in Access : a.host = CoreD}
      fetches == IF ndmreset THEN {} ELSE Fetch
      starts == {a \in Access : a.host = DbgHost /\ sba = "Idle"}
  IN
  /\ ndmreset' \in BOOLEAN
  /\ \E core \in {{}} \cup {{a} : a \in data},
        idle \in IdleAddr,
        f \in IF fetch # {} THEN {fetch} ELSE {{}} \cup {{a} : a \in fetches},
        start \in {{}} \cup {{a} : a \in starts} :
       Clock(core, idle, f, start)

Next == Cycle

\* The clock runs.  While a fetch waits no cycle leaves the state as it is, so
\* this asks nothing of the hosts.
Spec == Init /\ [][Next]_vars /\ []<><<TRUE>>_vars

-----------------------------------------------------------------------------

\* An answer reaches the host that asked, once, with the data of the device it
\* asked, whatever the other host and the fetch port do (bus.sv 81-124, and the
\* port of the debug module in CSoC_top.sv).  A core in reset sees no answers.
Listening(h) == h = DbgHost \/ ~ndmreset
AnswerIsOwn ==
  \A h \in Host : (Listening(h) /\ host_rvalid(h)) =>
     (owed[h] # {} /\ answer[device_sel_resp] = owed[h])

\* The core receives the instruction it fetched, and each fetch granted is
\* answered, though data accesses take the port of the debug module from the
\* fetch port (CSoC_top.sv, core_instr_gnt, core_instr_rdata).
FetchIsOwn ==
  ~ndmreset => (IF core_instr_rvalid THEN fetch_owed # {} /\ InstrData = fetch_owed
                                     ELSE fetch_owed = {})

\* Once a write of the security level has been answered, the core runs at the
\* level written last, whichever host wrote it, until the next write or reset.
LastWriteInForce ==
  (written # {} /\ SecCtrl \notin rvalid) => security_lvl_q \in written

\* The debugger's accesses to the debug module do not lock the core's fetches
\* out of it for good.
EveryFetchGranted ==
  (\E a \in fetch : a.addr \in Window[Ram] \cup Window[DbgDev]) ~> (fetch = {})

\* What load_store_unit.sv:512 relies on: the core's data port sees rvalid only
\* for an accepted request.
RvalidIsOwed == (Listening(CoreD) /\ host_rvalid(CoreD)) => owed[CoreD] # {}
=============================================================================
