---------------------------- MODULE SocBusProofs ----------------------------
(* Theorems about SocBus, for every set of devices and every address map.  *)
EXTENDS SocBus, TLAPS

USE BusParameters DEF Ram

-----------------------------------------------------------------------------
(* Windows do not overlap, so decoding an address finds its device, and the *)
(* RAM's number for an address of none.                                     *)
LEMMA Decoding ==
  ASSUME NEW a
  PROVE  Decoded(a) \in Device /\ (Decoded(a) # 0 => a \in Window[Decoded(a)])
<1>. DEFINE S == {e \in Device : a \in Window[e]} \cup {0}
<1>1. \E d \in S : \A y \in S : d >= y
  <2>1. CASE \E e \in Device : a \in Window[e]
    <3>1. PICK e \in Device : a \in Window[e]
      BY <2>1
    <3>2. \A y \in S : y = e \/ y = 0
      BY <3>1
    <3>. QED
      BY <3>1, <3>2
  <2>2. CASE ~ \E e \in Device : a \in Window[e]
    BY <2>2
  <2>. QED
    BY <2>1, <2>2
<1>2. Max(S) \in S
  BY <1>1 DEF Max
<1>3. Decoded(a) = Max(S)
  BY DEF Decoded
<1>. QED
  BY <1>2, <1>3

(* The access a host is granted goes to the device it selects, whatever the *)
(* fetch port asks the debug module for.                                    *)
LEMMA SelectedServed ==
  ASSUME NEW core, NEW dbg, NEW idle, NEW f,
         Selected(core, dbg) = {} => idle \notin Window[DbgDev]
  PROVE  LET d == device_sel_req(core, dbg, idle)
         IN  /\ d \in Device
             /\ Served(f, core, dbg, idle, d) = Selected(core, dbg)
<1>. DEFINE d == device_sel_req(core, dbg, idle)
            shown == {a.addr : a \in Selected(core, dbg)}
            addr == IF shown = {} THEN idle ELSE CHOOSE a \in shown : TRUE
<1>1. d \in Device /\ (d # 0 => addr \in Window[d])
  BY Decoding DEF device_sel_req
<1>2. Selected(core, dbg) = {} => d # DbgDev
  BY <1>1
<1>3. device_req(core, dbg, idle, d) = Selected(core, dbg)
  BY DEF device_req
<1>. QED
  BY <1>1, <1>2, <1>3 DEF Served, dm_device_req

-----------------------------------------------------------------------------
(* Why an answer is its owner's: the registered selection remembers the one *)
(* access under way, and the other host waits for nothing.                  *)
AnswerInv ==
  /\ host_sel_resp \in Host /\ device_sel_resp \in Device
  /\ ndmreset \in BOOLEAN
  /\ DOMAIN owed = Host
  /\ ndmreset => owed[CoreD] = {}
  /\ \A h \in Host : h # host_sel_resp => owed[h] = {}
  /\ Listening(host_sel_resp) => owed[host_sel_resp] = answer[device_sel_resp]

QuietLines == IdleAddr \cap Window[DbgDev] = {}

LEMMA AnswerInvInit == Init => AnswerInv
BY DEF Init, AnswerInv, Host, CoreD, DbgHost, Listening

LEMMA AnswerInvStep ==
  ASSUME QuietLines, AnswerInv, [Next]_vars
  PROVE  AnswerInv'
<1>1. CASE UNCHANGED vars
  BY <1>1 DEF AnswerInv, vars, Listening
<1>2. CASE Cycle
  <2>1. PICK core, f, start, idle : idle \in IdleAddr /\ Clock(core, idle, f, start)
    BY <1>2 DEF Cycle
  <2>. DEFINE dbg == sba_req
              h1 == host_sel_req(core, dbg)
              d1 == device_sel_req(core, dbg, idle)
  <2>2. d1 \in Device /\ Served(f, core, dbg, idle, d1) = Selected(core, dbg)
    BY <2>1, SelectedServed DEF QuietLines
  <2>3. /\ host_sel_resp' = h1 /\ device_sel_resp' = d1
        /\ answer'[d1] = Selected(core, dbg)
        /\ owed' = owed_n(core, dbg)
    BY <2>1, <2>2 DEF Clock
  <2>4. h1 \in Host /\ ndmreset' \in BOOLEAN
    BY <1>2 DEF host_sel_req, Host, Cycle
  <2>5. \A h \in Host : host_gnt(core, dbg, h) = IF h = h1 THEN Selected(core, dbg) ELSE {}
    BY DEF host_gnt
  <2>6. \A h \in Host : (IF host_rvalid(h) THEN {} ELSE owed[h]) = {}
    BY DEF AnswerInv, host_rvalid, rvalid, Listening, Host
  <2>7. \A h \in Host : owed'[h] = IF h = CoreD /\ ndmreset' THEN {}
                                   ELSE host_gnt(core, dbg, h)
    BY <2>3, <2>6 DEF owed_n
  <2>8. DOMAIN owed' = Host
    BY <2>3 DEF owed_n
  <2>9. \A h \in Host : Listening(h)' <=> (h = DbgHost \/ ~ndmreset')
    BY DEF Listening
  <2>. QED
    BY <2>2, <2>3, <2>4, <2>5, <2>7, <2>8, <2>9 DEF AnswerInv, Listening, Host, CoreD, DbgHost
<1>. QED
  BY <1>1, <1>2 DEF Next

(* While the core's idle address lines stay off the debug module, every     *)
(* answer reaches the host that asked, once, from the device it asked.      *)
THEOREM AnswersAreOwn ==
  ASSUME QuietLines
  PROVE  Spec => []AnswerIsOwn
<1>1. AnswerInv => AnswerIsOwn
  BY DEF AnswerInv, AnswerIsOwn, host_rvalid, rvalid
<1>. QED
  BY <1>1, AnswerInvInit, AnswerInvStep, PTL DEF Spec

(* ... so the core's data port sees rvalid only for a request it was granted. *)
THEOREM RvalidsAreOwed ==
  ASSUME QuietLines
  PROVE  Spec => []RvalidIsOwed
<1>1. AnswerIsOwn => RvalidIsOwed
  BY DEF AnswerIsOwn, RvalidIsOwed, Host
<1>. QED
  BY <1>1, AnswersAreOwn, PTL

-----------------------------------------------------------------------------
(* At most one fetch waits, and what the last one was granted is on its way. *)
FetchInv ==
  /\ fetch = {} \/ \E a : fetch = {a}
  /\ FetchIsOwn

LEMMA FetchInvStep ==
  ASSUME FetchInv, [Next]_vars
  PROVE  FetchInv'
<1>1. CASE UNCHANGED vars
  BY <1>1 DEF FetchInv, FetchIsOwn, InstrData, vars
<1>2. CASE Cycle
  <2>1. PICK core, f, start, idle :
          (f = {} \/ \E a : f = {a}) /\ Clock(core, idle, f, start)
    BY <1>2 DEF Cycle, FetchInv
  <2>. DEFINE granted == core_instr_gnt(f, core, sba_req, idle)
  <2>2. /\ fetch' = IF ndmreset' THEN {} ELSE f \ granted
        /\ fetch_owed' = IF ndmreset' THEN {} ELSE granted
        /\ core_instr_rvalid' = (granted # {})
        /\ core_instr_sel_dbg' = (dbg_instr_req(f) # {})
        /\ mem_instr_rdata' = mem_instr_req(f)
        /\ answer'[DbgDev] = dm_device_req(f, core, sba_req, idle)
    BY <2>1 DEF Clock, Served
  <2>3. fetch' = {} \/ \E a : fetch' = {a}
    <3>1. f \ granted = {} \/ f \ granted = f
      BY <2>1, Zenon
    <3>. QED
      BY <2>1, <2>2, <3>1, Zenon
  <2>4. mem_instr_req(f) = {} \/ dbg_instr_req(f) = {}
    BY <2>1 DEF mem_instr_req, dbg_instr_req
  <2>5. FetchIsOwn'
    BY <2>2, <2>4 DEF FetchIsOwn, InstrData, core_instr_gnt, dm_device_req
  <2>. QED
    BY <2>3, <2>5 DEF FetchInv
<1>. QED
  BY <1>1, <1>2 DEF Next

(* Whatever the data port does to the debug module's only port, the core    *)
(* receives the instruction it fetched, and each fetch granted is answered.  *)
THEOREM FetchesAreOwn == Spec => []FetchIsOwn
<1>1. Init => FetchInv
  BY DEF Init, FetchInv, FetchIsOwn
<1>2. FetchInv => FetchIsOwn
  BY DEF FetchInv
<1>. QED
  BY <1>1, <1>2, FetchInvStep, PTL DEF Spec

-----------------------------------------------------------------------------
(* The flop of the device holds what was last written, and the core's copy  *)
(* agrees with it in every cycle in which no answer of the device is out.    *)
LevelInv ==
  /\ written = {} \/ written = {security_level}
  /\ LastWriteInForce

LEMMA LevelInvStep ==
  ASSUME LevelInv, [Next]_vars
  PROVE  LevelInv'
<1>1. CASE UNCHANGED vars
  BY <1>1 DEF LevelInv, LastWriteInForce, rvalid, vars
<1>2. CASE Cycle
  <2>1. PICK core, f, start, idle : idle \in IdleAddr /\ Clock(core, idle, f, start)
    BY <1>2 DEF Cycle
  <2>. DEFINE sec == device_req(core, sba_req, idle, SecCtrl)
  <2>2. /\ written' = written_n(sec)
        /\ security_level' = security_level_n(sec)
        /\ security_lvl_q' = IF ndmreset' THEN TRUE ELSE security_lvl_n
        /\ answer'[SecCtrl] = sec
    BY <2>1 DEF Clock, Served
  <2>3. written' = {} \/ written' = {security_level'}
    BY <2>2 DEF LevelInv, written_n, security_level_n
  <2>4. LastWriteInForce'
    <3>. SUFFICES ASSUME written' # {}, sec = {}
                  PROVE  security_lvl_q' \in written'
      BY <2>2 DEF LastWriteInForce, rvalid
    <3>1. written' = written /\ ~ndmreset'
      BY <2>2 DEF written_n
    <3>2. security_lvl_n \in written
      BY <3>1 DEF LevelInv, LastWriteInForce, security_lvl_n
    <3>. QED
      BY <2>2, <3>1, <3>2
  <2>. QED
    BY <2>3, <2>4 DEF LevelInv
<1>. QED
  BY <1>1, <1>2 DEF Next

(* Once a write of the security level has been answered, the core runs at   *)
(* the level last written, whichever host wrote it.                          *)
THEOREM LastWritesInForce == Spec => []LastWriteInForce
<1>1. Init => LevelInv
  BY DEF Init, LevelInv, LastWriteInForce
<1>2. LevelInv => LastWriteInForce
  BY DEF LevelInv
<1>. QED
  BY <1>1, <1>2, LevelInvStep, PTL DEF Spec
=============================================================================
