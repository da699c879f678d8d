--------------------------- MODULE LoadStoreProofs ---------------------------
(***************************************************************************)
(* Theorems about DataObi, for every number of transfers in flight, about  *)
(* LoadStore, for every set of transfers and instructions, and about the   *)
(* specification of the runs.                                              *)
(***************************************************************************)
EXTENDS MCLoadStore, SequenceTheorems, TLAPS

-----------------------------------------------------------------------------
(* Queues: what a step takes from the front and puts at the back.           *)
Pushes(S) == {<<>>} \cup {<<x>> : x \in S}

LEMMA PushesAre ==
  ASSUME NEW S, NEW new \in Pushes(S)
  PROVE  /\ new \in Seq(S)
         /\ new # <<>> => Len(new) = 1 /\ new[1] \in S
         /\ new = <<>> => Len(new) = 0
<1>1. CASE new = <<>>
  BY <1>1
<1>2. CASE \E x \in S : new = <<x>>
  <2>1. PICK x \in S : new = <<x>>
    BY <1>2
  <2>. QED
    BY <2>1
<1>. QED
  BY <1>1, <1>2 DEF Pushes

Taken(pop)            == IF pop THEN 1 ELSE 0
Stepped(q, pop, new) == Popped(q, pop) \o new

LEMMA QueueStep ==
  ASSUME NEW S, NEW q \in Seq(S), NEW pop \in BOOLEAN, NEW new \in Pushes(S),
         pop => q # <<>>
  PROVE  /\ Len(q) \in Nat /\ Taken(pop) \in Nat /\ Taken(pop) <= Len(q)
         /\ Stepped(q, pop, new) \in Seq(S)
         /\ Len(Stepped(q, pop, new)) = Len(q) - Taken(pop) + Len(new)
         /\ \A i \in 1..(Len(q) - Taken(pop)) :
              Stepped(q, pop, new)[i] = q[i + Taken(pop)]
         /\ new # <<>> =>
              /\ Len(new) = 1 /\ new[1] \in S
              /\ Stepped(q, pop, new)[Len(q) - Taken(pop) + 1] = new[1]
         /\ new = <<>> => Len(new) = 0
<1>. DEFINE n == Taken(pop)
            p == Popped(q, pop)
<1>1. /\ Len(q) \in Nat /\ n \in Nat /\ n <= Len(q)
      /\ p \in Seq(S) /\ Len(p) = Len(q) - n
      /\ \A i \in 1..(Len(q) - n) : p[i] = q[i + n]
  <2>1. Len(q) \in Nat /\ (q # <<>> => Len(q) > 0)
    BY LenProperties, EmptySeq
  <2>2. CASE pop
    BY <2>1, <2>2, HeadTailProperties DEF Popped, Taken
  <2>3. CASE ~pop
    BY <2>1, <2>3 DEF Popped, Taken
  <2>. QED
    BY <2>2, <2>3
<1>2. /\ new \in Seq(S)
      /\ new # <<>> => Len(new) = 1 /\ new[1] \in S
      /\ new = <<>> => Len(new) = 0
  BY PushesAre
<1>3. Len(p) \in Nat
  BY <1>1, LenProperties
<1>. HIDE DEF p
<1>4. /\ p \o new \in Seq(S)
      /\ Len(p \o new) = Len(p) + Len(new)
      /\ \A i \in 1..(Len(p) + Len(new)) :
           (p \o new)[i] = IF i <= Len(p) THEN p[i] ELSE new[i - Len(p)]
  BY <1>1, <1>2, ConcatProperties
<1>5. \A i \in 1..Len(p) : (p \o new)[i] = p[i]
  BY <1>2, <1>3, <1>4
<1>6. new # <<>> => (p \o new)[Len(p) + 1] = new[1]
  BY <1>2, <1>3, <1>4
<1>. QED
  BY <1>1, <1>2, <1>4, <1>5, <1>6 DEF p, Stepped

(* A set of at most one element as a queue.                                 *)
LEMMA MembersOf ==
  /\ Members({}) = <<>>
  /\ \A x : Members({x}) = <<x>>
BY DEF Members

LEMMA MembersPushes ==
  ASSUME NEW S, NEW T, T = {} \/ \E x \in S : T = {x}
  PROVE  /\ Members(T) \in Pushes(S) /\ Members(T) \in Seq(S)
         /\ Members(T) = <<>> <=> T = {}
         /\ T = {} => Len(Members(T)) = 0
         /\ T # {} => Len(Members(T)) = 1 /\ T = {Members(T)[1]} /\ Members(T)[1] \in S
<1>1. CASE T = {}
  <2>1. Members(T) = <<>> /\ Len(<<>>) = 0 /\ <<>> \in Pushes(S)
    BY <1>1, MembersOf DEF Pushes
  <2>. QED
    BY <1>1, <2>1, PushesAre
<1>2. CASE \E x \in S : T = {x}
  <2>1. PICK x \in S : T = {x}
    BY <1>2
  <2>2. Members(T) = <<x>>
    BY <2>1, MembersOf
  <2>3. <<x>> # <<>> /\ Len(<<x>>) = 1 /\ <<x>>[1] = x /\ <<x>> \in Pushes(S)
    BY DEF Pushes
  <2>4. <<x>> \in Seq(S)
    BY <2>3, PushesAre
  <2>. QED
    BY <2>1, <2>2, <2>3, <2>4
<1>. QED
  BY <1>1, <1>2

-----------------------------------------------------------------------------
(* A transfer on the bus, with what the slave and the interface remember.   *)
Histories == [t : Transfers, err : BOOLEAN]

ObiTypeOK ==
  /\ slave \in Seq(Histories) /\ owed \in Seq(Transfers)
  /\ wbuf = {} \/ \E t \in Transfers : wbuf = {t}
  /\ outstanding_q \in [0..DEPTH -> [bufferable : BOOLEAN, store : BOOLEAN]]
  /\ fifo_q \in [0..DEPTH -> [gnterr : BOOLEAN, store : BOOLEAN]]
  /\ gntpar_err_q \in BOOLEAN

(* The counters count, and the shift registers hold the attributes of what  *)
(* is in flight, youngest first.                                            *)
RegistersInv ==
  /\ CountsAgree /\ bus_cnt_q <= DEPTH
  /\ outstanding_q[0] = TiedOff
  /\ \A k \in 1..bus_cnt_q : outstanding_q[k] = Attributes(BusQueue[bus_cnt_q + 1 - k])
  /\ \A k \in 1..obi_cnt_q :
       fifo_q[k] = [gnterr |-> slave[obi_cnt_q + 1 - k].err,
                    store |-> slave[obi_cnt_q + 1 - k].t.we]

(* The core waits for the youngest of them, and what it no longer waits for *)
(* is bufferable; so is what the write buffer holds.                        *)
EarlyInv ==
  /\ \A t \in wbuf : t.bufferable
  /\ \A i \in 1..core_cnt_q : owed[i] = BusQueue[bus_cnt_q - core_cnt_q + i]
  /\ \A i \in 1..(bus_cnt_q - core_cnt_q) : BusQueue[i].bufferable

(* The parity error of the register is that of the request that waits.      *)
StalledInv ==
  IF stalled = {} THEN ~gntpar_err_q
  ELSE \E t \in Transfers :
         /\ stalled = {[t |-> t, err |-> gntpar_err_q]}
         /\ wbuf = {t} \/ (wbuf = {} /\ waiting = {t} /\ Room)

ObiInv == ObiTypeOK /\ RegistersInv /\ EarlyInv /\ StalledInv

AtMostOne(S, T) == T = {} \/ \E x \in S : T = {x}
IsTransfers(T)  == AtMostOne(Transfers, T)

(* The slave's queue and then the write buffer, as one queue.               *)
Joined(s, b) == [i \in DOMAIN s |-> s[i].t] \o Members(b)

LEMMA JoinedQueue ==
  ASSUME NEW s \in Seq(Histories), NEW b, IsTransfers(b)
  PROVE  /\ Len(s) \in Nat
         /\ Joined(s, b) \in Seq(Transfers)
         /\ Len(Joined(s, b)) = Len(s) + (IF b = {} THEN 0 ELSE 1)
         /\ \A i \in 1..Len(s) : Joined(s, b)[i] = s[i].t
         /\ b # {} => b = {Joined(s, b)[Len(s) + 1]}
<1>. DEFINE q == [i \in DOMAIN s |-> s[i].t]
            m == Members(b)
<1>1. Len(s) \in Nat /\ DOMAIN s = 1..Len(s) /\ \A i \in 1..Len(s) : s[i].t \in Transfers
  <2>1. \A i \in 1..Len(s) : s[i] \in Histories
    BY ElementOfSeq
  <2>2. Len(s) \in Nat /\ DOMAIN s = 1..Len(s)
    BY LenProperties
  <2>. QED
    BY <2>1, <2>2 DEF Histories
<1>2. q \in [1..Len(s) -> Transfers]
  BY <1>1
<1>3. q \in Seq(Transfers) /\ Len(q) = Len(s)
  BY <1>1, <1>2
<1>4. /\ m \in Seq(Transfers)
      /\ b = {} => Len(m) = 0
      /\ b # {} => Len(m) = 1 /\ b = {m[1]}
  BY MembersPushes DEF IsTransfers, AtMostOne
<1>. HIDE DEF m
<1>5. /\ q \o m \in Seq(Transfers)
      /\ Len(q \o m) = Len(q) + Len(m)
      /\ \A i \in 1..(Len(q) + Len(m)) :
           (q \o m)[i] = IF i <= Len(q) THEN q[i] ELSE m[i - Len(q)]
  BY <1>3, <1>4, ConcatProperties
<1>6. \A i \in 1..Len(s) : (q \o m)[i] = s[i].t
  BY <1>1, <1>3, <1>4, <1>5
<1>7. b # {} => b = {(q \o m)[Len(s) + 1]}
  BY <1>1, <1>3, <1>4, <1>5
<1>. QED
  BY <1>1, <1>3, <1>4, <1>5, <1>6, <1>7 DEF m, Joined

(* A cycle in which the core still presents what it waits for.              *)
Presents(req, gnt, err, rvalid) ==
  ObiInv /\ IsTransfers(req) /\ waiting \subseteq req /\ ObiClock(req, gnt, err, rvalid)

(* What is accepted, what is on the bus, and what stays in the buffer.      *)
LEMMA Signals ==
  ASSUME ObiInv, NEW req, IsTransfers(req), NEW gnt \in BOOLEAN
  PROVE  LET acc == Accepted(req, gnt)
             sent == obi_req(req)
             kept == wbuf_n(req, gnt)
         IN  /\ IsTransfers(acc) /\ IsTransfers(sent) /\ IsTransfers(kept)
             /\ acc = {} \/ (Room /\ acc = req)
             /\ \A t \in kept : t.bufferable
             /\ wbuf # {} /\ gnt => sent = wbuf /\ kept = acc
             /\ wbuf # {} /\ ~gnt => sent = wbuf /\ kept = wbuf /\ acc = {}
             /\ wbuf = {} /\ gnt => sent = acc /\ kept = {}
             /\ wbuf = {} /\ ~gnt => kept = acc
             /\ sent = {} => wbuf = {}
             /\ wbuf = {} /\ sent # {} => sent = req /\ Room
<1>1. IsTransfers(wbuf) /\ \A t \in wbuf : t.bufferable
  BY DEF ObiInv, ObiTypeOK, EarlyInv, IsTransfers, AtMostOne
<1>2. CASE filter_valid_o(req) = {}
  BY <1>1, <1>2 DEF Accepted, obi_req, wbuf_n, Bufferable, buffer_ready_o, IsTransfers, AtMostOne
<1>3. CASE filter_valid_o(req) # {}
  <2>1. Room /\ filter_valid_o(req) = req
    BY <1>3 DEF filter_valid_o
  <2>2. PICK t \in Transfers : req = {t}
    BY <1>3, <2>1 DEF IsTransfers, AtMostOne
  <2>3. t.bufferable \in BOOLEAN
    BY DataObiParameters
  <2>4. Accepted(req, gnt) = IF buffer_ready_o(t, gnt) THEN {t} ELSE {}
    BY <2>1, <2>2 DEF Accepted
  <2>5. Bufferable(req) = IF t.bufferable THEN {t} ELSE {}
    BY <2>1, <2>2 DEF Bufferable
  <2>6. obi_req(req) = IF wbuf # {} THEN wbuf ELSE {t}
    BY <2>1, <2>2 DEF obi_req
  <2>. QED
    BY <1>1, <2>1, <2>2, <2>3, <2>4, <2>5, <2>6 DEF wbuf_n, buffer_ready_o, IsTransfers, AtMostOne
<1>. QED
  BY <1>2, <1>3

(* The parity error of an address phase is in the register.                 *)
LEMMA PhaseIs ==
  ASSUME NEW req, NEW gnt \in BOOLEAN, NEW err \in BOOLEAN, NEW rvalid \in BOOLEAN,
         Presents(req, gnt, err, rvalid)
  PROVE  /\ obi_req(req) = {} => stalled = {}
         /\ \A t \in obi_req(req) :
              (err \/ \E s \in stalled : s.t = t /\ s.err) = (err \/ gntpar_err_q)
<1>1. gntpar_err_q \in BOOLEAN /\ StalledInv /\ waiting \subseteq req /\ IsTransfers(req)
  BY DEF Presents, ObiInv, ObiTypeOK
<1>2. CASE stalled = {}
  BY <1>1, <1>2 DEF StalledInv
<1>3. CASE stalled # {}
  <2>1. PICK t0 \in Transfers :
          /\ stalled = {[t |-> t0, err |-> gntpar_err_q]}
          /\ wbuf = {t0} \/ (wbuf = {} /\ waiting = {t0} /\ Room)
    BY <1>1, <1>3 DEF StalledInv
  <2>2. obi_req(req) = {t0}
    <3>1. CASE wbuf = {t0}
      BY <3>1 DEF obi_req
    <3>2. CASE wbuf = {} /\ waiting = {t0} /\ Room
      <4>1. req = {t0}
        BY <1>1, <3>2 DEF IsTransfers, AtMostOne
      <4>. QED
        BY <3>2, <4>1 DEF obi_req, filter_valid_o
    <3>. QED
      BY <2>1, <3>1, <3>2
  <2>3. \A s \in stalled : s.t = t0 /\ s.err = gntpar_err_q
    BY <2>1
  <2>. QED
    BY <1>1, <1>3, <2>1, <2>2, <2>3
<1>. QED
  BY <1>2, <1>3

LEMMA SlaveStep ==
  ASSUME NEW req, NEW gnt \in BOOLEAN, NEW err \in BOOLEAN, NEW rvalid \in BOOLEAN,
         Presents(req, gnt, err, rvalid)
  PROVE  LET n == Taken(rvalid)
             sent == obi_req(req)
         IN  /\ n <= Len(slave) /\ Len(slave) \in Nat
             /\ slave' \in Seq(Histories)
             /\ Len(slave') = Len(slave) - n + (IF gnt /\ sent # {} THEN 1 ELSE 0)
             /\ \A i \in 1..(Len(slave) - n) : slave'[i] = slave[i + n]
             /\ gnt /\ sent # {} =>
                  LET h == slave'[Len(slave) - n + 1]
                  IN  sent = {h.t} /\ h.err = (err \/ gntpar_err_q)
<1>. DEFINE sent  == obi_req(req)
            phase == {[t |-> t, err |-> err \/ \E s \in stalled : s.t = t /\ s.err] : t \in sent}
            new   == IF gnt THEN Members(phase) ELSE <<>>
<1>1. slave \in Seq(Histories) /\ gntpar_err_q \in BOOLEAN /\ Len(slave) \in Nat
  BY LenProperties DEF Presents, ObiInv, ObiTypeOK
<1>2. slave' = Stepped(slave, rvalid, new) /\ (rvalid => slave # <<>>)
  BY DEF Presents, ObiClock, Stepped
<1>3. IsTransfers(sent)
  BY Signals DEF Presents
<1>. DEFINE n == Taken(rvalid)
<1>4. ASSUME new \in Pushes(Histories)
      PROVE  /\ n \in Nat /\ n <= Len(slave)
             /\ slave' \in Seq(Histories)
             /\ Len(slave') = Len(slave) - n + Len(new)
             /\ \A i \in 1..(Len(slave) - n) : slave'[i] = slave[i + n]
             /\ new # <<>> => Len(new) = 1 /\ slave'[Len(slave) - n + 1] = new[1]
             /\ new = <<>> => Len(new) = 0
  <2>. HIDE DEF new
  <2>1. /\ slave \in Seq(Histories) /\ rvalid \in BOOLEAN
        /\ rvalid => slave # <<>>
    BY <1>1, <1>2
  <2>2. new \in Pushes(Histories)
    BY <1>4
  <2>3. /\ Len(slave) \in Nat /\ Taken(rvalid) \in Nat /\ Taken(rvalid) <= Len(slave)
        /\ Stepped(slave, rvalid, new) \in Seq(Histories)
        /\ Len(Stepped(slave, rvalid, new)) = Len(slave) - Taken(rvalid) + Len(new)
        /\ \A i \in 1..(Len(slave) - Taken(rvalid)) :
              Stepped(slave, rvalid, new)[i] = slave[i + Taken(rvalid)]
        /\ new # <<>> =>
              /\ Len(new) = 1 /\ new[1] \in Histories
              /\ Stepped(slave, rvalid, new)[Len(slave) - Taken(rvalid) + 1] = new[1]
        /\ new = <<>> => Len(new) = 0
    BY <2>1, <2>2, QueueStep
  <2>. QED
    BY <1>2, <2>3
<1>5. CASE gnt /\ sent # {}
  <2>1. PICK t \in Transfers : sent = {t}
    BY <1>3, <1>5 DEF IsTransfers, AtMostOne
  <2>. DEFINE h == [t |-> t, err |-> err \/ gntpar_err_q]
  <2>2. phase = {h}
    BY <2>1, PhaseIs
  <2>3. new = <<h>>
    BY <1>5, <2>2, MembersOf
  <2>4. h \in Histories /\ h.t = t /\ h.err = (err \/ gntpar_err_q)
    BY DEF Histories
  <2>. HIDE DEF h
  <2>5. new \in Pushes(Histories) /\ new # <<>> /\ new[1] = h
    <3>. HIDE DEF new
    <3>1. <<h>> \in Pushes(Histories) /\ <<h>> # <<>> /\ <<h>>[1] = h
      BY <2>4 DEF Pushes
    <3>. QED
      BY <2>3, <3>1
  <2>6. slave'[Len(slave) - n + 1] = h
    BY <1>4, <2>5
  <2>7. Len(slave') = Len(slave) - n + 1
    BY <1>4, <2>5
  <2>. QED
    BY <1>1, <1>4, <1>5, <2>1, <2>4, <2>5, <2>6, <2>7
<1>6. CASE ~(gnt /\ sent # {})
  <2>1. phase = {} \/ ~gnt
    BY <1>6
  <2>2. new = <<>> /\ new \in Pushes(Histories)
    BY <2>1, MembersOf DEF Pushes
  <2>3. Len(slave') = Len(slave) - n
    BY <1>1, <1>4, <2>2
  <2>. QED
    BY <1>1, <1>4, <1>6, <2>2, <2>3
<1>. QED
  BY <1>5, <1>6

(* Whatever the write buffer does, the bus's queue loses its head when the  *)
(* slave answers, and what is accepted joins it at the end.                 *)
LEMMA BusStep ==
  ASSUME NEW req, NEW gnt \in BOOLEAN, NEW err \in BOOLEAN, NEW rvalid \in BOOLEAN,
         Presents(req, gnt, err, rvalid)
  PROVE  /\ BusQueue \in Seq(Transfers) /\ BusQueue' \in Seq(Transfers)
         /\ rvalid => BusQueue # <<>>
         /\ BusQueue' = Stepped(BusQueue, rvalid, Members(Accepted(req, gnt)))
<1>. DEFINE acc == Accepted(req, gnt)
            new == Members(acc)
            n   == Taken(rvalid)
            l   == Len(slave)
            r   == Stepped(BusQueue, rvalid, new)
<1>1. /\ IsTransfers(acc) /\ IsTransfers(wbuf) /\ IsTransfers(wbuf')
      /\ wbuf' = wbuf_n(req, gnt) /\ slave \in Seq(Histories)
      /\ rvalid => slave # <<>>
  <2>1. ObiInv /\ IsTransfers(req) /\ ObiClock(req, gnt, err, rvalid)
    BY DEF Presents
  <2>2. IsTransfers(acc) /\ IsTransfers(wbuf_n(req, gnt))
    BY <2>1, Signals
  <2>3. IsTransfers(wbuf) /\ slave \in Seq(Histories)
    BY <2>1 DEF ObiInv, ObiTypeOK, IsTransfers, AtMostOne
  <2>4. wbuf' = wbuf_n(req, gnt) /\ (rvalid => slave # <<>>)
    BY <2>1 DEF ObiClock
  <2>. QED
    BY <2>2, <2>3, <2>4
<1>2. /\ l \in Nat
      /\ BusQueue \in Seq(Transfers)
      /\ Len(BusQueue) = l + (IF wbuf = {} THEN 0 ELSE 1)
      /\ \A i \in 1..l : BusQueue[i] = slave[i].t
      /\ wbuf # {} => wbuf = {BusQueue[l + 1]}
  <2>1. BusQueue = Joined(slave, wbuf)
    BY DEF BusQueue, SlaveQueue, Joined
  <2>2. /\ Len(slave) \in Nat
        /\ Joined(slave, wbuf) \in Seq(Transfers)
        /\ Len(Joined(slave, wbuf)) = Len(slave) + (IF wbuf = {} THEN 0 ELSE 1)
        /\ \A i \in 1..Len(slave) : Joined(slave, wbuf)[i] = slave[i].t
        /\ wbuf # {} => wbuf = {Joined(slave, wbuf)[Len(slave) + 1]}
    BY <1>1, JoinedQueue
  <2>. QED
    BY <2>1, <2>2
<1>3. slave' \in Seq(Histories)
  BY SlaveStep
<1>4. /\ Len(slave') \in Nat
      /\ BusQueue' \in Seq(Transfers)
      /\ Len(BusQueue') = Len(slave') + (IF wbuf' = {} THEN 0 ELSE 1)
      /\ \A i \in 1..Len(slave') : BusQueue'[i] = slave'[i].t
      /\ wbuf' # {} => wbuf' = {BusQueue'[Len(slave') + 1]}
  <2>1. BusQueue' = Joined(slave', wbuf')
    BY DEF BusQueue, SlaveQueue, Joined
  <2>2. slave' \in Seq(Histories) /\ IsTransfers(wbuf')
    BY <1>1, <1>3
  <2>3. /\ Len(slave') \in Nat
        /\ Joined(slave', wbuf') \in Seq(Transfers)
        /\ Len(Joined(slave', wbuf')) = Len(slave') + (IF wbuf' = {} THEN 0 ELSE 1)
        /\ \A i \in 1..Len(slave') : Joined(slave', wbuf')[i] = slave'[i].t
        /\ wbuf' # {} => wbuf' = {Joined(slave', wbuf')[Len(slave') + 1]}
    BY <2>2, JoinedQueue
  <2>. QED
    BY <2>1, <2>3
<1>5. rvalid => BusQueue # <<>>
  BY <1>1, <1>2, EmptySeq
<1>6. /\ new \in Pushes(Transfers)
      /\ new = <<>> <=> acc = {}
      /\ acc = {} => Len(new) = 0
      /\ acc # {} => Len(new) = 1 /\ acc = {new[1]}
  BY <1>1, MembersPushes DEF IsTransfers, AtMostOne
<1>. HIDE DEF new
<1>7. /\ Len(BusQueue) \in Nat /\ Taken(rvalid) \in Nat /\ Taken(rvalid) <= Len(BusQueue)
      /\ Stepped(BusQueue, rvalid, new) \in Seq(Transfers)
      /\ Len(Stepped(BusQueue, rvalid, new)) = Len(BusQueue) - Taken(rvalid) + Len(new)
      /\ \A i \in 1..(Len(BusQueue) - Taken(rvalid)) :
           Stepped(BusQueue, rvalid, new)[i] = BusQueue[i + Taken(rvalid)]
      /\ new # <<>> =>
           /\ Len(new) = 1 /\ new[1] \in Transfers
           /\ Stepped(BusQueue, rvalid, new)[Len(BusQueue) - Taken(rvalid) + 1] = new[1]
      /\ new = <<>> => Len(new) = 0
  <2>1. BusQueue \in Seq(Transfers) /\ rvalid \in BOOLEAN /\ new \in Pushes(Transfers)
    BY <1>2, <1>6
  <2>. QED
    BY <1>5, <2>1, QueueStep
<1>. HIDE DEF r, acc
<1>8. /\ r \in Seq(Transfers)
      /\ Len(r) = l + (IF wbuf = {} THEN 0 ELSE 1) - n + (IF acc = {} THEN 0 ELSE 1)
      /\ \A i \in 1..(l - n) : r[i] = BusQueue[i + n]
      /\ wbuf # {} => wbuf = {r[l - n + 1]}
      /\ wbuf = {} /\ acc # {} => acc = {r[l - n + 1]}
      /\ wbuf # {} /\ acc # {} => acc = {r[l - n + 2]}
      /\ n \in {0, 1} /\ n <= l
  <2>1. n \in {0, 1} /\ n <= l
    BY SlaveStep DEF Taken
  <2>2. /\ r \in Seq(Transfers)
        /\ Len(r) = Len(BusQueue) - n + (IF acc = {} THEN 0 ELSE 1)
        /\ \A i \in 1..(Len(BusQueue) - n) : r[i] = BusQueue[i + n]
        /\ acc # {} => acc = {r[Len(BusQueue) - n + 1]}
    BY <1>6, <1>7 DEF r
  <2>3. CASE wbuf = {}
    BY <1>2, <2>1, <2>2, <2>3
  <2>4. CASE wbuf # {}
    <3>1. Len(BusQueue) = l + 1
      BY <1>2, <2>4
    <3>2. r[l - n + 1] = BusQueue[l + 1]
      BY <1>2, <2>1, <2>2, <3>1
    <3>. QED
      BY <1>2, <2>1, <2>2, <2>4, <3>1, <3>2
  <2>. QED
    BY <2>3, <2>4
<1>9. /\ Len(slave') = l - n + (IF gnt /\ obi_req(req) # {} THEN 1 ELSE 0)
      /\ \A i \in 1..(l - n) : BusQueue'[i] = BusQueue[i + n]
      /\ gnt /\ obi_req(req) # {} => obi_req(req) = {BusQueue'[l - n + 1]}
  <2>1. n \in {0, 1} /\ n <= l
    BY <1>8
  <2>2. /\ n <= l /\ l \in Nat
        /\ Len(slave') = l - n + (IF gnt /\ obi_req(req) # {} THEN 1 ELSE 0)
        /\ \A i \in 1..(l - n) : slave'[i] = slave[i + n]
        /\ gnt /\ obi_req(req) # {} => obi_req(req) = {slave'[l - n + 1].t}
    BY SlaveStep
  <2>3. \A i \in 1..(l - n) : i \in 1..Len(slave') /\ i + n \in 1..l
    BY <1>4, <2>1, <2>2
  <2>4. gnt /\ obi_req(req) # {} => l - n + 1 \in 1..Len(slave')
    BY <1>4, <2>1, <2>2
  <2>. QED
    BY <1>2, <1>4, <2>1, <2>2, <2>3, <2>4
<1>10. /\ Len(BusQueue') = Len(r)
       /\ \A i \in 1..Len(r) : BusQueue'[i] = r[i]
  <2>1. CASE wbuf # {} /\ gnt
    <3>1. obi_req(req) = wbuf /\ wbuf' = acc
      BY <1>1, <2>1, Signals DEF acc, Presents
    <3>2. Len(slave') = l - n + 1 /\ BusQueue'[l - n + 1] = r[l - n + 1]
      BY <1>8, <1>9, <2>1, <3>1
    <3>3. acc # {} => BusQueue'[l - n + 2] = r[l - n + 2]
      BY <1>2, <1>4, <1>8, <1>9, <2>1, <3>1, <3>2
    <3>4. Len(BusQueue') = Len(r)
      BY <1>2, <1>4, <1>8, <2>1, <3>1, <3>2
    <3>5. \A i \in 1..Len(r) : i \in 1..(l - n) \/ i = l - n + 1 \/ (acc # {} /\ i = l - n + 2)
      BY <1>2, <1>8, <2>1
    <3>6. \A i \in 1..(l - n) : BusQueue'[i] = r[i]
      BY <1>8, <1>9
    <3>. QED
      BY <3>2, <3>3, <3>4, <3>5, <3>6
  <2>2. CASE wbuf # {} /\ ~gnt
    <3>1. acc = {} /\ wbuf' = wbuf
      BY <1>1, <2>2, Signals DEF acc, Presents
    <3>2. Len(slave') = l - n /\ BusQueue'[l - n + 1] = r[l - n + 1]
      BY <1>2, <1>4, <1>8, <1>9, <2>2, <3>1
    <3>. QED
      BY <1>2, <1>4, <1>8, <1>9, <2>2, <3>1, <3>2
  <2>3. CASE wbuf = {} /\ gnt
    <3>1. obi_req(req) = acc /\ wbuf' = {}
      BY <1>1, <2>3, Signals DEF acc, Presents
    <3>2. acc # {} => BusQueue'[l - n + 1] = r[l - n + 1]
      BY <1>8, <1>9, <2>3, <3>1
    <3>3. Len(BusQueue') = Len(r)
      BY <1>2, <1>4, <1>8, <1>9, <2>3, <3>1
    <3>4. \A i \in 1..Len(r) : i \in 1..(l - n) \/ (acc # {} /\ i = l - n + 1)
      BY <1>2, <1>8, <2>3
    <3>5. \A i \in 1..(l - n) : BusQueue'[i] = r[i]
      BY <1>8, <1>9
    <3>. QED
      BY <3>2, <3>3, <3>4, <3>5
  <2>4. CASE wbuf = {} /\ ~gnt
    <3>1. wbuf' = acc
      BY <1>1, <2>4, Signals DEF acc, Presents
    <3>2. acc # {} => BusQueue'[l - n + 1] = r[l - n + 1]
      BY <1>2, <1>4, <1>8, <1>9, <2>4, <3>1
    <3>. QED
      BY <1>2, <1>4, <1>8, <1>9, <2>4, <3>1, <3>2
  <2>. QED
    BY <2>1, <2>2, <2>3, <2>4
<1>. QED
  BY <1>2, <1>4, <1>5, <1>8, <1>10, SeqEqual DEF r, new, acc

InFlightFacts ==
  /\ bus_cnt_q \in Nat /\ core_cnt_q \in Nat /\ obi_cnt_q \in Nat
  /\ core_cnt_q <= bus_cnt_q /\ obi_cnt_q <= bus_cnt_q /\ bus_cnt_q <= DEPTH
  /\ BusQueue \in Seq(Transfers) /\ Len(BusQueue) = bus_cnt_q
  /\ bus_cnt_q = obi_cnt_q + (IF wbuf = {} THEN 0 ELSE 1)
  /\ \A i \in 1..obi_cnt_q : BusQueue[i] = slave[i].t
  /\ Len(owed) = core_cnt_q /\ Len(slave) = obi_cnt_q
  /\ slave # <<>> <=> obi_cnt_q > 0
  /\ owed # <<>> <=> core_cnt_q > 0

LEMMA InFlightNow == ASSUME ObiInv PROVE InFlightFacts
<1>1. /\ slave \in Seq(Histories) /\ owed \in Seq(Transfers) /\ IsTransfers(wbuf)
      /\ bus_cnt_q = Len(BusQueue) /\ core_cnt_q = Len(owed) /\ obi_cnt_q = Len(slave)
      /\ core_cnt_q <= bus_cnt_q /\ bus_cnt_q <= DEPTH
  BY DEF ObiInv, ObiTypeOK, RegistersInv, CountsAgree, IsTransfers, AtMostOne
<1>2. BusQueue = Joined(slave, wbuf)
  BY DEF BusQueue, SlaveQueue, Joined
<1>3. /\ Len(slave) \in Nat
      /\ Joined(slave, wbuf) \in Seq(Transfers)
      /\ Len(Joined(slave, wbuf)) = Len(slave) + (IF wbuf = {} THEN 0 ELSE 1)
      /\ \A i \in 1..Len(slave) : Joined(slave, wbuf)[i] = slave[i].t
  BY <1>1, JoinedQueue
<1>4. Len(owed) \in Nat /\ (owed = <<>> <=> Len(owed) = 0) /\ (slave = <<>> <=> Len(slave) = 0)
  BY <1>1, EmptySeq, LenProperties
<1>. QED
  BY <1>1, <1>2, <1>3, <1>4 DEF InFlightFacts

LEMMA AttributesOf == \A t : Attributes(t).bufferable = t.bufferable /\ Attributes(t).store = t.we
BY DEF Attributes

(* The core is answered for a transfer it waits for, never for one that the *)
(* bus performs later and that it must wait for.                            *)
LEMMA Answers ==
  ASSUME ObiInv, NEW rvalid \in BOOLEAN, rvalid => slave # <<>>
  PROVE  /\ resp_valid_o(rvalid) \in BOOLEAN
         /\ resp_valid_o(rvalid) =>
              /\ owed # <<>> /\ core_cnt_q > 0
              /\ owed[1].bufferable \/ (rvalid /\ core_cnt_q = bus_cnt_q)
         /\ rvalid /\ ~resp_valid_o(rvalid) => core_cnt_q < bus_cnt_q
         /\ rvalid /\ ~BusQueue[1].bufferable => resp_valid_o(rvalid)
<1>0. InFlightFacts
  BY InFlightNow
<1>. DEFINE Bus  == bus_cnt_q
            Core == core_cnt_q
<1>n. /\ Bus \in Nat /\ Core \in Nat /\ Core <= Bus /\ Bus <= DEPTH /\ DEPTH \in Nat
      /\ owed # <<>> <=> Core > 0
      /\ slave # <<>> => Bus > 0
  BY <1>0, DataObiParameters DEF InFlightFacts
<1>1. /\ outstanding_q[0].bufferable = FALSE
      /\ \A k \in 1..bus_cnt_q : outstanding_q[k].bufferable = BusQueue[bus_cnt_q + 1 - k].bufferable
      /\ \A k \in 0..DEPTH : outstanding_q[k].bufferable \in BOOLEAN
  <2>1. /\ outstanding_q[0] = TiedOff
        /\ \A k \in 1..bus_cnt_q : outstanding_q[k] = Attributes(BusQueue[bus_cnt_q + 1 - k])
        /\ outstanding_q \in [0..DEPTH -> [bufferable : BOOLEAN, store : BOOLEAN]]
    BY DEF ObiInv, ObiTypeOK, RegistersInv
  <2>2. outstanding_q[0].bufferable = FALSE
    BY <2>1 DEF TiedOff
  <2>3. \A k \in 1..bus_cnt_q :
          outstanding_q[k].bufferable = BusQueue[bus_cnt_q + 1 - k].bufferable
    BY <2>1, AttributesOf
  <2>4. \A k \in 0..DEPTH : outstanding_q[k].bufferable \in BOOLEAN
    BY <2>1
  <2>. QED
    BY <2>2, <2>3, <2>4
<1>2. /\ \A i \in 1..core_cnt_q : owed[i] = BusQueue[bus_cnt_q - core_cnt_q + i]
      /\ \A i \in 1..(bus_cnt_q - core_cnt_q) : BusQueue[i].bufferable
  BY DEF ObiInv, EarlyInv
<1>3. core_cnt_q # 0 => /\ outstanding_q[core_cnt_q].bufferable = owed[1].bufferable
                        /\ owed[1] = BusQueue[bus_cnt_q - core_cnt_q + 1]
  <2>1. core_cnt_q # 0 => /\ core_cnt_q \in 1..bus_cnt_q
                          /\ bus_cnt_q + 1 - core_cnt_q = bus_cnt_q - core_cnt_q + 1
                          /\ 1 \in 1..core_cnt_q
                          /\ bus_cnt_q + 1 - (bus_cnt_q - core_cnt_q + 1) = core_cnt_q
                          /\ bus_cnt_q - core_cnt_q + 1 \in 1..bus_cnt_q
    BY <1>n
  <2>. QED
    BY <1>1, <1>2, <2>1
<1>4. bus_cnt_q # 0 => outstanding_q[bus_cnt_q].bufferable = BusQueue[1].bufferable
  <2>1. bus_cnt_q # 0 => bus_cnt_q \in 1..bus_cnt_q /\ bus_cnt_q + 1 - bus_cnt_q = 1
    BY <1>n
  <2>. QED
    BY <1>1, <2>1
<1>5. rvalid => bus_cnt_q # 0
  BY <1>n
<1>6. CASE outstanding_q[bus_cnt_q].bufferable
  <2>1. resp_valid_o(rvalid) = outstanding_q[core_cnt_q].bufferable
    BY <1>6 DEF resp_valid_o
  <2>2. core_cnt_q \in 0..DEPTH
    BY <1>n
  <2>3. resp_valid_o(rvalid) => core_cnt_q # 0 /\ owed[1].bufferable
    BY <1>1, <1>3, <2>1
  <2>4. rvalid /\ ~resp_valid_o(rvalid) => core_cnt_q # bus_cnt_q
    BY <1>6, <2>1
  <2>5. resp_valid_o(rvalid) \in BOOLEAN
    BY <1>1, <2>1, <2>2
  <2>6. rvalid => BusQueue[1].bufferable
    BY <1>4, <1>5, <1>6, <1>n, Zenon
  <2>. QED
    BY <1>n, <2>3, <2>4, <2>5, <2>6
<1>7. CASE ~outstanding_q[bus_cnt_q].bufferable
  <2>1. resp_valid_o(rvalid) = rvalid
    BY <1>7 DEF resp_valid_o
  <2>2. rvalid => core_cnt_q = bus_cnt_q
    <3>. SUFFICES ASSUME rvalid, core_cnt_q # bus_cnt_q
                  PROVE  FALSE
      OBVIOUS
    <3>1. 1 \in 1..(bus_cnt_q - core_cnt_q)
      BY <1>n
    <3>. QED
      BY <1>2, <1>4, <1>5, <1>7, <3>1
  <2>. QED
    BY <1>n, <1>5, <2>1, <2>2
<1>. QED
  BY <1>6, <1>7

LEMMA OwedStep ==
  ASSUME NEW req, NEW gnt \in BOOLEAN, NEW err \in BOOLEAN, NEW rvalid \in BOOLEAN,
         Presents(req, gnt, err, rvalid)
  PROVE  owed' = Stepped(owed, resp_valid_o(rvalid), Members(Accepted(req, gnt)))
<1>1. ObiInv /\ (rvalid => slave # <<>>)
  BY DEF Presents, ObiClock
<1>2. resp_valid_o(rvalid) => owed # <<>>
  BY <1>1, Answers
<1>3. resp_valid_o(rvalid) \in BOOLEAN
  BY <1>1, Answers
<1>4. (resp_valid_o(rvalid) /\ owed # <<>>) = resp_valid_o(rvalid)
  BY <1>2, <1>3
<1>. QED
  BY <1>4 DEF Presents, ObiClock, Stepped

(* A queue after a step, position by position.                              *)
IsStep(S, r, q, pop, T) ==
  /\ Len(q) \in Nat /\ Taken(pop) \in {0, 1} /\ Taken(pop) <= Len(q)
  /\ r \in Seq(S)
  /\ Len(r) = Len(q) - Taken(pop) + (IF T = {} THEN 0 ELSE 1)
  /\ \A i \in 1..(Len(q) - Taken(pop)) : r[i] = q[i + Taken(pop)]
  /\ T # {} => T = {r[Len(q) - Taken(pop) + 1]}

LEMMA SteppedAt ==
  ASSUME NEW S, NEW q \in Seq(S), NEW pop \in BOOLEAN, pop => q # <<>>,
         NEW T, AtMostOne(S, T)
  PROVE  IsStep(S, Stepped(q, pop, Members(T)), q, pop, T)
<1>. DEFINE new == Members(T)
<1>1. /\ new \in Pushes(S)
      /\ new = <<>> <=> T = {}
      /\ T # {} => T = {new[1]}
  BY MembersPushes DEF AtMostOne
<1>. HIDE DEF new
<1>2. /\ Len(q) \in Nat /\ Taken(pop) \in Nat /\ Taken(pop) <= Len(q)
      /\ Stepped(q, pop, new) \in Seq(S)
      /\ Len(Stepped(q, pop, new)) = Len(q) - Taken(pop) + Len(new)
      /\ \A i \in 1..(Len(q) - Taken(pop)) :
           Stepped(q, pop, new)[i] = q[i + Taken(pop)]
      /\ new # <<>> =>
           /\ Len(new) = 1 /\ new[1] \in S
           /\ Stepped(q, pop, new)[Len(q) - Taken(pop) + 1] = new[1]
      /\ new = <<>> => Len(new) = 0
  BY <1>1, QueueStep
<1>3. Taken(pop) \in {0, 1}
  BY DEF Taken
<1>. QED
  BY <1>1, <1>2, <1>3 DEF new, IsStep

(* The two queues in numbers: the core's is the end of the bus's.           *)
QueuesMove(rvalid, ans, acc) ==
  LET n  == Taken(rvalid)
      m  == Taken(ans)
      up == IF acc = {} THEN 0 ELSE 1
  IN  /\ n \in {0, 1} /\ n <= obi_cnt_q
      /\ m \in {0, 1} /\ m <= core_cnt_q
      /\ bus_cnt_q' = bus_cnt_q - n + up
      /\ core_cnt_q' = core_cnt_q - m + up
      /\ core_cnt_q' <= bus_cnt_q' /\ bus_cnt_q' <= DEPTH
      /\ BusQueue' \in Seq(Transfers) /\ Len(BusQueue') = bus_cnt_q'
      /\ owed' \in Seq(Transfers) /\ Len(owed') = core_cnt_q'
      /\ \A i \in 1..(bus_cnt_q - n) : BusQueue'[i] = BusQueue[i + n]
      /\ \A i \in 1..(core_cnt_q - m) : owed'[i] = owed[i + m]
      /\ acc # {} => /\ acc = {BusQueue'[bus_cnt_q - n + 1]}
                     /\ acc = {owed'[core_cnt_q - m + 1]}

LEMMA QueuesStep ==
  ASSUME NEW req, NEW gnt \in BOOLEAN, NEW err \in BOOLEAN, NEW rvalid \in BOOLEAN,
         Presents(req, gnt, err, rvalid)
  PROVE  QueuesMove(rvalid, resp_valid_o(rvalid), Accepted(req, gnt))
<1>. DEFINE acc == Accepted(req, gnt)
            ans == resp_valid_o(rvalid)
<1>1. ObiInv /\ InFlightFacts /\ (rvalid => slave # <<>>) /\ IsTransfers(req)
  BY InFlightNow DEF Presents, ObiClock
<1>2. /\ ans \in BOOLEAN
      /\ ans => owed # <<>>
      /\ rvalid /\ ~ans => core_cnt_q < bus_cnt_q
  BY <1>1, Answers
<1>3. IsTransfers(acc) /\ (acc = {} \/ Room)
  BY <1>1, Signals
<1>4. BusQueue' = Stepped(BusQueue, rvalid, Members(acc)) /\ (rvalid => BusQueue # <<>>)
  BY BusStep
<1>5. owed' = Stepped(owed, ans, Members(acc))
  BY OwedStep
<1>6. BusQueue \in Seq(Transfers) /\ owed \in Seq(Transfers)
  BY <1>1 DEF InFlightFacts, ObiInv, ObiTypeOK
<1>. HIDE DEF acc, ans
<1>7. IsStep(Transfers, Stepped(BusQueue, rvalid, Members(acc)), BusQueue, rvalid, acc)
  <2>1. BusQueue \in Seq(Transfers) /\ (rvalid => BusQueue # <<>>) /\ AtMostOne(Transfers, acc)
    BY <1>3, <1>4, <1>6 DEF IsTransfers, AtMostOne
  <2>. QED
    BY <2>1, SteppedAt
<1>8. IsStep(Transfers, Stepped(owed, ans, Members(acc)), owed, ans, acc)
  <2>1. owed \in Seq(Transfers) /\ (ans => owed # <<>>) /\ AtMostOne(Transfers, acc)
    BY <1>2, <1>3, <1>6 DEF IsTransfers, AtMostOne
  <2>. QED
    BY <1>2, <2>1, SteppedAt
<1>9. /\ bus_cnt_q' = Count(bus_cnt_q, acc # {}, rvalid)
      /\ core_cnt_q' = Count(core_cnt_q, acc # {}, ans)
  BY DEF Presents, ObiClock, acc, ans
<1>10. Taken(rvalid) <= obi_cnt_q
  BY <1>1 DEF InFlightFacts, Taken
<1>11. /\ bus_cnt_q' = bus_cnt_q - Taken(rvalid) + (IF acc = {} THEN 0 ELSE 1)
       /\ core_cnt_q' = core_cnt_q - Taken(ans) + (IF acc = {} THEN 0 ELSE 1)
  BY <1>1, <1>2, <1>9 DEF InFlightFacts, Count, Taken
<1>12. core_cnt_q - Taken(ans) <= bus_cnt_q - Taken(rvalid)
  BY <1>1, <1>2 DEF InFlightFacts, Taken
<1>13. core_cnt_q' <= bus_cnt_q' /\ bus_cnt_q' <= DEPTH
  BY <1>1, <1>3, <1>7, <1>8, <1>11, <1>12, DataObiParameters DEF InFlightFacts, Room, IsStep
<1>. QED
  BY <1>1, <1>4, <1>5, <1>7, <1>8, <1>10, <1>11, <1>13 DEF InFlightFacts, IsStep, QueuesMove, acc, ans

LEMMA EarlyStep ==
  ASSUME NEW req, NEW gnt \in BOOLEAN, NEW err \in BOOLEAN, NEW rvalid \in BOOLEAN,
         Presents(req, gnt, err, rvalid)
  PROVE  EarlyInv'
<1>. DEFINE acc == Accepted(req, gnt)
            ans == resp_valid_o(rvalid)
            n   == Taken(rvalid)
            m   == Taken(ans)
            up  == IF acc = {} THEN 0 ELSE 1
            gap == bus_cnt_q - n - (core_cnt_q - m)
<1>1. ObiInv /\ InFlightFacts /\ (rvalid => slave # <<>>) /\ IsTransfers(req)
  BY InFlightNow DEF Presents, ObiClock
<1>2. QueuesMove(rvalid, ans, acc)
  BY QueuesStep
<1>3. \A t \in wbuf' : t.bufferable
  BY <1>1, Signals DEF Presents, ObiClock
<1>4. /\ \A i \in 1..core_cnt_q : owed[i] = BusQueue[bus_cnt_q - core_cnt_q + i]
      /\ \A i \in 1..(bus_cnt_q - core_cnt_q) : BusQueue[i].bufferable
  BY <1>1 DEF ObiInv, EarlyInv
<1>5. ans => owed[1].bufferable \/ (rvalid /\ core_cnt_q = bus_cnt_q)
  BY <1>1, Answers
<1>6. /\ bus_cnt_q \in Nat /\ core_cnt_q \in Nat /\ core_cnt_q <= bus_cnt_q
      /\ n \in {0, 1} /\ n <= bus_cnt_q /\ m \in {0, 1} /\ m <= core_cnt_q
      /\ core_cnt_q - m <= bus_cnt_q - n
      /\ up \in {0, 1}
      /\ bus_cnt_q' - core_cnt_q' = gap
      /\ core_cnt_q' = core_cnt_q - m + up
  <2>1. /\ bus_cnt_q \in Nat /\ core_cnt_q \in Nat /\ obi_cnt_q \in Nat
        /\ core_cnt_q <= bus_cnt_q /\ obi_cnt_q <= bus_cnt_q
    BY <1>1 DEF InFlightFacts
  <2>2. /\ n \in {0, 1} /\ n <= obi_cnt_q /\ m \in {0, 1} /\ m <= core_cnt_q
        /\ bus_cnt_q' = bus_cnt_q - n + up
        /\ core_cnt_q' = core_cnt_q - m + up
        /\ core_cnt_q' <= bus_cnt_q'
    BY <1>2 DEF QueuesMove
  <2>3. up \in {0, 1}
    OBVIOUS
  <2>. HIDE DEF n, m, up
  <2>. QED
    BY <2>1, <2>2, <2>3
<1>. HIDE DEF ans
<1>7. ASSUME NEW i \in 1..(core_cnt_q - m + up)
      PROVE  owed'[i] = BusQueue'[gap + i]
  <2>1. CASE i \in 1..(core_cnt_q - m)
    <3>1. /\ gap + i \in 1..(bus_cnt_q - n)
          /\ gap + i + n = bus_cnt_q - core_cnt_q + (i + m)
          /\ i + m \in 1..core_cnt_q
      <4>. HIDE DEF n, m, up
      <4>. QED
        BY <1>6, <2>1
    <3>2. owed'[i] = owed[i + m]
      BY <1>2, <2>1 DEF QueuesMove
    <3>3. BusQueue'[gap + i] = BusQueue[gap + i + n]
      BY <1>2, <3>1 DEF QueuesMove
    <3>. QED
      BY <1>4, <3>1, <3>2, <3>3
  <2>2. CASE i \notin 1..(core_cnt_q - m)
    <3>1. up = 1 /\ i = core_cnt_q - m + 1
      <4>. HIDE DEF n, m, up
      <4>. QED
        BY <1>6, <1>7, <2>2
    <3>2. gap + i = bus_cnt_q - n + 1
      BY <1>6, <3>1
    <3>3. acc = {owed'[i]} /\ acc = {BusQueue'[gap + i]}
      BY <1>2, <3>1, <3>2 DEF QueuesMove
    <3>. QED
      BY <3>3
  <2>. QED
    BY <2>1, <2>2
<1>8. ASSUME NEW i \in 1..gap
      PROVE  BusQueue'[i].bufferable
  <2>1. i \in 1..(bus_cnt_q - n)
    <3>. HIDE DEF n, m, up
    <3>. QED
      BY <1>6, <1>8
  <2>2. BusQueue'[i] = BusQueue[i + n]
    BY <1>2, <2>1 DEF QueuesMove
  <2>3. CASE i + n \in 1..(bus_cnt_q - core_cnt_q)
    BY <1>4, <2>2, <2>3
  <2>4. CASE i + n \notin 1..(bus_cnt_q - core_cnt_q)
    <3>1. m = 1 /\ i + n = bus_cnt_q - core_cnt_q + 1
      <4>. HIDE DEF n, m, up
      <4>. QED
        BY <1>6, <1>8, <2>1, <2>4
    <3>2. ans /\ (n = 1 => rvalid)
      BY <3>1 DEF Taken
    <3>3. rvalid => n = 1
      BY DEF Taken
    <3>4. ~(rvalid /\ core_cnt_q = bus_cnt_q)
      BY <1>6, <3>1, <3>3
    <3>5. 1 \in 1..core_cnt_q
      BY <1>6, <3>1
    <3>6. BusQueue[i + n] = owed[1]
      BY <1>4, <3>1, <3>5
    <3>. QED
      BY <1>5, <2>2, <3>2, <3>4, <3>6
  <2>. QED
    BY <2>3, <2>4
<1>. QED
  BY <1>3, <1>6, <1>7, <1>8 DEF EarlyInv

LEMMA ShiftAt ==
  ASSUME NEW reg, NEW e, NEW low
  PROVE  /\ DOMAIN Shift(reg, e, low) = 0..DEPTH
         /\ Shift(reg, e, low)[0] = low
         /\ Shift(reg, e, low)[1] = e
         /\ \A k \in 2..DEPTH : Shift(reg, e, low)[k] = reg[k - 1]
<1>1. DEPTH \in Nat /\ DEPTH >= 1
  BY DataObiParameters
<1>2. 0 \in 0..DEPTH /\ 1 \in 0..DEPTH /\ \A k \in 2..DEPTH : k \in 0..DEPTH /\ k # 0 /\ k # 1
  BY <1>1
<1>. QED
  BY <1>2 DEF Shift

LEMMA ShiftType ==
  ASSUME NEW S, NEW reg \in [0..DEPTH -> S], NEW e \in S, NEW low \in S
  PROVE  Shift(reg, e, low) \in [0..DEPTH -> S]
<1>1. \A k \in 0..DEPTH : k # 0 => k - 1 \in 0..DEPTH
  BY DataObiParameters
<1>. QED
  BY <1>1 DEF Shift

(* The filter's shift register follows the bus's queue.                     *)
LEMMA OutstandingStep ==
  ASSUME NEW req, NEW gnt \in BOOLEAN, NEW err \in BOOLEAN, NEW rvalid \in BOOLEAN,
         Presents(req, gnt, err, rvalid)
  PROVE  /\ outstanding_q' \in [0..DEPTH -> [bufferable : BOOLEAN, store : BOOLEAN]]
         /\ outstanding_q'[0] = TiedOff
         /\ \A k \in 1..bus_cnt_q' :
              outstanding_q'[k] = Attributes(BusQueue'[bus_cnt_q' + 1 - k])
<1>. DEFINE acc == Accepted(req, gnt)
            n   == Taken(rvalid)
            up  == IF acc = {} THEN 0 ELSE 1
            bus == bus_cnt_q - n + up
<1>1. ObiInv /\ InFlightFacts
  BY InFlightNow DEF Presents
<1>2. QueuesMove(rvalid, resp_valid_o(rvalid), acc)
  BY QueuesStep
<1>3. /\ outstanding_q \in [0..DEPTH -> [bufferable : BOOLEAN, store : BOOLEAN]]
      /\ outstanding_q[0] = TiedOff
      /\ \A k \in 1..bus_cnt_q : outstanding_q[k] = Attributes(BusQueue[bus_cnt_q + 1 - k])
  BY <1>1 DEF ObiInv, ObiTypeOK, RegistersInv
<1>4. /\ bus_cnt_q \in Nat /\ n \in {0, 1} /\ n <= bus_cnt_q /\ bus_cnt_q' = bus /\ bus <= DEPTH
      /\ \A i \in 1..(bus_cnt_q - n) : BusQueue'[i] = BusQueue[i + n]
      /\ acc # {} => acc = {BusQueue'[bus_cnt_q - n + 1]}
  BY <1>1, <1>2 DEF QueuesMove, InFlightFacts
<1>5. outstanding_q' = IF acc = {} THEN outstanding_q
                       ELSE Shift(outstanding_q, Attributes(Members(acc)[1]), TiedOff)
  BY DEF Presents, ObiClock
<1>. HIDE DEF n, acc
<1>6. ASSUME acc = {}
      PROVE  \A k \in 1..bus : outstanding_q'[k] = Attributes(BusQueue'[bus + 1 - k])
  <2>. TAKE k \in 1..bus
  <2>1. bus + 1 - k \in 1..(bus_cnt_q - n) /\ bus + 1 - k + n = bus_cnt_q + 1 - k
        /\ k \in 1..bus_cnt_q
    BY <1>4, <1>6
  <2>2. BusQueue'[bus + 1 - k] = BusQueue[bus_cnt_q + 1 - k]
    BY <1>4, <2>1
  <2>. QED
    BY <1>3, <1>5, <1>6, <2>1, <2>2
<1>7. ASSUME acc # {}
      PROVE  /\ outstanding_q' \in [0..DEPTH -> [bufferable : BOOLEAN, store : BOOLEAN]]
             /\ outstanding_q'[0] = TiedOff
             /\ \A k \in 1..bus : outstanding_q'[k] = Attributes(BusQueue'[bus + 1 - k])
  <2>. DEFINE t == BusQueue'[bus_cnt_q - n + 1]
  <2>1. acc = {t} /\ Members(acc)[1] = t
    <3>1. acc = {t}
      BY <1>4, <1>7
    <3>2. Members(acc) = <<t>>
      BY <3>1, MembersOf, Zenon
    <3>. QED
      BY <3>1, <3>2
  <2>2. t \in Transfers
    <3>1. IsTransfers(acc)
      BY <1>1, Signals DEF acc, Presents
    <3>. QED
      BY <2>1, <3>1 DEF IsTransfers, AtMostOne
  <2>. HIDE DEF t
  <2>3. Attributes(t) \in [bufferable : BOOLEAN, store : BOOLEAN]
        /\ TiedOff \in [bufferable : BOOLEAN, store : BOOLEAN]
    BY <2>2, DataObiParameters DEF Attributes, TiedOff
  <2>4. outstanding_q' = Shift(outstanding_q, Attributes(t), TiedOff)
    BY <1>5, <1>7, <2>1
  <2>5. outstanding_q' \in [0..DEPTH -> [bufferable : BOOLEAN, store : BOOLEAN]]
    BY <1>3, <2>3, <2>4, ShiftType
  <2>6. /\ outstanding_q'[0] = TiedOff
        /\ outstanding_q'[1] = Attributes(t)
        /\ \A k \in 2..DEPTH : outstanding_q'[k] = outstanding_q[k - 1]
    BY <2>4, ShiftAt
  <2>7. ASSUME NEW k \in 1..bus
        PROVE  outstanding_q'[k] = Attributes(BusQueue'[bus + 1 - k])
    <3>1. CASE k = 1
      <4>1. bus + 1 - k = bus_cnt_q - n + 1
        BY <1>4, <1>7, <3>1
      <4>. QED
        BY <2>6, <3>1, <4>1 DEF t
    <3>2. CASE k # 1
      <4>1. /\ k \in 2..DEPTH /\ k - 1 \in 1..bus_cnt_q
            /\ bus + 1 - k \in 1..(bus_cnt_q - n)
            /\ bus + 1 - k + n = bus_cnt_q + 1 - (k - 1)
        BY <1>4, <1>7, <2>7, <3>2, DataObiParameters
      <4>2. BusQueue'[bus + 1 - k] = BusQueue[bus_cnt_q + 1 - (k - 1)]
        BY <1>4, <4>1
      <4>. QED
        BY <1>3, <2>6, <4>1, <4>2
    <3>. QED
      BY <3>1, <3>2
  <2>. QED
    BY <2>5, <2>6, <2>7
<1>. QED
  BY <1>3, <1>4, <1>5, <1>6, <1>7

(* So does the integrity FIFO the slave's queue.                            *)
LEMMA FifoStep ==
  ASSUME NEW req, NEW gnt \in BOOLEAN, NEW err \in BOOLEAN, NEW rvalid \in BOOLEAN,
         Presents(req, gnt, err, rvalid)
  PROVE  /\ fifo_q' \in [0..DEPTH -> [gnterr : BOOLEAN, store : BOOLEAN]]
         /\ obi_cnt_q' = Len(slave')
         /\ \A k \in 1..obi_cnt_q' :
              fifo_q'[k] = [gnterr |-> slave'[obi_cnt_q' + 1 - k].err,
                            store |-> slave'[obi_cnt_q' + 1 - k].t.we]
<1>. DEFINE granted == IF gnt THEN obi_req(req) ELSE {}
            n   == Taken(rvalid)
            up  == IF granted = {} THEN 0 ELSE 1
            cnt == obi_cnt_q - n + up
            Entry(h) == [gnterr |-> h.err, store |-> h.t.we]
<1>1. ObiInv /\ InFlightFacts
  BY InFlightNow DEF Presents
<1>2. /\ fifo_q \in [0..DEPTH -> [gnterr : BOOLEAN, store : BOOLEAN]]
      /\ \A k \in 1..obi_cnt_q : fifo_q[k] = Entry(slave[obi_cnt_q + 1 - k])
      /\ gntpar_err_q \in BOOLEAN
  BY <1>1 DEF ObiInv, ObiTypeOK, RegistersInv
<1>3. /\ n <= Len(slave)
      /\ slave' \in Seq(Histories)
      /\ Len(slave') = Len(slave) - n + (IF gnt /\ obi_req(req) # {} THEN 1 ELSE 0)
      /\ \A i \in 1..(Len(slave) - n) : slave'[i] = slave[i + n]
      /\ gnt /\ obi_req(req) # {} =>
           LET h == slave'[Len(slave) - n + 1]
           IN  obi_req(req) = {h.t} /\ h.err = (err \/ gntpar_err_q)
  BY SlaveStep
<1>4. /\ obi_cnt_q \in Nat /\ n \in {0, 1} /\ n <= obi_cnt_q /\ obi_cnt_q <= DEPTH
      /\ cnt <= DEPTH
      /\ Len(slave') = cnt /\ slave' \in Seq(Histories)
      /\ \A i \in 1..(obi_cnt_q - n) : slave'[i] = slave[i + n]
      /\ granted # {} => LET h == slave'[obi_cnt_q - n + 1]
                         IN  granted = {h.t} /\ h.err = (err \/ gntpar_err_q)
  <2>1. n \in {0, 1}
    BY DEF Taken
  <2>2. Len(slave) = obi_cnt_q /\ obi_cnt_q \in Nat /\ obi_cnt_q <= bus_cnt_q /\ bus_cnt_q \in Nat
        /\ bus_cnt_q <= DEPTH /\ bus_cnt_q = obi_cnt_q + (IF wbuf = {} THEN 0 ELSE 1)
    BY <1>1 DEF InFlightFacts
  <2>3. granted # {} => wbuf # {} \/ Room
    BY <1>1, Signals DEF Presents
  <2>4. granted # {} => obi_cnt_q < DEPTH
    BY <2>2, <2>3, DataObiParameters DEF Room
  <2>5. obi_cnt_q - n + up <= DEPTH
    BY <2>1, <2>2, <2>4, DataObiParameters
  <2>. QED
    BY <1>3, <2>1, <2>2, <2>5, DataObiParameters
<1>5. fifo_q' = fifo_n(granted, err) /\ obi_cnt_q' = Count(obi_cnt_q, granted # {}, rvalid)
  BY DEF Presents, ObiClock
<1>6. obi_cnt_q' = cnt
  BY <1>4, <1>5 DEF Count, Taken
<1>. HIDE DEF n, granted
<1>7. ASSUME granted = {}
      PROVE  \A k \in 1..cnt : fifo_q'[k] = Entry(slave'[cnt + 1 - k])
  <2>. TAKE k \in 1..cnt
  <2>1. /\ cnt + 1 - k \in 1..(obi_cnt_q - n) /\ cnt + 1 - k + n = obi_cnt_q + 1 - k
        /\ k \in 1..obi_cnt_q
    BY <1>4, <1>7
  <2>2. slave'[cnt + 1 - k] = slave[obi_cnt_q + 1 - k]
    BY <1>4, <2>1
  <2>3. fifo_q' = fifo_q
    BY <1>5, <1>7 DEF fifo_n
  <2>. QED
    BY <1>2, <2>1, <2>2, <2>3
<1>8. ASSUME granted # {}
      PROVE  /\ fifo_q' \in [0..DEPTH -> [gnterr : BOOLEAN, store : BOOLEAN]]
             /\ \A k \in 1..cnt : fifo_q'[k] = Entry(slave'[cnt + 1 - k])
  <2>. DEFINE h == slave'[obi_cnt_q - n + 1]
              e == [gnterr |-> err \/ gntpar_err_q, store |-> h.t.we]
  <2>1. granted = {h.t} /\ h.err = (err \/ gntpar_err_q) /\ h \in Histories
    <3>1. obi_cnt_q - n + 1 \in 1..Len(slave')
      BY <1>4, <1>8
    <3>2. h \in Histories
      BY <1>4, <3>1, ElementOfSeq
    <3>. QED
      BY <1>4, <1>8, <3>2
  <2>. HIDE DEF h
  <2>2. Members(granted)[1] = h.t
    <3>1. Members(granted) = <<h.t>>
      BY <2>1, MembersOf, Zenon
    <3>. QED
      BY <3>1
  <2>3. fifo_q' = Shift(fifo_q, e, NoError)
    BY <1>5, <1>8, <2>2 DEF fifo_n
  <2>4. e \in [gnterr : BOOLEAN, store : BOOLEAN] /\ NoError \in [gnterr : BOOLEAN, store : BOOLEAN]
    BY <1>2, <2>1, DataObiParameters DEF NoError, Histories
  <2>5. e = Entry(h)
    BY <2>1
  <2>. HIDE DEF e
  <2>6. fifo_q' \in [0..DEPTH -> [gnterr : BOOLEAN, store : BOOLEAN]]
    BY <1>2, <2>3, <2>4, ShiftType
  <2>7. fifo_q'[1] = e /\ \A k \in 2..DEPTH : fifo_q'[k] = fifo_q[k - 1]
    BY <2>3, ShiftAt
  <2>8. ASSUME NEW k \in 1..cnt
        PROVE  fifo_q'[k] = Entry(slave'[cnt + 1 - k])
    <3>1. CASE k = 1
      <4>1. cnt + 1 - k = obi_cnt_q - n + 1
        BY <1>4, <1>8, <3>1
      <4>. QED
        BY <2>5, <2>7, <3>1, <4>1 DEF h
    <3>2. CASE k # 1
      <4>1. /\ k \in 2..DEPTH /\ k - 1 \in 1..obi_cnt_q
            /\ cnt + 1 - k \in 1..(obi_cnt_q - n)
            /\ cnt + 1 - k + n = obi_cnt_q + 1 - (k - 1)
        BY <1>4, <1>8, <2>8, <3>2, DataObiParameters
      <4>2. slave'[cnt + 1 - k] = slave[obi_cnt_q + 1 - (k - 1)]
        BY <1>4, <4>1
      <4>. QED
        BY <1>2, <2>7, <4>1, <4>2
    <3>. QED
      BY <3>1, <3>2
  <2>. QED
    BY <2>6, <2>8
<1>9. granted = {} => fifo_q' = fifo_q
  BY <1>5 DEF fifo_n
<1>. QED
  BY <1>2, <1>4, <1>6, <1>7, <1>8, <1>9

(* A request that waits keeps its place and its parity error.               *)
LEMMA StalledStep ==
  ASSUME NEW req, NEW gnt \in BOOLEAN, NEW err \in BOOLEAN, NEW rvalid \in BOOLEAN,
         Presents(req, gnt, err, rvalid)
  PROVE  StalledInv' /\ gntpar_err_q' \in BOOLEAN
<1>. DEFINE sent  == obi_req(req)
            phase == {[t |-> t, err |-> err \/ \E s \in stalled : s.t = t /\ s.err] : t \in sent}
            e     == err \/ gntpar_err_q
<1>1. ObiInv /\ IsTransfers(req)
  BY DEF Presents
<1>2. gntpar_err_q \in BOOLEAN /\ (stalled = {} => ~gntpar_err_q)
  BY <1>1 DEF ObiInv, ObiTypeOK, StalledInv
<1>3. /\ gntpar_err_q' = gntpar_err_n(req, gnt, err)
      /\ stalled' = IF gnt THEN {} ELSE phase
      /\ wbuf' = wbuf_n(req, gnt)
      /\ waiting' = req \ Accepted(req, gnt)
      /\ bus_cnt_q' = Count(bus_cnt_q, Accepted(req, gnt) # {}, rvalid)
  BY DEF Presents, ObiClock
<1>4. gntpar_err_q' \in BOOLEAN
  BY <1>2, <1>3 DEF gntpar_err_n
<1>5. CASE sent = {}
  <2>1. stalled' = {}
    BY <1>3, <1>5
  <2>2. ~gntpar_err_q'
    BY <1>2, <1>3, <1>5, PhaseIs DEF gntpar_err_n
  <2>. QED
    BY <1>4, <2>1, <2>2 DEF StalledInv
<1>6. CASE sent # {} /\ gnt
  BY <1>3, <1>4, <1>6 DEF gntpar_err_n, StalledInv
<1>7. CASE sent # {} /\ ~gnt
  <2>1. PICK t \in Transfers : sent = {t}
    <3>1. IsTransfers(sent)
      BY <1>1, Signals
    <3>. QED
      BY <1>7, <3>1 DEF IsTransfers, AtMostOne
  <2>2. phase = {[t |-> t, err |-> e]}
    BY <2>1, PhaseIs
  <2>3. gntpar_err_q' = e
    BY <1>3, <1>7 DEF gntpar_err_n
  <2>4. stalled' = {[t |-> t, err |-> gntpar_err_q']}
    BY <1>3, <1>7, <2>2, <2>3
  <2>5. CASE wbuf # {}
    <3>1. wbuf' = {t}
      BY <1>1, <1>3, <1>7, <2>1, <2>5, Signals
    <3>. QED
      BY <1>4, <2>4, <3>1 DEF StalledInv
  <2>6. CASE wbuf = {}
    <3>1. req = {t} /\ Room
      BY <1>1, <1>7, <2>1, <2>6, Signals
    <3>2. wbuf' = Accepted(req, gnt)
      BY <1>1, <1>3, <1>7, <2>6, Signals
    <3>3. Accepted(req, gnt) = {} \/ Accepted(req, gnt) = {t}
      BY <1>1, <3>1, Signals
    <3>4. CASE Accepted(req, gnt) = {t}
      BY <1>4, <2>4, <3>2, <3>4 DEF StalledInv
    <3>5. CASE Accepted(req, gnt) = {}
      <4>1. wbuf' = {} /\ waiting' = {t}
        BY <1>3, <3>1, <3>2, <3>5
      <4>2. bus_cnt_q' = bus_cnt_q \/ bus_cnt_q' = bus_cnt_q - 1
        BY <1>1, <1>3, <3>5, InFlightNow DEF Count, InFlightFacts
      <4>3. Room'
        BY <1>1, <3>1, <4>2, InFlightNow, DataObiParameters DEF Room, InFlightFacts
      <4>. QED
        BY <1>4, <2>4, <4>1, <4>3 DEF StalledInv
    <3>. QED
      BY <3>3, <3>4, <3>5
  <2>. QED
    BY <2>5, <2>6
<1>. QED
  BY <1>5, <1>6, <1>7

(* The invariant of the bus side: whoever drives it, as long as a request   *)
(* that waits is presented again.                                           *)
LEMMA ObiInvStep ==
  ASSUME NEW req, NEW gnt \in BOOLEAN, NEW err \in BOOLEAN, NEW rvalid \in BOOLEAN,
         Presents(req, gnt, err, rvalid)
  PROVE  ObiInv'
<1>1. QueuesMove(rvalid, resp_valid_o(rvalid), Accepted(req, gnt))
  BY QueuesStep
<1>2. IsTransfers(wbuf')
  <2>1. ObiInv /\ IsTransfers(req) /\ wbuf' = wbuf_n(req, gnt)
    BY DEF Presents, ObiClock
  <2>. QED
    BY <2>1, Signals
<1>3. slave' \in Seq(Histories)
  BY SlaveStep
<1>4. owed' \in Seq(Transfers)
  BY <1>1 DEF QueuesMove
<1>5. ObiTypeOK'
  BY <1>2, <1>3, <1>4, OutstandingStep, FifoStep, StalledStep
     DEF ObiTypeOK, IsTransfers, AtMostOne
<1>6. CountsAgree' /\ bus_cnt_q' <= DEPTH
  BY <1>1, FifoStep DEF QueuesMove, CountsAgree
<1>7. RegistersInv'
  BY <1>6, OutstandingStep, FifoStep DEF RegistersInv
<1>. QED
  BY <1>5, <1>7, EarlyStep, StalledStep DEF ObiInv

LEMMA ObiInvInit == ObiInit => ObiInv
<1>. SUFFICES ASSUME ObiInit PROVE ObiInv
  OBVIOUS
<1>1. /\ bus_cnt_q = 0 /\ core_cnt_q = 0 /\ obi_cnt_q = 0
      /\ outstanding_q = [k \in 0..DEPTH |-> TiedOff]
      /\ fifo_q = [k \in 0..DEPTH |-> NoError]
      /\ wbuf = {} /\ gntpar_err_q = FALSE
      /\ slave = <<>> /\ stalled = {} /\ owed = <<>> /\ waiting = {}
  BY DEF ObiInit
<1>2. slave \in Seq(Histories) /\ owed \in Seq(Transfers) /\ IsTransfers(wbuf)
  BY <1>1 DEF IsTransfers, AtMostOne
<1>3. ObiTypeOK
  BY <1>1, <1>2 DEF ObiTypeOK, TiedOff, NoError
<1>4. Len(BusQueue) = 0
  <2>1. BusQueue = Joined(slave, wbuf)
    BY DEF BusQueue, SlaveQueue, Joined
  <2>2. Len(Joined(slave, wbuf)) = Len(slave) + (IF wbuf = {} THEN 0 ELSE 1)
    BY <1>2, JoinedQueue
  <2>. QED
    BY <1>1, <2>1, <2>2
<1>5. RegistersInv
  BY <1>1, <1>4, DataObiParameters DEF RegistersInv, CountsAgree
<1>. QED
  BY <1>1, <1>3, <1>5 DEF ObiInv, EarlyInv, StalledInv

-----------------------------------------------------------------------------
(* What follows from it.                                                    *)
LEMMA Fronts ==
  ASSUME NEW S, NEW q \in Seq(S), q # <<>>
  PROVE  Head(q) = q[1] /\ Len(q) > 0 /\ Len(Tail(q)) = Len(q) - 1
BY HeadTailProperties, EmptySeq, LenProperties

LEMMA BlameFollows == ASSUME ObiInv PROVE BlameIsRight
<1>. SUFFICES ASSUME slave # <<>>
              PROVE  /\ err_is_store = Head(slave).t.we
                     /\ resp_is_store = Head(slave).t.we
                     /\ gntpar_err_resp_o = Head(slave).err
  BY DEF BlameIsRight
<1>1. InFlightFacts
  BY InFlightNow
<1>2. slave \in Seq(Histories) /\ RegistersInv
  BY DEF ObiInv, ObiTypeOK
<1>3. Head(slave) = slave[1]
  BY <1>2, Fronts
<1>4. /\ bus_cnt_q \in 1..bus_cnt_q /\ bus_cnt_q + 1 - bus_cnt_q = 1
      /\ obi_cnt_q \in 1..obi_cnt_q /\ obi_cnt_q + 1 - obi_cnt_q = 1
      /\ 1 \in 1..obi_cnt_q
  BY <1>1 DEF InFlightFacts
<1>5. BusQueue[1] = slave[1].t
  BY <1>1, <1>4 DEF InFlightFacts
<1>6. outstanding_q[bus_cnt_q] = Attributes(slave[1].t)
  BY <1>2, <1>4, <1>5, Zenon DEF RegistersInv
<1>7. fifo_q[obi_cnt_q] = [gnterr |-> slave[1].err, store |-> slave[1].t.we]
  BY <1>2, <1>4, Zenon DEF RegistersInv
<1>8. err_is_store = slave[1].t.we
  BY <1>6, AttributesOf DEF err_is_store
<1>9. resp_is_store = slave[1].t.we /\ gntpar_err_resp_o = slave[1].err
  BY <1>7 DEF resp_is_store, gntpar_err_resp_o
<1>. QED
  BY <1>3, <1>8, <1>9

(* A cycle of the three buffers is a cycle of the in-order port.            *)
LEMMA PortStep ==
  ASSUME NEW req, NEW gnt \in BOOLEAN, NEW err \in BOOLEAN, NEW rvalid \in BOOLEAN,
         Presents(req, gnt, err, rvalid)
  PROVE  Port!Next
<1>. DEFINE acc    == Accepted(req, gnt)
            issue  == Members(acc)
            answer == resp_valid_o(rvalid)
<1>1. ObiInv /\ InFlightFacts /\ (rvalid => slave # <<>>) /\ IsTransfers(req)
  BY InFlightNow DEF Presents, ObiClock
<1>2. IsTransfers(acc) /\ (acc = {} \/ Room)
  BY <1>1, Signals
<1>3. issue \in Pushes(Transfers) /\ (issue = <<>> <=> acc = {})
  BY <1>2, MembersPushes DEF IsTransfers, AtMostOne
<1>4. /\ answer \in BOOLEAN
      /\ answer => /\ owed # <<>> /\ core_cnt_q > 0
                   /\ owed[1].bufferable \/ (rvalid /\ core_cnt_q = bus_cnt_q)
      /\ rvalid /\ ~BusQueue[1].bufferable => answer
  BY <1>1, Answers
<1>5. /\ BusQueue \in Seq(Transfers)
      /\ rvalid => BusQueue # <<>>
      /\ BusQueue' = Stepped(BusQueue, rvalid, issue)
  BY BusStep
<1>6. owed \in Seq(Transfers) /\ owed' = Stepped(owed, answer, issue)
  BY <1>1, OwedStep DEF ObiInv, ObiTypeOK
<1>. HIDE DEF issue, answer, acc
<1>7. issue # <<>> => Len(BusQueue) < DEPTH
  BY <1>1, <1>2, <1>3 DEF InFlightFacts, Room
<1>8. answer => Head(owed).bufferable \/ Len(owed) > Len(Port!Less(BusQueue, rvalid))
  <2>. SUFFICES ASSUME answer, ~Head(owed).bufferable
                PROVE  Len(owed) > Len(Port!Less(BusQueue, rvalid))
    OBVIOUS
  <2>1. Head(owed) = owed[1]
    BY <1>4, <1>6, Fronts
  <2>2. rvalid /\ core_cnt_q = bus_cnt_q
    BY <1>4, <2>1
  <2>3. Len(Tail(BusQueue)) = Len(BusQueue) - 1
    BY <1>5, <2>2, Fronts
  <2>. QED
    BY <1>1, <2>2, <2>3 DEF Port!Less, InFlightFacts
<1>9. rvalid /\ ~Head(BusQueue).bufferable => answer
  BY <1>4, <1>5, Fronts
<1>10. /\ BusQueue' = Port!Less(BusQueue, rvalid) \o issue
       /\ owed' = Port!Less(owed, answer) \o issue
  BY <1>5, <1>6 DEF Port!Less, Stepped, Popped
<1>11. Port!Clock(issue, rvalid, answer)
  BY <1>4, <1>5, <1>7, <1>8, <1>9, <1>10 DEF Port!Clock
<1>. QED
  BY <1>3, <1>4, <1>11 DEF Port!Next, Pushes

-----------------------------------------------------------------------------
(* The bus side on its own: the core holds a request that waits, and        *)
(* presents at most one.                                                    *)
AloneInv == ObiInv /\ IsTransfers(waiting)

LEMMA AlonePresents ==
  ASSUME AloneInv, NEW gnt \in BOOLEAN, NEW rvalid \in BOOLEAN, Clock(gnt, rvalid)
  PROVE  \E req \in SUBSET Transfers, err \in BOOLEAN : Presents(req, gnt, err, rvalid)
<1>1. PICK req \in Requests, err \in BOOLEAN : ObiClock(req, gnt, err, rvalid)
  BY DEF Clock
<1>2. IsTransfers(req) /\ waiting \subseteq req /\ req \in SUBSET Transfers
  BY DEF Requests, AloneInv, IsTransfers, AtMostOne
<1>. QED
  BY <1>1, <1>2 DEF Presents, AloneInv

LEMMA AloneStep ==
  ASSUME AloneInv, ObiNext
  PROVE  AloneInv' /\ Port!Next
<1>1. PICK gnt \in BOOLEAN, rvalid \in BOOLEAN : Clock(gnt, rvalid)
  BY DEF ObiNext
<1>2. PICK req \in SUBSET Transfers, err \in BOOLEAN : Presents(req, gnt, err, rvalid)
  BY <1>1, AlonePresents
<1>3. IsTransfers(req) /\ waiting' = req \ Accepted(req, gnt)
  BY <1>2 DEF Presents, ObiClock
<1>4. IsTransfers(waiting')
  BY <1>3 DEF IsTransfers, AtMostOne
<1>. QED
  BY <1>2, <1>4, ObiInvStep, PortStep DEF AloneInv

LEMMA Idles ==
  ASSUME UNCHANGED obiVars
  PROVE  /\ ObiInv => ObiInv'
         /\ UNCHANGED <<BusQueue, owed>>
<1>1. BusQueue' = BusQueue
  BY DEF obiVars, BusQueue, SlaveQueue
<1>2. ObiTypeOK' = ObiTypeOK /\ EarlyInv' = EarlyInv /\ StalledInv' = StalledInv
  BY <1>1 DEF obiVars, ObiTypeOK, EarlyInv, StalledInv, Room
<1>3. RegistersInv' = RegistersInv
  BY <1>1 DEF obiVars, RegistersInv, CountsAgree
<1>. QED
  BY <1>1, <1>2, <1>3 DEF ObiInv, obiVars

LEMMA PortStarts == ObiInit => Port!Init
<1>. SUFFICES ASSUME ObiInit PROVE Port!Init
  OBVIOUS
<1>1. slave = <<>> /\ wbuf = {} /\ owed = <<>> /\ slave \in Seq(Histories) /\ IsTransfers(wbuf)
  BY DEF ObiInit, IsTransfers, AtMostOne
<1>2. /\ Joined(slave, wbuf) \in Seq(Transfers)
      /\ Len(Joined(slave, wbuf)) = Len(slave) + (IF wbuf = {} THEN 0 ELSE 1)
  BY <1>1, JoinedQueue
<1>3. Joined(slave, wbuf) = <<>>
  BY <1>1, <1>2, EmptySeq
<1>4. BusQueue = Joined(slave, wbuf)
  BY DEF BusQueue, SlaveQueue, Joined
<1>. QED
  BY <1>1, <1>3, <1>4 DEF Port!Init

LEMMA AloneInvariant == ObiSpec => []AloneInv
<1>1. ObiInit => AloneInv
  BY ObiInvInit DEF ObiInit, AloneInv, IsTransfers, AtMostOne
<1>2. AloneInv /\ [ObiNext]_obiVars => AloneInv'
  <2>1. AloneInv /\ UNCHANGED obiVars => AloneInv'
    BY Idles DEF AloneInv, obiVars, IsTransfers, AtMostOne
  <2>. QED
    BY <2>1, AloneStep
<1>. QED
  BY <1>1, <1>2, PTL DEF ObiSpec

(* The response filter, the write buffer and the OBI interface agree on     *)
(* what is in flight, for any number of transfers and every order of grants *)
(* and answers: their counters are exact and the core's is never more than  *)
(* the bus's (cv32e40s_lsu_response_filter.sv, cv32e40s_data_obi_interface).*)
THEOREM BusCounts == ObiSpec => []CountsAgree
<1>1. AloneInv => CountsAgree
  BY DEF AloneInv, ObiInv, RegistersInv
<1>. QED
  BY <1>1, AloneInvariant, PTL

(* An error that comes with an answer of the bus, or that the parity of a   *)
(* grant showed while the request waited, is charged to the transfer it     *)
(* belongs to, also when that store was answered early.                     *)
THEOREM BusBlame == ObiSpec => []BlameIsRight
<1>1. AloneInv => BlameIsRight
  BY BlameFollows DEF AloneInv
<1>. QED
  BY <1>1, AloneInvariant, PTL

(* The three together are an in-order memory port: transfers are performed  *)
(* in the order of their issue and answered in that order, only bufferable  *)
(* stores before they are performed.                                        *)
THEOREM BusIsAPort == ObiSpec => PortSpec
<1>1. ObiInit => Port!Init
  BY PortStarts
<1>2. AloneInv /\ [ObiNext]_obiVars => [Port!Next]_<<BusQueue, owed>>
  BY AloneStep, Idles
<1>. QED
  BY <1>1, <1>2, AloneInvariant, PTL DEF ObiSpec, PortSpec, Port!Spec

-----------------------------------------------------------------------------
(* The load/store unit in front of it.                                      *)
LsuTypeOK ==
  /\ ex \in Offers /\ split_q \in BOOLEAN /\ issued \in BOOLEAN
  /\ trans_valid_q \in BOOLEAN
  /\ wb \in {"bubble", "other", "lsu"}
  /\ ctrl \in {"FUNCTIONAL", "DEBUG_TAKEN", "FLUSH"}
  /\ wpt_state \in {"IDLE", "MATCH_WAIT", "MATCH_RESP"}
  /\ mpu_state \in {"IDLE", "ERR_WAIT", "ERR_RESP"}
  /\ due \in Seq(Transfers)
  /\ split_q => ExIsLsu /\ Len(ex.xs) = 2

GateClass == IF wpt_state # "IDLE" THEN "WPT" ELSE "FAULT"
GatesIdle == wpt_state = "IDLE" /\ mpu_state = "IDLE"
Holding   == wpt_state = "MATCH_WAIT" \/ mpu_state = "ERR_WAIT"
Answering == wpt_state = "MATCH_RESP" \/ mpu_state = "ERR_RESP"

(* What the core waits for: the bus's transfers, then the one a gate holds. *)
GatesInv ==
  /\ wpt_state = "IDLE" \/ mpu_state = "IDLE"
  /\ \A i \in DOMAIN BusQueue : BusQueue[i].class = "OK"
  /\ GatesIdle => due = owed
  /\ Holding => /\ Len(owed) = 1 /\ Len(due) = 2
                /\ due[1] = owed[1] /\ due[2].class = GateClass
  /\ Answering => /\ owed = <<>> /\ Len(due) = 1 /\ due[1].class = GateClass
                  /\ ~trans_valid_q

(* A request in EX keeps its place: the instruction before it is a load or  *)
(* store that goes without trouble, and the controller lets both be.        *)
StagesInv ==
  /\ cnt_q = Len(due) /\ cnt_q \in 0..2
  /\ cnt_q # 0 => wb = "lsu" /\ ctrl = "FUNCTIONAL"
  /\ wb_status_q # "none" => ctrl = "DEBUG_TAKEN"
  /\ trans_valid_q => ExIsLsu /\ wb # "other" /\ ctrl = "FUNCTIONAL"
  /\ issued <=> cnt_q = 2
  /\ issued => trans_valid_q /\ due[2] = Transfer
  /\ waiting # {} => /\ waiting = {Transfer} /\ Transfer.class = "OK"
                     /\ trans_valid_q /\ cnt_q # 2 /\ GatesIdle
  /\ split_q => trans_valid_q \/ (cnt_q = 1 /\ due[1] = ex.xs[1])

LsuInv == LsuTypeOK /\ GatesInv /\ StagesInv

(* What the controller can do while a transfer is outstanding or a request  *)
(* is being presented.                                                      *)
Decided(ev) ==
  /\ trans_valid_q => valid_0_i(ev)
  /\ cnt_q # 0 => ev = "none" /\ ~kill_wb(ev)
  /\ Answering => ~valid_0_i(ev)
  /\ cnt_q # 0 /\ ~Answering =>
       ~halt_ex(ev) /\ ~kill_ex(ev) /\ ~halt_wb(ev) /\ ctrl_n(ev) = "FUNCTIONAL"
  /\ valid_0_i(ev) => /\ ExIsLsu /\ ~halt_ex(ev) /\ ~kill_ex(ev)
                      /\ ~halt_wb(ev) /\ ~kill_wb(ev) /\ ctrl_n(ev) = "FUNCTIONAL"
  /\ halt_wb(ev) /\ wb # "other" => ctrl_n(ev) = "DEBUG_TAKEN"
  /\ ctrl = "DEBUG_TAKEN" => kill_wb(ev)

LEMMA Decides ==
  ASSUME LsuInv, NEW ev \in Events
  PROVE  Decided(ev)
<1>1. /\ wpt_state = "IDLE" \/ mpu_state = "IDLE"
      /\ Answering => ~trans_valid_q /\ cnt_q # 0
      /\ cnt_q # 0 => wb = "lsu" /\ ctrl = "FUNCTIONAL"
      /\ wb_status_q # "none" => ctrl = "DEBUG_TAKEN"
      /\ trans_valid_q => ExIsLsu /\ wb # "other" /\ ctrl = "FUNCTIONAL"
  BY DEF LsuInv, GatesInv, StagesInv
<1>2. /\ ctrl # "FUNCTIONAL" => ev = "none"
      /\ ev \in {"kill_all", "debug"} => ~trans_valid_q /\ cnt_q = 0
      /\ ev \in {"stall", "flush", "fence", "kill"} => wb = "other"
      /\ ev \in {"none", "kill_all", "debug", "stall", "flush", "fence", "kill"}
  BY DEF Events, interruptible_o
<1>3. ctrl = "FUNCTIONAL" /\ wpt_state # "MATCH_RESP" => ~trigger_match_in_wb
  BY <1>1 DEF trigger_match_in_wb, WbStatus, Status, mpu_status
<1>4. ctrl = "FUNCTIONAL" /\ mpu_state # "ERR_RESP" => ~exception_in_wb
  BY <1>1 DEF exception_in_wb, WbStatus, Status, mpu_status
<1>5. ctrl = "FUNCTIONAL" /\ wb # "bubble" =>
        /\ wpt_state = "MATCH_RESP" => trigger_match_in_wb
        /\ mpu_state = "ERR_RESP" /\ wpt_state # "MATCH_RESP" => exception_in_wb
  BY <1>1 DEF trigger_match_in_wb, exception_in_wb, WbStatus, Status, mpu_status
<1>6. valid_0_i(ev) <=> ExIsLsu /\ ~halt_ex(ev) /\ ~kill_ex(ev)
  BY DEF valid_0_i
<1>7. /\ halt_all(ev) => halt_wb(ev)
      /\ halt_wb(ev) => halt_ex(ev)
      /\ ev = "flush" => halt_ex(ev)
      /\ kill_wb(ev) => kill_ex(ev)
      /\ halt_wb(ev) /\ ~halt_all(ev) => ev = "fence"
      /\ ctrl_n(ev) = IF halt_all(ev) THEN "DEBUG_TAKEN" ELSE IF ev = "flush" THEN "FLUSH" ELSE "FUNCTIONAL"
      /\ kill_wb(ev) <=> ctrl = "DEBUG_TAKEN" \/ ev = "kill_all"
  BY DEF halt_wb, halt_ex, kill_ex, kill_wb, ctrl_n
<1>8. ev = "none" /\ ctrl = "FUNCTIONAL" =>
        /\ halt_ex(ev) <=> trigger_match_in_wb
        /\ kill_ex(ev) <=> ~trigger_match_in_wb /\ exception_in_wb
  BY DEF halt_ex, halt_wb, halt_all, kill_ex, kill_wb, Quiet
<1>9. trans_valid_q => valid_0_i(ev)
  BY <1>1, <1>2, <1>3, <1>4, <1>6, <1>8 DEF Answering
<1>10. cnt_q # 0 => ev = "none" /\ ~kill_wb(ev)
  BY <1>1, <1>2, <1>7
<1>11. Answering => ~valid_0_i(ev)
  BY <1>1, <1>2, <1>5, <1>6, <1>8 DEF Answering
<1>12. cnt_q # 0 /\ ~Answering =>
         ~halt_ex(ev) /\ ~kill_ex(ev) /\ ~halt_wb(ev) /\ ctrl_n(ev) = "FUNCTIONAL"
  BY <1>1, <1>3, <1>4, <1>7, <1>8, <1>10 DEF Answering
<1>. QED
  BY <1>2, <1>6, <1>7, <1>9, <1>10, <1>11, <1>12 DEF Decided

(* What EX requests, and what becomes of it: a gate takes it, the bus side  *)
(* accepts it, or it waits.                                                 *)
Requested(ev, gnt) ==
  /\ IsTransfers(bus_req(ev)) /\ waiting \subseteq bus_req(ev)
  /\ ExIsLsu => Transfer \in Transfers
  /\ count_up(ev, gnt) => /\ valid_0_i(ev) /\ cnt_q # 2 /\ GatesIdle
                          /\ trans_valid(ev) /\ ExIsLsu
  /\ Caught(ev) => count_up(ev, gnt) /\ Transfer.class = "WPT" /\ ~Faulting(ev)
  /\ Faulting(ev) => count_up(ev, gnt) /\ Transfer.class = "FAULT"
  /\ Caught(ev) \/ Faulting(ev) \/ ~count_up(ev, gnt) => Accepted(bus_req(ev), gnt) = {}
  /\ count_up(ev, gnt) /\ ~Caught(ev) /\ ~Faulting(ev) =>
       Accepted(bus_req(ev), gnt) = {Transfer} /\ Transfer.class = "OK"
  /\ bus_req(ev) # {} => /\ trans_valid(ev) /\ valid_0_i(ev) /\ cnt_q # 2 /\ GatesIdle
                         /\ ~Caught(ev) /\ ~Faulting(ev)
                         /\ bus_req(ev) = {Transfer} /\ Transfer.class = "OK"

LEMMA TransferIs ==
  ASSUME LsuTypeOK, ExIsLsu
  PROVE  /\ Transfer \in Transfers /\ Transfer.class \in {"OK", "FAULT", "WPT"}
         /\ ex.xs \in Instructions
<1>1. ex.xs \in Instructions
  BY DEF LsuTypeOK, ExIsLsu, Offers
<1>2. ex.xs \in Seq(Transfers) /\ ex.xs # <<>>
  BY <1>1, LoadStoreParameters
<1>3. Len(ex.xs) \in Nat \ {0} /\ \A i \in 1..Len(ex.xs) : ex.xs[i] \in Transfers
  BY <1>2, EmptySeq, LenProperties, ElementOfSeq
<1>4. split_q => Len(ex.xs) = 2
  BY DEF LsuTypeOK
<1>5. Transfer \in Transfers
  BY <1>3, <1>4 DEF Transfer
<1>. QED
  BY <1>1, <1>5, LoadStoreParameters

LEMMA Requests0 ==
  ASSUME ObiInv, LsuInv, NEW ev \in Events, NEW gnt \in BOOLEAN
  PROVE  Requested(ev, gnt)
<1>1. /\ LsuTypeOK /\ DEPTH = 2 /\ cnt_q \in 0..2
      /\ Holding => cnt_q = 2
      /\ Answering => ~valid_0_i(ev)
      /\ trans_valid_q => valid_0_i(ev)
      /\ valid_0_i(ev) => ExIsLsu
      /\ waiting # {} => /\ waiting = {Transfer} /\ Transfer.class = "OK"
                         /\ trans_valid_q /\ cnt_q # 2 /\ GatesIdle
  BY Decides, LoadStoreParameters DEF LsuInv, GatesInv, StagesInv, Decided
<1>2. ExIsLsu => Transfer \in Transfers /\ Transfer.class \in {"OK", "FAULT", "WPT"}
  BY <1>1, TransferIs
<1>3. trans_valid(ev) => valid_0_i(ev) /\ cnt_q # 2 /\ GatesIdle /\ ExIsLsu
  BY <1>1 DEF trans_valid, Holding, Answering, GatesIdle, LsuTypeOK
<1>4. valid_0_i(ev) /\ cnt_q # 2 => trans_valid(ev)
  BY <1>1 DEF trans_valid
<1>5. /\ Caught(ev) <=> trans_valid(ev) /\ Transfer.class = "WPT"
      /\ Faulting(ev) <=> trans_valid(ev) /\ Transfer.class = "FAULT"
  BY <1>3 DEF Caught, Faulting, mpu_trans_valid, GatesIdle
<1>6. bus_req(ev) = IF trans_valid(ev) /\ ~Caught(ev) /\ ~Faulting(ev) THEN {Transfer} ELSE {}
  BY <1>3, <1>5 DEF bus_req, mpu_trans_valid, GatesIdle
<1>7. count_up(ev, gnt) <=>
        trans_valid(ev) /\ (Caught(ev) \/ Faulting(ev) \/ filter_ready_o(gnt))
  BY <1>3, <1>5 DEF count_up, trans_ready, GatesIdle
<1>8. Accepted(bus_req(ev), gnt) =
        IF bus_req(ev) # {} /\ filter_ready_o(gnt) THEN {Transfer} ELSE {}
  <2>1. CASE bus_req(ev) = {}
    BY <2>1 DEF Accepted, filter_valid_o
  <2>2. CASE bus_req(ev) = {Transfer}
    BY <2>2 DEF Accepted, filter_valid_o, filter_ready_o
  <2>. QED
    BY <1>6, <2>1, <2>2
<1>9. IsTransfers(bus_req(ev))
  BY <1>2, <1>3, <1>6 DEF IsTransfers, AtMostOne
<1>10. bus_req(ev) # {} => /\ trans_valid(ev) /\ ~Caught(ev) /\ ~Faulting(ev)
                           /\ bus_req(ev) = {Transfer} /\ Transfer.class = "OK"
  BY <1>2, <1>3, <1>5, <1>6
<1>11. waiting \subseteq bus_req(ev)
  BY <1>1, <1>4, <1>5, <1>6
<1>12. count_up(ev, gnt) => trans_valid(ev)
  BY <1>7
<1>13. Caught(ev) => count_up(ev, gnt) /\ Transfer.class = "WPT" /\ ~Faulting(ev)
  BY <1>5, <1>7
<1>14. Faulting(ev) => count_up(ev, gnt) /\ Transfer.class = "FAULT"
  BY <1>5, <1>7
<1>15. Caught(ev) \/ Faulting(ev) \/ ~count_up(ev, gnt) => Accepted(bus_req(ev), gnt) = {}
  BY <1>6, <1>7, <1>8
<1>16. count_up(ev, gnt) /\ ~Caught(ev) /\ ~Faulting(ev) =>
         Accepted(bus_req(ev), gnt) = {Transfer} /\ Transfer.class = "OK"
  BY <1>6, <1>7, <1>8, <1>10
<1>. QED
  BY <1>2, <1>3, <1>9, <1>10, <1>11, <1>12, <1>13, <1>14, <1>15, <1>16 DEF Requested

(* Which transfer an answer is for: the oldest, whoever answers.            *)
Answered(rvalid) ==
  /\ resp_valid_o(rvalid) \in BOOLEAN /\ resp_valid(rvalid) \in BOOLEAN
  /\ resp_valid_o(rvalid) => owed # <<>>
  /\ resp_valid(rvalid) => due # <<>> /\ cnt_q # 0
  /\ ~Answering => resp_valid(rvalid) = resp_valid_o(rvalid) /\ Status = "OK"
  /\ Answering => resp_valid(rvalid) /\ ~resp_valid_o(rvalid) /\ Status = GateClass

LEMMA AnswersAre ==
  ASSUME ObiInv, LsuInv, NEW rvalid \in BOOLEAN, rvalid => slave # <<>>
  PROVE  Answered(rvalid)
<1>1. resp_valid_o(rvalid) \in BOOLEAN /\ (resp_valid_o(rvalid) => owed # <<>>)
  BY Answers
<1>2. resp_valid(rvalid) <=> resp_valid_o(rvalid) \/ Answering
  BY DEF resp_valid, mpu_resp_valid, Answering
<1>3. /\ wpt_state \in {"IDLE", "MATCH_WAIT", "MATCH_RESP"}
      /\ mpu_state \in {"IDLE", "ERR_WAIT", "ERR_RESP"}
      /\ wpt_state = "IDLE" \/ mpu_state = "IDLE"
      /\ GatesIdle => due = owed
      /\ Holding => Len(due) = 2
      /\ Answering => owed = <<>> /\ Len(due) = 1
      /\ due \in Seq(Transfers) /\ cnt_q = Len(due)
  BY DEF LsuInv, LsuTypeOK, GatesInv, StagesInv
<1>4. due = <<>> <=> cnt_q = 0
  BY <1>3, EmptySeq
<1>5. GatesIdle \/ Holding \/ Answering
  BY <1>3 DEF GatesIdle, Holding, Answering
<1>6. resp_valid(rvalid) => due # <<>>
  BY <1>1, <1>2, <1>3, <1>4, <1>5
<1>7. ~Answering => Status = "OK"
  BY DEF Status, mpu_status, Answering
<1>8. Answering => Status = GateClass
  BY <1>3 DEF Status, mpu_status, Answering, GateClass
<1>9. resp_valid(rvalid) \in BOOLEAN
  BY DEF resp_valid
<1>10. ~Answering => resp_valid(rvalid) = resp_valid_o(rvalid)
  BY <1>1, <1>2, <1>9
<1>11. Answering => resp_valid(rvalid) /\ ~resp_valid_o(rvalid)
  BY <1>1, <1>2, <1>3
<1>. QED
  BY <1>1, <1>4, <1>6, <1>7, <1>8, <1>9, <1>10, <1>11 DEF Answered

-----------------------------------------------------------------------------
(* One cycle of the whole.                                                  *)
Clocked(ev, gnt, rvalid) ==
  /\ ObiInv /\ LsuInv
  /\ ev \in Events /\ gnt \in BOOLEAN /\ rvalid \in BOOLEAN
  /\ Cycle(ev, gnt, rvalid)

(* The monitor's queue, and the count of the core, which is its length.     *)
DueMoves(ans, up) ==
  /\ due' \in Seq(Transfers) /\ cnt_q' = Len(due') /\ cnt_q' \in 0..2 /\ cnt_q \in 0..2
  /\ cnt_q' = cnt_q - Taken(ans) + (IF up THEN 1 ELSE 0)
  /\ Taken(ans) \in {0, 1} /\ Taken(ans) <= cnt_q
  /\ \A i \in 1..(cnt_q - Taken(ans)) : due'[i] = due[i + Taken(ans)]
  /\ up => due'[cnt_q - Taken(ans) + 1] = Transfer /\ ExIsLsu /\ Transfer \in Transfers

LEMMA DueStep ==
  ASSUME NEW ev, NEW gnt, NEW rvalid, Clocked(ev, gnt, rvalid)
  PROVE  /\ Presents(bus_req(ev), gnt, FALSE, rvalid)
         /\ Decided(ev) /\ Requested(ev, gnt) /\ Answered(rvalid)
         /\ DueMoves(resp_valid(rvalid), count_up(ev, gnt))
<1>. DEFINE up == count_up(ev, gnt)
            U  == IF up THEN {Transfer} ELSE {}
            r  == resp_valid(rvalid)
            n  == Taken(r)
            cnt == cnt_q
<1>1. /\ ObiInv /\ LsuInv /\ ev \in Events /\ gnt \in BOOLEAN /\ rvalid \in BOOLEAN
      /\ ObiClock(bus_req(ev), gnt, FALSE, rvalid)
      /\ cnt_q' = next_cnt(ev, gnt, rvalid)
      /\ due' = Popped(due, r /\ due # <<>>) \o (IF up THEN <<Transfer>> ELSE <<>>)
  BY DEF Clocked, Cycle
<1>2. rvalid => slave # <<>>
  BY <1>1 DEF ObiClock
<1>3. Decided(ev)
  BY <1>1, Decides
<1>4. Requested(ev, gnt)
  BY <1>1, Requests0
<1>5. Answered(rvalid)
  BY <1>1, <1>2, AnswersAre
<1>6. Presents(bus_req(ev), gnt, FALSE, rvalid)
  BY <1>1, <1>4 DEF Presents, Requested
<1>7. due \in Seq(Transfers) /\ Len(due) = cnt /\ cnt \in 0..2
  BY <1>1 DEF LsuInv, LsuTypeOK, StagesInv
<1>8. r \in BOOLEAN /\ (r => due # <<>>) /\ (r /\ due # <<>>) = r
  BY <1>5 DEF Answered
<1>9. up => cnt # 2 /\ Transfer \in Transfers /\ ExIsLsu
  BY <1>4 DEF Requested
<1>10. AtMostOne(Transfers, U)
  BY <1>9 DEF AtMostOne
<1>11. Members(U) = IF up THEN <<Transfer>> ELSE <<>>
  BY MembersOf, Zenon
<1>12. due' = Stepped(due, r, Members(U))
  BY <1>1, <1>8, <1>11 DEF Stepped
<1>13. IsStep(Transfers, Stepped(due, r, Members(U)), due, r, U)
  <2>. HIDE DEF U, r
  <2>. QED
    BY <1>7, <1>8, <1>10, SteppedAt
<1>14. IsStep(Transfers, due', due, r, U)
  BY <1>12, <1>13
<1>15. /\ n \in {0, 1} /\ n <= cnt
       /\ due' \in Seq(Transfers)
       /\ Len(due') = cnt - n + (IF U = {} THEN 0 ELSE 1)
       /\ \A i \in 1..(cnt - n) : due'[i] = due[i + n]
       /\ U # {} => U = {due'[cnt - n + 1]}
  BY <1>7, <1>14 DEF IsStep
<1>16. (U = {} <=> ~up) /\ (up => U = {Transfer})
  OBVIOUS
<1>17. next_cnt(ev, gnt, rvalid) = (IF up THEN cnt + 1 ELSE cnt) - n
  BY DEF next_cnt, Count, Taken
<1>. HIDE DEF n, up, cnt, U, r
<1>18. (IF up THEN cnt + 1 ELSE cnt) - n = cnt - n + (IF up THEN 1 ELSE 0)
  BY <1>7, <1>15
<1>19. cnt - n + (IF up THEN 1 ELSE 0) \in 0..2
  BY <1>7, <1>9, <1>15
<1>20. cnt_q' = cnt - n + (IF up THEN 1 ELSE 0)
  BY <1>1, <1>17, <1>18
<1>21. cnt_q' = Len(due') /\ cnt_q' \in 0..2
  BY <1>15, <1>16, <1>19, <1>20
<1>22. up => due'[cnt - n + 1] = Transfer
  BY <1>15, <1>16
<1>23. DueMoves(r, up)
  BY <1>7, <1>9, <1>15, <1>20, <1>21, <1>22 DEF DueMoves, n, cnt
<1>. QED
  BY <1>3, <1>4, <1>5, <1>6, <1>23 DEF r, up

(* The handshakes of EX and WB.  A transfer leaves EX when it, or the next  *)
(* one, has been accepted and the one before it is answered.                *)
Leaves(ev, gnt, rvalid) ==
  valid_0_i(ev) /\ (cnt_q = 2 \/ count_up(ev, gnt)) /\ (cnt_q = 0 \/ resp_valid(rvalid))

Handshaken(ev, gnt, rvalid) ==
  LET leaves == Leaves(ev, gnt, rvalid) IN
  /\ ex' \in Offers
  /\ valid_0_i(ev) /\ (~leaves \/ split_q') => ex' = ex
  /\ valid_0_i(ev) /\ ~leaves => split_q' = split_q
  /\ split_q' => valid_0_i(ev)
  /\ split_q' /\ leaves => ~split_q /\ Len(ex.xs) = 2
  /\ split_q' \in BOOLEAN /\ issued' \in BOOLEAN /\ trans_valid_q' \in BOOLEAN
  /\ trans_valid_q' <=> ~leaves /\ (trans_valid_q \/ trans_valid(ev))
  /\ issued' <=> (issued \/ count_up(ev, gnt)) /\ ~leaves /\ ~kill_ex(ev)
  /\ ctrl' = ctrl_n(ev)

LEMMA Handshakes ==
  ASSUME NEW ev, NEW gnt, NEW rvalid, Clocked(ev, gnt, rvalid)
  PROVE  Handshaken(ev, gnt, rvalid)
<1>. DEFINE leaves == Leaves(ev, gnt, rvalid)
<1>1. /\ ex \in Offers /\ cnt_q \in 0..2 /\ split_q \in BOOLEAN
      /\ ex' \in (IF ex_ready_o(ev, gnt, rvalid) THEN Offers ELSE {ex})
      /\ trans_valid_q' = trans_valid_n(ev, gnt, rvalid)
      /\ ctrl' = ctrl_n(ev)
      /\ split_q' = (valid_0_i(ev) /\ IF ctrl_update(ev, gnt, rvalid) THEN lsu_split_0_o(ev) ELSE split_q)
      /\ issued' = /\ issued \/ count_up(ev, gnt)
                   /\ ~ctrl_update(ev, gnt, rvalid) /\ ~kill_ex(ev)
      /\ trans_valid_q \in BOOLEAN
  BY DEF Clocked, Cycle, LsuInv, LsuTypeOK, StagesInv
<1>2. /\ valid_0_i(ev) => ~halt_wb(ev) /\ ~kill_wb(ev) /\ ~kill_ex(ev)
  BY DueStep DEF Decided
<1>3. valid_0_i(ev) => (wb_ready_o(ev, rvalid) <=> cnt_q = 0 \/ resp_valid(rvalid))
  BY <1>2 DEF wb_ready_o
<1>4. ctrl_update(ev, gnt, rvalid) <=> leaves
  BY <1>1, <1>3 DEF ctrl_update, done_0, Leaves
<1>5. valid_0_i(ev) => (ex_ready_o(ev, gnt, rvalid) => leaves /\ ~lsu_split_0_o(ev))
  BY <1>1, <1>2, <1>3 DEF ex_ready_o, done_0, Leaves
<1>6. leaves => valid_0_i(ev)
  BY DEF Leaves
<1>7. lsu_split_0_o(ev) => ~split_q /\ Len(ex.xs) = 2
  BY DEF lsu_split_0_o
<1>. HIDE DEF leaves
<1>8. ex' \in Offers /\ (~ex_ready_o(ev, gnt, rvalid) => ex' = ex)
  BY <1>1
<1>9. split_q' => valid_0_i(ev) /\ (leaves => lsu_split_0_o(ev))
  BY <1>1, <1>4
<1>10. valid_0_i(ev) /\ ~leaves => split_q' = split_q
  BY <1>1, <1>4
<1>11. valid_0_i(ev) /\ (~leaves \/ split_q') => ex' = ex
  BY <1>5, <1>8, <1>9
<1>12. split_q' \in BOOLEAN /\ issued' \in BOOLEAN
  BY <1>1
<1>13. trans_valid_q' <=> ~leaves /\ (trans_valid_q \/ trans_valid(ev))
  BY <1>1, <1>4 DEF trans_valid_n
<1>14. trans_valid_q' \in BOOLEAN
  BY <1>1 DEF trans_valid_n
<1>15. issued' <=> (issued \/ count_up(ev, gnt)) /\ ~leaves /\ ~kill_ex(ev)
  BY <1>1, <1>4
<1>. QED
  BY <1>1, <1>7, <1>8, <1>9, <1>10, <1>11, <1>12, <1>13, <1>14, <1>15 DEF Handshaken, leaves

(* What WB holds next, and that a status is kept only while WB is halted    *)
(* for debug.                                                               *)
LEMMA WriteBack ==
  ASSUME NEW ev, NEW gnt, NEW rvalid, Clocked(ev, gnt, rvalid)
  PROVE  /\ wb' \in {"bubble", "other", "lsu"}
         /\ cnt_q # 0 /\ ~resp_valid(rvalid) => wb' = wb
         /\ valid_0_i(ev) /\ (cnt_q = 0 \/ resp_valid(rvalid)) => wb' # "other"
         /\ Leaves(ev, gnt, rvalid) => wb' = "lsu"
         /\ wb_status_q' # "none" => ctrl' = "DEBUG_TAKEN"
<1>1. /\ wb' = wb_n(ev, gnt, rvalid) /\ wb_status_q' = wb_status_n(ev, rvalid)
      /\ wb \in {"bubble", "other", "lsu"} /\ ex \in Offers
      /\ wb_status_q # "none" => ctrl = "DEBUG_TAKEN"
      /\ ctrl' = ctrl_n(ev) /\ cnt_q \in 0..2
  BY DEF Clocked, Cycle, LsuInv, LsuTypeOK, StagesInv
<1>2. /\ valid_0_i(ev) => ExIsLsu /\ ~halt_wb(ev) /\ ~kill_wb(ev) /\ ~halt_ex(ev) /\ ~kill_ex(ev)
      /\ cnt_q # 0 => ~kill_wb(ev)
      /\ halt_wb(ev) /\ wb # "other" => ctrl_n(ev) = "DEBUG_TAKEN"
      /\ ctrl = "DEBUG_TAKEN" => kill_wb(ev)
  BY DueStep DEF Decided
<1>3. ex.kind \in {"bubble", "other", "lsu"} /\ (ExIsLsu <=> ex.kind = "lsu")
  BY <1>1 DEF Offers, ExIsLsu
<1>4. wb' \in {"bubble", "other", "lsu"}
  BY <1>1, <1>3 DEF wb_n
<1>5. cnt_q # 0 /\ ~resp_valid(rvalid) => wb' = wb
  BY <1>1, <1>2 DEF wb_n, wb_ready_o
<1>6. valid_0_i(ev) /\ (cnt_q = 0 \/ resp_valid(rvalid)) => wb' # "other"
  BY <1>1, <1>2, <1>3 DEF wb_n, wb_ready_o
<1>7. Leaves(ev, gnt, rvalid) => wb' = "lsu"
  BY <1>1, <1>2, <1>3 DEF wb_n, wb_ready_o, Leaves, ex_valid_o, valid_0_o
<1>8. wb_status_q' # "none" => ctrl' = "DEBUG_TAKEN"
  <2>. SUFFICES ASSUME wb_status_q' # "none" PROVE ctrl' = "DEBUG_TAKEN"
    OBVIOUS
  <2>1. ~wb_valid(ev, rvalid) /\ ~kill_wb(ev)
    BY <1>1 DEF wb_status_n
  <2>2. wb = "lsu" /\ resp_valid(rvalid)
    BY <1>1, <1>2, <2>1 DEF wb_status_n
  <2>3. halt_wb(ev)
    BY <2>1, <2>2 DEF wb_valid
  <2>. QED
    BY <1>1, <1>2, <2>2, <2>3
<1>. QED
  BY <1>4, <1>5, <1>6, <1>7, <1>8

(* The gates: one takes a transfer only while both are idle, holds it until *)
(* it is the only one left, and answers it in the next cycle.               *)
Gated(ev) ==
  /\ wpt_state' \in {"IDLE", "MATCH_WAIT", "MATCH_RESP"}
  /\ mpu_state' \in {"IDLE", "ERR_WAIT", "ERR_RESP"}
  /\ wpt_state' = "IDLE" \/ mpu_state' = "IDLE"
  /\ GatesIdle /\ ~Caught(ev) /\ ~Faulting(ev) => GatesIdle'
  /\ Caught(ev) \/ Faulting(ev) => GateClass' = Transfer.class
  /\ Holding => GateClass' = GateClass
  /\ Caught(ev) \/ Faulting(ev) \/ Holding =>
       ~GatesIdle' /\ IF cnt_q' = 1 THEN Answering' /\ ~Holding' ELSE Holding' /\ ~Answering'
  /\ Answering => GatesIdle'

LEMMA GateMoves ==
  ASSUME NEW ev, NEW gnt, NEW rvalid, Clocked(ev, gnt, rvalid)
  PROVE  Gated(ev)
<1>1. /\ wpt_state \in {"IDLE", "MATCH_WAIT", "MATCH_RESP"}
      /\ mpu_state \in {"IDLE", "ERR_WAIT", "ERR_RESP"}
      /\ wpt_state = "IDLE" \/ mpu_state = "IDLE"
      /\ wpt_state' = wpt_state_n(ev, gnt, rvalid)
      /\ mpu_state' = mpu_state_n(ev, gnt, rvalid)
      /\ cnt_q' = next_cnt(ev, gnt, rvalid)
      /\ Holding => cnt_q = 2
  BY DEF Clocked, Cycle, LsuInv, LsuTypeOK, GatesInv, StagesInv
<1>2. /\ Caught(ev) => GatesIdle /\ ~Faulting(ev) /\ Transfer.class = "WPT" /\ ~Answering
      /\ Faulting(ev) => GatesIdle /\ ~Caught(ev) /\ Transfer.class = "FAULT" /\ ~Answering
      /\ Holding => ~Caught(ev) /\ ~Faulting(ev)
  BY <1>1, DueStep DEF Requested, GatesIdle, Answering
<1>3. wpt_state' = IF Caught(ev) \/ wpt_state = "MATCH_WAIT"
                   THEN IF cnt_q' = 1 THEN "MATCH_RESP" ELSE "MATCH_WAIT" ELSE "IDLE"
  BY <1>1 DEF wpt_state_n, one_txn_pend_n
<1>4. mpu_state' = IF Faulting(ev) \/ mpu_state = "ERR_WAIT"
                   THEN IF cnt_q' = 1 THEN "ERR_RESP" ELSE "ERR_WAIT" ELSE "IDLE"
  BY <1>1 DEF mpu_state_n, one_txn_pend_n
<1>5. CASE GatesIdle /\ ~Caught(ev) /\ ~Faulting(ev)
  BY <1>1, <1>3, <1>4, <1>5 DEF Gated, GatesIdle, Holding, Answering
<1>6. CASE Caught(ev)
  BY <1>1, <1>2, <1>3, <1>4, <1>6 DEF Gated, GatesIdle, Holding, Answering, GateClass
<1>7. CASE Faulting(ev)
  BY <1>1, <1>2, <1>3, <1>4, <1>7 DEF Gated, GatesIdle, Holding, Answering, GateClass
<1>8. CASE Holding
  BY <1>1, <1>2, <1>3, <1>4, <1>8 DEF Gated, GatesIdle, Holding, Answering, GateClass
<1>9. CASE Answering
  BY <1>1, <1>2, <1>3, <1>4, <1>9 DEF Gated, GatesIdle, Holding, Answering, GateClass
<1>10. GatesIdle \/ Holding \/ Answering
  BY <1>1 DEF GatesIdle, Holding, Answering
<1>. QED
  BY <1>5, <1>6, <1>7, <1>8, <1>9, <1>10

LEMMA GatesStep ==
  ASSUME NEW ev, NEW gnt, NEW rvalid, Clocked(ev, gnt, rvalid)
  PROVE  GatesInv'
<1>. DEFINE acc == Accepted(bus_req(ev), gnt)
            up  == count_up(ev, gnt)
            ans == resp_valid(rvalid)
            early == resp_valid_o(rvalid)
<1>1. /\ GatesInv /\ ObiInv /\ gnt \in BOOLEAN /\ rvalid \in BOOLEAN
      /\ cnt_q = Len(due) /\ due \in Seq(Transfers) /\ owed \in Seq(Transfers)
      /\ Holding => issued /\ cnt_q = 2 /\ trans_valid_q
      /\ wpt_state \in {"IDLE", "MATCH_WAIT", "MATCH_RESP"}
      /\ mpu_state \in {"IDLE", "ERR_WAIT", "ERR_RESP"}
  BY DEF Clocked, LsuInv, LsuTypeOK, GatesInv, StagesInv, ObiInv, ObiTypeOK
<1>2. /\ Presents(bus_req(ev), gnt, FALSE, rvalid)
      /\ Decided(ev) /\ Requested(ev, gnt) /\ Answered(rvalid)
      /\ DueMoves(ans, up)
  BY DueStep
<1>3. QueuesMove(rvalid, early, acc)
  BY <1>1, <1>2, QueuesStep
<1>4. InFlightFacts
  BY <1>1, InFlightNow
<1>5. Gated(ev) /\ Handshaken(ev, gnt, rvalid)
  BY GateMoves, Handshakes
<1>6. /\ acc # {} => acc = {Transfer} /\ Transfer.class = "OK"
      /\ Caught(ev) \/ Faulting(ev) => acc = {} /\ up /\ GatesIdle
      /\ Holding \/ Answering => ~up /\ acc = {}
  BY <1>1, <1>2 DEF Requested, GatesIdle, Holding, Answering
<1>7. \A i \in DOMAIN BusQueue' : BusQueue'[i].class = "OK"
  <2>. DEFINE bus == bus_cnt_q
              n   == Taken(rvalid)
  <2>1. /\ bus \in Nat /\ n \in {0, 1} /\ n <= bus
        /\ Len(BusQueue') = bus - n + (IF acc = {} THEN 0 ELSE 1)
        /\ \A i \in 1..(bus - n) : BusQueue'[i] = BusQueue[i + n]
        /\ acc # {} => acc = {BusQueue'[bus - n + 1]}
        /\ BusQueue' \in Seq(Transfers)
    BY <1>3, <1>4 DEF QueuesMove, InFlightFacts
  <2>2. \A i \in 1..bus : BusQueue[i].class = "OK"
    BY <1>1, <1>4, LenProperties DEF GatesInv, InFlightFacts
  <2>. SUFFICES ASSUME NEW i \in DOMAIN BusQueue' PROVE BusQueue'[i].class = "OK"
    OBVIOUS
  <2>3. i \in 1..Len(BusQueue')
    BY <2>1, LenProperties
  <2>. HIDE DEF bus, n
  <2>4. CASE i \in 1..(bus - n)
    <3>1. i + n \in 1..bus
      BY <2>1, <2>4
    <3>. QED
      BY <2>1, <2>2, <2>4, <3>1
  <2>5. CASE i \notin 1..(bus - n)
    <3>1. acc # {} /\ i = bus - n + 1
      BY <2>1, <2>3, <2>5
    <3>. QED
      BY <1>6, <2>1, <3>1
  <2>. QED
    BY <2>4, <2>5
<1>. DEFINE c == cnt_q
            n == Taken(ans)
            m == Taken(early)
<1>8. /\ c \in 0..2 /\ n \in {0, 1} /\ n <= c /\ c = Len(due)
      /\ cnt_q' = c - n + (IF up THEN 1 ELSE 0) /\ cnt_q' = Len(due')
      /\ \A i \in 1..(c - n) : due'[i] = due[i + n]
      /\ up => due'[c - n + 1] = Transfer
      /\ due' = <<>> <=> Len(due') = 0
  BY <1>1, <1>2, EmptySeq DEF DueMoves
<1>9. /\ m \in {0, 1} /\ m <= Len(owed) /\ Len(owed) \in Nat
      /\ acc = {} => /\ Len(owed') = Len(owed) - m
                     /\ \A i \in 1..(Len(owed) - m) : owed'[i] = owed[i + m]
      /\ owed' = <<>> <=> Len(owed') = 0
  BY <1>3, <1>4, EmptySeq DEF QueuesMove, InFlightFacts
<1>10. /\ (ans <=> n = 1) /\ (early <=> m = 1)
       /\ ~Answering => n = m
       /\ Answering => n = 1 /\ m = 0
  BY <1>2 DEF Answered, Taken
<1>11. trans_valid_q' => ~Leaves(ev, gnt, rvalid)
  BY <1>5 DEF Handshaken
<1>12. CASE GatesIdle /\ ~Caught(ev) /\ ~Faulting(ev)
  <2>1. due = owed /\ early = ans /\ ~Answering
    BY <1>1, <1>2, <1>12 DEF GatesInv, Answered, GatesIdle, Answering
  <2>2. acc = IF up THEN {Transfer} ELSE {}
    BY <1>2, <1>12 DEF Requested
  <2>3. Members(acc) = IF up THEN <<Transfer>> ELSE <<>>
    BY <2>2, MembersOf, Zenon
  <2>4. /\ due' = Popped(due, ans /\ due # <<>>) \o (IF up THEN <<Transfer>> ELSE <<>>)
        /\ owed' = Popped(owed, early /\ owed # <<>>) \o Members(acc)
    BY DEF Clocked, Cycle, ObiClock
  <2>5. due' = owed'
    BY <2>1, <2>3, <2>4
  <2>6. GatesIdle'
    BY <1>5, <1>12 DEF Gated
  <2>. QED
    BY <1>7, <2>5, <2>6 DEF GatesInv, GatesIdle, Holding, Answering
<1>13. CASE Caught(ev) \/ Faulting(ev)
  <2>1. /\ acc = {} /\ up /\ GatesIdle /\ c # 2 /\ valid_0_i(ev)
        /\ due = owed /\ ~Answering
    BY <1>1, <1>2, <1>6, <1>13 DEF GatesInv, Requested, GatesIdle, Answering
  <2>2. /\ wpt_state' = "IDLE" \/ mpu_state' = "IDLE"
        /\ ~GatesIdle' /\ GateClass' = Transfer.class
        /\ IF cnt_q' = 1 THEN Answering' /\ ~Holding' ELSE Holding' /\ ~Answering'
    BY <1>5, <1>13 DEF Gated
  <2>. HIDE DEF c, n, m, acc, up, early, ans
  <2>3. CASE cnt_q' = 1
    <3>1. c - n = 0 /\ (c = 0 \/ n = 1)
      BY <1>8, <2>1, <2>3
    <3>2. owed' = <<>> /\ Len(due') = 1 /\ due'[1] = Transfer
      BY <1>8, <1>9, <1>10, <2>1, <2>3, <3>1
    <3>3. Leaves(ev, gnt, rvalid)
      BY <1>10, <2>1, <3>1 DEF Leaves, c, up, ans
    <3>. QED
      BY <1>7, <1>11, <2>2, <2>3, <3>2, <3>3 DEF GatesInv
  <2>4. CASE cnt_q' # 1
    <3>1. c - n = 1 /\ cnt_q' = 2
      BY <1>8, <2>1, <2>4
    <3>2. Len(owed') = 1 /\ Len(due') = 2 /\ due'[2] = Transfer
      BY <1>8, <1>9, <1>10, <2>1, <3>1
    <3>3. owed'[1] = owed[1 + m] /\ due'[1] = due[1 + n] /\ n = m
      BY <1>8, <1>9, <1>10, <2>1, <3>1
    <3>. QED
      BY <1>7, <2>1, <2>2, <2>4, <3>2, <3>3 DEF GatesInv
  <2>. QED
    BY <2>3, <2>4
<1>14. CASE Holding
  <2>1. /\ acc = {} /\ ~up /\ c = 2 /\ valid_0_i(ev) /\ ~Answering
        /\ Len(owed) = 1 /\ due[1] = owed[1] /\ due[2].class = GateClass
    BY <1>1, <1>2, <1>6, <1>14 DEF GatesInv, Decided, Holding, Answering
  <2>2. /\ wpt_state' = "IDLE" \/ mpu_state' = "IDLE"
        /\ ~GatesIdle' /\ GateClass' = GateClass
        /\ IF cnt_q' = 1 THEN Answering' /\ ~Holding' ELSE Holding' /\ ~Answering'
    BY <1>5, <1>14 DEF Gated
  <2>. HIDE DEF c, n, m, acc, up, early, ans
  <2>3. CASE cnt_q' = 1
    <3>1. n = 1 /\ m = 1
      BY <1>8, <1>10, <2>1, <2>3
    <3>2. owed' = <<>> /\ Len(due') = 1 /\ due'[1] = due[2]
      BY <1>8, <1>9, <2>1, <2>3, <3>1
    <3>3. Leaves(ev, gnt, rvalid)
      BY <1>10, <2>1, <3>1 DEF Leaves, c, up, ans
    <3>. QED
      BY <1>7, <1>11, <2>1, <2>2, <2>3, <3>2, <3>3 DEF GatesInv
  <2>4. CASE cnt_q' # 1
    <3>1. n = 0 /\ m = 0 /\ cnt_q' = 2
      BY <1>8, <1>10, <2>1, <2>4
    <3>2. Len(owed') = 1 /\ Len(due') = 2 /\ due'[1] = due[1] /\ due'[2] = due[2] /\ owed'[1] = owed[1]
      BY <1>8, <1>9, <2>1, <3>1
    <3>. QED
      BY <1>7, <2>1, <2>2, <2>4, <3>2 DEF GatesInv
  <2>. QED
    BY <2>3, <2>4
<1>15. CASE Answering
  <2>1. acc = {} /\ ~up /\ Len(due) = 1 /\ owed = <<>> /\ n = 1 /\ m = 0 /\ GatesIdle'
    BY <1>1, <1>5, <1>6, <1>10, <1>15 DEF GatesInv, Gated
  <2>2. due' = <<>>
    BY <1>8, <2>1
  <2>3. owed' = <<>>
    <3>1. Len(owed) = 0
      BY <2>1
    <3>. QED
      BY <1>9, <2>1, <3>1
  <2>. QED
    BY <1>7, <2>1, <2>2, <2>3 DEF GatesInv, GatesIdle, Holding, Answering
<1>16. GatesIdle \/ Holding \/ Answering
  BY <1>1 DEF GatesIdle, Holding, Answering
<1>. QED
  BY <1>12, <1>13, <1>14, <1>15, <1>16

LEMMA StagesStep ==
  ASSUME NEW ev, NEW gnt, NEW rvalid, Clocked(ev, gnt, rvalid)
  PROVE  StagesInv'
<1>. DEFINE up  == count_up(ev, gnt)
            ans == resp_valid(rvalid)
            leaves == Leaves(ev, gnt, rvalid)
            c == cnt_q
            n == Taken(ans)
<1>1. StagesInv /\ LsuTypeOK /\ GatesInv
  BY DEF Clocked, LsuInv
<1>2. Decided(ev) /\ Requested(ev, gnt) /\ Answered(rvalid) /\ DueMoves(ans, up)
  BY DueStep
<1>3. Handshaken(ev, gnt, rvalid) /\ Gated(ev)
  BY Handshakes, GateMoves
<1>4. /\ wb' \in {"bubble", "other", "lsu"}
      /\ c # 0 /\ ~ans => wb' = wb
      /\ valid_0_i(ev) /\ (c = 0 \/ ans) => wb' # "other"
      /\ leaves => wb' = "lsu"
      /\ wb_status_q' # "none" => ctrl' = "DEBUG_TAKEN"
  BY WriteBack
<1>5. leaves <=> valid_0_i(ev) /\ (c = 2 \/ up) /\ (c = 0 \/ ans)
  BY DEF Leaves
<1>6. /\ c \in 0..2 /\ n \in {0, 1} /\ n <= c /\ (ans <=> n = 1)
      /\ cnt_q' = c - n + (IF up THEN 1 ELSE 0) /\ cnt_q' = Len(due') /\ cnt_q' \in 0..2
      /\ \A i \in 1..(c - n) : due'[i] = due[i + n]
      /\ up => due'[c - n + 1] = Transfer
  BY <1>2 DEF DueMoves, Answered, Taken
<1>7. /\ up => valid_0_i(ev) /\ c # 2 /\ trans_valid(ev)
      /\ trans_valid_q => valid_0_i(ev)
      /\ trans_valid(ev) => valid_0_i(ev) /\ c # 2
      /\ valid_0_i(ev) /\ c # 2 => trans_valid(ev)
  BY <1>2, <1>6, LoadStoreParameters DEF Requested, Decided, trans_valid
<1>8. /\ c # 0 => wb = "lsu" /\ ctrl = "FUNCTIONAL"
      /\ issued <=> c = 2
      /\ issued => trans_valid_q /\ due[2] = Transfer
      /\ split_q => trans_valid_q \/ (c = 1 /\ due[1] = ex.xs[1])
      /\ trans_valid_q => wb # "other"
  BY <1>1 DEF StagesInv
<1>9. /\ valid_0_i(ev) => ExIsLsu /\ ~kill_ex(ev) /\ ctrl' = "FUNCTIONAL"
      /\ c # 0 /\ ~Answering => ctrl' = "FUNCTIONAL"
      /\ Answering => ~valid_0_i(ev) /\ c = 1 /\ ans
  BY <1>1, <1>2, <1>3 DEF Decided, Handshaken, GatesInv, StagesInv, Answered
<1>10. /\ valid_0_i(ev) /\ (~leaves \/ split_q') => ex' = ex
       /\ valid_0_i(ev) /\ ~leaves => split_q' = split_q
       /\ split_q' => valid_0_i(ev)
       /\ split_q' /\ leaves => ~split_q /\ Len(ex.xs) = 2
       /\ trans_valid_q' <=> ~leaves /\ (trans_valid_q \/ trans_valid(ev))
       /\ issued' <=> (issued \/ up) /\ ~leaves /\ ~kill_ex(ev)
       /\ split_q \in BOOLEAN /\ split_q' \in BOOLEAN
  BY <1>1, <1>3 DEF Handshaken, LsuTypeOK
<1>11. valid_0_i(ev) /\ ~leaves => Transfer' = Transfer /\ ExIsLsu'
  BY <1>9, <1>10 DEF Transfer, ExIsLsu
<1>12. bus_req(ev) # {} => /\ trans_valid(ev) /\ GatesIdle /\ ~Caught(ev) /\ ~Faulting(ev)
                           /\ bus_req(ev) = {Transfer} /\ Transfer.class = "OK"
  BY <1>2 DEF Requested
<1>13. waiting' = bus_req(ev) \ Accepted(bus_req(ev), gnt)
  BY DEF Clocked, Cycle, ObiClock
<1>. HIDE DEF c, n, up, ans, leaves
<1>14. cnt_q' # 0 => wb' = "lsu" /\ ctrl' = "FUNCTIONAL"
  <2>. SUFFICES ASSUME cnt_q' # 0 PROVE wb' = "lsu" /\ ctrl' = "FUNCTIONAL"
    OBVIOUS
  <2>1. CASE up
    BY <1>4, <1>5, <1>6, <1>7, <1>8, <1>9, <2>1
  <2>2. CASE ~up
    <3>1. c # 0 /\ c - n # 0
      BY <1>6, <2>2
    <3>2. ~Answering
      BY <1>6, <1>9, <3>1
    <3>3. c = 2 => leaves \/ ~ans
      BY <1>5, <1>7, <1>8
    <3>4. leaves \/ ~ans
      BY <1>6, <3>1, <3>3
    <3>. QED
      BY <1>4, <1>8, <1>9, <3>1, <3>2, <3>4
  <2>. QED
    BY <2>1, <2>2
<1>15. trans_valid_q' => ExIsLsu' /\ wb' # "other" /\ ctrl' = "FUNCTIONAL"
  <2>. SUFFICES ASSUME trans_valid_q'
                PROVE  ExIsLsu' /\ wb' # "other" /\ ctrl' = "FUNCTIONAL"
    OBVIOUS
  <2>1. valid_0_i(ev) /\ ~leaves
    BY <1>7, <1>10
  <2>. QED
    BY <1>4, <1>8, <1>9, <1>11, <2>1
<1>16. issued' <=> cnt_q' = 2
  <2>1. ASSUME issued' PROVE cnt_q' = 2
    BY <1>5, <1>6, <1>7, <1>8, <1>10, <2>1
  <2>2. ASSUME cnt_q' = 2 PROVE issued'
    <3>1. (c = 2 \/ (up /\ c = 1)) /\ ~ans
      BY <1>6, <1>7, <2>2
    <3>. QED
      BY <1>5, <1>7, <1>8, <1>9, <1>10, <3>1
  <2>. QED
    BY <1>10, <2>1, <2>2
<1>17. issued' => trans_valid_q' /\ due'[2] = Transfer'
  <2>. SUFFICES ASSUME issued' PROVE trans_valid_q' /\ due'[2] = Transfer'
    OBVIOUS
  <2>1. ~leaves /\ (issued \/ up) /\ valid_0_i(ev) /\ cnt_q' = 2
    BY <1>7, <1>8, <1>10, <1>16
  <2>2. Transfer' = Transfer /\ trans_valid_q'
    BY <1>7, <1>8, <1>10, <1>11, <2>1
  <2>3. CASE up
    <3>1. c - n + 1 = 2
      BY <1>6, <2>1, <2>3
    <3>. QED
      BY <1>6, <2>2, <2>3, <3>1
  <2>4. CASE ~up
    <3>1. c = 2 /\ n = 0
      BY <1>6, <2>1, <2>4
    <3>. QED
      BY <1>6, <1>8, <2>1, <2>2, <2>4, <3>1
  <2>. QED
    BY <2>3, <2>4
<1>18. waiting' # {} => /\ waiting' = {Transfer'} /\ Transfer'.class = "OK"
                        /\ trans_valid_q' /\ cnt_q' # 2 /\ GatesIdle'
  <2>. SUFFICES ASSUME waiting' # {}
                PROVE  /\ waiting' = {Transfer'} /\ Transfer'.class = "OK"
                       /\ trans_valid_q' /\ cnt_q' # 2 /\ GatesIdle'
    OBVIOUS
  <2>1. bus_req(ev) = {Transfer} /\ Accepted(bus_req(ev), gnt) # {Transfer}
    BY <1>12, <1>13
  <2>2. ~up
    BY <1>2, <1>12, <2>1 DEF Requested, up
  <2>3. ~leaves /\ valid_0_i(ev) /\ c # 2 /\ trans_valid(ev)
    BY <1>5, <1>7, <1>12, <2>1, <2>2
  <2>4. Transfer' = Transfer /\ trans_valid_q'
    BY <1>10, <1>11, <2>3
  <2>5. cnt_q' # 2
    BY <1>6, <2>2, <2>3
  <2>6. Accepted(bus_req(ev), gnt) = {}
    BY <1>2, <2>2 DEF Requested, up
  <2>. QED
    BY <1>3, <1>12, <1>13, <2>1, <2>4, <2>5, <2>6 DEF Gated
<1>19. split_q' => trans_valid_q' \/ (cnt_q' = 1 /\ due'[1] = ex'.xs[1])
  <2>. SUFFICES ASSUME split_q' PROVE trans_valid_q' \/ (cnt_q' = 1 /\ due'[1] = ex'.xs[1])
    OBVIOUS
  <2>1. CASE leaves
    <3>1. ex' = ex /\ Transfer = ex.xs[1]
      BY <1>10, <2>1 DEF Transfer
    <3>2. CASE up
      <4>1. c - n = 0
        BY <1>5, <1>6, <1>7, <2>1, <3>2
      <4>. QED
        BY <1>6, <3>1, <3>2, <4>1
    <3>3. CASE ~up
      <4>1. c = 2 /\ n = 1
        BY <1>5, <1>6, <2>1, <3>3
      <4>2. cnt_q' = 1 /\ due'[1] = due[2]
        BY <1>6, <3>3, <4>1
      <4>. QED
        BY <1>8, <3>1, <4>1, <4>2
    <3>. QED
      BY <3>2, <3>3
  <2>2. CASE ~leaves
    BY <1>7, <1>8, <1>10, <2>2
  <2>. QED
    BY <2>1, <2>2
<1>. QED
  BY <1>4, <1>6, <1>14, <1>15, <1>16, <1>17, <1>18, <1>19 DEF StagesInv

LEMMA LsuInvStep ==
  ASSUME NEW ev, NEW gnt, NEW rvalid, Clocked(ev, gnt, rvalid)
  PROVE  ObiInv' /\ LsuInv'
<1>1. Presents(bus_req(ev), gnt, FALSE, rvalid) /\ DueMoves(resp_valid(rvalid), count_up(ev, gnt))
  BY DueStep
<1>2. ObiInv'
  BY <1>1, ObiInvStep DEF Clocked
<1>3. Handshaken(ev, gnt, rvalid) /\ Gated(ev) /\ wb' \in {"bubble", "other", "lsu"}
  BY Handshakes, GateMoves, WriteBack
<1>4. ctrl' \in {"FUNCTIONAL", "DEBUG_TAKEN", "FLUSH"}
  BY <1>3 DEF Handshaken, ctrl_n
<1>5. split_q' => ExIsLsu' /\ Len(ex'.xs) = 2
  <2>1. split_q' => valid_0_i(ev) /\ ex' = ex
    BY <1>3 DEF Handshaken
  <2>2. valid_0_i(ev) => ExIsLsu
    BY DEF valid_0_i
  <2>3. split_q' => Len(ex.xs) = 2
    BY <1>3, <2>1 DEF Handshaken, Clocked, LsuInv, LsuTypeOK
  <2>. QED
    BY <2>1, <2>2, <2>3 DEF ExIsLsu
<1>6. LsuTypeOK'
  BY <1>1, <1>3, <1>4, <1>5 DEF LsuTypeOK, Handshaken, Gated, DueMoves
<1>. QED
  BY <1>2, <1>6, GatesStep, StagesStep DEF LsuInv

LEMMA LsuInvInit == Init => ObiInv /\ LsuInv
<1>. SUFFICES ASSUME Init PROVE ObiInv /\ LsuInv
  OBVIOUS
<1>1. ObiInv /\ InFlightFacts /\ owed = <<>> /\ bus_cnt_q = 0 /\ waiting = {}
  BY ObiInvInit, InFlightNow DEF Init, ObiInit
<1>2. LsuTypeOK
  <2>1. ex \in Offers
    <3>1. ex = [kind |-> "bubble", xs |-> <<>>]
      BY DEF Init
    <3>. QED
      BY <3>1 DEF Offers
  <2>2. due \in Seq(Transfers)
    BY DEF Init
  <2>. QED
    BY <2>1, <2>2 DEF Init, LsuTypeOK
<1>3. DOMAIN BusQueue = {}
  <2>1. BusQueue \in Seq(Transfers) /\ Len(BusQueue) = 0
    BY <1>1 DEF InFlightFacts
  <2>. QED
    BY <2>1, LenProperties
<1>4. GatesInv
  BY <1>1, <1>3 DEF Init, GatesInv, GatesIdle, Holding, Answering
<1>5. StagesInv
  BY <1>1 DEF Init, StagesInv
<1>. QED
  BY <1>1, <1>2, <1>4, <1>5 DEF LsuInv

LEMMA LsuIdles ==
  ASSUME UNCHANGED vars
  PROVE  /\ ObiInv /\ LsuInv => ObiInv' /\ LsuInv'
         /\ UNCHANGED <<BusQueue, owed>>
<1>1. UNCHANGED obiVars /\ UNCHANGED lsuVars
  BY DEF vars
<1>2. (ObiInv => ObiInv') /\ UNCHANGED <<BusQueue, owed>>
  BY <1>1, Idles
<1>3. /\ ExIsLsu' = ExIsLsu /\ Transfer' = Transfer /\ GatesIdle' = GatesIdle
      /\ Holding' = Holding /\ Answering' = Answering /\ GateClass' = GateClass
  BY <1>1 DEF lsuVars, ExIsLsu, Transfer, GatesIdle, Holding, Answering, GateClass
<1>4. LsuTypeOK => LsuTypeOK'
  BY <1>1, <1>3 DEF lsuVars, LsuTypeOK, Offers
<1>5. GatesInv => GatesInv'
  BY <1>1, <1>2, <1>3 DEF lsuVars, GatesInv
<1>6. StagesInv => StagesInv'
  BY <1>1, <1>3 DEF lsuVars, obiVars, StagesInv
<1>. QED
  BY <1>2, <1>4, <1>5, <1>6 DEF LsuInv

-----------------------------------------------------------------------------
(* What follows from the invariant.                                         *)
LEMMA StatusFollows == ASSUME ObiInv, LsuInv PROVE RightStatus
<1>1. /\ \A i \in DOMAIN BusQueue : BusQueue[i].class = "OK"
      /\ GatesIdle => due = owed
      /\ Holding => Len(owed) = 1 /\ Len(due) = 2 /\ due[1] = owed[1]
      /\ Answering => owed = <<>> /\ Len(due) = 1 /\ due[1].class = GateClass
      /\ due \in Seq(Transfers) /\ owed \in Seq(Transfers)
      /\ GatesIdle \/ Holding \/ Answering
      /\ GateClass # "OK"
  BY DEF LsuInv, LsuTypeOK, GatesInv, ObiInv, ObiTypeOK, GatesIdle, Holding, Answering, GateClass
<1>2. owed # <<>> => owed[1].class = "OK"
  <2>. SUFFICES ASSUME owed # <<>> PROVE owed[1].class = "OK"
    OBVIOUS
  <2>1. /\ InFlightFacts
        /\ \A i \in 1..core_cnt_q : owed[i] = BusQueue[bus_cnt_q - core_cnt_q + i]
    BY InFlightNow DEF ObiInv, EarlyInv
  <2>2. /\ core_cnt_q \in Nat /\ bus_cnt_q \in Nat /\ 0 < core_cnt_q /\ core_cnt_q <= bus_cnt_q
        /\ BusQueue \in Seq(Transfers) /\ Len(BusQueue) = bus_cnt_q
    BY <2>1 DEF InFlightFacts
  <2>3. 1 \in 1..core_cnt_q /\ bus_cnt_q - core_cnt_q + 1 \in 1..bus_cnt_q
    BY <2>2
  <2>4. owed[1] = BusQueue[bus_cnt_q - core_cnt_q + 1]
    BY <2>1, <2>3
  <2>5. DOMAIN BusQueue = 1..bus_cnt_q
    BY <2>2, LenProperties
  <2>. QED
    BY <1>1, <2>3, <2>4, <2>5
<1>3. ASSUME NEW rvalid \in Rvalids, resp_valid(rvalid)
      PROVE  /\ due # <<>>
             /\ Status = Head(due).class
             /\ resp_valid_o(rvalid) <=> Status = "OK"
             /\ Status = "OK" => (owed # <<>> /\ Head(owed) = Head(due))
  <2>1. rvalid \in BOOLEAN /\ (rvalid => slave # <<>>)
    BY DEF Rvalids
  <2>2. Answered(rvalid)
    BY <2>1, AnswersAre
  <2>3. due # <<>> /\ Head(due) = due[1]
    BY <1>1, <1>3, <2>2, Fronts DEF Answered
  <2>4. owed # <<>> => Head(owed) = owed[1]
    BY <1>1, Fronts
  <2>5. CASE Answering
    BY <1>1, <2>2, <2>3, <2>5 DEF Answered
  <2>6. CASE ~Answering
    <3>1. owed # <<>> /\ resp_valid_o(rvalid) /\ Status = "OK"
      BY <1>3, <2>2, <2>6 DEF Answered
    <3>2. due[1] = owed[1]
      BY <1>1, <2>6
    <3>. QED
      BY <1>2, <2>3, <2>4, <3>1, <3>2
  <2>. QED
    BY <2>5, <2>6
<1>. QED
  BY <1>1, <1>3 DEF RightStatus

LEMMA OnceFollows == ASSUME ObiInv, LsuInv PROVE PerformedOnce
<1>1. /\ issued <=> cnt_q = 2
      /\ issued => trans_valid_q
      /\ split_q => trans_valid_q \/ (cnt_q = 1 /\ due[1] = ex.xs[1])
      /\ Answering => due[1].class = GateClass /\ GateClass # "OK"
      /\ LsuTypeOK
  BY DEF LsuInv, StagesInv, GatesInv, GateClass
<1>2. ASSUME NEW ev \in Events, NEW gnt \in BOOLEAN, count_up(ev, gnt)
      PROVE  ~issued
  BY <1>1, <1>2, Requests0 DEF Requested
<1>3. ASSUME NEW ev \in Events, ExIsLsu, ~valid_0_i(ev)
      PROVE  ~issued /\ (split_q => ex.xs[1].class # "OK")
  <2>1. Decided(ev)
    BY Decides
  <2>2. ~trans_valid_q
    BY <1>3, <2>1 DEF Decided
  <2>3. split_q => Answering
    BY <1>1, <1>3, <2>1, <2>2 DEF Decided, valid_0_i
  <2>. QED
    BY <1>1, <2>2, <2>3
<1>. QED
  BY <1>2, <1>3 DEF PerformedOnce, IssuedOnce, KilledBeforeAccess

LEMMA CountsFollow == ASSUME ObiInv, LsuInv PROVE CountersExact
BY LoadStoreParameters DEF LsuInv, StagesInv, ObiInv, RegistersInv, CountersExact

(* A request that waits is accepted or waits on, whoever presents it.       *)
NoneRetracted == \A t \in waiting : t \in waiting' \/ (owed' # <<>> /\ owed'[Len(owed')] = t)

LEMMA PresentedOn ==
  ASSUME NEW req, NEW gnt \in BOOLEAN, NEW err \in BOOLEAN, NEW rvalid \in BOOLEAN,
         Presents(req, gnt, err, rvalid)
  PROVE  NoneRetracted
<1>. DEFINE acc == Accepted(req, gnt)
            early == resp_valid_o(rvalid)
<1>1. waiting \subseteq req /\ waiting' = req \ acc
  BY DEF Presents, ObiClock
<1>2. QueuesMove(rvalid, early, acc) /\ InFlightFacts
  BY QueuesStep, InFlightNow DEF Presents
<1>3. acc # {} => owed' # <<>> /\ acc = {owed'[Len(owed')]}
  <2>. SUFFICES ASSUME acc # {} PROVE owed' # <<>> /\ acc = {owed'[Len(owed')]}
    OBVIOUS
  <2>. DEFINE core == core_cnt_q
              m    == Taken(early)
  <2>1. /\ core \in Nat /\ m \in {0, 1} /\ m <= core
        /\ owed' \in Seq(Transfers) /\ Len(owed') = core - m + 1
        /\ acc = {owed'[core - m + 1]}
    BY <1>2 DEF QueuesMove, InFlightFacts
  <2>2. owed' = <<>> => Len(owed') = 0
    BY EmptySeq
  <2>. HIDE DEF core, m
  <2>. QED
    BY <2>1, <2>2
<1>. QED
  BY <1>1, <1>3 DEF NoneRetracted

-----------------------------------------------------------------------------
(* The specification of the load/store unit.                                *)
LEMMA WholeStep ==
  ASSUME ObiInv, LsuInv, Next
  PROVE  ObiInv' /\ LsuInv' /\ NoneRetracted /\ Port!Next
<1>1. PICK ev \in Events, gnt \in BOOLEAN, rvalid \in BOOLEAN : Cycle(ev, gnt, rvalid)
  BY DEF Next
<1>2. Clocked(ev, gnt, rvalid)
  BY <1>1 DEF Clocked
<1>3. Presents(bus_req(ev), gnt, FALSE, rvalid)
  BY <1>2, DueStep
<1>. QED
  BY <1>2, <1>3, LsuInvStep, PresentedOn, PortStep

LEMMA LsuInvariant == Spec => [](ObiInv /\ LsuInv)
<1>1. Init => ObiInv /\ LsuInv
  BY LsuInvInit
<1>2. (ObiInv /\ LsuInv) /\ [Next]_vars => (ObiInv /\ LsuInv)'
  BY WholeStep, LsuIdles
<1>. QED
  BY <1>1, <1>2, PTL DEF Spec

(* The counters of the load/store unit, of the response filter and of the   *)
(* bus interface are exact, and within the depth of the queues, in every    *)
(* interleaving of halts, kills, faults, grants and answers.                *)
THEOREM CountersAreExact == Spec => []CountersExact
<1>1. ObiInv /\ LsuInv => CountersExact
  BY CountsFollow
<1>. QED
  BY <1>1, LsuInvariant, PTL

(* Every answer goes to the oldest transfer with the status of that one;    *)
(* nothing that failed a check gets to the bus (wpt.sv, mpu.sv).            *)
THEOREM StatusesAreRight == Spec => []RightStatus
<1>1. ObiInv /\ LsuInv => RightStatus
  BY StatusFollows
<1>. QED
  BY <1>1, LsuInvariant, PTL

(* No transfer is performed twice, whatever the controller halts or kills   *)
(* (load_store_unit.sv 486 and 592).                                        *)
THEOREM PerformsOnce == Spec => []PerformedOnce
<1>1. ObiInv /\ LsuInv => PerformedOnce
  BY OnceFollows
<1>. QED
  BY <1>1, LsuInvariant, PTL

(* A request that the bus side has not accepted is presented until it is.   *)
THEOREM NotRetracted == Spec => RequestNotRetracted
<1>1. (ObiInv /\ LsuInv) /\ [Next]_vars =>
        [\A t \in waiting : t \in waiting' \/ (owed' # <<>> /\ owed'[Len(owed')] = t)]_vars
  BY WholeStep DEF NoneRetracted
<1>. QED
  BY <1>1, LsuInvariant, PTL DEF Spec, RequestNotRetracted

(* Behind the gates, too, the bus side is an in-order memory port.          *)
THEOREM LsuIsAPort == Spec => PortSpec
<1>1. Init => Port!Init
  BY PortStarts DEF Init
<1>2. (ObiInv /\ LsuInv) /\ [Next]_vars => [Port!Next]_<<BusQueue, owed>>
  BY WholeStep, LsuIdles
<1>. QED
  BY <1>1, <1>2, LsuInvariant, PTL DEF Spec, PortSpec, Port!Spec

-----------------------------------------------------------------------------
(* The specification of the run, which is one or the other.                 *)
RunInv ==
  /\ alone \in BOOLEAN
  /\ IF alone THEN AloneInv /\ ex.kind = "bubble" /\ cnt_q = 0 ELSE ObiInv /\ LsuInv

LEMMA RunStep ==
  ASSUME RunInv, [MCNext]_allVars
  PROVE  RunInv' /\ [NoneRetracted]_vars /\ [Port!Next]_<<BusQueue, owed>>
<1>1. CASE BusSide
  <2>1. AloneInv /\ ObiNext /\ alone /\ alone' = alone /\ ex' = ex /\ cnt_q' = cnt_q
    BY <1>1 DEF BusSide, RunInv, lsuVars
  <2>2. AloneInv' /\ Port!Next
    BY <2>1, AloneStep
  <2>3. NoneRetracted
    BY <2>1, AlonePresents, PresentedOn DEF ObiNext
  <2>. QED
    BY <1>1, <2>1, <2>2, <2>3 DEF RunInv
<1>2. CASE Whole(Next)
  BY <1>2, WholeStep DEF Whole, RunInv
<1>3. CASE UNCHANGED allVars
  <2>1. alone' = alone /\ UNCHANGED vars /\ UNCHANGED obiVars /\ ex' = ex /\ cnt_q' = cnt_q
    BY <1>3 DEF allVars, vars, lsuVars
  <2>2. AloneInv => AloneInv'
    BY <2>1, Idles DEF AloneInv, obiVars, IsTransfers, AtMostOne
  <2>. QED
    BY <2>1, <2>2, LsuIdles DEF RunInv
<1>. QED
  BY <1>1, <1>2, <1>3 DEF MCNext

LEMMA RunInvariant == MCSpec => []RunInv
<1>1. MCInit => RunInv
  BY LsuInvInit, ObiInvInit DEF MCInit, RunInv, Init, ObiInit, AloneInv, IsTransfers, AtMostOne
<1>2. RunInv /\ [MCNext]_allVars => RunInv'
  BY RunStep
<1>. QED
  BY <1>1, <1>2, PTL DEF MCSpec

(* All of it for the specification of the run, for every set of transfers   *)
(* and instructions: the bus side also alone, behind a core that issues     *)
(* what it likes and with parity errors.                                    *)
THEOREM RunsAreSafe == MCSpec => [](CountersExact /\ BlameIsRight /\ StatusIsRight /\ PerformedOnce)
<1>1. RunInv => CountersExact /\ BlameIsRight /\ StatusIsRight /\ PerformedOnce
  <2>1. CASE alone
    <3>1. ObiInv /\ ~ExIsLsu /\ cnt_q = 0 /\ RunInv => CountsAgree
      BY DEF ObiInv, RegistersInv
    <3>2. RunInv => ObiInv /\ ~ExIsLsu /\ cnt_q = 0
      BY <2>1 DEF RunInv, AloneInv, ExIsLsu
    <3>3. ~ExIsLsu => PerformedOnce
      BY DEF PerformedOnce, IssuedOnce, KilledBeforeAccess, count_up, trans_valid, valid_0_i
    <3>. QED
      BY <2>1, <3>1, <3>2, <3>3, BlameFollows, LoadStoreParameters DEF CountersExact, StatusIsRight
  <2>2. CASE ~alone
    BY <2>2, CountsFollow, BlameFollows, StatusFollows, OnceFollows DEF RunInv, StatusIsRight
  <2>. QED
    BY <2>1, <2>2
<1>. QED
  BY <1>1, RunInvariant, PTL

THEOREM RunsAreAPort == MCSpec => PortSpec /\ RequestNotRetracted
<1>1. MCInit => Port!Init
  BY PortStarts DEF MCInit, Init
<1>2. RunInv /\ [MCNext]_allVars => [Port!Next]_<<BusQueue, owed>>
  BY RunStep
<1>3. RunInv /\ [MCNext]_allVars =>
        [\A t \in waiting : t \in waiting' \/ (owed' # <<>> /\ owed'[Len(owed')] = t)]_vars
  BY RunStep DEF NoneRetracted
<1>. QED
  BY <1>1, <1>2, <1>3, RunInvariant, PTL DEF MCSpec, PortSpec, Port!Spec, RequestNotRetracted
=============================================================================
