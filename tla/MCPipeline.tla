----------------------------- MODULE MCPipeline -----------------------------
EXTENDS Pipeline

CONSTANTS a0, a1, a2, u0, u1, h0, h1, d0, d1

MCAddrs == {a0, a1, a2, u0, u1, h0, h1, d0, d1}
MCSucc  == (a0 :> a1) @@ (a1 :> a2) @@ (a2 :> u0) @@ (u0 :> u1) @@ (u1 :> a1) @@ (h0 :> h1)
           @@ (d0 :> d1) @@ [x \in MCAddrs |-> x]
MCTarget == (u0 :> a1) @@ [x \in MCAddrs |-> u0]
MCDcsrs == {[step |-> s, stepie |-> s, ebreak |-> s] : s \in BOOLEAN}

(* Start-up code, two instructions that run at level M and U, a trap       *)
(* handler and a debug ROM.                                                *)
Prog(m, k0, k1, h, d) ==
  (a0 :> m) @@ (a1 :> "epc") @@ (a2 :> "mret") @@ (u0 :> k0) @@ (u1 :> k1)
  @@ (h0 :> h) @@ (h1 :> "mret") @@ (d0 :> d) @@ (d1 :> "dret")

Family(progs, b, e) == {[prog |-> p, hard |-> b, events |-> e] : p \in progs}
Pairs(ks, ls)       == {Prog("ie", k, l, "epc", "dcsr") : k \in ks, l \in ls}

(* Every pair of kinds without events; every kind before or after a taken  *)
(* branch with debug requests, and before one more with interrupts; what   *)
(* sleeps, fences and posts stores with NMIs; a request that stays.        *)
MCScenarios ==
  Family(Pairs(Kinds, Kinds), FALSE, {})
  \cup Family(Pairs(Kinds, {"taken"}), TRUE, {"debug"})
  \cup Family(Pairs(Kinds, {"alu"}), TRUE, {"irq"})
  \cup Family(Pairs({"store"}, {"fence"}), FALSE, {"irq", "nmi"})
  \cup Family(Pairs({"store"}, {"wfi"}), FALSE, {"debug", "nmi"})
  \cup Family(Pairs(Kinds, {"pop", "jump"}), TRUE, {"halt"})
  \cup Family({Prog("alu", "wfi", "jump", "epc", "dcsr")}, FALSE, {"irq"})
  \cup Family({Prog("ie", "alu", "ebreak", "epc", d) : d \in {"ebreak", "ecall"}}, FALSE, {"debug"})
  \cup Family({Prog("ie", "load", "taken", "taken", "dcsr")}, TRUE, {})
=============================================================================
