SPECIFICATION Spec
CONSTANTS
  a0 = a0 a1 = a1 a2 = a2 u0 = u0 u1 = u1 h0 = h0 h1 = h1 d0 = d0 d1 = d1
  Addrs <- MCAddrs Succ <- MCSucc Target <- MCTarget Dcsrs <- MCDcsrs Scenarios <- MCScenarios
  BOOT = a0 EPC = u0 TRAP_EXC = h0 TRAP_IRQ = h0 TRAP_NMI = h0 DM_HALT = d0 DM_EXC = d1
INVARIANTS FetchedAtItsLevel NothingStaleRuns
PROPERTIES HartSpec WakeForDebugEnters DebugServed
