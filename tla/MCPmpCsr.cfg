SPECIFICATION Spec
CONSTANTS
  NumRegions = 2
  AddrBits = 2
  Granularity = 0
  GroupSize = 2
  SecureMonitor = TRUE
  CfgWrites <- MCCfgWrites
  AddrWrites <- MCAddrWrites
INVARIANTS NoReservedPerm MatchesBlock
PROPERTIES LockedRuleHolds NonSecureCannotGain MachineCodeSealed
