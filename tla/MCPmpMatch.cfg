SPECIFICATION Spec
CONSTANTS
  NumRegions = 2
  AddrBits = 3
  Granularity = 2
  GroupSize = 1
  SecureMonitor = FALSE
  CfgWrites <- MCCfgWrites
  AddrWrites <- MCAddrWrites
INVARIANTS MatchesBlock
PROPERTIES SetClearKeepsOtherBits
