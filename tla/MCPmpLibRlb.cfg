SPECIFICATION LibSpec
CONSTANTS
  NumRegions = 2
  AddrBits = 4
  Granularity = 0
  GroupSize = 2
  SecureMonitor = TRUE
  CfgWrites = {}
  AddrWrites = {}
  Configs <- MCByTheBook
INVARIANT SetRlbTold
