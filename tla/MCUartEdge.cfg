SPECIFICATION FirmwareSpec
CONSTANTS
  MaxCount = 56
  CharBits = 3
  ShortBits = 5
  IntBits = 8
  LongLongBits = 9
  Jobs <- MCJobs
  WordValues = 4
  Bases = {1, 14}
  MaxCalls = 2
  MaxTime = 16
  DataBits = 2
  ClocksPerBaud = 4
  FifoDepth = 2
  CQUEUE_SIZE = 2
  LeftInMemory = {0, 254}
  Sessions <- MCSessions
  NumRegions = 12
  AddrBits = 9
  Granularity = 0
  GroupSize = 4
  SecureMonitor = TRUE
  CfgWrites = {}
  AddrWrites = {}
  Configs = {}
  Layouts <- MCLayouts
  MaxSaid = 48
INVARIANT EveryStartIsSeen
CHECK_DEADLOCK FALSE
