SPECIFICATION MCSpec
CONSTANTS
  DEPTH = 2
  Transfers <- MCTransfers
  Instructions <- MCInstructions
INVARIANTS CountersExact BlameIsRight StatusIsRight PerformedOnce
PROPERTIES PortSpec RequestNotRetracted MovesOn
