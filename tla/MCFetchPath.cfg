SPECIFICATION FairSpec
CONSTANTS
  Words = 4
  ALBUF_DEPTH = 3
  MAX_OUTSTANDING = 2
  Targets <- MCTargets
INVARIANTS OwnInstruction FaultIsOwn CountsExact
PROPERTIES InstructionsKeepComing
