SPECIFICATION AdoptionFairSpec
CONSTANTS
  None = None
  Confs <- MCConfs
  AdoptConf <- MCAdoptConf
  MaxApplies = 2
  MaxEdits = 1
INVARIANTS FoundIsSafeToUse ConnectedBeforeWritten
PROPERTIES NeverAdoptedTwice ApplyEnds
CHECK_DEADLOCK FALSE
