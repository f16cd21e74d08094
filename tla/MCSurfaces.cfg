SPECIFICATION Spec
CONSTANTS
  MaxEdits = 2
  MaxReconfigs = 1
INVARIANTS
  TypeOK
  UnknownOnlyUnmerged
  RefusedZeroNotSent
  OnlyUnsetIsRefused
  Converges
PROPERTY UnsetIsOnlyPutBack
CHECK_DEADLOCK FALSE
