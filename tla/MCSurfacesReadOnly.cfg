SPECIFICATION Spec
CONSTANTS
  MaxEdits = 1
  MaxReconfigs = 1
INVARIANT ReadOnlyIsNotPlanned
CHECK_DEADLOCK FALSE
