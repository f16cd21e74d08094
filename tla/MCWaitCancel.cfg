SPECIFICATION AnsweringSpec
CONSTANTS
  None = None
  Confs <- MCConfs
PROPERTIES CancelEndsTheLoop
CHECK_DEADLOCK FALSE
