SPECIFICATION FairSpec
CONSTANTS
  None = None
  Confs <- MCConfs
INVARIANTS TypeOK SuccessIsEarned NotFoundIsTolerated TimeoutIsHonest
PROPERTIES CallerReturns
CHECK_DEADLOCK FALSE
