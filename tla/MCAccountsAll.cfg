SPECIFICATION ResetSpec
CONSTANTS
  Requests = {r1, r2}
  Workloads <- AllWorkloads
  Pages = {g1, g2}
  PageWork <- MCPageWork
  MaxTries = 2
  MaxSessions = 3
  MaxCodes = 3
  MaxAttempts = 3
SYMMETRY Symmetry
CHECK_DEADLOCK FALSE
INVARIANTS
  TypeOK
  OneLiveSessionPerLogin
  CodesAreOneShot
  RacesAreBounded
  ResetPagesHold
PROPERTIES
  AttemptsNeverGoBack
