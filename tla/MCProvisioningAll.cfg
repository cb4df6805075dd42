SPECIFICATION FairSpec
CONSTANTS
  RetryCount = 2
  MaxStalls = 1
  Worlds <- AllWorlds
INVARIANTS
  TypeOK
  OneTenantOneActivation
  OutcomesAreTrue
PROPERTIES
  DecisionsStand
  EverythingSettles
