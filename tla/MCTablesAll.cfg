SPECIFICATION Spec
CONSTANTS
  i1 = i1
  i2 = i2
  p1 = p1
  p2 = p2
  t1 = t1
  t2 = t2
  t3 = t3
  f1 = f1
  f2 = f2
  Instances = {i1, i2}
  Pages = {p1, p2}
  Names = {t1, t2, t3}
  Fields = {f1, f2}
  None = None
  MaxJobs = 3
  RetryCount = 2
  MaxStalls = 1
  MaxPolls = 2
  PageSize = 1
  Worlds <- MCWorlds
CHECK_DEADLOCK FALSE
INVARIANTS
  TypeOK
  TablesComeFromJobs
PROPERTIES
  PageFollowsItsJob
