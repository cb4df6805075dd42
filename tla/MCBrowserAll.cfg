SPECIFICATION Spec
CONSTANTS
  Accounts = {a1, a2}
  Tokens <- MCTokens
  Tabs = {b1, b2}
  Calls = {c1, c2}
  None = None
  Worlds <- MCWorlds
CHECK_DEADLOCK FALSE
INVARIANTS
  TypeOK
  SessionIsTheUsers
PROPERTIES
  EverythingSettles
