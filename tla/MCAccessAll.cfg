SPECIFICATION Spec
CONSTANTS
  Requests = {r1, r2}
  Worlds <- AllWorlds
  Perms = {"read", "manage"}
  Roles = {"clerk", "boss"}
  PermsOf <- OnePermEach
  TTL = 2
  MaxDelay = 1
  MaxSessions = 1
CHECK_DEADLOCK FALSE
INVARIANTS
  TypeOK
  AccessIsJustified
PROPERTIES
  SettingsAreKept
