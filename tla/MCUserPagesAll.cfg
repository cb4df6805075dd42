SPECIFICATION Spec
CONSTANTS
  Admins = {"ann", "bob"}
  MaxSeats = 3
  MaxMembers = 4
  MaxInvites = 8
  PageSize = 2
  Slots = {1, 2}
  Worlds <- MCWorlds
CHECK_DEADLOCK FALSE
INVARIANTS
  TypeOK
  ListsShowOwnActions
PROPERTIES
  PagesSettle
