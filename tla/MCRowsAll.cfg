SPECIFICATION QueriesSpec
CONSTANTS
  Users <- MCUsers
  Fields <- MCFields
  Schema <- MCSchema
  MaxRows = 5
  Targets = {3}
  PageSize = 1
  MaxTouched = 1
  Payloads <- MCPayloads
  Queries <- MCQueries
  MaxPageSize = 2
  MaxRelationPages = 3
  Worlds <- MCWorlds
CHECK_DEADLOCK FALSE
INVARIANTS
  QueriesTypeOK
  ReadingIsWhole
PROPERTIES
  PageFollowsItsUser
  WritesAreSound
