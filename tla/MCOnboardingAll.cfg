SPECIFICATION DirectorySpec
CONSTANTS
  Keys = {k1, k2, k3, k4}
  RawKeys = {k3, k4}
  Payloads = {"basic", "pro", "other"}
  Slug <- MCSlug
  Pages = {g}
  Requests = {r1, r2}
  MaxRuns = 2
  MaxStalls = 1
  MaxEdits = 1
  Worlds <- AllWorlds
  Filters <- MCFilters
  PageSize = 1
CHECK_DEADLOCK FALSE
INVARIANTS
  DirectoryTypeOK
  DirectoryIsOfItsFilters
PROPERTIES
  PageFollowsItsRequest
  ContractKept
