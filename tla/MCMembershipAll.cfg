SPECIFICATION LinkSpec
CONSTANTS
  Requests = {r1, r2}
  Worlds <- AllWorlds
  Emails = {"a", "b", "c"}
  MaxBatch = 2
  MaxMembers = 3
  MaxInvites = 3
  MaxTokens = 3
  MaxRows = 4
  Pages = {g1, g2}
SYMMETRY Symmetry
INVARIANTS
  LinksTypeOK
  LinkAnswersHold
  InvitationsHold
  RacesAreBounded
PROPERTIES
  RowsKeepTheirOwners
