SPECIFICATION Spec
CONSTANTS
  Names = {"a"}
  Clients = {c1, c2, c3}
  Serves <- MCSameNames
  NoRow = NoRow
  GitFaults = TRUE
  DBFaults = TRUE
  DiskFaults = TRUE
  MaxCrashes = 2
SYMMETRY ClientSymmetry
INVARIANTS AuditTrailTrue RowHasDirectory NoOrphanDirectory OnlyCreatorIsAdmin CreatorIsAdmin
