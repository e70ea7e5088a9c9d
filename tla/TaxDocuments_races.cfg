\* Two closings, two requests on them, two accounts, files of which some are refused.
CONSTANTS
  Docs = {d1, d2}
  Requests = {r1, r2}
  Accounts = {a1, a2}
  None = None
  UploadSlots = {"closing"}
  Historical = {}
  MaxFaults = 0
  Files <- SomeFiles
SPECIFICATION Spec
SYMMETRY AllIdentifiers
INVARIANTS TypeOK UsableHasImport ReplacesOlderPublication RowsAreTraceable OneClosingInForce
PROPERTIES RevivalIsRepublication FailureNeverShadows
