CONSTANTS
  MaxUploads = 2
  Categories <- MCCategories
  None = None
  Sent = Sent
  MaxFaults = 1
  MaxGestures = 6
  BalanceRoles <- MCBalanceRoles

SPECIFICATION Spec
CHECK_DEADLOCK FALSE

INVARIANTS
  FormsAreKept
  HistoryIsCurrent
