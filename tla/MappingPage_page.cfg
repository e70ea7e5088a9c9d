CONSTANTS
  Accounts = {a1, a2}
  s1 = s1
  s2 = s2
  Sii = {s1, s2}
  Suggestions <- MCSuggestions
  Filters <- MCFilters
  None = None
  Sent = Sent
  MaxGestures = 4
  MaxEvents = 1

SPECIFICATION Spec
CHECK_DEADLOCK FALSE

INVARIANTS
  ShownIsCurrent
PROPERTY
  ApprovalIsExplicit
