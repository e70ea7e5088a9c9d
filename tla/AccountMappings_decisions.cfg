\* One account, two requests: every decision and generation on one mapping.
CONSTANTS
  Accounts = {a1}
  Sii = {s1, s2}
  Requests = {r1, r2}
  MaxCommits = 3
  None = None
  Outcomes <- AllOutcomes
SPECIFICATION Spec
SYMMETRY Interchangeable
CHECK_DEADLOCK FALSE
INVARIANTS OpenIsNewest AcceptedIsConfirmed LatestIsLearned
PROPERTY ClosedStaysClosed
