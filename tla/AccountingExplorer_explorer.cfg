CONSTANTS
  Accounts = {1, 2, 3}
  Balances <- MCBalances
  Ledgers <- MCLedgers
  Openings <- MCOpenings
  PreviousClosings <- MCPreviousClosings
  Versions = {1, 2}
  Filters <- MCFilters
  PageSize = 2
  None = None
  MaxChanges = 3
  MaxChoices = 2

SPECIFICATION Spec
CHECK_DEADLOCK FALSE

INVARIANTS
  ReconciledRunsToBalance
  ReadyOpensAsClosed
  AnswersAgree
