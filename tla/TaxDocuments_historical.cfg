\* A historical balance: processed, classified and discarded by two requests
\* of which one may die or fail to write a status.
CONSTANTS
  Docs = {h1}
  Requests = {r1, r2}
  Accounts = {a1}
  None = None
  UploadSlots = {"closing"}
  Historical = {h1}
  MaxFaults = 1
  Files <- GoodFiles
SPECIFICATION FairSpec
INVARIANT OpeningNeverInForce
PROPERTY ProcessingSettles
