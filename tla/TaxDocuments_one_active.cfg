CONSTANTS
  Docs = {d1, d2}
  Requests = {r1}
  Accounts = {a1}
  None = None
  UploadSlots = {"closing"}
  Historical = {}
  MaxFaults = 0
  Files <- GoodFiles
SPECIFICATION Spec
INVARIANT OneVersionActive
