SPECIFICATION Spec
CONSTANTS
  Users = {u, m}
  Visitors = {u}
  Metausers = {m}
  SessionIds = {s1, s2, s3}
  Tabs = {t1}
  Calls = {c1, c2}
  Requests = {r1, r2}
  Updates = {a1}
  Changes <- Switches
  LockLimit = 2
  MaxAttempts = 2
  MaxEvents = 2
  None = None
INVARIANTS
  ReplacedIsRevoked
  RotationIsNotReuse
PROPERTIES
  RevocationIsFinal
CHECK_DEADLOCK FALSE
SYMMETRY Symmetry
