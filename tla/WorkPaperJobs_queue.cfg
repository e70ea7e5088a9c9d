\* Two processes, two requests, three jobs on two papers, one fault.
CONSTANTS
  Papers = {p1, p2}
  Callers = {c1, c2}
  Workers = {w1, w2}
  MaxJobs = 3
  MaxFaults = 1
  None = None
SPECIFICATION FairSpec
CHECK_DEADLOCK FALSE
INVARIANTS RunningIsHeld LiveIsLatest
PROPERTIES  PendingIsStarted JobsSettle
