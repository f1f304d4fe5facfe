\* Two schedulers, three checks and batches of one: a check may have to wait.
CONSTANTS
  c1 = c1
  c2 = c2
  c3 = c3
  Checks = {c1, c2, c3}
  Interval <- MCInterval
  Schedulers = {s1, s2}
  BatchLimit = 1
  MaxOverdue = 2
  MaxHeld = 2
  MaxLocks = 1
  MaxFaults = 2
SPECIFICATION FairSpec
INVARIANTS
  TypeOK
  OncePerInterval
  NobodyStarves
PROPERTIES
  RequestedForever
\* Time stops at MaxOverdue.
CHECK_DEADLOCK FALSE
