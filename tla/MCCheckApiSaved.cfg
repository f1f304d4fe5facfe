\* The settings of a saved check, with one session of its owner.
CONSTANTS
  c1 = c1
  c2 = c2
  s1 = s1
  s2 = s2
  s3 = s3
  Members = {m1}
  Checks = {c1}
  InvalidId = c0
  Payloads = {c1, c0}
  MaxLog = 1
  MaxFaults = 0
  Sessions = {s1}
  Owned <- MCOwned
  Settings = {x1, x2}
SPECIFICATION ApiSpec
INVARIANTS
  ChangesSaved
CHECK_DEADLOCK FALSE
