\* Two sessions of the owner of a check and one of somebody else.
CONSTANTS
  c1 = c1
  c2 = c2
  s1 = s1
  s2 = s2
  s3 = s3
  Members = {m1}
  Checks = {c1}
  InvalidId = c0
  Payloads = {c1, c0}
  MaxLog = 1
  MaxFaults = 1
  Sessions = {s1, s2, s3}
  Owned <- MCOwned
  Settings = {x1, x2}
SPECIFICATION ApiSpec
INVARIANTS
  ApiTypeOK
  DeletedOnce
CHECK_DEADLOCK FALSE
