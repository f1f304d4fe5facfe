\* One worker, one session of the owner: an event and a stale page.
CONSTANTS
  c1 = c1
  c2 = c2
  s1 = s1
  s2 = s2
  s3 = s3
  Members = {m1}
  Checks = {c1}
  InvalidId = c0
  Payloads = {c1, c0}
  MaxLog = 2
  MaxFaults = 0
  Sessions = {s1}
  Owned <- MCOwned
  Settings = {x1, x2}
SPECIFICATION ApiSpec
INVARIANTS
  NoEventWithoutChange
CHECK_DEADLOCK FALSE
