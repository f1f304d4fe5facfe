\* Two workers that may overlap after a rebalance.
CONSTANTS
  Members = {m1, m2}
  Checks = {c1}
  InvalidId = c0
  Payloads = {c1, c0}
  MaxLog = 3
  MaxFaults = 2
SPECIFICATION Spec
INVARIANTS
  TypeOK
  StatusIsLastAnnounced
  EventHasRun
  EventsAlternate
\* The bound on the requests is reached and all of them are handled.
CHECK_DEADLOCK FALSE
