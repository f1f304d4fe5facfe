\* A ping worker, and two processes of the notifier: a rebalance takes the
\* partition from one that has a message in hand.
CONSTANTS
  Members = {w1}
  Notifiers = {n1, n2}
  Checks = {c1}
  InvalidId = c0
  Payloads = {c1, c0}
  NoChange = noop
  Garbled = garbled
  MaxLog = 2
  MaxTopic = 4
  MaxFaults = 1
SPECIFICATION FairPipeSpec
INVARIANTS
  PipeTypeOK
  QuietMailIsRight
  NoChangeIsLost
PROPERTIES
  EveryChangeTold
\* The bounds are reached and everything is told.
CHECK_DEADLOCK FALSE
