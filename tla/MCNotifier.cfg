\* Two notifiers, messages of every kind.
CONSTANTS
  Members = {m1, m2}
  Checks = {c1}
  NoChange = noop
  Garbled = garbled
  Payloads = {c1, noop, garbled}
  MaxLog = 3
  MaxFaults = 2
SPECIFICATION FairSpec
INVARIANTS
  TypeOK
  NoSilentSkip
  CommitFollowsSuccess
  StoredWasSent
  CommittedWasMailed
  OneMailPerFault
PROPERTIES
  EveryMessageAttempted
\* The bound on the messages is reached and all of them are handled.
CHECK_DEADLOCK FALSE
