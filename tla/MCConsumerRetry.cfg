\* One member, one message, one failed commit.
CONSTANTS
  Members = {m1}
  Payloads = {x}
  MaxLog = 1
  MaxFaults = 1
SPECIFICATION FairConsumerSpec
PROPERTIES
  CommitIsRetried
CHECK_DEADLOCK FALSE
