\* One call of each kind; the topics in the order of docker-compose.yml, two
\* partitions, two workers that consume, and the scheduler.
CONSTANTS
  h1 = h1
  p1 = p1
  g1 = g1
  s1 = s1
  statusChange = statusChange
  checkRequest = checkRequest
  pingWorker = pingWorker
  notifier = notifier
  scheduler = scheduler
  Calls = {h1, p1, g1, s1}
  Kind <- MCKind
  Topics <- MCTopics
  Partitions = 2
  Workers = {pingWorker, notifier, scheduler}
  Reads <- MCReads
  NoTopic = NoTopic
  MaxRestarts = 1
SPECIFICATION FairStartupSpec
INVARIANTS
  StartupTypeOK
  PoolOutlivesCalls
  LostForCause
  JoinsReadyTopic
PROPERTIES
  ShutdownEnds
\* The processes may all have ended.
CHECK_DEADLOCK FALSE
