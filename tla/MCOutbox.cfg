\* Two processes with one worker each and three rows; the oldest one has no
\* handler and is picked again every time its lease runs out, with room for
\* another row beside it.
CONSTANTS
  Keys = {1, 2, 3}
  Unsupported = {1}
  Processes = {p1, p2}
  Slots = {s1}
  BatchSize = 2
  TTL = 0
  Attempts = 2
  MaxFaults = 2
SPECIFICATION FairSpec
INVARIANTS
  TypeOK
  SuccessIsPublished
  LeaseExclusive
  DuplicateHasCause
PROPERTIES
  ImplementsContract
  EveryRowCloses
