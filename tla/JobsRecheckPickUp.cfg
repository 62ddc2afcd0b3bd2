CONSTANTS
  Requests = {r1}
  Slots = {s1, s2}
  Handlers = {h1}
  NoJob = NoJob
  RecoverLimit = 1
  MaxRechecks = 1
  MaxFaults <- RedisFaults
SPECIFICATION FairSpec
INVARIANTS RunEndsRecorded
PROPERTIES QueuedIsPicked
CHECK_DEADLOCK FALSE
