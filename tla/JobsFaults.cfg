CONSTANTS
  Requests = {r1, r2}
  Slots = {s1, s2}
  Handlers = {h1}
  NoJob = NoJob
  RecoverLimit = 1
  MaxRechecks = 0
  MaxFaults <- Lossless
SPECIFICATION Spec
INVARIANTS TypeOK JobRunsOnce SingleRun DoneIsAnswered RunningIsOwned
PROPERTIES DoneIsFinal KeepsPromise
SYMMETRY Symmetry
CHECK_DEADLOCK FALSE
