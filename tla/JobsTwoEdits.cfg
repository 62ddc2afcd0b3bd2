CONSTANTS
  Requests = {r1}
  Slots = {s1, s2}
  Handlers = {h1, h2}
  NoJob = NoJob
  RecoverLimit = 1
  MaxRechecks = 2
  MaxFaults <- NoFaults
SPECIFICATION Spec
INVARIANTS EditedTextIsAnalysed
SYMMETRY Symmetry
CHECK_DEADLOCK FALSE
