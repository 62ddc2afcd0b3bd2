CONSTANTS
  Syncs = {s1, s2}
  t1 = t1
  t2 = t2
  Terms <- TwoTerms
  MaxMessage = 3
  Texts <- AllTexts
  TermsOf <- SameWords
  Modes <- EveryMode
  PageSize = 2
  MaxInitial = 2
  MaxSyncs = 2
  MaxFaults <- Interrupted
SPECIFICATION Spec
INVARIANTS TypeOK NothingSkipped CountsAreExact
PROPERTIES CursorGoesForward
SYMMETRY Symmetry
CHECK_DEADLOCK FALSE
