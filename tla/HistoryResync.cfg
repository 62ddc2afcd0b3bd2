CONSTANTS
  Syncs = {s1}
  t1 = t1
  t2 = t2
  Terms <- TwoTerms
  MaxMessage = 3
  Texts <- AllTexts
  TermsOf <- SomeWords
  Modes <- EveryMode
  PageSize = 2
  MaxInitial = 0
  MaxSyncs = 2
  MaxFaults <- NoFaults
SPECIFICATION Spec
PROPERTIES SyncIsRepeatable
CHECK_DEADLOCK FALSE
