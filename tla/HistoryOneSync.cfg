CONSTANTS
  Syncs = {s1}
  t1 = t1
  t2 = t2
  Terms <- TwoTerms
  MaxMessage = 4
  Texts <- AllTexts
  TermsOf <- EveryWord
  Modes <- ForwardOnly
  PageSize = 2
  MaxInitial = 3
  MaxSyncs = 3
  MaxFaults <- Refused
SPECIFICATION FairSpec
INVARIANTS CompleteMeansIndexed
PROPERTIES SyncIsRepeatable DoneIsComplete SyncEnds
CHECK_DEADLOCK FALSE
