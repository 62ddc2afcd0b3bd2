CONSTANTS
  MaxSessions = 2
  SessionEnc = 1
  MaxFaults = 2
SPECIFICATION FairSpec
INVARIANTS TypeOK
PROPERTIES RevokedStaysDown LogoutIsMarked StatusFollows ReadyFollows
