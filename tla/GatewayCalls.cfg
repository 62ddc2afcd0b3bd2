CONSTANTS
  Chats = {h1}
  NoChat = NoChat
  Operations = {"search_messages", "resolve_invite"}
  Errors = {"private_no_access"}
  MaxConcurrency = 2
  MinInterval = 2
  RetryLimit = 2
  MaxOperations = 3
  MaxFaults = 1
SPECIFICATION FairSpec
INVARIANTS TypeOK SlotsAccounted NetworkErrorIsPersistent
PROPERTIES SpacedStarts EveryCallEnds
CHECK_DEADLOCK FALSE
