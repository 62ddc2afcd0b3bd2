CONSTANTS
  MaxSessions = 2
  SessionEnc = 0
  MaxFaults = 2
SPECIFICATION Spec
PROPERTIES FreshIsPickedUp
