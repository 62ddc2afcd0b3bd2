CONSTANTS
  Admins = {a1, a2}
  Askers = {a1}
  Users = {u}
  Nobody = nobody
  Tokens = {k1, k2}
  Lookups = {l1}
  Callbacks = {c1, c2}
  MaxFaults = 1
SPECIFICATION FairSpec
INVARIANTS TypeOK TableMatchesAudit EventsWereAsked
PROPERTIES DeadStaysDead VerdictsSettle
