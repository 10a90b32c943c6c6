SPECIFICATION FairSpec
CONSTANTS
  Handlers = {h1, h2}
  Clients = {c1}
  Codes = {k1}
  Families = {f1}
  Pairs = {p1, p2, p3}
  CodeTTL = 0
  RefreshTTL = 1
  Day = 1
  TextTimestamps = TRUE
  MaxTime = 1
  MaxFaults = 1
  MaxCrashes = 1
  None = None
CHECK_DEADLOCK FALSE
INVARIANTS RevokedFamilyIsDead GrantYieldsOnePair OneUsableRefreshToken OrphanNeedsTwoFailures
PROPERTIES ReuseRevokes
