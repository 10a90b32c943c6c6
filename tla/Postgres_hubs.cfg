SPECIFICATION Spec
CONSTANTS
  c1 = c1
  c2 = c2
  c3 = c3
  m1 = m1
  m2 = m2
  m3 = m3
  t1 = t1
  t2 = t2
  t3 = t3
  u1 = u1
  u2 = u2
  Connections = {c1, c2, c3}
  Users = {u1, u2}
  Clients = {k1, k2}
  States = {x1, x2}
  Browsers = {b1, b2}
  MaxClients = 1
  MaxStates = 2
  MaxBrowserStates = 1
  Codes = {code1}
  Families = {f1}
  Pairs = {p1, p2, p3}
  Memories = {m1, m2, m3}
  Batches = {t1, t2, t3}
  Threads = {thread1}
  Sessions = {session1}
  TrustedAppends = TRUE
  Relationships = {r1, r2, r3}
  MaxCalls = 3
  None = None
INVARIANTS LimitsHold RevokedFamilyIsDead AppendsSurvive OneOfEach
ACTION_CONSTRAINT FirstUnused
SYMMETRY Interchangeable
CHECK_DEADLOCK FALSE
