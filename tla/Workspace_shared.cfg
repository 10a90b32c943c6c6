SPECIFICATION Spec
CONSTANTS
  a = a
  b = b
  f1 = f1
  f2 = f2
  f3 = f3
  Processes = {a, b}
  u1 = u1
  local = local
  home1 = home1
  m1 = m1
  m2 = m2
  m3 = m3
  Users = {u1}
  Projects = {local, home1}
  Local = local
  DefaultOf <- MCDefaultOf
  Memories = {m1, m2, m3}
  Sessions = {s1}
  Handoffs = {f1, f2, f3}
  Legacy <- MCLegacy
  MaxDepth = 2
  MaxValidationDepth = 2
  MaxRequests = 3
  MaxAdmin = 1
  None = None
INVARIANTS TypeOK LineageStaysInProject HandoffsFormChains
CONSTRAINT OneAreaAtATime
SYMMETRY Interchangeable
CHECK_DEADLOCK FALSE
