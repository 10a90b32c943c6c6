SPECIFICATION FairSpec
CONSTANTS
  w1 = w1
  w2 = w2
  hub = hub
  cli = cli
  a = a
  b = b
  p1 = p1
  m1 = m1
  m2 = m2
  m3 = m3
  s1 = s1
  t1 = t1
  None = None
  Workers = {w1, w2}
  Hubs = {hub, cli}
  HubOf <- TwoHubs
  OpsOf <- WritersOnly
  Ids = {a, b}
  Projects = {p1}
  Msgs = {m1, m2, m3}
  Sessions = {s1}
  Threads = {t1}
  Requests <- ThreadSnapshots
  Windows <- MixedWindows
  TrustedAppends = TRUE
  MemoryProvider = FALSE
  FreshDestination = FALSE
  QuietReindex = FALSE
  MaxAppendAttempts = 2
  MaxOps = 4
  MaxFaults = 0
  MaxCrashes = 0
CHECK_DEADLOCK FALSE
INVARIANTS NoHybridTranscript
PROPERTIES AppendKeepsHistory EveryOperationEnds
