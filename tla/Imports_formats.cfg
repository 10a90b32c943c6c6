SPECIFICATION ImportsSpec
CONSTANTS
  a = a
  b = b
  x = x
  y = y
  z = z
  s1 = s1
  s2 = s2
  p1 = p1
  p2 = p2
  Missing = Missing
  Refused = Refused
  Blank = Blank
  NotText = NotText
  Texts = {a, b}
  Ids = {x, y, z}
  Sessions = {s1, s2}
  Paths = {p1, p2}
  OpenPaths = {p1}
  FirstRecords <- First
  LaterRecords <- Later
  OtherFiles <- Others
  MaxRecords <- Lengths
  ImportFormats = {"claude-code", "copilot-cli", "codex", "deepseek-harness", "pi", "qwen", "droid", "gemini", "hermes", "opencode", "deepseek-share", "manual", "csv"}
  Window = 1
  InactiveAfter = 1
  MaxConversations = 2
  Uploads <- Posted
  MaxRequestBytes = 2
  MaxFileBytes = 1
  MaxSchemaBytes = 1
  MaxClock = 1
  MaxImports = 2
  MaxFaults = 1
CHECK_DEADLOCK FALSE
INVARIANTS ConflictMeansRewritten ImportsWhatWasDiscovered OkMeansStored
