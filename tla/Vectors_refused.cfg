SPECIFICATION Spec
CONSTANTS
  Providers = {"lancedb"}
  m1 = m1
  m2 = m2
  Memories = {m1, m2}
  small = small
  wide = wide
  other = other
  Models = {small, wide, other}
  DimensionOf <- MCDimensionOf
  Windows = {1, 2}
  AllowFallback = FALSE
  MaxMessages = 2
  MaxStarts = 3
  MaxWrites = 1
  MaxFaults = 0
  None = None
PROPERTY RefusesAnotherModel
CHECK_DEADLOCK FALSE
