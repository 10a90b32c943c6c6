SPECIFICATION Spec
CONSTANTS
  w1 = w1
  w2 = w2
  hub = hub
  c1 = c1
  c2 = c2
  c3 = c3
  food = food
  toast = toast
  avocado_toast = avocado_toast
  pizza = pizza
  mine = mine
  yours = yours
  None = None
  Unknown = Unknown
  Workers = {w1, w2}
  Hubs = {hub}
  HubOf <- OneHub
  Conversations = {c1, c2, c3}
  ScopeOf <- TwoOwners
  Attributes = {food}
  Values = {toast, avocado_toast, pizza}
  TextsIn <- Texts
  Batches <- Meals
  MaxMsgs = 2
  MaxSaves = 3
  MaxSupersedes = 1
  MaxFailures = 1
SYMMETRY Interchangeable
CHECK_DEADLOCK FALSE
INVARIANTS CorrectionWins OneActiveObject
PROPERTIES SupersededStays ScopesAreSeparate
