\* The same requests on D1.
CONSTANTS
  i1 = i1 i2 = i2 i3 = i3 h1 = h1 h2 = h2
  NoIntent = NoIntent NoCall = NoCall NoQuota = NoQuota
  Intents = {i1, i2, i3}
  Hashes = {h1, h2}
  SizeOf <- TwoSizes
  Drivers = {"d1"}
  workspaceQuotaBytes = 2
  MaxNow = 2
SYMMETRY IntentSymmetry
SPECIFICATION Spec
INVARIANTS ReservationsFitQuota
CHECK_DEADLOCK FALSE
