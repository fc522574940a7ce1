\* Three requests for two files of which the quota holds the larger.
CONSTANTS
  i1 = i1 i2 = i2 i3 = i3 h1 = h1 h2 = h2
  NoIntent = NoIntent NoCall = NoCall NoQuota = NoQuota
  Intents = {i1, i2, i3}
  Hashes = {h1, h2}
  SizeOf <- TwoSizes
  Drivers = {"local", "d1"}
  workspaceQuotaBytes = 2
  MaxNow = 2
SYMMETRY IntentSymmetry
SPECIFICATION Spec
INVARIANTS TypeOK QuotaKept
PROPERTIES IntentEndsOnce
CHECK_DEADLOCK FALSE
