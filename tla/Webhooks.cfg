\* One webhook with a hook, one delivery, two workers, two updates.
CONSTANTS
  w1 = w1 d1 = d1 k1 = k1 k2 = k2 x1 = x1 x2 = x2 h1 = h1
  Unused = Unused Deleted = Deleted NoUpdate = NoUpdate
  Webhooks = {w1}
  Deliveries = {d1}
  Hooks = {h1}
  Updates = {x1, x2}
  Workers = {k1, k2}
  limit = 1
SPECIFICATION FairSpec
INVARIANTS TypeOK HooksAgree OneWorker
PROPERTIES EndedStaysEnded InFlightIsReturned
