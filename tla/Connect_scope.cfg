\* The instance of Connect.cfg, and a revocation in another workspace.
CONSTANTS
  a1 = a1 a2 = a2 e1 = e1 e2 = e2
  Auths = {a1, a2}
  Envs = {e1, e2}
  k1 = k1
  Codes = {k1}
  u1 = u1 p1 = p1 p2 = p2
  Scopes <- TwoWorkspaces
  Approvers <- FirstWorkspace
  w1 = w1 w2 = w2
  Workers = {w1, w2}
  tunnel = tunnel
  Parts = {tunnel}
  c1 = c1
  Ciphertexts = {c1}
  None = None Unused = Unused Purged = Purged
  LimitScope = "account"
  maxActiveEnvironments = 1
  AuthTime = 1
  ProvisionTime = 1
  RedeliveryWindow = 1
  ActivationTime = 1
  ClaimTime = 1
  RetryTime = 1
  RetentionTime = 0
  batchSize = 1
SPECIFICATION Spec
PROPERTIES CutOffOnlyWithEnvironment
