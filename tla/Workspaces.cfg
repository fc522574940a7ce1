\* Two accounts, one of them the founder's, two requests at a time.
CONSTANTS
  u1 = u1 u2 = u2 w1 = w1 w2 = w2 a1 = a1 a2 = a2 e1 = e1
  c1 = c1 c2 = c2
  Null = Null NoCall = NoCall NoTx = NoTx
  Users = {u1, u2}
  Workspaces = {w1, w2}
  Identities = {a1, a2}
  EmailOf <- SharedEmail
  Invites = {1}
  Callers = {c1, c2}
  Granted = {"owner", "editor"}
  Lookups <- EmailOrAccount
  Founder = u1
  FounderId = a1
  Home = w1
  Outset <- NoneOrOne
  Drivers = {"local", "d1"}
  MaxCalls = 3
SYMMETRY CallerSymmetry
SPECIFICATION Spec
INVARIANTS TypeOK OwnersKept InviteUsedOnce RevocationHolds
PROPERTIES SignInSettles
CHECK_DEADLOCK FALSE
