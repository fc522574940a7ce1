\* Two pushes stamped in one order and committed in the other, then GC.
CONSTANTS
  w1 = w1 w2 = w2 u1 = u1 d1 = d1 thread = thread r1 = r1 r2 = r2
  NoUser = NoUser NoTx = NoTx NoRow = NoRow NoTombstone = NoTombstone
  NoCursor = NoCursor NoData = NoData Sessions = {u1} NoRequest = NoRequest Ended = Ended
  Workspaces = {w1}
  Records = {thread}
  Notifications = {}
  Users = {u1}
  Devices = {}
  Ops <- TwoPuts
  Invalid = {}
  MaxBatch = 1
  Retentions = {1}
  MaxVersion = 3
  MaxNow = 2
  Requests = {r1, r2}
  MaxLag = 1
SPECIFICATION SpecD1
INVARIANT NoSilentGap
