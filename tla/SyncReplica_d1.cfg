\* Two devices bootstrap in D1 while a snapshot expires.
CONSTANTS
  w1 = w1 u1 = u1 d1 = d1 d2 = d2 thread = thread notice = notice
  NoUser = NoUser NoTx = NoTx NoRow = NoRow NoTombstone = NoTombstone
  NoCursor = NoCursor NoData = NoData NoSnapshot = NoSnapshot
  NoCall = NoCall NoBoot = NoBoot NoVersion = NoVersion
  Workspaces = {w1}
  Users = {u1}
  Invalid = {}
  Retentions = {}
  UserOf <- UserOfAll
  WorkspaceOf <- WorkspaceOfAll
  Follows <- FollowsOne
  Order <- OrderOf
  PullLimit = 1
  PageSize = 1
  SnapshotTTL = 2
  MaxLag = 1
  MaxBatch = 1
  Notifications = {notice}
  Records = {thread, notice}
  Devices = {d1, d2}
  Ops <- TwoPuts
  MaxVersion = 2
  MaxNow = 2
  SnapshotIds = {1, 2}
  Awaited = TRUE
SPECIFICATION ReplicaSpec
INVARIANTS ReplicaHoldsItsCursor
