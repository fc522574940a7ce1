\* One device pulls and bootstraps while records change and history is pruned.
CONSTANTS
  w1 = w1 u1 = u1 d1 = d1 d2 = d2 thread = thread notice = notice
  NoUser = NoUser NoTx = NoTx NoRow = NoRow NoTombstone = NoTombstone
  NoCursor = NoCursor NoData = NoData NoSnapshot = NoSnapshot
  NoCall = NoCall NoBoot = NoBoot NoVersion = NoVersion
  Workspaces = {w1}
  Users = {u1}
  Invalid = {}
  Retentions = {0}
  UserOf <- UserOfAll
  WorkspaceOf <- WorkspaceOfAll
  Follows <- FollowsAll
  Order <- OrderOf
  PullLimit = 1
  PageSize = 1
  SnapshotTTL = 1
  MaxLag = 0
  MaxBatch = 1
  Notifications = {notice}
  Records = {thread, notice}
  Devices = {d1}
  Ops <- MixedOps
  MaxVersion = 3
  MaxNow = 1
  SnapshotIds = {1, 2}
  Awaited = FALSE
SPECIFICATION ReplicaSpec
INVARIANTS ReplicaHoldsItsCursor SnapshotsAreOnePoint
  CheckInsAccepted
