\* A record that is deleted again long after its first delete.
CONSTANTS
  w1 = w1 w2 = w2 u1 = u1 u2 = u2 d1 = d1 thread = thread notice = notice
  NoUser = NoUser NoTx = NoTx NoRow = NoRow NoTombstone = NoTombstone
  NoCursor = NoCursor NoData = NoData
  Workspaces = {w1}
  Records = {thread}
  Notifications = {}
  Users = {u1}
  Devices = {}
  Ops <- DeleteOps
  Invalid = {}
  MaxBatch = 2
  Retentions = {1}
  MaxVersion = 3
  MaxNow = 2
SPECIFICATION Spec
PROPERTY PrunedDeletesAreOld
