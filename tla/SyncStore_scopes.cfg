\* Two workspaces and two users writing one notification with the same
\* op_ids.
CONSTANTS
  w1 = w1 w2 = w2 u1 = u1 u2 = u2 d1 = d1 thread = thread notice = notice
  NoUser = NoUser NoTx = NoTx NoRow = NoRow NoTombstone = NoTombstone
  NoCursor = NoCursor NoData = NoData
  Workspaces = {w1, w2}
  Records = {notice}
  Notifications = {notice}
  Users = {u1, u2}
  Devices = {}
  Ops <- NoticeOps
  Invalid <- InvalidNotice
  MaxBatch = 2
  Retentions = {0}
  MaxVersion = 2
  MaxNow = 1
SPECIFICATION Spec
INVARIANTS PushAnswersTruthfully SyncInv
PROPERTIES ImplementsFeed
