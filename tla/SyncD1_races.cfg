\* Two pushes with tying revisions and a reused op_id, under GC.
CONSTANTS
  w1 = w1 w2 = w2 u1 = u1 d1 = d1 thread = thread r1 = r1 r2 = r2
  NoUser = NoUser NoTx = NoTx NoRow = NoRow NoTombstone = NoTombstone
  NoCursor = NoCursor NoData = NoData Sessions = {u1} NoRequest = NoRequest Ended = Ended
  Workspaces = {w1}
  Records = {thread}
  Notifications = {}
  Users = {u1}
  Devices = {d1}
  Ops <- RaceOps
  Invalid = {}
  MaxBatch = 2
  Retentions = {1}
  MaxVersion = 4
  MaxNow = 2
  Requests = {r1, r2}
  MaxLag = 1
SYMMETRY Symmetry
SPECIFICATION SpecD1
INVARIANTS VersionsContiguous RowsHoldWinners TombstonesBehindRows
  AnswersTruthfullyD1
PROPERTIES ActiveDeviceCatchesUp OnlyRacesFail
