\* Two ids, one key, two workers, room for one job.
CONSTANTS
  j1 = j1 j2 = j2 u1 = u1 u2 = u2 k1 = k1 w1 = w1 w2 = w2 c1 = c1 c2 = c2
  NoKey = NoKey NoOwner = NoOwner NoCreate = NoCreate
  Unused = Unused Removed = Removed NoClaim = NoClaim
  NotSweeping = NotSweeping
  Jobs = {j1, j2}
  Users = {u1, u2}
  Calls <- TwoCalls
  Keys = {k1}
  Workers = {w1, w2}
  Creates = {c1, c2}
  maxConcurrentJobs = 1
  maxConcurrentJobsPerUser = 1
  jobTimeout = 1
  completedJobRetention = 1
  LeaseTime = 1
  MaxAttempts = 2
SPECIFICATION FairSpec
INVARIANTS TypeOK CapsHold KeyNamesOneJob LeaseExclusive
  FenceAdmitsLatestAttempt
PROPERTIES TerminalIsFinal
  AbandonedJobEnds
