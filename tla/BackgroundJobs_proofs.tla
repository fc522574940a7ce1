----------------------- MODULE BackgroundJobs_proofs -----------------------
(***************************************************************************)
(* Proofs about BackgroundJobs, for any number of jobs, users, keys and    *)
(* workers, any caps and any durations.                                    *)
(*                                                                         *)
(* JobSteps and ClaimSteps reduce the seventeen actions to what they do to *)
(* one row and to one claim; each part of JobsInv is then preserved by a   *)
(* lemma of its own.                                                       *)
(***************************************************************************)
EXTENDS BackgroundJobs, FiniteSetTheorems, TLAPS

\* A row that is there is a record of background_jobs.
LEMMA PresentJobs ==
  ASSUME TypeOK, NEW j \in Jobs, Present(j)
  PROVE  jobs[j] \in Job
BY DEF TypeOK, Present

\* Setting one column keeps a row a row.
LEMMA JobUpdates ==
  ASSUME NEW job \in Job
  PROVE  /\ \A x \in Statuses : [job EXCEPT !.status = x] \in Job
         /\ \A x \in BOOLEAN : [job EXCEPT !.timedOut = x] \in Job
         /\ \A x \in 0..jobTimeout : [job EXCEPT !.idle = x] \in Job
         /\ \A x \in 0..completedJobRetention : [job EXCEPT !.done = x] \in Job
         /\ \A x \in Workers \cup {NoOwner} : [job EXCEPT !.owner = x] \in Job
         /\ \A x \in 0..LeaseTime : [job EXCEPT !.lease = x] \in Job
<1>1. \A x \in Statuses : [job EXCEPT !.status = x] \in Job
  BY DEF Job
<1>2. \A x \in BOOLEAN : [job EXCEPT !.timedOut = x] \in Job
  BY DEF Job
<1>3. \A x \in 0..jobTimeout : [job EXCEPT !.idle = x] \in Job
  BY DEF Job
<1>4. \A x \in 0..completedJobRetention : [job EXCEPT !.done = x] \in Job
  BY DEF Job
<1>5. \A x \in Workers \cup {NoOwner} : [job EXCEPT !.owner = x] \in Job
  BY DEF Job
<1>6. \A x \in 0..LeaseTime : [job EXCEPT !.lease = x] \in Job
  BY DEF Job
<1>7. QED BY <1>1, <1>2, <1>3, <1>4, <1>5, <1>6

\* The same for what a worker believes.
LEMMA ClaimUpdates ==
  ASSUME NEW claim \in Claim
  PROVE  /\ \A x \in 0..LeaseTime : [claim EXCEPT !.left = x] \in Claim
         /\ [claim EXCEPT !.beat = TRUE] \in Claim
BY DEF Claim

\* The ages and leases the statements write are in range.
LEMMA Zeros ==
  0 \in 0..jobTimeout /\ 0 \in 0..completedJobRetention
  /\ 0 \in 0..LeaseTime /\ LeaseTime \in 0..LeaseTime
BY JobConstants

\* What finish and abortJob write is a row.
LEMMA FinishedJob ==
  ASSUME NEW job \in Job, NEW status \in Statuses
  PROVE  Finished(job, status) \in Job
<1> DEFINE a == [job EXCEPT !.status = status]
           b == [a EXCEPT !.done = 0]
           c == [b EXCEPT !.idle = 0]
           d == [c EXCEPT !.owner = NoOwner]
<1>1. a \in Job  BY JobUpdates
<1>2. b \in Job  BY <1>1, JobUpdates, Zeros
<1>3. c \in Job  BY <1>2, JobUpdates, Zeros
<1>4. d \in Job  BY <1>3, JobUpdates
<1> HIDE DEF d
<1>5. [d EXCEPT !.lease = 0] \in Job
  BY <1>4, JobUpdates, Zeros
<1>6. QED BY <1>5 DEF d, Finished

\* What the first statement of cleanupExpired writes is a row.
LEMMA TimedOutJob ==
  ASSUME NEW job \in Job
  PROVE  TimedOut(job) \in Job
<1>1. Finished(job, "error") \in Job
  BY FinishedJob DEF Statuses
<1>2. QED BY <1>1, JobUpdates DEF TimedOut

\* Time keeps a row a row.
LEMMA AgedJob ==
  ASSUME NEW job \in Job
  PROVE  Aged(job) \in Job
<1>1. /\ Older(job.idle, jobTimeout) \in 0..jobTimeout
      /\ Older(job.done, completedJobRetention) \in 0..completedJobRetention
      /\ Sooner(job.lease) \in 0..LeaseTime
  BY JobConstants DEF Job, Older, Sooner
<1> DEFINE a == [job EXCEPT !.idle = Older(job.idle, jobTimeout)]
           b == [job EXCEPT !.done = Older(job.done, completedJobRetention)]
<1>2. a \in Job /\ b \in Job
  BY <1>1, JobUpdates
<1>3. a.lease = job.lease /\ b.lease = job.lease
  BY DEF Job
<1>4. Aged(job) = [a EXCEPT !.lease = Sooner(a.lease)]
      \/ Aged(job) = [b EXCEPT !.lease = Sooner(b.lease)]
  BY DEF Aged
<1> HIDE DEF a, b
<1>5. QED BY <1>1, <1>2, <1>3, <1>4, JobUpdates

\* An insert adds one streaming row without a lease, and only that.
LEMMA InsertedJob ==
  ASSUME TypeOK, NEW j \in Jobs, NEW params \in CreateParams,
         InsertJob(j, params)
  PROVE  /\ jobs' \in [Jobs -> Job \cup {Unused, Removed}]
         /\ jobs'[j] \in Job
         /\ jobs[j] = Unused
         /\ jobs'[j].status = "streaming" /\ jobs'[j].timedOut = FALSE
         /\ jobs'[j].key = params.key /\ jobs'[j].user = params.user
         /\ jobs'[j].owner = NoOwner /\ jobs'[j].lease = 0
         /\ \A i \in Jobs \ {j} : jobs'[i] = jobs[i]
<1> DEFINE used == {i \in Jobs : jobs[i] # Unused}
<1>1. PICK started \in 0..Cardinality(used) :
        /\ jobs[j] = Unused
        /\ jobs' = [jobs EXCEPT ![j] =
             [user |-> params.user, key |-> params.key, status |-> "streaming",
              timedOut |-> FALSE, executable |-> params.executable,
              started |-> started,
              idle |-> 0, done |-> 0, owner |-> NoOwner, lease |-> 0,
              attempts |-> 0]]
  BY DEF InsertJob
<1>2. Cardinality(used) \in Nat
  BY JobConstants, FS_Subset, FS_CardinalityType
<1>3. started \in Nat
  BY <1>1, <1>2
<1> DEFINE job == [user |-> params.user, key |-> params.key,
                   status |-> "streaming", timedOut |-> FALSE,
                   executable |-> params.executable, started |-> started,
                   idle |-> 0, done |-> 0, owner |-> NoOwner, lease |-> 0,
                   attempts |-> 0]
<1>4. job \in Job
  BY <1>3, JobConstants DEF Job, CreateParams, Statuses
<1>5. job.status = "streaming" /\ job.timedOut = FALSE
      /\ job.key = params.key /\ job.user = params.user
      /\ job.owner = NoOwner /\ job.lease = 0
  OBVIOUS
<1>6. jobs' = [jobs EXCEPT ![j] = job]
  BY <1>1
<1> HIDE DEF job
<1>7. QED
  BY <1>1, <1>4, <1>5, <1>6, ZenonT(60) DEF TypeOK

\* Every step keeps the types, one case per call.
LEMMA TypeStep ==
  ASSUME TypeOK, [Next]_vars
  PROVE  TypeOK'
<1> USE DEF TypeOK
<1>1. ASSUME NEW params \in Calls, createJob(params) PROVE TypeOK'
  <2>1. params \in CreateParams
    BY JobConstants
  <2>2. CASE WithKey(params.key) # {}
    BY <1>1, <2>1, <2>2 DEF createJob, Answered, WithKey, CreateParams
  <2>3. CASE WithKey(params.key) = {}
    <3>1. PICK j \in Jobs : InsertJob(j, params) /\ Answered(params.key, j)
      BY <1>1, <2>3 DEF createJob
    <3>2. jobs' \in [Jobs -> Job \cup {Unused, Removed}]
      BY <2>1, <3>1, InsertedJob
    <3>3. answers' \subseteq [key: Keys, job: Jobs]
      BY <2>1, <3>1 DEF Answered, CreateParams
    <3>4. QED BY <1>1, <3>2, <3>3 DEF createJob
  <2>4. QED BY <2>2, <2>3
<1>2. ASSUME NEW params \in Calls, NEW c \in Creates, BeginCreateInD1(c, params)
      PROVE TypeOK'
  BY <1>2, JobConstants DEF BeginCreateInD1, Create
<1>3. ASSUME NEW c \in Creates, LookUpKey(c) PROVE TypeOK'
  BY <1>3 DEF LookUpKey, InCreate, Create, Answered, WithKey, CreateParams
<1>4. ASSUME NEW c \in Creates, InsertIfCapacity(c) PROVE TypeOK'
  <2>1. creates[c] \in Create /\ creates[c].params \in CreateParams
    BY <1>4 DEF InsertIfCapacity, InCreate, Create
  <2>2. CASE InsertsRow(creates[c].params.user, creates[c].params.key)
    <3>1. PICK j \in Jobs : /\ InsertJob(j, creates[c].params)
                            /\ Answered(creates[c].params.key, j)
      BY <1>4, <2>2 DEF InsertIfCapacity
    <3>2. jobs' \in [Jobs -> Job \cup {Unused, Removed}]
      BY <2>1, <3>1, InsertedJob
    <3>3. answers' \subseteq [key: Keys, job: Jobs]
      BY <2>1, <3>1 DEF Answered, CreateParams
    <3>4. QED BY <1>4, <2>2, <3>2, <3>3 DEF InsertIfCapacity
  <2>3. CASE ~ InsertsRow(creates[c].params.user, creates[c].params.key)
    BY <1>4, <2>1, <2>3 DEF InsertIfCapacity, Create
  <2>4. QED BY <2>2, <2>3
<1>5. ASSUME NEW j \in Jobs, updateJob(j) PROVE TypeOK'
  BY <1>5, JobConstants, PresentJobs DEF updateJob, Streaming, Job
<1>6. ASSUME NEW j \in Jobs, NEW status \in {"complete", "error"},
             finish(j, status)
      PROVE TypeOK'
  BY <1>6, PresentJobs, FinishedJob DEF finish, Streaming, Statuses
<1>7. ASSUME NEW j \in Jobs, NEW user \in Users, abortJob(j, user)
      PROVE TypeOK'
  BY <1>7, PresentJobs, FinishedJob DEF abortJob, Streaming, Statuses
<1>8. ASSUME NEW j \in Jobs, NEW w \in Workers, Claimable(j), Lease(j, w)
      PROVE TypeOK'
  BY <1>8, JobConstants, PresentJobs DEF Claimable, Lease, Streaming, Job, Claim
<1>9. ASSUME NEW w \in Workers, renewJobLease(w) PROVE TypeOK'
  <2> DEFINE j == claims[w].job
             job == [jobs[j] EXCEPT !.lease = LeaseTime]
             claim == [claims[w] EXCEPT !.left = LeaseTime]
             renewed == [job EXCEPT !.idle = 0]
             beating == [claim EXCEPT !.beat = TRUE]
  <2>1. claims[w] \in Claim /\ j \in Jobs /\ jobs[j] \in Job
    BY <1>9, PresentJobs DEF renewJobLease, Holds, Streaming, Claim
  <2>2. job \in Job /\ claim \in Claim
    BY <2>1, JobUpdates, ClaimUpdates, Zeros
  <2>3. jobs' = [jobs EXCEPT ![j] = renewed]
        /\ claims' = [claims EXCEPT ![w] = beating]
    BY <1>9 DEF renewJobLease
  <2> HIDE DEF job, claim
  <2>4. renewed \in Job /\ beating \in Claim
    BY <2>2, JobUpdates, ClaimUpdates, Zeros
  <2> HIDE DEF renewed, beating
  <2>5. UNCHANGED <<driver, creates, sweep, answers>>
    BY <1>9 DEF renewJobLease
  <2> HIDE DEF j
  <2>6. jobs' \in [Jobs -> Job \cup {Unused, Removed}]
    BY <2>1, <2>3, <2>4
  <2>7. claims' \in [Workers -> Claim \cup {NoClaim}]
    BY <2>3, <2>4
  <2>8. QED BY <2>5, <2>6, <2>7
<1>10. ASSUME NEW w \in Workers, WriteUnderLease(w) PROVE TypeOK'
  <2> DEFINE j == claims[w].job
  <2>1. claims[w] \in Claim /\ j \in Jobs /\ jobs[j] \in Job
    BY <1>10, PresentJobs DEF WriteUnderLease, Holds, Streaming, Claim
  <2>2. /\ [jobs[j] EXCEPT !.idle = 0] \in Job
        /\ [claims[w] EXCEPT !.beat = TRUE] \in Claim
    BY <2>1, JobUpdates, ClaimUpdates, Zeros
  <2>3. QED BY <1>10, <2>1, <2>2 DEF WriteUnderLease
<1>11. ASSUME NEW w \in Workers, NEW status \in {"complete", "error"},
              FinishUnderLease(w, status)
       PROVE TypeOK'
  BY <1>11, PresentJobs, FinishedJob
    DEF FinishUnderLease, Holds, Streaming, Claim, Statuses
<1>12. ASSUME NEW w \in Workers, LeaseLost(w) \/ WorkerStops(w) PROVE TypeOK'
  BY <1>12 DEF LeaseLost, WorkerStops
<1>13. ASSUME TimeOutJobs PROVE TypeOK'
  <2>1. ASSUME NEW j \in Jobs, Present(j) PROVE TimedOut(jobs[j]) \in Job
    BY <2>1, PresentJobs, TimedOutJob
  <2>2. jobs' \in [Jobs -> Job \cup {Unused, Removed}]
    BY <1>13, <2>1 DEF TimeOutJobs
  <2>3. QED BY <1>13, <2>2 DEF TimeOutJobs
<1>14. ASSUME RemoveJobs PROVE TypeOK'
  BY <1>14 DEF RemoveJobs
<1>15. ASSUME Tick PROVE TypeOK'
  <2>1. ASSUME NEW j \in Jobs, Present(j) PROVE Aged(jobs[j]) \in Job
    BY <2>1, PresentJobs, AgedJob
  <2>2. jobs' \in [Jobs -> Job \cup {Unused, Removed}]
    BY <1>15, <2>1 DEF Tick
  <2>3. ASSUME NEW w \in Workers, claims[w] # NoClaim
        PROVE  [claims[w] EXCEPT !.left = Sooner(@)] \in Claim
    BY <2>3, JobConstants DEF Claim, Sooner
  <2>4. claims' \in [Workers -> Claim \cup {NoClaim}]
    BY <1>15, <2>3 DEF Tick
  <2>5. QED BY <1>15, <2>2, <2>4 DEF Tick
<1>16. CASE UNCHANGED vars
  BY <1>16 DEF vars
<1>17. QED
  BY <1>1, <1>2, <1>3, <1>4, <1>5, <1>6, <1>7, <1>8, <1>9, <1>10, <1>11,
     <1>12, <1>13, <1>14, <1>15, <1>16
    DEF Next, claimJob, claimNextJob

-----------------------------------------------------------------------------
\* What finish and abortJob leave alone, and what they reset.
LEMMA FinishedFields ==
  ASSUME NEW job \in Job, NEW status
  PROVE  /\ Finished(job, status).status = status
         /\ Finished(job, status).owner = NoOwner
         /\ Finished(job, status).lease = 0
         /\ Finished(job, status).key = job.key
         /\ Finished(job, status).user = job.user
         /\ Finished(job, status).timedOut = job.timedOut
BY DEF Finished, Job

\* What a time-out leaves alone, and what it resets.
LEMMA TimedOutFields ==
  ASSUME NEW job \in Job
  PROVE  /\ TimedOut(job).status = "error"
         /\ TimedOut(job).owner = NoOwner
         /\ TimedOut(job).lease = 0
         /\ TimedOut(job).key = job.key
         /\ TimedOut(job).user = job.user
<1>1. Finished(job, "error") \in Job
  BY FinishedJob DEF Statuses
<1>2. QED BY <1>1, FinishedFields DEF TimedOut, Job

\* What time leaves alone.
LEMMA AgedFields ==
  ASSUME NEW job \in Job
  PROVE  /\ Aged(job).status = job.status
         /\ Aged(job).owner = job.owner
         /\ Aged(job).lease = Sooner(job.lease)
         /\ Aged(job).key = job.key
         /\ Aged(job).user = job.user
         /\ Aged(job).timedOut = job.timedOut
         /\ Aged(job).attempts = job.attempts
         /\ Aged(job).idle \in {job.idle, Older(job.idle, jobTimeout)}
BY DEF Aged, Job

\* A call that admits a job.
Admits(j, params) ==
  /\ InsertJob(j, params)
  /\ WithKey(params.key) = {}
  /\ HasCapacity(params.user)
  /\ Answered(params.key, j)

Ended(j) ==
  \/ \E status \in {"complete", "error", "aborted"} :
       jobs'[j] = Finished(jobs[j], status)
  \/ Expired(jobs[j]) /\ jobs'[j] = TimedOut(jobs[j])

\* Everything a step can do to one row: the life of a job.
LEMMA JobSteps ==
  ASSUME TypeOK, Next, NEW j \in Jobs
  PROVE  \/ jobs'[j] = jobs[j] /\ ~ Tick
         \/ \E params \in CreateParams : Admits(j, params)
         \/ Streaming(j) /\ jobs'[j] = [jobs[j] EXCEPT !.idle = 0]
         \/ Streaming(j) /\ Ended(j)
         \/ \E w \in Workers : Claimable(j) /\ Lease(j, w)
         \/ \E w \in Workers : claims[w].job = j /\ renewJobLease(w)
         \/ Tick /\ jobs'[j] = IF Present(j) THEN Aged(jobs[j]) ELSE jobs[j]
         \/ sweep # NotSweeping /\ j \in sweep /\ jobs'[j] = Removed
<1> USE DEF TypeOK
<1>0. CASE Tick
  BY <1>0 DEF Tick
<1> DEFINE Step ==
         \/ jobs'[j] = jobs[j]
         \/ \E params \in CreateParams : Admits(j, params)
         \/ Streaming(j) /\ jobs'[j] = [jobs[j] EXCEPT !.idle = 0]
         \/ Streaming(j) /\ Ended(j)
         \/ \E w \in Workers : Claimable(j) /\ Lease(j, w)
         \/ \E w \in Workers : claims[w].job = j /\ renewJobLease(w)
         \/ sweep # NotSweeping /\ j \in sweep /\ jobs'[j] = Removed
<1>1. ASSUME NEW i \in Jobs, NEW params \in CreateParams, Admits(i, params)
      PROVE  jobs'[j] = jobs[j] \/ Admits(j, params)
  BY <1>1, InsertedJob DEF Admits
<1>2. ASSUME NEW params \in Calls, createJob(params)
      PROVE  Step
  <2>1. params \in CreateParams
    BY JobConstants
  <2>2. UNCHANGED jobs \/ \E i \in Jobs : Admits(i, params)
    BY <1>2 DEF createJob, Admits
  <2>3. QED BY <1>1, <2>1, <2>2
<1>3. ASSUME NEW c \in Creates, InsertIfCapacity(c)
      PROVE  Step
  <2>1. creates[c].params \in CreateParams
    BY <1>3 DEF InsertIfCapacity, InCreate, Create
  <2>2. UNCHANGED jobs \/ \E i \in Jobs : Admits(i, creates[c].params)
    BY <1>3 DEF InsertIfCapacity, InsertsRow, Admits
  <2>3. QED BY <1>1, <2>1, <2>2
<1>4. ASSUME NEW i \in Jobs, updateJob(i)
      PROVE  Step
  BY <1>4 DEF updateJob
<1>5. ASSUME NEW i \in Jobs, NEW status \in {"complete", "error"},
             finish(i, status)
      PROVE  Step
  BY <1>5 DEF finish, Ended
<1>6. ASSUME NEW i \in Jobs, NEW user \in Users, abortJob(i, user)
      PROVE  Step
  BY <1>6 DEF abortJob, Ended
<1>7. ASSUME NEW i \in Jobs, NEW w \in Workers, Claimable(i), Lease(i, w)
      PROVE  Step
  BY <1>7 DEF Lease
<1>8. ASSUME NEW w \in Workers, renewJobLease(w)
      PROVE  Step
  BY <1>8 DEF renewJobLease
<1>9. ASSUME NEW w \in Workers, WriteUnderLease(w)
      PROVE  Step
  BY <1>9 DEF WriteUnderLease, Holds
<1>10. ASSUME NEW w \in Workers, NEW status \in {"complete", "error"},
              FinishUnderLease(w, status)
       PROVE  Step
  BY <1>10 DEF FinishUnderLease, Ended, Holds
<1>11. ASSUME TimeOutJobs
       PROVE  Step
  BY <1>11 DEF TimeOutJobs, Ended, Expired, Streaming
<1>12. ASSUME RemoveJobs
       PROVE  Step
  BY <1>12 DEF RemoveJobs
<1>13. ASSUME NEW c \in Creates,
              LookUpKey(c) \/ \E params \in Calls : BeginCreateInD1(c, params)
       PROVE  Step
  BY <1>13 DEF LookUpKey, BeginCreateInD1
<1>14. ASSUME NEW w \in Workers, LeaseLost(w) \/ WorkerStops(w)
       PROVE  Step
  BY <1>14 DEF LeaseLost, WorkerStops
<1> HIDE DEF Step
<1>15. CASE ~ Tick
  <2>1. Step
    BY <1>15, <1>2, <1>3, <1>4, <1>5, <1>6, <1>7, <1>8, <1>9, <1>10, <1>11,
       <1>12, <1>13, <1>14
      DEF Next, claimJob, claimNextJob
  <2>2. QED BY <1>15, <2>1 DEF Step
<1>16. QED BY <1>0, <1>15

\* Everything a step can do to what one worker believes.
LEMMA ClaimSteps ==
  ASSUME TypeOK, Next, NEW w \in Workers
  PROVE  \/ claims'[w] = claims[w] /\ ~ Tick
         \/ claims'[w] = NoClaim
         \/ \E j \in Jobs : Claimable(j) /\ Lease(j, w)
         \/ renewJobLease(w)
         \/ WriteUnderLease(w)
         \/ /\ Tick /\ claims[w] # NoClaim
            /\ claims'[w] = [claims[w] EXCEPT !.left = Sooner(@)]
<1> USE DEF TypeOK
<1>0. CASE Tick
  BY <1>0 DEF Tick
<1>1. ASSUME NEW v \in Workers, NEW j \in Jobs, Claimable(j), Lease(j, v)
      PROVE  claims'[w] = claims[w] \/ Lease(j, w)
  BY <1>1 DEF Lease
<1>2. ASSUME NEW v \in Workers, renewJobLease(v)
      PROVE  claims'[w] = claims[w] \/ renewJobLease(w)
  BY <1>2 DEF renewJobLease
<1>3. ASSUME NEW v \in Workers, WriteUnderLease(v)
      PROVE  claims'[w] = claims[w] \/ WriteUnderLease(w)
  BY <1>3 DEF WriteUnderLease
<1>4. ASSUME NEW v \in Workers,
             \/ LeaseLost(v) \/ WorkerStops(v)
             \/ \E status \in {"complete", "error"} : FinishUnderLease(v, status)
      PROVE  claims'[w] = claims[w] \/ claims'[w] = NoClaim
  BY <1>4 DEF LeaseLost, WorkerStops, FinishUnderLease
<1>5. ASSUME NEW params \in Calls,
             \/ createJob(params)
             \/ \E c \in Creates : BeginCreateInD1(c, params)
      PROVE  claims' = claims
  BY <1>5 DEF createJob, BeginCreateInD1
<1>6. ASSUME NEW c \in Creates, LookUpKey(c) \/ InsertIfCapacity(c)
      PROVE  claims' = claims
  BY <1>6 DEF LookUpKey, InsertIfCapacity
<1>7. ASSUME NEW j \in Jobs,
             \/ updateJob(j)
             \/ \E status \in {"complete", "error"} : finish(j, status)
             \/ \E user \in Users : abortJob(j, user)
      PROVE  claims' = claims
  BY <1>7 DEF updateJob, finish, abortJob
<1>8. ASSUME TimeOutJobs \/ RemoveJobs PROVE claims' = claims
  BY <1>8 DEF TimeOutJobs, RemoveJobs
<1>9. QED
  BY <1>0, <1>1, <1>2, <1>3, <1>4, <1>5, <1>6, <1>7, <1>8
    DEF Next, claimJob, claimNextJob

-----------------------------------------------------------------------------
\* A job that streams after a step of a known id streamed before it, and the
\* step changed its lease only by claiming, renewing or waiting.
LEMMA StreamingSteps ==
  ASSUME TypeOK, Next, NEW j \in Jobs, jobs[j] # Unused, Streaming(j)'
  PROVE  /\ Streaming(j) /\ jobs[j] \in Job /\ jobs'[j] \in Job
         /\ \/ jobs'[j] = jobs[j] /\ ~ Tick
            \/ jobs'[j] = [jobs[j] EXCEPT !.idle = 0]
            \/ \E w \in Workers : Claimable(j) /\ Lease(j, w)
            \/ \E w \in Workers : claims[w].job = j /\ renewJobLease(w)
            \/ Tick /\ jobs'[j] = Aged(jobs[j])
<1>1. TypeOK'
  BY TypeStep
<1>2. jobs'[j] \in Job /\ jobs'[j].status = "streaming" /\ jobs'[j] # Removed
  BY <1>1, JobSentinels DEF TypeOK, Streaming, Present
<1>3. ASSUME NEW params \in CreateParams, Admits(j, params) PROVE FALSE
  BY <1>3 DEF Admits, InsertJob
<1>4. ASSUME Streaming(j), Ended(j) PROVE FALSE
  <2>1. jobs[j] \in Job
    BY <1>4, PresentJobs DEF Streaming
  <2>2. QED BY <1>2, <1>4, <2>1, FinishedFields, TimedOutFields DEF Ended
<1>5. ASSUME jobs'[j] = jobs[j] PROVE Streaming(j)
  BY <1>2, <1>5, JobSentinels DEF Streaming, Present
<1>6. ASSUME NEW w \in Workers, Claimable(j) PROVE Streaming(j)
  BY <1>6 DEF Claimable
<1>7. ASSUME NEW w \in Workers, claims[w].job = j, renewJobLease(w)
      PROVE  Streaming(j)
  BY <1>7 DEF renewJobLease, Holds
<1>8. ASSUME Tick, jobs'[j] = IF Present(j) THEN Aged(jobs[j]) ELSE jobs[j]
      PROVE  Streaming(j) /\ jobs'[j] = Aged(jobs[j])
  <2>1. Present(j)
    BY <1>2, <1>8, JobSentinels DEF Present
  <2>2. QED BY <1>2, <1>8, <2>1, PresentJobs, AgedFields DEF Streaming
<1>9. Streaming(j)
      /\ \/ jobs'[j] = jobs[j] /\ ~ Tick
         \/ jobs'[j] = [jobs[j] EXCEPT !.idle = 0]
         \/ \E w \in Workers : Claimable(j) /\ Lease(j, w)
         \/ \E w \in Workers : claims[w].job = j /\ renewJobLease(w)
         \/ Tick /\ jobs'[j] = Aged(jobs[j])
  BY <1>2, <1>3, <1>4, <1>5, <1>6, <1>7, <1>8, JobSteps
<1>10. QED BY <1>2, <1>9, PresentJobs DEF Streaming

\* A claim sets owner, lease and attempt on both sides.
LEMMA LeasedFields ==
  ASSUME TypeOK, NEW j \in Jobs, NEW w \in Workers, Streaming(j), Lease(j, w)
  PROVE  /\ jobs'[j].owner = w /\ jobs'[j].lease = LeaseTime
         /\ jobs'[j].attempts = jobs[j].attempts + 1
         /\ jobs'[j].timedOut = jobs[j].timedOut
         /\ jobs'[j].key = jobs[j].key /\ jobs'[j].user = jobs[j].user
         /\ claims'[w].job = j /\ claims'[w].attempt = jobs[j].attempts + 1
         /\ claims'[w].left = LeaseTime /\ claims'[w].beat = FALSE
         /\ \A v \in Workers \ {w} : claims'[v] = claims[v]
BY PresentJobs DEF TypeOK, Lease, Streaming, Job

\* A renewal sets lease and activity on both sides.
LEMMA RenewedFields ==
  ASSUME TypeOK, NEW w \in Workers, renewJobLease(w)
  PROVE  /\ claims[w] \in Claim /\ claims[w].job \in Jobs
         /\ Holds(claims[w].job, w)
         /\ jobs[claims[w].job] \in Job
         /\ jobs'[claims[w].job] \in Job
         /\ jobs'[claims[w].job].owner = w
         /\ jobs'[claims[w].job].lease = LeaseTime
         /\ jobs'[claims[w].job].idle = 0
         /\ jobs'[claims[w].job].attempts = jobs[claims[w].job].attempts
         /\ jobs'[claims[w].job].timedOut = jobs[claims[w].job].timedOut
         /\ jobs'[claims[w].job].key = jobs[claims[w].job].key
         /\ jobs'[claims[w].job].user = jobs[claims[w].job].user
         /\ claims'[w].job = claims[w].job
         /\ claims'[w].attempt = claims[w].attempt
         /\ claims'[w].left = LeaseTime
         /\ \A v \in Workers \ {w} : claims'[v] = claims[v]
<1>1. claims[w] \in Claim /\ claims[w].job \in Jobs /\ Holds(claims[w].job, w)
  BY DEF TypeOK, renewJobLease, Claim
<1>2. jobs[claims[w].job] \in Job
  BY <1>1, PresentJobs DEF Holds, Streaming
<1> DEFINE j == claims[w].job
<1>3. jobs' = [jobs EXCEPT ![j].lease = LeaseTime, ![j].idle = 0]
      /\ claims' = [claims EXCEPT ![w].left = LeaseTime, ![w].beat = TRUE]
  BY DEF renewJobLease
<1>4. /\ claims'[w].job = claims[w].job
      /\ claims'[w].attempt = claims[w].attempt
      /\ claims'[w].left = LeaseTime
      /\ \A v \in Workers \ {w} : claims'[v] = claims[v]
  BY <1>1, <1>3 DEF TypeOK, Claim
<1>5. /\ jobs'[j].lease = LeaseTime /\ jobs'[j].idle = 0
      /\ jobs'[j].owner = jobs[j].owner
      /\ jobs'[j].attempts = jobs[j].attempts
      /\ jobs'[j].timedOut = jobs[j].timedOut
      /\ jobs'[j].key = jobs[j].key /\ jobs'[j].user = jobs[j].user
  BY <1>1, <1>2, <1>3 DEF TypeOK, Job
<1> DEFINE renewed == [jobs[j] EXCEPT !.lease = LeaseTime]
<1>6. renewed \in Job
  BY <1>2, JobUpdates, Zeros
<1>7. jobs'[j] = [renewed EXCEPT !.idle = 0]
  BY <1>1, <1>3 DEF TypeOK
<1> HIDE DEF renewed
<1>8. jobs'[j] \in Job
  BY <1>6, <1>7, JobUpdates, Zeros
<1>9. QED BY <1>1, <1>2, <1>4, <1>5, <1>8 DEF Holds

\* A write under a lease refreshes the activity alone.
LEMMA WrittenFields ==
  ASSUME TypeOK, NEW w \in Workers, WriteUnderLease(w)
  PROVE  /\ claims[w] \in Claim /\ claims[w].job \in Jobs
         /\ Holds(claims[w].job, w)
         /\ jobs[claims[w].job] \in Job
         /\ jobs'[claims[w].job] = [jobs[claims[w].job] EXCEPT !.idle = 0]
         /\ claims'[w].job = claims[w].job
         /\ claims'[w].attempt = claims[w].attempt
         /\ claims'[w].left = claims[w].left
<1>1. claims[w] \in Claim /\ claims[w].job \in Jobs /\ Holds(claims[w].job, w)
  BY DEF TypeOK, WriteUnderLease, Claim
<1>2. QED
  BY <1>1, PresentJobs DEF WriteUnderLease, Holds, Streaming, TypeOK, Claim

-----------------------------------------------------------------------------
\* The columns of a claim, from TypeOK.
LEMMA ClaimsAreTyped ==
  ASSUME TypeOK, NEW w \in Workers, claims[w] # NoClaim
  PROVE  /\ claims[w] \in Claim /\ claims[w].job \in Jobs
         /\ claims[w].left \in 0..LeaseTime /\ claims[w].attempt \in Nat
BY DEF TypeOK, Claim

\* A claim that was not taken or renewed in this step is one that was there,
\* of the same attempt, and has not more left.
LEMMA OldClaims ==
  ASSUME TypeOK, Next, NEW w \in Workers, claims'[w] # NoClaim,
         ~ renewJobLease(w),
         \A j \in Jobs : Claimable(j) => ~ Lease(j, w)
  PROVE  /\ claims[w] # NoClaim
         /\ claims'[w].job = claims[w].job
         /\ claims'[w].attempt = claims[w].attempt
         /\ claims'[w].left <= claims[w].left
         /\ claims'[w].left > 0 => claims[w].left > 0
         /\ Tick => claims'[w].left = Sooner(claims[w].left)
<1>1. CASE claims'[w] = claims[w] /\ ~ Tick
  BY <1>1, ClaimsAreTyped, JobConstants
<1>2. CASE WriteUnderLease(w)
  <2>1. ~ Tick \/ claims'[w].left = Sooner(claims[w].left)
    <3>1. CASE Tick
      BY <3>1, <1>2, ClaimsAreTyped DEF Tick, TypeOK, Claim, WriteUnderLease
    <3>2. QED BY <3>1
  <2>2. claims[w] # NoClaim
    BY <1>2 DEF WriteUnderLease
  <2>3. /\ claims'[w].job = claims[w].job
        /\ claims'[w].attempt = claims[w].attempt
        /\ claims'[w].left = claims[w].left
    BY <1>2, WrittenFields
  <2>4. claims[w].left \in Int
    BY <2>2, ClaimsAreTyped, JobConstants
  <2>5. QED BY <2>1, <2>2, <2>3, <2>4
<1>3. CASE Tick /\ claims[w] # NoClaim
           /\ claims'[w] = [claims[w] EXCEPT !.left = Sooner(@)]
  <2>1. /\ claims'[w].job = claims[w].job
        /\ claims'[w].attempt = claims[w].attempt
        /\ claims'[w].left = Sooner(claims[w].left)
    BY <1>3, ClaimsAreTyped DEF Claim
  <2>2. claims[w].left \in Nat
    BY <1>3, ClaimsAreTyped, JobConstants
  <2>3. QED BY <1>3, <2>1, <2>2 DEF Sooner
<1>4. QED BY <1>1, <1>2, <1>3, ClaimSteps

\* A new answer names a row that has its key, or that is admitted with it.
LEMMA NewAnswers ==
  ASSUME TypeOK, Next, NEW a \in answers', a \notin answers
  PROVE  /\ a.job \in Jobs /\ Present(a.job)'
         /\ jobs'[a.job].key = a.key
<1>1. ASSUME NEW params \in CreateParams, NEW j \in Jobs,
             jobs' = jobs, j \in WithKey(params.key), Answered(params.key, j)
      PROVE  a.job = j /\ Present(j)' /\ jobs'[j].key = a.key
  BY <1>1 DEF Answered, WithKey, Present
<1>2. ASSUME NEW params \in CreateParams, NEW j \in Jobs,
             InsertJob(j, params), Answered(params.key, j)
      PROVE  a.job = j /\ Present(j)' /\ jobs'[j].key = a.key
  <2>1. a = [key |-> params.key, job |-> j]
    BY <1>2 DEF Answered
  <2>2. jobs'[j] \in Job /\ jobs'[j].key = params.key
    BY <1>2, InsertedJob
  <2>3. Present(j)'
    BY <2>2, JobSentinels DEF Present
  <2>4. QED BY <2>1, <2>2, <2>3
<1>3. ASSUME NEW params \in Calls, createJob(params)
      PROVE  \E j \in Jobs : a.job = j /\ Present(j)' /\ jobs'[j].key = a.key
  <2>1. params \in CreateParams
    BY JobConstants
  <2>2. CASE WithKey(params.key) # {}
    <3>1. PICK j \in WithKey(params.key) : Answered(params.key, j)
      BY <1>3, <2>2 DEF createJob
    <3>2. jobs' = jobs /\ j \in Jobs
      BY <1>3, <2>2 DEF createJob, WithKey
    <3>3. QED BY <1>1, <2>1, <3>1, <3>2
  <2>3. CASE WithKey(params.key) = {}
    BY <1>2, <1>3, <2>1, <2>3 DEF createJob
  <2>4. QED BY <2>2, <2>3
<1>4. ASSUME NEW c \in Creates, LookUpKey(c)
      PROVE  \E j \in Jobs : a.job = j /\ Present(j)' /\ jobs'[j].key = a.key
  <2>1. creates[c].params \in CreateParams
    BY <1>4 DEF LookUpKey, InCreate, Create, TypeOK
  <2>2. PICK j \in WithKey(creates[c].params.key) :
          Answered(creates[c].params.key, j)
    BY <1>4 DEF LookUpKey
  <2>3. jobs' = jobs /\ j \in Jobs
    BY <1>4 DEF LookUpKey, WithKey
  <2>4. QED BY <1>1, <2>1, <2>2, <2>3
<1>5. ASSUME NEW c \in Creates, InsertIfCapacity(c)
      PROVE  \E j \in Jobs : a.job = j /\ Present(j)' /\ jobs'[j].key = a.key
  <2>1. creates[c].params \in CreateParams
    BY <1>5 DEF InsertIfCapacity, InCreate, Create, TypeOK
  <2>2. PICK j \in Jobs : /\ InsertJob(j, creates[c].params)
                          /\ Answered(creates[c].params.key, j)
    BY <1>5 DEF InsertIfCapacity
  <2>3. QED BY <1>2, <2>1, <2>2
<1>6. ASSUME NEW c \in Creates, NEW params \in Calls,
             BeginCreateInD1(c, params)
      PROVE  answers' = answers
  BY <1>6 DEF BeginCreateInD1
<1>7. ASSUME NEW j \in Jobs,
             \/ updateJob(j)
             \/ \E status \in {"complete", "error"} : finish(j, status)
             \/ \E user \in Users : abortJob(j, user)
      PROVE  answers' = answers
  BY <1>7 DEF updateJob, finish, abortJob
<1>8. ASSUME NEW j \in Jobs, NEW w \in Workers, Lease(j, w)
      PROVE  answers' = answers
  BY <1>8 DEF Lease
<1>9. ASSUME NEW w \in Workers,
             \/ renewJobLease(w) \/ WriteUnderLease(w)
             \/ \E status \in {"complete", "error"} :
                  FinishUnderLease(w, status)
             \/ LeaseLost(w) \/ WorkerStops(w)
      PROVE  answers' = answers
  BY <1>9 DEF renewJobLease, WriteUnderLease, FinishUnderLease, LeaseLost,
              WorkerStops
<1>10. ASSUME TimeOutJobs \/ RemoveJobs \/ Tick PROVE answers' = answers
  BY <1>10 DEF TimeOutJobs, RemoveJobs, Tick
<1>11. QED
  BY <1>3, <1>4, <1>5, <1>6, <1>7, <1>8, <1>9, <1>10
    DEF Next, claimJob, claimNextJob

\* No id that somebody knows is handed out again.
LEMMA KnownStep ==
  ASSUME TypeOK, KnownJobsExist, Next
  PROVE  KnownJobsExist'
<1>1. ASSUME NEW j \in Jobs, jobs[j] # Unused PROVE jobs'[j] # Unused
  <2>1. ASSUME Present(j) PROVE jobs[j] \in Job
    BY <2>1, PresentJobs
  <2>2. ASSUME Streaming(j), jobs'[j] = [jobs[j] EXCEPT !.idle = 0]
        PROVE  jobs'[j] # Unused
    <3>1. jobs'[j] \in Job
      BY <2>1, <2>2, JobUpdates, Zeros DEF Streaming
    <3>2. QED BY <3>1, JobSentinels
  <2>3. ASSUME Streaming(j), Ended(j) PROVE jobs'[j] # Unused
    <3>1. jobs'[j] \in Job
      BY <2>1, <2>3, FinishedJob, TimedOutJob DEF Ended, Streaming, Statuses
    <3>2. QED BY <3>1, JobSentinels
  <2>4. ASSUME NEW w \in Workers, Claimable(j), Lease(j, w)
        PROVE  jobs'[j] # Unused
    <3>1. jobs' = [jobs EXCEPT ![j].owner = w, ![j].lease = LeaseTime,
                               ![j].attempts = @ + 1]
      BY <2>4 DEF Lease
    <3>2. jobs[j] \in Job
      BY <2>1, <2>4 DEF Claimable, Streaming
    <3>3. jobs'[j] \in Job
      BY <3>1, <3>2, JobConstants DEF TypeOK, Job
    <3>4. QED BY <3>3, JobSentinels
  <2>5. ASSUME NEW w \in Workers, claims[w].job = j, renewJobLease(w)
        PROVE  jobs'[j] # Unused
    BY <2>5, RenewedFields, JobSentinels
  <2>6. ASSUME Present(j), jobs'[j] = Aged(jobs[j]) PROVE jobs'[j] # Unused
    BY <2>1, <2>6, AgedJob, JobSentinels
  <2>7. ASSUME NEW params \in CreateParams, Admits(j, params)
        PROVE  FALSE
    BY <1>1, <2>7 DEF Admits, InsertJob
  <2>8. QED BY <1>1, <2>2, <2>3, <2>4, <2>5, <2>6, <2>7, JobSteps, JobSentinels
<1>2. ASSUME NEW w \in Workers, claims'[w] # NoClaim
      PROVE  jobs'[claims'[w].job] # Unused
  <2>1. ASSUME NEW j \in Jobs, Claimable(j), Lease(j, w)
        PROVE  claims'[w].job = j /\ jobs[j] # Unused
    BY <2>1, LeasedFields DEF Claimable, Streaming, Present
  <2>2. ASSUME renewJobLease(w)
        PROVE  /\ claims'[w].job = claims[w].job
               /\ jobs[claims[w].job] # Unused /\ claims[w].job \in Jobs
    BY <2>2, RenewedFields DEF Holds, Streaming, Present
  <2>3. CASE /\ ~ renewJobLease(w)
             /\ \A j \in Jobs : Claimable(j) => ~ Lease(j, w)
    <3>1. claims[w] # NoClaim /\ claims'[w].job = claims[w].job
      BY <1>2, <2>3, OldClaims
    <3>2. claims[w].job \in Jobs
      BY <3>1, ClaimsAreTyped
    <3>3. QED BY <1>1, <3>1, <3>2 DEF KnownJobsExist
  <2>4. QED BY <1>1, <2>1, <2>2, <2>3
<1>3. ASSUME NEW a \in answers' PROVE jobs'[a.job] # Unused
  <2>1. CASE a \in answers
    BY <1>1, <2>1 DEF KnownJobsExist, TypeOK
  <2>2. CASE a \notin answers
    BY <2>2, NewAnswers DEF Present
  <2>3. QED BY <2>1, <2>2
<1>4. QED BY <1>2, <1>3 DEF KnownJobsExist

-----------------------------------------------------------------------------
\* What a step that leaves a claim alone may do to the job it names.
LEMMA JobOfOldClaim ==
  ASSUME TypeOK, KnownJobsExist, Next, NEW w \in Workers,
         claims'[w] # NoClaim, ~ renewJobLease(w),
         \A j \in Jobs : Claimable(j) => ~ Lease(j, w),
         NEW j \in Jobs, j = claims[w].job, Streaming(j)'
  PROVE  /\ Streaming(j) /\ jobs[j] \in Job /\ jobs'[j] \in Job
         /\ \/ \E v \in Workers \ {w} : Claimable(j) /\ Lease(j, v)
            \/ /\ jobs'[j].owner = jobs[j].owner
               /\ jobs'[j].attempts = jobs[j].attempts
               /\ \/ jobs'[j].lease = jobs[j].lease
                  \/ jobs'[j].lease = LeaseTime
                  \/ Tick /\ jobs'[j].lease = Sooner(jobs[j].lease)
               /\ \/ jobs'[j].idle = jobs[j].idle
                  \/ jobs'[j].idle = 0
                  \/ Tick /\ jobs'[j].idle = Older(jobs[j].idle, jobTimeout)
<1>1. claims[w] # NoClaim /\ jobs[j] # Unused
  BY OldClaims DEF KnownJobsExist
<1>2. /\ Streaming(j) /\ jobs[j] \in Job /\ jobs'[j] \in Job
      /\ \/ jobs'[j] = jobs[j] /\ ~ Tick
         \/ jobs'[j] = [jobs[j] EXCEPT !.idle = 0]
         \/ \E v \in Workers : Claimable(j) /\ Lease(j, v)
         \/ \E v \in Workers : claims[v].job = j /\ renewJobLease(v)
         \/ Tick /\ jobs'[j] = Aged(jobs[j])
  BY <1>1, StreamingSteps
<1>3. CASE jobs'[j] = [jobs[j] EXCEPT !.idle = 0]
  <2>1. /\ jobs'[j].owner = jobs[j].owner
        /\ jobs'[j].attempts = jobs[j].attempts
        /\ jobs'[j].lease = jobs[j].lease
        /\ jobs'[j].idle = 0
    BY <1>2, <1>3 DEF Job
  <2>2. QED BY <1>2, <2>1
<1>4. ASSUME NEW v \in Workers, claims[v].job = j, renewJobLease(v)
      PROVE  /\ jobs'[j].owner = jobs[j].owner
             /\ jobs'[j].attempts = jobs[j].attempts
             /\ jobs'[j].lease = LeaseTime
             /\ jobs'[j].idle = 0
  BY <1>4, RenewedFields DEF Holds
<1>5. CASE Tick /\ jobs'[j] = Aged(jobs[j])
  BY <1>2, <1>5, AgedFields
<1>6. QED BY <1>2, <1>3, <1>4, <1>5

\* The same after a step.
LEMMA NewClaimsAreTyped ==
  ASSUME TypeOK, Next, NEW w \in Workers, claims'[w] # NoClaim
  PROVE  claims'[w].job \in Jobs /\ claims'[w].left \in 0..LeaseTime
BY TypeStep DEF TypeOK, Claim

\* LeaseBacked is preserved: only its owner can shorten a live lease.
LEMMA LeaseStep ==
  ASSUME TypeOK, KnownJobsExist, LeaseBacked, Next
  PROVE  LeaseBacked'
<1> SUFFICES ASSUME NEW w \in Workers, claims'[w] # NoClaim,
                    claims'[w].left > 0,
                    NEW j \in Jobs, j = claims'[w].job, Streaming(j)'
             PROVE  jobs'[j].owner = w /\ claims'[w].left <= jobs'[j].lease
  BY NewClaimsAreTyped DEF LeaseBacked, Holds
<1>1. ASSUME NEW i \in Jobs, Claimable(i), Lease(i, w)
      PROVE  jobs'[j].owner = w /\ claims'[w].left <= jobs'[j].lease
  <2>1. Streaming(i)
    BY <1>1 DEF Claimable
  <2>2. /\ claims'[w].job = i /\ claims'[w].left = LeaseTime
        /\ jobs'[i].owner = w /\ jobs'[i].lease = LeaseTime
    BY <1>1, <2>1, LeasedFields
  <2>3. QED BY <2>2, JobConstants
<1>2. ASSUME renewJobLease(w)
      PROVE  jobs'[j].owner = w /\ claims'[w].left <= jobs'[j].lease
  BY <1>2, RenewedFields, JobConstants
<1>3. ASSUME ~ renewJobLease(w),
             \A i \in Jobs : Claimable(i) => ~ Lease(i, w)
      PROVE  jobs'[j].owner = w /\ claims'[w].left <= jobs'[j].lease
  <2>1. /\ claims[w] # NoClaim /\ j = claims[w].job
        /\ claims'[w].left <= claims[w].left /\ claims[w].left > 0
        /\ Tick => claims'[w].left = Sooner(claims[w].left)
    BY <1>3, OldClaims
  <2>2. claims[w].left \in 0..LeaseTime /\ claims'[w].left \in 0..LeaseTime
    BY <2>1, ClaimsAreTyped, NewClaimsAreTyped
  <2>3. /\ Streaming(j) /\ jobs[j] \in Job /\ jobs'[j] \in Job
        /\ \/ \E v \in Workers \ {w} : Claimable(j) /\ Lease(j, v)
           \/ /\ jobs'[j].owner = jobs[j].owner
              /\ \/ jobs'[j].lease = jobs[j].lease
                 \/ jobs'[j].lease = LeaseTime
                 \/ Tick /\ jobs'[j].lease = Sooner(jobs[j].lease)
    BY <1>3, <2>1, JobOfOldClaim
  <2>4. jobs[j].owner = w /\ claims[w].left <= jobs[j].lease
    BY <2>1, <2>3 DEF LeaseBacked, Holds
  <2>5. jobs[j].lease \in 0..LeaseTime
    BY <2>3 DEF Job
  <2>6. ~ Claimable(j)
    BY <2>1, <2>2, <2>4, <2>5, JobConstants DEF Claimable
  <2>7. claims'[w].left <= jobs'[j].lease
    BY <2>1, <2>2, <2>3, <2>4, <2>5, <2>6, JobConstants DEF Sooner
  <2>8. QED BY <2>3, <2>4, <2>6, <2>7
<1>4. QED BY <1>1, <1>2, <1>3

\* LeaseExclusive is preserved: a lease that is believed in cannot be claimed.
LEMMA ExclusiveStep ==
  ASSUME TypeOK, LeaseBacked, LeaseExclusive, Next
  PROVE  LeaseExclusive'
<1>1. ASSUME NEW j \in Jobs, Streaming(j), NEW v \in Workers,
             claims[v] # NoClaim, claims[v].job = j, claims[v].left > 0
      PROVE  Holds(j, v) /\ ~ Claimable(j)
  <2>1. Holds(j, v) /\ claims[v].left <= jobs[j].lease
    BY <1>1 DEF LeaseBacked
  <2>2. jobs[j].lease \in 0..LeaseTime /\ claims[v].left \in 0..LeaseTime
    BY <1>1, PresentJobs, ClaimsAreTyped DEF Streaming, Job
  <2>3. QED BY <1>1, <2>1, <2>2, JobConstants DEF Claimable, Holds
<1>2. ASSUME NEW w \in Workers, NEW v \in Workers, w # v,
             claims'[w] # NoClaim, claims'[v] # NoClaim,
             claims'[w].job = claims'[v].job,
             claims'[w].left > 0, claims'[v].left > 0
      PROVE  \/ renewJobLease(w)
             \/ \E j \in Jobs : Claimable(j) /\ Lease(j, w)
             \/ renewJobLease(v)
             \/ \E j \in Jobs : Claimable(j) /\ Lease(j, v)
  <2> SUFFICES ASSUME ~ renewJobLease(w), ~ renewJobLease(v),
                      \A j \in Jobs : Claimable(j) => ~ Lease(j, w),
                      \A j \in Jobs : Claimable(j) => ~ Lease(j, v)
               PROVE  FALSE
    OBVIOUS
  <2>1. /\ claims[w] # NoClaim /\ claims'[w].job = claims[w].job
        /\ claims[w].left > 0
    BY <1>2, OldClaims
  <2>2. /\ claims[v] # NoClaim /\ claims'[v].job = claims[v].job
        /\ claims[v].left > 0
    BY <1>2, OldClaims
  <2>3. QED BY <1>2, <2>1, <2>2 DEF LeaseExclusive
<1>3. ASSUME NEW w \in Workers, NEW v \in Workers, w # v,
             claims'[v] # NoClaim, claims'[w].job = claims'[v].job,
             claims'[v].left > 0,
             renewJobLease(w) \/ \E j \in Jobs : Claimable(j) /\ Lease(j, w)
      PROVE  FALSE
  <2>1. CASE renewJobLease(w)
    <3>1. /\ claims[w].job \in Jobs /\ Holds(claims[w].job, w)
          /\ claims'[w].job = claims[w].job /\ claims'[v] = claims[v]
      BY <1>3, <2>1, RenewedFields
    <3>2. Holds(claims[w].job, v)
      BY <1>1, <1>3, <3>1 DEF Holds
    <3>3. QED BY <1>3, <3>1, <3>2 DEF Holds
  <2>2. ASSUME NEW j \in Jobs, Claimable(j), Lease(j, w) PROVE FALSE
    <3>1. claims'[w].job = j /\ claims'[v] = claims[v] /\ Streaming(j)
      BY <1>3, <2>2, LeasedFields, ZenonT(60) DEF Claimable
    <3>2. QED BY <1>1, <1>3, <2>2, <3>1
  <2>3. QED BY <1>3, <2>1, <2>2
<1>4. QED BY <1>2, <1>3 DEF LeaseExclusive

\* FenceAdmitsLatestAttempt is preserved: a new attempt has a new owner.
LEMMA FenceStep ==
  ASSUME TypeOK, KnownJobsExist, FenceAdmitsLatestAttempt, Next
  PROVE  FenceAdmitsLatestAttempt'
<1> SUFFICES ASSUME NEW w \in Workers, claims'[w] # NoClaim,
                    NEW j \in Jobs, j = claims'[w].job,
                    Streaming(j)', jobs'[j].owner = w
             PROVE  claims'[w].attempt = jobs'[j].attempts
  BY NewClaimsAreTyped DEF FenceAdmitsLatestAttempt, Holds
<1>1. ASSUME NEW i \in Jobs, Claimable(i), Lease(i, w)
      PROVE  claims'[w].attempt = jobs'[j].attempts
  <2>1. Streaming(i)
    BY <1>1 DEF Claimable
  <2>2. /\ claims'[w].job = i /\ claims'[w].attempt = jobs[i].attempts + 1
        /\ jobs'[i].attempts = jobs[i].attempts + 1
    BY <1>1, <2>1, LeasedFields
  <2>3. QED BY <2>2
<1>2. ASSUME renewJobLease(w)
      PROVE  claims'[w].attempt = jobs'[j].attempts
  <2>1. /\ claims[w] # NoClaim /\ Holds(claims[w].job, w)
        /\ claims'[w].job = claims[w].job
        /\ claims'[w].attempt = claims[w].attempt
        /\ jobs'[claims[w].job].attempts = jobs[claims[w].job].attempts
    BY <1>2, RenewedFields DEF renewJobLease
  <2>2. claims[w].attempt = jobs[claims[w].job].attempts
    BY <2>1 DEF FenceAdmitsLatestAttempt
  <2>3. QED BY <2>1, <2>2
<1>3. ASSUME ~ renewJobLease(w),
             \A i \in Jobs : Claimable(i) => ~ Lease(i, w)
      PROVE  claims'[w].attempt = jobs'[j].attempts
  <2>1. /\ claims[w] # NoClaim /\ j = claims[w].job
        /\ claims'[w].attempt = claims[w].attempt
    BY <1>3, OldClaims
  <2>2. Streaming(j) /\
        \/ \E v \in Workers \ {w} : Claimable(j) /\ Lease(j, v)
        \/ /\ jobs'[j].owner = jobs[j].owner
           /\ jobs'[j].attempts = jobs[j].attempts
    BY <1>3, <2>1, JobOfOldClaim
  <2>3. ASSUME NEW v \in Workers \ {w}, Lease(j, v) PROVE FALSE
    BY <2>2, <2>3, LeasedFields
  <2>4. QED BY <2>1, <2>2, <2>3 DEF Holds, FenceAdmitsLatestAttempt
<1>4. QED BY <1>1, <1>2, <1>3

\* HeartbeatIsActivity is preserved: lease and activity age together.
LEMMA HeartbeatStep ==
  ASSUME TypeOK, KnownJobsExist, HeartbeatIsActivity, Next
  PROVE  HeartbeatIsActivity'
<1> SUFFICES ASSUME NEW w \in Workers, claims'[w] # NoClaim,
                    claims'[w].beat, claims'[w].left > 0,
                    NEW j \in Jobs, j = claims'[w].job, Streaming(j)'
             PROVE  jobs'[j].idle + claims'[w].left <= LeaseTime
  BY NewClaimsAreTyped DEF HeartbeatIsActivity
<1>1. ASSUME NEW i \in Jobs, Claimable(i), Lease(i, w) PROVE FALSE
  <2>1. Streaming(i)
    BY <1>1 DEF Claimable
  <2>2. claims'[w].beat = FALSE
    BY <1>1, <2>1, LeasedFields
  <2>3. QED BY <2>2, Zenon
<1>2. ASSUME renewJobLease(w)
      PROVE  jobs'[j].idle + claims'[w].left <= LeaseTime
  BY <1>2, RenewedFields, JobConstants
<1>3. ASSUME WriteUnderLease(w)
      PROVE  jobs'[j].idle + claims'[w].left <= LeaseTime
  <2>1. /\ claims'[w].job = claims[w].job
        /\ jobs'[claims[w].job] = [jobs[claims[w].job] EXCEPT !.idle = 0]
        /\ jobs[claims[w].job] \in Job
    BY <1>3, WrittenFields
  <2>2. jobs'[j].idle = 0
    BY <2>1 DEF Job
  <2>3. QED BY <2>2, NewClaimsAreTyped, JobConstants
<1>4. ASSUME ~ renewJobLease(w), ~ WriteUnderLease(w),
             \A i \in Jobs : Claimable(i) => ~ Lease(i, w)
      PROVE  jobs'[j].idle + claims'[w].left <= LeaseTime
  <2>1. /\ claims[w] # NoClaim /\ j = claims[w].job
        /\ claims[w].left > 0 /\ claims'[w].left <= claims[w].left
        /\ Tick => claims'[w].left = Sooner(claims[w].left)
    BY <1>4, OldClaims
  <2>2. claims[w] \in Claim
    BY <2>1, ClaimsAreTyped
  <2>3. \/ claims'[w] = claims[w]
        \/ claims'[w] = [claims[w] EXCEPT !.left = Sooner(@)]
    BY <1>4, ClaimSteps
  <2>4. claims'[w].beat = claims[w].beat
    BY <2>2, <2>3 DEF Claim
  <2>5. claims[w].beat
    BY <2>4, Zenon
  <2>6. /\ Streaming(j) /\ jobs[j] \in Job /\ jobs'[j] \in Job
        /\ \/ \E v \in Workers \ {w} : Claimable(j) /\ Lease(j, v)
           \/ jobs'[j].idle = jobs[j].idle
           \/ jobs'[j].idle = 0
           \/ Tick /\ jobs'[j].idle = Older(jobs[j].idle, jobTimeout)
    BY <1>4, <2>1, JobOfOldClaim
  <2>7. jobs[j].idle + claims[w].left <= LeaseTime
    BY <2>1, <2>5, <2>6 DEF HeartbeatIsActivity
  <2>8. ASSUME NEW v \in Workers \ {w}, Lease(j, v)
        PROVE  jobs'[j].idle = jobs[j].idle
    BY <2>6, <2>8 DEF Lease, TypeOK, Job
  <2>9. /\ jobs[j].idle \in Nat /\ claims[w].left \in 0..LeaseTime
        /\ claims'[w].left \in 0..LeaseTime
    BY <2>1, <2>6, ClaimsAreTyped, NewClaimsAreTyped DEF Job
  <2>10. \/ jobs'[j].idle = jobs[j].idle
         \/ jobs'[j].idle = 0
         \/ Tick /\ jobs'[j].idle = Older(jobs[j].idle, jobTimeout)
    BY <2>6, <2>8
  <2>11. QED
    BY <2>1, <2>7, <2>9, <2>10, JobConstants DEF Older, Sooner
<1>5. QED BY <1>1, <1>2, <1>3, <1>4

\* LeasesEndWithJobs is preserved: whatever ends a job clears its lease.
LEMMA EndingStep ==
  ASSUME TypeOK, LeasesEndWithJobs, Next
  PROVE  LeasesEndWithJobs'
<1> SUFFICES ASSUME NEW j \in Jobs, Present(j)'
             PROVE  IF Streaming(j)' THEN jobs'[j].timedOut = FALSE
                    ELSE jobs'[j].owner = NoOwner /\ jobs'[j].lease = 0
  BY DEF LeasesEndWithJobs
<1>1. jobs'[j] # Unused /\ jobs'[j] # Removed
  BY DEF Present
<1>2. CASE jobs'[j] = jobs[j]
  BY <1>1, <1>2 DEF LeasesEndWithJobs, Streaming, Present
<1>3. ASSUME NEW params \in CreateParams, Admits(j, params)
      PROVE  jobs'[j].status = "streaming" /\ jobs'[j].timedOut = FALSE
  BY <1>3, InsertedJob DEF Admits
<1>4. ASSUME Streaming(j), jobs'[j] = [jobs[j] EXCEPT !.idle = 0]
      PROVE  jobs'[j].status = "streaming" /\ jobs'[j].timedOut = FALSE
  <2>1. jobs[j] \in Job /\ jobs[j].status = "streaming"
        /\ jobs[j].timedOut = FALSE
    BY <1>4, PresentJobs DEF LeasesEndWithJobs, Streaming
  <2>2. jobs'[j].status = jobs[j].status /\ jobs'[j].timedOut = jobs[j].timedOut
    BY <1>4, <2>1 DEF Job
  <2>3. QED BY <2>1, <2>2
<1>5. ASSUME Streaming(j), Ended(j)
      PROVE  /\ jobs'[j].status # "streaming"
             /\ jobs'[j].owner = NoOwner /\ jobs'[j].lease = 0
  <2>1. jobs[j] \in Job
    BY <1>5, PresentJobs DEF Streaming
  <2>2. QED BY <1>5, <2>1, FinishedFields, TimedOutFields DEF Ended
<1>6. ASSUME NEW w \in Workers, Claimable(j), Lease(j, w)
      PROVE  jobs'[j].status = "streaming" /\ jobs'[j].timedOut = FALSE
  <2>1. jobs[j] \in Job /\ jobs[j].status = "streaming"
        /\ jobs[j].timedOut = FALSE
    BY <1>6, PresentJobs DEF LeasesEndWithJobs, Claimable, Streaming
  <2>2. jobs'[j].status = jobs[j].status /\ jobs'[j].timedOut = jobs[j].timedOut
    BY <1>6, <2>1 DEF Lease, TypeOK, Job
  <2>3. QED BY <2>1, <2>2
<1>7. ASSUME NEW w \in Workers, claims[w].job = j, renewJobLease(w)
      PROVE  jobs'[j].timedOut = FALSE /\ jobs'[j].status = "streaming"
  <2>1. /\ Streaming(j) /\ jobs[j] \in Job
        /\ jobs'[j].timedOut = jobs[j].timedOut
    BY <1>7, RenewedFields DEF Holds
  <2>2. jobs[j].timedOut = FALSE
    BY <2>1 DEF LeasesEndWithJobs, Streaming
  <2>3. jobs'[j].status = jobs[j].status
    BY <1>7, <2>1 DEF renewJobLease, TypeOK, Job
  <2>4. QED BY <2>1, <2>2, <2>3 DEF Streaming
<1>8. ASSUME Present(j), jobs'[j] = Aged(jobs[j])
      PROVE  /\ jobs'[j].status = jobs[j].status
             /\ jobs'[j].timedOut = jobs[j].timedOut
             /\ jobs'[j].owner = jobs[j].owner
             /\ jobs'[j].lease = Sooner(jobs[j].lease)
  BY <1>8, PresentJobs, AgedFields
<1>9. CASE Tick /\ jobs'[j] = IF Present(j) THEN Aged(jobs[j]) ELSE jobs[j]
  <2>1. Present(j) /\ jobs'[j] = Aged(jobs[j])
    BY <1>1, <1>9 DEF Present
  <2>2. QED BY <1>1, <1>8, <2>1 DEF LeasesEndWithJobs, Streaming, Present, Sooner
<1>10. QED
  BY <1>1, <1>2, <1>3, <1>4, <1>5, <1>6, <1>7, <1>9, JobSteps
    DEF Streaming, Present

-----------------------------------------------------------------------------
\* A row keeps its key and its user, and starts streaming only when admitted.
LEMMA RowsKeepTheirKey ==
  ASSUME TypeOK, Next, NEW j \in Jobs, jobs[j] # Unused, Present(j)'
  PROVE  /\ Present(j)
         /\ jobs'[j].key = jobs[j].key /\ jobs'[j].user = jobs[j].user
         /\ Streaming(j)' => Streaming(j)
<1>1. jobs'[j] # Unused /\ jobs'[j] # Removed
  BY DEF Present
<1>2. CASE jobs'[j] = jobs[j]
  BY <1>1, <1>2 DEF Present, Streaming
<1>3. ASSUME NEW params \in CreateParams, Admits(j, params) PROVE FALSE
  BY <1>3 DEF Admits, InsertJob
<1>4. ASSUME Streaming(j), jobs'[j] = [jobs[j] EXCEPT !.idle = 0] \/ Ended(j)
      PROVE  jobs'[j].key = jobs[j].key /\ jobs'[j].user = jobs[j].user
  <2>1. jobs[j] \in Job
    BY <1>4, PresentJobs DEF Streaming
  <2>2. CASE jobs'[j] = [jobs[j] EXCEPT !.idle = 0]
    BY <2>1, <2>2 DEF Job
  <2>3. CASE Ended(j)
    BY <2>1, <2>3, FinishedFields, TimedOutFields DEF Ended
  <2>4. QED BY <1>4, <2>2, <2>3
<1>5. ASSUME NEW w \in Workers, Claimable(j), Lease(j, w)
      PROVE  /\ Streaming(j)
             /\ jobs'[j].key = jobs[j].key /\ jobs'[j].user = jobs[j].user
  BY <1>5, LeasedFields DEF Claimable
<1>6. ASSUME NEW w \in Workers, claims[w].job = j, renewJobLease(w)
      PROVE  /\ Streaming(j)
             /\ jobs'[j].key = jobs[j].key /\ jobs'[j].user = jobs[j].user
  BY <1>6, RenewedFields DEF Holds
<1>7. CASE Tick /\ jobs'[j] = IF Present(j) THEN Aged(jobs[j]) ELSE jobs[j]
  <2>1. Present(j) /\ jobs'[j] = Aged(jobs[j])
    BY <1>1, <1>7 DEF Present
  <2>2. QED BY <2>1, PresentJobs, AgedFields DEF Streaming
<1>8. QED
  BY <1>1, <1>2, <1>3, <1>4, <1>5, <1>6, <1>7, JobSteps DEF Streaming

\* A new row passed the tests of key and capacity.
LEMMA RowsAreAdmitted ==
  ASSUME TypeOK, Next, NEW j \in Jobs, jobs[j] = Unused, Present(j)'
  PROVE  \E params \in CreateParams : Admits(j, params)
<1>1. jobs'[j] # Unused /\ jobs'[j] # Removed /\ ~ Streaming(j) /\ ~ Present(j)
  BY DEF Present, Streaming
<1>2. \A w \in Workers : ~ Claimable(j)
  BY <1>1 DEF Claimable
<1>3. \A w \in Workers : ~ (claims[w].job = j /\ renewJobLease(w))
  BY <1>1, RenewedFields DEF Holds
<1>4. QED BY <1>1, <1>2, <1>3, JobSteps

\* SweptJobsEnded is preserved: no job streams again.
LEMMA SweptStep ==
  ASSUME TypeOK, SweptJobsEnded, Next
  PROVE  SweptJobsEnded'
<1>1. ASSUME NEW j \in Jobs, jobs[j] # Unused, ~ Streaming(j)
      PROVE  jobs'[j] # Unused /\ ~ Streaming(j)'
  <2>1. ~ Streaming(j)'
    BY <1>1, StreamingSteps
  <2>2. ASSUME NEW params \in CreateParams, Admits(j, params) PROVE FALSE
    BY <1>1, <2>2 DEF Admits, InsertJob
  <2>3. \A w \in Workers : /\ ~ Claimable(j)
                           /\ ~ (claims[w].job = j /\ renewJobLease(w))
    BY <1>1, RenewedFields DEF Claimable, Holds
  <2>4. ASSUME Present(j) PROVE Aged(jobs[j]) # Unused
    BY <2>4, PresentJobs, AgedJob, JobSentinels
  <2>5. jobs'[j] # Unused
    BY <1>1, <2>2, <2>3, <2>4, JobSteps, JobSentinels
  <2>6. QED BY <2>1, <2>5
<1>2. CASE sweep' = sweep \/ sweep' = NotSweeping
  <2>1. ASSUME sweep' # NotSweeping, NEW j \in sweep'
        PROVE  jobs'[j] # Unused /\ ~ Streaming(j)'
    <3>1. sweep # NotSweeping /\ j \in sweep /\ j \in Jobs
      BY <1>2, <2>1 DEF TypeOK
    <3>2. jobs[j] # Unused /\ ~ Streaming(j)
      BY <3>1 DEF SweptJobsEnded
    <3>3. QED BY <1>1, <3>1, <3>2
  <2>2. QED BY <2>1 DEF SweptJobsEnded, Streaming, Present
<1>3. CASE TimeOutJobs
  <2>1. ASSUME NEW j \in sweep' PROVE j \in Jobs /\ Present(j) /\ ~ Streaming(j)
    BY <1>3, <2>1 DEF TimeOutJobs, Streaming
  <2>2. QED BY <1>1, <2>1 DEF SweptJobsEnded, Streaming, Present
<1>4. sweep' = sweep \/ sweep' = NotSweeping \/ TimeOutJobs
  BY DEF Next, createJob, BeginCreateInD1, LookUpKey, InsertIfCapacity,
     updateJob, finish, abortJob, claimJob, claimNextJob, Lease,
     renewJobLease, WriteUnderLease, FinishUnderLease, LeaseLost,
     WorkerStops, RemoveJobs, Tick
<1>5. QED BY <1>2, <1>3, <1>4

\* KeysUnique is preserved: a row is admitted only if none has its key.
LEMMA KeysStep ==
  ASSUME TypeOK, KeysUnique, Next
  PROVE  KeysUnique'
<1> SUFFICES ASSUME NEW i \in Jobs, NEW j \in Jobs, Present(i)', Present(j)',
                    jobs'[i].key = jobs'[j].key, jobs'[i].key # NoKey, i # j
             PROVE  FALSE
  BY DEF KeysUnique
<1>1. ASSUME NEW k \in Jobs, NEW l \in Jobs, Present(k)', Present(l)',
             jobs'[k].key = jobs'[l].key, jobs'[k].key # NoKey, k # l,
             jobs[k] = Unused
      PROVE  FALSE
  <2>1. PICK params \in CreateParams : Admits(k, params)
    BY <1>1, RowsAreAdmitted
  <2>2. jobs'[k].key = params.key /\ jobs'[l] = jobs[l]
        /\ WithKey(params.key) = {}
    BY <1>1, <2>1, InsertedJob DEF Admits
  <2>3. Present(l)
    BY <1>1, <2>2 DEF Present
  <2>4. l \in WithKey(params.key)
    BY <1>1, <2>2, <2>3 DEF WithKey
  <2>5. QED BY <2>2, <2>4
<1>2. jobs[i] # Unused /\ jobs[j] # Unused
  BY <1>1
<1>3. /\ Present(i) /\ Present(j)
      /\ jobs[i].key = jobs[j].key /\ jobs[i].key # NoKey
  BY <1>2, RowsKeepTheirKey
<1>4. QED BY <1>3 DEF KeysUnique

\* AnswersNameTheirKey is preserved.
LEMMA AnswersStep ==
  ASSUME TypeOK, KnownJobsExist, AnswersNameTheirKey, Next
  PROVE  AnswersNameTheirKey'
<1> SUFFICES ASSUME NEW a \in answers', Present(a.job)'
             PROVE  jobs'[a.job].key = a.key
  BY DEF AnswersNameTheirKey, Present
<1>1. CASE a \in answers
  BY <1>1, RowsKeepTheirKey DEF KnownJobsExist, AnswersNameTheirKey, TypeOK
<1>2. CASE a \notin answers
  BY <1>2, NewAnswers
<1>3. QED BY <1>1, <1>2

\* A set below a limit may grow by one element.
LEMMA OneMore ==
  ASSUME NEW S \in SUBSET Jobs, NEW T \in SUBSET Jobs, NEW j \in Jobs,
         NEW limit \in Nat,
         \/ T \subseteq S /\ Cardinality(S) <= limit
         \/ T \subseteq S \cup {j} /\ Cardinality(S) < limit
  PROVE  Cardinality(T) <= limit
<1>1. IsFiniteSet(S) /\ IsFiniteSet(T) /\ IsFiniteSet(S \cup {j})
  BY JobConstants, FS_Subset
<1>2. /\ Cardinality(S) \in Nat /\ Cardinality(T) \in Nat
      /\ Cardinality(S \cup {j}) \in Nat
  BY <1>1, FS_CardinalityType
<1>3. T \subseteq S => Cardinality(T) <= Cardinality(S)
  BY <1>1, FS_Subset
<1>4. T \subseteq S \cup {j} => Cardinality(T) <= Cardinality(S \cup {j})
  BY <1>1, FS_Subset
<1>5. Cardinality(S \cup {j}) <= Cardinality(S) + 1
  BY <1>1, <1>2, FS_AddElement
<1>6. QED BY <1>2, <1>3, <1>4, <1>5

\* CapsHold is preserved: only an admission adds a streaming job.
LEMMA CapsStep ==
  ASSUME TypeOK, CapsHold, Next
  PROVE  CapsHold'
<1> DEFINE all == StreamingJobs'
           of(user) == StreamingOf(user)'
<1>1. StreamingJobs \in SUBSET Jobs /\ all \in SUBSET Jobs
  BY DEF StreamingJobs
<1>2. \A user \in Users :
        StreamingOf(user) \in SUBSET Jobs /\ of(user) \in SUBSET Jobs
  BY DEF StreamingOf, StreamingJobs
<1>3. ASSUME NEW j \in Jobs, NEW params \in CreateParams, Admits(j, params)
      PROVE  CapsHold'
  <2>1. /\ \A i \in Jobs \ {j} : jobs'[i] = jobs[i]
        /\ jobs'[j].user = params.user /\ HasCapacity(params.user)
    BY <1>3, InsertedJob DEF Admits
  <2>2. \A i \in Jobs \ {j} : Streaming(i)' => Streaming(i)
    BY <2>1 DEF Streaming, Present
  <2>3. all \subseteq StreamingJobs \cup {j}
    BY <2>2 DEF StreamingJobs
  <2>4. \A user \in Users :
          \/ user = params.user /\ of(user) \subseteq StreamingOf(user) \cup {j}
          \/ of(user) \subseteq StreamingOf(user)
    BY <2>1, <2>2 DEF StreamingOf, StreamingJobs
  <2>5. params.user \in Users
    BY DEF CreateParams
  <2> HIDE DEF all, of
  <2>6. Cardinality(all) <= maxConcurrentJobs
    BY <1>1, <1>3, <2>1, <2>3, OneMore, JobConstants DEF HasCapacity
  <2>7. ASSUME NEW user \in Users
        PROVE  Cardinality(of(user)) <= maxConcurrentJobsPerUser
    BY <1>2, <1>3, <2>1, <2>4, OneMore, JobConstants DEF HasCapacity, CapsHold
  <2>8. QED BY <2>6, <2>7 DEF CapsHold, all, of
<1>4. ASSUME \A j \in Jobs : \A params \in CreateParams : ~ Admits(j, params)
      PROVE  CapsHold'
  <2>1. ASSUME NEW j \in Jobs, Streaming(j)'
        PROVE  Streaming(j) /\ jobs'[j].user = jobs[j].user
    <3>1. Present(j)'
      BY <2>1 DEF Streaming
    <3>2. jobs[j] # Unused
      BY <1>4, <3>1, RowsAreAdmitted
    <3>3. QED BY <2>1, <3>1, <3>2, RowsKeepTheirKey
  <2>2. all \subseteq StreamingJobs
    BY <2>1 DEF StreamingJobs
  <2>3. \A user \in Users : of(user) \subseteq StreamingOf(user)
    BY <2>1 DEF StreamingOf, StreamingJobs
  <2> HIDE DEF all, of
  <2>4. Cardinality(all) <= maxConcurrentJobs
    <3>1. CASE Jobs = {}
      BY <1>1, <2>2, <3>1, JobConstants, FS_EmptySet DEF CapsHold
    <3>2. ASSUME NEW j \in Jobs PROVE Cardinality(all) <= maxConcurrentJobs
      BY <1>1, <2>2, OneMore, JobConstants DEF CapsHold
    <3>3. QED BY <3>1, <3>2
  <2>5. ASSUME NEW user \in Users
        PROVE  Cardinality(of(user)) <= maxConcurrentJobsPerUser
    <3>1. CASE Jobs = {}
      BY <1>2, <2>3, <3>1, JobConstants, FS_EmptySet DEF CapsHold
    <3>2. ASSUME NEW j \in Jobs
          PROVE Cardinality(of(user)) <= maxConcurrentJobsPerUser
      BY <1>2, <2>3, OneMore, JobConstants DEF CapsHold
    <3>3. QED BY <3>1, <3>2
  <2>6. QED BY <2>4, <2>5 DEF CapsHold, all, of
<1>5. QED BY <1>3, <1>4

-----------------------------------------------------------------------------
\* The empty store satisfies the invariant.
LEMMA InitJobsInv == Init => JobsInv
<1> SUFFICES ASSUME Init PROVE JobsInv
  OBVIOUS
<1> USE DEF Init
<1>1. TypeOK
  BY DEF TypeOK
<1>2. \A j \in Jobs : ~ Present(j) /\ ~ Streaming(j)
  BY DEF Present, Streaming
<1>3. StreamingJobs = {} /\ \A user \in Users : StreamingOf(user) = {}
  BY <1>2 DEF StreamingJobs, StreamingOf
<1>4. CapsHold
  BY <1>3, FS_EmptySet, JobConstants DEF CapsHold
<1>5. KnownJobsExist /\ LeaseBacked /\ HeartbeatIsActivity
      /\ LeaseExclusive /\ FenceAdmitsLatestAttempt
  BY DEF KnownJobsExist, LeaseBacked, HeartbeatIsActivity, LeaseExclusive,
         FenceAdmitsLatestAttempt
<1>6. LeasesEndWithJobs /\ SweptJobsEnded /\ KeysUnique /\ AnswersNameTheirKey
  BY <1>2 DEF LeasesEndWithJobs, SweptJobsEnded, KeysUnique,
              AnswersNameTheirKey
<1>7. QED BY <1>1, <1>4, <1>5, <1>6 DEF JobsInv

\* The invariant is inductive.
LEMMA JobsInvStep == JobsInv /\ [Next]_vars => JobsInv'
<1> SUFFICES ASSUME JobsInv, [Next]_vars PROVE JobsInv'
  OBVIOUS
<1>1. CASE Next
  <2>1. /\ TypeOK /\ KnownJobsExist /\ LeaseBacked /\ LeaseExclusive
        /\ FenceAdmitsLatestAttempt /\ HeartbeatIsActivity
        /\ LeasesEndWithJobs /\ SweptJobsEnded /\ KeysUnique
        /\ AnswersNameTheirKey /\ CapsHold
    BY DEF JobsInv
  <2>2. TypeOK' /\ KnownJobsExist' /\ LeaseBacked' /\ LeaseExclusive'
    BY <1>1, <2>1, TypeStep, KnownStep, LeaseStep, ExclusiveStep
  <2>3. FenceAdmitsLatestAttempt' /\ HeartbeatIsActivity' /\ LeasesEndWithJobs'
    BY <1>1, <2>1, FenceStep, HeartbeatStep, EndingStep
  <2>4. SweptJobsEnded' /\ KeysUnique' /\ AnswersNameTheirKey' /\ CapsHold'
    BY <1>1, <2>1, SweptStep, KeysStep, AnswersStep, CapsStep
  <2>5. QED BY <2>2, <2>3, <2>4 DEF JobsInv
<1>2. CASE UNCHANGED vars
  BY <1>2 DEF vars, JobsInv, TypeOK, KnownJobsExist, LeaseBacked,
    LeaseExclusive, FenceAdmitsLatestAttempt, HeartbeatIsActivity,
    LeasesEndWithJobs, SweptJobsEnded, KeysUnique, AnswersNameTheirKey,
    CapsHold, Holds, Streaming, Present, StreamingJobs, StreamingOf
<1>3. QED BY <1>1, <1>2

\* The inductive invariant holds of every behaviour.
THEOREM JobsInvariant == Spec => []JobsInv
BY InitJobsInv, JobsInvStep, PTL DEF Spec

\* Every variable of the job store keeps its type.
THEOREM JobsTypeCorrect == Spec => []TypeOK
<1>1. JobsInv => TypeOK
  BY DEF JobsInv
<1>2. QED BY <1>1, JobsInvariant, PTL

\* Admission keeps both caps, in one transaction and in D1.
THEOREM Capped == Spec => []CapsHold
<1>1. JobsInv => CapsHold
  BY DEF JobsInv
<1>2. QED BY <1>1, JobsInvariant, PTL

\* All retries with one idempotency key are answered with one job.
THEOREM Idempotent == Spec => []KeyNamesOneJob
<1>1. JobsInv => KeyNamesOneJob
  <2> SUFFICES ASSUME JobsInv, NEW a \in answers, NEW b \in answers,
                      a.key = b.key, Present(a.job), Present(b.job)
               PROVE  a.job = b.job
    BY DEF KeyNamesOneJob
  <2>1. a.job \in Jobs /\ b.job \in Jobs /\ a.key \in Keys
    BY DEF JobsInv, TypeOK
  <2>2. jobs[a.job].key = a.key /\ jobs[b.job].key = b.key
    BY DEF JobsInv, AnswersNameTheirKey
  <2>3. a.key # NoKey
    BY <2>1, JobConstants
  <2>4. QED BY <2>1, <2>2, <2>3 DEF JobsInv, KeysUnique
<1>2. QED BY <1>1, JobsInvariant, PTL

\* An unexpired lease has one believer.
THEOREM Exclusive == Spec => []LeaseExclusive
<1>1. JobsInv => LeaseExclusive
  BY DEF JobsInv
<1>2. QED BY <1>1, JobsInvariant, PTL

\* The owner test of every fenced write admits only the latest attempt.
THEOREM Fenced == Spec => []FenceAdmitsLatestAttempt
<1>1. JobsInv => FenceAdmitsLatestAttempt
  BY DEF JobsInv
<1>2. QED BY <1>1, JobsInvariant, PTL

\* The sweep spares every job whose worker renews in time.
THEOREM HeartbeatsCount == Spec => HeartbeatKeepsAlive
<1> DEFINE Beats(w) == /\ claims[w] # NoClaim
                       /\ claims[w].beat /\ claims[w].left > 0
                       /\ Streaming(claims[w].job)
<1>1. ASSUME JobsInv, Next, NEW w \in Workers, Beats(w)
      PROVE  ~ jobs'[claims[w].job].timedOut
  <2> DEFINE j == claims[w].job
  <2>1. TypeOK /\ LeasesEndWithJobs /\ SweptJobsEnded /\ HeartbeatIsActivity
    BY <1>1 DEF JobsInv
  <2>2. j \in Jobs /\ claims[w].left \in 0..LeaseTime /\ jobs[j] \in Job
    BY <1>1, <2>1, ClaimsAreTyped, PresentJobs DEF Streaming
  <2>3. jobs[j].idle < jobTimeout /\ jobs[j].timedOut = FALSE
    <3>1. jobs[j].idle + claims[w].left <= LeaseTime
      BY <1>1, <2>1 DEF HeartbeatIsActivity
    <3>2. jobs[j].idle \in Nat
      BY <2>2 DEF Job
    <3>3. jobs[j].timedOut = FALSE
      BY <1>1, <2>1, <2>2 DEF LeasesEndWithJobs, Streaming
    <3>4. QED BY <1>1, <2>2, <3>1, <3>2, <3>3, JobConstants
  <2>4. jobs'[j].timedOut = FALSE
    <3>1. ~ Expired(jobs[j]) /\ (sweep # NotSweeping => j \notin sweep)
          /\ jobs[j] # Unused /\ Streaming(j) /\ Present(j)
      BY <1>1, <2>1, <2>3, JobConstants
        DEF Expired, SweptJobsEnded, Streaming, Present
    <3>2. ASSUME Ended(j) PROVE jobs'[j].timedOut = FALSE
      BY <2>2, <2>3, <3>1, <3>2, FinishedFields DEF Ended
    <3>3. ASSUME NEW params \in CreateParams, Admits(j, params) PROVE FALSE
      BY <3>1, <3>3 DEF Admits, InsertJob
    <3>4. ASSUME jobs'[j] = [jobs[j] EXCEPT !.idle = 0]
          PROVE  jobs'[j].timedOut = FALSE
      BY <2>2, <2>3, <3>4 DEF Job
    <3>5. ASSUME NEW v \in Workers, Lease(j, v)
          PROVE  jobs'[j].timedOut = FALSE
      BY <2>1, <2>2, <2>3, <3>1, <3>5, LeasedFields
    <3>6. ASSUME NEW v \in Workers, claims[v].job = j, renewJobLease(v)
          PROVE  jobs'[j].timedOut = FALSE
      BY <2>1, <2>3, <3>6, RenewedFields
    <3>7. ASSUME jobs'[j] = Aged(jobs[j]) PROVE jobs'[j].timedOut = FALSE
      BY <2>2, <2>3, <3>7, AgedFields
    <3> HIDE DEF j
    <3>8. QED
      BY <1>1, <2>1, <2>2, <2>3, <3>1, <3>2, <3>3, <3>4, <3>5, <3>6, <3>7,
         JobSteps
  <2>5. QED BY <2>4, Zenon
<1>2. ASSUME JobsInv, [Next]_vars
      PROVE  [\A w \in Workers : Beats(w)
                => ~ jobs'[claims[w].job].timedOut]_vars
  BY <1>1, <1>2
<1>3. QED BY <1>2, JobsInvariant, PTL DEF Spec, HeartbeatKeepsAlive

\* A job that has ended only ages or is removed.
THEOREM EndingsAreFinal == Spec => TerminalIsFinal
<1>1. ASSUME TypeOK, LeasesEndWithJobs, Next, NEW j \in Jobs, Present(j),
             ~ Streaming(j)
      PROVE  \/ jobs'[j] = Removed
             \/ [jobs'[j] EXCEPT !.idle = 0, !.done = 0]
                   = [jobs[j] EXCEPT !.idle = 0, !.done = 0]
  <2>1. jobs[j] \in Job /\ jobs[j] # Unused
        /\ jobs[j].status # "streaming" /\ jobs[j].lease = 0
    BY <1>1, PresentJobs DEF Streaming, Present, LeasesEndWithJobs
  <2>2. \A params \in CreateParams : ~ Admits(j, params)
    BY <2>1 DEF Admits, InsertJob
  <2>3. \A v \in Workers : /\ ~ Claimable(j)
                           /\ ~ (claims[v].job = j /\ renewJobLease(v))
    BY <1>1, RenewedFields DEF Claimable, Holds
  <2>4. ASSUME jobs'[j] = Aged(jobs[j])
        PROVE  [jobs'[j] EXCEPT !.idle = 0, !.done = 0]
                  = [jobs[j] EXCEPT !.idle = 0, !.done = 0]
    <3>1. jobs'[j] = [jobs[j] EXCEPT
                        !.done = Older(@, completedJobRetention), !.lease = 0]
      BY <2>1, <2>4 DEF Aged, Sooner
    <3>2. \A x : [[[[jobs[j] EXCEPT !.done = x] EXCEPT !.lease = 0]
                      EXCEPT !.idle = 0] EXCEPT !.done = 0]
                 = [[jobs[j] EXCEPT !.idle = 0] EXCEPT !.done = 0]
      BY <2>1 DEF Job
    <3>3. QED BY <3>1, <3>2
  <2>5. QED BY <1>1, <2>2, <2>3, <2>4, JobSteps
<1>2. ASSUME JobsInv, [Next]_vars
      PROVE  [\A j \in Jobs : Present(j) /\ ~ Streaming(j) =>
                \/ jobs'[j] = Removed
                \/ [jobs'[j] EXCEPT !.idle = 0, !.done = 0]
                      = [jobs[j] EXCEPT !.idle = 0, !.done = 0]]_vars
  BY <1>1, <1>2 DEF JobsInv
<1>3. QED BY <1>2, JobsInvariant, PTL DEF Spec, TerminalIsFinal

=============================================================================
