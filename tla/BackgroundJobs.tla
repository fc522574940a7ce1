--------------------------- MODULE BackgroundJobs ---------------------------
(***************************************************************************)
(* The durable background jobs of sqlite-provider.ts: admission under      *)
(* caps with an idempotency key, leases that workers claim and renew,      *)
(* fenced writes, abort, and the sweep that times out and removes jobs.    *)
(*                                                                         *)
(* Every call but createJob and cleanupExpired is one SQL statement, hence *)
(* one step.  The local createJob is a transaction; the D1 one is three    *)
(* awaited statements.  Time is kept as ages: each row says how long ago   *)
(* its timestamps were, up to the limit the code compares them with.       *)
(***************************************************************************)
EXTENDS Integers, FiniteSets

CONSTANTS
  Jobs,                       \* ids randomUUID may return, each used once
  Users, Keys, NoKey,         \* idempotency keys; NoKey is a job without one
  Calls,                      \* the createJob calls that clients make
  Workers, NoOwner,           \* lease owners, one per execution
  Creates, NoCreate,          \* createJob calls that D1 serves concurrently
  Unused, Removed,            \* a job without a row: not created yet, deleted
  NoClaim,                    \* a worker without a job
  NotSweeping,                \* no cleanupExpired is running
  maxConcurrentJobs, maxConcurrentJobsPerUser,
  jobTimeout, completedJobRetention,
  LeaseTime,                  \* how long a claim or a renewal lasts
  MaxAttempts                 \* bound: the claims of one job

CreateParams == [user: Users, key: Keys \cup {NoKey}, executable: BOOLEAN]

ASSUME JobConstants ==
  /\ IsFiniteSet(Jobs)
  /\ Calls \subseteq CreateParams
  /\ maxConcurrentJobs \in Nat /\ maxConcurrentJobsPerUser \in Nat
  /\ jobTimeout \in Nat /\ completedJobRetention \in Nat \ {0}
  /\ LeaseTime \in Nat \ {0} /\ LeaseTime <= jobTimeout
  /\ MaxAttempts \in Nat
  /\ NoKey \notin Keys /\ NoOwner \notin Workers

VARIABLES
  driver,     \* "local" or "d1", fixed by the configuration
  jobs,       \* background_jobs, by id
  creates,    \* the D1 createJob calls in flight
  sweep,      \* the ids the running cleanupExpired is about to delete
  claims,     \* what each worker believes it holds
  answers     \* every (key, id) createJob returned (history variable)

vars == <<driver, jobs, creates, sweep, claims, answers>>

Statuses == {"streaming", "complete", "error", "aborted"}

Job == [user: Users, key: Keys \cup {NoKey}, status: Statuses,
        timedOut: BOOLEAN,            \* error = 'Job timed out'
        executable: BOOLEAN,          \* execution_json IS NOT NULL
        started: Nat,                 \* started_at, as a rank
        idle: 0..jobTimeout,          \* the age of last_activity_at, streaming
        done: 0..completedJobRetention,  \* the age of completed_at
        owner: Workers \cup {NoOwner},
        lease: 0..LeaseTime,          \* what is left until lease_expires_at
        attempts: Nat]

Create == [pc: {"lookup", "insert", "again"}, params: CreateParams]

\* beat: the worker has renewed, or written, since it claimed.
Claim == [job: Jobs, attempt: Nat, left: 0..LeaseTime, beat: BOOLEAN]

ASSUME JobSentinels ==
  /\ Unused \notin Job /\ Removed \notin Job /\ Unused # Removed
  /\ NoClaim \notin Claim /\ NoCreate \notin Create

Init ==
  /\ driver \in {"local", "d1"}
  /\ jobs = [j \in Jobs |-> Unused]
  /\ creates = [c \in Creates |-> NoCreate]
  /\ sweep = NotSweeping
  /\ claims = [w \in Workers |-> NoClaim]
  /\ answers = {}

-----------------------------------------------------------------------------
Present(j) == jobs[j] \notin {Unused, Removed}

Streaming(j) == Present(j) /\ jobs[j].status = "streaming"

StreamingJobs == {j \in Jobs : Streaming(j)}

StreamingOf(user) == {j \in StreamingJobs : jobs[j].user = user}

WithKey(key) == {j \in Jobs : key # NoKey /\ Present(j) /\ jobs[j].key = key}

\* Mutant: <= for <.
HasRoom(user) ==
  /\ Cardinality(StreamingJobs) <= maxConcurrentJobs
  /\ Cardinality(StreamingOf(user)) <= maxConcurrentJobsPerUser

\* The caps, as the insert tests them.
HasCapacity(user) ==
  /\ Cardinality(StreamingJobs) < maxConcurrentJobs
  /\ Cardinality(StreamingOf(user)) < maxConcurrentJobsPerUser

\* randomUUID: an id not used before.  Ids are interchangeable.
NewId == CHOOSE j \in Jobs : jobs[j] = Unused

\* A new row; Date.now() does not go back.
InsertJob(j, params) ==
  \E started \in 0..Cardinality({i \in Jobs : jobs[i] # Unused}) :
    /\ jobs[j] = Unused /\ j = NewId
    /\ \A i \in Jobs : Present(i) => jobs[i].started <= started
    /\ jobs' = [jobs EXCEPT ![j] =
         [user |-> params.user, key |-> params.key, status |-> "streaming",
          timedOut |-> FALSE, executable |-> params.executable,
          started |-> started,
          idle |-> 0, done |-> 0, owner |-> NoOwner, lease |-> 0,
          attempts |-> 0]]

Answered(key, j) ==
  answers' = answers \cup IF key = NoKey THEN {} ELSE {[key |-> key, job |-> j]}

\* One transaction: the key, the caps, the insert.
createJob(params) ==
  /\ driver = "local"
  /\ IF WithKey(params.key) # {}
     THEN /\ \E j \in WithKey(params.key) : Answered(params.key, j)
          /\ UNCHANGED jobs
     ELSE /\ HasCapacity(params.user)
          /\ \E j \in Jobs : /\ InsertJob(j, params)
                             /\ Answered(params.key, j)
  /\ UNCHANGED <<driver, creates, sweep, claims>>

BeginCreateInD1(c, params) ==
  /\ driver = "d1"
  /\ creates[c] = NoCreate
  /\ creates' = [creates EXCEPT ![c] =
       [pc |-> IF params.key = NoKey THEN "insert" ELSE "lookup",
        params |-> params]]
  /\ UNCHANGED <<driver, jobs, sweep, claims, answers>>

InCreate(c, pc) == creates[c] # NoCreate /\ creates[c].pc = pc

\* The two reads of the key: a job that has it answers the call.
LookUpKey(c) ==
  LET key == creates[c].params.key
  IN  /\ InCreate(c, "lookup") \/ InCreate(c, "again")
      /\ IF WithKey(key) # {}
         THEN /\ \E j \in WithKey(key) : Answered(key, j)
              /\ creates' = [creates EXCEPT ![c] = NoCreate]
         ELSE /\ creates' = IF creates[c].pc = "lookup"
                            THEN [creates EXCEPT ![c].pc = "insert"]
                            ELSE [creates EXCEPT ![c] = NoCreate]
              /\ UNCHANGED answers
      /\ UNCHANGED <<driver, jobs, sweep, claims>>

\* Mutant: the insert relies on the lookup for the key.
InsertsIfRoom(user, key) == HasCapacity(user)

\* INSERT ... WHERE below the caps ON CONFLICT(idempotency_key) DO NOTHING.
InsertsRow(user, key) == HasCapacity(user) /\ WithKey(key) = {}

InsertIfCapacity(c) ==
  LET params == creates[c].params
  IN  /\ InCreate(c, "insert")
      /\ IF InsertsRow(params.user, params.key)
         THEN /\ \E j \in Jobs : InsertJob(j, params) /\ Answered(params.key, j)
              /\ creates' = [creates EXCEPT ![c] = NoCreate]
         ELSE /\ creates' = IF params.key = NoKey
                            THEN [creates EXCEPT ![c] = NoCreate]
                            ELSE [creates EXCEPT ![c].pc = "again"]
              /\ UNCHANGED <<jobs, answers>>
      /\ UNCHANGED <<driver, sweep, claims>>

-----------------------------------------------------------------------------
\* Calls without a lease: the process that created the job runs it itself.

updateJob(j) ==
  /\ Streaming(j)
  /\ jobs' = [jobs EXCEPT ![j].idle = 0]
  /\ UNCHANGED <<driver, creates, sweep, claims, answers>>

\* Mutant: a status the readers do not know.
FinishedAs(job, status) ==
  [job EXCEPT !.status = IF status = "error" THEN "failed" ELSE status,
              !.done = 0, !.idle = 0, !.owner = NoOwner, !.lease = 0]

Finished(job, status) ==
  [job EXCEPT !.status = status, !.done = 0, !.idle = 0,
              !.owner = NoOwner, !.lease = 0]

\* Mutant: a job that is no longer streaming is finished again.
FinishAgain(j, status) ==
  /\ Present(j)
  /\ jobs' = [jobs EXCEPT ![j] = Finished(@, status)]
  /\ UNCHANGED <<driver, creates, sweep, claims, answers>>

finish(j, status) ==
  /\ Streaming(j)
  /\ jobs' = [jobs EXCEPT ![j] = Finished(@, status)]
  /\ UNCHANGED <<driver, creates, sweep, claims, answers>>

abortJob(j, user) ==
  /\ Streaming(j)
  /\ jobs[j].user = user
  /\ jobs' = [jobs EXCEPT ![j] = Finished(@, "aborted")]
  /\ UNCHANGED <<driver, creates, sweep, claims, answers>>

-----------------------------------------------------------------------------
\* Leases.

\* Mutant: the lease of another worker is not looked at.
Unfinished(j) == Streaming(j) /\ jobs[j].executable

\* A job waits for a worker when its lease is free or has run out.
Claimable(j) == /\ Streaming(j)
                /\ jobs[j].executable
                /\ jobs[j].owner = NoOwner \/ jobs[j].lease = 0

Lease(j, w) ==
  /\ jobs[j].attempts < MaxAttempts
  /\ jobs' = [jobs EXCEPT ![j].owner = w, ![j].lease = LeaseTime,
                          ![j].attempts = @ + 1]
  /\ claims' = [claims EXCEPT ![w] =
                  [job |-> j, attempt |-> jobs[j].attempts + 1,
                   left |-> LeaseTime, beat |-> FALSE]]
  /\ UNCHANGED <<driver, creates, sweep, answers>>

claimJob(j, w) == claims[w] = NoClaim /\ Claimable(j) /\ Lease(j, w)

\* The oldest of the jobs that wait.
claimNextJob(w) ==
  /\ claims[w] = NoClaim
  /\ \E j \in Jobs :
       /\ Claimable(j)
       /\ \A i \in Jobs : Claimable(i) => jobs[j].started <= jobs[i].started
       /\ Lease(j, w)

\* Mutant: the lease owner is not tested.
NotFenced(j, w) == Streaming(j)

\* WHERE status = 'streaming' AND lease_owner = ?
Holds(j, w) == Streaming(j) /\ jobs[j].owner = w

\* The statement changed no row: the worker gives the job up.
LeaseLost(w) ==
  /\ claims[w] # NoClaim
  /\ ~ Holds(claims[w].job, w)
  /\ claims' = [claims EXCEPT ![w] = NoClaim]
  /\ UNCHANGED <<driver, jobs, creates, sweep, answers>>

\* The lease may have run out: it is renewed as long as nobody took it.
renewJobLease(w) ==
  LET j == claims[w].job
  IN  /\ claims[w] # NoClaim
      /\ Holds(j, w)
      /\ jobs' = [jobs EXCEPT ![j].lease = LeaseTime, ![j].idle = 0]
      /\ claims' = [claims EXCEPT ![w].left = LeaseTime, ![w].beat = TRUE]
      /\ UNCHANGED <<driver, creates, sweep, answers>>

\* updateJob with a lease owner, and updateJobExecution.
WriteUnderLease(w) ==
  LET j == claims[w].job
  IN  /\ claims[w] # NoClaim
      /\ Holds(j, w)
      /\ jobs' = [jobs EXCEPT ![j].idle = 0]
      /\ claims' = [claims EXCEPT ![w].beat = TRUE]
      /\ UNCHANGED <<driver, creates, sweep, answers>>

\* completeJob and failJob with a lease owner.
FinishUnderLease(w, status) ==
  LET j == claims[w].job
  IN  /\ claims[w] # NoClaim
      /\ Holds(j, w)
      /\ jobs' = [jobs EXCEPT ![j] = Finished(@, status)]
      /\ claims' = [claims EXCEPT ![w] = NoClaim]
      /\ UNCHANGED <<driver, creates, sweep, answers>>

\* The worker dies, or stops because checkJobAborted told it to.
WorkerStops(w) ==
  /\ claims[w] # NoClaim
  /\ claims' = [claims EXCEPT ![w] = NoClaim]
  /\ UNCHANGED <<driver, jobs, creates, sweep, answers>>

-----------------------------------------------------------------------------
\* cleanupExpired: two statements with one `now'; time may pass in between.

\* Mutant: a job with a lease owner is left to its owner.
ExpiredAndFree(job) ==
  job.status = "streaming" /\ job.idle = jobTimeout /\ job.owner = NoOwner

Expired(job) == job.status = "streaming" /\ job.idle = jobTimeout

TimedOut(job) == [Finished(job, "error") EXCEPT !.timedOut = TRUE]

TimeOutJobs ==
  /\ sweep = NotSweeping
  /\ jobs' = [j \in Jobs |->
       IF Present(j) /\ Expired(jobs[j]) THEN TimedOut(jobs[j]) ELSE jobs[j]]
  /\ sweep' = {j \in Jobs : /\ Present(j)
                            /\ jobs[j].status # "streaming"
                            /\ jobs[j].done = completedJobRetention}
  /\ UNCHANGED <<driver, creates, claims, answers>>

RemoveJobs ==
  /\ sweep # NotSweeping
  /\ jobs' = [j \in Jobs |-> IF j \in sweep THEN Removed ELSE jobs[j]]
  /\ sweep' = NotSweeping
  /\ UNCHANGED <<driver, creates, claims, answers>>

Older(age, limit) == IF age < limit THEN age + 1 ELSE age

Sooner(left) == IF left > 0 THEN left - 1 ELSE 0

Aged(job) ==
  IF job.status = "streaming"
  THEN [job EXCEPT !.idle = Older(@, jobTimeout), !.lease = Sooner(@)]
  ELSE [job EXCEPT !.done = Older(@, completedJobRetention),
                   !.lease = Sooner(@)]

Tick ==
  /\ jobs' = [j \in Jobs |-> IF Present(j) THEN Aged(jobs[j]) ELSE jobs[j]]
  /\ claims' = [w \in Workers |->
       IF claims[w] = NoClaim THEN NoClaim
       ELSE [claims[w] EXCEPT !.left = Sooner(@)]]
  /\ UNCHANGED <<driver, creates, sweep, answers>>

Next ==
  \/ \E params \in Calls :
       \/ createJob(params)
       \/ \E c \in Creates : BeginCreateInD1(c, params)
  \/ \E c \in Creates : LookUpKey(c) \/ InsertIfCapacity(c)
  \/ \E j \in Jobs :
       \/ updateJob(j)
       \/ \E status \in {"complete", "error"} : finish(j, status)
       \/ \E user \in Users : abortJob(j, user)
  \/ \E w \in Workers :
       \/ \E j \in Jobs : claimJob(j, w)
       \/ claimNextJob(w)
       \/ renewJobLease(w) \/ WriteUnderLease(w)
       \/ \E status \in {"complete", "error"} : FinishUnderLease(w, status)
       \/ LeaseLost(w) \/ WorkerStops(w)
  \/ TimeOutJobs \/ RemoveJobs \/ Tick

\* Time passes, and the host calls cleanupExpired again and again.
Fairness == WF_vars(Tick) /\ WF_vars(TimeOutJobs) /\ WF_vars(RemoveJobs)

Spec == Init /\ [][Next]_vars

FairSpec == Spec /\ Fairness

-----------------------------------------------------------------------------
\* Every variable holds a value of its type.
TypeOK ==
  /\ driver \in {"local", "d1"}
  /\ jobs \in [Jobs -> Job \cup {Unused, Removed}]
  /\ creates \in [Creates -> Create \cup {NoCreate}]
  /\ sweep = NotSweeping \/ sweep \subseteq Jobs
  /\ claims \in [Workers -> Claim \cup {NoClaim}]
  /\ answers \subseteq [key: Keys, job: Jobs]

\* Concurrent admissions never exceed the caps of the deployment and of a
\* user, with or without a transaction around the count and the insert.
CapsHold ==
  /\ Cardinality(StreamingJobs) <= maxConcurrentJobs
  /\ \A user \in Users :
        Cardinality(StreamingOf(user)) <= maxConcurrentJobsPerUser

\* Retries of createJob with one idempotency key name one job: two different
\* answers never name two jobs that both still exist.
KeyNamesOneJob ==
  \A a, b \in answers :
    a.key = b.key /\ Present(a.job) /\ Present(b.job) => a.job = b.job

\* Two workers never both believe in an unexpired lease of one job.
LeaseExclusive ==
  \A w, v \in Workers :
    /\ claims[w] # NoClaim /\ claims[v] # NoClaim
    /\ claims[w].job = claims[v].job
    /\ claims[w].left > 0 /\ claims[v].left > 0
    => w = v

\* A worker whose job was claimed anew, finished, aborted or timed out since
\* cannot change it any more: what passes the fence is the latest attempt.
FenceAdmitsLatestAttempt ==
  \A w \in Workers :
    claims[w] # NoClaim /\ Holds(claims[w].job, w)
      => claims[w].attempt = jobs[claims[w].job].attempts

\* A worker that renews or writes before its lease runs out is never timed
\* out, however the sweep interleaves.
HeartbeatKeepsAlive ==
  [][\A w \in Workers :
       /\ claims[w] # NoClaim
       /\ claims[w].beat /\ claims[w].left > 0
       /\ Streaming(claims[w].job)
       => ~ jobs'[claims[w].job].timedOut]_vars

\* The first of completion, failure, abort and time-out decides: a job that
\* is not streaming only ever ages or disappears.
TerminalIsFinal ==
  [][\A j \in Jobs : Present(j) /\ ~ Streaming(j) =>
       \/ jobs'[j] = Removed
       \/ [jobs'[j] EXCEPT !.idle = 0, !.done = 0]
             = [jobs[j] EXCEPT !.idle = 0, !.done = 0]]_vars

\* A job whose workers are gone does not stream for ever: one that never
\* ends is touched again and again.
AbandonedJobEnds ==
  \A j \in Jobs :
    <>[]Streaming(j) => []<>(Streaming(j) /\ jobs[j].idle = 0)
-----------------------------------------------------------------------------
(***************************************************************************)
(* The inductive invariant, in parts.                                      *)
(***************************************************************************)

\* An id that a worker or a client knows was given to a row.
KnownJobsExist ==
  /\ \A w \in Workers : claims[w] # NoClaim => jobs[claims[w].job] # Unused
  /\ \A a \in answers : jobs[a.job] # Unused

\* The row outlives what its owner believes of the lease.
LeaseBacked ==
  \A w \in Workers :
    /\ claims[w] # NoClaim /\ claims[w].left > 0
    /\ Streaming(claims[w].job)
    => /\ Holds(claims[w].job, w)
       /\ claims[w].left <= jobs[claims[w].job].lease

\* After a renewal or a write the activity is as recent as the claim.
HeartbeatIsActivity ==
  \A w \in Workers :
    /\ claims[w] # NoClaim /\ claims[w].beat /\ claims[w].left > 0
    /\ Streaming(claims[w].job)
    => jobs[claims[w].job].idle + claims[w].left <= LeaseTime

\* A job that has ended has no lease, and one that streams no verdict.
LeasesEndWithJobs ==
  \A j \in Jobs : Present(j) =>
    IF Streaming(j) THEN jobs[j].timedOut = FALSE
                    ELSE jobs[j].owner = NoOwner /\ jobs[j].lease = 0

\* What the sweep will delete had ended when it looked, and still has.
SweptJobsEnded ==
  sweep # NotSweeping =>
    \A j \in sweep : jobs[j] # Unused /\ ~ Streaming(j)

\* The unique index on idempotency_key.
KeysUnique ==
  \A i, j \in Jobs :
    /\ Present(i) /\ Present(j)
    /\ jobs[i].key = jobs[j].key /\ jobs[i].key # NoKey
    => i = j

\* An answer names a job of its key.
AnswersNameTheirKey ==
  \A a \in answers : Present(a.job) => jobs[a.job].key = a.key

JobsInv ==
  /\ TypeOK
  /\ KnownJobsExist
  /\ LeaseBacked
  /\ LeaseExclusive
  /\ FenceAdmitsLatestAttempt
  /\ HeartbeatIsActivity
  /\ LeasesEndWithJobs
  /\ SweptJobsEnded
  /\ KeysUnique
  /\ AnswersNameTheirKey
  /\ CapsHold
=============================================================================
