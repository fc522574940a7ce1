# Verification of or3-provider-sqlite

or3-provider-sqlite stores the server side of the OR3 chat application in
SQLite, either through a local driver (better-sqlite3 or bun:sqlite, one
process) or in Cloudflare D1 (many isolates, no interactive transactions).
This directory holds TLA+ models of its core, the TLC configurations that
check them on small instances, and TLAPS proofs for all instances.

Contents: [the system](#the-system) ·
[modules](#modules) · [runs](#runs) · [what the runs found](#disagreements) ·
[proofs](#proofs) · [assumptions](#assumptions-and-simplifications) ·
[plan](#plan) · [how to run](#how-to-run).

## The system

All paths are below `src/src/runtime/server/`.

| Part | State | Operations | Hard because |
|---|---|---|---|
| **Sync gateway: push** `sync/sqlite-sync-gateway-adapter.ts` | `server_version_counter`, `change_log`, the tables `s_*`, `tombstones` | `push` (892-1382), `pushInD1` (2309-2729) | op_ids reused inside a batch and across workspaces, version blocks, last-writer-wins, rollback; in D1 every read is stale when the batch runs |
| **Device cursors and history GC**, same file and `sync/history-gc-policy.ts` | `device_cursors` | `updateCursor`, `gcTombstones`, `gcChangeLog`, the retention answer of `pull` | GC by age and cursor races devices that lag and pushes that are being stamped |
| **Pull and snapshots**, same file | `sync_snapshots`, `sync_snapshot_items` | `pull` (1386), `snapshot` (1454), `snapshotInD1` (2005) | several awaited reads; pages of a snapshot that expires |
| **Upload intents**, same file | `upload_intents` | reserve, consume, cancel | quota checked before the insert; reservations that count zero bytes |
| **Background jobs** `background-jobs/sqlite-provider.ts` | `background_jobs` | create, update, finish, abort, claim, renew, sweep | caps and idempotency without a transaction, leases, late workers, time-outs |
| **Connect store** `connect/sqlite-connect-store.ts` | `connect_device_authorizations`, `connect_environments` | authorize, approve, reserve, claim, complete, revoke, purge, rotate | a long protocol over two tables with fenced lifecycle workers |
| **Webhook store** `webhooks/sqlite-webhook-store.ts` | registrations, hooks, delivery log | create, update, disable, claim, retry, reset, purge | claims without a fence, whole-row updates |
| **Auth and workspaces** `auth/sqlite-auth-workspace-store.ts` | `users`, `auth_accounts`, `workspaces`, `workspace_members`, `auth_invites` | provisioning, membership, active workspace, invites | check-then-act over awaits |
| **Admin stores** `admin/stores/sqlite-store.ts` | the same members and workspaces, settings | members, roles, soft delete, restore | the last owner |
| **Sync admin adapter** `admin/adapters/sync-sqlite.ts`, `sync/maintenance-state.ts` | an in-memory status | runs the two GCs, counts the backlog | advisory only |
| **Rate limits** `rate-limit/sqlite-provider.ts` | `rate_limits` | one upsert | the boundary of a window |
| **Database layer** `db/kysely.ts`, `db/d1.ts`, `db/d1-dialect.ts`, `db/migrate.ts` | connection, schema | open, batch, migrate | D1 has no transaction around a migration |
| **Registration** `plugins/register.ts`, `src/src/module.ts` | cached promises | wiring | a failed D1 initialization is cached |

How they interact: nothing but the database is shared. Host code calls each
store; the gateway's GCs are called by the host and by the admin adapter; Connect
and the gateway read `workspace_members`. Under a local driver a
`raw.transaction(...)` runs to its end before anything else of the process; a
statement reached through Kysely is awaited, so other requests run between two of
them. Under D1 every statement is awaited, and only a `d1Batch` is atomic.

What makes each part correct:

- *push*: versions of a workspace are 1, 2, 3, … without holes or repetition; each
  accepted operation is logged once and reported truthfully; tables equal the
  last-writer-wins merge of all accepted operations.
- *GC*: no device that could pull is told (or silently made) to lose a change;
  tombstones are dropped only when they no longer decide anything.
- *jobs*: caps hold; a key names one job; one worker at a time believes in a lease;
  a superseded worker changes nothing; the first ending is final; nothing streams
  for ever.
- *uploads*: stored plus reserved bytes never exceed the quota.
- *Connect*: one authorization delivers one environment, and only while it is active; a worker whose
  claim was taken over changes nothing; what is revoked holds no secret again.
- *webhooks*: a delivery is attempted by one worker at a time and ends once.
- *workspaces*: an invite is accepted once and never after revocation; the active
  workspace is one of the user's; a workspace keeps an owner.

## Modules

| Module | Models | Proofs |
|---|---|---|
| `SyncRevision` | a revision (clock, hlc, op_id) and its two comparisons, in TypeScript and in SQL | `SyncStore_proofs` |
| `ChangeFeed` | what the change log promises: an append-only sequence of which a suffix is retained | abstract specification |
| `SyncStore` | push, cursors and GC under a local driver | `SyncStore_proofs` |
| `SyncReplica` | pull, snapshots and the devices that follow them; EXTENDS `SyncStore` | `SyncReplica_proofs` |
| `SyncD1` | push, cursors and GC in D1; EXTENDS `SyncStore` | `SyncD1_proofs` |
| `BackgroundJobs` | background jobs, local and D1 | `BackgroundJobs_proofs` |
| `Connect` | the Connect store: authorizations, environments, life-cycle workers | `Connect_proofs` |
| `UploadIntents` | upload reservations and the quota of a workspace, local and D1 | `UploadIntents_proofs` |
| `Workspaces` | users, accounts, workspaces, members, invites: the auth store, and the admin store's operations on the same rows, local and D1 | `Workspaces_proofs` |
| `Webhooks` | webhook registrations, the two copies of their hooks, and the delivery log, local | `Webhooks_proofs` |
| `MC...`, one per module | small instances; `MCSyncStore` also has `PrunedDeletesAreOld` | |

**SyncStore.** One variable per table: `counter`, `log`, `rows`, `tombstones`,
`cursors`; `now` is the clock; `tx` is the open push transaction with its working
copy; `history` collects every log row ever committed (a history variable).

| Action | Code |
|---|---|
| `BeginPush` | the grouping by op_id and the refusals before the transaction (911-969), the reads of processed op_ids and owners, and the allocation of the version block (971-1093) |
| `ReplayOp`, `WriteOp` | one iteration of the loop: a replay answers with the logged version; a new operation is numbered, logged and materialized, with its tombstone (1095-1362) |
| `CommitPush`, `AbortPush` | COMMIT; an exception or a crash before it |
| `updateCursor`, `gcTombstones`, `gcChangeLog` | the functions of these names |
| `Tick` | the wall clock |

An operation is a record of op_id, table and key, kind, clock, hlc and the
notification's user; its payload is the operation itself, so "same content" is
equality. `requiresSnapshot` is `history-gc-policy.ts`; it is an operator, used by
the properties.

**SyncReplica.** `snapshots` holds the headers with their items, `calls` what the
open call of each device has read so far, `replicas` what a device holds: its cursor,
its rows, whether it has to bootstrap, and how far a bootstrap has come.

| Action | Code |
|---|---|
| `PullPage`, `PullOldest`, `PullCounter` | the three awaited reads of `pull` (1386-1452); the last one answers and the device applies the answer |
| `Capture` | a first page: clean-up of expired snapshots, header and items in one transaction (1519-1641) or batch (2045-2175) |
| `ReadCreated` | D1 reads the new header back (2176-2183) |
| `RequestPage` | a later page: the header of its token, or 410 (1470-1512) |
| `ReadItems` | the page itself (1657-1737, 2185-2255); without a next token it ends the bootstrap |
| `CheckIn` | the device registers its cursor with `updateCursor` |
| `AbandonCall` | a lost answer, a restarted device |

`snapshot` and `snapshotInD1` differ in their awaits only, so one set of actions stands
for both: with `Awaited = FALSE` nothing else happens while a snapshot call is open. The
device is the environment: it pulls from its cursor, keeps the greater revision of each
record, starts from nothing when told to bootstrap, and goes on from the high watermark
after the last page.

**SyncD1.** `reqs` holds, per push request, what it has read so far. Each group
of awaited reads is one step (`ReadProcessedOps`, `ReadOwners`, `ReadRows`,
`ReadTombstones`), `RunBatch` is the atomic batch built from them, `BatchRejected`
its failure on the unique index, `ResolveOps` the read of the answer, and
`EndRequest` the response or the loss of the isolate. Cursor updates and GC may use
a clock read up to `MaxLag` ago.

**BackgroundJobs.** `jobs` is the table, `creates` the D1 `createJob` calls between
their statements, `sweep` the ids that `cleanupExpired` will delete, `claims` what
each worker believes (job, attempt, what is left of its lease, whether it has
renewed since), `answers` what `createJob` returned. Timestamps are kept as ages,
cut off at the limit they are compared with: `idle` for `last_activity_at`, `done`
for `completed_at`, `lease` for the time until `lease_expires_at`. Every
operation is one action of the same name, except that `updateJob` and the
finishing calls appear once without a lease (`updateJob`, `finish`) and once with
(`WriteUnderLease`, which is also `updateJobExecution`, and `FinishUnderLease`),
and that `cleanupExpired` is `TimeOutJobs` followed by `RemoveJobs`.

**Connect.** `auths` and `envs` are the two tables, `claims` what each worker
believes it holds (environment, the status it expects, what is left of its claim),
`enrolled` the environments whose device has received its credential (a history
variable). Every writing method is the action of its name; the device's poll,
`getAuthorizationByDeviceHash`, has three disjuncts that write. A worker is one
execution of the host's life cycle and stands for its claim token: between
its steps it calls the relay, and anything may happen. Timestamps are kept as the time left
until them. A late worker's call is an action only if the store's fence (`Holds`)
admits it; otherwise the store answers false and nothing changes.

**UploadIntents.** `intents` is the table of one workspace, `files` the hashes of its
live `s_file_meta` rows, `calls` the D1 reservations between their statements. `raced`
and `unseen` are history: intents that D1 granted on reads another write had overtaken,
and contents that neither table showed when another reservation was granted.

| Action | Code |
|---|---|
| `reserveUploadIntent` | the local reservation, one transaction with its sweep of what is due (567-648) |
| `BeginReserveInD1`, `ReadTotals`, `CommitReserve` | the D1 one: files (1943), reservations (1959), and the batch that sweeps and inserts (1980-2002), with the time the call began at |
| `consumeUploadIntent`, `cancelUploadIntent` | the single updates of these names |
| `PushFile`, `DeleteFile`, `Tick` | the client, which pushes the file's row after its upload was accepted; the clock |

**Workspaces.** `db` is the record of all tables as the one connection sees them, `tx`
the open Kysely transaction with the tables before it, `calls` what each request in
flight knows. While a Kysely transaction is open all other Kysely statements wait
(`Kysely`); the raw transactions do not, and become savepoints of the open one, so a
`Rollback` or a `Crash` takes them back too. `seen` is history: what was answered, and
which races happened.

| Action | Code |
|---|---|
| `getOrCreateUser` | one raw transaction or batch |
| `BeginSignIn`, `ReadMembership`, `RepairActive`, `InsertWorkspace` | `getOrCreateDefaultWorkspace`: the active workspace (162-189), else the oldest membership, else a new workspace |
| `createWorkspace`, `removeWorkspace` (`DeleteWorkspace`, `Rehome`, `RemoveInBatch`), `setActiveWorkspace` (`Activate`) | the functions of these names, between their awaits |
| `createInvite`, `listInvites`, `revokeInvite` (`Revoke`), `FallDue` | invites; a listing expires what is due |
| `acceptInviteAndProvisionUser`, `consumeInvite` | one raw transaction each, locally |
| `BeginAcceptInD1`, `GetUserInD1`, `BeginConsumeInD1`, `ReadOldest`, `AcceptBatch` | the same in D1: validate, provision, then one batch |
| `setMemberRole`, `removeMember`, `upsertMember` with `CheckMember`, `CheckOwners`, `TransferOwner`, `WriteMember`, `FindUser`, ... | the admin store's Kysely transactions, statement by statement |
| `softDeleteWorkspace`, `restoreWorkspace` | one statement each |
| `Begin`, `Commit`, `Rollback`, `Crash` | the transaction of a request; the end of the process |

**Webhooks.** `webhooks` and `hookTable` hold the hooks of a registration twice, as the
code does; `updates` the `updateWebhook` calls between their read and their write;
`deliveries` is the log, with what its timestamps are compared for (`due`, `claimed`);
`claims` is what each worker is delivering. History: `raced` (an update that leaves the hooks
alone wrote back hooks that had changed since it read them, and none has set them since) and
`taken` (claims, as pairs of a worker and a delivery, that a reset, a cancellation or another's
answer took away). A host may log a delivery with any status, retry time and claim
(`NewDeliveries`); whoever logs one in flight delivers it. Every method is the action of its name, except that
`updateWebhook` is `BeginUpdate` and `FinishUpdate`, and that a worker's
`updateDeliveryLog` on a row that is gone is `AnswerNotFound`. `Restart` is
`initialize`, which fills the hook table from the column.

## Runs

| Run | Specification | Instance | Distinct states | Shows |
|---|---|---|---|---|
| `sync_threads` | `SyncStore` | one workspace, record and device; three operations with tying clocks, two reusing an op_id; batches of two; three versions; clock to 2 | 55 048 | `NoSilentGap`, and the action property `ActiveDeviceNotStranded` |
| `sync_scopes` | `SyncStore` | two workspaces, two users, one notification; four operations with shared op_ids, one invalid; two versions | 136 758 | `PushAnswersTruthfully`, the inductive invariant `SyncInv`, and the refinement `ImplementsFeed` |
| `replica` | `SyncReplica` | one device, a thread and a notification that are written and deleted; pages of one; three versions; snapshots that live for one tick, two at a time | 2 533 404 | `ReplicaHoldsItsCursor`, `SnapshotsAreOnePoint`, `CheckInsAccepted` |
| `d1_races` | `SyncD1` | two racing requests of up to two operations, a device, GC; four versions; requests interchangeable | 636 857 | `VersionsContiguous`, `RowsHoldWinners`, `TombstonesBehindRows`: what the local transaction guarantees survives without it; `AnswersTruthfullyD1`; and the action properties `OnlyRacesFail` and `ActiveDeviceCatchesUp` |
| `d1_gap` | `SyncD1` | two racing requests, GC | violated | `NoSilentGap` |
| `jobs` | `BackgroundJobs` | two jobs, one key, a keyed executable call and an unkeyed one, two workers, two concurrent creates, cap 1, two attempts | 549 620 | caps, idempotency, leases, fences, final endings, and `AbandonedJobEnds` |
| `connect` | `Connect` | two requests on one code, two environments, two workers, limit 1, two workspaces of one user of which one approves, every duration 1 (retention 0) | 214 656 | the inductive invariant `ConnectInv` (types, pairing, revocation), credentials, claims, limits, and `UnclaimedIsReclaimed` |
| `connect_scope` | `Connect` | the same | violated | `CutOffOnlyWithEnvironment` |
| `uploads` | `UploadIntents` | three intents, a file of 1 and one of 2, quota 2, clock to 2, both drivers; intents interchangeable | 779 191 | types, `QuotaKept`, `IntentEndsOnce` |
| `uploads_d1` | `UploadIntents` | the same in D1 | violated | `ReservationsFitQuota` |
| `workspaces` | `Workspaces` | two users with one email, two workspaces, one invite that was sent before or not, two requests at a time, three besides sign-ins, both drivers; requests interchangeable | 1 038 324 | types, `OwnersKept`, `InviteUsedOnce`, `RevocationHolds`, `SignInSettles` |
| `webhooks` | `Webhooks` | one registration with one hook, two concurrent updates, one delivery, two workers | 770 572 | types, `HooksAgree`, `OneWorker`, `EndedStaysEnded`, and `InFlightIsReturned` |

Further instances are kept as configurations beside the runs: `SyncStore_tombstone_age`
(with `MCSyncStore`), `SyncD1_duplicate` (`MCSyncD1`), `SyncReplica_notice`,
`SyncReplica_d1` (`MCSyncReplica`) and `Workspaces_rollback` (`MCWorkspaces`). TLC finds
the one property of each violated; [below](#disagreements) is what they show.

*Why the bounds are enough to be interesting.* Two operations in a batch are the
smallest that repeat an op_id, conflict, or touch one record twice. Three versions
let GC drop one, keep one and have a push in flight. A clock of 2 with a retention
of 1 gives entries that are inside, at and outside the window. Two workspaces are
needed for an op_id that another workspace has used. Two requests are needed for
every race, two records in pages of one for a snapshot that has a second page, two workers for every lost lease, two attempts for a late worker, and a
cap of 1 for a create at the cap. In `Connect`, a limit of 1 with two environments
lets a direct approval meet a reservation, one request can be made while the other is at any later
point, and a duration of 1 is the least that tells before, at and after a deadline.
In `UploadIntents` a quota of 2 holds either file but not both, and three intents let two share a
hash while the third competes. In `Workspaces` the invitee's account and the founder's have the
same email, so that both may use the one token; three requests are an invitation, its revocation
and an acceptance, or a role change under way when an invite is accepted and one that fails; sign-ins are
not counted, so they meet everything. One delivery suffices in `Webhooks` because no action looks
at two. `MaxVersion`, `MaxNow`, `MaxBatch`, `MaxLag`, `SnapshotIds`,
`MaxAttempts`, `Approvers` and `MaxCalls` are bounds of the models only; the proofs hold for all of them.

*Mutants.* Every property of a passing run is violated when one definition is
replaced by a plausible bug, kept beside the original and marked `Mutant` (for
instance `HasRoom`, which tests the cap with `<=`, or `Unfinished`, which claims a
job without looking at its lease). PROJECT.json pairs them.

*Fairness.* Three properties need it. For `AbandonedJobEnds`, `FairSpec` assumes that time passes
and that the host calls `cleanupExpired` again and again, which is what its
provider interface is for (it is the only thing that ends jobs of dead workers).
For `UnclaimedIsReclaimed` it assumes that time passes and that the host keeps asking
`claimNextEnvironmentLifecycle` for work, which is how that method is meant to be
used (it returns one environment per call). For `InFlightIsReturned` it assumes that time makes
a claim stale and that the host calls `resetStaleInFlightDeliveries` again and again: nothing else
gives back the deliveries of a worker that died. Nothing is assumed of what workers do
with their claims, of clients, devices or requests.

## Disagreements

In each of these the code does something else than the repository says. Three are runs
(`d1_gap`, `connect_scope`, `uploads_d1`); the others are the further instances above.

1. `SyncStore_tombstone_age`: the tombstone upsert (1318-1339) refreshes everything but
   `created_at`, and `gcTombstones` tests `created_at`. A record deleted again long
   after its first delete loses its tombstone at once. `planning/requirements.md:71`
   wants entries older than the retention only. `TombstonesBehindRows` holds
   nevertheless: the row still decides every later put, which bounds the damage.
2. `d1_gap`: a D1 push is stamped (2464) before the batch that numbers it (2621), so
   the order of `created_at` need not be that of versions, and GC can drop a version
   above one it keeps. A reader below both is told that it needs no snapshot and
   misses a change (`planning/requirements.md:72`). The local driver takes the clock and the write
   lock without an await in between, and there `NoSilentGap` is proved. So is
   `ActiveDeviceNotStranded`, which D1 breaks for the same reason once the clock reaches 3: the answer of
   `requiresSnapshot` comes from the oldest version left, and a hole below a device's cursor can move it.
   What D1 keeps is proved instead: `ActiveDeviceCatchesUp`, nothing above a registered cursor is dropped.
3. `SyncD1_duplicate`: a retry that overlaps its first attempt has its batch rejected by
   the unique index, and nothing turns that into the idempotent success that
   `planning/design.md:287` describes. `OnlyRacesFail`, which `d1_races` checks, says that nothing else fails a
   push: not a replay it could have seen, a repetition inside its batch or what GC has dropped. The next retry, after the first attempt, succeeds.
4. `connect_scope`: `revokeEnvironment` updates authorizations by environment alone
   (991-1003) before it tests the scope of the environment (1004-1027). Called for another
   workspace it answers false, as the test at `sqlite-connect-store.test.ts:611-613` wants, and the
   environment is untouched; but its device can no longer fetch its credential, and
   if it was still being provisioned, `completeEnvironmentProvisioning` will only fail.
   `beginEnvironmentRevocation` looks the row up under the scope first and has no such
   step.
5. `SyncReplica_notice`: a pull shows a change of a notification if its payload names the
   user (157-164). Puts are stamped with the user (183), deletes are not and need no
   payload, so a user's own delete passes by all the user's devices, while a snapshot
   reports its tombstone to the same user (1573-1614). `README.md:154` promises the changes after
   the cursor and `README.md:158` excepts other users' rows only. With a payload that names the
   user (`author` in the model) the delete arrives.
6. `SyncReplica_d1`: `snapshotInD1` checks the header (2026) and reads the page some awaits
   later (2185). When the snapshot expires in between and another first page cleans it up
   (2051), the page is empty and has no next token, which reads as the end of the
   snapshot: the device goes on from the watermark without the rest (`README.md:155`). The
   local driver does both in one turn, and there the property holds.
7. `uploads_d1`: `sqlite-sync-gateway-adapter.test.ts:1016` says that a reservation
   "atomically rejects concurrent reservations that collectively exceed quota". It does
   with a local driver. `reserveUploadIntentInD1` reads the files (1943) and the
   reservations (1959) in awaited statements and inserts in a batch that tests nothing
   (1980-2002): two requests that read before either inserts are both granted.
   `QuotaKept` bounds the damage: only what was granted on overtaken reads is over.
8. `Workspaces_rollback`: the local drivers share one connection, so an acceptance that
   runs while an administrator's role change has its Kysely transaction open is a savepoint
   of it. When the role change fails (`Cannot demote or remove the last workspace
   owner`), the acceptance goes with it after it was answered ok. This
   needs the two requests to be ready in the same turn of the event loop, because the awaits
   of a local transaction are microtasks; no document speaks of it.

`pull` has a race that errs on the safe side: it reads the oldest version before the
counter, and a push that commits in between while the log is empty makes
`requiresSnapshot` true for a device that is up to date. The other order of reads, the page first
and the oldest version after it, is the one that matters: it is why GC between them can only turn
an answer into "bootstrap".

Two things about `Connect` are worth knowing, although no document says otherwise.
`approveAuthorization` counts active environments only, so an approval beside a
reservation takes an account over its limit when the reservation completes;
`ReservationsWithinLimit` says what is kept. And only reserved environments have an
activation deadline: one that was approved directly, and whose device never polls, stays active until
somebody revokes it, which is why `UnclaimedIsReclaimed` speaks of reserved ones.

Three things about the other stores in the same vein. Accepting an invite to a lower role lowers
an owner's role without the test for the last owner that `setMemberRole` makes, and can
leave a workspace whose recorded owner is none of its owners; `OwnersKept` excepts it. `revokeInvite`
tests the status and updates it in two statements (637-651), so an acceptance in between is
overwritten: the invite reads "revoked" and the invitee is in; `RevocationHolds` says that this is
the only way. Two first requests of one user both find no workspace and both create one, with either driver: each was
right when it read, so `SignInSettles`, which says what a sign-in may not do however others race it, lets both pass. And consuming an upload ends its reservation before the file's row arrives,
so for that time its bytes are in neither table; `QuotaKept` counts them apart.

## Proofs

Everything below is proved for all values of the constants that satisfy the named
assumptions (`SyncConstants`, `Sentinels`, `JobConstants`, `JobSentinels`,
`ReplicaConstants`, `ReplicaSentinels`, `D1Constants`,
`ConnectConstants`, `ConnectSentinels`, `UploadConstants`, `UploadSentinels`,
`WebhookConstants`, `WebhookSentinels`, `WorkspaceConstants`, `WorkspaceSentinels`), which TLC
also evaluates in every run.

**SyncStore_proofs.** `SyncInvariant` proves `Spec => []SyncInv`. The properties
alone are not inductive, for three reasons, and `SyncInv` adds what is missing:

- GC prunes by age and the retention answer speaks of versions: `HistoryOrdered`
  (age and version agree) and `LogIsSuffix` (nothing newer than a retained entry is missing)
  connect the two, and `CursorsWithinHistory` bounds the cursors.
- A commit publishes what a loop produced over many steps: for an open push,
  `PushFillsBlock` says that its entries fill the block from its base, and
  `PushMergesByLww` that its working copy is the merge of history and entries.
- The loop must never fail halfway: `PushCanContinue` keeps the op_ids still to
  write distinct and unlogged and the notification's owner unchanged. It also shows
  that the re-check of the owner inside the loop (1153) cannot fire, so no version of an
  allocated block is lost to it.

What a push answers needs an account of its batch, `AnswersSoFar`: each op_id is answered once or
still to do once, and what is to do stands for the other operations with its op_id. `AnswersTruthful` follows from it,
and `SyncD1_proofs` uses the same account (`Account`, `RefusalsAccount`, `RefusalKeepsAccount`).
`TwoComparisonsAgree` shows that the TypeScript comparison used for tombstones and the SQL comparison used for
rows accept the same revisions.

From `SyncInv` follow `TypeCorrect`, `ContiguousVersions`, `RowsConverge`, `OpIdsUnique`,
`TombstonesSafe`, `NoGapIsSilent`, the action property `ActiveDevicesPull`, and
`StoreImplementsFeed`: every step is a `Publish`, a `Trim` or a stutter of
`ChangeFeed` under the mapping head ← counter, feed ← history by version,
retained ← the versions in the log.

**SyncReplica_proofs.** The readers EXTEND the store, and so does their proof:
`ReplicaInvariant` proves `ReplicaSpec => []ReplicaInv`, where `ReplicaInv` is `SyncInv` and its history of notifications
(`StoreInv`), the types of what is read and held, `CheckInsAccepted`, `SnapshotsReached` (no watermark is above its
counter) and, for each device, `Placed`: the snapshot it reads was made for it, its call's watermark is
the snapshot's, its page is where its bootstrap stands, and no cursor it may go on from is below the one it has or above the
counter. Each action has a lemma that it keeps all this (`PullCounterKeeps`, `CaptureKeeps`, ...). Because
a device never asks for a version above the counter, every step is a step of the store or leaves it alone
(`RunsTheStore`), hence `ReplicasRunTheStore`: `ReplicaSpec => Spec`, and the theorems about `SyncStore` hold of
the composition. `HistoryMoves` and `PastIsKept` say what a step does to history: entries come only above the counter, so
what is up to a version the counter has reached is settled. `MergeOf` is a CHOOSE; `MergeIs` and `MergeExtends` say what
it chooses, and `CapturedItem` that a row or tombstone is the merge of a record's whole history, which is
`RowsHoldWinners` again. Proved: `CheckInsHold`, `ReplicaTypes` and, under either driver, `SnapshotsHold`. The last one
assumes `[]RevisionsIdentify`: no client reuses an op_id with its clock and HLC for another operation.
The unique index refuses that only as long as the first one is in the log, and two
operations of one revision have no merge. The catalog of the run satisfies it.

`ReplicasHoldTheirCursors` proves `ReplicaHoldsItsCursor` under either driver.
Its invariant `Current(d)` follows what a device has read: its table is the merge at its cursor; a snapshot it
reads from is the merge at its watermark, and the pages taken so far are that snapshot's items up to the position
(`HoldsItems`); and for an open pull `PullSound` compares the page with what is *due*, that is, the history between the cursor and the
next cursor. A page holds nothing that is not due, and what is due and not in it
was no longer in the log when the page was read. GC drops a prefix, so the oldest version, read later, lies behind
what was missed: the answer then asks for a snapshot, and the device takes no changes from it. A push between two statements
of the pull adds versions above the next cursor only. With nothing missed, the merge of the page with the table is the
merge at the next cursor (`MergeExtends`). Two hypotheses stay besides
`[]RevisionsIdentify`. `[]PagesOutlived`: no snapshot expires while a call reads a page of it. It is needed only when a call
awaits (`SyncReplica_d1` is the counterexample): `LocalReplicasHoldTheirCursors` proves the property without it for a driver that
does not (`~ Awaited`), where capture, page and expiry cannot interleave (`LocalPagesStep`). And `[]DeletesNameOwner`: whoever deletes a notification has put it before, so the
delete carries a payload of its user's; without it, a pull leaves out a delete that the merge
has (`SyncReplica_notice` is the counterexample). Its premise about notifications of others (`OwnOnly`) is the property's
own (`IsMerge`).

**SyncD1_proofs.** `D1Invariant` proves `SpecD1 => []D1Inv`. Nothing excludes the requests from each other, so the
invariant says what a read is still worth when it has been overtaken:

- what a request found in the log was committed (`ExistingProcessed`), although GC may have dropped it since;
- a put that is not materialized has lost against its row (`SkipsLose`). When `ReadTombstones` decides that, the
  tombstone is behind the row (`TombstonesBehindRows`), and from then on rows only move forward;
- the op_ids a request has still to answer are distinct (`Account`), and the unique index refuses what another
  request logged since, so that `NoOpIdCollision` survives the batch;
- the counters when a request read the log bound what it saw there (`ReadAhead`): an entry under an op_id it takes
  for new has a later version. So `BatchRejected` needs an entry that came after the read: `OnlyRacesFail`.

The batch is a loop of upserts: `RowAfter` and `TombstoneAfter` are recursive functions over its positions.
`StepsExist` shows that such a function is defined, `RowAfterRuns` and `TombstoneAfterRuns` what it computes
at each position, and `BatchKeepsRecord` that every statement keeps the merge, by the first-order induction
`StepsInduction`. `VersionOffset` counts new operations; `RanksAreContiguous` shows that counting numbers them
1, 2, 3, ..., hence `VersionsContiguous`. Proved: `D1Types`, `D1ContiguousVersions`, `D1RowsConverge`,
`D1TombstonesSafe`, and the action properties `D1OnlyRacesFail` and `D1DevicesCatchUp`.

`D1AnswersTruthful` is about the time after the batch: `AnswersD1Inv` adds that what a request wrote is
still in the log when it looks for it (`Resolvable`). This needs that a request is over before a retention
window has passed (`D1Constants`, which the code justifies by its minimum of an hour, 52), and that `NoOpIdCollision` makes the entry
found under an op_id the one written.

**BackgroundJobs_proofs.** `JobsInvariant` proves `Spec => []JobsInv`. Exclusiveness
of leases is inductive only with `LeaseBacked` (a row outlives what its owner
believes) and `KnownJobsExist` (an id is never handed out twice); the promise to
workers that renew needs `HeartbeatIsActivity` (activity and lease age together) and
`LeaseTime <= jobTimeout`; the idempotency of answers needs `KeysUnique` and
`AnswersNameTheirKey`; the sweep needs `SweptJobsEnded`, because time and other calls
pass between its two statements. `JobSteps` and `ClaimSteps` list what any action
does to one row and one claim; each part of the invariant is then a lemma. Proved:
`JobsTypeCorrect`, `Capped`, `Idempotent`, `Exclusive`, `Fenced`, `HeartbeatsCount`,
`EndingsAreFinal`.

**Connect_proofs.** `ConnectInvariant` proves `Spec => []ConnectInv`. What has to be
added to the properties:

- `PointersAgree`: an authorization and its environment name each other, a pending
  request names none, and ids are not handed out twice. Without it the end of one
  environment could end, or fail to end, the authorization of another.
- `DeliverableIsActive`: not the credential but the status itself promises an active
  environment; it says whose devices have to be cut off.
- `EnrolledIsActivated`: what the first delivery leaves in the environment.
- `ClaimBacked`: a claim that has not lapsed is in the row, unless the environment
  was revoked or purged; hence whatever may be claimed, nobody holds.

Most actions only end authorizations and only take environments down. `Downhill`
says so of a step, the lemmas `Downhill...` show once what such a step keeps, and
each of these actions is then shown to go downhill. Requests, approvals,
reservations, deliveries and activations are treated one by one. `KeepsBare`,
`KeepsClaim` and `KeepsBacking` do the same for secrets and claims. Proved:
`ConnectTypeCorrect`, `CredentialsAreLive`, `ReservationsArePaired`,
`RevokedStaysBare`, `ReservationsAreLimited`, `ClaimsAreExclusive`,
`UnlapsedClaimsAreBacked` and the action property `EnrolledIsKept`.

**Webhooks_proofs.** `WebhooksInvariant` proves `Spec => []WebhooksInv`. `OneWorker` is
not inductive: the claim looks at the row, not at who is delivering.
`HeldInFlight` connects the two (whoever has a claim that was not taken away finds the row in flight,
or deleted), and so also carries `EndedStaysEnded`: nobody has an intact claim of an ended row,
so an answer that still comes is a late one. `HoldersKept` is the common argument of all steps that hand out
nothing, `HoldersTaken` of those that take claims away. `HooksAgree` is inductive with the types; its hard case is `FinishUpdate`, where an
update that sets no hooks writes the old ones to the column and leaves the table alone. Proved:
`WebhooksTypes`, `HooksAlwaysAgree`, `DeliveryHasOneWorker` and the action property
`EndedDeliveriesStayEnded`.

**Workspaces_proofs.** `WorkspacesInvariant` proves `Spec => []WorkspacesInv`. A rollback or a crash
returns to the tables before the open transaction, while raw transactions of other requests have been
answered inside it; so what is promised of the tables (`TablesOK`) is promised of the saved ones too,
and `AnsweredOK` says which answers are in the rows and which the history records as undone. That a pending
invite is nobody's (`InvitesOK`) makes one acceptance exclude the next. `OwnersKept` is carried by
`WriteAt`: the request that checked the owners is alone inside its transaction (`OneTransaction`), so what it has read
still holds at its write, except where an acceptance lowered an owner in between. In D1, where a late batch
may join the user of an accepted invite again, `RejoinsOK` says that this lowers no recorded owner. `PlainStep`
is the common argument of all steps that touch no owner, role or invite, `MoveKeeps` of those that send or expire
invites, `MemberStep` of those inside a role change, `AcceptedKeeps` of the acceptances. Proved: `WorkspacesTypes`,
`OwnersAreMembers`, `InvitesAreUsedOnce`, `RevocationsHold`.

`SignInsSettle` needs more of the tables: that what is deleted, has members or is worked on was created and never goes
(`Founded`), so that the workspace a sign-in founds is not among the deleted ones. It holds of the saved tables too, as
no request that needs its workspace begins while a transaction is open. `Informed` says what
a sign-in that nobody belied has read and is still so: the workspace it is about to make active is one of its
user's, the user for whom it is about to found one has none, and before its commit the user is settled. A step of another
request that takes that very workspace, gives the user one, or moves the user out of the new one marks the sign-in
(`Belies`, `Watched`), so the rest is that each step of
the sign-in itself leaves what the next one relies on (`SignInSteps`), that it founds a workspace, in its transaction or its
batch, only where it read that there is none, and that nothing but its own step ends it (`OwnStepEnds`).

`InvitesAreUsedOnce` has a second half: what a rollback or a crash undoes ran inside the transaction that ended. `SavedAnswers` says
that every other answer is in the saved tables as well, `UndoneEnds` that the end of a transaction therefore undoes nothing else.

**UploadIntents_proofs.** `IntentsEndOnce`, from `UploadInvariant`: a D1 reservation in
flight has not written its row, so its late insert overwrites nothing. `UploadTypes` and `QuotaHolds` are about
sums of bytes over sets. `TotalCountsUnits` shows that such a sum is the number of units its set
holds, by an induction over finite sets (`SubsetInduction`: among the subsets without a property one is minimal); what a
total does when the set grows, is joined with another or is mapped is then what cardinalities do. `QuotaInv` makes
`QuotaKept` inductive: a D1 call that nothing has overtaken still knows a bound of what is stored and paid for
(`CallFits`), an intent reserves its whole file or nothing, and what was granted in a race stays in the table.

Some proved properties are not checked by a run of their own any more, because the inductive
invariant a run checks contains them or another run checks them in a
different model: those inside `SyncInv` and `ConnectInv`, `HeartbeatKeepsAlive`, and the types `TypeOKD1` and
`TypeOKReplica`.

**Only model-checked:** the liveness properties `AbandonedJobEnds`,
`UnclaimedIsReclaimed` and `InFlightIsReturned` (liveness under fairness is beyond the prover). With a driver that awaits
inside a call, `ReplicaHoldsItsCursor` is proved as long as no snapshot expires under an open page, and false otherwise.

## Assumptions and simplifications

*Sync, local.* One process writes the database (`maintenance-state.ts` names the
single-process contract), so the clock read and the write lock of a push are one
step. Left out: hook emissions and webhooks after the commit; cursors of an old
schema without an owner; the empty batch, which returns at once. Validation is a
constant set of invalid operations. `canRunSyncHistoryGc` is constantly true in the
code. GC may run at any time with any configured window.

*Sync, reading.* A device has one call open at a time. The checks of a request's own form
(token syntax, page size, a changed table filter, a snapshot of another workspace) and
`server_deleted_at` are left out. A snapshot call lasts at most `MaxLag`, which is less than
`SnapshotTTL` (an hour in the code). Statements of `pull` are awaited under every driver; those
of a push and of a local snapshot never wait, so no reading step falls inside an open push. In
`SyncReplica_d1` the pushes are still those of `SyncStore`, and there is no GC: the run is about reading.
`ReplicaHoldsItsCursor` speaks of a notification only as long as nobody but its user wrote it: a
put of another user under the same key takes it over, and it then belongs to that user.

*Sync, D1.* A `d1Batch` is atomic and isolated, and a single statement is too. The
reads of one group (one chunked query each in the code) are one step. A request
lives at most `MaxLag`, which is less than any retention window, so the failure branch of
`ResolveOps` needs a log entry younger than its own request to be collected and
does not occur in the instance.

*Jobs.* The content of a job is reduced to the fact that it was touched. Lease owners
are unique per execution, as the id passed by the host is. D1's insert is stamped
when it runs. `completedJobRetention` is at least 1 and a lease is not longer than
the job time-out. Reads (`getJob`, `checkJobAborted`, the counts) change nothing and
appear as operators. Workers are the environment: they may call, stall or die at any
point.

*Connect.* Names, keys, relay values and `host_json` carry no control and are left
out; a relay part is present or not, and a worker records parts while it provisions
and clears them while it revokes. `lifecycle_attempts`, `lifecycle_error` and
`provisioning_deadline_at` are written but never read by the store: the host decides
from them when to retry and when to give up, so a worker may abandon a provisioning at any time.
Lookups by user code and by control token, and lists, change nothing; approval,
reservation and denial may therefore name any request. Among due environments any
may be claimed first: the order by due time is lost once a time is due.
`updated_at` is kept only in rows that a purge may delete.

*Uploads.* A hash fixes the size and the content, so consuming always matches what was
reserved; a mismatch is refused in the code and changes nothing. The client pushes a file's row only
after its upload was accepted, and once per consumed intent's hash at a time. Requests of one
workspace are modelled; nothing in the code relates two.

*Workspaces.* Ids are fresh, a token names one invite, emails are compared normalized. The order by
`created_at` of memberships and owners is abstracted to any choice; that of invites is kept, because
`consumeInvite` looks at the oldest only. The race that `upsertMember`'s insert of an account
loses needs a third user to be harmful and is modelled, but does not matter in the instance. Left out:
`updateWorkspace`, settings, administrator grants, and the candidate row that a D1
`getOrCreateUser` deletes when it has lost its race. Local requests interleave at their awaits, as
if each went round the event loop; the code's are shorter, and allow less.

*Webhooks.* Local drivers only: with D1 the store has no raw connection. URL, label, events and health
are left out (health is written by one statement of its own), and so are the order in which deliveries are claimed and `claimed_by`, which is written and read by no statement.
A delivery that is logged in flight without the time of a claim is never reset (661-668): `InFlightIsReturned` excepts it.
Whether foreign keys are enforced is the connection's setting; the model takes the local drivers', where
they are. A worker is the host's: it may answer, stall or die at any point, and answers with an end or a retry.

## Plan

Done: all modules of the table above, and the proofs of `SyncStore`, `SyncD1`, `SyncReplica`, `BackgroundJobs`,
`Connect`, `Webhooks`, `Workspaces` and `UploadIntents`: every safety and action property of a passing run is a theorem.

Left: the refinement of `SyncStore` by `SyncD1` for requests that do not overlap, and a statement of what the liveness
properties need from the host's scheduling.

### Not modelled

- Rate limits: one raw transaction, or in D1 one upsert, on one row decides a request.
- Schema and migrations: fixed DDL that runs before anything else; the tables it creates are
  the variables of the models.
- The database layer: its effect is in the models (a local transaction is one step, D1
  statements are separate ones, a `d1Batch` is atomic, Kysely takes turns on one connection).
- The admin adapter and `maintenance-state.ts`: they call the modelled GCs and record advisory status in
  memory.
- Registration and configuration: wiring, with one cached promise.
- Canonical storage and file queries: reads.

The hazards behind all this, with their lines and the properties that watch them,
are listed in PROJECT.json. Four have a note instead of a property, because the code lets them happen and
no document of the repository promises otherwise: a snapshot page read after its header (the sixth disagreement), the two kinds
of bytes the upload totals do not see, and a revocation that an acceptance slips into.

## How to run

    tlc -workers 2 -config SyncStore_threads.cfg MCSyncStore
    tlc -workers 2 -config SyncStore_scopes.cfg MCSyncStore
    tlc -workers 2 -config SyncReplica.cfg MCSyncReplica
    tlc -workers 2 -config SyncD1_races.cfg MCSyncD1
    tlc -workers 2 -config BackgroundJobs.cfg MCBackgroundJobs
    tlc -workers 2 -config Connect.cfg MCConnect
    tlc -workers 2 -config UploadIntents.cfg MCUploadIntents
    tlc -workers 2 -config Workspaces.cfg MCWorkspaces
    tlc -workers 2 -config Webhooks.cfg MCWebhooks
    tlapm SyncStore_proofs.tla
    tlapm SyncD1_proofs.tla
    tlapm SyncReplica_proofs.tla
    tlapm BackgroundJobs_proofs.tla
    tlapm Connect_proofs.tla
    tlapm UploadIntents_proofs.tla
    tlapm Webhooks_proofs.tla
    tlapm Workspaces_proofs.tla
