----------------------------- MODULE SyncStore -----------------------------
(***************************************************************************)
(* The sync tables of the SQLite provider under a local driver, where one  *)
(* transaction runs at a time: push, device cursors and history GC.        *)
(*                                                                         *)
(* A push is a transaction: BeginPush opens it (the reads and the version  *)
(* allocation at its start), ReplayOp and WriteOp are the iterations of    *)
(* its loop on a working copy, CommitPush makes the copy durable and       *)
(* AbortPush is an exception or a crash before COMMIT.  Every other        *)
(* writer waits for the write lock, which is tx = NoTx.                    *)
(***************************************************************************)
EXTENDS SyncRevision, Sequences, FiniteSets

CONSTANTS
  Workspaces,     \* workspace ids
  Records,        \* (table_name, pk) pairs
  Notifications,  \* the records of the notifications table
  Users, NoUser,  \* session users; NoUser is a request without one
  Devices,        \* device ids of cursors
  Ops,            \* the operations clients submit
  Invalid,        \* those that validatePushOperation rejects
  Retentions,     \* retention windows an operator may configure
  NoTx, NoRow, NoTombstone, NoCursor, NoData,
  MaxBatch,       \* bound: the operations of one push
  MaxVersion,     \* bound: no push is begun that needs a version above it
  MaxNow          \* bound: the clock stops there

(***************************************************************************)
(* An operation: the payload is identified by the operation that carries   *)
(* it, except for payload.user_id, which is `author'.  Two operations with *)
(* one opId are two requests that reuse an op_id.                          *)
(***************************************************************************)
Operation == [opId: Nat, record: Records, kind: {"put", "delete"},
              clock: Nat, hlc: Nat, author: Users \cup {NoUser}]

ASSUME SyncConstants ==
  /\ Ops \subseteq Operation /\ Invalid \subseteq Ops
  /\ Notifications \subseteq Records
  /\ NoUser \notin Users
  /\ Retentions \subseteq Nat
  /\ MaxBatch \in Nat /\ MaxVersion \in Nat /\ MaxNow \in Nat

\* What a client may push at once: a sequence of operations.
Batches == UNION {[1..n -> Ops] : n \in 1..MaxBatch}

VARIABLES
  now,         \* wall clock, in the unit of the retention windows
  counter,     \* server_version_counter, 0 while the row is missing
  log,         \* change_log
  rows,        \* the materialized tables
  tombstones,  \* tombstones
  cursors,     \* device_cursors
  tx,          \* the open push transaction with its working copy
  history      \* every change_log row ever committed (history variable)

vars == <<now, counter, log, rows, tombstones, cursors, tx, history>>

-----------------------------------------------------------------------------
\* Record types of the tables.

Entry == [ws: Workspaces, version: Nat, op: Operation, createdAt: Nat]

Row == [rev: Revision, deleted: BOOLEAN, data: Operation \cup {NoData}]

Tombstone == [rev: Revision, version: Nat, deletedAt: Nat, createdAt: Nat]

Cursor == [owner: Users, version: Nat, updatedAt: Nat]

ErrorCodes == {"CONFLICT", "UNAUTHORIZED", "VALIDATION_ERROR"}

Result == [opId: Nat, status: ErrorCodes \cup {"ok"},
           version: Nat, applied: BOOLEAN]

Transaction ==
  [ws: Workspaces, user: Users \cup {NoUser}, batch: Seq(Operation), now: Nat,
   todo: SUBSET Nat, base: Nat, size: Nat, offset: Nat,
   rows: [Records -> Row \cup {NoRow}],
   tombstones: [Records -> Tombstone \cup {NoTombstone}],
   entries: SUBSET Entry, results: SUBSET Result]

ASSUME Sentinels ==
  /\ NoTx \notin Transaction /\ NoRow \notin Row /\ NoData \notin Operation
  /\ NoTombstone \notin Tombstone /\ NoCursor \notin Cursor

Init ==
  /\ now = 0
  /\ counter = [w \in Workspaces |-> 0]
  /\ log = {}
  /\ rows = [w \in Workspaces |-> [k \in Records |-> NoRow]]
  /\ tombstones = [w \in Workspaces |-> [k \in Records |-> NoTombstone]]
  /\ cursors = [w \in Workspaces |-> [d \in Devices |-> NoCursor]]
  /\ tx = NoTx
  /\ history = {}

-----------------------------------------------------------------------------
\* What a push does before it opens the transaction.

\* Mutant: the operations of a group are not compared.
ConflictIgnored(batch, i) == FALSE

\* Several operations of the batch share the op_id but not the content.
Conflicting(batch, i) ==
  \E j \in DOMAIN batch : /\ batch[j].opId = batch[i].opId
                          /\ batch[j] # batch[i]

FirstOfGroup(batch, i) ==
  \A j \in DOMAIN batch : j < i => batch[j].opId # batch[i].opId

\* A notification is written only in a session, and a put only for its user.
MayWriteNotification(user, op) ==
  op.record \in Notifications =>
    /\ user # NoUser
    /\ op.kind = "put" => op.author \in {user, NoUser}

\* Mutant: a put is pushed as it came.
NotificationNotStamped(user, op) == op

\* A put without a user_id becomes the session user's.
scopeNotificationWrite(user, op) ==
  IF op.record \in Notifications /\ op.kind = "put"
  THEN [op EXCEPT !.author = user] ELSE op

ScopedBatch(user, batch) ==
  [i \in DOMAIN batch |-> scopeNotificationWrite(user, batch[i])]

\* Why a group of operations with one op_id is refused at once.
ErrorCode(user, batch, i) ==
  CASE Conflicting(batch, i) -> "CONFLICT"
    [] ~ Conflicting(batch, i) /\ ~ MayWriteNotification(user, batch[i])
         -> "UNAUTHORIZED"
    [] OTHER -> "VALIDATION_ERROR"

\* Positions of the operations that reach the transaction (uniqueOps).
UniqueOps(user, batch) ==
  {i \in DOMAIN batch : /\ FirstOfGroup(batch, i)
                        /\ ~ Conflicting(batch, i)
                        /\ MayWriteNotification(user, batch[i])
                        /\ batch[i] \notin Invalid}

Refused(opId, errorCode) ==
  [opId |-> opId, status |-> errorCode, version |-> 0, applied |-> FALSE]

RefusedBeforeTx(user, batch) ==
  {Refused(batch[i].opId, ErrorCode(user, batch, i)) :
     i \in {j \in DOMAIN batch : /\ FirstOfGroup(batch, j)
                                 /\ j \notin UniqueOps(user, batch)}}

-----------------------------------------------------------------------------
\* Reads and writes of the transaction.

Logged(opId) == \E e \in log : e.op.opId = opId

LoggedEntry(opId) == CHOOSE e \in log : e.op.opId = opId

\* notificationPayloadUserId of a row's data_json.
notificationPayloadUserId(row) ==
  IF row.data = NoData THEN NoUser ELSE row.data.author

\* A notification is deleted only by the user its row belongs to.
NotOwner(table, op, user) ==
  /\ op.record \in Notifications
  /\ op.kind = "delete"
  /\ \/ table[op.record] = NoRow
     \/ notificationPayloadUserId(table[op.record]) # user

\* The row a put leaves behind, given the row and the tombstone it finds.
PutRow(op, row, tombstone) ==
  LET rev == RevisionOf(op)
      put == [rev |-> rev, deleted |-> FALSE, data |-> op]
      loses == IF row # NoRow THEN ~ incomingRevisionWins(rev, row.rev)
               ELSE /\ tombstone # NoTombstone
                    /\ ~ incomingRevisionWins(rev, tombstone.rev)
  IN  IF loses THEN row ELSE put

\* The row a delete leaves behind: a tombstoned row keeps its data_json.
DeleteRow(op, row) ==
  LET rev == RevisionOf(op)
  IN  IF row = NoRow
      THEN [rev |-> rev, deleted |-> TRUE, data |-> NoData]
      ELSE IF incomingRevisionWins(rev, row.rev)
           THEN [row EXCEPT !.rev = rev, !.deleted = TRUE]
           ELSE row

\* A delete always upserts its tombstone; created_at is that of the insert.
DeleteTombstone(op, tombstone, version, at) ==
  LET rev == RevisionOf(op)
      fresh == [rev |-> rev, version |-> version,
                deletedAt |-> at, createdAt |-> at]
  IN  IF tombstone = NoTombstone THEN fresh
      ELSE IF lwwExcludedWins(rev, tombstone.rev)
           THEN [fresh EXCEPT !.createdAt = tombstone.createdAt]
           ELSE tombstone

-----------------------------------------------------------------------------
\* Push: one transaction.

BeginPush(w, user, batch) ==
  LET scoped == ScopedBatch(user, batch)
      unique == UniqueOps(user, batch)
      denied == {i \in unique : NotOwner(rows[w], scoped[i], user)}
      fresh  == {i \in unique \ denied : ~ Logged(scoped[i].opId)}
      size   == Cardinality(fresh)
  IN  /\ tx = NoTx
      /\ counter[w] + size <= MaxVersion
      /\ tx' = [ws |-> w, user |-> user, batch |-> scoped, now |-> now,
                todo |-> unique \ denied,
                base |-> counter[w], size |-> size, offset |-> 0,
                rows |-> rows[w], tombstones |-> tombstones[w],
                entries |-> {},
                results |-> RefusedBeforeTx(user, batch) \cup
                  {Refused(scoped[i].opId, "UNAUTHORIZED") : i \in denied}]
      /\ UNCHANGED <<now, counter, log, rows, tombstones, cursors, history>>

\* The operation the loop of the open transaction is at.
IsNext(i) == /\ tx # NoTx
             /\ i \in tx.todo
             /\ \A j \in tx.todo : i <= j

\* An op_id the log already holds: report it again, or refuse its reuse.
ReplayOp(i) ==
  LET op == tx.batch[i]
      entry == LoggedEntry(op.opId)
      row == tx.rows[op.record]
      result == IF entry.ws = tx.ws /\ entry.op = op
                THEN [opId |-> op.opId, status |-> "ok",
                      version |-> entry.version,
                      applied |-> row # NoRow /\ row.rev.opId = op.opId]
                ELSE Refused(op.opId, "CONFLICT")
  IN  /\ IsNext(i)
      /\ Logged(op.opId)
      /\ tx' = [tx EXCEPT !.todo = @ \ {i}, !.results = @ \cup {result}]
      /\ UNCHANGED <<now, counter, log, rows, tombstones, cursors, history>>

\* A new operation: the next version of the block, a log entry, the LWW
\* write of the row and, for a delete, of the tombstone.  The ownership of
\* a notification is checked again; a refusal here leaves its version unused.
WriteOp(i) ==
  LET op == tx.batch[i]
      row == tx.rows[op.record]
      tombstone == tx.tombstones[op.record]
      version == tx.base + tx.offset + 1
      newRow == IF op.kind = "put" THEN PutRow(op, row, tombstone)
                ELSE DeleteRow(op, row)
      newTombstone == IF op.kind = "put" THEN tombstone
                      ELSE DeleteTombstone(op, tombstone, version, tx.now)
      entry == [ws |-> tx.ws, version |-> version, op |-> op,
                createdAt |-> tx.now]
      result == [opId |-> op.opId, status |-> "ok", version |-> version,
                 applied |-> newRow # row]
  IN  /\ IsNext(i)
      /\ ~ Logged(op.opId)
      /\ tx' =
           IF NotOwner(tx.rows, op, tx.user)
           THEN [tx EXCEPT !.todo = @ \ {i}, !.offset = @ + 1,
                   !.results = @ \cup {Refused(op.opId, "UNAUTHORIZED")}]
           ELSE [tx EXCEPT !.todo = @ \ {i}, !.offset = @ + 1,
                   !.rows[op.record] = newRow,
                   !.tombstones[op.record] = newTombstone,
                   !.entries = @ \cup {entry},
                   !.results = @ \cup {result}]
      /\ UNCHANGED <<now, counter, log, rows, tombstones, cursors, history>>

\* COMMIT: the working copy becomes the committed state.
CommitPush ==
  /\ tx # NoTx
  /\ tx.todo = {}
  /\ counter' = [counter EXCEPT ![tx.ws] = tx.base + tx.size]
  /\ log' = log \cup tx.entries
  /\ rows' = [rows EXCEPT ![tx.ws] = tx.rows]
  /\ tombstones' = [tombstones EXCEPT ![tx.ws] = tx.tombstones]
  /\ history' = history \cup tx.entries
  /\ tx' = NoTx
  /\ UNCHANGED <<now, cursors>>

\* The process dies, or a statement throws, before COMMIT: ROLLBACK.
AbortPush ==
  /\ tx # NoTx
  /\ tx' = NoTx
  /\ UNCHANGED <<now, counter, log, rows, tombstones, cursors, history>>

-----------------------------------------------------------------------------
\* Device cursors and history GC.

UpdateCursor(w, d, user, version) ==
  LET existing == cursors[w][d]
  IN  /\ tx = NoTx
      /\ version <= counter[w]
      /\ existing # NoCursor => /\ existing.owner = user
                                /\ version >= existing.version
      /\ cursors' = [cursors EXCEPT ![w][d] =
                       [owner |-> user, version |-> version,
                        updatedAt |-> now]]
      /\ UNCHANGED <<now, counter, log, rows, tombstones, tx, history>>

\* Cursors that checked in within the retention window.
LiveDevices(w, retention) ==
  {d \in Devices : /\ cursors[w][d] # NoCursor
                   /\ cursors[w][d].updatedAt + retention >= now}

ForgetStaleCursors(w, retention) ==
  cursors' = [cursors EXCEPT ![w] =
                [d \in Devices |-> IF d \in LiveDevices(w, retention)
                                   THEN @[d] ELSE NoCursor]]

\* Mutant: what the devices have seen is not looked at.
PrunableByAge(w, retention, version, createdAt) == createdAt + retention < now

\* Older than the window and seen by every device whose cursor is kept.
Prunable(w, retention, version, createdAt) ==
  /\ createdAt + retention < now
  /\ \A d \in LiveDevices(w, retention) : version <= cursors[w][d].version

gcTombstones(w, retention) ==
  /\ tx = NoTx
  /\ ForgetStaleCursors(w, retention)
  /\ tombstones' =
       [tombstones EXCEPT ![w] =
          [k \in Records |->
             IF /\ @[k] # NoTombstone
                /\ Prunable(w, retention, @[k].version, @[k].createdAt)
             THEN NoTombstone ELSE @[k]]]
  /\ UNCHANGED <<now, counter, log, rows, tx, history>>

\* Mutant: the age test is turned around.
RecentPruned(w, retention) ==
  /\ tx = NoTx
  /\ ForgetStaleCursors(w, retention)
  /\ log' = {e \in log : ~ (e.ws = w /\ e.createdAt + retention >= now)}
  /\ UNCHANGED <<now, counter, rows, tombstones, tx, history>>

gcChangeLog(w, retention) ==
  /\ tx = NoTx
  /\ ForgetStaleCursors(w, retention)
  /\ log' = {e \in log : ~ /\ e.ws = w
                           /\ Prunable(w, retention, e.version, e.createdAt)}
  /\ UNCHANGED <<now, counter, rows, tombstones, tx, history>>

Tick == /\ now < MaxNow
        /\ now' = now + 1
        /\ UNCHANGED <<counter, log, rows, tombstones, cursors, tx, history>>

Next ==
  \/ \E w \in Workspaces, user \in Users \cup {NoUser}, batch \in Batches :
        BeginPush(w, user, batch)
  \/ tx # NoTx /\ \E i \in tx.todo : ReplayOp(i) \/ WriteOp(i)
  \/ CommitPush
  \/ AbortPush
  \/ \E w \in Workspaces, d \in Devices, user \in Users,
        version \in 0..MaxVersion : UpdateCursor(w, d, user, version)
  \/ \E w \in Workspaces, retention \in Retentions :
        gcTombstones(w, retention) \/ gcChangeLog(w, retention)
  \/ Tick

Spec == Init /\ [][Next]_vars

-----------------------------------------------------------------------------
\* What a pull tells a reader about retained history.

RetainedVersions(w) == {e.version : e \in {f \in log : f.ws = w}}

\* Mutant: an empty log still claims its newest version.
EmptyLogClaimsHead(w) ==
  IF RetainedVersions(w) = {} THEN counter[w]
  ELSE CHOOSE v \in RetainedVersions(w) :
         \A u \in RetainedVersions(w) : v <= u

\* computePullRetention's oldestRetainedVersion.
oldestRetainedVersion(w) ==
  IF RetainedVersions(w) = {} THEN counter[w] + 1
  ELSE CHOOSE v \in RetainedVersions(w) :
         \A u \in RetainedVersions(w) : v <= u

requiresSnapshot(w, cursor) ==
  /\ oldestRetainedVersion(w) > 0
  /\ cursor < oldestRetainedVersion(w) - 1

-----------------------------------------------------------------------------
\* Every variable holds a value of its table's type.
TypeOK ==
  /\ now \in Nat
  /\ counter \in [Workspaces -> Nat]
  /\ log \in SUBSET Entry /\ history \in SUBSET Entry
  /\ rows \in [Workspaces -> [Records -> Row \cup {NoRow}]]
  /\ tombstones \in
       [Workspaces -> [Records -> Tombstone \cup {NoTombstone}]]
  /\ cursors \in [Workspaces -> [Devices -> Cursor \cup {NoCursor}]]
  /\ tx \in Transaction \cup {NoTx}
  /\ tx # NoTx => tx.todo \subseteq DOMAIN tx.batch

\* Server versions are contiguous per workspace: the committed operations
\* of a workspace carry exactly the versions 1..counter, each of them once,
\* whatever is refused or replayed inside a batch and whatever rolls back.
VersionsContiguous ==
  /\ \A e \in history : e.version \in 1..counter[e.ws]
  /\ \A w \in Workspaces : \A v \in 1..counter[w] :
        \E e \in history : e.ws = w /\ e.version = v
  /\ \A e, f \in history : e.ws = f.ws /\ e.version = f.version => e = f

\* A reader at any cursor either finds every later version in the log or is
\* told to bootstrap from a snapshot: GC cannot hide a change behind
\* requiresSnapshot = false.
NoSilentGap ==
  \A w \in Workspaces : \A cursor \in 0..counter[w] :
    \/ requiresSnapshot(w, cursor)
    \/ (cursor + 1)..counter[w] \subseteq RetainedVersions(w)

\* table[k] is what last-writer-wins makes of the operations in entries on
\* record k of workspace w: the greatest revision, deleted or live as that
\* operation says, and its payload if it is live.
HoldsWinner(table, w, k, entries) ==
  LET on(e) == e.ws = w /\ e.op.record = k
  IN  IF table[k] = NoRow THEN \A e \in entries : ~ on(e)
      ELSE /\ \E e \in entries :
                /\ on(e)
                /\ RevisionOf(e.op) = table[k].rev
                /\ table[k].deleted = (e.op.kind = "delete")
                /\ ~ table[k].deleted => table[k].data = e.op
           /\ \A e \in entries : on(e) =>
                ~ lwwExcludedWins(RevisionOf(e.op), table[k].rev)

\* The materialized tables are the last-writer-wins merge of everything ever
\* accepted, in whatever order pushes, batches, replays and GC occurred.
RowsHoldWinners ==
  \A w \in Workspaces, k \in Records : HoldsWinner(rows[w], w, k, history)

\* One op_id is logged once, in whichever workspace.  The local transaction
\* decides so before it inserts: no push of its runs into the unique index on
\* change_log(op_id).
NoOpIdCollision ==
  LET logged == log \cup (IF tx = NoTx THEN {} ELSE tx.entries)
  IN  \A e, f \in logged : e.op.opId = f.op.opId => e = f

\* A push answers every op_id of its batch exactly once, a success names a
\* version the log holds that very operation under, and every operation it
\* logs is reported.
PushAnswersTruthfully ==
  tx # NoTx /\ tx.todo = {} =>
    LET logged == log \cup tx.entries
    IN  /\ \A i \in DOMAIN tx.batch :
             \E r \in tx.results :
               /\ r.opId = tx.batch[i].opId
               /\ \A q \in tx.results : q.opId = r.opId => q = r
               /\ r.status = "ok" =>
                    \E e \in logged : /\ e.ws = tx.ws
                                      /\ e.version = r.version
                                      /\ e.op = tx.batch[i]
        /\ \A e \in tx.entries : \E r \in tx.results :
             r.opId = e.op.opId /\ r.status = "ok" /\ r.version = e.version

\* The tombstone of a record, if any, is not newer than its row.
TombstoneBehindRow(table, graves, k) ==
  graves[k] # NoTombstone =>
    /\ table[k] # NoRow
    /\ ~ lwwExcludedWins(graves[k].rev, table[k].rev)

\* A tombstone never outruns its row: the row exists and is not older, so the
\* row alone decides whether a later put revives the record, and GC of
\* tombstones cannot change that decision.
TombstonesBehindRows ==
  \A w \in Workspaces, k \in Records :
    TombstoneBehindRow(rows[w], tombstones[w], k)

\* As long as a device's cursor is registered, GC never moves it from "can
\* pull" to "needs a snapshot".
ActiveDeviceNotStranded ==
  [][\A w \in Workspaces, d \in Devices :
       /\ cursors[w][d] # NoCursor
       /\ cursors'[w][d] # NoCursor
       /\ ~ requiresSnapshot(w, cursors[w][d].version)
       => ~ requiresSnapshot(w, cursors[w][d].version)']_vars

-----------------------------------------------------------------------------
\* What makes the properties above inductive.

\* Versions were assigned in the order of their created_at, so age and
\* version agree on what GC may drop.
HistoryOrdered ==
  /\ \A e \in history : e.createdAt <= now
  /\ \A e, f \in history :
        e.ws = f.ws /\ e.version < f.version => e.createdAt <= f.createdAt

\* The log is what GC left of the history: nothing newer than a retained
\* entry is missing.
LogIsSuffix ==
  /\ log \subseteq history
  /\ \A f \in log, e \in history :
        e.ws = f.ws /\ f.version < e.version => e \in log

CursorsWithinHistory ==
  \A w \in Workspaces, d \in Devices :
    cursors[w][d] # NoCursor => cursors[w][d].version <= counter[w]

\* The operations the open push has still to write.
Unwritten == {i \in tx.todo : ~ Logged(tx.batch[i].opId)}

\* The entries of the open push fill the block base+1..base+offset.
PushFillsBlock ==
  /\ tx.base = counter[tx.ws]
  /\ tx.size = tx.offset + Cardinality(Unwritten)
  /\ \A e \in tx.entries :
        /\ e.ws = tx.ws
        /\ e.version \in (tx.base + 1)..(tx.base + tx.offset)
        /\ e.createdAt = tx.now
  /\ \A v \in (tx.base + 1)..(tx.base + tx.offset) :
        \E e \in tx.entries : e.version = v
  /\ \A e, f \in tx.entries : e.version = f.version => e = f

\* What is still to do has new op_ids and, for notifications, the owner's.
PushCanContinue ==
  /\ tx.now <= now
  /\ \A e \in history : e.createdAt <= tx.now
  /\ \A i, j \in tx.todo : tx.batch[i].opId = tx.batch[j].opId => i = j
  /\ \A i \in tx.todo :
        tx.batch[i].record \in Notifications /\ tx.batch[i].kind = "put"
          => tx.batch[i].author = tx.user
  /\ \A e \in tx.entries :
        /\ ~ Logged(e.op.opId)
        /\ \A i \in tx.todo : tx.batch[i].opId # e.op.opId
  /\ \A i \in tx.todo : ~ NotOwner(tx.rows, tx.batch[i], tx.user)

PushMergesByLww ==
  \A k \in Records :
    /\ HoldsWinner(tx.rows, tx.ws, k, history \cup tx.entries)
    /\ TombstoneBehindRow(tx.rows, tx.tombstones, k)

\* The inductive invariant.
SyncInv ==
  /\ TypeOK
  /\ VersionsContiguous /\ HistoryOrdered /\ LogIsSuffix
  /\ CursorsWithinHistory
  /\ RowsHoldWinners /\ TombstonesBehindRows
  /\ NoOpIdCollision
  /\ tx # NoTx => PushFillsBlock /\ PushCanContinue /\ PushMergesByLww

-----------------------------------------------------------------------------
\* The change feed this store implements: operations by version, of which
\* the retained log is a suffix.

FeedOf(w) ==
  [v \in 1..counter[w] |->
     (CHOOSE e \in history : e.ws = w /\ e.version = v).op]

Feed == INSTANCE ChangeFeed WITH
          Ops <- Operation,
          head <- counter,
          feed <- [w \in Workspaces |-> FeedOf(w)],
          retained <- [w \in Workspaces |-> RetainedVersions(w)]

\* Seen from outside, pushes append whole blocks to an append-only feed and
\* GC only drops an oldest part of it; nothing else ever changes.
ImplementsFeed == Feed!FeedSpec
=============================================================================
