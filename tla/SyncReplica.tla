---------------------------- MODULE SyncReplica ----------------------------
(***************************************************************************)
(* Reading the sync tables: pull, paged snapshots, and the devices that    *)
(* follow them, over the pushes, cursors and GC of SyncStore.              *)
(*                                                                         *)
(* A call is made of the statements it awaits.  pull reads a page of the   *)
(* log, then the oldest version, then the counter, and pushes and GC may   *)
(* happen in between.  snapshot checks its header and then reads a page of *)
(* items: in one go under a local driver, in two awaited statements in D1  *)
(* (Awaited = TRUE).                                                       *)
(***************************************************************************)
EXTENDS SyncStore, FiniteSetsExt

CONSTANTS
  UserOf,         \* the session user of each device
  WorkspaceOf,    \* the workspace each device syncs
  Follows,        \* the records of each device's `tables' filter
  Order,          \* position of a record in ORDER BY table_name, pk
  PullLimit, PageSize,
  SnapshotTTL,    \* SNAPSHOT_TTL_SECONDS, in the unit of the clock
  MaxLag,         \* bound: a snapshot call lasts no longer than this
  SnapshotIds,    \* bound: the snapshots that exist or are in use at a time
  Awaited,        \* the statements of a snapshot call are awaited (D1)
  NoSnapshot, NoCall, NoBoot, NoVersion

ASSUME ReplicaConstants ==
  /\ UserOf \in [Devices -> Users]
  /\ WorkspaceOf \in [Devices -> Workspaces]
  /\ Follows \in [Devices -> SUBSET Records]
  /\ Order \in [Records -> Nat \ {0}]
  /\ \A j, k \in Records : Order[j] = Order[k] => j = k
  /\ PullLimit \in Nat \ {0} /\ PageSize \in Nat \ {0}
  /\ SnapshotTTL \in Nat /\ MaxLag \in Nat /\ MaxLag < SnapshotTTL
  /\ Awaited \in BOOLEAN
  /\ NoVersion \notin Nat

VARIABLES
  snapshots,  \* sync_snapshots with their sync_snapshot_items
  calls,      \* the call each device has open, with what it has read so far
  replicas    \* what each device holds

readVars == <<snapshots, calls, replicas>>
storeVars == vars
allVars == <<vars, readVars>>

-----------------------------------------------------------------------------
\* Record types.

\* A live row, or a tombstone, which carries no payload.
Item == {row \in Row : row.deleted = (row.data = NoData)}

Items == [Records -> Item \cup {NoRow}]

\* A header with its items.
Snapshot == [ws: Workspaces, tables: SUBSET Records, watermark: Nat,
             expiresAt: Nat, items: Items]

SnapshotCall == [step: {"created", "items"}, id: SnapshotIds, after: Nat,
                 watermark: Nat, since: Nat]

PullCall == [step: {"oldest", "counter"}, page: SUBSET Entry,
             nextCursor: Nat, oldest: Nat \cup {NoVersion}]

\* A bootstrap under way: where the next page starts, and what came so far.
Boot == [id: SnapshotIds, after: Nat, table: Items]

Replica == [cursor: Nat, table: Items, stale: BOOLEAN, boot: Boot \cup {NoBoot}]

ASSUME ReplicaSentinels ==
  NoSnapshot \notin Snapshot /\ NoBoot \notin Boot

Empty == [k \in Records |-> NoRow]

\* A new device pulls from 0 or bootstraps first.
InitReplica ==
  /\ Init
  /\ snapshots = [id \in SnapshotIds |-> NoSnapshot]
  /\ calls = [d \in Devices |-> NoCall]
  /\ replicas \in [Devices -> {[cursor |-> 0, table |-> Empty,
                                stale |-> new, boot |-> NoBoot] :
                                 new \in BOOLEAN}]

-----------------------------------------------------------------------------
\* What devices receive and how they merge it.

\* A change as a pull delivers it.
ChangeItem(op) == [rev |-> RevisionOf(op), deleted |-> op.kind = "delete",
                   data |-> IF op.kind = "delete" THEN NoData ELSE op]

\* Pull hides the changes of notifications that do not name the user; a
\* delete names whom its payload names, if it has one.
isNotificationVisibleToUser(op, user) ==
  op.record \in Notifications => op.author = user

\* A device keeps, per record, the greater revision.
Received(table, k, item) ==
  IF table[k] = NoRow \/ incomingRevisionWins(item.rev, table[k].rev)
  THEN [table EXCEPT ![k] = item] ELSE table

MergeChanges(table, ops) ==
  [k \in Records |->
     LET on == {op \in ops : op.record = k}
         winner == CHOOSE op \in on :
                     \A o \in on : ~ lwwExcludedWins(RevisionOf(o), RevisionOf(op))
     IN  IF on = {} THEN table[k]
         ELSE Received(table, k, ChangeItem(winner))[k]]

-----------------------------------------------------------------------------
\* Calls of a device.  Under a local driver a snapshot call is one step of
\* the process: nothing else happens while one is open.

Idle(d) == calls[d] = NoCall

InSnapshot(d) == ~ Idle(d) /\ calls[d].step \in {"created", "items"}

MayRun(d) ==
  /\ tx = NoTx
  /\ Awaited \/ \A e \in Devices \ {d} : ~ InSnapshot(e)

\* The answer is lost, the device restarts, or the request dies.
AbandonCall(d) ==
  /\ ~ Idle(d)
  /\ MayRun(d)
  /\ calls' = [calls EXCEPT ![d] = NoCall]
  /\ UNCHANGED <<storeVars, snapshots, replicas>>

-----------------------------------------------------------------------------
\* pull

\* The log rows the query matches, before its LIMIT.
Matching(d) ==
  {e \in log : /\ e.ws = WorkspaceOf[d]
               /\ e.version > replicas[d].cursor
               /\ e.op.record \in Follows[d]}

\* The first n of them by version.
FirstEntries(entries, n) ==
  {e \in entries : Cardinality({f \in entries : f.version < e.version}) < n}

\* Mutant: the cursor is that of the extra row fetched to learn of more.
CursorOfExtraRow(d) ==
  LET fetched == FirstEntries(Matching(d), PullLimit + 1)
  IN  IF fetched = {} THEN replicas[d].cursor
      ELSE Max({e.version : e \in fetched})

\* The version of the page's last row, visible or not.
NextCursor(d) ==
  LET page == FirstEntries(Matching(d), PullLimit)
  IN  IF page = {} THEN replicas[d].cursor
      ELSE Max({e.version : e \in page})

PullPage(d) ==
  /\ Idle(d) /\ MayRun(d)
  /\ ~ replicas[d].stale
  /\ calls' = [calls EXCEPT ![d] =
                 [step |-> "oldest",
                  page |-> FirstEntries(Matching(d), PullLimit),
                  nextCursor |-> NextCursor(d), oldest |-> NoVersion]]
  /\ UNCHANGED <<storeVars, snapshots, replicas>>

PullOldest(d) ==
  LET versions == RetainedVersions(WorkspaceOf[d])
  IN  /\ ~ Idle(d) /\ MayRun(d)
      /\ calls[d].step = "oldest"
      /\ calls' = [calls EXCEPT
                     ![d].step = "counter",
                     ![d].oldest = IF versions = {} THEN NoVersion
                                   ELSE Min(versions)]
      /\ UNCHANGED <<storeVars, snapshots, replicas>>

\* computePullRetention on what the call has read.
RequiresSnapshot(call, cursor, highWatermark) ==
  LET oldest == IF call.oldest = NoVersion THEN highWatermark + 1
                ELSE call.oldest
  IN  oldest > 0 /\ cursor < oldest - 1

\* The counter is read and the call answers: the device applies the visible
\* changes, or learns that it has to bootstrap.
PullCounter(d) ==
  LET call == calls[d]
      visible == {e.op : e \in {f \in call.page :
                    isNotificationVisibleToUser(f.op, UserOf[d])}}
  IN  /\ ~ Idle(d) /\ MayRun(d)
      /\ call.step = "counter"
      /\ calls' = [calls EXCEPT ![d] = NoCall]
      /\ replicas' = [replicas EXCEPT ![d] =
           IF RequiresSnapshot(call, @.cursor, counter[WorkspaceOf[d]])
           THEN [@ EXCEPT !.stale = TRUE]
           ELSE [@ EXCEPT !.cursor = call.nextCursor,
                          !.table = MergeChanges(replicas[d].table, visible)]]
      /\ UNCHANGED <<storeVars, snapshots>>

-----------------------------------------------------------------------------
\* snapshot

Expired(id) == snapshots[id] # NoSnapshot /\ snapshots[id].expiresAt <= now

\* A row or tombstone of a notification is captured for the user its
\* data_json names.
snapshotNotificationOwnerClause(row, k, user) ==
  k \in Notifications => notificationPayloadUserId(row) = user

\* Mutant: only live rows are captured.
LiveRowsOnly(w, k, user) ==
  IF rows[w][k] # NoRow /\ ~ rows[w][k].deleted THEN rows[w][k] ELSE NoRow

\* What a capture keeps of record k: its live row, a tombstone for a deleted
\* row, or the tombstone of a record that has no row.
SnapshotItem(w, k, user) ==
  LET row == rows[w][k]
      tombstone == tombstones[w][k]
      graveOf(rev) == [rev |-> rev, deleted |-> TRUE, data |-> NoData]
  IN  IF row # NoRow
      THEN IF ~ snapshotNotificationOwnerClause(row, k, user) THEN NoRow
           ELSE IF row.deleted THEN graveOf(row.rev) ELSE row
      ELSE IF tombstone # NoTombstone /\ k \notin Notifications
           THEN graveOf(tombstone.rev) ELSE NoRow

\* Mutant: the watermark is the version the next push will get.
NextVersion(w) == counter[w] + 1

HighWatermark(w) == counter[w]

\* The first page: expired snapshots are deleted, and header and items are
\* written in one transaction (one batch in D1).
Capture(d) ==
  LET w == WorkspaceOf[d]
      used == {calls[e].id : e \in {f \in Devices : InSnapshot(f)}}
              \cup {replicas[e].boot.id :
                      e \in {f \in Devices : replicas[f].boot # NoBoot}}
  IN  /\ Idle(d) /\ MayRun(d)
      /\ replicas[d].stale /\ replicas[d].boot = NoBoot
      /\ \E id \in SnapshotIds \ used :
           /\ snapshots[id] = NoSnapshot \/ Expired(id)
           /\ snapshots' =
                [i \in SnapshotIds |->
                   IF i = id
                   THEN [ws |-> w, tables |-> Follows[d],
                         watermark |-> HighWatermark(w),
                         expiresAt |-> now + SnapshotTTL,
                         items |-> [k \in Records |->
                                      IF k \in Follows[d]
                                      THEN SnapshotItem(w, k, UserOf[d])
                                      ELSE NoRow]]
                   ELSE IF Expired(i) THEN NoSnapshot ELSE snapshots[i]]
           /\ calls' = [calls EXCEPT ![d] =
                          [step |-> "created", id |-> id, after |-> 0,
                           watermark |-> HighWatermark(w), since |-> now]]
      /\ UNCHANGED <<storeVars, replicas>>

\* D1 reads the header back; it fails if the snapshot is already gone.
ReadCreated(d) ==
  /\ ~ Idle(d) /\ MayRun(d)
  /\ calls[d].step = "created"
  /\ calls' = [calls EXCEPT ![d] =
                 IF snapshots[@.id] = NoSnapshot THEN NoCall
                 ELSE [@ EXCEPT !.step = "items"]]
  /\ UNCHANGED <<storeVars, snapshots, replicas>>

\* A later page: the header of the token's snapshot must exist and not have
\* expired.  An expired one is deleted, the call fails with 410 and the
\* device starts over.
RequestPage(d) ==
  LET boot == replicas[d].boot
      gone == snapshots[boot.id] = NoSnapshot \/ Expired(boot.id)
  IN  /\ Idle(d) /\ MayRun(d)
      /\ boot # NoBoot
      /\ IF gone
         THEN /\ snapshots' = [snapshots EXCEPT ![boot.id] = NoSnapshot]
              /\ replicas' = [replicas EXCEPT ![d].boot = NoBoot]
              /\ UNCHANGED calls
         ELSE /\ calls' = [calls EXCEPT ![d] =
                   [step |-> "items", id |-> boot.id, after |-> boot.after,
                    watermark |-> snapshots[boot.id].watermark,
                    since |-> now]]
              /\ UNCHANGED <<snapshots, replicas>>
      /\ UNCHANGED storeVars

\* Records of a snapshot after a position; none once its items are deleted.
ItemsAfter(id, after) ==
  IF snapshots[id] = NoSnapshot THEN {}
  ELSE {k \in Records : /\ snapshots[id].items[k] # NoRow
                        /\ Order[k] > after}

PageItems(id, after) ==
  LET left == ItemsAfter(id, after)
  IN  {k \in left : Cardinality({j \in left : Order[j] < Order[k]}) < PageSize}

\* The items are read and the page is answered.  The device applies them; a
\* page without a token ends its bootstrap at the high watermark.
ReadItems(d) ==
  LET call == calls[d]
      page == PageItems(call.id, call.after)
      boot == replicas[d].boot
      before == IF call.after = 0 THEN Empty ELSE boot.table
      table == [k \in Records |-> IF k \in page
                  THEN Received(before, k, snapshots[call.id].items[k])[k]
                  ELSE before[k]]
      hasMore == page # ItemsAfter(call.id, call.after)
  IN  /\ ~ Idle(d) /\ MayRun(d)
      /\ call.step = "items"
      /\ calls' = [calls EXCEPT ![d] = NoCall]
      /\ replicas' = [replicas EXCEPT ![d] =
           IF hasMore
           THEN [@ EXCEPT !.boot =
                   [id |-> call.id, after |-> Max({Order[k] : k \in page}),
                    table |-> table]]
           ELSE [cursor |-> call.watermark, table |-> table,
                 stale |-> FALSE, boot |-> NoBoot]]
      /\ UNCHANGED <<storeVars, snapshots>>

-----------------------------------------------------------------------------
\* A device registers the cursor it has reached.
CheckIn(d) ==
  /\ Idle(d) /\ ~ replicas[d].stale
  /\ UpdateCursor(WorkspaceOf[d], d, UserOf[d], replicas[d].cursor)

\* Time passes, but no snapshot call outlives its bound.
TickReading ==
  /\ \A d \in Devices : InSnapshot(d) => now < calls[d].since + MaxLag
  /\ Tick

StoreStep ==
  \/ \E w \in Workspaces, user \in Users \cup {NoUser}, batch \in Batches :
        BeginPush(w, user, batch)
  \/ tx # NoTx /\ \E i \in tx.todo : ReplayOp(i) \/ WriteOp(i)
  \/ CommitPush
  \/ AbortPush
  \/ \E d \in Devices : CheckIn(d)
  \/ \E w \in Workspaces, retention \in Retentions :
        gcTombstones(w, retention) \/ gcChangeLog(w, retention)
  \/ TickReading

ReplicaNext ==
  \/ /\ StoreStep
     /\ Awaited \/ \A d \in Devices : ~ InSnapshot(d)
     /\ UNCHANGED readVars
  \/ \E d \in Devices :
       \/ PullPage(d) \/ PullOldest(d) \/ PullCounter(d)
       \/ Capture(d) \/ ReadCreated(d) \/ RequestPage(d) \/ ReadItems(d)
       \/ AbandonCall(d)

ReplicaSpec == InitReplica /\ [][ReplicaNext]_allVars

-----------------------------------------------------------------------------
\* Calls, snapshots and replicas have their types.
TypeOKReplica ==
  /\ TypeOK
  /\ \A id \in SnapshotIds : snapshots[id] # NoSnapshot =>
        snapshots[id] \in Snapshot
  /\ \A d \in Devices : ~ Idle(d) =>
        calls[d] \in (IF InSnapshot(d) THEN SnapshotCall ELSE PullCall)
  /\ \A d \in Devices : replicas[d] \in Replica

EntriesUpTo(w, k, version) ==
  {e \in history : e.ws = w /\ e.op.record = k /\ e.version <= version}

\* What last-writer-wins makes of these entries, as a device sees it.
MergeOf(entries) ==
  IF entries = {} THEN NoRow
  ELSE ChangeItem((CHOOSE e \in entries :
         \A f \in entries :
           ~ lwwExcludedWins(RevisionOf(f.op), RevisionOf(e.op))).op)

\* Nobody but user ever wrote the notification.
OwnOnly(entries, user) ==
  \A e \in entries : e.op.kind = "put" => e.op.author = user

\* A device that follows the protocol holds, for every record it follows,
\* the merge of all that was accepted up to its cursor: no pull page skips a
\* change that GC removed meanwhile, no bootstrap is incomplete, and no
\* snapshot disagrees with the watermark the device goes on from.
ReplicaHoldsItsCursor ==
  \A d \in Devices : \A k \in Follows[d] :
    LET entries == EntriesUpTo(WorkspaceOf[d], k, replicas[d].cursor)
    IN  (k \in Notifications => OwnOnly(entries, UserOf[d]))
        => replicas[d].table[k] = MergeOf(entries)

\* Every snapshot is the merge at its watermark, however many pushes, GCs and
\* pages come after it: deleted records appear as tombstones even when their
\* log entries and tombstones are gone.
SnapshotsAreOnePoint ==
  \A id \in SnapshotIds : snapshots[id] # NoSnapshot =>
    LET s == snapshots[id]
    IN  \A k \in s.tables :
          LET merge == MergeOf(EntriesUpTo(s.ws, k, s.watermark))
          IN  s.items[k] \in {merge} \cup
                (IF k \in Notifications THEN {NoRow} ELSE {})

\* A device never has to be refused when it checks in: what it has registered
\* is its own and not above what it holds, which the counter has reached.
CheckInsAccepted ==
  \A d \in Devices :
    LET registered == cursors[WorkspaceOf[d]][d]
    IN  /\ replicas[d].cursor <= counter[WorkspaceOf[d]]
        /\ registered # NoCursor =>
             /\ registered.owner = UserOf[d]
             /\ registered.version <= replicas[d].cursor
=============================================================================
