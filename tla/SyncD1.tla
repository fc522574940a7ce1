------------------------------- MODULE SyncD1 -------------------------------
(***************************************************************************)
(* The sync tables under Cloudflare D1.  The tables are those of SyncStore *)
(* and its GC runs as one batch here too, but there are no interactive     *)
(* transactions: a push is a request that reads with awaited statements,   *)
(* writes with one atomic batch built from what it read, and reads again   *)
(* to answer.  Other requests run between any two of these steps.  No      *)
(* transaction of SyncStore is ever open: tx stays NoTx.                   *)
(***************************************************************************)
EXTENDS SyncStore

CONSTANTS
  Requests, NoRequest,   \* push requests; bound: each is served once
  Ended,                 \* the slot of a request that is over
  Sessions,              \* the session users that push, or NoUser
  MaxLag                 \* bound: no request lives longer than this

\* A retention window is at least an hour: it outlives every request.
ASSUME D1Constants == /\ Sessions \subseteq Users \cup {NoUser}
                      /\ MaxLag \in Nat
                      /\ \A retention \in Retentions : MaxLag <= retention

VARIABLE reqs            \* the push requests being served

d1vars == <<now, counter, log, rows, tombstones, cursors, tx, history, reqs>>

\* The batch of one request and what it has learned so far.
Request ==
  [pc: {"ops", "owners", "rows", "tombstones", "batch", "resolve", "done",
        "failed"},
   ws: Workspaces, user: Users \cup {NoUser}, batch: Seq(Operation),
   since: Nat,                \* when it began
   todo: SUBSET Nat,          \* positions not refused so far
   existing: SUBSET Entry,    \* existingOps
   present: SUBSET Records,   \* existingMaterializedKeys
   skip: SUBSET Nat,          \* skipMaterialize
   at: Nat,                   \* `now' of its statements
   applied: SUBSET Nat,       \* positions whose upsert changed the row
   results: SUBSET Result,
   heads: [Workspaces -> Nat]] \* history: the counters when the log was read

InitD1 == Init /\ reqs = [r \in Requests |-> NoRequest]

Open(r) == reqs[r] \notin {NoRequest, Ended}

InStep(r, pc) == Open(r) /\ reqs[r].pc = pc

-----------------------------------------------------------------------------
\* Reads before the batch.

BeginPushInD1(r, w, user, batch) ==
  /\ reqs[r] = NoRequest
  /\ reqs' = [reqs EXCEPT ![r] =
       [pc |-> "ops", ws |-> w, user |-> user,
        batch |-> ScopedBatch(user, batch), since |-> now,
        todo |-> UniqueOps(user, batch), existing |-> {}, present |-> {},
        skip |-> {}, at |-> 0, applied |-> {},
        results |-> RefusedBeforeTx(user, batch),
        heads |-> [x \in Workspaces |-> 0]]]
  /\ UNCHANGED vars

\* Mutant: an op_id the workspace has processed is taken for a replay.
OtherWorkspace(req, entry, op) == entry.ws # req.ws

\* The log holds the op_id for another workspace or another operation.
ReusesProcessedOpId(req, entry, op) == entry.ws # req.ws \/ entry.op # op

ReadProcessedOps(r) ==
  LET req == reqs[r]
      existing == {e \in log : \E i \in req.todo :
                                 e.op.opId = req.batch[i].opId}
      rejected == {i \in req.todo : \E e \in existing :
                     /\ e.op.opId = req.batch[i].opId
                     /\ ReusesProcessedOpId(req, e, req.batch[i])}
  IN  /\ InStep(r, "ops")
      /\ reqs' = [reqs EXCEPT
           ![r].pc = "owners",
           ![r].existing = existing,
           ![r].todo = @ \ rejected,
           ![r].results = @ \cup {Refused(req.batch[i].opId, "CONFLICT") :
                                    i \in rejected},
           ![r].heads = counter]
      /\ UNCHANGED vars

\* Mutant: what the log held is inserted again.
ReplayedToo(req) == req.todo

\* The operations the log did not hold when it was read.
NewOps(req) ==
  {i \in req.todo : \A e \in req.existing : e.op.opId # req.batch[i].opId}

ReadOwners(r) ==
  LET req == reqs[r]
      rejected == {i \in NewOps(req) :
                     NotOwner(rows[req.ws], req.batch[i], req.user)}
  IN  /\ InStep(r, "owners")
      /\ reqs' = [reqs EXCEPT
           ![r].pc = "rows",
           ![r].todo = @ \ rejected,
           ![r].results = @ \cup {Refused(req.batch[i].opId, "UNAUTHORIZED") :
                                    i \in rejected}]
      /\ UNCHANGED vars

ReadRows(r) ==
  LET req == reqs[r]
  IN  /\ InStep(r, "rows")
      /\ reqs' = [reqs EXCEPT
           ![r].pc = "tombstones",
           ![r].present = {k \in {req.batch[i].record : i \in NewOps(req)} :
                             rows[req.ws][k] # NoRow}]
      /\ UNCHANGED vars

\* Puts that lose against the tombstone of a missing row are logged but not
\* materialized.  The statements are stamped with the time after this read.
ReadTombstones(r) ==
  LET req == reqs[r]
      buried(op) == /\ op.kind = "put"
                    /\ op.record \notin req.present
                    /\ tombstones[req.ws][op.record] # NoTombstone
                    /\ ~ incomingRevisionWins(RevisionOf(op),
                           tombstones[req.ws][op.record].rev)
  IN  /\ InStep(r, "tombstones")
      /\ reqs' = [reqs EXCEPT
           ![r].pc = "batch",
           ![r].skip = {i \in NewOps(req) : buried(req.batch[i])},
           ![r].at = now]
      /\ UNCHANGED vars

-----------------------------------------------------------------------------
\* The batch: all of its statements or none.

\* Mutant: the version offset is the position in the client's batch.
OffsetInBatch(req, i) == i

\* versionOffsets: 1, 2, ... over the new operations.
VersionOffset(req, i) == Cardinality({j \in NewOps(req) : j <= i})

\* The unique index on change_log(op_id), in all workspaces: it fails the
\* batch for an op_id the log holds by now, and for one inserted twice.
DuplicateOpId(req) ==
  \E i \in NewOps(req) :
    \/ Logged(req.batch[i].opId)
    \/ \E j \in NewOps(req) : j # i /\ req.batch[j].opId = req.batch[i].opId

\* Mutant: a row that was missing when it was read is inserted blindly.
UpsertTrustsRead(req, op, row) ==
  CASE op.record \notin req.present
         -> [rev |-> RevisionOf(op), deleted |-> op.kind = "delete",
             data |-> IF op.kind = "put" THEN op ELSE NoData]
    [] op.kind = "put" -> PutRow(op, row, NoTombstone)
    [] OTHER -> DeleteRow(op, row)

\* Mutant: a delete only updates.
DeleteOnlyUpdates(req, op, row) ==
  IF op.kind = "put" THEN PutRow(op, row, NoTombstone)
  ELSE IF row = NoRow THEN NoRow ELSE DeleteRow(op, row)

\* INSERT ... ON CONFLICT DO UPDATE ... WHERE the excluded revision wins.
UpsertRow(req, op, row) ==
  IF row # NoRow /\ ~ lwwExcludedWins(RevisionOf(op), row.rev) THEN row
  ELSE [rev |-> RevisionOf(op),
        deleted |-> op.kind = "delete",
        data |-> IF op.kind = "put" THEN op
                 ELSE IF row = NoRow THEN NoData ELSE row.data]

\* The row of record k after the statements of the first n operations.
RowAfter(req, k, n) ==
  LET row[i \in 0..n] ==
        IF i = 0 THEN rows[req.ws][k]
        ELSE IF /\ i \in NewOps(req) \ req.skip
                /\ req.batch[i].record = k
             THEN UpsertRow(req, req.batch[i], row[i - 1])
             ELSE row[i - 1]
  IN  row[n]

UpsertTombstone(op, tombstone, version, at) ==
  DeleteTombstone(op, tombstone, version, at)

TombstoneAfter(req, k) ==
  LET base == counter[req.ws]
      grave[i \in 0..Len(req.batch)] ==
        IF i = 0 THEN tombstones[req.ws][k]
        ELSE IF /\ i \in NewOps(req)
                /\ req.batch[i].kind = "delete"
                /\ req.batch[i].record = k
             THEN UpsertTombstone(req.batch[i], grave[i - 1],
                                  base + VersionOffset(req, i), req.at)
             ELSE grave[i - 1]
  IN  grave[Len(req.batch)]

RunBatch(r) ==
  LET req == reqs[r]
      new == NewOps(req)
      w == req.ws
      n == Len(req.batch)
      entries == {[ws |-> w, version |-> counter[w] + VersionOffset(req, i),
                   op |-> req.batch[i], createdAt |-> req.at] : i \in new}
      changed(i) == RowAfter(req, req.batch[i].record, i)
                      # RowAfter(req, req.batch[i].record, i - 1)
  IN  /\ InStep(r, "batch")
      /\ ~ DuplicateOpId(req)
      /\ counter[w] + Cardinality(new) <= MaxVersion
      /\ counter' = [counter EXCEPT ![w] = @ + Cardinality(new)]
      /\ log' = log \cup entries
      /\ history' = history \cup entries
      /\ rows' = [rows EXCEPT ![w] = [k \in Records |-> RowAfter(req, k, n)]]
      /\ tombstones' = [tombstones EXCEPT ![w] =
                          [k \in Records |-> TombstoneAfter(req, k)]]
      /\ reqs' = [reqs EXCEPT ![r].pc = "resolve",
                    ![r].applied = {i \in new : changed(i)}]
      /\ UNCHANGED <<now, cursors, tx>>

\* The index rejects the batch, and the request throws.
BatchRejected(r) ==
  /\ InStep(r, "batch")
  /\ DuplicateOpId(reqs[r])
  /\ reqs' = [reqs EXCEPT ![r].pc = "failed"]
  /\ UNCHANGED vars

-----------------------------------------------------------------------------
\* The answer, from what the log holds after the batch.

Answer(req, i) ==
  LET op == req.batch[i]
      row == rows[req.ws][op.record]
      read == {e \in req.existing : e.op.opId = op.opId}
      entry == IF read # {} THEN CHOOSE e \in read : TRUE
               ELSE LoggedEntry(op.opId)
  IN  [opId |-> op.opId, status |-> "ok", version |-> entry.version,
       applied |-> IF read # {} THEN row # NoRow /\ row.rev.opId = op.opId
                   ELSE i \in req.applied]

ResolveOps(r) ==
  LET req == reqs[r]
      resolved == \A i \in NewOps(req) : Logged(req.batch[i].opId)
  IN  /\ InStep(r, "resolve")
      /\ reqs' = IF resolved
                 THEN [reqs EXCEPT ![r].pc = "done", ![r].results =
                         @ \cup {Answer(req, i) : i \in req.todo}]
                 ELSE [reqs EXCEPT ![r].pc = "failed"]
      /\ UNCHANGED vars

\* The response is sent, or the isolate is gone at any earlier step.
EndRequest(r) ==
  /\ Open(r)
  /\ reqs' = [reqs EXCEPT ![r] = Ended]
  /\ UNCHANGED vars

-----------------------------------------------------------------------------
\* Cursors, GC and time.

\* Mutant: a cursor may go back.
OwnCursor(existing, user, version) ==
  existing # NoCursor => existing.owner = user

\* The WHERE of the upsert.
CursorUpsertable(existing, user, version) ==
  existing # NoCursor => /\ existing.owner = user
                         /\ version >= existing.version

\* The conditional upsert decides; the reads before it only refuse earlier,
\* and `at' is the clock from before them.
UpdateCursorInD1(w, d, user, version, at) ==
  /\ version <= counter[w]
  /\ CursorUpsertable(cursors[w][d], user, version)
  /\ cursors' = [cursors EXCEPT ![w][d] =
                   [owner |-> user, version |-> version, updatedAt |-> at]]
  /\ UNCHANGED <<now, counter, log, rows, tombstones, tx, history, reqs>>

Recent == {t \in 0..now : t + MaxLag >= now}

\* The cutoff was computed up to MaxLag before the batch ran.
GcInD1(w, retention) ==
  /\ \E t \in Recent : \/ gcTombstones(w, retention + (now - t))
                       \/ gcChangeLog(w, retention + (now - t))
  /\ UNCHANGED reqs

TickInD1 == /\ Tick
            /\ \A r \in Requests : Open(r) => now < reqs[r].since + MaxLag
            /\ UNCHANGED reqs

NextD1 ==
  \/ \E r \in Requests :
       \/ \E w \in Workspaces, user \in Sessions, batch \in Batches :
             BeginPushInD1(r, w, user, batch)
       \/ ReadProcessedOps(r) \/ ReadOwners(r) \/ ReadRows(r)
       \/ ReadTombstones(r) \/ RunBatch(r) \/ BatchRejected(r)
       \/ ResolveOps(r) \/ EndRequest(r)
  \/ \E w \in Workspaces, d \in Devices, user \in Users,
        version \in 0..MaxVersion, at \in Recent :
          UpdateCursorInD1(w, d, user, version, at)
  \/ \E w \in Workspaces, retention \in Retentions : GcInD1(w, retention)
  \/ TickInD1

SpecD1 == InitD1 /\ [][NextD1]_d1vars

-----------------------------------------------------------------------------
\* Every table, and what a request remembers, has its type.
TypeOKD1 == /\ TypeOK /\ tx = NoTx
            /\ reqs \in [Requests -> Request \cup {NoRequest, Ended}]

\* An answered push reports every op_id of its batch exactly once, and a
\* success names a version under which that very operation was committed in
\* this workspace, whatever other requests and GC did since.
AnswersTruthfullyD1 ==
  \A r \in Requests : InStep(r, "done") =>
    LET req == reqs[r]
    IN  \A i \in DOMAIN req.batch :
          \E a \in req.results :
            /\ a.opId = req.batch[i].opId
            /\ \A b \in req.results : b.opId = a.opId => b = a
            /\ a.status = "ok" =>
                 \E e \in history : /\ e.ws = req.ws
                                    /\ e.version = a.version
                                    /\ e.op = req.batch[i]

\* Every version after the cursor is in the log.
CanCatchUp(w, cursor) == (cursor + 1)..counter[w] \subseteq RetainedVersions(w)

\* Pushes that commit out of the order of their stamps make holes in the log
\* when GC drops by age, but never above a registered cursor: a device that
\* could catch up when it registered can as long as it stays registered.
ActiveDeviceCatchesUp ==
  [][\A w \in Workspaces, d \in Devices :
       /\ cursors[w][d] # NoCursor
       /\ cursors'[w][d] # NoCursor
       /\ CanCatchUp(w, cursors[w][d].version)
       => CanCatchUp(w, cursors[w][d].version)']_d1vars

\* The unique index is the last resort of a push that decided from overtaken
\* reads what is new.  A push fails only at its batch, having written nothing,
\* and only because one of its op_ids, in whichever workspace, got a version
\* after the push had read the log: never for a replay it could have seen,
\* for a repetition inside its batch, or for entries GC dropped before the
\* answer.
OnlyRacesFail ==
  [][\A r \in Requests : InStep(r, "failed")' /\ ~ InStep(r, "failed") =>
       /\ InStep(r, "batch")
       /\ \E i \in NewOps(reqs[r]), e \in log :
            /\ e.op.opId = reqs[r].batch[i].opId
            /\ e.version > reqs[r].heads[e.ws]]_d1vars

\* An op_id that another request logs between the reads and the batch does
\* not fail the push.
RacingDuplicateIsIdempotent ==
  \A r \in Requests : ~ InStep(r, "failed")
=============================================================================
