-------------------------- MODULE SyncStore_proofs --------------------------
(***************************************************************************)
(* Proofs about SyncStore, for all sets of operations, workspaces, records *)
(* and devices, all batch sizes and all bounds.                            *)
(***************************************************************************)
EXTENDS SyncStore, FiniteSetTheorems, WellFoundedInduction, TLAPS

-----------------------------------------------------------------------------
(* Revisions: their order is total, and TypeScript and SQL decide alike.   *)

\* The comparison in code (used for rows) and the one in SQL (used for
\* tombstones) accept the same revisions.
THEOREM TwoComparisonsAgree ==
  ASSUME NEW a \in Revision, NEW b \in Revision
  PROVE  incomingRevisionWins(a, b) <=> lwwExcludedWins(a, b)
BY DEF incomingRevisionWins, lwwExcludedWins, compareSyncRevision, Revision

\* A revision does not win against itself: a replay writes nothing.
LEMMA WinsIrreflexive ==
  ASSUME NEW a \in Revision
  PROVE  ~ lwwExcludedWins(a, a)
BY DEF lwwExcludedWins, Revision

\* The winner of a winner wins: pairwise LWW writes find the greatest.
LEMMA WinsTransitive ==
  ASSUME NEW a \in Revision, NEW b \in Revision, NEW c \in Revision,
         lwwExcludedWins(a, b), lwwExcludedWins(b, c)
  PROVE  lwwExcludedWins(a, c)
BY DEF lwwExcludedWins, Revision

\* Of two revisions one wins, unless they are the same.
LEMMA WinsTotal ==
  ASSUME NEW a \in Revision, NEW b \in Revision
  PROVE  lwwExcludedWins(a, b) \/ lwwExcludedWins(b, a) \/ a = b
BY DEF lwwExcludedWins, Revision

\* A set of versions has an oldest one.
LEMMA NatHasMin ==
  ASSUME NEW S \in SUBSET Nat, S # {}
  PROVE  \E m \in S : \A n \in S : m <= n
<1> DEFINE R == OpToRel(<, Nat)
<1>1. IsWellFoundedOn(R, Nat)
  BY NatLessThanWellFounded
<1>2. PICK m \in S : \A n \in S : ~ (<<n, m>> \in R)
  <2> HIDE DEF R
  <2> QED BY <1>1, WFMin
<1>3. \A n \in S : ~ (n < m)
  BY <1>2 DEF OpToRel
<1> QED BY <1>3

-----------------------------------------------------------------------------
(* Types.                                                                  *)

\* A batch is a finite sequence of operations.
LEMMA BatchType ==
  ASSUME NEW batch \in Seq(Operation)
  PROVE  /\ DOMAIN batch \subseteq Nat
         /\ IsFiniteSet(DOMAIN batch)
         /\ \A i \in DOMAIN batch : batch[i] \in Operation
<1>1. Len(batch) \in Nat /\ DOMAIN batch = 1..Len(batch)
  OBVIOUS
<1>2. IsFiniteSet(1..Len(batch))
  BY <1>1, FS_Interval
<1> QED BY <1>1, <1>2

\* Scoping keeps a batch a batch, with the same op_ids.
LEMMA ScopedBatchType ==
  ASSUME NEW user \in Users \cup {NoUser}, NEW batch \in Batches
  PROVE  /\ ScopedBatch(user, batch) \in Seq(Operation)
         /\ DOMAIN ScopedBatch(user, batch) = DOMAIN batch
         /\ \A i \in DOMAIN batch :
               /\ batch[i] \in Operation
               /\ ScopedBatch(user, batch)[i].opId = batch[i].opId
<1>1. PICK n \in 1..MaxBatch : batch \in [1..n -> Ops]
  BY DEF Batches
<1>2. \A i \in 1..n : batch[i] \in Operation
  BY <1>1, SyncConstants
<1>3. ASSUME NEW op \in Operation
      PROVE  /\ scopeNotificationWrite(user, op) \in Operation
             /\ scopeNotificationWrite(user, op).opId = op.opId
  BY DEF scopeNotificationWrite, Operation
<1>4. ScopedBatch(user, batch) \in [1..n -> Operation]
  BY <1>1, <1>2, <1>3 DEF ScopedBatch
<1>5. n \in Nat
  BY SyncConstants
<1> QED BY <1>1, <1>2, <1>3, <1>4, <1>5 DEF ScopedBatch

\* Revisions of operations.
LEMMA RevisionOfOp ==
  ASSUME NEW op \in Operation
  PROVE  RevisionOf(op) \in Revision
BY DEF Operation, RevisionOf, Revision

\* What a write puts into the materialized and the tombstone table has the
\* tables' types.
LEMMA WrittenRowTypes ==
  ASSUME NEW op \in Operation, NEW row \in Row \cup {NoRow},
         NEW tombstone \in Tombstone \cup {NoTombstone},
         NEW version \in Nat, NEW at \in Nat
  PROVE  /\ PutRow(op, row, tombstone) \in Row \cup {NoRow}
         /\ DeleteRow(op, row) \in Row
         /\ DeleteTombstone(op, tombstone, version, at) \in Tombstone
<1>1. RevisionOf(op) \in Revision
  BY RevisionOfOp
<1> QED BY <1>1 DEF PutRow, DeleteRow, DeleteTombstone, Row, Tombstone

\* A refusal is an answer.
LEMMA RefusedType ==
  ASSUME NEW opId \in Nat, NEW status \in ErrorCodes
  PROVE  Refused(opId, status) \in Result
BY DEF Refused, Result

\* The operations that reach the transaction are positions of the batch.
LEMMA UniqueOpsDomain ==
  ASSUME NEW batch, NEW user
  PROVE  UniqueOps(user, batch) \subseteq DOMAIN batch
BY DEF UniqueOps

\* The working copy a push starts from.
LEMMA BeginPushType ==
  ASSUME TypeOK, NEW w \in Workspaces, NEW user \in Users \cup {NoUser},
         NEW batch \in Batches, BeginPush(w, user, batch)
  PROVE  tx' \in Transaction
<1> USE DEF TypeOK
<1> DEFINE scoped == ScopedBatch(user, batch)
           unique == UniqueOps(user, batch)
           denied == {i \in unique : NotOwner(rows[w], scoped[i], user)}
           fresh == {i \in unique \ denied : ~ Logged(scoped[i].opId)}
           results == RefusedBeforeTx(user, batch) \cup
             {Refused(scoped[i].opId, "UNAUTHORIZED") : i \in denied}
<1>1. /\ scoped \in Seq(Operation)
      /\ unique \subseteq DOMAIN scoped
      /\ DOMAIN scoped \subseteq Nat /\ IsFiniteSet(DOMAIN scoped)
      /\ DOMAIN scoped = DOMAIN batch
      /\ \A i \in DOMAIN batch : batch[i].opId \in Nat
      /\ \A i \in DOMAIN scoped : scoped[i].opId \in Nat
  <2>1. /\ scoped \in Seq(Operation)
        /\ DOMAIN scoped = DOMAIN batch
        /\ \A i \in DOMAIN batch : batch[i] \in Operation
    BY ScopedBatchType
  <2>2. unique \subseteq DOMAIN batch
    BY UniqueOpsDomain
  <2> HIDE DEF scoped, unique
  <2>3. /\ DOMAIN scoped \subseteq Nat /\ IsFiniteSet(DOMAIN scoped)
        /\ \A i \in DOMAIN scoped : scoped[i] \in Operation
    BY <2>1, BatchType
  <2>4. \A op \in Operation : op.opId \in Nat
    BY DEF Operation
  <2> QED BY <2>1, <2>2, <2>3, <2>4
<1> HIDE DEF scoped, unique
<1>2. Cardinality(fresh) \in Nat
  BY <1>1, FS_Subset, FS_CardinalityType
<1>3. results \subseteq Result
  <2>1. \A i : ErrorCode(user, batch, i) \in ErrorCodes
    BY DEF ErrorCode, ErrorCodes
  <2>2. RefusedBeforeTx(user, batch) \subseteq Result
    BY <1>1, <2>1, RefusedType DEF RefusedBeforeTx
  <2>3. "UNAUTHORIZED" \in ErrorCodes
    BY DEF ErrorCodes
  <2> QED BY <1>1, <2>2, <2>3, RefusedType
<1>4. tx' = [ws |-> w, user |-> user, batch |-> scoped, now |-> now,
             todo |-> unique \ denied,
             base |-> counter[w], size |-> Cardinality(fresh), offset |-> 0,
             rows |-> rows[w], tombstones |-> tombstones[w],
             entries |-> {}, results |-> results]
  BY DEF BeginPush, scoped, unique
<1>5. /\ rows[w] \in [Records -> Row \cup {NoRow}]
      /\ tombstones[w] \in [Records -> Tombstone \cup {NoTombstone}]
      /\ counter[w] \in Nat
      /\ unique \ denied \subseteq Nat
  BY <1>1
<1> HIDE DEF denied, fresh, results
<1> QED BY <1>1, <1>2, <1>3, <1>4, <1>5 DEF Transaction

\* The working copy a ReplayOp step leaves is a working copy.
LEMMA ReplayOpType ==
  ASSUME TypeOK, tx # NoTx, NEW i \in tx.todo, ReplayOp(i)
  PROVE  tx' \in Transaction
<1> USE DEF TypeOK
<1> DEFINE op == tx.batch[i]
           entry == LoggedEntry(op.opId)
           row == tx.rows[op.record]
           result == IF entry.ws = tx.ws /\ entry.op = op
              THEN [opId |-> op.opId, status |-> "ok",
                    version |-> entry.version,
                    applied |-> row # NoRow /\ row.rev.opId = op.opId]
              ELSE Refused(op.opId, "CONFLICT")
<1>1. tx \in Transaction /\ op \in Operation
  BY BatchType DEF Transaction
<1>2. op.opId \in Nat
  BY <1>1, RevisionOfOp DEF Operation
<1>3. entry \in Entry
  BY DEF ReplayOp, Logged, LoggedEntry
<1>4. entry.version \in Nat
  BY <1>3 DEF Entry
<1>5. result \in Result
  BY <1>2, <1>4, RefusedType DEF Result, ErrorCodes
<1>6. tx' = [tx EXCEPT !.todo = @ \ {i}, !.results = @ \cup {result}]
  BY DEF ReplayOp
<1> HIDE DEF result
<1> QED BY <1>1, <1>5, <1>6 DEF Transaction

\* The working copy a WriteOp step leaves is a working copy.
LEMMA WriteOpType ==
  ASSUME tx \in Transaction, NEW i \in tx.todo, tx.batch[i] \in Operation, WriteOp(i)
  PROVE  tx' \in Transaction
<1> DEFINE op == tx.batch[i]
           row == tx.rows[op.record]
           tombstone == tx.tombstones[op.record]
           version == tx.base + tx.offset + 1
           newRow == IF op.kind = "put" THEN PutRow(op, row, tombstone)
                     ELSE DeleteRow(op, row)
           entry == [ws |-> tx.ws, version |-> version, op |-> op,
                     createdAt |-> tx.now]
           newTombstone ==
             IF op.kind = "put" THEN tombstone
             ELSE DeleteTombstone(op, tombstone, version, tx.now)
           result == [opId |-> op.opId, status |-> "ok",
                      version |-> version, applied |-> newRow # row]
           refusal == Refused(op.opId, "UNAUTHORIZED")
<1>1. /\ op.record \in Records /\ op.opId \in Nat
      /\ version \in Nat
      /\ row \in Row \cup {NoRow}
      /\ tombstone \in Tombstone \cup {NoTombstone}
  <2>1. op \in Operation /\ op.record \in Records /\ op.opId \in Nat
    BY DEF Operation
  <2> HIDE DEF op
  <2> QED BY <2>1 DEF Transaction
<1>2. newRow \in Row \cup {NoRow}
  <2>1. 0 \in Nat
    OBVIOUS
  <2> QED BY <1>1, <2>1, WrittenRowTypes
<1>3. newTombstone \in Tombstone \cup {NoTombstone}
  <2>1. tx.now \in Nat
    BY DEF Transaction
  <2> QED BY <1>1, <2>1, WrittenRowTypes
<1>4. entry \in Entry /\ result \in Result /\ refusal \in Result
  BY <1>1, RefusedType DEF Entry, Result, Transaction, ErrorCodes
<1>5. tx' = IF NotOwner(tx.rows, op, tx.user)
            THEN [tx EXCEPT !.todo = @ \ {i}, !.offset = @ + 1,
                            !.results = @ \cup {refusal}]
            ELSE [tx EXCEPT !.todo = @ \ {i}, !.offset = @ + 1,
                            !.rows[op.record] = newRow,
                            !.tombstones[op.record] = newTombstone,
                            !.entries = @ \cup {entry},
                            !.results = @ \cup {result}]
  BY DEF WriteOp
<1> HIDE DEF newRow, newTombstone, entry, result, refusal
<1> DEFINE newRows == [tx.rows EXCEPT ![op.record] = newRow]
           newTombstones == [tx.tombstones EXCEPT ![op.record] = newTombstone]
<1>6. /\ newRows \in [Records -> Row \cup {NoRow}]
      /\ newTombstones \in [Records -> Tombstone \cup {NoTombstone}]
  BY <1>2, <1>3 DEF Transaction
<1>7. /\ tx.todo \ {i} \in SUBSET Nat /\ tx.offset + 1 \in Nat
      /\ tx.entries \cup {entry} \in SUBSET Entry
      /\ tx.results \cup {result} \in SUBSET Result
      /\ tx.results \cup {refusal} \in SUBSET Result
  BY <1>4 DEF Transaction
<1>8. CASE NotOwner(tx.rows, op, tx.user)
  BY <1>5, <1>7, <1>8 DEF Transaction
<1>9. CASE ~ NotOwner(tx.rows, op, tx.user)
  <2>1. tx' = [tx EXCEPT !.todo = tx.todo \ {i}, !.offset = tx.offset + 1,
                 !.rows = newRows, !.tombstones = newTombstones,
                 !.entries = tx.entries \cup {entry},
                 !.results = tx.results \cup {result}]
    BY <1>5, <1>9 DEF Transaction
  <2> HIDE DEF newRows, newTombstones
  <2> QED BY <2>1, <1>6, <1>7 DEF Transaction
<1> QED BY <1>8, <1>9

\* Every step keeps the types.
LEMMA TypeStep == TypeOK /\ [Next]_vars => TypeOK'
<1> SUFFICES ASSUME TypeOK, [Next]_vars PROVE TypeOK'
  OBVIOUS
<1> USE DEF TypeOK
<1>1. ASSUME NEW w \in Workspaces, NEW user \in Users \cup {NoUser},
             NEW batch \in Batches, BeginPush(w, user, batch)
      PROVE  TypeOK'
  <2>1. tx' \in Transaction
    BY <1>1, BeginPushType
  <2>2. tx'.todo \subseteq DOMAIN tx'.batch
    <3>1. /\ tx'.todo \subseteq UniqueOps(user, batch)
          /\ tx'.batch = ScopedBatch(user, batch)
      BY <1>1 DEF BeginPush
    <3> QED BY <3>1, UniqueOpsDomain, ScopedBatchType
  <2> QED BY <1>1, <2>1, <2>2 DEF BeginPush
<1>2. ASSUME NEW i \in tx.todo, tx # NoTx, ReplayOp(i) PROVE TypeOK'
  <2>1. tx' \in Transaction
    BY <1>2, ReplayOpType
  <2>2. tx'.todo \subseteq DOMAIN tx'.batch
    BY <1>2 DEF ReplayOp, Transaction
  <2> QED BY <1>2, <2>1, <2>2 DEF ReplayOp
<1>3. ASSUME NEW i \in tx.todo, tx # NoTx, WriteOp(i) PROVE TypeOK'
  <2>1. tx \in Transaction /\ tx.batch[i] \in Operation /\ tx'.batch = tx.batch
    BY <1>3, BatchType DEF Transaction, WriteOp
  <2>2. tx' \in Transaction
    BY <1>3, <2>1, WriteOpType
  <2>3. tx'.todo \subseteq DOMAIN tx'.batch
    BY <1>3, <2>1 DEF WriteOp, Transaction
  <2> QED BY <1>3, <2>2, <2>3 DEF WriteOp
<1>4. CASE CommitPush
  BY <1>4 DEF CommitPush, Transaction
<1>5. CASE AbortPush
  BY <1>5 DEF AbortPush
<1>6. ASSUME NEW w \in Workspaces, NEW d \in Devices, NEW user \in Users,
             NEW version \in 0..MaxVersion,
             UpdateCursor(w, d, user, version)
      PROVE  TypeOK'
  BY <1>6, SyncConstants DEF UpdateCursor, Cursor
<1>7. ASSUME NEW w \in Workspaces, NEW retention \in Retentions,
             gcTombstones(w, retention)
      PROVE  TypeOK'
  BY <1>7 DEF gcTombstones, ForgetStaleCursors
<1>8. ASSUME NEW w \in Workspaces, NEW retention \in Retentions,
             gcChangeLog(w, retention)
      PROVE  TypeOK'
  BY <1>8 DEF gcChangeLog, ForgetStaleCursors
<1>9. CASE Tick
  BY <1>9 DEF Tick
<1>10. CASE UNCHANGED vars
  BY <1>10 DEF vars
<1> QED BY <1>1, <1>2, <1>3, <1>4, <1>5, <1>6, <1>7, <1>8, <1>9, <1>10
        DEF Next

\* Every committed table and the working copy of an open push keep their
\* types (TypeOK is the run's invariant).
THEOREM TypeCorrect == Spec => []TypeOK
<1>1. Init => TypeOK
  BY Sentinels DEF Init, TypeOK
<1>2. TypeOK /\ [Next]_vars => TypeOK'
  BY TypeStep
<1> QED BY <1>1, <1>2, PTL DEF Spec

-----------------------------------------------------------------------------
\* The last-writer-wins merge.

\* A write that finds no row and no tombstone inserts its own row.
LEMMA InsertedRow ==
  ASSUME NEW op \in Operation, NEW newRow,
         newRow = IF op.kind = "put" THEN PutRow(op, NoRow, NoTombstone)
                  ELSE DeleteRow(op, NoRow)
  PROVE  /\ newRow \in Row
         /\ newRow.rev = RevisionOf(op)
         /\ newRow.deleted = (op.kind = "delete")
         /\ op.kind = "put" => newRow.data = op
<1>1. RevisionOf(op) \in Revision /\ op.kind \in {"put", "delete"}
  BY RevisionOfOp DEF Operation
<1>2. CASE op.kind = "put"
  <2>1. newRow = [rev |-> RevisionOf(op), deleted |-> FALSE, data |-> op]
    BY <1>2 DEF PutRow
  <2>2. newRow \in Row
    <3>1. [rev |-> RevisionOf(op), deleted |-> FALSE, data |-> op] \in Row
      BY <1>1 DEF Row
    <3> QED BY <2>1, <3>1
  <2>3. newRow.rev = RevisionOf(op) /\ newRow.data = op
    BY <2>1
  <2>4. newRow.deleted = FALSE
    BY <2>1
  <2>5. (op.kind = "delete") = FALSE
    BY <1>2
  <2>6. newRow.deleted = (op.kind = "delete")
    BY <2>4, <2>5, Zenon
  <2> QED BY <2>2, <2>3, <2>6
<1>3. CASE op.kind = "delete"
  <2>1. newRow = [rev |-> RevisionOf(op), deleted |-> TRUE, data |-> NoData]
    BY <1>3 DEF DeleteRow
  <2>2. newRow \in Row
    <3>1. [rev |-> RevisionOf(op), deleted |-> TRUE, data |-> NoData] \in Row
      BY <1>1 DEF Row
    <3> QED BY <2>1, <3>1
  <2>3. newRow.rev = RevisionOf(op) /\ ~ (op.kind = "put")
    BY <2>1, <1>3
  <2>4. newRow.deleted = TRUE
    BY <2>1
  <2>5. (op.kind = "delete") = TRUE
    BY <1>3
  <2>6. newRow.deleted = (op.kind = "delete")
    BY <2>4, <2>5, Zenon
  <2> QED BY <2>2, <2>3, <2>6
<1> QED BY <1>1, <1>2, <1>3

\* An operation on one record leaves the merge of another alone.
LEMMA OtherRecordKeepsWinner ==
  ASSUME NEW table, NEW k, NEW x, NEW w, NEW entries, NEW entry, NEW row,
         table \in [Records -> Row \cup {NoRow}],
         k \in Records, entry.op.record = x, x # k,
         HoldsWinner(table, w, k, entries)
  PROVE  HoldsWinner([table EXCEPT ![x] = row], w, k, entries \cup {entry})
BY DEF HoldsWinner

\* Appending an operation to what was merged and applying PutRow or
\* DeleteRow to the row yields the merge of both.
LEMMA WriteKeepsWinner ==
  ASSUME NEW table \in [Records -> Row \cup {NoRow}],
         NEW graves \in [Records -> Tombstone \cup {NoTombstone}],
         NEW entries \in SUBSET Entry, NEW entry \in Entry,
         NEW w, entry.ws = w,
         NEW op \in Operation, entry.op = op,
         HoldsWinner(table, w, op.record, entries),
         TombstoneBehindRow(table, graves, op.record),
         NEW newRow,
         newRow = IF op.kind = "put"
                  THEN PutRow(op, table[op.record], graves[op.record])
                  ELSE DeleteRow(op, table[op.record])
  PROVE  HoldsWinner([table EXCEPT ![op.record] = newRow], w, op.record,
                     entries \cup {entry})
<1> DEFINE k == op.record
           row == table[k]
           rev == RevisionOf(op)
<1>1. /\ k \in Records /\ rev \in Revision /\ op.kind \in {"put", "delete"}
      /\ \A e \in entries : RevisionOf(e.op) \in Revision
  BY RevisionOfOp DEF Operation, Entry
<1>2. CASE row = NoRow
  <2>1. graves[k] = NoTombstone
    BY <1>2 DEF TombstoneBehindRow
  <2>2. /\ newRow # NoRow
        /\ newRow.rev = rev
        /\ newRow.deleted = (op.kind = "delete")
        /\ op.kind = "put" => newRow.data = op
    BY <1>2, <2>1, InsertedRow, Sentinels
  <2>3. \A e \in entries : ~ (e.ws = w /\ e.op.record = k)
    BY <1>2 DEF HoldsWinner
  <2>4. ~ lwwExcludedWins(rev, rev)
    BY <1>1, WinsIrreflexive
  <2> QED BY <1>1, <2>2, <2>3, <2>4 DEF HoldsWinner
<1>3. CASE row # NoRow /\ lwwExcludedWins(rev, row.rev)
  <2>1. row \in Row /\ row.rev \in Revision
    BY <1>1, <1>3 DEF Row
  <2>2. incomingRevisionWins(rev, row.rev)
    BY <1>1, <1>3, <2>1, TwoComparisonsAgree
  <2>3. /\ newRow \in Row
        /\ newRow.rev = rev
        /\ newRow.deleted = (op.kind = "delete")
        /\ op.kind = "put" => newRow.data = op
    BY <1>1, <1>3, <2>1, <2>2 DEF PutRow, DeleteRow, Row
  <2>4. newRow # NoRow
    BY <2>3, Sentinels
  <2>5. \A e \in entries : e.ws = w /\ e.op.record = k =>
           ~ lwwExcludedWins(RevisionOf(e.op), rev)
    <3> SUFFICES ASSUME NEW e \in entries, e.ws = w, e.op.record = k,
                        lwwExcludedWins(RevisionOf(e.op), rev)
                 PROVE  FALSE
      OBVIOUS
    <3>1. lwwExcludedWins(RevisionOf(e.op), row.rev)
      BY <1>1, <1>3, <2>1, WinsTransitive
    <3> QED BY <3>1, <1>3 DEF HoldsWinner
  <2>6. ~ lwwExcludedWins(rev, rev)
    BY <1>1, WinsIrreflexive
  <2> QED BY <1>1, <2>3, <2>4, <2>5, <2>6 DEF HoldsWinner
<1>4. CASE row # NoRow /\ ~ lwwExcludedWins(rev, row.rev)
  <2>1. row \in Row /\ row.rev \in Revision
    BY <1>1, <1>4 DEF Row
  <2>2. ~ incomingRevisionWins(rev, row.rev)
    BY <1>1, <1>4, <2>1, TwoComparisonsAgree
  <2>3. newRow = row
    BY <1>1, <1>4, <2>2 DEF PutRow, DeleteRow
  <2>4. [table EXCEPT ![k] = newRow] = table
    BY <2>3, <1>1
  <2> QED BY <1>1, <1>4, <2>4 DEF HoldsWinner
<1> QED BY <1>2, <1>3, <1>4

\* The row an accepted operation leaves is at least as new as the operation
\* and as the row before it.
LEMMA WriteMovesRowForward ==
  ASSUME NEW op \in Operation, NEW row \in Row \cup {NoRow},
         NEW tombstone \in Tombstone \cup {NoTombstone},
         row = NoRow => tombstone = NoTombstone,
         NEW newRow,
         newRow = IF op.kind = "put" THEN PutRow(op, row, tombstone)
                  ELSE DeleteRow(op, row)
  PROVE  /\ newRow \in Row
         /\ ~ lwwExcludedWins(RevisionOf(op), newRow.rev)
         /\ row # NoRow => newRow = row \/ lwwExcludedWins(newRow.rev, row.rev)
<1> DEFINE rev == RevisionOf(op)
<1>1. rev \in Revision /\ op.kind \in {"put", "delete"}
  BY RevisionOfOp DEF Operation
<1>2. ~ lwwExcludedWins(rev, rev)
  BY <1>1, WinsIrreflexive
<1>3. CASE row = NoRow
  <2>1. newRow \in Row /\ newRow.rev = rev
    BY <1>3, InsertedRow
  <2> QED BY <1>2, <1>3, <2>1
<1>4. CASE row # NoRow
  <2>1. row \in Row /\ row.rev \in Revision
    BY <1>4 DEF Row
  <2>2. incomingRevisionWins(rev, row.rev) <=> lwwExcludedWins(rev, row.rev)
    BY <1>1, <2>1, TwoComparisonsAgree
  <2>3. CASE lwwExcludedWins(rev, row.rev)
    <3>1. newRow \in Row /\ newRow.rev = rev
      BY <1>1, <1>4, <2>1, <2>2, <2>3 DEF PutRow, DeleteRow, Row
    <3> QED BY <3>1, <1>2, <2>3
  <2>4. CASE ~ lwwExcludedWins(rev, row.rev)
    <3>1. newRow = row
      BY <1>1, <1>4, <2>2, <2>4 DEF PutRow, DeleteRow
    <3> QED BY <3>1, <2>1, <2>4
  <2> QED BY <2>3, <2>4
<1> QED BY <1>3, <1>4

\* The tombstone an accepted operation leaves is not newer than its row.
LEMMA WriteKeepsTombstoneBehind ==
  ASSUME NEW table \in [Records -> Row \cup {NoRow}],
         NEW graves \in [Records -> Tombstone \cup {NoTombstone}],
         NEW op \in Operation, NEW version \in Nat, NEW at \in Nat,
         TombstoneBehindRow(table, graves, op.record),
         NEW newRow,
         newRow = IF op.kind = "put"
                  THEN PutRow(op, table[op.record], graves[op.record])
                  ELSE DeleteRow(op, table[op.record]),
         NEW newTombstone,
         newTombstone = IF op.kind = "put" THEN graves[op.record]
                        ELSE DeleteTombstone(op, graves[op.record], version, at)
  PROVE  TombstoneBehindRow([table EXCEPT ![op.record] = newRow],
                            [graves EXCEPT ![op.record] = newTombstone],
                            op.record)
<1> DEFINE k == op.record
           row == table[k]
           grave == graves[k]
<1>1. /\ k \in Records /\ RevisionOf(op) \in Revision
      /\ row \in Row \cup {NoRow} /\ grave \in Tombstone \cup {NoTombstone}
      /\ row = NoRow => grave = NoTombstone
      /\ grave # NoTombstone => ~ lwwExcludedWins(grave.rev, row.rev)
  BY RevisionOfOp DEF Operation, TombstoneBehindRow
<1>2. /\ newRow \in Row
      /\ ~ lwwExcludedWins(RevisionOf(op), newRow.rev)
      /\ row # NoRow => newRow = row \/ lwwExcludedWins(newRow.rev, row.rev)
  <2> HIDE DEF row, grave
  <2>1. newRow = IF op.kind = "put" THEN PutRow(op, row, grave)
                 ELSE DeleteRow(op, row)
    BY DEF row, grave
  <2> QED BY <1>1, <2>1, WriteMovesRowForward
<1>3. newRow # NoRow
  BY <1>2, Sentinels
<1>4. CASE newTombstone = grave
  <2> SUFFICES ASSUME grave # NoTombstone
               PROVE  ~ lwwExcludedWins(grave.rev, newRow.rev)
    BY <1>1, <1>3, <1>4 DEF TombstoneBehindRow
  <2>1. /\ grave.rev \in Revision /\ row.rev \in Revision
        /\ newRow.rev \in Revision
    BY <1>1, <1>2 DEF Row, Tombstone
  <2>2. row # NoRow
    BY <1>1
  <2> QED BY <1>1, <1>2, <2>1, <2>2, WinsTransitive
<1>5. CASE newTombstone # grave
  <2>1. newTombstone.rev = RevisionOf(op)
    BY <1>5 DEF DeleteTombstone
  <2> QED BY <1>1, <1>2, <1>3, <2>1 DEF TombstoneBehindRow
<1> QED BY <1>4, <1>5

\* A user's notification that the user writes or deletes stays the user's.
LEMMA WriteKeepsOwner ==
  ASSUME NEW op \in Operation, NEW row \in Row, NEW tombstone, NEW user,
         op.kind = "put" => op.author = user,
         notificationPayloadUserId(row) = user,
         NEW newRow,
         newRow = IF op.kind = "put" THEN PutRow(op, row, tombstone)
                  ELSE DeleteRow(op, row)
  PROVE  notificationPayloadUserId(newRow) = user
<1>1. row # NoRow /\ op # NoData
  BY Sentinels
<1>2. newRow = row \/ newRow.data = row.data \/
      (op.kind = "put" /\ newRow.data = op)
  BY <1>1 DEF PutRow, DeleteRow, Row
<1> QED BY <1>1, <1>2 DEF notificationPayloadUserId

-----------------------------------------------------------------------------
\* The steps of a push preserve the inductive invariant.

\* BeginPush only opens the transaction, on a block of the right size and
\* with operations that may go through.
LEMMA BeginPushInv ==
  ASSUME SyncInv, TypeOK', NEW w \in Workspaces,
         NEW user \in Users \cup {NoUser}, NEW batch \in Batches,
         BeginPush(w, user, batch)
  PROVE  SyncInv'
<1> DEFINE scoped == ScopedBatch(user, batch)
           unique == UniqueOps(user, batch)
           denied == {i \in unique : NotOwner(rows[w], scoped[i], user)}
           fresh == {i \in unique \ denied : ~ Logged(scoped[i].opId)}
<1>1. UNCHANGED <<now, counter, log, rows, tombstones, cursors, history>>
  BY DEF BeginPush
<1>2. /\ tx = NoTx /\ tx' # NoTx
      /\ tx'.ws = w /\ tx'.user = user /\ tx'.batch = scoped /\ tx'.now = now
      /\ tx'.todo = unique \ denied
      /\ tx'.base = counter[w] /\ tx'.size = Cardinality(fresh)
      /\ tx'.offset = 0
      /\ tx'.rows = rows[w] /\ tx'.tombstones = tombstones[w]
      /\ tx'.entries = {}
  <2>1. tx = NoTx /\ tx' # NoTx
    BY BeginPushType, Sentinels DEF BeginPush, SyncInv
  <2> QED BY <2>1 DEF BeginPush
<1>3. /\ scoped \in Seq(Operation)
      /\ DOMAIN scoped = DOMAIN batch
      /\ unique \subseteq DOMAIN batch
      /\ \A i \in unique : scoped[i].opId = batch[i].opId
      /\ \A i \in unique : scoped[i].record \in Notifications /\
            scoped[i].kind = "put" => scoped[i].author = user
      /\ \A i, j \in unique : batch[i].opId = batch[j].opId => i = j
      /\ DOMAIN scoped \subseteq Nat
  <2>1. /\ scoped \in Seq(Operation)
        /\ DOMAIN scoped = DOMAIN batch
        /\ unique \subseteq DOMAIN batch
        /\ \A i \in DOMAIN batch : /\ batch[i] \in Operation
                                   /\ scoped[i].opId = batch[i].opId
    BY ScopedBatchType, UniqueOpsDomain
  <2>2. DOMAIN scoped \subseteq Nat
    BY <2>1, BatchType
  <2>3. \A i \in unique : scoped[i].record \in Notifications /\
            scoped[i].kind = "put" => scoped[i].author = user
    <3>1. \A op \in Operation :
             LET to == scopeNotificationWrite(user, op)
             IN  to.record \in Notifications /\ to.kind = "put"
                   => to.author = user
      BY DEF scopeNotificationWrite, Operation
    <3>2. \A i \in unique : scoped[i] = scopeNotificationWrite(user, batch[i])
      BY <2>1 DEF ScopedBatch
    <3> HIDE DEF scoped, unique
    <3> QED BY <2>1, <3>1, <3>2
  <2>4. \A i, j \in unique : batch[i].opId = batch[j].opId => i = j
    <3> SUFFICES ASSUME NEW i \in unique, NEW j \in unique,
                        batch[i].opId = batch[j].opId, i < j
                 PROVE  FALSE
      BY <2>1, <2>2
    <3> QED BY <2>1 DEF UniqueOps, FirstOfGroup
  <2> QED BY <2>1, <2>2, <2>3, <2>4
<1> HIDE DEF denied, unique, scoped
<1>4. /\ VersionsContiguous' /\ HistoryOrdered' /\ LogIsSuffix'
      /\ CursorsWithinHistory' /\ RowsHoldWinners' /\ TombstonesBehindRows'
  BY <1>1 DEF SyncInv, VersionsContiguous, HistoryOrdered, LogIsSuffix,
     CursorsWithinHistory, RowsHoldWinners, TombstonesBehindRows,
     HoldsWinner, TombstoneBehindRow
<1>5. NoOpIdCollision' /\ PushFillsBlock'
  <2>1. Unwritten' = fresh
    BY <1>1, <1>2 DEF Unwritten, Logged
  <2>2. Cardinality(fresh) \in Nat /\ counter[w] \in Nat
    BY <1>3, BatchType, FS_Subset, FS_CardinalityType DEF SyncInv, TypeOK
  <2>3. NoOpIdCollision'
    BY <1>1, <1>2 DEF SyncInv, NoOpIdCollision
  <2> HIDE DEF fresh
  <2> QED BY <1>1, <1>2, <2>1, <2>2, <2>3 DEF PushFillsBlock
<1>6. PushCanContinue'
  <2>1. \A i \in unique \ denied : ~ NotOwner(rows[w], scoped[i], user)
    BY DEF denied
  <2>2. now <= now /\ \A e \in history : e.createdAt <= now
    BY DEF SyncInv, TypeOK, HistoryOrdered
  <2>3. (\A i \in tx.todo : ~ NotOwner(tx.rows, tx.batch[i], tx.user))'
    BY <1>2, <2>1 DEF NotOwner, notificationPayloadUserId
  <2> QED BY <1>1, <1>2, <1>3, <2>2, <2>3 DEF PushCanContinue
<1>7. PushMergesByLww'
  <2>1. \A k \in Records :
          /\ HoldsWinner(rows[w], w, k, history)
          /\ TombstoneBehindRow(rows[w], tombstones[w], k)
    BY DEF SyncInv, RowsHoldWinners, TombstonesBehindRows
  <2>2. history \cup {} = history
    OBVIOUS
  <2> QED BY <1>1, <1>2, <2>1, <2>2
          DEF PushMergesByLww, HoldsWinner, TombstoneBehindRow
<1> QED BY <1>4, <1>5, <1>6, <1>7 DEF SyncInv

\* A replay changes nothing but the answers and what is left to do.
LEMMA ReplayOpInv ==
  ASSUME SyncInv, TypeOK', tx # NoTx, NEW i \in tx.todo, ReplayOp(i)
  PROVE  SyncInv'
<1>1. UNCHANGED <<now, counter, log, rows, tombstones, cursors, history>>
  BY DEF ReplayOp
<1>2. /\ tx \in Transaction
      /\ tx' # NoTx
      /\ tx'.ws = tx.ws /\ tx'.user = tx.user /\ tx'.batch = tx.batch
      /\ tx'.now = tx.now /\ tx'.todo = tx.todo \ {i}
      /\ tx'.base = tx.base /\ tx'.size = tx.size /\ tx'.offset = tx.offset
      /\ tx'.rows = tx.rows /\ tx'.tombstones = tx.tombstones
      /\ tx'.entries = tx.entries
  <2>1. tx \in Transaction
    BY DEF SyncInv, TypeOK
  <2>2. tx' # NoTx
    BY ReplayOpType, Sentinels DEF SyncInv
  <2> QED BY <2>1, <2>2 DEF Transaction, ReplayOp
<1>3. /\ VersionsContiguous' /\ HistoryOrdered' /\ LogIsSuffix'
      /\ CursorsWithinHistory' /\ RowsHoldWinners' /\ TombstonesBehindRows'
  BY <1>1 DEF SyncInv, VersionsContiguous, HistoryOrdered, LogIsSuffix,
     CursorsWithinHistory, RowsHoldWinners, TombstonesBehindRows,
     HoldsWinner, TombstoneBehindRow
<1>4. NoOpIdCollision'
  BY <1>1, <1>2 DEF SyncInv, NoOpIdCollision
<1>5. PushFillsBlock'
  <2>1. Unwritten' = Unwritten
    BY <1>1, <1>2, ZenonT(60) DEF Unwritten, Logged, ReplayOp
  <2> QED BY <1>1, <1>2, <2>1 DEF PushFillsBlock, SyncInv
<1>6. PushCanContinue'
  BY <1>1, <1>2 DEF SyncInv, PushCanContinue, Logged, NotOwner,
     notificationPayloadUserId
<1>7. PushMergesByLww'
  BY <1>1, <1>2 DEF SyncInv, PushMergesByLww, HoldsWinner, TombstoneBehindRow
<1> QED BY <1>3, <1>4, <1>5, <1>6, <1>7 DEF SyncInv

\* A write takes the next version of the block and merges one operation.
LEMMA WriteOpInv ==
  ASSUME SyncInv, TypeOK', tx # NoTx, NEW i \in tx.todo, WriteOp(i)
  PROVE  SyncInv'
<1> DEFINE op == tx.batch[i]
           row == tx.rows[op.record]
           tombstone == tx.tombstones[op.record]
           version == tx.base + tx.offset + 1
           newRow == IF op.kind = "put" THEN PutRow(op, row, tombstone)
                     ELSE DeleteRow(op, row)
           newTombstone ==
             IF op.kind = "put" THEN tombstone
             ELSE DeleteTombstone(op, tombstone, version, tx.now)
           entry == [ws |-> tx.ws, version |-> version, op |-> op,
                     createdAt |-> tx.now]
<1>1. UNCHANGED <<now, counter, log, rows, tombstones, cursors, history>>
  BY DEF WriteOp
<1>2. /\ tx \in Transaction /\ op \in Operation
      /\ op.record \in Records /\ version \in Nat /\ tx.now \in Nat
      /\ log \in SUBSET Entry /\ history \in SUBSET Entry
  <2>1. tx \in Transaction /\ tx.todo \subseteq DOMAIN tx.batch
        /\ log \in SUBSET Entry /\ history \in SUBSET Entry
    BY DEF SyncInv, TypeOK
  <2>2. op \in Operation
    BY <2>1, BatchType DEF Transaction
  <2> HIDE DEF op
  <2>3. op.record \in Records
    BY <2>2 DEF Operation
  <2>4. tx.now \in Nat /\ tx.base \in Nat /\ tx.offset \in Nat
    BY <2>1 DEF Transaction
  <2> QED BY <2>1, <2>2, <2>3, <2>4
<1>3. PushFillsBlock /\ PushCanContinue /\ PushMergesByLww
  BY DEF SyncInv
<1>4. /\ tx' # NoTx
      /\ tx'.ws = tx.ws /\ tx'.user = tx.user /\ tx'.batch = tx.batch
      /\ tx'.now = tx.now /\ tx'.todo = tx.todo \ {i}
      /\ tx'.base = tx.base /\ tx'.size = tx.size
      /\ tx'.offset = tx.offset + 1
      /\ tx'.rows = [tx.rows EXCEPT ![op.record] = newRow]
      /\ tx'.tombstones = [tx.tombstones EXCEPT ![op.record] = newTombstone]
      /\ tx'.entries = tx.entries \cup {entry}
  <2>1. tx' # NoTx
    BY <1>2, WriteOpType, Sentinels
  <2>2. ~ NotOwner(tx.rows, op, tx.user)
    BY <1>3 DEF PushCanContinue
  <2> QED BY <1>2, <2>1, <2>2 DEF Transaction, WriteOp
<1>5. /\ ~ Logged(op.opId) /\ op.opId = entry.op.opId
      /\ entry.ws = tx.ws /\ entry.version = version
      /\ entry.op = op /\ entry.createdAt = tx.now
      /\ entry \in Entry
  <2>1. ~ Logged(op.opId)
    BY DEF WriteOp
  <2>2. entry \in Entry
    BY <1>2 DEF Entry, Transaction
  <2> QED BY <2>1, <2>2
<1>6. /\ newRow \in Row
      /\ \A k \in Records : TombstoneBehindRow(tx.rows, tx.tombstones, k)
  <2>1. \A k \in Records : TombstoneBehindRow(tx.rows, tx.tombstones, k)
    BY <1>3 DEF PushMergesByLww
  <2>2. /\ row \in Row \cup {NoRow}
        /\ tombstone \in Tombstone \cup {NoTombstone}
    BY <1>2 DEF Transaction
  <2>3. row = NoRow => tombstone = NoTombstone
    BY <1>2, <2>1 DEF TombstoneBehindRow
  <2> HIDE DEF row, tombstone, op
  <2>4. newRow \in Row
    BY <1>2, <2>2, <2>3, WriteMovesRowForward
  <2> QED BY <2>1, <2>4
<1> HIDE DEF op, entry, version, newRow, newTombstone
<1>7. /\ VersionsContiguous' /\ HistoryOrdered' /\ LogIsSuffix'
      /\ CursorsWithinHistory' /\ RowsHoldWinners' /\ TombstonesBehindRows'
  BY <1>1 DEF SyncInv, VersionsContiguous, HistoryOrdered, LogIsSuffix,
     CursorsWithinHistory, RowsHoldWinners, TombstonesBehindRows,
     HoldsWinner, TombstoneBehindRow
<1>8. NoOpIdCollision'
  <2>1. \A e \in log \cup tx.entries : e.op.opId # op.opId
    BY <1>3, <1>5 DEF PushCanContinue, Logged, op
  <2> QED BY <1>1, <1>4, <1>5, <2>1 DEF SyncInv, NoOpIdCollision
<1>9. PushFillsBlock'
  <2>1. Unwritten' = Unwritten \ {i} /\ i \in Unwritten
    BY <1>1, <1>4, <1>5 DEF Unwritten, Logged, op
  <2>2. IsFiniteSet(Unwritten)
    <3>1. Unwritten \subseteq DOMAIN tx.batch
      BY DEF SyncInv, TypeOK, Unwritten
    <3> QED BY <1>2, <3>1, BatchType, FS_Subset DEF Transaction
  <2>3. /\ Cardinality(Unwritten \ {i}) = Cardinality(Unwritten) - 1
        /\ Cardinality(Unwritten) \in Nat
    BY <2>1, <2>2, FS_RemoveElement, FS_CardinalityType
  <2>4. tx.base \in Nat /\ tx.offset \in Nat /\ tx.size \in Nat
    BY <1>2 DEF Transaction
  <2>5. (tx.size = tx.offset + Cardinality(Unwritten))'
    BY <1>3, <1>4, <2>1, <2>3, <2>4 DEF PushFillsBlock
  <2>6. version = tx.base + tx.offset + 1
    BY DEF version
  <2>7. \A e \in tx.entries : e.version \in (tx.base + 1)..(tx.base + tx.offset)
    BY <1>3 DEF PushFillsBlock
  <2> QED BY <1>1, <1>3, <1>4, <1>5, <2>4, <2>5, <2>6, <2>7 DEF PushFillsBlock
<1>10. PushCanContinue'
  <2>1. ASSUME NEW j \in tx.todo, j # i
        PROVE  tx.batch[j].opId # op.opId
    BY <1>3, <2>1 DEF PushCanContinue, op
  <2>2. ASSUME NEW j \in tx.todo
        PROVE  ~ NotOwner(tx'.rows, tx.batch[j], tx.user)
    <3> SUFFICES ASSUME tx.batch[j].record \in Notifications,
                        tx.batch[j].kind = "delete"
                 PROVE  /\ tx'.rows[tx.batch[j].record] # NoRow
                        /\ notificationPayloadUserId(
                              tx'.rows[tx.batch[j].record]) = tx.user
      BY DEF NotOwner
    <3>1. /\ tx.rows[tx.batch[j].record] # NoRow
          /\ notificationPayloadUserId(
                tx.rows[tx.batch[j].record]) = tx.user
      BY <1>3 DEF PushCanContinue, NotOwner
    <3>2. CASE tx.batch[j].record # op.record
      <4>1. tx'.rows[tx.batch[j].record] = tx.rows[tx.batch[j].record]
        BY <1>2, <1>4, <3>2 DEF Transaction
      <4> QED BY <3>1, <4>1
    <3>3. CASE tx.batch[j].record = op.record
      <4>1. tx'.rows[op.record] = newRow
        BY <1>2, <1>4 DEF Transaction
      <4>2. op.kind = "put" => op.author = tx.user
        BY <1>3, <3>3 DEF PushCanContinue, op
      <4>3. row \in Row /\ notificationPayloadUserId(row) = tx.user
        BY <1>2, <3>1, <3>3 DEF Transaction
      <4> HIDE DEF row, tombstone
      <4>4. newRow = IF op.kind = "put" THEN PutRow(op, row, tombstone)
                     ELSE DeleteRow(op, row)
        BY DEF newRow
      <4>5. notificationPayloadUserId(newRow) = tx.user
        BY <1>2, <4>2, <4>3, <4>4, WriteKeepsOwner
      <4> QED BY <1>6, <3>3, <4>1, <4>5, Sentinels
    <3> QED BY <3>2, <3>3
  <2>3. (\A j \in tx.todo : ~ NotOwner(tx.rows, tx.batch[j], tx.user))'
    BY <1>4, <2>2 DEF NotOwner, notificationPayloadUserId
  <2> QED BY <1>1, <1>3, <1>4, <1>5, <2>1, <2>3 DEF PushCanContinue, Logged
<1>11. PushMergesByLww'
  <2>1. tx.rows \in [Records -> Row \cup {NoRow}]
        /\ tx.tombstones \in [Records -> Tombstone \cup {NoTombstone}]
        /\ history \cup tx.entries \in SUBSET Entry
    BY <1>2 DEF Transaction
  <2>2. (history \cup tx.entries)' = (history \cup tx.entries) \cup {entry}
    BY <1>1, <1>4
  <2>3. \A k \in Records : HoldsWinner(tx.rows, tx.ws, k, history \cup tx.entries)
    BY <1>3 DEF PushMergesByLww
  <2>4. newRow = IF op.kind = "put"
                 THEN PutRow(op, tx.rows[op.record], tx.tombstones[op.record])
                 ELSE DeleteRow(op, tx.rows[op.record])
    BY DEF newRow
  <2>5. newTombstone = IF op.kind = "put" THEN tx.tombstones[op.record]
          ELSE DeleteTombstone(op, tx.tombstones[op.record], version, tx.now)
    BY DEF newTombstone
  <2>6. ASSUME NEW k \in Records
        PROVE  /\ HoldsWinner(tx'.rows, tx.ws, k,
                              (history \cup tx.entries) \cup {entry})
               /\ TombstoneBehindRow(tx'.rows, tx'.tombstones, k)
    <3>1. CASE k = op.record
      <4>1. HoldsWinner([tx.rows EXCEPT ![op.record] = newRow], tx.ws,
                op.record, (history \cup tx.entries) \cup {entry})
        BY <1>2, <1>5, <1>6, <2>1, <2>3, <2>4, WriteKeepsWinner
      <4>2. TombstoneBehindRow([tx.rows EXCEPT ![op.record] = newRow],
               [tx.tombstones EXCEPT ![op.record] = newTombstone], op.record)
        BY <1>2, <1>6, <2>1, <2>4, <2>5, WriteKeepsTombstoneBehind
      <4> QED BY <1>4, <3>1, <4>1, <4>2
    <3>2. CASE k # op.record
      <4>1. HoldsWinner([tx.rows EXCEPT ![op.record] = newRow], tx.ws,
                k, (history \cup tx.entries) \cup {entry})
        BY <1>5, <2>1, <2>3, <3>2, OtherRecordKeepsWinner
      <4>2. TombstoneBehindRow([tx.rows EXCEPT ![op.record] = newRow],
               [tx.tombstones EXCEPT ![op.record] = newTombstone], k)
        BY <1>6, <2>1, <3>2 DEF TombstoneBehindRow
      <4> QED BY <1>4, <4>1, <4>2
    <3> QED BY <3>1, <3>2
  <2> QED BY <1>4, <2>2, <2>6 DEF PushMergesByLww, HoldsWinner, TombstoneBehindRow
<1> QED BY <1>4, <1>7, <1>8, <1>9, <1>10, <1>11 DEF SyncInv

-----------------------------------------------------------------------------
\* The other steps preserve the inductive invariant.

\* The end of a transaction leaves no obligation on the working copy.
LEMMA CommitPushInv ==
  ASSUME SyncInv, TypeOK', CommitPush
  PROVE  SyncInv'
<1> DEFINE w == tx.ws
<1>1. /\ tx # NoTx /\ tx \in Transaction /\ w \in Workspaces
      /\ tx.todo = {} /\ tx.base \in Nat /\ tx.offset \in Nat
      /\ tx.entries \in SUBSET Entry /\ history \in SUBSET Entry
      /\ log \in SUBSET Entry
      /\ counter \in [Workspaces -> Nat]
      /\ rows \in [Workspaces -> [Records -> Row \cup {NoRow}]]
      /\ tombstones \in
           [Workspaces -> [Records -> Tombstone \cup {NoTombstone}]]
  <2>1. tx # NoTx /\ tx \in Transaction /\ tx.todo = {}
    BY DEF CommitPush, SyncInv, TypeOK
  <2> QED BY <2>1 DEF Transaction, SyncInv, TypeOK
<1>2. PushFillsBlock /\ PushCanContinue /\ PushMergesByLww
  BY <1>1 DEF SyncInv
<1>3. tx.size = tx.offset /\ tx.base = counter[w]
  <2>1. Unwritten = {}
    BY <1>1 DEF Unwritten
  <2> QED BY <1>1, <1>2, <2>1, FS_EmptySet DEF PushFillsBlock
<1>4. /\ counter' = [counter EXCEPT ![w] = tx.base + tx.offset]
      /\ log' = log \cup tx.entries
      /\ rows' = [rows EXCEPT ![w] = tx.rows]
      /\ tombstones' = [tombstones EXCEPT ![w] = tx.tombstones]
      /\ history' = history \cup tx.entries
      /\ tx' = NoTx /\ now' = now /\ cursors' = cursors
  BY <1>3 DEF CommitPush
<1>5. \A x \in Workspaces : counter'[x] >= counter[x] /\ counter[x] \in Nat
  BY <1>1, <1>3, <1>4
<1>6. \A e \in tx.entries :
        /\ e.ws = w /\ e.createdAt = tx.now
        /\ e.version \in (counter[w] + 1)..(counter'[w])
  BY <1>1, <1>2, <1>3, <1>4 DEF PushFillsBlock
<1>7. \A e \in history : e.version \in 1..counter[e.ws] /\ e.ws \in Workspaces
  BY <1>1 DEF SyncInv, VersionsContiguous, Entry
<1>8. VersionsContiguous'
  <2>1. \A e \in history' : e.version \in 1..counter'[e.ws]
    BY <1>1, <1>4, <1>5, <1>6, <1>7
  <2>2. ASSUME NEW x \in Workspaces, NEW v \in 1..counter'[x]
        PROVE  \E e \in history' : e.ws = x /\ e.version = v
    <3>1. CASE v \in 1..counter[x]
      BY <1>4, <3>1 DEF SyncInv, VersionsContiguous
    <3>2. CASE v \notin 1..counter[x]
      <4>1. x = w /\ v \in (tx.base + 1)..(tx.base + tx.offset)
        BY <1>1, <1>3, <1>4, <2>2, <3>2
      <4>2. \E e \in tx.entries : e.version = v
        BY <1>2, <4>1 DEF PushFillsBlock
      <4> QED BY <1>4, <1>6, <4>1, <4>2
    <3> QED BY <3>1, <3>2
  <2>3. ASSUME NEW e \in history', NEW f \in history',
               e.ws = f.ws, e.version = f.version
        PROVE  e = f
    <3>1. CASE e \in history /\ f \in history
      BY <2>3, <3>1 DEF SyncInv, VersionsContiguous
    <3>2. CASE e \in tx.entries /\ f \in tx.entries
      BY <1>2, <2>3, <3>2 DEF PushFillsBlock
    <3>3. CASE e \in history /\ f \in tx.entries
      BY <1>1, <1>5, <1>6, <1>7, <2>3, <3>3
    <3>4. CASE e \in tx.entries /\ f \in history
      BY <1>1, <1>5, <1>6, <1>7, <2>3, <3>4
    <3> QED BY <1>4, <3>1, <3>2, <3>3, <3>4
  <2> QED BY <2>1, <2>2, <2>3 DEF VersionsContiguous
<1>9. HistoryOrdered'
  <2>1. tx.now \in Nat /\ tx.now <= now /\ now \in Nat
    BY <1>1, <1>2 DEF PushCanContinue, Transaction, SyncInv, TypeOK
  <2>2. \A e \in history : e.createdAt <= tx.now
    BY <1>2 DEF PushCanContinue
  <2>3. \A e \in history' : e.createdAt <= now
    BY <1>4, <1>6, <2>1 DEF SyncInv, HistoryOrdered
  <2>4. ASSUME NEW e \in history', NEW f \in history',
               e.ws = f.ws, e.version < f.version
        PROVE  e.createdAt <= f.createdAt
    <3>1. CASE f \in tx.entries
      BY <1>4, <1>6, <2>1, <2>2, <3>1
    <3>2. CASE e \in history /\ f \in history
      BY <2>4, <3>2 DEF SyncInv, HistoryOrdered
    <3>3. CASE e \in tx.entries /\ f \in history
      BY <1>1, <1>5, <1>6, <1>7, <2>4, <3>3
    <3> QED BY <1>4, <3>1, <3>2, <3>3
  <2> QED BY <1>4, <2>3, <2>4 DEF HistoryOrdered
<1>10. LogIsSuffix'
  <2>1. log' \subseteq history'
    BY <1>4 DEF SyncInv, LogIsSuffix
  <2>2. ASSUME NEW f \in log', NEW e \in history',
               e.ws = f.ws, f.version < e.version
        PROVE  e \in log'
    <3>1. CASE e \in tx.entries
      BY <1>4, <3>1
    <3>2. CASE f \in log /\ e \in history
      BY <1>4, <2>2, <3>2 DEF SyncInv, LogIsSuffix
    <3>3. CASE f \in tx.entries /\ e \in history
      BY <1>1, <1>5, <1>6, <1>7, <2>2, <3>3
    <3> QED BY <1>4, <3>1, <3>2, <3>3
  <2> QED BY <2>1, <2>2 DEF LogIsSuffix
<1>11. CursorsWithinHistory'
  <2>1. ASSUME NEW x \in Workspaces, NEW d \in Devices,
               cursors[x][d] # NoCursor
        PROVE  cursors[x][d].version <= counter'[x]
    <3>1. cursors[x][d] \in Cursor
      BY <2>1 DEF SyncInv, TypeOK
    <3>2. cursors[x][d].version \in Nat
      BY <3>1 DEF Cursor
    <3>3. cursors[x][d].version <= counter[x]
      BY <2>1 DEF SyncInv, CursorsWithinHistory
    <3>4. counter'[x] \in Nat
      BY DEF TypeOK
    <3> QED BY <1>5, <3>2, <3>3, <3>4
  <2> QED BY <1>4, <2>1 DEF CursorsWithinHistory
<1>12. RowsHoldWinners'
  <2>1. ASSUME NEW x \in Workspaces, NEW k \in Records
        PROVE  HoldsWinner(rows'[x], x, k, history')
    <3>1. CASE x = w
      <4>1. rows'[x] = tx.rows
        BY <1>1, <1>4, <3>1
      <4>2. HoldsWinner(tx.rows, w, k, history \cup tx.entries)
        BY <1>2 DEF PushMergesByLww
      <4> QED BY <1>4, <3>1, <4>1, <4>2
    <3>2. CASE x # w
      <4>1. rows'[x] = rows[x]
        BY <1>1, <1>4, <3>2
      <4>2. HoldsWinner(rows[x], x, k, history)
        BY DEF SyncInv, RowsHoldWinners
      <4> QED BY <1>4, <1>6, <3>2, <4>1, <4>2 DEF HoldsWinner
    <3> QED BY <3>1, <3>2
  <2> QED BY <2>1 DEF RowsHoldWinners, HoldsWinner
<1>13. TombstonesBehindRows'
  <2>1. ASSUME NEW x \in Workspaces, NEW k \in Records
        PROVE  TombstoneBehindRow(rows'[x], tombstones'[x], k)
    <3>1. CASE x = w
      BY <1>1, <1>2, <1>4, <3>1 DEF PushMergesByLww
    <3>2. CASE x # w
      BY <1>1, <1>4, <3>2 DEF SyncInv, TombstonesBehindRows
    <3> QED BY <3>1, <3>2
  <2> QED BY <2>1 DEF TombstonesBehindRows, TombstoneBehindRow
<1>14. NoOpIdCollision'
  BY <1>1, <1>4 DEF SyncInv, NoOpIdCollision
<1> QED BY <1>4, <1>8, <1>9, <1>10, <1>11, <1>12, <1>13, <1>14 DEF SyncInv

\* A rollback leaves no obligation on the working copy either.
LEMMA AbortPushInv ==
  ASSUME SyncInv, TypeOK', AbortPush
  PROVE  SyncInv'
<1>1. UNCHANGED <<now, counter, log, rows, tombstones, cursors, history>>
      /\ tx' = NoTx
  BY DEF AbortPush
<1>2. NoOpIdCollision'
  BY <1>1 DEF SyncInv, NoOpIdCollision
<1> QED BY <1>1, <1>2 DEF SyncInv, VersionsContiguous, HistoryOrdered,
        LogIsSuffix, CursorsWithinHistory, RowsHoldWinners,
        TombstonesBehindRows, HoldsWinner, TombstoneBehindRow

\* A cursor update stays within the history.
LEMMA UpdateCursorInv ==
  ASSUME SyncInv, TypeOK', NEW w \in Workspaces, NEW d \in Devices,
         NEW user \in Users, NEW version \in 0..MaxVersion,
         UpdateCursor(w, d, user, version)
  PROVE  SyncInv'
<1>1. /\ UNCHANGED <<now, counter, log, rows, tombstones, tx, history>>
      /\ tx = NoTx
  BY DEF UpdateCursor
<1>2. CursorsWithinHistory'
  <2>1. ASSUME NEW x \in Workspaces, NEW c \in Devices,
               cursors'[x][c] # NoCursor
        PROVE  cursors'[x][c].version <= counter[x]
    <3>1. CASE x = w /\ c = d
      BY <3>1 DEF UpdateCursor, SyncInv, TypeOK
    <3>2. CASE ~ (x = w /\ c = d)
      <4>1. cursors'[x][c] = cursors[x][c]
        BY <3>2 DEF UpdateCursor, SyncInv, TypeOK
      <4> QED BY <2>1, <4>1 DEF SyncInv, CursorsWithinHistory
    <3> QED BY <3>1, <3>2
  <2> QED BY <1>1, <2>1 DEF CursorsWithinHistory
<1>3. NoOpIdCollision'
  BY <1>1 DEF SyncInv, NoOpIdCollision
<1> QED BY <1>1, <1>2, <1>3 DEF SyncInv, VersionsContiguous, HistoryOrdered,
        LogIsSuffix, RowsHoldWinners,
        TombstonesBehindRows, HoldsWinner, TombstoneBehindRow

\* Forgetting cursors is harmless.
LEMMA ForgetKeepsCursors ==
  ASSUME SyncInv, NEW w \in Workspaces, NEW retention \in Retentions,
         ForgetStaleCursors(w, retention), UNCHANGED counter
  PROVE  CursorsWithinHistory'
<1>1. ASSUME NEW x \in Workspaces, NEW d \in Devices,
             cursors'[x][d] # NoCursor
      PROVE  cursors'[x][d] = cursors[x][d]
  BY <1>1 DEF ForgetStaleCursors, SyncInv, TypeOK
<1> QED BY <1>1 DEF SyncInv, CursorsWithinHistory

\* GC of tombstones leaves rows and log alone.
LEMMA gcTombstonesInv ==
  ASSUME SyncInv, TypeOK', NEW w \in Workspaces, NEW retention \in Retentions,
         gcTombstones(w, retention)
  PROVE  SyncInv'
<1>1. /\ UNCHANGED <<now, counter, log, rows, tx, history>>
      /\ tx = NoTx
  BY DEF gcTombstones
<1>2. CursorsWithinHistory'
  BY ForgetKeepsCursors DEF gcTombstones
<1>3. TombstonesBehindRows'
  <2>1. ASSUME NEW x \in Workspaces, NEW k \in Records
        PROVE  \/ tombstones'[x][k] = tombstones[x][k]
               \/ tombstones'[x][k] = NoTombstone
    BY DEF gcTombstones, SyncInv, TypeOK
  <2> QED BY <1>1, <2>1
          DEF SyncInv, TombstonesBehindRows, TombstoneBehindRow
<1>4. NoOpIdCollision'
  BY <1>1 DEF SyncInv, NoOpIdCollision
<1> QED BY <1>1, <1>2, <1>3, <1>4 DEF SyncInv, VersionsContiguous,
        HistoryOrdered, LogIsSuffix, RowsHoldWinners, HoldsWinner

\* GC keeps the log a suffix: what is newer than a kept entry is not older
\* in created_at, and is behind no more cursors.
LEMMA gcChangeLogInv ==
  ASSUME SyncInv, TypeOK', NEW w \in Workspaces, NEW retention \in Retentions,
         gcChangeLog(w, retention)
  PROVE  SyncInv'
<1>1. /\ UNCHANGED <<now, counter, rows, tombstones, tx, history>>
      /\ tx = NoTx
      /\ log' = {e \in log : ~ (/\ e.ws = w
                  /\ Prunable(w, retention, e.version, e.createdAt))}
  BY DEF gcChangeLog
<1>2. CursorsWithinHistory'
  BY <1>1, ForgetKeepsCursors DEF gcChangeLog
<1>3. LogIsSuffix'
  <2>1. log' \subseteq history
    BY <1>1 DEF SyncInv, LogIsSuffix
  <2>2. ASSUME NEW f \in log', NEW e \in history,
               e.ws = f.ws, f.version < e.version
        PROVE  e \in log'
    <3>1. f \in log /\ f \in history /\ e \in log
      BY <1>1, <2>1, <2>2 DEF SyncInv, LogIsSuffix
    <3>2. f.createdAt <= e.createdAt
      BY <2>2, <3>1 DEF SyncInv, HistoryOrdered
    <3>3. /\ e.createdAt \in Nat /\ f.createdAt \in Nat
          /\ e.version \in Nat /\ f.version \in Nat
      BY <3>1 DEF SyncInv, TypeOK, Entry
    <3>4. retention \in Nat /\ now \in Nat
      BY SyncConstants DEF SyncInv, TypeOK
    <3>5. \A d \in LiveDevices(w, retention) : cursors[w][d].version \in Nat
      <4>1. \A d \in LiveDevices(w, retention) : cursors[w][d] \in Cursor
        BY DEF SyncInv, TypeOK, LiveDevices
      <4> QED BY <4>1 DEF Cursor
    <3>6. Prunable(w, retention, e.version, e.createdAt) =>
            Prunable(w, retention, f.version, f.createdAt)
      BY <2>2, <3>2, <3>3, <3>4, <3>5 DEF Prunable
    <3> QED BY <1>1, <2>2, <3>1, <3>6
  <2> QED BY <1>1, <2>1, <2>2 DEF LogIsSuffix
<1>4. NoOpIdCollision'
  BY <1>1 DEF SyncInv, NoOpIdCollision
<1> QED BY <1>1, <1>2, <1>3, <1>4 DEF SyncInv, VersionsContiguous,
        HistoryOrdered, RowsHoldWinners, TombstonesBehindRows,
        HoldsWinner, TombstoneBehindRow

\* Every step keeps the inductive invariant.
LEMMA SyncInvStep == SyncInv /\ [Next]_vars => SyncInv'
<1> SUFFICES ASSUME SyncInv, TypeOK', [Next]_vars PROVE SyncInv'
  BY TypeStep DEF SyncInv
<1>1. CASE UNCHANGED vars
  BY <1>1 DEF vars, SyncInv, VersionsContiguous, HistoryOrdered,
     LogIsSuffix, CursorsWithinHistory, RowsHoldWinners, HoldsWinner,
     TombstonesBehindRows, TombstoneBehindRow, NoOpIdCollision,
     PushFillsBlock, PushCanContinue, PushMergesByLww, Unwritten, Logged,
     NotOwner, notificationPayloadUserId
<1>2. CASE Tick
  <2>1. /\ UNCHANGED <<counter, log, rows, tombstones, cursors, tx, history>>
        /\ now' = now + 1
    BY <1>2 DEF Tick
  <2>2. HistoryOrdered'
    <3>1. \A e \in history : e.createdAt \in Nat
      BY DEF SyncInv, TypeOK, Entry
    <3> QED BY <2>1, <3>1 DEF SyncInv, TypeOK, HistoryOrdered
  <2>3. tx # NoTx => PushCanContinue'
    <3>1. tx # NoTx => tx.now \in Nat /\ now \in Nat
      BY DEF SyncInv, TypeOK, Transaction
    <3> QED BY <2>1, <3>1 DEF SyncInv, PushCanContinue, Logged, NotOwner,
            notificationPayloadUserId
  <2>4. NoOpIdCollision'
    BY <2>1 DEF SyncInv, NoOpIdCollision
  <2>5. tx # NoTx => PushFillsBlock' /\ PushMergesByLww'
    BY <2>1 DEF SyncInv, PushFillsBlock, Unwritten, Logged,
       PushMergesByLww, HoldsWinner, TombstoneBehindRow
  <2> QED BY <2>1, <2>2, <2>3, <2>4, <2>5 DEF SyncInv, VersionsContiguous,
          LogIsSuffix, CursorsWithinHistory, RowsHoldWinners, HoldsWinner,
          TombstonesBehindRows, TombstoneBehindRow
<1> QED BY <1>1, <1>2, BeginPushInv, ReplayOpInv, WriteOpInv, CommitPushInv,
        AbortPushInv, UpdateCursorInv, gcTombstonesInv, gcChangeLogInv
        DEF Next

\* SyncInv holds in every reachable state: it is inductive.
THEOREM SyncInvariant == Spec => []SyncInv
<1>1. Init => SyncInv
  <2> SUFFICES ASSUME Init PROVE SyncInv
    OBVIOUS
  <2>1. TypeOK
    BY Sentinels DEF Init, TypeOK
  <2>2. VersionsContiguous
    BY DEF Init, VersionsContiguous
  <2>3. RowsHoldWinners /\ TombstonesBehindRows
    BY DEF Init, RowsHoldWinners, HoldsWinner, TombstonesBehindRows,
       TombstoneBehindRow
  <2>4. /\ HistoryOrdered /\ LogIsSuffix /\ CursorsWithinHistory
        /\ NoOpIdCollision /\ tx = NoTx
    BY DEF Init, HistoryOrdered, LogIsSuffix, CursorsWithinHistory,
       NoOpIdCollision
  <2> QED BY <2>1, <2>2, <2>3, <2>4 DEF SyncInv
<1>2. SyncInv /\ [Next]_vars => SyncInv'
  BY SyncInvStep
<1> QED BY <1>1, <1>2, PTL DEF Spec

\* Server versions are contiguous and unique per workspace.
THEOREM ContiguousVersions == Spec => []VersionsContiguous
<1>1. SyncInv => VersionsContiguous
  BY DEF SyncInv
<1> QED BY <1>1, SyncInvariant, PTL

\* The materialized tables are the last-writer-wins merge of everything ever
\* accepted.
THEOREM RowsConverge == Spec => []RowsHoldWinners
<1>1. SyncInv => RowsHoldWinners
  BY DEF SyncInv
<1> QED BY <1>1, SyncInvariant, PTL

\* A push never runs into the unique index on op_id.
THEOREM OpIdsUnique == Spec => []NoOpIdCollision
<1>1. SyncInv => NoOpIdCollision
  BY DEF SyncInv
<1> QED BY <1>1, SyncInvariant, PTL

\* Tombstones never outrun their rows.
THEOREM TombstonesSafe == Spec => []TombstonesBehindRows
<1>1. SyncInv => TombstonesBehindRows
  BY DEF SyncInv
<1> QED BY <1>1, SyncInvariant, PTL

-----------------------------------------------------------------------------
(* What a push answers.                                                    *)

\* What the open push has answered so far: each op_id at most once, with the
\* version the log holds it under if it succeeded, and the rest is to do.
AnswersSoFar ==
  LET logged == log \cup tx.entries
  IN  /\ \A i \in tx.todo, j \in DOMAIN tx.batch :
           tx.batch[j].opId = tx.batch[i].opId => tx.batch[j] = tx.batch[i]
      /\ \A i \in tx.todo, r \in tx.results : r.opId # tx.batch[i].opId
      /\ \A i \in DOMAIN tx.batch :
           \/ \E j \in tx.todo : tx.batch[j].opId = tx.batch[i].opId
           \/ \E r \in tx.results : r.opId = tx.batch[i].opId
      /\ \A q, r \in tx.results : q.opId = r.opId => q = r
      /\ \A i \in DOMAIN tx.batch, r \in tx.results :
           r.opId = tx.batch[i].opId /\ r.status = "ok" =>
             \E e \in logged : /\ e.ws = tx.ws /\ e.version = r.version
                               /\ e.op = tx.batch[i]
      /\ \A e \in tx.entries : \E r \in tx.results :
           r.opId = e.op.opId /\ r.status = "ok" /\ r.version = e.version

AnswersInv == tx # NoTx => AnswersSoFar

\* Every op_id of a batch has a first operation.
LEMMA GroupHasFirst ==
  ASSUME NEW batch, DOMAIN batch \subseteq Nat, NEW i \in DOMAIN batch
  PROVE  \E j \in DOMAIN batch :
           batch[j].opId = batch[i].opId /\ FirstOfGroup(batch, j)
<1> DEFINE S == {j \in DOMAIN batch : batch[j].opId = batch[i].opId}
<1>1. S \in SUBSET Nat /\ S # {}
  OBVIOUS
<1>2. PICK m \in S : \A n \in S : m <= n
  <2> HIDE DEF S
  <2> QED BY <1>1, NatHasMin
<1>3. FirstOfGroup(batch, m)
  <2> SUFFICES ASSUME NEW j \in DOMAIN batch, j < m,
                      batch[j].opId = batch[m].opId
               PROVE  FALSE
    BY DEF FirstOfGroup
  <2>1. j \in S /\ j \in Nat /\ m \in Nat
    BY <1>1, <1>2
  <2> QED BY <1>2, <2>1
<1> QED BY <1>2, <1>3

\* No op_id has two first operations.
LEMMA FirstIsOne ==
  ASSUME NEW batch, DOMAIN batch \subseteq Nat,
         NEW i \in DOMAIN batch, NEW j \in DOMAIN batch,
         FirstOfGroup(batch, i), FirstOfGroup(batch, j),
         batch[i].opId = batch[j].opId
  PROVE  i = j
<1>1. ~ (i < j) /\ ~ (j < i)
  BY DEF FirstOfGroup
<1>2. i \in Nat /\ j \in Nat
  OBVIOUS
<1> QED BY <1>1, <1>2

\* The account of a batch while its operations are refused: each op_id is
\* refused once or still to do once, and what is to do stands for its group.
Account(batch, todo, results) ==
  /\ todo \subseteq DOMAIN batch
  /\ \A i \in todo, j \in DOMAIN batch :
       batch[j].opId = batch[i].opId => batch[j] = batch[i]
  /\ \A i, j \in todo : batch[i].opId = batch[j].opId => i = j
  /\ \A i \in todo, r \in results : r.opId # batch[i].opId
  /\ \A i \in DOMAIN batch :
       \/ \E j \in todo : batch[j].opId = batch[i].opId
       \/ \E r \in results : r.opId = batch[i].opId
  /\ \A q, r \in results : q.opId = r.opId => q = r
  /\ \A r \in results : r.status # "ok"

\* A batch starts with such an account.
LEMMA RefusalsAccount ==
  ASSUME NEW user \in Users \cup {NoUser}, NEW batch \in Batches
  PROVE  Account(ScopedBatch(user, batch), UniqueOps(user, batch),
                 RefusedBeforeTx(user, batch))
<1> DEFINE scoped == ScopedBatch(user, batch)
           unique == UniqueOps(user, batch)
           refused == RefusedBeforeTx(user, batch)
<1>1. /\ DOMAIN scoped = DOMAIN batch /\ DOMAIN batch \subseteq Nat
      /\ \A i \in DOMAIN batch : scoped[i].opId = batch[i].opId
  <2>1. scoped \in Seq(Operation)
    BY ScopedBatchType
  <2> QED BY <2>1, ScopedBatchType, BatchType
<1>2. /\ unique \subseteq DOMAIN batch
      /\ \A i \in unique : FirstOfGroup(batch, i) /\ ~ Conflicting(batch, i)
  BY DEF UniqueOps
<1>3. \A r \in refused : \E i \in DOMAIN batch \ unique :
        /\ FirstOfGroup(batch, i)
        /\ r = Refused(batch[i].opId, ErrorCode(user, batch, i))
  BY DEF RefusedBeforeTx
<1>4. \A i \in DOMAIN batch \ unique : FirstOfGroup(batch, i) =>
        Refused(batch[i].opId, ErrorCode(user, batch, i)) \in refused
  BY DEF RefusedBeforeTx
<1>5. \A i, j \in DOMAIN batch :
        ~ Conflicting(batch, i) /\ batch[j].opId = batch[i].opId
          => scoped[j] = scoped[i]
  BY DEF Conflicting, ScopedBatch
<1>6. \A i \in DOMAIN batch : ErrorCode(user, batch, i) # "ok"
  BY DEF ErrorCode
<1> HIDE DEF scoped, unique, refused
<1>7. \A i, j \in DOMAIN batch :
        FirstOfGroup(batch, i) /\ FirstOfGroup(batch, j)
          /\ batch[i].opId = batch[j].opId => i = j
  BY <1>1, FirstIsOne
<1>8. \A r \in refused : \E i \in DOMAIN batch \ unique :
        /\ FirstOfGroup(batch, i) /\ r.opId = batch[i].opId
        /\ r = Refused(batch[i].opId, ErrorCode(user, batch, i))
        /\ r.status # "ok"
  <2> SUFFICES ASSUME NEW r \in refused
               PROVE  \E i \in DOMAIN batch \ unique :
                        /\ FirstOfGroup(batch, i) /\ r.opId = batch[i].opId
                        /\ r = Refused(batch[i].opId, ErrorCode(user, batch, i))
                        /\ r.status # "ok"
    OBVIOUS
  <2>1. PICK i \in DOMAIN batch \ unique :
          /\ FirstOfGroup(batch, i)
          /\ r = Refused(batch[i].opId, ErrorCode(user, batch, i))
    BY <1>3
  <2>2. r.opId = batch[i].opId /\ r.status # "ok"
    BY <1>6, <2>1 DEF Refused
  <2> QED BY <2>1, <2>2
<1>9. \A i \in unique : i \in DOMAIN batch /\ scoped[i].opId = batch[i].opId
  BY <1>1, <1>2
<1>10. /\ \A i \in unique, j \in DOMAIN scoped :
            scoped[j].opId = scoped[i].opId => scoped[j] = scoped[i]
       /\ \A i, j \in unique : scoped[i].opId = scoped[j].opId => i = j
  BY <1>1, <1>2, <1>5, <1>7, <1>9
<1>11. \A i \in unique, r \in refused : r.opId # scoped[i].opId
  BY <1>2, <1>7, <1>8, <1>9
<1>12. \A i \in DOMAIN scoped :
         \/ \E j \in unique : scoped[j].opId = scoped[i].opId
         \/ \E r \in refused : r.opId = scoped[i].opId
  <2> SUFFICES ASSUME NEW i \in DOMAIN batch
               PROVE  \/ \E j \in unique : scoped[j].opId = scoped[i].opId
                      \/ \E r \in refused : r.opId = scoped[i].opId
    BY <1>1
  <2>1. PICK j \in DOMAIN batch :
          batch[j].opId = batch[i].opId /\ FirstOfGroup(batch, j)
    BY <1>1, GroupHasFirst
  <2>2. \A code : Refused(batch[j].opId, code).opId = scoped[i].opId
    BY <1>1, <2>1 DEF Refused
  <2> QED BY <1>1, <1>4, <1>9, <2>1, <2>2
<1>13. \A q, r \in refused : q.opId = r.opId => q = r
  BY <1>7, <1>8
<1> QED BY <1>1, <1>2, <1>8, <1>10, <1>11, <1>12, <1>13
        DEF Account, scoped, unique, refused

\* Refusing some of what is to do keeps the account.
LEMMA RefusalKeepsAccount ==
  ASSUME NEW batch, NEW todo, NEW results, Account(batch, todo, results),
         NEW denied \in SUBSET todo, NEW code, code # "ok", NEW refused,
         refused = {Refused(batch[i].opId, code) : i \in denied}
  PROVE  Account(batch, todo \ denied, results \cup refused)
<1>1. \A r \in refused : \E i \in denied :
        /\ r = Refused(batch[i].opId, code)
        /\ r.opId = batch[i].opId /\ r.status # "ok"
  BY DEF Refused
<1>2. \A i \in denied : \E r \in refused : r.opId = batch[i].opId
  <2>1. \A i \in denied : /\ Refused(batch[i].opId, code) \in refused
                          /\ Refused(batch[i].opId, code).opId = batch[i].opId
    BY DEF Refused
  <2> QED BY <2>1
<1> USE DEF Account
<1>3. /\ todo \ denied \subseteq DOMAIN batch
      /\ \A i \in todo \ denied, r \in results \cup refused :
           r.opId # batch[i].opId
      /\ \A q, r \in results \cup refused : q.opId = r.opId => q = r
      /\ \A r \in results \cup refused : r.status # "ok"
  BY <1>1
<1>4. \A i \in DOMAIN batch :
        \/ \E j \in todo \ denied : batch[j].opId = batch[i].opId
        \/ \E r \in results \cup refused : r.opId = batch[i].opId
  <2> SUFFICES ASSUME NEW i \in DOMAIN batch
               PROVE  \/ \E j \in todo \ denied : batch[j].opId = batch[i].opId
                      \/ \E r \in results \cup refused : r.opId = batch[i].opId
    OBVIOUS
  <2>1. CASE \E r \in results : r.opId = batch[i].opId
    BY <2>1
  <2>2. CASE \E j \in todo : batch[j].opId = batch[i].opId
    BY <1>2, <2>2
  <2> QED BY <2>1, <2>2
<1> QED BY <1>3, <1>4

LEMMA BeginPushAnswers ==
  ASSUME NEW w \in Workspaces, NEW user \in Users \cup {NoUser},
         NEW batch \in Batches, BeginPush(w, user, batch)
  PROVE  AnswersInv'
<1> DEFINE scoped == ScopedBatch(user, batch)
           unique == UniqueOps(user, batch)
           denied == {i \in unique : NotOwner(rows[w], scoped[i], user)}
           before == RefusedBeforeTx(user, batch)
           after == {Refused(scoped[i].opId, "UNAUTHORIZED") : i \in denied}
<1>1. /\ tx'.ws = w /\ tx'.batch = scoped /\ tx'.todo = unique \ denied
      /\ tx'.entries = {} /\ tx'.results = before \cup after
  BY DEF BeginPush
<1>2. Account(scoped, unique, before)
  BY RefusalsAccount
<1>3. /\ denied \in SUBSET unique
      /\ after = {Refused(scoped[i].opId, "UNAUTHORIZED") : i \in denied}
  OBVIOUS
<1> HIDE DEF scoped, unique, denied, before, after
<1>4. Account(scoped, unique \ denied, before \cup after)
  BY <1>2, <1>3, RefusalKeepsAccount
<1> QED BY <1>1, <1>4 DEF AnswersInv, AnswersSoFar, Account

\* The step answers operation i with the result, and logs the entries.
Answers(i, result, entries) ==
  /\ tx'.ws = tx.ws /\ tx'.batch = tx.batch /\ tx'.todo = tx.todo \ {i}
  /\ tx'.entries = tx.entries \cup entries
  /\ tx'.results = tx.results \cup {result}
  /\ UNCHANGED log
  /\ result.opId = tx.batch[i].opId
  /\ result.status = "ok" =>
       \E e \in log \cup entries : /\ e.ws = tx.ws
                                   /\ e.version = result.version
                                   /\ e.op = tx.batch[i]
  /\ \A e \in entries : /\ e.op = tx.batch[i]
                        /\ result.status = "ok"
                        /\ result.version = e.version

\* Answering the next operation once keeps the account.
LEMMA AnswerKeeps ==
  ASSUME PushCanContinue, AnswersSoFar, tx.todo \subseteq DOMAIN tx.batch,
         NEW i \in tx.todo, NEW result, NEW entries,
         Answers(i, result, entries)
  PROVE  AnswersSoFar'
<1> USE DEF AnswersSoFar, Answers
<1>1. \A j \in tx.todo : tx.batch[j].opId = tx.batch[i].opId => j = i
  BY DEF PushCanContinue
<1>2. /\ \A k \in tx'.todo, j \in DOMAIN tx.batch :
           tx.batch[j].opId = tx.batch[k].opId => tx.batch[j] = tx.batch[k]
      /\ \A k \in tx'.todo, r \in tx'.results : r.opId # tx.batch[k].opId
  BY <1>1
<1>3. \A k \in DOMAIN tx.batch :
        \/ \E j \in tx'.todo : tx.batch[j].opId = tx.batch[k].opId
        \/ \E r \in tx'.results : r.opId = tx.batch[k].opId
  <2> SUFFICES ASSUME NEW k \in DOMAIN tx.batch
               PROVE  \/ \E j \in tx'.todo : tx.batch[j].opId = tx.batch[k].opId
                      \/ \E r \in tx'.results : r.opId = tx.batch[k].opId
    OBVIOUS
  <2>1. \/ \E j \in tx.todo : tx.batch[j].opId = tx.batch[k].opId
        \/ \E r \in tx.results : r.opId = tx.batch[k].opId
    OBVIOUS
  <2> QED BY <2>1
<1>4. \A q, r \in tx'.results : q.opId = r.opId => q = r
  OBVIOUS
<1>5. \A k \in DOMAIN tx.batch, r \in tx'.results :
        r.opId = tx.batch[k].opId /\ r.status = "ok" =>
          \E e \in log' \cup tx'.entries :
            e.ws = tx.ws /\ e.version = r.version /\ e.op = tx.batch[k]
  <2> SUFFICES ASSUME NEW k \in DOMAIN tx.batch, NEW r \in tx'.results,
                      r.opId = tx.batch[k].opId, r.status = "ok"
               PROVE  \E e \in log' \cup tx'.entries :
                        /\ e.ws = tx.ws /\ e.version = r.version
                        /\ e.op = tx.batch[k]
    OBVIOUS
  <2>1. CASE r \in tx.results
    BY <2>1
  <2>2. CASE r = result
    <3>1. tx.batch[k] = tx.batch[i]
      BY <2>2
    <3> QED BY <2>2, <3>1
  <2> QED BY <2>1, <2>2
<1>6. \A e \in tx'.entries : \E r \in tx'.results :
        r.opId = e.op.opId /\ r.status = "ok" /\ r.version = e.version
  OBVIOUS
<1> QED BY <1>2, <1>3, <1>4, <1>5, <1>6

LEMMA AnswersStep ==
  ASSUME SyncInv, AnswersInv, [Next]_vars
  PROVE  AnswersInv'
<1>0. TypeOK
  BY DEF SyncInv
<1>1. ASSUME NEW w \in Workspaces, NEW user \in Users \cup {NoUser},
             NEW batch \in Batches, BeginPush(w, user, batch)
      PROVE  AnswersInv'
  BY <1>1, BeginPushAnswers
<1>2. ASSUME tx # NoTx, NEW i \in tx.todo, ReplayOp(i) \/ WriteOp(i)
      PROVE  AnswersInv'
  <2>1. /\ PushCanContinue /\ AnswersSoFar /\ tx \in Transaction
        /\ tx.todo \subseteq DOMAIN tx.batch
    BY <1>0, <1>2 DEF SyncInv, AnswersInv, TypeOK
  <2> DEFINE op == tx.batch[i]
  <2>2. CASE ReplayOp(i)
    <3> DEFINE found == LoggedEntry(op.opId)
               row == tx.rows[op.record]
               result == IF found.ws = tx.ws /\ found.op = op
                         THEN [opId |-> op.opId, status |-> "ok",
                               version |-> found.version,
                               applied |-> row # NoRow /\ row.rev.opId = op.opId]
                         ELSE Refused(op.opId, "CONFLICT")
    <3>1. /\ tx' = [tx EXCEPT !.todo = @ \ {i}, !.results = @ \cup {result}]
          /\ UNCHANGED log /\ Logged(op.opId)
      BY <2>2 DEF ReplayOp
    <3>2. found \in log
      BY <3>1 DEF Logged, LoggedEntry
    <3>3. /\ result.opId = op.opId
          /\ result.status = "ok" =>
               /\ found.ws = tx.ws /\ found.op = op
               /\ result.version = found.version
      BY DEF Refused
    <3> HIDE DEF result, found
    <3>4. /\ tx'.ws = tx.ws /\ tx'.batch = tx.batch /\ tx'.todo = tx.todo \ {i}
          /\ tx'.entries = tx.entries \cup {}
          /\ tx'.results = tx.results \cup {result}
      BY <2>1, <3>1 DEF Transaction
    <3>5. AnswersSoFar'
      <4>1. result.status = "ok" =>
              \E e \in log \cup {} : /\ e.ws = tx.ws
                                     /\ e.version = result.version
                                     /\ e.op = tx.batch[i]
        BY <3>2, <3>3
      <4>2. Answers(i, result, {})
        BY <3>1, <3>3, <3>4, <4>1 DEF Answers
      <4> QED BY <1>2, <2>1, <4>2, AnswerKeeps
    <3> QED BY <3>5 DEF AnswersInv
  <2>3. CASE WriteOp(i) /\ NotOwner(tx.rows, op, tx.user)
    <3> DEFINE result == Refused(op.opId, "UNAUTHORIZED")
    <3>1. /\ tx' = [tx EXCEPT !.todo = @ \ {i}, !.offset = @ + 1,
                              !.results = @ \cup {result}]
          /\ UNCHANGED log
      BY <2>3 DEF WriteOp
    <3>2. result.opId = op.opId /\ result.status # "ok"
      BY DEF Refused
    <3> HIDE DEF result
    <3>3. /\ tx'.ws = tx.ws /\ tx'.batch = tx.batch /\ tx'.todo = tx.todo \ {i}
          /\ tx'.entries = tx.entries \cup {}
          /\ tx'.results = tx.results \cup {result}
      BY <2>1, <3>1 DEF Transaction
    <3>4. AnswersSoFar'
      <4>1. Answers(i, result, {})
        BY <3>1, <3>2, <3>3 DEF Answers
      <4> QED BY <1>2, <2>1, <4>1, AnswerKeeps
    <3> QED BY <3>4 DEF AnswersInv
  <2>4. CASE WriteOp(i) /\ ~ NotOwner(tx.rows, op, tx.user)
    <3>1. PICK entry, result :
            /\ entry.ws = tx.ws /\ entry.op = op
            /\ result.opId = op.opId /\ result.status = "ok"
            /\ result.version = entry.version
            /\ tx'.ws = tx.ws /\ tx'.batch = tx.batch
            /\ tx'.todo = tx.todo \ {i}
            /\ tx'.entries = tx.entries \cup {entry}
            /\ tx'.results = tx.results \cup {result}
            /\ UNCHANGED log
      <4> DEFINE row == tx.rows[op.record]
                 tombstone == tx.tombstones[op.record]
                 version == tx.base + tx.offset + 1
                 newRow == IF op.kind = "put" THEN PutRow(op, row, tombstone)
                           ELSE DeleteRow(op, row)
                 newTombstone ==
                   IF op.kind = "put" THEN tombstone
                   ELSE DeleteTombstone(op, tombstone, version, tx.now)
                 entry == [ws |-> tx.ws, version |-> version, op |-> op,
                           createdAt |-> tx.now]
                 result == [opId |-> op.opId, status |-> "ok",
                            version |-> version, applied |-> newRow # row]
      <4>1. /\ tx' = [tx EXCEPT !.todo = @ \ {i}, !.offset = @ + 1,
                        !.rows[op.record] = newRow,
                        !.tombstones[op.record] = newTombstone,
                        !.entries = @ \cup {entry},
                        !.results = @ \cup {result}]
            /\ UNCHANGED log
        BY <2>4 DEF WriteOp
      <4>2. /\ entry.ws = tx.ws /\ entry.op = op
            /\ result.opId = op.opId /\ result.status = "ok"
            /\ result.version = entry.version
        OBVIOUS
      <4> HIDE DEF entry, result, newRow, newTombstone
      <4>3. /\ tx'.ws = tx.ws /\ tx'.batch = tx.batch
            /\ tx'.todo = tx.todo \ {i}
            /\ tx'.entries = tx.entries \cup {entry}
            /\ tx'.results = tx.results \cup {result}
        BY <2>1, <4>1 DEF Transaction
      <4> QED BY <4>1, <4>2, <4>3
    <3>2. AnswersSoFar'
      <4>1. result.status = "ok" =>
              \E e \in log \cup {entry} : /\ e.ws = tx.ws
                                          /\ e.version = result.version
                                          /\ e.op = tx.batch[i]
        BY <3>1
      <4>2. Answers(i, result, {entry})
        BY <3>1, <4>1 DEF Answers
      <4> QED BY <1>2, <2>1, <4>2, AnswerKeeps
    <3> QED BY <3>2 DEF AnswersInv
  <2> QED BY <1>2, <2>2, <2>3, <2>4
<1>3. ASSUME tx' = NoTx
      PROVE  AnswersInv'
  BY <1>3 DEF AnswersInv
<1>4. ASSUME UNCHANGED tx, tx = NoTx
      PROVE  AnswersInv'
  BY <1>4 DEF AnswersInv
<1>5. ASSUME UNCHANGED <<tx, log>>
      PROVE  AnswersInv'
  BY <1>5 DEF AnswersInv, AnswersSoFar
<1> QED
  BY <1>1, <1>2, <1>3, <1>4, <1>5
     DEF Next, CommitPush, AbortPush, UpdateCursor, gcTombstones,
         gcChangeLog, Tick, vars

\* A push answers every op_id of its batch exactly once and truthfully,
\* whatever batch it is given and whatever the log already holds.
THEOREM AnswersTruthful == Spec => []PushAnswersTruthfully
<1>1. Init => AnswersInv
  BY DEF Init, AnswersInv
<1>2. SyncInv /\ AnswersInv /\ [Next]_vars => AnswersInv'
  BY AnswersStep
<1>3. AnswersInv => PushAnswersTruthfully
  <2> SUFFICES ASSUME AnswersSoFar, tx # NoTx, tx.todo = {}
               PROVE  PushAnswersTruthfully
    BY DEF AnswersInv, PushAnswersTruthfully
  <2>1. \A i \in DOMAIN tx.batch : \E r \in tx.results :
          r.opId = tx.batch[i].opId
    BY DEF AnswersSoFar
  <2> QED BY <2>1 DEF AnswersSoFar, PushAnswersTruthfully
<1> QED BY <1>1, <1>2, <1>3, SyncInvariant, PTL DEF Spec

-----------------------------------------------------------------------------
\* What a reader may rely on.

\* requiresSnapshot is false exactly for the cursors above which the log is
\* complete.
LEMMA SnapshotIffGap ==
  SyncInv => \A w \in Workspaces : \A cursor \in 0..counter[w] :
    ~ requiresSnapshot(w, cursor)
      <=> (cursor + 1)..counter[w] \subseteq RetainedVersions(w)
<1> SUFFICES ASSUME SyncInv, NEW w \in Workspaces,
                    NEW cursor \in 0..counter[w]
             PROVE  ~ requiresSnapshot(w, cursor)
                      <=> (cursor + 1)..counter[w] \subseteq RetainedVersions(w)
  OBVIOUS
<1> DEFINE S == RetainedVersions(w)
<1>1. counter[w] \in Nat /\ cursor \in Nat
  BY DEF SyncInv, TypeOK
<1>2. S \in SUBSET Nat /\ S \subseteq 1..counter[w]
  BY <1>1 DEF RetainedVersions, SyncInv, TypeOK, Entry, LogIsSuffix,
     VersionsContiguous
<1>3. \A u \in S, v \in 1..counter[w] : u <= v => v \in S
  <2> SUFFICES ASSUME NEW u \in S, NEW v \in 1..counter[w], u < v
               PROVE  v \in S
    BY <1>1, <1>2
  <2>1. PICK f \in log : f.ws = w /\ f.version = u
    BY DEF RetainedVersions
  <2>2. PICK e \in history : e.ws = w /\ e.version = v
    BY DEF SyncInv, VersionsContiguous
  <2>3. e \in log
    BY <2>1, <2>2 DEF SyncInv, LogIsSuffix
  <2> QED BY <2>2, <2>3 DEF RetainedVersions
<1>4. CASE S = {}
  BY <1>1, <1>4 DEF requiresSnapshot, oldestRetainedVersion
<1>5. CASE S # {}
  <2> DEFINE m == CHOOSE v \in S : \A u \in S : v <= u
  <2>1. \E v \in S : \A u \in S : v <= u
    BY <1>2, <1>5, NatHasMin
  <2>2. m \in S /\ \A u \in S : m <= u
    BY <2>1
  <2>3. oldestRetainedVersion(w) = m
    BY <1>5 DEF oldestRetainedVersion
  <2> HIDE DEF m, S
  <2>4. requiresSnapshot(w, cursor) <=> cursor + 1 < m
    BY <1>1, <1>2, <2>2, <2>3 DEF requiresSnapshot
  <2>5. ASSUME cursor + 1 < m
        PROVE  ~ ((cursor + 1)..counter[w] \subseteq S)
    <3>1. cursor + 1 \in (cursor + 1)..counter[w]
      BY <1>1, <1>2, <2>2, <2>5
    <3>2. cursor + 1 \notin S
      BY <1>1, <1>2, <2>2, <2>5
    <3> QED BY <3>1, <3>2
  <2>6. ASSUME ~ (cursor + 1 < m)
        PROVE  (cursor + 1)..counter[w] \subseteq S
    BY <1>1, <1>2, <1>3, <2>2, <2>6
  <2> QED BY <2>4, <2>5, <2>6 DEF S
<1> QED BY <1>4, <1>5

\* A reader whose pull is not answered with requiresSnapshot misses nothing.
THEOREM NoGapIsSilent == Spec => []NoSilentGap
<1>1. SyncInv => NoSilentGap
  BY SnapshotIffGap DEF NoSilentGap
<1> QED BY <1>1, SyncInvariant, PTL

\* What a step leaves of the change log above a cursor it keeps.
LEMMA LogAboveCursorKept ==
  ASSUME SyncInv, SyncInv', [Next]_vars,
         NEW w \in Workspaces, NEW d \in Devices,
         cursors[w][d] # NoCursor, cursors'[w][d] # NoCursor,
         (cursors[w][d].version + 1)..counter[w] \subseteq RetainedVersions(w)
  PROVE  (cursors'[w][d].version + 1)..counter'[w]
            \subseteq RetainedVersions(w)'
<1>1. /\ cursors[w][d].version \in Nat /\ cursors'[w][d].version \in Nat
      /\ counter[w] \in Nat /\ counter'[w] \in Nat
      /\ cursors \in [Workspaces -> [Devices -> Cursor \cup {NoCursor}]]
      /\ now \in Nat
  <2>1. cursors[w][d] \in Cursor /\ cursors'[w][d] \in Cursor
    BY DEF SyncInv, TypeOK
  <2> QED BY <2>1 DEF SyncInv, TypeOK, Cursor
<1>2. ASSUME UNCHANGED <<counter, log, cursors>>
      PROVE  (cursors'[w][d].version + 1)..counter'[w]
               \subseteq RetainedVersions(w)'
  BY <1>2 DEF RetainedVersions
<1>3. ASSUME NEW x \in Workspaces, NEW retention \in Retentions,
             ForgetStaleCursors(x, retention)
      PROVE  /\ cursors'[w][d] = cursors[w][d]
             /\ x = w => d \in LiveDevices(w, retention)
  BY <1>1, <1>3 DEF ForgetStaleCursors
<1>4. CASE CommitPush
  <2>1. cursors'[w][d] = cursors[w][d] /\ log \subseteq log'
    BY <1>4 DEF CommitPush
  <2>2. ASSUME NEW v \in (counter[w] + 1)..counter'[w]
        PROVE  v \in RetainedVersions(w)'
    <3>1. PICK e \in history' : e.ws = w /\ e.version = v
      BY <1>1 DEF SyncInv, VersionsContiguous
    <3>2. e \notin history
      BY <1>1, <3>1 DEF SyncInv, VersionsContiguous
    <3>3. e \in log'
      BY <1>4, <3>2 DEF CommitPush
    <3> QED BY <3>1, <3>3 DEF RetainedVersions
  <2>3. RetainedVersions(w) \subseteq RetainedVersions(w)'
    BY <2>1 DEF RetainedVersions
  <2> QED BY <1>1, <2>1, <2>2, <2>3
<1>5. ASSUME NEW x \in Workspaces, NEW c \in Devices, NEW user \in Users,
             NEW version \in 0..MaxVersion, UpdateCursor(x, c, user, version)
      PROVE  (cursors'[w][d].version + 1)..counter'[w]
               \subseteq RetainedVersions(w)'
  <2>1. cursors'[w][d].version >= cursors[w][d].version
    BY <1>1, <1>5, SyncConstants DEF UpdateCursor
  <2>2. UNCHANGED <<counter, log>>
    BY <1>5 DEF UpdateCursor
  <2> QED BY <1>1, <2>1, <2>2 DEF RetainedVersions
<1>6. ASSUME NEW x \in Workspaces, NEW retention \in Retentions,
             gcTombstones(x, retention)
      PROVE  (cursors'[w][d].version + 1)..counter'[w]
               \subseteq RetainedVersions(w)'
  BY <1>3, <1>6 DEF gcTombstones, RetainedVersions
<1>7. ASSUME NEW x \in Workspaces, NEW retention \in Retentions,
             gcChangeLog(x, retention)
      PROVE  (cursors'[w][d].version + 1)..counter'[w]
               \subseteq RetainedVersions(w)'
  <2>1. cursors'[w][d] = cursors[w][d] /\ counter' = counter
    BY <1>3, <1>7 DEF gcChangeLog
  <2>2. ASSUME NEW e \in log, e.ws = w, e.version > cursors[w][d].version
        PROVE  e \in log'
    <3>1. e.version \in Nat
      BY DEF SyncInv, TypeOK, Entry
    <3>2. x = w => ~ Prunable(w, retention, e.version, e.createdAt)
      BY <1>1, <1>3, <1>7, <2>2, <3>1 DEF Prunable, gcChangeLog
    <3> QED BY <1>7, <2>2, <3>2 DEF gcChangeLog
  <2>3. ASSUME NEW v \in (cursors[w][d].version + 1)..counter[w]
        PROVE  v \in RetainedVersions(w)'
    <3>1. PICK e \in log : e.ws = w /\ e.version = v
      BY DEF RetainedVersions
    <3>2. e.version > cursors[w][d].version
      BY <1>1, <3>1
    <3> QED BY <2>2, <3>1, <3>2 DEF RetainedVersions
  <2> QED BY <2>1, <2>3
<1> QED BY <1>2, <1>4, <1>5, <1>6, <1>7, ZenonT(60)
        DEF Next, BeginPush, ReplayOp, WriteOp, AbortPush, Tick, vars

\* GC, pushes and cursor updates leave every registered device able to pull.
THEOREM ActiveDevicesPull == Spec => ActiveDeviceNotStranded
<1> DEFINE Kept ==
      \A w \in Workspaces, d \in Devices :
        /\ cursors[w][d] # NoCursor
        /\ cursors'[w][d] # NoCursor
        /\ ~ requiresSnapshot(w, cursors[w][d].version)
        => ~ requiresSnapshot(w, cursors[w][d].version)'
<1> DEFINE Iff ==
      \A w \in Workspaces : \A cursor \in 0..counter[w] :
        ~ requiresSnapshot(w, cursor)
          <=> (cursor + 1)..counter[w] \subseteq RetainedVersions(w)
<1>1. SyncInv => Iff
  BY SnapshotIffGap
<1>2. Iff /\ Iff' /\ SyncInv /\ SyncInv' /\ [Next]_vars => Kept
  <2> SUFFICES ASSUME Iff, Iff', SyncInv, SyncInv', [Next]_vars,
                      NEW w \in Workspaces, NEW d \in Devices,
                      cursors[w][d] # NoCursor, cursors'[w][d] # NoCursor,
                      ~ requiresSnapshot(w, cursors[w][d].version)
               PROVE  ~ requiresSnapshot(w, cursors[w][d].version)'
    OBVIOUS
  <2>1. /\ cursors[w][d].version \in 0..counter[w]
        /\ cursors'[w][d].version \in 0..counter'[w]
    <3>1. cursors[w][d] \in Cursor /\ cursors'[w][d] \in Cursor
      BY DEF SyncInv, TypeOK
    <3>2. /\ cursors[w][d].version <= counter[w]
          /\ cursors'[w][d].version <= counter'[w]
      BY DEF SyncInv, CursorsWithinHistory
    <3>3. counter[w] \in Nat /\ counter'[w] \in Nat
      BY DEF SyncInv, TypeOK
    <3> QED BY <3>1, <3>2, <3>3 DEF Cursor
  <2>2. (cursors[w][d].version + 1)..counter[w] \subseteq RetainedVersions(w)
    BY <2>1
  <2>3. (cursors'[w][d].version + 1)..counter'[w]
            \subseteq RetainedVersions(w)'
    BY <2>2, LogAboveCursorKept
  <2> QED BY <2>1, <2>3
          DEF requiresSnapshot, oldestRetainedVersion, RetainedVersions
<1> QED BY <1>1, <1>2, SyncInvariant, PTL DEF Spec, ActiveDeviceNotStranded

-----------------------------------------------------------------------------
\* Refinement of the change feed.

\* The feed's entry at a version is the operation of the history with it.
LEMMA FeedEntry ==
  SyncInv => \A w \in Workspaces, e \in history :
    e.ws = w => /\ e.version \in DOMAIN FeedOf(w)
                /\ FeedOf(w)[e.version] = e.op
<1> SUFFICES ASSUME SyncInv, NEW w \in Workspaces, NEW e \in history, e.ws = w
             PROVE  /\ e.version \in DOMAIN FeedOf(w)
                    /\ FeedOf(w)[e.version] = e.op
  OBVIOUS
<1>1. e.version \in 1..counter[w]
  BY DEF SyncInv, VersionsContiguous
<1>2. \A f \in history : f.ws = w /\ f.version = e.version => f = e
  BY DEF SyncInv, VersionsContiguous
<1>3. (CHOOSE f \in history : f.ws = w /\ f.version = e.version) = e
  BY <1>2
<1> QED BY <1>1, <1>3 DEF FeedOf

\* A step that keeps the history of a workspace keeps its feed.
LEMMA FeedKept ==
  ASSUME SyncInv, SyncInv', NEW w \in Workspaces,
         counter'[w] = counter[w], history \subseteq history'
  PROVE  FeedOf(w)' = FeedOf(w)
<1> DEFINE old(v) == (CHOOSE f \in history : f.ws = w /\ f.version = v).op
           new(v) == (CHOOSE f \in history' : f.ws = w /\ f.version = v).op
<1>1. ASSUME NEW v \in 1..counter[w]
      PROVE  new(v) = old(v)
  <2>1. PICK e \in history : e.ws = w /\ e.version = v
    BY DEF SyncInv, VersionsContiguous
  <2>2. \A f \in history : f.ws = w /\ f.version = v => f = e
    BY <2>1 DEF SyncInv, VersionsContiguous
  <2>3. \A f \in history' : f.ws = w /\ f.version = v => f = e
    BY <2>1 DEF SyncInv, VersionsContiguous
  <2> QED BY <2>1, <2>2, <2>3
<1>2. FeedOf(w) = [v \in 1..counter[w] |-> old(v)]
  BY DEF FeedOf
<1>3. FeedOf(w)' = [v \in 1..counter[w] |-> new(v)]
  BY DEF FeedOf
<1> HIDE DEF old, new
<1> QED BY <1>1, <1>2, <1>3

\* Committing a push publishes its block.
LEMMA CommitPublishes ==
  ASSUME SyncInv, SyncInv', CommitPush,
         NEW w \in Workspaces, w = tx.ws
  PROVE  /\ counter'[w] >= counter[w]
         /\ FeedOf(w)' \in [1..counter'[w] -> Operation]
         /\ \A v \in 1..counter[w] : FeedOf(w)'[v] = FeedOf(w)[v]
         /\ RetainedVersions(w)'
              = RetainedVersions(w) \cup (counter[w] + 1)..counter'[w]
<1>1. /\ tx \in Transaction /\ tx # NoTx /\ tx.todo = {}
      /\ tx.entries \in SUBSET Entry
      /\ counter \in [Workspaces -> Nat] /\ counter' \in [Workspaces -> Nat]
      /\ tx.base \in Nat /\ tx.size \in Nat /\ tx.offset \in Nat
  <2>1. tx # NoTx /\ tx \in Transaction /\ tx.todo = {}
    BY DEF CommitPush, SyncInv, TypeOK
  <2> QED BY <2>1 DEF Transaction, SyncInv, TypeOK
<1>2. PushFillsBlock /\ Unwritten = {}
  BY <1>1 DEF SyncInv, Unwritten
<1>3. tx.size = tx.offset /\ counter'[w] = counter[w] + tx.size
  BY <1>1, <1>2, FS_EmptySet DEF PushFillsBlock, CommitPush
<1>4. \A v \in 1..counter'[w] :
        \E e \in history' : /\ e.ws = w /\ e.version = v /\ e.op \in Operation
                           /\ (CHOOSE f \in history' :
                                 f.ws = w /\ f.version = v) = e
  <2> SUFFICES ASSUME NEW v \in 1..counter'[w]
               PROVE \E e \in history' :
                        /\ e.ws = w /\ e.version = v /\ e.op \in Operation
                        /\ (CHOOSE f \in history' :
                                 f.ws = w /\ f.version = v) = e
    OBVIOUS
  <2>1. PICK e \in history' : e.ws = w /\ e.version = v
    BY DEF SyncInv, VersionsContiguous
  <2>2. \A f \in history' : f.ws = w /\ f.version = v => f = e
    BY <2>1 DEF SyncInv, VersionsContiguous
  <2>3. e.op \in Operation
    BY DEF SyncInv, TypeOK, Entry
  <2> QED BY <2>1, <2>2, <2>3
<1>5. FeedOf(w)' \in [1..counter'[w] -> Operation]
  BY <1>4 DEF FeedOf
<1>6. ASSUME NEW v \in 1..counter[w]
      PROVE  FeedOf(w)'[v] = FeedOf(w)[v]
  <2>1. PICK e \in history : e.ws = w /\ e.version = v
    BY DEF SyncInv, VersionsContiguous
  <2>2. e \in history' /\ v \in 1..counter'[w]
    BY <1>1, <1>3 DEF CommitPush
  <2>3. \A f \in history' : f.ws = w /\ f.version = v => f = e
    BY <2>1, <2>2 DEF SyncInv, VersionsContiguous
  <2>4. FeedOf(w)'[v] = e.op
    BY <2>1, <2>2, <2>3, <1>4 DEF FeedOf
  <2> QED BY <2>1, <2>4, FeedEntry
<1>7. ASSUME NEW v
      PROVE  v \in RetainedVersions(w)' <=>
               v \in RetainedVersions(w) \cup (counter[w] + 1)..counter'[w]
  <2>1. v \in RetainedVersions(w)' <=>
          \/ v \in RetainedVersions(w)
          \/ \E e \in tx.entries : e.version = v
    BY <1>2 DEF RetainedVersions, CommitPush, PushFillsBlock
  <2>2. v \in (counter[w] + 1)..counter'[w] <=>
          \E e \in tx.entries : e.version = v
    BY <1>1, <1>2, <1>3 DEF PushFillsBlock
  <2> QED BY <2>1, <2>2
<1> QED BY <1>1, <1>3, <1>5, <1>6, <1>7

\* A workspace no push commits to keeps what it retains.
LEMMA OtherWorkspaceKept ==
  ASSUME SyncInv, SyncInv', CommitPush,
         NEW w \in Workspaces, w # tx.ws
  PROVE  /\ counter'[w] = counter[w]
         /\ FeedOf(w)' = FeedOf(w)
         /\ RetainedVersions(w)' = RetainedVersions(w)
<1>1. /\ counter'[w] = counter[w]
      /\ history \subseteq history'
      /\ \A e \in tx.entries : e.ws # w
  BY DEF CommitPush, SyncInv, PushFillsBlock, TypeOK
<1>2. RetainedVersions(w)' = RetainedVersions(w)
  BY <1>1 DEF RetainedVersions, CommitPush
<1> QED BY <1>1, <1>2, FeedKept

\* GC of the change log drops an oldest part of one workspace's feed.
LEMMA GcTrims ==
  ASSUME SyncInv, SyncInv', NEW w \in Workspaces, NEW retention \in Retentions,
         gcChangeLog(w, retention)
  PROVE  /\ counter' = counter /\ history' = history
         /\ RetainedVersions(w)' \subseteq RetainedVersions(w)
         /\ \A v \in RetainedVersions(w)' :
               v..counter[w] \subseteq RetainedVersions(w)'
         /\ \A x \in Workspaces \ {w} :
               RetainedVersions(x)' = RetainedVersions(x)
<1>1. /\ counter' = counter /\ history' = history
      /\ log' \subseteq log
      /\ \A e \in log : e.ws # w => e \in log'
  BY DEF gcChangeLog
<1>2. RetainedVersions(w)' \subseteq RetainedVersions(w)
  BY <1>1 DEF RetainedVersions
<1>3. \A x \in Workspaces \ {w} : RetainedVersions(x)' = RetainedVersions(x)
  BY <1>1 DEF RetainedVersions
<1>4. ASSUME NEW v \in RetainedVersions(w)', NEW u \in v..counter[w]
      PROVE  u \in RetainedVersions(w)'
  <2>1. PICK f \in log' : f.ws = w /\ f.version = v
    BY DEF RetainedVersions
  <2>2. v \in 1..counter[w] /\ counter[w] \in Nat
    BY <1>1, <2>1 DEF SyncInv, LogIsSuffix, VersionsContiguous, TypeOK
  <2>3. CASE u = v
    BY <2>3
  <2>4. CASE u # v
    <3>1. u \in 1..counter[w] /\ v < u
      BY <2>2, <2>4
    <3>2. PICK e \in history : e.ws = w /\ e.version = u
      BY <3>1 DEF SyncInv, VersionsContiguous
    <3>3. e \in log'
      BY <1>1, <2>1, <3>1, <3>2 DEF SyncInv, LogIsSuffix
    <3> QED BY <3>2, <3>3 DEF RetainedVersions
  <2> QED BY <2>3, <2>4
<1> QED BY <1>1, <1>2, <1>3, <1>4

\* The store implements the append-only change feed: every step publishes a
\* block, trims an oldest part or leaves the feed alone.
THEOREM StoreImplementsFeed == Spec => ImplementsFeed
<1> USE DEF Feed!feedVars
<1>1. Init => Feed!FeedInit
  BY DEF Init, Feed!FeedInit, RetainedVersions
<1>2. SyncInv /\ SyncInv' /\ [Next]_vars => [Feed!FeedNext]_(Feed!feedVars)
  <2> SUFFICES ASSUME SyncInv, SyncInv', [Next]_vars
               PROVE  [Feed!FeedNext]_(Feed!feedVars)
    OBVIOUS
  <2>1. CASE CommitPush
    <3> DEFINE w == tx.ws
    <3>1. w \in Workspaces
      BY <2>1 DEF CommitPush, SyncInv, TypeOK, Transaction
    <3> HIDE DEF w
    <3>2. Feed!Publish(w)
      BY <2>1, <3>1, CommitPublishes DEF Feed!Publish, w
    <3>3. \A x \in Workspaces \ {w} :
            /\ counter'[x] = counter[x]
            /\ FeedOf(x)' = FeedOf(x)
            /\ RetainedVersions(x)' = RetainedVersions(x)
      BY <2>1, OtherWorkspaceKept DEF w
    <3> QED BY <3>1, <3>2, <3>3 DEF Feed!FeedNext
  <2>2. ASSUME NEW w \in Workspaces, NEW retention \in Retentions,
               gcChangeLog(w, retention)
        PROVE  Feed!FeedNext
    <3>1. \A x \in Workspaces : FeedOf(x)' = FeedOf(x)
      BY <2>2, GcTrims, FeedKept
    <3>2. Feed!Trim(w)
      BY <2>2, <3>1, GcTrims DEF Feed!Trim
    <3>3. \A x \in Workspaces \ {w} :
            /\ counter'[x] = counter[x]
            /\ FeedOf(x)' = FeedOf(x)
            /\ RetainedVersions(x)' = RetainedVersions(x)
      BY <2>2, <3>1, GcTrims
    <3> QED BY <3>2, <3>3 DEF Feed!FeedNext
  <2>3. ASSUME UNCHANGED <<counter, log, history>>
        PROVE  UNCHANGED Feed!feedVars
    BY <2>3 DEF FeedOf, RetainedVersions
  <2> QED BY <2>1, <2>2, <2>3, ZenonT(60) DEF Next, vars, BeginPush, ReplayOp,
          WriteOp, AbortPush, UpdateCursor, gcTombstones, Tick
<1> QED BY <1>1, <1>2, SyncInvariant, PTL
        DEF Spec, ImplementsFeed, Feed!FeedSpec
=============================================================================
