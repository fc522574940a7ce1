--------------------------- MODULE SyncD1_proofs ---------------------------
(***************************************************************************)
(* Under D1 requests interleave between their reads and their batch: what  *)
(* SyncStore promises of versions, rows, tombstones and op_ids holds all   *)
(* the same, for any number of requests, workspaces, records and devices.  *)
(***************************************************************************)
EXTENDS SyncD1, SyncStore_proofs

-----------------------------------------------------------------------------
(* Counting and iterating over the positions of a batch.                   *)

\* Induction over 0..n.
LEMMA StepsInduction ==
  ASSUME NEW n \in Nat, NEW G, 0 \in G, \A i \in 1..n : i - 1 \in G => i \in G
  PROVE  0..n \subseteq G
<1> SUFFICES ASSUME (0..n) \ G # {} PROVE FALSE
  OBVIOUS
<1> DEFINE S == (0..n) \ G
<1>1. S \in SUBSET Nat /\ S # {}
  OBVIOUS
<1>2. PICK m \in S : \A i \in S : m <= i
  <2> HIDE DEF S
  <2> QED BY <1>1, NatHasMin
<1>3. m \in 1..n /\ m - 1 \notin S
  BY <1>2
<1> QED BY <1>2, <1>3

\* The values in S that the steps 1..n pass through, from a on.
IsRun(f, n, S, a, step) ==
  /\ f \in [0..n -> S]
  /\ \A i \in 0..n : f[i] = IF i = 0 THEN a ELSE step[i][f[i - 1]]

LEMMA StepsExist ==
  ASSUME NEW n \in Nat, NEW S, NEW a \in S, NEW step \in [1..n -> [S -> S]]
  PROVE  \E f : IsRun(f, n, S, a, step)
<1> DEFINE Runs(m) == {f \in [0..m -> S] :
             f = [i \in 0..m |-> IF i = 0 THEN a ELSE step[i][f[i - 1]]]}
           G == {m \in 0..n : Runs(m) # {}}
<1>1. 0 \in G
  <2> DEFINE f == [i \in 0..0 |-> a]
  <2>1. f \in [0..0 -> S]
    OBVIOUS
  <2>2. f = [i \in 0..0 |-> IF i = 0 THEN a ELSE step[i][f[i - 1]]]
    OBVIOUS
  <2>3. f \in Runs(0)
    BY <2>1, <2>2
  <2> QED BY <2>3
<1>2. ASSUME NEW m \in 1..n, m - 1 \in G
      PROVE  m \in G
  <2>1. PICK f \in Runs(m - 1) : TRUE
    BY <1>2
  <2>2. /\ f \in [0..m - 1 -> S]
        /\ f = [i \in 0..m - 1 |-> IF i = 0 THEN a ELSE step[i][f[i - 1]]]
    BY <2>1
  <2> DEFINE g == [i \in 0..m |-> IF i = m THEN step[m][f[m - 1]] ELSE f[i]]
  <2>3. m - 1 \in 0..m - 1 /\ f[m - 1] \in S
    BY <2>2
  <2>4. g \in [0..m -> S]
    BY <2>2, <2>3
  <2>5. g = [i \in 0..m |-> IF i = 0 THEN a ELSE step[i][g[i - 1]]]
    <3> SUFFICES ASSUME NEW i \in 0..m
                 PROVE  g[i] = IF i = 0 THEN a ELSE step[i][g[i - 1]]
      OBVIOUS
    <3>1. CASE i = m
      BY <2>3, <3>1
    <3>2. CASE i # m
      <4>1. i \in 0..m - 1 /\ (i # 0 => i - 1 \in 0..m /\ i - 1 # m)
        BY <3>2
      <4>2. f[i] = IF i = 0 THEN a ELSE step[i][f[i - 1]]
        BY <2>2, <4>1
      <4> QED BY <3>2, <4>1, <4>2
    <3> QED BY <3>1, <3>2
  <2>6. g \in Runs(m)
    BY <2>4, <2>5
  <2>7. m \in 0..n
    OBVIOUS
  <2> HIDE DEF Runs
  <2> QED BY <2>6, <2>7
<1>3. 0..n \subseteq G
  <2> HIDE DEF G
  <2> QED BY <1>1, <1>2, StepsInduction
<1>4. n \in G
  BY <1>3
<1>5. PICK f \in Runs(n) : TRUE
  BY <1>4
<1>6. IsRun(f, n, S, a, step)
  BY <1>5 DEF IsRun
<1> QED BY <1>6

\* Numbering the members of a finite set of positions in their order gives
\* each a number of its own, and no number is left out.
LEMMA RanksAreContiguous ==
  ASSUME NEW S \in SUBSET Nat, IsFiniteSet(S)
  PROVE  LET rank(i) == Cardinality({j \in S : j <= i})
         IN  /\ \A i \in S : rank(i) \in 1..Cardinality(S)
             /\ \A i, j \in S : rank(i) = rank(j) => i = j
             /\ \A v \in 1..Cardinality(S) : \E i \in S : rank(i) = v
<1> DEFINE upTo(i) == {j \in S : j <= i}
           f == [i \in S |-> Cardinality(upTo(i))]
           c == Cardinality(S)
<1>0. c \in Nat
  BY FS_CardinalityType
<1>1. ASSUME NEW i \in S
      PROVE  /\ IsFiniteSet(upTo(i)) /\ Cardinality(upTo(i)) \in 1..c
  <2>1. upTo(i) \in SUBSET S /\ i \in upTo(i)
    OBVIOUS
  <2> HIDE DEF upTo
  <2>2. /\ IsFiniteSet(upTo(i)) /\ Cardinality(upTo(i)) <= c
        /\ Cardinality(upTo(i)) \in Nat
    BY <2>1, FS_Subset, FS_CardinalityType
  <2>3. Cardinality(upTo(i)) # 0
    BY <2>1, <2>2, FS_EmptySet
  <2> QED BY <1>0, <2>2, <2>3
<1>2. ASSUME NEW i \in S, NEW j \in S, i < j
      PROVE  Cardinality(upTo(i)) # Cardinality(upTo(j))
  <2>0. i \in Nat /\ j \in Nat /\ \A x \in S : x \in Nat
    OBVIOUS
  <2>1. upTo(i) \in SUBSET upTo(j) /\ j \in upTo(j) /\ j \notin upTo(i)
    <3>1. \A x \in S : x <= i => x <= j
      BY <1>2, <2>0
    <3>2. j <= j /\ ~ (j <= i)
      BY <1>2, <2>0
    <3> QED BY <3>1, <3>2
  <2>2. IsFiniteSet(upTo(j))
    BY <1>1
  <2> HIDE DEF upTo
  <2> QED BY <2>1, <2>2, FS_Subset
<1>3. \A i, j \in S : Cardinality(upTo(i)) = Cardinality(upTo(j)) => i = j
  <2> SUFFICES ASSUME NEW i \in S, NEW j \in S,
                      Cardinality(upTo(i)) = Cardinality(upTo(j))
               PROVE  i = j
    OBVIOUS
  <2>1. ~ (i < j) /\ ~ (j < i)
    BY <1>2
  <2>2. i \in Nat /\ j \in Nat
    OBVIOUS
  <2> QED BY <2>1, <2>2
<1>4. f \in Injection(S, 1..c)
  <2>1. f \in [S -> 1..c]
    BY <1>1
  <2>2. \A i, j \in S : f[i] = f[j] => i = j
    BY <1>3
  <2> HIDE DEF f
  <2> QED BY <2>1, <2>2 DEF Injection, IsInjective
<1>5. IsFiniteSet(1..c) /\ Cardinality(1..c) = c
  <2>1. \A a, b \in Int : IsFiniteSet(a..b)
          /\ Cardinality(a..b) = IF a > b THEN 0 ELSE b - a + 1
    BY FS_Interval
  <2>2. Cardinality(1..c) = IF 1 > c THEN 0 ELSE c - 1 + 1
    BY <1>0, <2>1
  <2> QED BY <1>0, <2>1, <2>2
<1>6. f \in Surjection(S, 1..c)
  <2> HIDE DEF f
  <2> QED BY <1>4, <1>5, FS_Injection DEF c
<1>7. \A v \in 1..c : \E i \in S : f[i] = v
  <2> HIDE DEF f
  <2> QED BY <1>6 DEF Surjection
<1> QED BY <1>1, <1>3, <1>7

-----------------------------------------------------------------------------
(* One row and one tombstone under the statements of a batch.              *)

\* HoldsWinner and TombstoneBehindRow of a single record.
RowHolds(row, w, k, entries) ==
  LET on(e) == e.ws = w /\ e.op.record = k
  IN  IF row = NoRow THEN \A e \in entries : ~ on(e)
      ELSE /\ \E e \in entries :
                /\ on(e)
                /\ RevisionOf(e.op) = row.rev
                /\ row.deleted = (e.op.kind = "delete")
                /\ ~ row.deleted => row.data = e.op
           /\ \A e \in entries : on(e) =>
                ~ lwwExcludedWins(RevisionOf(e.op), row.rev)

GraveBehind(row, grave) ==
  grave # NoTombstone =>
    row # NoRow /\ ~ lwwExcludedWins(grave.rev, row.rev)

\* The row is there and not older than rev.
AtLeast(row, rev) == row # NoRow /\ ~ lwwExcludedWins(rev, row.rev)

LEMMA RowHoldsIsHoldsWinner ==
  ASSUME NEW table, NEW w, NEW k, NEW entries
  PROVE  HoldsWinner(table, w, k, entries) <=> RowHolds(table[k], w, k, entries)
BY DEF HoldsWinner, RowHolds

\* A revision that does not win against one that does not win against a
\* third does not win against that one either.
LEMMA LosesTransitive ==
  ASSUME NEW a \in Revision, NEW b \in Revision, NEW c \in Revision,
         ~ lwwExcludedWins(a, b), ~ lwwExcludedWins(b, c)
  PROVE  ~ lwwExcludedWins(a, c)
BY DEF lwwExcludedWins, Revision

LEMMA UpsertType ==
  ASSUME NEW req, NEW op \in Operation, NEW row \in Row \cup {NoRow}
  PROVE  /\ UpsertRow(req, op, row) \in Row
         /\ AtLeast(UpsertRow(req, op, row), RevisionOf(op))
         /\ row # NoRow => AtLeast(UpsertRow(req, op, row), row.rev)
<1> DEFINE rev == RevisionOf(op)
           data == IF op.kind = "put" THEN op
                   ELSE IF row = NoRow THEN NoData ELSE row.data
           dead == op.kind = "delete"
           put == [rev |-> rev, deleted |-> dead, data |-> data]
<1>1. rev \in Revision /\ ~ lwwExcludedWins(rev, rev)
  BY RevisionOfOp, WinsIrreflexive
<1>2. put \in Row /\ put.rev = rev /\ put # NoRow
  <2>1. data \in Operation \cup {NoData}
    BY DEF Row
  <2>2. dead \in BOOLEAN
    OBVIOUS
  <2> HIDE DEF data, rev, dead
  <2> QED BY <1>1, <2>1, <2>2, Sentinels DEF Row
<1>3. row # NoRow => row \in Row /\ row.rev \in Revision
  BY DEF Row
<1>4. UpsertRow(req, op, row)
        = IF row # NoRow /\ ~ lwwExcludedWins(rev, row.rev) THEN row ELSE put
  BY DEF UpsertRow
<1> HIDE DEF put, rev
<1>5. CASE row # NoRow /\ ~ lwwExcludedWins(rev, row.rev)
  <2>1. UpsertRow(req, op, row) = row /\ ~ lwwExcludedWins(row.rev, row.rev)
    BY <1>3, <1>4, <1>5, WinsIrreflexive
  <2> QED BY <1>3, <1>5, <2>1 DEF AtLeast, rev
<1>6. CASE row = NoRow
  <2>1. UpsertRow(req, op, row) = put
    BY <1>4, <1>6
  <2> QED BY <1>1, <1>2, <1>6, <2>1 DEF AtLeast, rev
<1>7. CASE row # NoRow /\ lwwExcludedWins(rev, row.rev)
  <2>1. UpsertRow(req, op, row) = put
    BY <1>4, <1>7
  <2>2. ~ lwwExcludedWins(row.rev, rev)
    BY <1>1, <1>3, <1>7, WinsTransitive, WinsIrreflexive
  <2> QED BY <1>1, <1>2, <2>1, <2>2 DEF AtLeast, rev
<1> QED BY <1>5, <1>6, <1>7

\* The upsert of an operation that is logged keeps the merge.
LEMMA UpsertHolds ==
  ASSUME NEW req, NEW row \in Row \cup {NoRow}, NEW w, NEW k,
         NEW entries \in SUBSET Entry, NEW entry \in Entry,
         entry.ws = w, entry.op.record = k, RowHolds(row, w, k, entries)
  PROVE  RowHolds(UpsertRow(req, entry.op, row), w, k, entries \cup {entry})
<1> DEFINE op == entry.op
           rev == RevisionOf(op)
           new == UpsertRow(req, op, row)
<1>1. op \in Operation /\ rev \in Revision
  BY RevisionOfOp DEF Entry
<1>2. /\ new \in Row /\ new # NoRow /\ new.rev \in Revision
      /\ ~ lwwExcludedWins(rev, new.rev)
      /\ row # NoRow => ~ lwwExcludedWins(row.rev, new.rev)
  <2>1. new \in Row /\ AtLeast(new, rev) /\ (row # NoRow => AtLeast(new, row.rev))
    BY <1>1, UpsertType
  <2> HIDE DEF new, rev
  <2> QED BY <2>1 DEF AtLeast, Row
<1> HIDE DEF new
<1>3. \A e \in entries \cup {entry} : e.ws = w /\ e.op.record = k =>
        ~ lwwExcludedWins(RevisionOf(e.op), new.rev)
  <2> SUFFICES ASSUME NEW e \in entries, e.ws = w, e.op.record = k
               PROVE  ~ lwwExcludedWins(RevisionOf(e.op), new.rev)
    BY <1>2
  <2>1. row # NoRow /\ ~ lwwExcludedWins(RevisionOf(e.op), row.rev)
    BY DEF RowHolds
  <2>2. RevisionOf(e.op) \in Revision /\ row.rev \in Revision
    BY <2>1, RevisionOfOp DEF Entry, Row
  <2> QED BY <1>2, <2>1, <2>2, LosesTransitive
<1>4. \E e \in entries \cup {entry} :
        /\ e.ws = w /\ e.op.record = k
        /\ RevisionOf(e.op) = new.rev
        /\ new.deleted = (e.op.kind = "delete")
        /\ ~ new.deleted => new.data = e.op
  <2>1. CASE row # NoRow /\ ~ lwwExcludedWins(rev, row.rev)
    <3>1. new = row
      BY <2>1 DEF UpsertRow, new
    <3> QED BY <2>1, <3>1 DEF RowHolds
  <2>2. CASE ~ (row # NoRow /\ ~ lwwExcludedWins(rev, row.rev))
    <3>1. /\ new.rev = rev /\ new.deleted = (op.kind = "delete")
          /\ op.kind = "put" => new.data = op
      BY <2>2 DEF UpsertRow, new
    <3>2. op.kind \in {"put", "delete"}
      BY <1>1 DEF Operation
    <3> QED BY <3>1, <3>2
  <2> QED BY <2>1, <2>2
<1>5. RowHolds(new, w, k, entries \cup {entry})
  BY <1>2, <1>3, <1>4 DEF RowHolds
<1> QED BY <1>5 DEF new

\* So does not materializing one that loses, or one on another record.
LEMMA LoserHolds ==
  ASSUME NEW row, NEW w, NEW k, NEW entries, NEW entry,
         AtLeast(row, RevisionOf(entry.op)) \/ entry.op.record # k,
         RowHolds(row, w, k, entries)
  PROVE  RowHolds(row, w, k, entries \cup {entry})
BY DEF RowHolds, AtLeast

\* Once there, a row is only replaced by a newer one.
LEMMA AtLeastKept ==
  ASSUME NEW req, NEW op \in Operation, NEW row \in Row \cup {NoRow},
         NEW rev \in Revision, AtLeast(row, rev)
  PROVE  AtLeast(UpsertRow(req, op, row), rev)
<1> DEFINE new == UpsertRow(req, op, row)
<1>1. row \in Row /\ row.rev \in Revision
  BY DEF AtLeast, Row
<1>2. new \in Row /\ AtLeast(new, row.rev)
  BY <1>1, UpsertType DEF AtLeast
<1> HIDE DEF new
<1>3. new.rev \in Revision
  BY <1>2 DEF Row
<1>4. ~ lwwExcludedWins(rev, row.rev) /\ ~ lwwExcludedWins(row.rev, new.rev)
  BY <1>2 DEF AtLeast
<1> QED BY <1>1, <1>2, <1>3, <1>4, LosesTransitive DEF AtLeast, new

\* A tombstone holds the revision of its delete or an older tombstone's.
LEMMA UpsertedTombstone ==
  ASSUME NEW op \in Operation, NEW grave \in Tombstone \cup {NoTombstone},
         NEW version \in Nat, NEW at \in Nat,
         NEW new, new = UpsertTombstone(op, grave, version, at)
  PROVE  /\ new \in Tombstone
         /\ \/ new.rev = RevisionOf(op)
            \/ grave # NoTombstone /\ new.rev = grave.rev
<1>1. UpsertTombstone(op, grave, version, at) \in Tombstone
  BY WrittenRowTypes, RevisionOfOp DEF UpsertTombstone, DeleteTombstone, Tombstone
<1> QED BY <1>1 DEF UpsertTombstone, DeleteTombstone

-----------------------------------------------------------------------------
(* The statements of a batch, one after the other.                         *)

\* The values of row k, and of its tombstone, after each statement.
IsRowRun(row, req, k) ==
  /\ row \in [0..Len(req.batch) -> Row \cup {NoRow}]
  /\ row[0] = rows[req.ws][k]
  /\ \A i \in 1..Len(req.batch) :
       row[i] = IF /\ i \in NewOps(req) \ req.skip
                   /\ req.batch[i].record = k
                THEN UpsertRow(req, req.batch[i], row[i - 1])
                ELSE row[i - 1]

IsGraveRun(grave, req, k) ==
  /\ grave \in [0..Len(req.batch) -> Tombstone \cup {NoTombstone}]
  /\ grave[0] = tombstones[req.ws][k]
  /\ \A i \in 1..Len(req.batch) :
       grave[i] = IF /\ i \in NewOps(req)
                     /\ req.batch[i].kind = "delete"
                     /\ req.batch[i].record = k
                  THEN UpsertTombstone(req.batch[i], grave[i - 1],
                         counter[req.ws] + VersionOffset(req, i), req.at)
                  ELSE grave[i - 1]

LEMMA RequestBatch ==
  ASSUME NEW req \in Request
  PROVE  /\ req.ws \in Workspaces /\ req.at \in Nat
         /\ Len(req.batch) \in Nat /\ DOMAIN req.batch = 1..Len(req.batch)
         /\ \A i \in 1..Len(req.batch) : req.batch[i] \in Operation
         /\ IsFiniteSet(NewOps(req) \cap DOMAIN req.batch)
<1>1. /\ req.batch \in Seq(Operation) /\ req.ws \in Workspaces
      /\ req.at \in Nat
  BY DEF Request
<1>2. /\ Len(req.batch) \in Nat /\ DOMAIN req.batch = 1..Len(req.batch)
      /\ \A i \in 1..Len(req.batch) : req.batch[i] \in Operation
  BY <1>1
<1>3. IsFiniteSet(NewOps(req) \cap DOMAIN req.batch)
  BY <1>1, BatchType, FS_Intersection
<1> QED BY <1>1, <1>2, <1>3

LEMMA RowAfterRuns ==
  ASSUME NEW req \in Request, NEW k \in Records,
         rows \in [Workspaces -> [Records -> Row \cup {NoRow}]]
  PROVE  \E row : /\ IsRowRun(row, req, k)
                  /\ RowAfter(req, k, Len(req.batch)) = row[Len(req.batch)]
<1> DEFINE n == Len(req.batch)
           S == Row \cup {NoRow}
           a == rows[req.ws][k]
           writes(i) == i \in NewOps(req) \ req.skip /\ req.batch[i].record = k
           step == [i \in 1..n |-> [x \in S |->
                      IF writes(i) THEN UpsertRow(req, req.batch[i], x) ELSE x]]
           Run(f) == f = [i \in 0..n |->
                       IF i = 0 THEN a
                       ELSE IF writes(i)
                            THEN UpsertRow(req, req.batch[i], f[i - 1])
                            ELSE f[i - 1]]
           row == CHOOSE f : Run(f)
<1>1. /\ n \in Nat /\ a \in S
      /\ \A i \in 1..n : req.batch[i] \in Operation
  BY RequestBatch
<1>2. \A i \in 1..n, x \in S : UpsertRow(req, req.batch[i], x) \in S
  BY <1>1, UpsertType
<1>3. /\ step \in [1..n -> [S -> S]]
      /\ \A i \in 1..n, x \in S : step[i][x] =
           IF writes(i) THEN UpsertRow(req, req.batch[i], x) ELSE x
  BY <1>2
<1>4. RowAfter(req, k, n) = row[n]
  BY DEF RowAfter
<1> HIDE DEF S, n, a, writes, step
<1>5. PICK f : IsRun(f, n, S, a, step)
  BY <1>1, <1>3, StepsExist
<1>6. Run(f)
  <2>1. /\ f \in [0..n -> S]
        /\ \A i \in 0..n : f[i] = IF i = 0 THEN a ELSE step[i][f[i - 1]]
    BY <1>5 DEF IsRun
  <2>2. \A i \in 0..n : i # 0 => i \in 1..n /\ i - 1 \in 0..n
    BY <1>1
  <2>3. \A i \in 0..n : i # 0 => f[i - 1] \in S
    BY <2>1, <2>2
  <2> QED BY <1>3, <2>1, <2>2, <2>3
<1>7. Run(row)
  <2> HIDE DEF Run
  <2> QED BY <1>6
<1> HIDE DEF row
<1>8. /\ row[0] = a
      /\ \A i \in 1..n : row[i] = IF writes(i)
                                  THEN UpsertRow(req, req.batch[i], row[i - 1])
                                  ELSE row[i - 1]
  BY <1>1, <1>7
<1>9. 0..n \subseteq {i \in 0..n : row[i] \in S}
  <2> DEFINE G == {i \in 0..n : row[i] \in S}
  <2>1. 0 \in G
    BY <1>1, <1>8
  <2>2. \A i \in 1..n : i - 1 \in G => i \in G
    BY <1>1, <1>2, <1>8
  <2> HIDE DEF G
  <2>3. 0..n \subseteq G
    BY <1>1, <2>1, <2>2, StepsInduction
  <2> QED BY <2>3 DEF G
<1>10. row \in [0..n -> S]
  BY <1>7, <1>9
<1> QED BY <1>4, <1>8, <1>10 DEF IsRowRun, S, n, a, writes

LEMMA TombstoneAfterRuns ==
  ASSUME NEW req \in Request, NEW k \in Records, counter \in [Workspaces -> Nat],
         tombstones \in [Workspaces -> [Records -> Tombstone \cup {NoTombstone}]],
         NewOps(req) \subseteq DOMAIN req.batch
  PROVE  \E grave : /\ IsGraveRun(grave, req, k)
                    /\ TombstoneAfter(req, k) = grave[Len(req.batch)]
<1> DEFINE n == Len(req.batch)
           S == Tombstone \cup {NoTombstone}
           a == tombstones[req.ws][k]
           version(i) == counter[req.ws] + VersionOffset(req, i)
           writes(i) == /\ i \in NewOps(req)
                        /\ req.batch[i].kind = "delete"
                        /\ req.batch[i].record = k
           new(i, x) == UpsertTombstone(req.batch[i], x, version(i), req.at)
           step == [i \in 1..n |-> [x \in S |-> IF writes(i) THEN new(i, x) ELSE x]]
           Run(f) == f = [i \in 0..n |->
                       IF i = 0 THEN a
                       ELSE IF writes(i) THEN new(i, f[i - 1]) ELSE f[i - 1]]
           grave == CHOOSE f : Run(f)
<1>1. /\ n \in Nat /\ a \in S /\ req.at \in Nat
      /\ \A i \in 1..n : req.batch[i] \in Operation
  BY RequestBatch
<1>2. \A i \in 1..n, x \in S : new(i, x) \in S
  <2> SUFFICES ASSUME NEW i \in 1..n, NEW x \in S PROVE new(i, x) \in S
    OBVIOUS
  <2>1. version(i) \in Nat
    <3>1. NewOps(req) \cap DOMAIN req.batch = NewOps(req)
      OBVIOUS
    <3>2. IsFiniteSet(NewOps(req))
      BY <3>1, RequestBatch
    <3>3. VersionOffset(req, i) \in Nat
      BY <3>2, FS_Subset, FS_CardinalityType DEF VersionOffset
    <3>4. counter[req.ws] \in Nat
      BY RequestBatch
    <3> QED BY <3>3, <3>4
  <2> HIDE DEF version
  <2> QED BY <1>1, <2>1, UpsertedTombstone
<1>3. /\ step \in [1..n -> [S -> S]]
      /\ \A i \in 1..n, x \in S :
           step[i][x] = IF writes(i) THEN new(i, x) ELSE x
  BY <1>2
<1>4. TombstoneAfter(req, k) = grave[n]
  BY DEF TombstoneAfter
<1> HIDE DEF S, n, a, writes, step, new
<1>5. PICK f : IsRun(f, n, S, a, step)
  BY <1>1, <1>3, StepsExist
<1>6. Run(f)
  <2>1. /\ f \in [0..n -> S]
        /\ \A i \in 0..n : f[i] = IF i = 0 THEN a ELSE step[i][f[i - 1]]
    BY <1>5 DEF IsRun
  <2>2. \A i \in 0..n : i # 0 => i \in 1..n /\ i - 1 \in 0..n
    BY <1>1
  <2>3. \A i \in 0..n : i # 0 => f[i - 1] \in S
    BY <2>1, <2>2
  <2> QED BY <1>3, <2>1, <2>2, <2>3
<1>7. Run(grave)
  <2> HIDE DEF Run
  <2> QED BY <1>6
<1> HIDE DEF grave
<1>8. /\ grave[0] = a
      /\ \A i \in 1..n :
           grave[i] = IF writes(i) THEN new(i, grave[i - 1]) ELSE grave[i - 1]
  BY <1>1, <1>7
<1>9. 0..n \subseteq {i \in 0..n : grave[i] \in S}
  <2> DEFINE G == {i \in 0..n : grave[i] \in S}
  <2>1. 0 \in G
    BY <1>1, <1>8
  <2>2. \A i \in 1..n : i - 1 \in G => i \in G
    BY <1>1, <1>2, <1>8
  <2> HIDE DEF G
  <2>3. 0..n \subseteq G
    BY <1>1, <2>1, <2>2, StepsInduction
  <2> QED BY <2>3 DEF G
<1>10. grave \in [0..n -> S]
  BY <1>7, <1>9
<1> QED BY <1>4, <1>8, <1>10 DEF IsGraveRun, S, n, a, writes, new

-----------------------------------------------------------------------------
(* What a batch writes.                                                    *)

\* What the request logs for its operation i, and for those up to n.
BatchEntry(req, i) ==
  [ws |-> req.ws, version |-> counter[req.ws] + VersionOffset(req, i),
   op |-> req.batch[i], createdAt |-> req.at]

BatchEntries(req, n) == {BatchEntry(req, i) : i \in {j \in NewOps(req) : j <= n}}

\* A put that is not materialized has lost: its row is there and not older.
SkipsLose(req) ==
  \A i \in req.skip :
    /\ i \in DOMAIN req.batch
    /\ req.batch[i].kind = "put"
    /\ AtLeast(rows[req.ws][req.batch[i].record], RevisionOf(req.batch[i]))

LEMMA BatchVersions ==
  ASSUME NEW req \in Request, NewOps(req) \subseteq DOMAIN req.batch
  PROVE  LET size == Cardinality(NewOps(req))
         IN  /\ size \in Nat
             /\ \A i \in NewOps(req) : VersionOffset(req, i) \in 1..size
             /\ \A i, j \in NewOps(req) :
                  VersionOffset(req, i) = VersionOffset(req, j) => i = j
             /\ \A v \in 1..size : \E i \in NewOps(req) :
                  VersionOffset(req, i) = v
<1>1. IsFiniteSet(NewOps(req)) /\ NewOps(req) \in SUBSET Nat
  <2>1. NewOps(req) \cap DOMAIN req.batch = NewOps(req)
    OBVIOUS
  <2>2. Len(req.batch) \in Nat /\ DOMAIN req.batch = 1..Len(req.batch)
    BY RequestBatch
  <2> QED BY <2>1, <2>2, RequestBatch
<1>2. Cardinality(NewOps(req)) \in Nat
  BY <1>1, FS_CardinalityType
<1> QED BY <1>1, <1>2, RanksAreContiguous DEF VersionOffset

LEMMA BatchEntryType ==
  ASSUME NEW req \in Request, NewOps(req) \subseteq DOMAIN req.batch,
         counter \in [Workspaces -> Nat], NEW i \in NewOps(req)
  PROVE  BatchEntry(req, i) \in Entry
<1>1. VersionOffset(req, i) \in Nat
  BY BatchVersions
<1>2. /\ req.ws \in Workspaces /\ req.at \in Nat /\ req.batch[i] \in Operation
      /\ counter[req.ws] \in Nat
  BY RequestBatch
<1> QED BY <1>1, <1>2 DEF BatchEntry, Entry

LEMMA BatchKeepsRecord ==
  ASSUME TypeOK, NEW req \in Request, NewOps(req) \subseteq DOMAIN req.batch,
         SkipsLose(req), NEW k \in Records,
         RowHolds(rows[req.ws][k], req.ws, k, history),
         GraveBehind(rows[req.ws][k], tombstones[req.ws][k]),
         NEW row, IsRowRun(row, req, k), NEW grave, IsGraveRun(grave, req, k)
  PROVE  LET n == Len(req.batch)
         IN  /\ RowHolds(row[n], req.ws, k, history \cup BatchEntries(req, n))
             /\ GraveBehind(row[n], grave[n])
             /\ rows[req.ws][k] # NoRow =>
                  AtLeast(row[n], rows[req.ws][k].rev)
<1> DEFINE n == Len(req.batch)
           w == req.ws
           old == rows[w][k]
           Good(i) == /\ RowHolds(row[i], w, k, history \cup BatchEntries(req, i))
                      /\ GraveBehind(row[i], grave[i])
                      /\ old # NoRow => AtLeast(row[i], old.rev)
           G == {i \in 0..n : Good(i)}
<1>0. /\ n \in Nat /\ w \in Workspaces /\ old \in Row \cup {NoRow}
      /\ DOMAIN req.batch = 1..n
      /\ \A i \in 1..n : req.batch[i] \in Operation
  <2>1. /\ n \in Nat /\ w \in Workspaces
        /\ DOMAIN req.batch = 1..n
        /\ \A i \in 1..n : req.batch[i] \in Operation
    BY RequestBatch
  <2>2. rows \in [Workspaces -> [Records -> Row \cup {NoRow}]]
    BY DEF TypeOK
  <2>3. old \in Row \cup {NoRow}
    BY <2>1, <2>2
  <2> QED BY <2>1, <2>3
<1>1. 0 \in G
  <2>1. BatchEntries(req, 0) = {}
    BY <1>0 DEF BatchEntries
  <2>2. history \cup BatchEntries(req, 0) = history
    BY <2>1
  <2>3. old # NoRow => AtLeast(old, old.rev)
    BY <1>0, WinsIrreflexive DEF AtLeast, Row
  <2>4. row[0] = old /\ grave[0] = tombstones[w][k]
    BY DEF IsRowRun, IsGraveRun
  <2>5. RowHolds(row[0], w, k, history \cup BatchEntries(req, 0))
    BY <2>2, <2>4
  <2> QED BY <1>0, <2>3, <2>4, <2>5
<1>2. ASSUME NEW i \in 1..n, i - 1 \in G
      PROVE  i \in G
  <2> DEFINE op == req.batch[i]
             entry == BatchEntry(req, i)
             before == history \cup BatchEntries(req, i - 1)
             after == history \cup BatchEntries(req, i)
             x == row[i - 1]
             g == grave[i - 1]
  <2>0. /\ op \in Operation /\ i \in 0..n /\ i - 1 \in 0..n
        /\ x \in Row \cup {NoRow} /\ g \in Tombstone \cup {NoTombstone}
        /\ RowHolds(x, w, k, before) /\ GraveBehind(x, g)
        /\ old # NoRow => AtLeast(x, old.rev)
    BY <1>0, <1>2 DEF IsRowRun, IsGraveRun
  <2>1. row[i] = IF i \in NewOps(req) \ req.skip /\ op.record = k
                 THEN UpsertRow(req, op, x) ELSE x
    BY <1>2 DEF IsRowRun
  <2>2. grave[i] = IF i \in NewOps(req) /\ op.kind = "delete" /\ op.record = k
                   THEN UpsertTombstone(op, g,
                          counter[w] + VersionOffset(req, i), req.at)
                   ELSE g
    BY <1>2 DEF IsGraveRun
  <2>3. i \in NewOps(req) => /\ entry \in Entry /\ entry.op = op
                             /\ entry.ws = w /\ after = before \cup {entry}
    <3> SUFFICES ASSUME i \in NewOps(req)
                 PROVE  /\ entry \in Entry /\ entry.op = op
                        /\ entry.ws = w /\ after = before \cup {entry}
      OBVIOUS
    <3>1. entry \in Entry
      BY BatchEntryType DEF TypeOK
    <3>2. entry.op = op /\ entry.ws = w
      BY DEF BatchEntry
    <3>3. {j \in NewOps(req) : j <= i} = {j \in NewOps(req) : j <= i - 1} \cup {i}
      BY <1>0
    <3>4. BatchEntries(req, i) = BatchEntries(req, i - 1) \cup {entry}
      BY <3>3 DEF BatchEntries
    <3> QED BY <3>1, <3>2, <3>4
  <2>4. i \notin NewOps(req) => after = before
    <3>1. ASSUME i \notin NewOps(req)
          PROVE  {j \in NewOps(req) : j <= i} = {j \in NewOps(req) : j <= i - 1}
      BY <1>0, <3>1
    <3> QED BY <3>1 DEF BatchEntries
  <2>5. before \in SUBSET Entry
    BY BatchEntryType DEF BatchEntries, TypeOK
  <2> HIDE DEF before, after, entry, x, g, w, old
  <2>6. CASE i \notin NewOps(req)
    <3>1. row[i] = x /\ grave[i] = g /\ after = before
      BY <2>1, <2>2, <2>4, <2>6
    <3>2. RowHolds(row[i], w, k, after)
      BY <2>0, <3>1
    <3> QED BY <2>0, <3>1, <3>2 DEF after
  <2>7. CASE i \in NewOps(req) /\ op.record # k
    <3>1. row[i] = x /\ grave[i] = g
      BY <2>1, <2>2, <2>7
    <3>2. RowHolds(x, w, k, before \cup {entry})
      BY <2>0, <2>3, <2>7, LoserHolds
    <3>3. RowHolds(row[i], w, k, after)
      BY <2>3, <2>7, <3>1, <3>2
    <3> QED BY <2>0, <3>1, <3>3 DEF after
  <2>8. CASE i \in NewOps(req) /\ op.record = k /\ i \in req.skip
    <3>1. op.kind = "put" /\ AtLeast(old, RevisionOf(op))
      BY <2>8 DEF SkipsLose, old, w
    <3>2. row[i] = x /\ grave[i] = g
      BY <2>1, <2>2, <2>8, <3>1
    <3>3. AtLeast(x, old.rev) /\ ~ lwwExcludedWins(RevisionOf(op), old.rev)
          /\ ~ lwwExcludedWins(old.rev, x.rev) /\ x # NoRow
      BY <2>0, <3>1 DEF AtLeast
    <3>4. RevisionOf(op) \in Revision /\ old.rev \in Revision /\ x.rev \in Revision
      BY <1>0, <2>0, <3>1, <3>3, RevisionOfOp DEF AtLeast, Row
    <3>5. AtLeast(x, RevisionOf(op))
      BY <3>3, <3>4, LosesTransitive DEF AtLeast
    <3>6. RowHolds(x, w, k, before \cup {entry})
      BY <2>0, <2>3, <2>8, <3>5, LoserHolds
    <3>7. RowHolds(row[i], w, k, after)
      BY <2>3, <2>8, <3>2, <3>6
    <3> QED BY <2>0, <3>2, <3>7 DEF after
  <2>9. CASE i \in NewOps(req) /\ op.record = k /\ i \notin req.skip
    <3> DEFINE new == UpsertRow(req, op, x)
    <3>1. row[i] = new
      BY <2>1, <2>9
    <3>2. RowHolds(UpsertRow(req, entry.op, x), w, k, before \cup {entry})
      BY <2>0, <2>3, <2>5, <2>9, UpsertHolds
    <3>3. RowHolds(row[i], w, k, after)
      BY <2>3, <2>9, <3>1, <3>2
    <3>4. old # NoRow => AtLeast(row[i], old.rev)
      <4>1. old # NoRow => old.rev \in Revision
        BY <1>0 DEF Row
      <4> QED BY <2>0, <3>1, <4>1, AtLeastKept
    <3>5. g # NoTombstone => AtLeast(new, g.rev)
      <4>1. g # NoTombstone => g.rev \in Revision /\ AtLeast(x, g.rev)
        BY <2>0 DEF Tombstone, GraveBehind, AtLeast
      <4> QED BY <2>0, <4>1, AtLeastKept
    <3>6. AtLeast(new, RevisionOf(op))
      BY <2>0, UpsertType
    <3>7. GraveBehind(row[i], grave[i])
      <4>1. CASE op.kind = "delete"
        <5> DEFINE version == counter[w] + VersionOffset(req, i)
        <5>1. version \in Nat /\ req.at \in Nat
          <6>1. VersionOffset(req, i) \in Nat
            BY <2>9, BatchVersions
          <6>2. counter[w] \in Nat /\ req.at \in Nat
            BY RequestBatch DEF TypeOK, w
          <6> QED BY <6>1, <6>2
        <5>2. \/ grave[i].rev = RevisionOf(op)
              \/ g # NoTombstone /\ grave[i].rev = g.rev
          <6>1. grave[i] = UpsertTombstone(op, g, version, req.at)
            BY <2>2, <2>9, <4>1
          <6> HIDE DEF version, op
          <6> QED BY <6>1 DEF UpsertTombstone, DeleteTombstone
        <5> HIDE DEF new
        <5> QED BY <3>1, <3>5, <3>6, <5>2 DEF GraveBehind, AtLeast
      <4>2. CASE op.kind # "delete"
        <5>1. grave[i] = g
          BY <2>2, <4>2
        <5> HIDE DEF new
        <5> QED BY <3>1, <3>5, <5>1 DEF GraveBehind, AtLeast
      <4> QED BY <4>1, <4>2
    <3> QED BY <2>0, <3>3, <3>4, <3>7 DEF after
  <2> QED BY <2>6, <2>7, <2>8, <2>9
<1>3. n \in G
  <2> HIDE DEF G
  <2>1. 0..n \subseteq G
    BY <1>0, <1>1, <1>2, StepsInduction
  <2> QED BY <1>0, <2>1
<1> QED BY <1>3

-----------------------------------------------------------------------------
(* The inductive invariant.                                                *)

\* What the request found in the log was committed; what it has not refused
\* is the operation it found there.
ExistingProcessed(req) ==
  /\ req.existing \subseteq history
  /\ \A i \in req.todo, e \in req.existing :
       e.op.opId = req.batch[i].opId => e.ws = req.ws /\ e.op = req.batch[i]

RequestInv(req) ==
  /\ req.pc \notin {"done", "failed"} =>
       Account(req.batch, req.todo, req.results)
  /\ ExistingProcessed(req) /\ SkipsLose(req)

RequestsInv == \A r \in Requests : Open(r) => RequestInv(reqs[r])

D1Inv ==
  /\ TypeOKD1 /\ VersionsContiguous /\ log \subseteq history
  /\ RowsHoldWinners /\ TombstonesBehindRows /\ NoOpIdCollision
  /\ RequestsInv

LEMMA OpenIsRequest ==
  ASSUME TypeOKD1, NEW r \in Requests, Open(r)
  PROVE  /\ reqs[r] \in Request
         /\ NewOps(reqs[r]) \subseteq reqs[r].todo
BY DEF TypeOKD1, Open, NewOps

\* The operations a request has not refused are operations of its batch.
LEMMA TodoOps ==
  ASSUME NEW req \in Request, RequestInv(req), req.pc \notin {"done", "failed"}
  PROVE  /\ req.todo \subseteq DOMAIN req.batch
         /\ NewOps(req) \subseteq DOMAIN req.batch
         /\ \A i \in req.todo : /\ req.batch[i] \in Operation
                               /\ req.batch[i].opId \in Nat
                               /\ req.batch[i].record \in Records
<1>1. req.todo \subseteq DOMAIN req.batch
  BY DEF RequestInv, Account
<1>2. NewOps(req) \subseteq req.todo
  BY DEF NewOps
<1>3. \A i \in req.todo : req.batch[i] \in Operation
  BY <1>1, RequestBatch
<1>4. \A op \in Operation : op.opId \in Nat /\ op.record \in Records
  BY DEF Operation
<1> QED BY <1>1, <1>2, <1>3, <1>4

\* A step of a request that only reads keeps the invariant, when what the
\* request remembers afterwards does.
LEMMA ReadStep ==
  ASSUME D1Inv, NEW r \in Requests, NEW next \in Request \cup {Ended},
         reqs' = [reqs EXCEPT ![r] = next], UNCHANGED vars,
         next # Ended => RequestInv(next)
  PROVE  D1Inv'
<1>1. TypeOKD1'
  BY DEF D1Inv, TypeOKD1, TypeOK, vars
<1>2. /\ VersionsContiguous' /\ (log \subseteq history)'
      /\ RowsHoldWinners' /\ TombstonesBehindRows' /\ NoOpIdCollision'
  BY DEF D1Inv, vars, VersionsContiguous, RowsHoldWinners, HoldsWinner,
         TombstonesBehindRows, TombstoneBehindRow, NoOpIdCollision
<1>3. RequestsInv'
  <2> SUFFICES ASSUME NEW q \in Requests, Open(q)'
               PROVE  RequestInv(reqs[q])'
    BY DEF RequestsInv
  <2>1. RequestInv(reqs'[q])
    <3>1. CASE q = r
      <4>1. reqs'[q] = next
        BY <3>1 DEF D1Inv, TypeOKD1
      <4> QED BY <4>1 DEF Open
    <3>2. CASE q # r
      <4>1. reqs'[q] = reqs[q]
        BY <3>2 DEF D1Inv, TypeOKD1
      <4> QED BY <4>1 DEF Open, D1Inv, RequestsInv
    <3> QED BY <3>1, <3>2
  <2> QED BY <2>1 DEF vars, RequestInv, ExistingProcessed, SkipsLose
<1> QED BY <1>1, <1>2, <1>3 DEF D1Inv

LEMMA BeginPushInD1Inv ==
  ASSUME D1Inv, NEW r \in Requests, NEW w \in Workspaces, NEW user \in Sessions,
         NEW batch \in Batches, BeginPushInD1(r, w, user, batch)
  PROVE  D1Inv'
<1> DEFINE scoped == ScopedBatch(user, batch)
           unique == UniqueOps(user, batch)
           refused == RefusedBeforeTx(user, batch)
           next == [pc |-> "ops", ws |-> w, user |-> user, batch |-> scoped,
                    since |-> now, todo |-> unique, existing |-> {},
                    present |-> {}, skip |-> {}, at |-> 0, applied |-> {},
                    results |-> refused, heads |-> [x \in Workspaces |-> 0]]
<1>1. reqs' = [reqs EXCEPT ![r] = next] /\ UNCHANGED vars
  BY DEF BeginPushInD1
<1>2. user \in Users \cup {NoUser}
  BY D1Constants
<1>3. scoped \in Seq(Operation) /\ unique \subseteq Nat /\ refused \subseteq Result
  <2>1. scoped \in Seq(Operation) /\ DOMAIN scoped = DOMAIN batch
    BY <1>2, ScopedBatchType
  <2>2. DOMAIN batch \subseteq Nat
    BY <2>1, BatchType
  <2>3. \A i \in DOMAIN batch :
          Refused(batch[i].opId, ErrorCode(user, batch, i)) \in Result
    <3> SUFFICES ASSUME NEW i \in DOMAIN batch
                 PROVE  Refused(batch[i].opId, ErrorCode(user, batch, i)) \in Result
      OBVIOUS
    <3>1. batch[i].opId \in Nat
      BY <1>2, ScopedBatchType DEF Operation
    <3>2. ErrorCode(user, batch, i) \in ErrorCodes
      BY DEF ErrorCode, ErrorCodes
    <3> QED BY <3>1, <3>2, RefusedType
  <2> QED BY <2>1, <2>2, <2>3, UniqueOpsDomain DEF RefusedBeforeTx
<1>4. Account(scoped, unique, refused)
  BY <1>2, RefusalsAccount
<1>5. now \in Nat
  BY DEF D1Inv, TypeOKD1, TypeOK
<1> HIDE DEF scoped, unique, refused
<1>6. next \in Request
  BY <1>2, <1>3, <1>5 DEF Request
<1>7. RequestInv(next)
  BY <1>4 DEF RequestInv, ExistingProcessed, SkipsLose
<1> HIDE DEF next
<1> QED BY <1>1, <1>6, <1>7, ReadStep

LEMMA ReadProcessedOpsInv ==
  ASSUME D1Inv, NEW r \in Requests, ReadProcessedOps(r)
  PROVE  D1Inv'
<1> DEFINE req == reqs[r]
           existing == {e \in log : \E i \in req.todo :
                                      e.op.opId = req.batch[i].opId}
           rejected == {i \in req.todo : \E e \in existing :
                          /\ e.op.opId = req.batch[i].opId
                          /\ ReusesProcessedOpId(req, e, req.batch[i])}
           refused == {Refused(req.batch[i].opId, "CONFLICT") : i \in rejected}
           next == [req EXCEPT !.pc = "owners", !.existing = existing,
                               !.todo = @ \ rejected, !.results = @ \cup refused,
                               !.heads = counter]
<1>1. /\ req \in Request /\ req.pc = "ops" /\ RequestInv(req)
      /\ log \subseteq Entry /\ log \subseteq history
      /\ counter \in [Workspaces -> Nat]
  BY OpenIsRequest DEF ReadProcessedOps, InStep, D1Inv, TypeOKD1, TypeOK, RequestsInv
<1>2. reqs' = [reqs EXCEPT ![r] = next] /\ UNCHANGED vars
  BY DEF ReadProcessedOps, D1Inv, TypeOKD1
<1>3. refused \subseteq Result
  <2>1. \A i \in req.todo : req.batch[i].opId \in Nat
    BY <1>1, TodoOps
  <2>2. "CONFLICT" \in ErrorCodes
    BY DEF ErrorCodes
  <2> QED BY <2>1, <2>2, RefusedType
<1>4. existing \subseteq log /\ rejected \in SUBSET req.todo
  OBVIOUS
<1>5. \A i \in req.todo \ rejected, e \in existing :
        e.op.opId = req.batch[i].opId => e.ws = req.ws /\ e.op = req.batch[i]
  BY DEF ReusesProcessedOpId
<1>6. Account(req.batch, req.todo \ rejected, req.results \cup refused)
  <2>1. Account(req.batch, req.todo, req.results)
    BY <1>1 DEF RequestInv
  <2>2. refused = {Refused(req.batch[i].opId, "CONFLICT") : i \in rejected}
    OBVIOUS
  <2> HIDE DEF refused, rejected, req
  <2> QED BY <1>4, <2>1, <2>2, RefusalKeepsAccount
<1> HIDE DEF refused, rejected, existing, req
<1>7. /\ next \in Request
      /\ next.batch = req.batch /\ next.ws = req.ws /\ next.skip = req.skip
      /\ next.todo = req.todo \ rejected /\ next.existing = existing
      /\ next.results = req.results \cup refused
  BY <1>1, <1>3, <1>4 DEF Request
<1> HIDE DEF next
<1>8. RequestInv(next)
  BY <1>1, <1>4, <1>5, <1>6, <1>7
     DEF RequestInv, ExistingProcessed, SkipsLose
<1> QED BY <1>2, <1>7, <1>8, ReadStep

LEMMA ReadOwnersInv ==
  ASSUME D1Inv, NEW r \in Requests, ReadOwners(r)
  PROVE  D1Inv'
<1> DEFINE req == reqs[r]
           rejected == {i \in NewOps(req) :
                          NotOwner(rows[req.ws], req.batch[i], req.user)}
           refused == {Refused(req.batch[i].opId, "UNAUTHORIZED") : i \in rejected}
           next == [req EXCEPT !.pc = "rows",
                               !.todo = @ \ rejected, !.results = @ \cup refused]
<1>1. req \in Request /\ req.pc = "owners" /\ RequestInv(req)
  BY OpenIsRequest DEF ReadOwners, InStep, D1Inv, RequestsInv
<1>2. reqs' = [reqs EXCEPT ![r] = next] /\ UNCHANGED vars
  BY DEF ReadOwners, D1Inv, TypeOKD1
<1>3. refused \subseteq Result
  <2>1. \A i \in req.todo : req.batch[i].opId \in Nat
    BY <1>1, TodoOps
  <2>2. "UNAUTHORIZED" \in ErrorCodes
    BY DEF ErrorCodes
  <2>3. rejected \subseteq req.todo
    BY DEF NewOps
  <2> QED BY <2>1, <2>2, <2>3, RefusedType
<1>4. rejected \in SUBSET req.todo
  BY DEF NewOps
<1>5. Account(req.batch, req.todo \ rejected, req.results \cup refused)
  <2>1. Account(req.batch, req.todo, req.results)
    BY <1>1 DEF RequestInv
  <2>2. refused = {Refused(req.batch[i].opId, "UNAUTHORIZED") : i \in rejected}
    OBVIOUS
  <2> HIDE DEF refused, rejected, req
  <2> QED BY <1>4, <2>1, <2>2, RefusalKeepsAccount
<1> HIDE DEF refused, rejected, req
<1>6. /\ next \in Request
      /\ next.batch = req.batch /\ next.ws = req.ws /\ next.skip = req.skip
      /\ next.todo = req.todo \ rejected /\ next.existing = req.existing
      /\ next.results = req.results \cup refused
  BY <1>1, <1>3, <1>4 DEF Request
<1> HIDE DEF next
<1>7. RequestInv(next)
  BY <1>1, <1>4, <1>5, <1>6 DEF RequestInv, ExistingProcessed, SkipsLose
<1> QED BY <1>2, <1>6, <1>7, ReadStep

LEMMA ReadRowsInv ==
  ASSUME D1Inv, NEW r \in Requests, ReadRows(r)
  PROVE  D1Inv'
<1> DEFINE req == reqs[r]
           present == {k \in {req.batch[i].record : i \in NewOps(req)} :
                         rows[req.ws][k] # NoRow}
           next == [req EXCEPT !.pc = "tombstones", !.present = present]
<1>1. req \in Request /\ req.pc = "rows" /\ RequestInv(req)
  BY OpenIsRequest DEF ReadRows, InStep, D1Inv, RequestsInv
<1>2. reqs' = [reqs EXCEPT ![r] = next] /\ UNCHANGED vars
  BY DEF ReadRows, D1Inv, TypeOKD1
<1>3. present \subseteq Records
  BY <1>1, TodoOps DEF NewOps
<1> HIDE DEF present, req
<1>4. /\ next \in Request
      /\ next.batch = req.batch /\ next.ws = req.ws /\ next.skip = req.skip
      /\ next.todo = req.todo /\ next.existing = req.existing
      /\ next.results = req.results
  BY <1>1, <1>3 DEF Request
<1> HIDE DEF next
<1>5. RequestInv(next)
  BY <1>1, <1>4 DEF RequestInv, ExistingProcessed, SkipsLose
<1> QED BY <1>2, <1>4, <1>5, ReadStep

\* A tombstone that a put loses against is behind its row: the put has lost.
LEMMA ReadTombstonesInv ==
  ASSUME D1Inv, NEW r \in Requests, ReadTombstones(r)
  PROVE  D1Inv'
<1> DEFINE req == reqs[r]
           grave(op) == tombstones[req.ws][op.record]
           buried(op) == /\ op.kind = "put"
                         /\ op.record \notin req.present
                         /\ grave(op) # NoTombstone
                         /\ ~ incomingRevisionWins(RevisionOf(op), grave(op).rev)
           skip == {i \in NewOps(req) : buried(req.batch[i])}
           next == [req EXCEPT !.pc = "batch", !.skip = skip, !.at = now]
<1>1. req \in Request /\ req.pc = "tombstones" /\ RequestInv(req)
  BY OpenIsRequest DEF ReadTombstones, InStep, D1Inv, RequestsInv
<1>2. reqs' = [reqs EXCEPT ![r] = next] /\ UNCHANGED vars
  BY DEF ReadTombstones, D1Inv, TypeOKD1
<1>3. skip \subseteq Nat
  BY <1>1 DEF NewOps, Request
<1>4. ASSUME NEW i \in skip
      PROVE  /\ i \in DOMAIN req.batch
             /\ req.batch[i].kind = "put"
             /\ AtLeast(rows[req.ws][req.batch[i].record],
                        RevisionOf(req.batch[i]))
  <2> DEFINE op == req.batch[i]
             row == rows[req.ws][op.record]
  <2>1. /\ op \in Operation /\ buried(op) /\ req.ws \in Workspaces
        /\ i \in DOMAIN req.batch
    BY <1>1, <1>4, RequestBatch, TodoOps DEF NewOps
  <2>2. /\ op.record \in Records /\ RevisionOf(op) \in Revision
        /\ grave(op) \in Tombstone /\ row \in Row \cup {NoRow}
    BY <2>1, RevisionOfOp DEF D1Inv, TypeOKD1, TypeOK, Operation
  <2>3. row # NoRow /\ ~ lwwExcludedWins(grave(op).rev, row.rev)
    BY <2>1, <2>2 DEF D1Inv, TombstonesBehindRows, TombstoneBehindRow
  <2>4. grave(op).rev \in Revision /\ row.rev \in Revision
    BY <2>2, <2>3 DEF Tombstone, Row
  <2>5. ~ lwwExcludedWins(RevisionOf(op), grave(op).rev)
    BY <2>1, <2>2, <2>4, TwoComparisonsAgree
  <2> HIDE DEF op, row
  <2>6. ~ lwwExcludedWins(RevisionOf(op), row.rev)
    BY <2>2, <2>3, <2>4, <2>5, LosesTransitive
  <2> QED BY <2>1, <2>3, <2>6 DEF AtLeast, op, row
<1>5. now \in Nat
  BY DEF D1Inv, TypeOKD1, TypeOK
<1> HIDE DEF skip, req
<1>6. /\ next \in Request
      /\ next.batch = req.batch /\ next.ws = req.ws /\ next.skip = skip
      /\ next.todo = req.todo /\ next.existing = req.existing
      /\ next.results = req.results
  BY <1>1, <1>3, <1>5 DEF Request
<1> HIDE DEF next
<1>7. RequestInv(next)
  BY <1>1, <1>4, <1>6 DEF RequestInv, ExistingProcessed, SkipsLose
<1> QED BY <1>2, <1>6, <1>7, ReadStep

LEMMA EndedInv ==
  ASSUME D1Inv, NEW r \in Requests, BatchRejected(r) \/ EndRequest(r)
  PROVE  D1Inv'
<1>1. CASE BatchRejected(r)
  <2> DEFINE req == reqs[r]
             next == [req EXCEPT !.pc = "failed"]
  <2>1. req \in Request /\ RequestInv(req)
    BY <1>1, OpenIsRequest DEF BatchRejected, InStep, D1Inv, RequestsInv
  <2>2. reqs' = [reqs EXCEPT ![r] = next] /\ UNCHANGED vars
    BY <1>1 DEF BatchRejected, D1Inv, TypeOKD1
  <2> HIDE DEF req
  <2>3. /\ next \in Request /\ next.pc = "failed"
        /\ next.batch = req.batch /\ next.ws = req.ws /\ next.skip = req.skip
        /\ next.todo = req.todo /\ next.existing = req.existing
    BY <2>1 DEF Request
  <2> HIDE DEF next
  <2>4. RequestInv(next)
    BY <2>1, <2>3 DEF RequestInv, ExistingProcessed, SkipsLose
  <2> QED BY <2>2, <2>3, <2>4, ReadStep
<1>2. CASE EndRequest(r)
  <2>1. reqs' = [reqs EXCEPT ![r] = Ended] /\ UNCHANGED vars
    BY <1>2 DEF EndRequest
  <2> QED BY <2>1, ReadStep
<1> QED BY <1>1, <1>2

LEMMA ResolveOpsInv ==
  ASSUME D1Inv, NEW r \in Requests, ResolveOps(r)
  PROVE  D1Inv'
<1> DEFINE req == reqs[r]
           answers == {Answer(req, i) : i \in req.todo}
           done == [req EXCEPT !.pc = "done", !.results = @ \cup answers]
           failed == [req EXCEPT !.pc = "failed"]
           resolved == \A i \in NewOps(req) : Logged(req.batch[i].opId)
           next == IF resolved THEN done ELSE failed
<1>1. /\ req \in Request /\ req.pc = "resolve" /\ RequestInv(req)
      /\ log \subseteq Entry
  BY OpenIsRequest
     DEF ResolveOps, InStep, D1Inv, TypeOKD1, TypeOK, RequestsInv
<1>2. reqs' = [reqs EXCEPT ![r] = next] /\ UNCHANGED vars
  BY DEF ResolveOps, D1Inv, TypeOKD1
<1>3. resolved => answers \subseteq Result
  <2> SUFFICES ASSUME resolved, NEW i \in req.todo
               PROVE  Answer(req, i) \in Result
    OBVIOUS
  <2> DEFINE op == req.batch[i]
             read == {e \in req.existing : e.op.opId = op.opId}
             entry == IF read # {} THEN CHOOSE e \in read : TRUE
                      ELSE LoggedEntry(op.opId)
             applied == IF read # {}
                        THEN rows[req.ws][op.record] # NoRow
                             /\ rows[req.ws][op.record].rev.opId = op.opId
                        ELSE i \in req.applied
  <2>1. op.opId \in Nat
    BY <1>1, TodoOps
  <2>2. entry \in Entry
    <3>1. CASE read # {}
      BY <1>1, <3>1 DEF Request
    <3>2. CASE read = {}
      <4>1. Logged(op.opId)
        BY <3>2 DEF NewOps
      <4>2. LoggedEntry(op.opId) \in log
        BY <4>1 DEF Logged, LoggedEntry
      <4> QED BY <1>1, <3>2, <4>2
    <3> QED BY <3>1, <3>2
  <2>3. applied \in BOOLEAN
    <3>1. CASE read # {}
      <4>1. applied = (/\ rows[req.ws][op.record] # NoRow
                       /\ rows[req.ws][op.record].rev.opId = op.opId)
        BY <3>1
      <4> HIDE DEF applied
      <4> QED BY <4>1
    <3>2. CASE read = {}
      <4>1. applied = (i \in req.applied)
        BY <3>2
      <4> HIDE DEF applied
      <4> QED BY <4>1
    <3> QED BY <3>1, <3>2
  <2>4. Answer(req, i) = [opId |-> op.opId, status |-> "ok",
                          version |-> entry.version, applied |-> applied]
    BY DEF Answer
  <2> HIDE DEF entry, applied, op
  <2> QED BY <2>1, <2>2, <2>3, <2>4 DEF Entry, Result
<1> HIDE DEF req, answers, resolved
<1>4. /\ next \in Request /\ next.pc \in {"done", "failed"}
      /\ next.batch = req.batch /\ next.ws = req.ws /\ next.skip = req.skip
      /\ next.todo = req.todo /\ next.existing = req.existing
  BY <1>1, <1>3 DEF Request
<1> HIDE DEF next
<1>5. RequestInv(next)
  BY <1>1, <1>4 DEF RequestInv, ExistingProcessed, SkipsLose
<1> QED BY <1>2, <1>4, <1>5, ReadStep

-----------------------------------------------------------------------------
(* The batch keeps the invariant.                                          *)

\* What a batch does to the log: it adds one entry for each new operation,
\* with the next versions of its workspace.
LEMMA BatchLogs ==
  ASSUME D1Inv, NEW r \in Requests, RunBatch(r), NEW req, req = reqs[r],
         NEW w, w = req.ws, NEW entries, entries = BatchEntries(req, Len(req.batch))
  PROVE  /\ req \in Request /\ req.pc = "batch" /\ RequestInv(req)
         /\ NewOps(req) \subseteq DOMAIN req.batch /\ w \in Workspaces
         /\ log' = log \cup entries /\ history' = history \cup entries
         /\ \A e \in entries : \E i \in NewOps(req) : e = BatchEntry(req, i)
         /\ \A i \in NewOps(req) : BatchEntry(req, i) \in entries
         /\ entries \subseteq Entry
         /\ counter' \in [Workspaces -> Nat]
         /\ counter'[w] >= counter[w]
         /\ \A x \in Workspaces : x # w => counter'[x] = counter[x]
         /\ \A e \in entries : /\ e.ws = w /\ e.createdAt = req.at
                               /\ e.version \in (counter[w] + 1)..counter'[w]
         /\ \A e, f \in entries : e.version = f.version => e = f
         /\ \A v \in (counter[w] + 1)..counter'[w] :
              \E e \in entries : e.version = v
<1> DEFINE size == Cardinality(NewOps(req))
<1>1. /\ req \in Request /\ req.pc = "batch" /\ RequestInv(req)
      /\ counter \in [Workspaces -> Nat]
  BY OpenIsRequest
     DEF RunBatch, InStep, D1Inv, TypeOKD1, TypeOK, RequestsInv
<1>2. NewOps(req) \subseteq DOMAIN req.batch /\ w \in Workspaces
  BY <1>1, TodoOps, RequestBatch
<1>3. entries = {BatchEntry(req, i) : i \in NewOps(req)}
  <2>1. {j \in NewOps(req) : j <= Len(req.batch)} = NewOps(req)
    BY <1>1, <1>2, RequestBatch
  <2> QED BY <2>1 DEF BatchEntries
<1>4. entries \in SUBSET Entry
  BY <1>1, <1>2, <1>3, BatchEntryType
<1>5. /\ size \in Nat
      /\ \A i \in NewOps(req) : VersionOffset(req, i) \in 1..size
      /\ \A i, j \in NewOps(req) :
           VersionOffset(req, i) = VersionOffset(req, j) => i = j
      /\ \A v \in 1..size : \E i \in NewOps(req) : VersionOffset(req, i) = v
  BY <1>1, <1>2, BatchVersions
<1>6. /\ counter' = [counter EXCEPT ![w] = @ + size]
      /\ log' = log \cup entries /\ history' = history \cup entries
  BY <1>3 DEF RunBatch, BatchEntry
<1> HIDE DEF size
<1>7. /\ counter' \in [Workspaces -> Nat] /\ counter'[w] = counter[w] + size
      /\ counter[w] \in Nat
      /\ \A x \in Workspaces : x # w => counter'[x] = counter[x]
  BY <1>1, <1>2, <1>5, <1>6
<1>8. \A i \in NewOps(req) :
        /\ BatchEntry(req, i).ws = w /\ BatchEntry(req, i).createdAt = req.at
        /\ BatchEntry(req, i).version = counter[w] + VersionOffset(req, i)
  BY DEF BatchEntry
<1>9. \A e \in entries : /\ e.ws = w /\ e.createdAt = req.at
                         /\ e.version \in (counter[w] + 1)..counter'[w]
  BY <1>3, <1>5, <1>7, <1>8
<1>10. \A e, f \in entries : e.version = f.version => e = f
  <2> SUFFICES ASSUME NEW i \in NewOps(req), NEW j \in NewOps(req),
                      BatchEntry(req, i).version = BatchEntry(req, j).version
               PROVE  i = j
    BY <1>3
  <2>1. /\ VersionOffset(req, i) \in Int /\ VersionOffset(req, j) \in Int
        /\ counter[w] + VersionOffset(req, i) = counter[w] + VersionOffset(req, j)
    BY <1>5, <1>8
  <2>2. VersionOffset(req, i) = VersionOffset(req, j)
    BY <1>7, <2>1
  <2> QED BY <1>5, <2>2
<1>11. \A v \in (counter[w] + 1)..counter'[w] : \E e \in entries : e.version = v
  <2> SUFFICES ASSUME NEW v \in (counter[w] + 1)..counter'[w]
               PROVE  \E e \in entries : e.version = v
    OBVIOUS
  <2>1. v - counter[w] \in 1..size
    BY <1>5, <1>7
  <2>2. PICK i \in NewOps(req) : VersionOffset(req, i) = v - counter[w]
    BY <1>5, <2>1
  <2>3. BatchEntry(req, i).version = v
    BY <1>7, <1>8, <2>2
  <2> QED BY <1>3, <2>3
<1>12. /\ \A e \in entries : \E i \in NewOps(req) : e = BatchEntry(req, i)
       /\ \A i \in NewOps(req) : BatchEntry(req, i) \in entries
  BY <1>3
<1> QED BY <1>1, <1>2, <1>4, <1>6, <1>7, <1>5, <1>9, <1>10, <1>11, <1>12

\* What a batch does to the tables: every row is the merge of the history
\* with the batch, and none goes back.
LEMMA BatchMerges ==
  ASSUME D1Inv, NEW r \in Requests, RunBatch(r), NEW req, req = reqs[r],
         NEW w, w = req.ws, NEW k \in Records
  PROVE  /\ rows'[w][k] \in Row \cup {NoRow}
         /\ tombstones'[w][k] \in Tombstone \cup {NoTombstone}
         /\ RowHolds(rows'[w][k], w, k, history')
         /\ GraveBehind(rows'[w][k], tombstones'[w][k])
         /\ rows[w][k] # NoRow => AtLeast(rows'[w][k], rows[w][k].rev)
<1> DEFINE n == Len(req.batch)
<1>1. /\ req \in Request /\ RequestInv(req) /\ w \in Workspaces
      /\ NewOps(req) \subseteq DOMAIN req.batch
      /\ history' = history \cup BatchEntries(req, n)
  BY BatchLogs
<1>2. TypeOK /\ SkipsLose(req) /\ n \in Nat
  BY <1>1, RequestBatch DEF D1Inv, TypeOKD1, RequestInv
<1>3. /\ RowHolds(rows[w][k], w, k, history)
      /\ GraveBehind(rows[w][k], tombstones[w][k])
  <2>1. HoldsWinner(rows[w], w, k, history)
    BY <1>1 DEF D1Inv, RowsHoldWinners
  <2>2. TombstoneBehindRow(rows[w], tombstones[w], k)
    BY <1>1 DEF D1Inv, TombstonesBehindRows
  <2> QED BY <2>1, <2>2, RowHoldsIsHoldsWinner DEF GraveBehind, TombstoneBehindRow
<1>4. PICK row : IsRowRun(row, req, k) /\ RowAfter(req, k, n) = row[n]
  BY <1>1, <1>2, RowAfterRuns DEF TypeOK
<1>5. PICK grave : IsGraveRun(grave, req, k) /\ TombstoneAfter(req, k) = grave[n]
  BY <1>1, <1>2, TombstoneAfterRuns DEF TypeOK
<1>6. /\ RowHolds(row[n], w, k, history \cup BatchEntries(req, n))
      /\ GraveBehind(row[n], grave[n])
      /\ rows[w][k] # NoRow => AtLeast(row[n], rows[w][k].rev)
  BY <1>1, <1>2, <1>3, <1>4, <1>5, BatchKeepsRecord
<1>7. row[n] \in Row \cup {NoRow} /\ grave[n] \in Tombstone \cup {NoTombstone}
  BY <1>2, <1>4, <1>5 DEF IsRowRun, IsGraveRun
<1>8. rows'[w][k] = row[n] /\ tombstones'[w][k] = grave[n]
  <2>1. /\ rows' = [rows EXCEPT ![w] = [x \in Records |-> RowAfter(req, x, n)]]
        /\ tombstones' = [tombstones EXCEPT ![w] =
                            [x \in Records |-> TombstoneAfter(req, x)]]
    BY DEF RunBatch
  <2> QED BY <1>1, <1>2, <1>4, <1>5, <2>1 DEF TypeOK
<1> QED BY <1>1, <1>6, <1>7, <1>8

LEMMA RunBatchInv ==
  ASSUME D1Inv, NEW r \in Requests, RunBatch(r)
  PROVE  D1Inv'
<1> DEFINE req == reqs[r]
           w == req.ws
           entries == BatchEntries(req, Len(req.batch))
           changed(i) == RowAfter(req, req.batch[i].record, i)
                           # RowAfter(req, req.batch[i].record, i - 1)
           applied == {i \in NewOps(req) : changed(i)}
           next == [req EXCEPT !.pc = "resolve", !.applied = applied]
           table == [k \in Records |-> RowAfter(req, k, Len(req.batch))]
           graves == [k \in Records |-> TombstoneAfter(req, k)]
<1>0. req = reqs[r] /\ w = req.ws /\ entries = BatchEntries(req, Len(req.batch))
  OBVIOUS
<1>1. /\ req \in Request /\ req.pc = "batch" /\ RequestInv(req)
      /\ NewOps(req) \subseteq DOMAIN req.batch /\ w \in Workspaces
      /\ log' = log \cup entries /\ history' = history \cup entries
      /\ \A e \in entries : \E i \in NewOps(req) : e = BatchEntry(req, i)
      /\ entries \in SUBSET Entry
      /\ counter' \in [Workspaces -> Nat]
      /\ counter'[w] >= counter[w]
      /\ \A x \in Workspaces : x # w => counter'[x] = counter[x]
  <2> HIDE DEF req, w, entries
  <2>1. /\ req \in Request /\ req.pc = "batch" /\ RequestInv(req)
    BY <1>0, BatchLogs
  <2>2. NewOps(req) \subseteq DOMAIN req.batch /\ w \in Workspaces
    BY <1>0, BatchLogs
  <2>3. log' = log \cup entries /\ history' = history \cup entries
    BY <1>0, BatchLogs
  <2>4. \A e \in entries : \E i \in NewOps(req) : e = BatchEntry(req, i)
    BY <1>0 DEF BatchEntries
  <2>5. entries \subseteq Entry
    <3>1. counter \in [Workspaces -> Nat]
      BY DEF D1Inv, TypeOKD1, TypeOK
    <3> QED BY <2>1, <2>2, <2>4, <3>1, BatchEntryType
  <2>6. counter' \in [Workspaces -> Nat]
    BY <1>0, BatchLogs
  <2>7. /\ counter'[w] >= counter[w]
        /\ \A x \in Workspaces : x # w => counter'[x] = counter[x]
    BY <1>0, BatchLogs
  <2> QED BY <2>1, <2>2, <2>3, <2>4, <2>5, <2>6, <2>7
<1>2. /\ \A e \in entries : /\ e.ws = w /\ e.createdAt = req.at
                            /\ e.version \in (counter[w] + 1)..counter'[w]
      /\ \A e, f \in entries : e.version = f.version => e = f
      /\ \A v \in (counter[w] + 1)..counter'[w] :
           \E e \in entries : e.version = v
  <2> HIDE DEF req, w, entries
  <2> QED BY <1>0, BatchLogs
<1>3. \A k \in Records :
         /\ rows'[w][k] \in Row \cup {NoRow}
         /\ tombstones'[w][k] \in Tombstone \cup {NoTombstone}
         /\ RowHolds(rows'[w][k], w, k, history')
         /\ GraveBehind(rows'[w][k], tombstones'[w][k])
         /\ rows[w][k] # NoRow => AtLeast(rows'[w][k], rows[w][k].rev)
  BY BatchMerges
<1>4. /\ rows' = [rows EXCEPT ![w] = table]
      /\ tombstones' = [tombstones EXCEPT ![w] = graves]
      /\ UNCHANGED <<now, cursors, tx>>
      /\ ~ DuplicateOpId(req)
      /\ reqs' = [reqs EXCEPT ![r] = next]
  <2>1. /\ rows' = [rows EXCEPT ![w] = table]
        /\ tombstones' = [tombstones EXCEPT ![w] = graves]
        /\ UNCHANGED <<now, cursors, tx>> /\ ~ DuplicateOpId(req)
    BY DEF RunBatch
  <2>2. reqs' = [reqs EXCEPT ![r] = next]
    BY DEF RunBatch, D1Inv, TypeOKD1
  <2> QED BY <2>1, <2>2
<1>5. TypeOK /\ tx = NoTx /\ reqs \in [Requests -> Request \cup {NoRequest, Ended}]
  BY DEF D1Inv, TypeOKD1
<1>6. applied \subseteq Nat
  BY <1>1, RequestBatch
<1> HIDE DEF req, w, entries, applied
<1>6a. /\ table = [k \in Records |-> table[k]]
       /\ graves = [k \in Records |-> graves[k]]
  OBVIOUS
<1> HIDE DEF table, graves
<1>7. /\ next \in Request /\ next.pc = "resolve"
      /\ next.batch = req.batch /\ next.ws = req.ws /\ next.skip = req.skip
      /\ next.todo = req.todo /\ next.existing = req.existing
      /\ next.results = req.results
  BY <1>1, <1>6 DEF Request
<1> HIDE DEF next
<1>8. /\ rows' \in [Workspaces -> [Records -> Row \cup {NoRow}]]
      /\ tombstones' \in [Workspaces -> [Records -> Tombstone \cup {NoTombstone}]]
      /\ \A x \in Workspaces : x # w => /\ rows'[x] = rows[x]
                                        /\ tombstones'[x] = tombstones[x]
  <2>1. /\ rows \in [Workspaces -> [Records -> Row \cup {NoRow}]]
        /\ tombstones \in [Workspaces -> [Records -> Tombstone \cup {NoTombstone}]]
    BY <1>5 DEF TypeOK
  <2>2. rows'[w] = table /\ tombstones'[w] = graves
    BY <1>1, <1>4, <2>1
  <2>3. /\ table \in [Records -> Row \cup {NoRow}]
        /\ graves \in [Records -> Tombstone \cup {NoTombstone}]
    BY <1>3, <1>6a, <2>2
  <2>4. rows' \in [Workspaces -> [Records -> Row \cup {NoRow}]]
    BY <1>1, <1>4, <2>1, <2>3
  <2>5. tombstones' \in [Workspaces -> [Records -> Tombstone \cup {NoTombstone}]]
    BY <1>1, <1>4, <2>1, <2>3
  <2> QED BY <1>1, <1>4, <2>1, <2>4, <2>5
<1>9. TypeOKD1'
  <2>1. reqs' \in [Requests -> Request \cup {NoRequest, Ended}]
    BY <1>4, <1>5, <1>7
  <2>2. TypeOK'
    BY <1>1, <1>4, <1>5, <1>8 DEF TypeOK
  <2> QED BY <1>4, <1>5, <2>1, <2>2 DEF TypeOKD1
<1>10. VersionsContiguous'
  <2>0. counter \in [Workspaces -> Nat] /\ history \in SUBSET Entry
    BY <1>5 DEF TypeOK
  <2>1. /\ counter \in [Workspaces -> Nat] /\ history \in SUBSET Entry
        /\ \A x \in Workspaces : counter'[x] >= counter[x]
    <3>1. \A x \in Workspaces : counter[x] \in Nat
      BY <2>0
    <3>2. \A x \in Workspaces : counter'[x] >= counter[x]
      BY <1>1, <3>1
    <3> QED BY <2>0, <3>2
  <2>2. \A e \in history : e.ws \in Workspaces /\ e.version \in 1..counter[e.ws]
    BY <2>1 DEF Entry, D1Inv, VersionsContiguous
  <2>3. \A e \in history' : e.version \in 1..counter'[e.ws]
    <3> SUFFICES ASSUME NEW e \in history' PROVE e.version \in 1..counter'[e.ws]
      OBVIOUS
    <3>1. CASE e \in history
      BY <1>1, <2>1, <2>2, <3>1
    <3>2. CASE e \in entries
      BY <1>1, <1>2, <2>1, <3>2
    <3> QED BY <1>1, <3>1, <3>2
  <2>4. ASSUME NEW x \in Workspaces, NEW v \in 1..counter'[x]
        PROVE  \E e \in history' : e.ws = x /\ e.version = v
    <3>1. CASE v \in 1..counter[x]
      BY <1>1, <3>1 DEF D1Inv, VersionsContiguous
    <3>2. CASE v \notin 1..counter[x]
      <4>1. x = w /\ v \in (counter[w] + 1)..counter'[w]
        BY <1>1, <2>1, <3>2
      <4> QED BY <1>1, <1>2, <4>1
    <3> QED BY <3>1, <3>2
  <2>5. ASSUME NEW e \in history', NEW f \in history',
               e.ws = f.ws, e.version = f.version
        PROVE  e = f
    <3>1. CASE e \in history /\ f \in history
      BY <2>5, <3>1 DEF D1Inv, VersionsContiguous
    <3>2. CASE e \in entries /\ f \in entries
      BY <1>2, <2>5, <3>2
    <3>3. CASE e \in history /\ f \in entries
      BY <1>1, <1>2, <2>1, <2>2, <2>5, <3>3
    <3>4. CASE e \in entries /\ f \in history
      BY <1>1, <1>2, <2>1, <2>2, <2>5, <3>4
    <3> QED BY <1>1, <3>1, <3>2, <3>3, <3>4
  <2> QED BY <2>3, <2>4, <2>5 DEF VersionsContiguous
<1>11. (log \subseteq history)'
  BY <1>1 DEF D1Inv
<1>12. RowsHoldWinners'
  <2> SUFFICES ASSUME NEW x \in Workspaces, NEW k \in Records
               PROVE  HoldsWinner(rows'[x], x, k, history')
    BY DEF RowsHoldWinners, HoldsWinner
  <2>1. CASE x = w
    BY <1>3, <2>1, RowHoldsIsHoldsWinner
  <2>2. CASE x # w
    <3>1. rows'[x] = rows[x] /\ HoldsWinner(rows[x], x, k, history)
      BY <1>8, <2>2 DEF D1Inv, RowsHoldWinners
    <3> QED BY <1>1, <1>2, <2>2, <3>1 DEF HoldsWinner
  <2> QED BY <2>1, <2>2
<1>13. TombstonesBehindRows'
  <2> SUFFICES ASSUME NEW x \in Workspaces, NEW k \in Records
               PROVE  TombstoneBehindRow(rows'[x], tombstones'[x], k)
    BY DEF TombstonesBehindRows, TombstoneBehindRow
  <2>1. CASE x = w
    BY <1>3, <2>1 DEF GraveBehind, TombstoneBehindRow
  <2>2. CASE x # w
    BY <1>8, <2>2 DEF D1Inv, TombstonesBehindRows
  <2> QED BY <2>1, <2>2
<1>14. NoOpIdCollision'
  <2> SUFFICES ASSUME NEW e \in log \cup entries, NEW f \in log \cup entries,
                      e.op.opId = f.op.opId
               PROVE  e = f
    BY <1>1, <1>4, <1>5 DEF NoOpIdCollision
  <2>1. \A i \in NewOps(req) : BatchEntry(req, i).op = req.batch[i]
    BY DEF BatchEntry
  <2>2. \A i \in NewOps(req), g \in log : g.op.opId # req.batch[i].opId
    BY <1>4 DEF DuplicateOpId, Logged
  <2>3. \A i, j \in NewOps(req) : req.batch[i].opId = req.batch[j].opId => i = j
    BY <1>1 DEF RequestInv, Account, NewOps
  <2>4. \A g \in entries : \E i \in NewOps(req) : g = BatchEntry(req, i)
    BY <1>1
  <2>5. CASE e \in log /\ f \in log
    BY <1>5, <2>5 DEF D1Inv, NoOpIdCollision
  <2>6. CASE e \in entries /\ f \in entries
    BY <2>1, <2>3, <2>4, <2>6
  <2>7. CASE e \in log /\ f \in entries
    BY <2>1, <2>2, <2>4, <2>7
  <2>8. CASE e \in entries /\ f \in log
    BY <2>1, <2>2, <2>4, <2>8
  <2> QED BY <2>5, <2>6, <2>7, <2>8
<1>15. RequestsInv'
  <2> SUFFICES ASSUME NEW q \in Requests, Open(q)'
               PROVE  RequestInv(reqs[q])'
    BY DEF RequestsInv
  <2> DEFINE other == reqs[q]
             after == reqs'[q]
  <2>1. /\ other \in Request /\ RequestInv(other)
        /\ after.batch = other.batch /\ after.ws = other.ws
        /\ after.skip = other.skip /\ after.todo = other.todo
        /\ after.existing = other.existing /\ after.results = other.results
        /\ after.pc \notin {"done", "failed"} =>
             other.pc \notin {"done", "failed"}
    <3>1. CASE q = r
      BY <1>1, <1>4, <1>5, <1>7, <3>1 DEF req
    <3>2. CASE q # r
      <4>1. after = other
        BY <1>4, <1>5, <3>2
      <4>2. Open(q)
        BY <4>1 DEF Open
      <4> QED BY <1>5, <4>1, <4>2, OpenIsRequest DEF D1Inv, RequestsInv
    <3> QED BY <3>1, <3>2
  <2>2. ASSUME NEW i \in other.skip
        PROVE  /\ i \in DOMAIN other.batch /\ other.batch[i].kind = "put"
               /\ AtLeast(rows'[other.ws][other.batch[i].record],
                          RevisionOf(other.batch[i]))
    <3> DEFINE op == other.batch[i]
               old == rows[other.ws][op.record]
               new == rows'[other.ws][op.record]
    <3>1. /\ i \in DOMAIN other.batch /\ op.kind = "put"
          /\ AtLeast(old, RevisionOf(op))
      BY <2>1, <2>2 DEF RequestInv, SkipsLose
    <3>2. op \in Operation /\ other.ws \in Workspaces
      BY <2>1, <3>1, RequestBatch
    <3>3. op.record \in Records /\ RevisionOf(op) \in Revision
      BY <3>2, RevisionOfOp DEF Operation
    <3>4. CASE other.ws # w
      <4>1. new = old
        BY <1>8, <3>2, <3>4
      <4> QED BY <3>1, <4>1
    <3>5. CASE other.ws = w
      <4>1. AtLeast(new, old.rev) /\ new \in Row \cup {NoRow}
        BY <1>3, <3>1, <3>3, <3>5 DEF AtLeast
      <4>2. old \in Row \cup {NoRow}
        BY <1>5, <3>2, <3>3 DEF TypeOK
      <4> HIDE DEF old, new, op
      <4>3. old.rev \in Revision /\ new.rev \in Revision
        BY <3>1, <4>1, <4>2 DEF AtLeast, Row
      <4>4. ~ lwwExcludedWins(RevisionOf(op), new.rev)
        BY <3>1, <3>3, <4>1, <4>3, LosesTransitive DEF AtLeast
      <4>5. AtLeast(new, RevisionOf(op))
        BY <4>1, <4>4 DEF AtLeast
      <4> QED BY <3>1, <4>5 DEF op, new
    <3> QED BY <3>4, <3>5
  <2> HIDE DEF other, after
  <2>3. after.pc \notin {"done", "failed"} =>
          Account(after.batch, after.todo, after.results)
    BY <2>1 DEF RequestInv
  <2>4. /\ after.existing \subseteq history'
        /\ \A i \in after.todo, e \in after.existing :
             e.op.opId = after.batch[i].opId =>
               e.ws = after.ws /\ e.op = after.batch[i]
    BY <1>1, <2>1 DEF RequestInv, ExistingProcessed
  <2>5. \A i \in after.skip :
          /\ i \in DOMAIN after.batch /\ after.batch[i].kind = "put"
          /\ AtLeast(rows'[after.ws][after.batch[i].record],
                     RevisionOf(after.batch[i]))
    BY <2>1, <2>2
  <2> QED BY <2>3, <2>4, <2>5
          DEF RequestInv, ExistingProcessed, SkipsLose, after
<1> QED BY <1>9, <1>10, <1>11, <1>12, <1>13, <1>14, <1>15 DEF D1Inv

\* A step that leaves the rows, the history and the requests alone keeps the
\* invariant: the log may shrink and tombstones may go.
LEMMA ForgettingKeepsD1Inv ==
  ASSUME D1Inv, TypeOK', UNCHANGED <<counter, rows, tx, history, reqs>>,
         log' \subseteq log,
         \A w \in Workspaces, k \in Records :
           \/ tombstones'[w][k] = tombstones[w][k]
           \/ tombstones'[w][k] = NoTombstone
  PROVE  D1Inv'
<1>1. TypeOKD1'
  BY DEF D1Inv, TypeOKD1
<1>2. VersionsContiguous' /\ (log \subseteq history)' /\ RowsHoldWinners'
  BY DEF D1Inv, VersionsContiguous, RowsHoldWinners, HoldsWinner
<1>3. TombstonesBehindRows'
  BY DEF D1Inv, TombstonesBehindRows, TombstoneBehindRow
<1>4. NoOpIdCollision'
  BY DEF D1Inv, TypeOKD1, NoOpIdCollision
<1>5. RequestsInv'
  BY DEF D1Inv, RequestsInv, Open, RequestInv, ExistingProcessed, SkipsLose
<1> QED BY <1>1, <1>2, <1>3, <1>4, <1>5 DEF D1Inv

LEMMA UpdateCursorInD1Inv ==
  ASSUME D1Inv, NEW w \in Workspaces, NEW d \in Devices, NEW user \in Users,
         NEW version \in 0..MaxVersion, NEW at \in Recent,
         UpdateCursorInD1(w, d, user, version, at)
  PROVE  D1Inv'
<1> DEFINE cursor == [owner |-> user, version |-> version, updatedAt |-> at]
<1>1. /\ cursors' = [cursors EXCEPT ![w][d] = cursor]
      /\ UNCHANGED <<now, counter, log, rows, tombstones, tx, history, reqs>>
  BY DEF UpdateCursorInD1
<1>2. TypeOK /\ now \in Nat
  BY DEF D1Inv, TypeOKD1, TypeOK
<1>3. cursor \in Cursor
  <2>1. at \in Nat /\ version \in Nat
    BY <1>2, SyncConstants DEF Recent
  <2> QED BY <2>1 DEF Cursor
<1> HIDE DEF cursor
<1>4. TypeOK'
  <2>1. cursors' \in [Workspaces -> [Devices -> Cursor \cup {NoCursor}]]
    BY <1>1, <1>2, <1>3 DEF TypeOK
  <2> QED BY <1>1, <1>2, <2>1 DEF TypeOK
<1> QED BY <1>1, <1>4, ForgettingKeepsD1Inv

\* Whatever the age of the cutoff, GC only forgets.
LEMMA GcForgets ==
  ASSUME TypeOK, NEW w \in Workspaces, NEW retention \in Nat,
         gcTombstones(w, retention) \/ gcChangeLog(w, retention)
  PROVE  /\ TypeOK' /\ UNCHANGED <<now, counter, rows, tx, history>>
         /\ log' \subseteq log
         /\ \A x \in Workspaces, k \in Records :
              \/ tombstones'[x][k] = tombstones[x][k]
              \/ tombstones'[x][k] = NoTombstone
<1>1. UNCHANGED <<now, counter, rows, tx, history>>
  BY DEF gcTombstones, gcChangeLog
<1>2. cursors' \in [Workspaces -> [Devices -> Cursor \cup {NoCursor}]]
  <2>1. ForgetStaleCursors(w, retention)
    BY DEF gcTombstones, gcChangeLog
  <2> QED BY <2>1 DEF TypeOK, ForgetStaleCursors
<1>3. /\ tombstones' \in
           [Workspaces -> [Records -> Tombstone \cup {NoTombstone}]]
      /\ \A x \in Workspaces, k \in Records :
           \/ tombstones'[x][k] = tombstones[x][k]
           \/ tombstones'[x][k] = NoTombstone
  <2>1. CASE gcTombstones(w, retention)
    BY <2>1 DEF gcTombstones, TypeOK
  <2>2. CASE gcChangeLog(w, retention)
    BY <2>2 DEF gcChangeLog, TypeOK
  <2> QED BY <2>1, <2>2
<1>4. log' \subseteq log
  BY DEF gcTombstones, gcChangeLog
<1>5. TypeOK'
  BY <1>1, <1>2, <1>3, <1>4 DEF TypeOK
<1> QED BY <1>1, <1>3, <1>4, <1>5

LEMMA GcInD1Inv ==
  ASSUME D1Inv, NEW w \in Workspaces, NEW retention \in Retentions,
         GcInD1(w, retention)
  PROVE  D1Inv'
<1>1. PICK t \in Recent : \/ gcTombstones(w, retention + (now - t))
                          \/ gcChangeLog(w, retention + (now - t))
  BY DEF GcInD1
<1>2. TypeOK /\ retention + (now - t) \in Nat
  BY SyncConstants DEF D1Inv, TypeOKD1, TypeOK, Recent
<1>3. UNCHANGED reqs
  BY DEF GcInD1
<1> QED BY <1>1, <1>2, <1>3, GcForgets, ForgettingKeepsD1Inv

LEMMA TickInD1Inv ==
  ASSUME D1Inv, TickInD1
  PROVE  D1Inv'
<1>1. /\ UNCHANGED <<counter, log, rows, tombstones, cursors, tx, history, reqs>>
      /\ now' = now + 1
  BY DEF TickInD1, Tick
<1>2. TypeOK'
  BY <1>1 DEF D1Inv, TypeOKD1, TypeOK
<1> QED BY <1>1, <1>2, ForgettingKeepsD1Inv

LEMMA D1InvStep == D1Inv /\ [NextD1]_d1vars => D1Inv'
<1> SUFFICES ASSUME D1Inv, [NextD1]_d1vars PROVE D1Inv'
  OBVIOUS
<1>1. CASE UNCHANGED d1vars
  <2>1. TypeOK'
    BY <1>1 DEF d1vars, D1Inv, TypeOKD1, TypeOK
  <2> QED BY <1>1, <2>1, ForgettingKeepsD1Inv DEF d1vars
<1> QED BY <1>1, BeginPushInD1Inv, ReadProcessedOpsInv, ReadOwnersInv,
        ReadRowsInv, ReadTombstonesInv, RunBatchInv, EndedInv, ResolveOpsInv,
        UpdateCursorInD1Inv, GcInD1Inv, TickInD1Inv DEF NextD1

\* D1Inv holds in every reachable state, however the steps of the requests
\* interleave: it is inductive.
THEOREM D1Invariant == SpecD1 => []D1Inv
<1>1. InitD1 => D1Inv
  <2> SUFFICES ASSUME InitD1 PROVE D1Inv
    OBVIOUS
  <2>1. TypeOKD1
    BY DEF InitD1, Init, TypeOKD1, TypeOK
  <2>2. VersionsContiguous
    BY DEF InitD1, Init, VersionsContiguous
  <2>3. RowsHoldWinners /\ TombstonesBehindRows
    BY DEF InitD1, Init, RowsHoldWinners, HoldsWinner,
           TombstonesBehindRows, TombstoneBehindRow
  <2>4. NoOpIdCollision /\ log \subseteq history
    BY DEF InitD1, Init, NoOpIdCollision
  <2>5. RequestsInv
    BY DEF InitD1, RequestsInv, Open
  <2> QED BY <2>1, <2>2, <2>3, <2>4, <2>5 DEF D1Inv
<1> QED BY <1>1, D1InvStep, PTL DEF SpecD1

\* Tables and requests keep their types under interleaved requests.
THEOREM D1Types == SpecD1 => []TypeOKD1
<1>1. D1Inv => TypeOKD1
  BY DEF D1Inv
<1> QED BY <1>1, D1Invariant, PTL

\* Requests that allocate versions from what their own batch reads leave no
\* hole and no duplicate.
THEOREM D1ContiguousVersions == SpecD1 => []VersionsContiguous
<1>1. D1Inv => VersionsContiguous
  BY DEF D1Inv
<1> QED BY <1>1, D1Invariant, PTL

\* The rows are the merge of everything committed, though each request
\* decided from reads that others have overtaken what not to materialize.
THEOREM D1RowsConverge == SpecD1 => []RowsHoldWinners
<1>1. D1Inv => RowsHoldWinners
  BY DEF D1Inv
<1> QED BY <1>1, D1Invariant, PTL

\* No tombstone outruns its row.
THEOREM D1TombstonesSafe == SpecD1 => []TombstonesBehindRows
<1>1. D1Inv => TombstonesBehindRows
  BY DEF D1Inv
<1> QED BY <1>1, D1Invariant, PTL



-----------------------------------------------------------------------------
(* What a request answers.                                                 *)

\* A request lives for MaxLag at most, and its stamp is of its lifetime.
OnTime(req, t) ==
  /\ req.since <= t /\ t <= req.since + MaxLag
  /\ req.pc \in {"batch", "resolve"} => req.since <= req.at

\* The log still holds what the request wrote, stamped in its lifetime.
Resolvable(req, entries) ==
  req.pc = "resolve" =>
    \A i \in NewOps(req) : \E e \in entries :
      e.ws = req.ws /\ e.op = req.batch[i] /\ req.since <= e.createdAt

\* What AnswersTruthfullyD1 says of one request.
Truthful(req, entries) ==
  req.pc = "done" =>
    \A i \in DOMAIN req.batch :
      \E a \in req.results :
        /\ a.opId = req.batch[i].opId
        /\ \A b \in req.results : b.opId = a.opId => b = a
        /\ a.status = "ok" =>
             \E e \in entries : /\ e.ws = req.ws
                                /\ e.version = a.version
                                /\ e.op = req.batch[i]

Answering(req, t, retained, committed) ==
  OnTime(req, t) /\ Resolvable(req, retained) /\ Truthful(req, committed)

AnswersD1Inv ==
  \A r \in Requests : Open(r) => Answering(reqs[r], now, log, history)

\* A longer log and history take nothing back.
LEMMA AnsweringMonotonic ==
  ASSUME NEW req, NEW t, NEW log1, NEW log2, NEW history1, NEW history2,
         Answering(req, t, log1, history1),
         log1 \subseteq log2, history1 \subseteq history2
  PROVE  Answering(req, t, log2, history2)
BY DEF Answering, Resolvable, Truthful

\* A step of one request leaves the others their answers.
LEMMA OwnStep ==
  ASSUME D1Inv, AnswersD1Inv, NEW r \in Requests, NEW next,
         reqs' = [reqs EXCEPT ![r] = next], now' = now,
         log \subseteq log', history \subseteq history',
         next # Ended => Answering(next, now, log', history')
  PROVE  AnswersD1Inv'
<1> SUFFICES ASSUME NEW q \in Requests, Open(q)'
             PROVE  Answering(reqs'[q], now', log', history')
  BY DEF AnswersD1Inv
<1>1. CASE q = r
  <2>1. reqs'[q] = next
    BY <1>1 DEF D1Inv, TypeOKD1
  <2> QED BY <2>1 DEF Open
<1>2. CASE q # r
  <2>1. reqs'[q] = reqs[q]
    BY <1>2 DEF D1Inv, TypeOKD1
  <2>2. Answering(reqs[q], now, log, history)
    BY <2>1 DEF Open, AnswersD1Inv
  <2>3. Answering(reqs[q], now, log', history')
    BY <2>2, AnsweringMonotonic
  <2> QED BY <2>1, <2>3
<1> QED BY <1>1, <1>2

LEMMA BeginPushInD1Answers ==
  ASSUME D1Inv, AnswersD1Inv, NEW r \in Requests, NEW w, NEW user, NEW batch,
         BeginPushInD1(r, w, user, batch)
  PROVE  AnswersD1Inv'
<1> DEFINE next ==
      [pc |-> "ops", ws |-> w, user |-> user,
       batch |-> ScopedBatch(user, batch), since |-> now,
       todo |-> UniqueOps(user, batch), existing |-> {}, present |-> {},
       skip |-> {}, at |-> 0, applied |-> {},
       results |-> RefusedBeforeTx(user, batch),
       heads |-> [x \in Workspaces |-> 0]]
<1>1. reqs' = [reqs EXCEPT ![r] = next] /\ UNCHANGED vars
  BY DEF BeginPushInD1
<1>2. next.pc = "ops" /\ next.since = now
  OBVIOUS
<1>3. now \in Nat /\ MaxLag \in Nat
  BY D1Constants DEF D1Inv, TypeOKD1, TypeOK
<1> HIDE DEF next
<1>4. OnTime(next, now)
  BY <1>2, <1>3 DEF OnTime
<1>5. Answering(next, now, log', history')
  BY <1>2, <1>4 DEF Answering, Resolvable, Truthful
<1> QED BY <1>1, <1>5, OwnStep DEF vars

\* The reads, and the batch that is rejected.
LEMMA ReadAnswers ==
  ASSUME D1Inv, AnswersD1Inv, NEW r \in Requests,
         \/ ReadProcessedOps(r) \/ ReadOwners(r) \/ ReadRows(r)
         \/ ReadTombstones(r) \/ BatchRejected(r)
  PROVE  AnswersD1Inv'
<1> DEFINE req == reqs[r]
           next == reqs'[r]
<1>1. req \in Request /\ OnTime(req, now) /\ now \in Nat
  BY OpenIsRequest DEF ReadProcessedOps, ReadOwners, ReadRows, ReadTombstones,
     BatchRejected, InStep, AnswersD1Inv, Answering, D1Inv, TypeOKD1, TypeOK
<1>2. /\ reqs' = [reqs EXCEPT ![r] = next] /\ UNCHANGED vars
      /\ next.since = req.since /\ next.pc \notin {"resolve", "done"}
      /\ next.pc = "batch" => next.at = now
  <2>0. reqs \in [Requests -> Request \cup {NoRequest, Ended}]
    BY DEF D1Inv, TypeOKD1
  <2>1. CASE ReadProcessedOps(r)
    BY <1>1, <2>0, <2>1 DEF ReadProcessedOps, Request
  <2>2. CASE ReadOwners(r)
    BY <1>1, <2>0, <2>2 DEF ReadOwners, Request
  <2>3. CASE ReadRows(r)
    BY <1>1, <2>0, <2>3 DEF ReadRows, Request
  <2>4. CASE ReadTombstones(r)
    BY <1>1, <2>0, <2>4 DEF ReadTombstones, Request
  <2>5. CASE BatchRejected(r)
    BY <1>1, <2>0, <2>5 DEF BatchRejected, Request
  <2> QED BY <2>1, <2>2, <2>3, <2>4, <2>5
<1> HIDE DEF req, next
<1>3. OnTime(next, now)
  BY <1>1, <1>2 DEF OnTime
<1>4. Answering(next, now, log', history')
  BY <1>2, <1>3 DEF Answering, Resolvable, Truthful
<1> QED BY <1>2, <1>4, OwnStep DEF vars

\* The batch puts into the log what the answer will look for.
LEMMA RunBatchAnswers ==
  ASSUME D1Inv, AnswersD1Inv, NEW r \in Requests, RunBatch(r)
  PROVE  AnswersD1Inv'
<1> DEFINE req == reqs[r]
           entries == BatchEntries(req, Len(req.batch))
           next == reqs'[r]
<1>1. /\ req \in Request /\ req.pc = "batch" /\ OnTime(req, now)
  BY OpenIsRequest DEF RunBatch, InStep, AnswersD1Inv, Answering, D1Inv
<1>2. /\ reqs' = [reqs EXCEPT ![r] = next] /\ now' = now
      /\ next.since = req.since /\ next.pc = "resolve" /\ next.at = req.at
      /\ next.batch = req.batch /\ next.ws = req.ws
      /\ next.todo = req.todo /\ next.existing = req.existing
  <2>1. reqs \in [Requests -> Request \cup {NoRequest, Ended}]
    BY DEF D1Inv, TypeOKD1
  <2> QED BY <1>1, <2>1 DEF RunBatch, Request
<1>3. /\ log' = log \cup entries /\ history' = history \cup entries
      /\ \A i \in NewOps(req) : BatchEntry(req, i) \in entries
  <2>1. req = reqs[r] /\ entries = BatchEntries(req, Len(req.batch))
    OBVIOUS
  <2> HIDE DEF req, entries
  <2> QED BY <2>1, BatchLogs
<1> HIDE DEF req, next, entries
<1>4. NewOps(next) = NewOps(req)
  BY <1>2 DEF NewOps
<1>5. Resolvable(next, log')
  <2> SUFFICES ASSUME NEW i \in NewOps(req)
               PROVE  \E e \in log' : /\ e.ws = next.ws /\ e.op = next.batch[i]
                                      /\ next.since <= e.createdAt
    BY <1>4 DEF Resolvable
  <2>1. BatchEntry(req, i) \in log'
    BY <1>3
  <2>2. /\ BatchEntry(req, i).ws = req.ws /\ BatchEntry(req, i).op = req.batch[i]
        /\ BatchEntry(req, i).createdAt = req.at
    BY DEF BatchEntry
  <2>3. req.since <= req.at
    BY <1>1 DEF OnTime
  <2> QED BY <1>2, <2>1, <2>2, <2>3
<1>6. OnTime(next, now)
  BY <1>1, <1>2 DEF OnTime
<1>7. Answering(next, now, log', history')
  BY <1>2, <1>5, <1>6 DEF Answering, Truthful
<1> QED BY <1>2, <1>3, <1>7, OwnStep

\* The answer: what was read before is committed, what was written is still
\* in the log, and the entry found under an op_id is the only one.
LEMMA AnswerIsTruthful ==
  ASSUME D1Inv, NEW req \in Request, req.pc = "resolve", RequestInv(req),
         Resolvable(req, log), NEW i \in req.todo
  PROVE  /\ Answer(req, i).opId = req.batch[i].opId
         /\ \E e \in history : /\ e.ws = req.ws
                               /\ e.version = Answer(req, i).version
                               /\ e.op = req.batch[i]
<1> DEFINE op == req.batch[i]
           read == {e \in req.existing : e.op.opId = op.opId}
           entry == IF read # {} THEN CHOOSE e \in read : TRUE
                    ELSE LoggedEntry(op.opId)
<1>1. Answer(req, i).opId = op.opId /\ Answer(req, i).version = entry.version
  BY DEF Answer
<1>2. entry \in history /\ entry.ws = req.ws /\ entry.op = op
  <2>1. CASE read # {}
    <3>1. entry \in read
      BY <2>1
    <3> HIDE DEF entry
    <3> QED BY <3>1 DEF RequestInv, ExistingProcessed
  <2>2. CASE read = {}
    <3>1. i \in NewOps(req)
      BY <2>2 DEF NewOps
    <3>2. PICK e \in log : e.ws = req.ws /\ e.op = op
      BY <3>1 DEF Resolvable
    <3>3. entry \in log /\ entry.op.opId = op.opId
      BY <2>2, <3>2 DEF LoggedEntry
    <3> HIDE DEF entry
    <3>4. entry = e
      BY <3>2, <3>3 DEF D1Inv, NoOpIdCollision
    <3> QED BY <3>2, <3>4 DEF D1Inv
  <2> QED BY <2>1, <2>2
<1> HIDE DEF entry
<1> QED BY <1>1, <1>2

LEMMA ResolveOpsAnswers ==
  ASSUME D1Inv, AnswersD1Inv, NEW r \in Requests, ResolveOps(r)
  PROVE  AnswersD1Inv'
<1> DEFINE req == reqs[r]
           next == reqs'[r]
<1>1. /\ req \in Request /\ req.pc = "resolve" /\ RequestInv(req)
      /\ OnTime(req, now) /\ Resolvable(req, log)
  BY OpenIsRequest DEF ResolveOps, InStep, AnswersD1Inv, Answering, D1Inv,
     RequestsInv
<1>2. /\ reqs' = [reqs EXCEPT ![r] = next] /\ UNCHANGED vars
      /\ next.since = req.since /\ next.batch = req.batch /\ next.ws = req.ws
      /\ \/ next.pc = "failed"
         \/ /\ next.pc = "done"
            /\ next.results =
                 req.results \cup {Answer(req, i) : i \in req.todo}
  <2>1. reqs \in [Requests -> Request \cup {NoRequest, Ended}]
    BY DEF D1Inv, TypeOKD1
  <2>2. CASE \A i \in NewOps(req) : Logged(req.batch[i].opId)
    <3>1. reqs' = [reqs EXCEPT ![r].pc = "done", ![r].results =
                     @ \cup {Answer(req, i) : i \in req.todo}]
          /\ UNCHANGED vars
      BY <2>2 DEF ResolveOps
    <3> QED BY <1>1, <2>1, <3>1 DEF Request
  <2>3. CASE ~ \A i \in NewOps(req) : Logged(req.batch[i].opId)
    <3>1. reqs' = [reqs EXCEPT ![r].pc = "failed"] /\ UNCHANGED vars
      BY <2>3 DEF ResolveOps
    <3> QED BY <1>1, <2>1, <3>1 DEF Request
  <2> QED BY <2>2, <2>3
<1>3. Account(req.batch, req.todo, req.results)
  BY <1>1 DEF RequestInv
<1>4. \A i \in req.todo :
        /\ Answer(req, i).opId = req.batch[i].opId
        /\ \E e \in history : /\ e.ws = req.ws
                              /\ e.version = Answer(req, i).version
                              /\ e.op = req.batch[i]
  <2> HIDE DEF req
  <2> QED BY <1>1, AnswerIsTruthful
<1> HIDE DEF req, next
<1>5. Truthful(next, history)
  <2> SUFFICES ASSUME next.pc = "done", NEW i \in DOMAIN req.batch
               PROVE  \E a \in next.results :
                        /\ a.opId = req.batch[i].opId
                        /\ \A b \in next.results : b.opId = a.opId => b = a
                        /\ a.status = "ok" =>
                             \E e \in history : /\ e.ws = req.ws
                                                /\ e.version = a.version
                                                /\ e.op = req.batch[i]
    BY <1>2 DEF Truthful
  <2>1. \A b \in next.results :
          b \in req.results \/ \E j \in req.todo : b = Answer(req, j)
    BY <1>2
  <2>2. CASE \E j \in req.todo : req.batch[j].opId = req.batch[i].opId
    <3>1. PICK j \in req.todo : req.batch[j].opId = req.batch[i].opId
      BY <2>2
    <3>2. req.batch[i] = req.batch[j]
      BY <1>3, <3>1 DEF Account
    <3>3. Answer(req, j) \in next.results
      BY <1>2
    <3>4. \A b \in next.results :
            b.opId = req.batch[j].opId => b = Answer(req, j)
      BY <1>3, <1>4, <2>1 DEF Account
    <3> QED BY <1>4, <3>2, <3>3, <3>4
  <2>3. CASE ~ \E j \in req.todo : req.batch[j].opId = req.batch[i].opId
    <3>1. PICK a \in req.results : a.opId = req.batch[i].opId
      BY <1>3, <2>3 DEF Account
    <3>2. \A b \in next.results : b.opId = a.opId => b = a
      BY <1>3, <1>4, <2>1, <2>3, <3>1 DEF Account
    <3>3. a.status # "ok" /\ a \in next.results
      BY <1>2, <1>3 DEF Account
    <3> QED BY <3>1, <3>2, <3>3
  <2> QED BY <2>2, <2>3
<1>6. OnTime(next, now)
  BY <1>1, <1>2 DEF OnTime
<1>7. Answering(next, now, log', history')
  BY <1>2, <1>5, <1>6 DEF Answering, Resolvable, vars
<1> QED BY <1>2, <1>7, OwnStep DEF vars

\* GC runs with a retention window that outlives the request: it cannot drop
\* what the request has just written.
LEMMA GcAnswers ==
  ASSUME D1Inv, AnswersD1Inv, NEW w \in Workspaces, NEW retention \in Retentions,
         GcInD1(w, retention)
  PROVE  AnswersD1Inv'
<1>1. PICK t \in Recent : \/ gcTombstones(w, retention + (now - t))
                          \/ gcChangeLog(w, retention + (now - t))
  BY DEF GcInD1
<1> DEFINE age == retention + (now - t)
<1>2. /\ now \in Nat /\ retention \in Nat /\ age \in Nat /\ age >= MaxLag
      /\ MaxLag \in Nat /\ log \subseteq Entry
  BY SyncConstants, D1Constants DEF Recent, D1Inv, TypeOKD1, TypeOK
<1>3. UNCHANGED <<now, history, reqs>>
  BY <1>1 DEF GcInD1, gcTombstones, gcChangeLog
<1> HIDE DEF age
<1>4. \A e \in log : e.createdAt + age >= now => e \in log'
  <2>1. \A e \in log : e.createdAt \in Nat
    BY <1>2 DEF Entry
  <2>2. gcTombstones(w, age) \/ gcChangeLog(w, age)
    BY <1>1 DEF age
  <2>3. \A e \in log : e.createdAt + age >= now =>
          ~ Prunable(w, age, e.version, e.createdAt)
    BY <1>2, <2>1 DEF Prunable
  <2> QED BY <2>2, <2>3 DEF gcTombstones, gcChangeLog
<1>5. ASSUME NEW q \in Requests, Open(q)
      PROVE  Answering(reqs[q], now, log', history)
  <2> DEFINE req == reqs[q]
  <2>1. Answering(req, now, log, history) /\ req \in Request
    BY <1>5, OpenIsRequest DEF AnswersD1Inv, D1Inv
  <2>2. req.since \in Nat /\ now <= req.since + MaxLag
    BY <2>1 DEF Request, Answering, OnTime
  <2> HIDE DEF req
  <2>3. \A e \in log : req.since <= e.createdAt => e \in log'
    <3>1. \A e \in log : e.createdAt \in Nat
      BY <1>2 DEF Entry
    <3> QED BY <1>2, <1>4, <2>2, <3>1
  <2> QED BY <2>1, <2>3 DEF Answering, Resolvable, req
<1> QED BY <1>3, <1>5 DEF AnswersD1Inv, Open

LEMMA AnswersD1Step ==
  D1Inv /\ AnswersD1Inv /\ [NextD1]_d1vars => AnswersD1Inv'
<1> SUFFICES ASSUME D1Inv, AnswersD1Inv, [NextD1]_d1vars PROVE AnswersD1Inv'
  OBVIOUS
<1>1. ASSUME NEW r \in Requests, EndRequest(r)
      PROVE  AnswersD1Inv'
  <2>1. reqs' = [reqs EXCEPT ![r] = Ended] /\ UNCHANGED vars
    BY <1>1 DEF EndRequest
  <2> QED BY <2>1, OwnStep DEF vars
<1>2. ASSUME NEW w \in Workspaces, NEW d \in Devices, NEW user \in Users,
             NEW version \in 0..MaxVersion, NEW at \in Recent,
             UpdateCursorInD1(w, d, user, version, at)
      PROVE  AnswersD1Inv'
  BY <1>2 DEF UpdateCursorInD1, AnswersD1Inv, Open
<1>3. CASE TickInD1
  <2>1. /\ UNCHANGED <<log, history, reqs>> /\ now' = now + 1
        /\ \A r \in Requests : Open(r) => now < reqs[r].since + MaxLag
    BY <1>3 DEF TickInD1, Tick
  <2>2. ASSUME NEW r \in Requests, Open(r)
        PROVE  OnTime(reqs[r], now + 1)
    <3>1. reqs[r] \in Request /\ OnTime(reqs[r], now)
      BY <2>2, OpenIsRequest DEF AnswersD1Inv, Answering, D1Inv
    <3>2. reqs[r].since \in Nat /\ now \in Nat /\ MaxLag \in Nat
      BY <3>1, D1Constants DEF Request, D1Inv, TypeOKD1, TypeOK
    <3> QED BY <2>1, <2>2, <3>1, <3>2 DEF OnTime
  <2> QED BY <2>1, <2>2 DEF AnswersD1Inv, Answering, Open
<1>4. CASE UNCHANGED d1vars
  BY <1>4 DEF d1vars, AnswersD1Inv, Open
<1> QED BY <1>1, <1>2, <1>3, <1>4, BeginPushInD1Answers, ReadAnswers,
        RunBatchAnswers, ResolveOpsAnswers, GcAnswers DEF NextD1

\* What a request answers is true, whatever other requests logged and GC
\* dropped between its steps.
THEOREM D1AnswersTruthful == SpecD1 => []AnswersTruthfullyD1
<1>1. InitD1 => AnswersD1Inv
  BY DEF InitD1, AnswersD1Inv, Open
<1>2. AnswersD1Inv => AnswersTruthfullyD1
  BY DEF AnswersD1Inv, Answering, Truthful, AnswersTruthfullyD1, InStep
<1> QED BY <1>1, <1>2, AnswersD1Step, D1Invariant, PTL DEF SpecD1

-----------------------------------------------------------------------------
(* Why a push fails.                                                       *)

\* The counters when the request read the log bound what it then saw: an
\* entry under an op_id it takes for new has a later version.
ReadAhead(req, entries, count) ==
  /\ \A w \in Workspaces : req.heads[w] <= count[w]
  /\ req.pc \in {"owners", "rows", "tombstones", "batch"} =>
       \A i \in NewOps(req), e \in entries :
         e.op.opId = req.batch[i].opId => e.version > req.heads[e.ws]

ReadAheadInv == \A r \in Requests : Open(r) => ReadAhead(reqs[r], log, counter)

\* What is logged and allocated later changes nothing in that.
LEMMA ReadAheadKept ==
  ASSUME D1Inv, TypeOKD1', NEW req \in Request, ReadAhead(req, log, counter),
         \A w \in Workspaces : counter'[w] >= counter[w],
         \A e \in log' : e \in log \/ e.version > counter[e.ws]
  PROVE  ReadAhead(req, log', counter')
<1>1. /\ req.heads \in [Workspaces -> Nat]
      /\ counter \in [Workspaces -> Nat] /\ counter' \in [Workspaces -> Nat]
      /\ \A e \in log' : e.ws \in Workspaces /\ e.version \in Nat
  BY DEF Request, D1Inv, TypeOKD1, TypeOK, Entry
<1>2. \A w \in Workspaces : req.heads[w] <= counter'[w]
  BY <1>1 DEF ReadAhead
<1>3. \A e \in log' : e \in log \/ e.version > req.heads[e.ws]
  BY <1>1 DEF ReadAhead
<1> QED BY <1>2, <1>3 DEF ReadAhead

\* A step of one request, which logs above the counters at most.
LEMMA ReadAheadOwnStep ==
  ASSUME D1Inv, TypeOKD1', ReadAheadInv, NEW r \in Requests, NEW next,
         reqs' = [reqs EXCEPT ![r] = next],
         \A w \in Workspaces : counter'[w] >= counter[w],
         \A e \in log' : e \in log \/ e.version > counter[e.ws],
         next # Ended => ReadAhead(next, log', counter')
  PROVE  ReadAheadInv'
<1> SUFFICES ASSUME NEW q \in Requests, Open(q)'
             PROVE  ReadAhead(reqs'[q], log', counter')
  BY DEF ReadAheadInv
<1>1. CASE q = r
  <2>1. reqs'[q] = next
    BY <1>1 DEF D1Inv, TypeOKD1
  <2> QED BY <2>1 DEF Open
<1>2. CASE q # r
  <2>1. reqs'[q] = reqs[q]
    BY <1>2 DEF D1Inv, TypeOKD1
  <2>2. reqs[q] \in Request /\ ReadAhead(reqs[q], log, counter)
    BY <2>1, OpenIsRequest DEF Open, ReadAheadInv, D1Inv
  <2> QED BY <2>1, <2>2, ReadAheadKept
<1> QED BY <1>1, <1>2

LEMMA ReadAheadReads ==
  ASSUME D1Inv, D1Inv', ReadAheadInv, NEW r \in Requests,
         \/ \E w \in Workspaces, user \in Sessions, batch \in Batches :
              BeginPushInD1(r, w, user, batch)
         \/ ReadProcessedOps(r) \/ ReadOwners(r) \/ ReadRows(r)
         \/ ReadTombstones(r) \/ BatchRejected(r) \/ ResolveOps(r)
         \/ EndRequest(r)
  PROVE  ReadAheadInv'
<1> DEFINE req == reqs[r]
           next == reqs'[r]
<1>0. /\ reqs \in [Requests -> Request \cup {NoRequest, Ended}]
      /\ counter \in [Workspaces -> Nat] /\ TypeOKD1'
  BY DEF D1Inv, TypeOKD1, TypeOK
<1>1. reqs' = [reqs EXCEPT ![r] = next] /\ UNCHANGED vars
  BY <1>0 DEF BeginPushInD1, ReadProcessedOps, ReadOwners, ReadRows,
              ReadTombstones, BatchRejected, ResolveOps, EndRequest
<1>2. ASSUME next # Ended
      PROVE  ReadAhead(next, log, counter)
  <2>1. CASE \E w \in Workspaces, user \in Sessions, batch \in Batches :
               BeginPushInD1(r, w, user, batch)
    <3>1. next.pc = "ops" /\ next.heads = [x \in Workspaces |-> 0]
      BY <1>0, <2>1 DEF BeginPushInD1
    <3> QED BY <1>0, <3>1 DEF ReadAhead
  <2>2. CASE ReadProcessedOps(r)
    <3> DEFINE existing == {e \in log : \E i \in req.todo :
                                         e.op.opId = req.batch[i].opId}
    <3>1. req \in Request
      BY <2>2, OpenIsRequest DEF ReadProcessedOps, InStep, D1Inv
    <3>2. /\ next.heads = counter /\ next.existing = existing
          /\ next.batch = req.batch /\ next.todo \subseteq req.todo
      BY <1>0, <2>2, <3>1 DEF ReadProcessedOps, Request
    <3>3. \A i \in NewOps(next), e \in log : e.op.opId # next.batch[i].opId
      BY <3>2 DEF NewOps
    <3> QED BY <1>0, <3>2, <3>3 DEF ReadAhead
  <2>3. CASE ReadOwners(r) \/ ReadRows(r) \/ ReadTombstones(r)
    <3>1. req \in Request /\ ReadAhead(req, log, counter)
          /\ req.pc \in {"owners", "rows", "tombstones"}
      BY <2>3, OpenIsRequest
         DEF ReadOwners, ReadRows, ReadTombstones, InStep, D1Inv, ReadAheadInv
    <3>2. /\ next.heads = req.heads /\ next.existing = req.existing
          /\ next.batch = req.batch /\ next.todo \subseteq req.todo
      <4>1. CASE ReadOwners(r)
        BY <1>0, <3>1, <4>1 DEF ReadOwners, Request
      <4>2. CASE ReadRows(r)
        BY <1>0, <3>1, <4>2 DEF ReadRows, Request
      <4>3. CASE ReadTombstones(r)
        BY <1>0, <3>1, <4>3 DEF ReadTombstones, Request
      <4> QED BY <2>3, <4>1, <4>2, <4>3
    <3>3. NewOps(next) \subseteq NewOps(req)
      BY <3>2 DEF NewOps
    <3> QED BY <3>1, <3>2, <3>3 DEF ReadAhead
  <2>4. CASE BatchRejected(r) \/ ResolveOps(r)
    <3>1. req \in Request /\ ReadAhead(req, log, counter)
      BY <2>4, OpenIsRequest
         DEF BatchRejected, ResolveOps, InStep, D1Inv, ReadAheadInv
    <3>2. next.heads = req.heads /\ next.pc \in {"done", "failed"}
      BY <1>0, <2>4, <3>1 DEF BatchRejected, ResolveOps, Request
    <3> QED BY <3>1, <3>2 DEF ReadAhead
  <2>5. CASE EndRequest(r)
    BY <1>0, <1>2, <2>5 DEF EndRequest
  <2> QED BY <2>1, <2>2, <2>3, <2>4, <2>5
<1>3. \A w \in Workspaces : counter'[w] >= counter[w]
  BY <1>0, <1>1 DEF vars
<1> HIDE DEF next
<1> QED BY <1>0, <1>1, <1>2, <1>3, ReadAheadOwnStep DEF vars

LEMMA ReadAheadRunBatch ==
  ASSUME D1Inv, D1Inv', ReadAheadInv, NEW r \in Requests, RunBatch(r)
  PROVE  ReadAheadInv'
<1> DEFINE req == reqs[r]
           w == req.ws
           entries == BatchEntries(req, Len(req.batch))
           next == reqs'[r]
<1>0. /\ reqs \in [Requests -> Request \cup {NoRequest, Ended}]
      /\ counter \in [Workspaces -> Nat] /\ TypeOKD1'
  BY DEF D1Inv, TypeOKD1, TypeOK
<1>1. req \in Request /\ ReadAhead(req, log, counter)
  BY OpenIsRequest DEF RunBatch, InStep, D1Inv, ReadAheadInv
<1>2. /\ log' = log \cup entries /\ w \in Workspaces
      /\ counter' \in [Workspaces -> Nat] /\ counter'[w] >= counter[w]
      /\ \A x \in Workspaces : x # w => counter'[x] = counter[x]
      /\ \A e \in entries : e.ws = w /\ e.version \in (counter[w] + 1)..counter'[w]
  <2>1. req = reqs[r] /\ entries = BatchEntries(req, Len(req.batch)) /\ w = req.ws
    OBVIOUS
  <2> HIDE DEF req, entries, w
  <2> QED BY <2>1, BatchLogs
<1>3. /\ reqs' = [reqs EXCEPT ![r] = next]
      /\ next.heads = req.heads /\ next.pc = "resolve"
  BY <1>0, <1>1 DEF RunBatch, Request
<1> HIDE DEF req, next, entries, w
<1>4. \A x \in Workspaces : counter'[x] >= counter[x]
  BY <1>0, <1>2
<1>5. \A e \in log' : e \in log \/ e.version > counter[e.ws]
  BY <1>0, <1>2
<1>6. ReadAhead(req, log', counter')
  BY <1>0, <1>1, <1>4, <1>5, ReadAheadKept
<1>7. ReadAhead(next, log', counter')
  BY <1>3, <1>6 DEF ReadAhead
<1> QED BY <1>0, <1>3, <1>4, <1>5, <1>7, ReadAheadOwnStep

LEMMA ReadAheadStep ==
  D1Inv /\ D1Inv' /\ ReadAheadInv /\ [NextD1]_d1vars => ReadAheadInv'
<1> SUFFICES ASSUME D1Inv, D1Inv', ReadAheadInv, [NextD1]_d1vars
             PROVE  ReadAheadInv'
  OBVIOUS
<1>1. ASSUME UNCHANGED <<counter, reqs>>, log' \subseteq log
      PROVE  ReadAheadInv'
  BY <1>1 DEF ReadAheadInv, ReadAhead, Open, NewOps
<1>2. ASSUME NEW w \in Workspaces, NEW retention \in Retentions,
             GcInD1(w, retention)
      PROVE  ReadAheadInv'
  BY <1>1, <1>2 DEF GcInD1, gcTombstones, gcChangeLog
<1>3. ASSUME NEW w \in Workspaces, NEW d \in Devices, NEW user \in Users,
             NEW version \in 0..MaxVersion, NEW at \in Recent,
             UpdateCursorInD1(w, d, user, version, at)
      PROVE  ReadAheadInv'
  BY <1>1, <1>3 DEF UpdateCursorInD1
<1>4. CASE TickInD1
  BY <1>1, <1>4 DEF TickInD1, Tick
<1>5. CASE UNCHANGED d1vars
  BY <1>1, <1>5 DEF d1vars
<1> QED BY <1>2, <1>3, <1>4, <1>5, ReadAheadReads, ReadAheadRunBatch DEF NextD1

\* A push fails only at its batch, and only for an op_id that was logged, in
\* whichever workspace, after it had read the log.
THEOREM D1OnlyRacesFail == SpecD1 => OnlyRacesFail
<1>1. InitD1 => AnswersD1Inv /\ ReadAheadInv
  BY DEF InitD1, AnswersD1Inv, ReadAheadInv, Open
<1>2. ASSUME D1Inv, AnswersD1Inv, ReadAheadInv, [NextD1]_d1vars,
             NEW r \in Requests, InStep(r, "failed")', ~ InStep(r, "failed")
      PROVE  /\ InStep(r, "batch")
             /\ \E i \in NewOps(reqs[r]), e \in log :
                  /\ e.op.opId = reqs[r].batch[i].opId
                  /\ e.version > reqs[r].heads[e.ws]
  <2> DEFINE req == reqs[r]
  <2>0. reqs \in [Requests -> Request \cup {NoRequest, Ended}]
    BY <1>2 DEF D1Inv, TypeOKD1
  <2>1. BatchRejected(r) \/ ResolveOps(r)
    <3>1. reqs'[r] # reqs[r] /\ reqs'[r].pc = "failed" /\ Open(r)'
      BY <1>2 DEF InStep, Open
    <3>2. ASSUME NEW q \in Requests,
                 \/ \E w \in Workspaces, user \in Sessions, batch \in Batches :
                      BeginPushInD1(q, w, user, batch)
                 \/ ReadProcessedOps(q) \/ ReadOwners(q) \/ ReadRows(q)
                 \/ ReadTombstones(q) \/ RunBatch(q) \/ EndRequest(q)
          PROVE  FALSE
      <4>1. q = r
        BY <2>0, <3>1, <3>2 DEF BeginPushInD1, ReadProcessedOps, ReadOwners,
           ReadRows, ReadTombstones, RunBatch, EndRequest
      <4>2. CASE \E w \in Workspaces, user \in Sessions, batch \in Batches :
                   BeginPushInD1(q, w, user, batch)
        BY <2>0, <3>1, <4>1, <4>2 DEF BeginPushInD1
      <4>3. CASE EndRequest(q)
        BY <2>0, <3>1, <4>1, <4>3 DEF EndRequest, Open
      <4>4. CASE \/ ReadProcessedOps(q) \/ ReadOwners(q) \/ ReadRows(q)
                 \/ ReadTombstones(q) \/ RunBatch(q)
        <5>1. reqs[r] \in Request
          BY <4>1, <4>4, OpenIsRequest, <1>2 DEF ReadProcessedOps, ReadOwners,
             ReadRows, ReadTombstones, RunBatch, InStep, D1Inv
        <5>2. CASE ReadProcessedOps(r)
          BY <2>0, <3>1, <5>1, <5>2 DEF ReadProcessedOps, Request
        <5>3. CASE ReadOwners(r)
          BY <2>0, <3>1, <5>1, <5>3 DEF ReadOwners, Request
        <5>4. CASE ReadRows(r)
          BY <2>0, <3>1, <5>1, <5>4 DEF ReadRows, Request
        <5>5. CASE ReadTombstones(r)
          BY <2>0, <3>1, <5>1, <5>5 DEF ReadTombstones, Request
        <5>6. CASE RunBatch(r)
          BY <2>0, <3>1, <5>1, <5>6 DEF RunBatch, Request
        <5> QED BY <4>1, <4>4, <5>2, <5>3, <5>4, <5>5, <5>6
      <4> QED BY <3>2, <4>2, <4>3, <4>4
    <3>3. ASSUME NEW q \in Requests, q # r, BatchRejected(q) \/ ResolveOps(q)
          PROVE  FALSE
      BY <2>0, <3>1, <3>3 DEF BatchRejected, ResolveOps
    <3>4. ~ UNCHANGED reqs
      BY <3>1
    <3> QED BY <1>2, <3>2, <3>3, <3>4
            DEF NextD1, d1vars, UpdateCursorInD1, GcInD1, TickInD1
  <2>2. /\ req \in Request /\ Open(r) /\ RequestInv(req)
        /\ Resolvable(req, log) /\ ReadAhead(req, log, counter)
        /\ req.pc \in {"batch", "resolve"}
    BY <1>2, <2>1, OpenIsRequest DEF BatchRejected, ResolveOps, InStep, D1Inv,
       RequestsInv, AnswersD1Inv, Answering, ReadAheadInv
  <2>3. CASE BatchRejected(r)
    <3>1. req.pc = "batch" /\ InStep(r, "batch") /\ DuplicateOpId(req)
      BY <2>3 DEF BatchRejected, InStep
    <3>2. \A i, j \in NewOps(req) : req.batch[i].opId = req.batch[j].opId => i = j
      BY <2>2, <3>1 DEF RequestInv, Account, NewOps
    <3> HIDE DEF req
    <3>3. PICK i \in NewOps(req) : Logged(req.batch[i].opId)
      BY <3>1, <3>2 DEF DuplicateOpId
    <3>4. PICK e \in log : e.op.opId = req.batch[i].opId
      BY <3>3 DEF Logged
    <3>5. e.version > req.heads[e.ws]
      BY <2>2, <3>1, <3>4 DEF ReadAhead
    <3> QED BY <3>1, <3>4, <3>5 DEF req
  <2>4. CASE ResolveOps(r)
    <3>1. req.pc = "resolve"
      BY <2>4 DEF ResolveOps, InStep
    <3>2. \A i \in NewOps(req) : Logged(req.batch[i].opId)
      BY <2>2, <3>1 DEF Resolvable, Logged
    <3>3. reqs'[r].pc = "done"
      BY <2>0, <2>2, <2>4, <3>2 DEF ResolveOps, Request
    <3> QED BY <1>2, <3>3 DEF InStep
  <2> QED BY <2>1, <2>3, <2>4
<1>3. D1Inv /\ AnswersD1Inv /\ ReadAheadInv /\ [NextD1]_d1vars =>
      [\A r \in Requests : InStep(r, "failed")' /\ ~ InStep(r, "failed") =>
         /\ InStep(r, "batch")
         /\ \E i \in NewOps(reqs[r]), e \in log :
              /\ e.op.opId = reqs[r].batch[i].opId
              /\ e.version > reqs[r].heads[e.ws]]_d1vars
  BY <1>2
<1> QED BY <1>1, <1>3, D1Invariant, AnswersD1Step, ReadAheadStep, PTL
        DEF SpecD1, OnlyRacesFail

-----------------------------------------------------------------------------
(* Registered devices.                                                     *)

\* What a step leaves of the log above a cursor it keeps: batches log every
\* version they allocate, GC keeps what is above the cursor.
LEMMA D1LogAboveCursorKept ==
  ASSUME D1Inv, D1Inv', [NextD1]_d1vars,
         NEW w \in Workspaces, NEW d \in Devices,
         cursors[w][d] # NoCursor, cursors'[w][d] # NoCursor,
         (cursors[w][d].version + 1)..counter[w] \subseteq RetainedVersions(w)
  PROVE  (cursors'[w][d].version + 1)..counter'[w]
            \subseteq RetainedVersions(w)'
<1>1. /\ cursors[w][d].version \in Nat /\ cursors'[w][d].version \in Nat
      /\ counter[w] \in Nat /\ counter'[w] \in Nat
      /\ cursors \in [Workspaces -> [Devices -> Cursor \cup {NoCursor}]]
      /\ now \in Nat
  <2>1. cursors[w][d] \in Cursor /\ cursors'[w][d] \in Cursor
    BY DEF D1Inv, TypeOKD1, TypeOK
  <2> QED BY <2>1 DEF D1Inv, TypeOKD1, TypeOK, Cursor
<1>2. ASSUME UNCHANGED <<counter, log, cursors>>
      PROVE  (cursors'[w][d].version + 1)..counter'[w]
               \subseteq RetainedVersions(w)'
  BY <1>2 DEF RetainedVersions
<1>3. ASSUME NEW r \in Requests, RunBatch(r)
      PROVE  (cursors'[w][d].version + 1)..counter'[w]
               \subseteq RetainedVersions(w)'
  <2> DEFINE req == reqs[r]
             entries == BatchEntries(req, Len(req.batch))
  <2>0. req = reqs[r] /\ entries = BatchEntries(req, Len(req.batch))
    OBVIOUS
  <2> HIDE DEF req, entries
  <2>1. cursors' = cursors
    BY <1>3 DEF RunBatch
  <2>2. /\ log' = log \cup entries
        /\ \A x \in Workspaces : x # req.ws => counter'[x] = counter[x]
    BY <1>3, <2>0, BatchLogs
  <2>3. /\ \A e \in entries : e.ws = req.ws
        /\ \A v \in (counter[req.ws] + 1)..counter'[req.ws] :
             \E e \in entries : e.version = v
    BY <1>3, <2>0, BatchLogs
  <2>4. RetainedVersions(w) \subseteq RetainedVersions(w)'
    BY <2>2 DEF RetainedVersions
  <2>5. ASSUME NEW v \in (counter[w] + 1)..counter'[w]
        PROVE  v \in RetainedVersions(w)'
    <3>1. w = req.ws
      BY <1>1, <2>2, <2>5
    <3>2. PICK e \in entries : e.version = v
      BY <2>3, <3>1
    <3>3. e \in log' /\ e.ws = w
      BY <2>2, <2>3, <3>1
    <3> QED BY <3>2, <3>3 DEF RetainedVersions
  <2> QED BY <1>1, <2>1, <2>4, <2>5
<1>4. ASSUME NEW x \in Workspaces, NEW c \in Devices, NEW user \in Users,
             NEW version \in 0..MaxVersion, NEW at \in Recent,
             UpdateCursorInD1(x, c, user, version, at)
      PROVE  (cursors'[w][d].version + 1)..counter'[w]
               \subseteq RetainedVersions(w)'
  <2>1. cursors'[w][d].version >= cursors[w][d].version
    BY <1>1, <1>4, SyncConstants DEF UpdateCursorInD1, CursorUpsertable
  <2>2. UNCHANGED <<counter, log>>
    BY <1>4 DEF UpdateCursorInD1
  <2> QED BY <1>1, <2>1, <2>2 DEF RetainedVersions
<1>5. ASSUME NEW x \in Workspaces, NEW retention \in Retentions,
             GcInD1(x, retention)
      PROVE  (cursors'[w][d].version + 1)..counter'[w]
               \subseteq RetainedVersions(w)'
  <2>1. PICK t \in Recent : \/ gcTombstones(x, retention + (now - t))
                            \/ gcChangeLog(x, retention + (now - t))
    BY <1>5 DEF GcInD1
  <2> DEFINE age == retention + (now - t)
  <2>2. gcTombstones(x, age) \/ gcChangeLog(x, age)
    BY <2>1
  <2> HIDE DEF age
  <2>3. ForgetStaleCursors(x, age) /\ counter' = counter
    BY <2>2 DEF gcTombstones, gcChangeLog
  <2>4. /\ cursors'[w][d] = cursors[w][d]
        /\ x = w => d \in LiveDevices(w, age)
    BY <1>1, <2>3 DEF ForgetStaleCursors
  <2>5. ASSUME NEW e \in log, e.ws = w, e.version > cursors[w][d].version
        PROVE  e \in log'
    <3>1. e.version \in Nat
      BY DEF D1Inv, TypeOKD1, TypeOK, Entry
    <3>2. x = w => ~ Prunable(w, age, e.version, e.createdAt)
      BY <1>1, <2>4, <2>5, <3>1 DEF Prunable
    <3> QED BY <2>2, <2>5, <3>2 DEF gcTombstones, gcChangeLog
  <2>6. ASSUME NEW v \in (cursors[w][d].version + 1)..counter[w]
        PROVE  v \in RetainedVersions(w)'
    <3>1. PICK e \in log : e.ws = w /\ e.version = v
      BY DEF RetainedVersions
    <3>2. e.version > cursors[w][d].version
      BY <1>1, <3>1
    <3> QED BY <2>5, <3>1, <3>2 DEF RetainedVersions
  <2> QED BY <2>3, <2>4, <2>6
<1>6. ASSUME NEW r \in Requests,
             \/ \E x \in Workspaces, user \in Sessions, batch \in Batches :
                  BeginPushInD1(r, x, user, batch)
             \/ ReadProcessedOps(r) \/ ReadOwners(r) \/ ReadRows(r)
             \/ ReadTombstones(r) \/ BatchRejected(r)
             \/ ResolveOps(r) \/ EndRequest(r)
      PROVE  UNCHANGED <<counter, log, cursors>>
  <2>1. UNCHANGED vars
    BY <1>6, ZenonT(60) DEF BeginPushInD1, ReadProcessedOps, ReadOwners,
       ReadRows, ReadTombstones, BatchRejected, ResolveOps, EndRequest
  <2> QED BY <2>1 DEF vars
<1>7. TickInD1 \/ UNCHANGED d1vars => UNCHANGED <<counter, log, cursors>>
  BY DEF TickInD1, Tick, d1vars
<1> QED BY <1>2, <1>3, <1>4, <1>5, <1>6, <1>7 DEF NextD1

\* A registered device that can catch up stays able to.
THEOREM D1DevicesCatchUp == SpecD1 => ActiveDeviceCatchesUp
<1> DEFINE Kept ==
      \A w \in Workspaces, d \in Devices :
        /\ cursors[w][d] # NoCursor
        /\ cursors'[w][d] # NoCursor
        /\ CanCatchUp(w, cursors[w][d].version)
        => CanCatchUp(w, cursors[w][d].version)'
<1>1. D1Inv /\ D1Inv' /\ [NextD1]_d1vars => Kept
  BY D1LogAboveCursorKept DEF CanCatchUp
<1> QED BY <1>1, D1Invariant, PTL DEF SpecD1, ActiveDeviceCatchesUp
=============================================================================
