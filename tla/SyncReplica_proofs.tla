------------------------- MODULE SyncReplica_proofs -------------------------
(***************************************************************************)
(* Proofs about SyncReplica: what a device holds, for all sets of          *)
(* operations, records and devices, all page sizes and all bounds.         *)
(***************************************************************************)
EXTENDS SyncReplica, SyncStore_proofs

-----------------------------------------------------------------------------
(* Greatest and least elements.                                            *)

\* A bounded set of versions has a newest one, and Max is it.
LEMMA MaxOfVersions ==
  ASSUME NEW S \in SUBSET Nat, S # {}, NEW b \in Nat, \A x \in S : x <= b
  PROVE  Max(S) \in S /\ \A x \in S : x <= Max(S)
<1> DEFINE T == {b - x : x \in S}
<1>1. T \in SUBSET Nat /\ T # {}
  <2>1. \A x \in S : x \in Nat /\ b - x \in Nat
    OBVIOUS
  <2> QED BY <2>1
<1>2. PICK m \in T : \A n \in T : m <= n
  <2> HIDE DEF T
  <2> QED BY <1>1, NatHasMin
<1>3. PICK x \in S : m = b - x
  BY <1>2
<1>4. \A y \in S : x >= y
  BY <1>2, <1>3
<1> QED BY <1>4 DEF Max

\* A set of versions has an oldest one, and Min is it.
LEMMA MinOfVersions ==
  ASSUME NEW S \in SUBSET Nat, S # {}
  PROVE  Min(S) \in S /\ \A x \in S : Min(S) <= x
BY NatHasMin DEF Min

\* The operation of f wins over that of e.
Beats(f, e) == lwwExcludedWins(RevisionOf(f.op), RevisionOf(e.op))

Unbeaten(e, entries) == \A f \in entries : ~ Beats(f, e)

LEMMA EntryRevision ==
  ASSUME NEW e \in Entry
  PROVE  e.op \in Operation /\ RevisionOf(e.op) \in Revision
BY RevisionOfOp DEF Entry

\* Some entry of a finite set is beaten by none: one with the fewest that
\* beat it.
LEMMA WinnerExists ==
  ASSUME NEW F \in SUBSET Entry, IsFiniteSet(F), F # {}
  PROVE  \E e \in F : Unbeaten(e, F)
<1> DEFINE winners(e) == {f \in F : Beats(f, e)}
           T == {winners(e) : e \in F}
           R == StrictSubsetOrdering(F)
<1>1. T \subseteq FiniteSubsetsOf(F) /\ T # {}
  <2>1. \A e \in F : winners(e) \in SUBSET F /\ IsFiniteSet(winners(e))
    BY FS_Subset
  <2> HIDE DEF winners
  <2> QED BY <2>1 DEF FiniteSubsetsOf
<1>2. IsWellFoundedOn(R, FiniteSubsetsOf(F))
  BY FS_StrictSubsetOrderingWellFounded
<1>3. PICK W \in T : \A V \in T : <<V, W>> \notin R
  <2> HIDE DEF T, R
  <2> QED BY <1>1, <1>2, WFMin
<1>4. PICK e \in F : W = winners(e)
  BY <1>3
<1>5. ASSUME NEW f \in F, Beats(f, e)
      PROVE  FALSE
  <2>1. winners(f) \subseteq winners(e)
    BY <1>4, <1>5, EntryRevision, WinsTransitive DEF Beats
  <2>2. f \in winners(e) /\ f \notin winners(f)
    BY <1>4, <1>5, EntryRevision, WinsIrreflexive DEF Beats
  <2>3. <<winners(f), winners(e)>> \in R
    BY <2>1, <2>2 DEF StrictSubsetOrdering
  <2> QED BY <1>3, <1>4, <2>3
<1> QED BY <1>5 DEF Unbeaten

-----------------------------------------------------------------------------
(* Merging.                                                                *)

\* An op_id, with its clock and HLC, names one operation.
Unambiguous(entries) ==
  \A e, f \in entries : RevisionOf(e.op) = RevisionOf(f.op) => e.op = f.op

LEMMA ChangeItemType ==
  ASSUME NEW op \in Operation
  PROVE  /\ ChangeItem(op) \in Item /\ ChangeItem(op) \in Row
         /\ ChangeItem(op) # NoRow
         /\ ChangeItem(op).rev = RevisionOf(op)
<1>1. CASE op.kind = "delete"
  <2> DEFINE item == [rev |-> RevisionOf(op), deleted |-> TRUE, data |-> NoData]
  <2>1. ChangeItem(op) = item
    BY <1>1 DEF ChangeItem
  <2>2. item \in Row
    BY RevisionOfOp DEF Row
  <2>3. item.rev = RevisionOf(op) /\ item.deleted /\ item.data = NoData
    OBVIOUS
  <2> HIDE DEF item
  <2>4. item.deleted = (item.data = NoData)
    BY <2>2, <2>3, Zenon DEF Row
  <2> QED BY <2>1, <2>2, <2>3, <2>4, Sentinels DEF Item
<1>2. CASE op.kind # "delete"
  <2> DEFINE item == [rev |-> RevisionOf(op), deleted |-> FALSE, data |-> op]
  <2>1. ChangeItem(op) = item
    BY <1>2 DEF ChangeItem
  <2>2. item \in Row
    BY RevisionOfOp DEF Row
  <2>3. item.rev = RevisionOf(op) /\ ~ item.deleted /\ item.data # NoData
    BY Sentinels
  <2> HIDE DEF item
  <2>4. item.deleted = (item.data = NoData)
    BY <2>2, <2>3, Zenon DEF Row
  <2> QED BY <2>1, <2>2, <2>3, <2>4, Sentinels DEF Item
<1> QED BY <1>1, <1>2

\* The merge is the change of an entry that none beats.
LEMMA MergeIs ==
  ASSUME NEW entries \in SUBSET Entry, Unambiguous(entries),
         NEW e \in entries, Unbeaten(e, entries)
  PROVE  MergeOf(entries) = ChangeItem(e.op)
<1> DEFINE c == CHOOSE x \in entries :
                  \A f \in entries :
                    ~ lwwExcludedWins(RevisionOf(f.op), RevisionOf(x.op))
<1>1. c \in entries /\ \A f \in entries : ~ Beats(f, c)
  BY DEF Unbeaten, Beats
<1>2. MergeOf(entries) = ChangeItem(c.op)
  BY DEF MergeOf
<1> HIDE DEF c
<1>3. RevisionOf(c.op) = RevisionOf(e.op)
  BY <1>1, EntryRevision, WinsTotal DEF Unbeaten, Beats
<1> QED BY <1>1, <1>2, <1>3 DEF Unambiguous

LEMMA MergeType ==
  ASSUME NEW entries \in SUBSET Entry, IsFiniteSet(entries)
  PROVE  MergeOf(entries) \in Item \cup {NoRow}
<1>1. CASE entries = {}
  BY <1>1 DEF MergeOf
<1>2. CASE entries # {}
  <2> DEFINE c == CHOOSE x \in entries :
                    \A f \in entries :
                      ~ lwwExcludedWins(RevisionOf(f.op), RevisionOf(x.op))
  <2>1. c \in entries
    BY <1>2, WinnerExists DEF Unbeaten, Beats
  <2>2. MergeOf(entries) = ChangeItem(c.op)
    BY <1>2 DEF MergeOf
  <2> HIDE DEF c
  <2> QED BY <2>1, <2>2, EntryRevision, ChangeItemType
<1> QED BY <1>1, <1>2

\* The merge with more entries is the old one with their winner received.
LEMMA MergeExtends ==
  ASSUME NEW E \in SUBSET Entry, NEW F \in SUBSET Entry,
         IsFiniteSet(E), IsFiniteSet(F), Unambiguous(E \cup F),
         NEW k \in Records, NEW table \in Items, table[k] = MergeOf(E)
  PROVE  MergeOf(E \cup F) =
           IF F = {} THEN table[k]
           ELSE Received(table, k,
                  ChangeItem(CHOOSE op \in {f.op : f \in F} :
                    \A o \in {f.op : f \in F} :
                      ~ lwwExcludedWins(RevisionOf(o), RevisionOf(op))))[k]
<1> DEFINE ops == {f.op : f \in F}
           winner == CHOOSE op \in ops :
                       \A o \in ops : ~ lwwExcludedWins(RevisionOf(o), RevisionOf(op))
<1>1. CASE F = {}
  <2>1. E \cup F = E
    BY <1>1
  <2> QED BY <1>1, <2>1
<1>2. ASSUME F # {}
      PROVE  MergeOf(E \cup F) = Received(table, k, ChangeItem(winner))[k]
  <2>1. PICK f \in F : Unbeaten(f, F)
    BY <1>2, WinnerExists
  <2>2. /\ winner \in ops
        /\ \A o \in ops : ~ lwwExcludedWins(RevisionOf(o), RevisionOf(winner))
    BY <2>1 DEF Unbeaten, Beats
  <2>3. PICK g \in F : g.op = winner
    BY <2>2
  <2>4. Unbeaten(g, F)
    BY <2>2, <2>3 DEF Unbeaten, Beats
  <2>5. /\ g \in Entry /\ ChangeItem(g.op).rev = RevisionOf(g.op)
        /\ RevisionOf(g.op) \in Revision
    BY EntryRevision, ChangeItemType
  <2> HIDE DEF winner, ops
  <2>6. CASE E = {}
    <3>1. table[k] = NoRow
      BY <2>6 DEF MergeOf
    <3>2. Received(table, k, ChangeItem(g.op))[k] = ChangeItem(g.op)
      BY <3>1 DEF Received, Items
    <3>3. E \cup F = F
      BY <2>6
    <3>4. MergeOf(F) = ChangeItem(g.op)
      BY <2>4, <3>3, MergeIs
    <3> QED BY <2>3, <3>2, <3>3, <3>4
  <2>7. CASE E # {}
    <3>1. PICK e \in E : Unbeaten(e, E)
      BY <2>7, WinnerExists
    <3>2. Unambiguous(E)
      BY DEF Unambiguous
    <3>3. table[k] = ChangeItem(e.op)
      BY <3>1, <3>2, MergeIs
    <3>4. /\ e \in Entry /\ ChangeItem(e.op).rev = RevisionOf(e.op)
          /\ RevisionOf(e.op) \in Revision /\ ChangeItem(e.op) # NoRow
      BY EntryRevision, ChangeItemType
    <3>5. incomingRevisionWins(ChangeItem(g.op).rev, table[k].rev) <=> Beats(g, e)
      BY <2>5, <3>3, <3>4, TwoComparisonsAgree DEF Beats
    <3>6. CASE Beats(g, e)
      <4>1. Received(table, k, ChangeItem(g.op))[k] = ChangeItem(g.op)
        BY <3>5, <3>6 DEF Received, Items
      <4>2. ASSUME NEW x \in E, Beats(x, g)
            PROVE  FALSE
        <5>1. Beats(x, e)
          BY <2>5, <3>4, <3>6, <4>2, EntryRevision, WinsTransitive DEF Beats
        <5> QED BY <3>1, <5>1 DEF Unbeaten
      <4>3. Unbeaten(g, E \cup F)
        BY <2>4, <4>2 DEF Unbeaten
      <4>4. MergeOf(E \cup F) = ChangeItem(g.op)
        BY <4>3, MergeIs
      <4> QED BY <2>3, <4>1, <4>4
    <3>7. CASE ~ Beats(g, e)
      <4>1. Received(table, k, ChangeItem(g.op))[k] = table[k]
        BY <3>3, <3>4, <3>5, <3>7 DEF Received
      <4>2. ASSUME NEW x \in F, Beats(x, e)
            PROVE  FALSE
        <5>1. ~ Beats(x, g) /\ RevisionOf(x.op) \in Revision
          BY <2>4, EntryRevision DEF Unbeaten
        <5>2. RevisionOf(x.op) = RevisionOf(g.op) \/ Beats(g, x)
          BY <2>5, <5>1, WinsTotal DEF Beats
        <5>3. Beats(g, e)
          BY <2>5, <3>4, <4>2, <5>1, <5>2, WinsTransitive DEF Beats
        <5> QED BY <3>7, <5>3
      <4>3. Unbeaten(e, E \cup F)
        BY <3>1, <4>2 DEF Unbeaten
      <4>4. MergeOf(E \cup F) = ChangeItem(e.op)
        BY <4>3, MergeIs
      <4> QED BY <2>3, <3>3, <4>1, <4>4
    <3> QED BY <3>6, <3>7
  <2> QED BY <2>6, <2>7
<1> QED BY <1>1, <1>2

-----------------------------------------------------------------------------
(* The history.                                                            *)

\* The history of a workspace up to a version is finite.
LEMMA EntriesFinite ==
  ASSUME SyncInv, NEW w, NEW n \in Nat,
         NEW E \in SUBSET {e \in history : e.ws = w /\ e.version <= n}
  PROVE  IsFiniteSet(E) /\ E \in SUBSET Entry
<1> DEFINE f == [e \in E |-> e.version]
<1>1. \A e \in E : e \in history /\ e \in Entry /\ e.ws = w /\ e.version <= n
  BY DEF SyncInv, TypeOK
<1>2. f \in [E -> 0..n]
  BY <1>1 DEF Entry
<1>3. \A a, b \in E : f[a] = f[b] => a = b
  BY <1>1 DEF SyncInv, VersionsContiguous
<1>4. f \in Injection(E, 0..n)
  BY <1>2, <1>3 DEF Injection, IsInjective
<1>5. IsFiniteSet(0..n)
  BY FS_Interval
<1> QED BY <1>1, <1>4, <1>5, FS_Injection

\* What every step does to history and log: it assigns versions above the
\* counter, never takes an entry back, and never logs a pruned one again.
HistoryMoves ==
  /\ history \subseteq history'
  /\ \A e \in history' \ history : e.ws \in Workspaces /\ e.version > counter[e.ws]
  /\ \A w \in Workspaces : counter[w] <= counter'[w]
  /\ \A e \in history : e \in log' => e \in log

LEMMA StepMovesHistory ==
  ASSUME SyncInv, [Next]_vars
  PROVE  HistoryMoves
<1>1. CASE CommitPush
  <2>1. /\ tx # NoTx /\ tx \in Transaction
        /\ counter' = [counter EXCEPT ![tx.ws] = tx.base + tx.size]
        /\ log' = log \cup tx.entries /\ history' = history \cup tx.entries
    BY <1>1 DEF CommitPush, SyncInv, TypeOK
  <2>2. /\ tx.ws \in Workspaces /\ tx.base \in Nat /\ tx.size \in Nat
        /\ tx.entries \in SUBSET Entry /\ tx.offset \in Nat
    BY <2>1 DEF Transaction
  <2>3. PushFillsBlock
    BY <2>1 DEF SyncInv
  <2>4. ASSUME NEW e \in tx.entries
        PROVE  e.ws = tx.ws /\ e.version > counter[tx.ws]
    BY <2>2, <2>3, <2>4 DEF PushFillsBlock, Entry
  <2>5. ASSUME NEW e \in history
        PROVE  e \notin tx.entries
    <3>1. e.version <= counter[e.ws] /\ e.version \in Nat /\ e.ws \in Workspaces
      BY DEF SyncInv, TypeOK, VersionsContiguous, Entry
    <3>2. counter[e.ws] \in Nat
      BY <3>1 DEF SyncInv, TypeOK
    <3> QED BY <2>4, <3>1, <3>2
  <2>6. \A w \in Workspaces : counter[w] <= counter'[w]
    BY <2>1, <2>2, <2>3 DEF PushFillsBlock, SyncInv, TypeOK
  <2>7. \A e \in history' \ history : e.ws \in Workspaces /\ e.version > counter[e.ws]
    BY <2>1, <2>2, <2>4
  <2>8. \A e \in history : e \in log' => e \in log
    BY <2>1, <2>5
  <2> QED BY <2>1, <2>6, <2>7, <2>8 DEF HistoryMoves
<1>2. CASE UNCHANGED <<counter, history>> /\ log' \subseteq log
  BY <1>2 DEF HistoryMoves, SyncInv, TypeOK
<1>3. CASE ~ CommitPush
  <2>1. UNCHANGED <<counter, history>> /\ log' \subseteq log
    BY <1>3, ZenonT(60) DEF Next, BeginPush, ReplayOp, WriteOp, AbortPush,
       UpdateCursor, gcTombstones, gcChangeLog, Tick, vars
  <2> QED BY <1>2, <2>1
<1> QED BY <1>1, <1>3

\* The entries of a history on a record, up to a version.
UpTo(entries, w, k, n) ==
  {e \in entries : e.ws = w /\ e.op.record = k /\ e.version <= n}

\* What was accepted up to a version the counter has reached is settled.
LEMMA PastIsKept ==
  ASSUME SyncInv, SyncInv', HistoryMoves, NEW w \in Workspaces, NEW k,
         NEW n \in Nat, n <= counter[w]
  PROVE  UpTo(history', w, k, n) = UpTo(history, w, k, n)
<1>1. counter[w] \in Nat
  BY DEF SyncInv, TypeOK
<1>2. ASSUME NEW e \in history' \ history, e.ws = w, e.version <= n
      PROVE  FALSE
  <2>1. e.version > counter[w]
    BY <1>2 DEF HistoryMoves
  <2>2. e.version \in Nat
    BY <1>2 DEF SyncInv, TypeOK, Entry
  <2> QED BY <1>1, <1>2, <2>1, <2>2
<1> QED BY <1>2 DEF UpTo, HistoryMoves

-----------------------------------------------------------------------------
(* More about the store: its bound, and what the row of a notification     *)
(* holds.                                                                  *)

CountersBounded ==
  /\ \A w \in Workspaces : counter[w] <= MaxVersion
  /\ tx # NoTx => tx.base + tx.size <= MaxVersion

\* The row of a notification, deleted or not, holds an accepted put.
NoticeHoldsPut(table, w, entries) ==
  \A k \in Notifications : table[k] # NoRow =>
    \E e \in entries : /\ e.ws = w /\ e.op.record = k /\ e.op.kind = "put"
                       /\ table[k].data = e.op

NoticesHoldPuts ==
  /\ \A w \in Workspaces : NoticeHoldsPut(rows[w], w, history)
  /\ tx # NoTx => NoticeHoldsPut(tx.rows, tx.ws, history \cup tx.entries)

StoreInv == SyncInv /\ CountersBounded /\ NoticesHoldPuts

LEMMA BoundStep ==
  ASSUME StoreInv, [Next]_vars
  PROVE  CountersBounded'
<1>1. CASE UNCHANGED <<counter, tx>>
  BY <1>1 DEF StoreInv, CountersBounded
<1>2. ASSUME NEW w \in Workspaces, NEW user, NEW batch, BeginPush(w, user, batch)
      PROVE  CountersBounded'
  BY <1>2 DEF StoreInv, CountersBounded, BeginPush
<1>3. ASSUME NEW i \in tx.todo, tx # NoTx, ReplayOp(i) \/ WriteOp(i)
      PROVE  CountersBounded'
  <2>1. tx \in Transaction
    BY <1>3 DEF StoreInv, SyncInv, TypeOK
  <2>2. tx'.base = tx.base /\ tx'.size = tx.size /\ counter' = counter
    BY <1>3, <2>1 DEF ReplayOp, WriteOp, Transaction
  <2> QED BY <1>3, <2>2 DEF StoreInv, CountersBounded
<1>4. CASE CommitPush
  BY <1>4 DEF CommitPush, StoreInv, CountersBounded, SyncInv, TypeOK
<1>5. CASE AbortPush
  BY <1>5 DEF AbortPush, StoreInv, CountersBounded
<1> QED BY <1>1, <1>2, <1>3, <1>4, <1>5
        DEF Next, UpdateCursor, gcTombstones, gcChangeLog, Tick, vars

LEMMA NoticeStep ==
  ASSUME StoreInv, [Next]_vars
  PROVE  NoticesHoldPuts'
<1>1. CASE UNCHANGED <<rows, tx, history>>
  BY <1>1 DEF StoreInv, NoticesHoldPuts, NoticeHoldsPut
<1>2. ASSUME NEW w \in Workspaces, NEW user, NEW batch, BeginPush(w, user, batch)
      PROVE  NoticesHoldPuts'
  <2>1. /\ UNCHANGED <<rows, history>> /\ tx'.rows = rows[w] /\ tx'.ws = w
        /\ tx'.entries = {}
    BY <1>2 DEF BeginPush
  <2> QED BY <2>1 DEF StoreInv, NoticesHoldPuts, NoticeHoldsPut
<1>3. ASSUME NEW i \in tx.todo, tx # NoTx, ReplayOp(i)
      PROVE  NoticesHoldPuts'
  <2>1. tx \in Transaction
    BY <1>3 DEF StoreInv, SyncInv, TypeOK
  <2>2. /\ UNCHANGED <<rows, history>> /\ tx'.rows = tx.rows /\ tx'.ws = tx.ws
        /\ tx'.entries = tx.entries
    BY <1>3, <2>1 DEF ReplayOp, Transaction
  <2> QED BY <1>3, <2>2 DEF StoreInv, NoticesHoldPuts, NoticeHoldsPut
<1>4. ASSUME NEW i \in tx.todo, tx # NoTx, WriteOp(i)
      PROVE  NoticesHoldPuts'
  <2> DEFINE op == tx.batch[i]
             x == op.record
             row == tx.rows[x]
             new == IF op.kind = "put" THEN PutRow(op, row, tx.tombstones[x])
                    ELSE DeleteRow(op, row)
             entry == [ws |-> tx.ws, version |-> tx.base + tx.offset + 1,
                       op |-> op, createdAt |-> tx.now]
  <2>1. /\ tx \in Transaction /\ UNCHANGED <<rows, history>>
        /\ NoticeHoldsPut(tx.rows, tx.ws, history \cup tx.entries)
    BY <1>4 DEF StoreInv, NoticesHoldPuts, SyncInv, TypeOK, WriteOp
  <2>2. op \in Operation /\ x \in Records
    <3>1. i \in DOMAIN tx.batch /\ tx.batch \in Seq(Operation)
      BY <1>4, <2>1 DEF StoreInv, SyncInv, TypeOK, Transaction
    <3> QED BY <3>1, BatchType DEF Operation
  <2>3. ~ NotOwner(tx.rows, op, tx.user)
    BY <1>4 DEF StoreInv, SyncInv, PushCanContinue
  <2>4. /\ tx'.rows = [tx.rows EXCEPT ![x] = new] /\ tx'.ws = tx.ws
        /\ tx'.entries = tx.entries \cup {entry}
    BY <1>4, <2>1, <2>3 DEF WriteOp, Transaction
  <2>5. entry.ws = tx.ws /\ entry.op = op
    OBVIOUS
  <2> HIDE DEF entry
  <2>6. ASSUME x \in Notifications, new # row, new # NoRow
        PROVE  \/ new.data = op /\ op.kind = "put"
               \/ row # NoRow /\ new.data = row.data
    <3>1. CASE op.kind = "put"
      BY <2>6, <3>1 DEF PutRow
    <3>2. CASE op.kind # "put"
      <4>1. op.kind = "delete"
        BY <2>2, <3>2 DEF Operation
      <4>2. row # NoRow /\ new = DeleteRow(op, row)
        BY <2>3, <2>6, <4>1 DEF NotOwner
      <4>3. row \in Row
        BY <2>1, <2>2, <4>2 DEF Transaction
      <4> HIDE DEF row, op
      <4>4. new = [row EXCEPT !.rev = RevisionOf(op), !.deleted = TRUE]
        BY <2>6, <4>2 DEF DeleteRow
      <4>5. new.data = row.data
        BY <4>3, <4>4 DEF Row
      <4> QED BY <4>2, <4>5
    <3> QED BY <3>1, <3>2
  <2> HIDE DEF new, op
  <2>7. ASSUME NEW k \in Notifications, tx'.rows[k] # NoRow
        PROVE  \E e \in history \cup tx'.entries :
                 /\ e.ws = tx.ws /\ e.op.record = k /\ e.op.kind = "put"
                 /\ tx'.rows[k].data = e.op
    <3>1. k \in Records /\ tx.rows \in [Records -> Row \cup {NoRow}]
      BY <2>1, SyncConstants DEF Transaction
    <3>2. CASE k = x /\ new # row
      <4>1. tx'.rows[k] = new
        BY <2>4, <3>1, <3>2
      <4>2. CASE new.data = op /\ op.kind = "put"
        BY <2>4, <2>5, <3>2, <4>1, <4>2
      <4>3. CASE row # NoRow /\ new.data = row.data
        BY <2>1, <2>4, <2>7, <3>2, <4>1, <4>3 DEF NoticeHoldsPut
      <4> QED BY <2>6, <2>7, <3>2, <4>1, <4>2, <4>3
    <3>3. CASE k # x \/ new = row
      <4>1. tx'.rows[k] = tx.rows[k]
        BY <2>4, <3>1, <3>3
      <4> QED BY <2>1, <2>4, <2>7, <4>1 DEF NoticeHoldsPut
    <3> QED BY <3>2, <3>3
  <2>8. NoticeHoldsPut(tx'.rows, tx'.ws, history' \cup tx'.entries)
    BY <2>1, <2>4, <2>7 DEF NoticeHoldsPut
  <2> QED BY <2>1, <2>8 DEF StoreInv, NoticesHoldPuts, NoticeHoldsPut
<1>5. CASE CommitPush
  <2>1. /\ tx # NoTx /\ tx \in Transaction /\ tx' = NoTx
        /\ rows' = [rows EXCEPT ![tx.ws] = tx.rows]
        /\ history' = history \cup tx.entries
        /\ NoticeHoldsPut(tx.rows, tx.ws, history \cup tx.entries)
    BY <1>5 DEF CommitPush, StoreInv, NoticesHoldPuts, SyncInv, TypeOK
  <2>2. ASSUME NEW w \in Workspaces
        PROVE  NoticeHoldsPut(rows'[w], w, history')
    <3>1. CASE w = tx.ws
      BY <2>1, <3>1 DEF StoreInv, SyncInv, TypeOK
    <3>2. CASE w # tx.ws
      <4>1. rows'[w] = rows[w]
        BY <2>1, <3>2 DEF StoreInv, SyncInv, TypeOK
      <4> QED BY <2>1, <4>1 DEF StoreInv, NoticesHoldPuts, NoticeHoldsPut
    <3> QED BY <3>1, <3>2
  <2> QED BY <2>1, <2>2 DEF NoticesHoldPuts
<1>6. CASE AbortPush
  BY <1>6 DEF AbortPush, StoreInv, NoticesHoldPuts, NoticeHoldsPut
<1> QED BY <1>1, <1>2, <1>3, <1>4, <1>5, <1>6
        DEF Next, UpdateCursor, gcTombstones, gcChangeLog, Tick, vars

LEMMA StoreInvStep ==
  ASSUME StoreInv, [Next]_vars
  PROVE  StoreInv' /\ HistoryMoves
BY BoundStep, NoticeStep, SyncInvStep, StepMovesHistory DEF StoreInv

-----------------------------------------------------------------------------
(* Where devices are.                                                      *)

ReadTypes ==
  /\ snapshots \in [SnapshotIds -> Snapshot \cup {NoSnapshot}]
  /\ calls \in [Devices -> SnapshotCall \cup PullCall \cup {NoCall}]
  /\ replicas \in [Devices -> Replica]

InPull(d) == ~ Idle(d) /\ ~ InSnapshot(d)

\* The snapshot a device reads is one of what it follows, not older than what
\* the device holds; it may have expired and be gone.
MadeFor(d, id) ==
  snapshots[id] # NoSnapshot =>
    /\ snapshots[id].ws = WorkspaceOf[d]
    /\ snapshots[id].tables = Follows[d]
    /\ replicas[d].cursor <= snapshots[id].watermark

\* Where a device is: in a bootstrap, in a snapshot call, or pulling.
Placed(d) ==
  LET call == calls[d]
      boot == replicas[d].boot
      cursor == replicas[d].cursor
      reached == counter[WorkspaceOf[d]]
  IN  /\ boot # NoBoot => replicas[d].stale /\ MadeFor(d, boot.id)
      /\ InSnapshot(d) =>
           /\ replicas[d].stale /\ MadeFor(d, call.id)
           /\ snapshots[call.id] # NoSnapshot =>
                snapshots[call.id].watermark = call.watermark
           /\ cursor <= call.watermark /\ call.watermark <= reached
           /\ IF boot = NoBoot THEN call.after = 0
              ELSE call.id = boot.id /\ call.after = boot.after
      /\ InPull(d) =>
           /\ ~ replicas[d].stale /\ IsFiniteSet(call.page)
           /\ cursor <= call.nextCursor /\ call.nextCursor <= reached

SnapshotsReached ==
  \A id \in SnapshotIds : snapshots[id] # NoSnapshot =>
    snapshots[id].watermark <= counter[snapshots[id].ws]

ReplicaInv ==
  /\ StoreInv /\ ReadTypes /\ CheckInsAccepted /\ SnapshotsReached
  /\ \A d \in Devices : Placed(d)

\* A device checks in with a version the counter bounds, so every step is a
\* step of the store or leaves it alone.
LEMMA RunsTheStore ==
  ASSUME ReplicaInv, [ReplicaNext]_allVars
  PROVE  [Next]_vars
<1>1. ASSUME NEW d \in Devices, CheckIn(d)
      PROVE  Next
  <2>1. WorkspaceOf[d] \in Workspaces /\ UserOf[d] \in Users
    BY ReplicaConstants
  <2>2. replicas[d].cursor \in Nat
    BY DEF ReplicaInv, ReadTypes, Replica
  <2>3. /\ replicas[d].cursor <= counter[WorkspaceOf[d]]
        /\ counter[WorkspaceOf[d]] <= MaxVersion
        /\ counter[WorkspaceOf[d]] \in Nat
    BY <2>1 DEF ReplicaInv, CheckInsAccepted, StoreInv, CountersBounded,
       SyncInv, TypeOK
  <2>4. replicas[d].cursor \in 0..MaxVersion
    BY <2>2, <2>3, SyncConstants
  <2> QED BY <1>1, <2>1, <2>4 DEF CheckIn, Next
<1>2. CASE StoreStep
  BY <1>1, <1>2 DEF StoreStep, Next, TickReading
<1>3. CASE UNCHANGED storeVars
  BY <1>3 DEF storeVars
<1> QED BY <1>2, <1>3 DEF ReplicaNext, PullPage, PullOldest, PullCounter, Capture,
        ReadCreated, RequestPage, ReadItems, AbandonCall, allVars, storeVars

\* A device no step of another touches stays where it is.
LEMMA PlacedKept ==
  ASSUME ReplicaInv, StoreInv', HistoryMoves, NEW d \in Devices,
         calls'[d] = calls[d], replicas'[d] = replicas[d],
         \A id \in SnapshotIds :
           \/ snapshots'[id] \in {snapshots[id], NoSnapshot}
           \/ /\ InSnapshot(d) => id # calls[d].id
              /\ replicas[d].boot # NoBoot => id # replicas[d].boot.id
  PROVE  Placed(d)'
<1>1. Placed(d) /\ calls[d] \in SnapshotCall \cup PullCall \cup {NoCall}
      /\ replicas[d] \in Replica
  BY DEF ReplicaInv, ReadTypes
<1>2. WorkspaceOf[d] \in Workspaces
  BY ReplicaConstants
<1>3. /\ counter[WorkspaceOf[d]] \in Nat /\ counter'[WorkspaceOf[d]] \in Nat
      /\ counter[WorkspaceOf[d]] <= counter'[WorkspaceOf[d]]
  BY <1>2 DEF ReplicaInv, StoreInv, SyncInv, TypeOK, HistoryMoves
<1>4. InSnapshot(d) => calls[d].watermark \in Nat /\ calls[d].id \in SnapshotIds
  BY <1>1 DEF InSnapshot, Idle, SnapshotCall, PullCall
<1>5. InPull(d) => calls[d].nextCursor \in Nat
  BY <1>1 DEF InPull, InSnapshot, Idle, SnapshotCall, PullCall
<1>6. replicas[d].boot # NoBoot => replicas[d].boot.id \in SnapshotIds
  BY <1>1 DEF Replica, Boot
<1>7. (InSnapshot(d) <=> InSnapshot(d)') /\ (InPull(d) <=> InPull(d)')
  BY DEF InSnapshot, InPull, Idle
<1>8. ASSUME NEW id \in SnapshotIds, MadeFor(d, id),
             snapshots'[id] \in {snapshots[id], NoSnapshot}
      PROVE  MadeFor(d, id)'
  BY <1>8 DEF MadeFor
<1>9. replicas[d].boot # NoBoot => MadeFor(d, replicas[d].boot.id)'
  BY <1>1, <1>6, <1>8 DEF Placed
<1>10. InSnapshot(d) =>
         /\ MadeFor(d, calls[d].id)'
         /\ snapshots'[calls[d].id] # NoSnapshot =>
              snapshots'[calls[d].id].watermark = calls[d].watermark
  BY <1>1, <1>4, <1>8 DEF Placed
<1> QED BY <1>1, <1>3, <1>4, <1>5, <1>7, <1>9, <1>10 DEF Placed

-----------------------------------------------------------------------------
(* What a page holds.                                                      *)

\* A page of the log: changes above the cursor, of records the device
\* follows, up to the next cursor, which the counter has reached.
LEMMA PageFacts ==
  ASSUME StoreInv, ReadTypes, CheckInsAccepted, NEW d \in Devices
  PROVE  LET page == FirstEntries(Matching(d), PullLimit)
             cursor == replicas[d].cursor
         IN  /\ page \in SUBSET Entry /\ page \subseteq Matching(d)
             /\ IsFiniteSet(page)
             /\ NextCursor(d) \in Nat
             /\ cursor <= NextCursor(d)
             /\ NextCursor(d) <= counter[WorkspaceOf[d]]
             /\ \A e \in page : e.version <= NextCursor(d)
             /\ page = {} => NextCursor(d) = cursor
             /\ page # {} => \E e \in page : e.version = NextCursor(d)
<1> DEFINE page == FirstEntries(Matching(d), PullLimit)
           cursor == replicas[d].cursor
           reached == counter[WorkspaceOf[d]]
           versions == {e.version : e \in page}
<1>1. /\ cursor \in Nat /\ cursor <= reached /\ reached \in Nat
  BY ReplicaConstants
     DEF ReadTypes, Replica, CheckInsAccepted, StoreInv, SyncInv, TypeOK
<1>2. page \subseteq Matching(d)
  BY DEF FirstEntries
<1>3. \A e \in page : /\ e \in log /\ e \in history /\ e \in Entry
                      /\ e.version \in Nat /\ e.version > cursor
                      /\ e.version <= reached
  <2>1. \A e \in page : /\ e \in log /\ e.ws = WorkspaceOf[d] /\ e.version > cursor
    BY <1>2 DEF Matching
  <2>2. log \subseteq history /\ log \subseteq Entry
    BY DEF StoreInv, SyncInv, LogIsSuffix, TypeOK
  <2>3. \A e \in history : e.version \in 1..counter[e.ws]
    BY DEF StoreInv, SyncInv, VersionsContiguous
  <2> HIDE DEF page
  <2> QED BY <1>1, <2>1, <2>2, <2>3 DEF Entry
<1>4. IsFiniteSet(page)
  <2>1. page \in SUBSET {e \in history : e.ws = WorkspaceOf[d] /\ e.version <= reached}
    BY <1>2, <1>3 DEF Matching
  <2> HIDE DEF page
  <2> QED BY <1>1, <2>1, EntriesFinite DEF StoreInv
<1>5. CASE page = {}
  <2>1. NextCursor(d) = cursor
    BY <1>5 DEF NextCursor
  <2> QED BY <1>1, <1>2, <1>4, <1>5, <2>1
<1>6. CASE page # {}
  <2>1. NextCursor(d) = Max(versions)
    BY <1>6 DEF NextCursor
  <2> HIDE DEF page
  <2>2. /\ versions \in SUBSET Nat /\ versions # {}
        /\ \A v \in versions : v <= reached
    BY <1>3, <1>6
  <2>3. Max(versions) \in versions /\ \A v \in versions : v <= Max(versions)
    BY <1>1, <2>2, MaxOfVersions
  <2>4. PICK e \in page : e.version = NextCursor(d)
    BY <2>1, <2>3
  <2>5. \A x \in page : x.version <= NextCursor(d)
    BY <2>1, <2>3
  <2>6. /\ NextCursor(d) \in Nat /\ cursor <= NextCursor(d)
        /\ NextCursor(d) <= reached
    BY <1>1, <1>3, <2>4
  <2>7. page \in SUBSET Entry
    BY <1>3
  <2> QED BY <1>2, <1>4, <1>6, <2>4, <2>5, <2>6, <2>7 DEF page
<1> QED BY <1>5, <1>6

\* Of the changes of a page to one record, one is beaten by none.
LEMMA ChangesWinner ==
  ASSUME NEW P \in SUBSET Entry, IsFiniteSet(P), NEW k,
         {op \in {e.op : e \in P} : op.record = k} # {}
  PROVE  \E op \in {o \in {e.op : e \in P} : o.record = k} :
           \A o \in {o \in {e.op : e \in P} : o.record = k} :
             ~ lwwExcludedWins(RevisionOf(o), RevisionOf(op))
<1> DEFINE F == {e \in P : e.op.record = k}
<1>1. F \in SUBSET Entry /\ IsFiniteSet(F) /\ F # {}
  BY FS_Subset
<1>2. PICK e \in F : Unbeaten(e, F)
  BY <1>1, WinnerExists
<1> QED BY <1>2 DEF Unbeaten, Beats

LEMMA ReceivedType ==
  ASSUME NEW table \in Items, NEW k \in Records, NEW item \in Item
  PROVE  Received(table, k, item)[k] \in Item \cup {NoRow}
BY DEF Received, Items

LEMMA MergeChangesType ==
  ASSUME NEW P \in SUBSET Entry, IsFiniteSet(P), NEW table \in Items
  PROVE  MergeChanges(table, {e.op : e \in P}) \in Items
<1> DEFINE ops == {e.op : e \in P}
           on(k) == {op \in ops : op.record = k}
           winner(k) == CHOOSE op \in on(k) :
             \A o \in on(k) : ~ lwwExcludedWins(RevisionOf(o), RevisionOf(op))
<1>1. ASSUME NEW k \in Records, on(k) # {}
      PROVE  Received(table, k, ChangeItem(winner(k)))[k] \in Item \cup {NoRow}
  <2>1. winner(k) \in on(k)
    BY <1>1, ChangesWinner
  <2>2. winner(k) \in Operation
    BY <2>1, EntryRevision
  <2> QED BY <2>2, ChangeItemType, ReceivedType
<1>2. \A k \in Records : table[k] \in Item \cup {NoRow}
  BY DEF Items
<1>3. MergeChanges(table, ops) =
        [k \in Records |-> IF on(k) = {} THEN table[k]
                           ELSE Received(table, k, ChangeItem(winner(k)))[k]]
  BY DEF MergeChanges
<1> HIDE DEF on, winner, ops
<1>4. MergeChanges(table, ops) \in Items
  BY <1>1, <1>2, <1>3 DEF Items
<1> QED BY <1>4 DEF ops

\* What a capture keeps of a record is an item.
LEMMA SnapshotItemType ==
  ASSUME StoreInv, NEW w \in Workspaces, NEW k \in Records, NEW user
  PROVE  SnapshotItem(w, k, user) \in Item \cup {NoRow}
<1> DEFINE row == rows[w][k]
           grave(rev) == [rev |-> rev, deleted |-> TRUE, data |-> NoData]
<1>1. row \in Row \cup {NoRow} /\ tombstones[w][k] \in Tombstone \cup {NoTombstone}
  BY DEF StoreInv, SyncInv, TypeOK
<1>2. ASSUME NEW rev \in Revision
      PROVE  grave(rev) \in Item
  <2> DEFINE g == grave(rev)
  <2>1. g \in Row /\ g.deleted /\ g.data = NoData
    BY DEF Row
  <2> HIDE DEF g
  <2>2. g.deleted = (g.data = NoData)
    BY <2>1, Zenon DEF Row
  <2>3. g \in Item
    BY <2>1, <2>2 DEF Item
  <2> QED BY <2>3 DEF g
<1>3. ASSUME row # NoRow, ~ row.deleted
      PROVE  row \in Item
  <2>1. row.data \in Operation /\ row \in Row
    BY <1>1, <1>3 DEF StoreInv, SyncInv, RowsHoldWinners, HoldsWinner, TypeOK, Entry
  <2>2. row.data # NoData
    BY <2>1, Sentinels
  <2> HIDE DEF row
  <2>3. row.deleted = (row.data = NoData)
    BY <1>3, <2>1, <2>2, Zenon DEF Row
  <2> QED BY <2>1, <2>3 DEF Item
<1>4. row # NoRow => row.rev \in Revision
  BY <1>1 DEF Row
<1>5. tombstones[w][k] # NoTombstone => tombstones[w][k].rev \in Revision
  BY <1>1 DEF Tombstone
<1>6. SnapshotItem(w, k, user) \in {NoRow, row, grave(row.rev), grave(tombstones[w][k].rev)}
  BY DEF SnapshotItem
<1> HIDE DEF grave, row
<1>7. /\ SnapshotItem(w, k, user) = row => row = NoRow \/ ~ row.deleted \/ row \in Item
      /\ SnapshotItem(w, k, user) # NoRow /\ row = NoRow
           => /\ tombstones[w][k] # NoTombstone
              /\ SnapshotItem(w, k, user) = grave(tombstones[w][k].rev)
      /\ SnapshotItem(w, k, user) # NoRow /\ row # NoRow
           => SnapshotItem(w, k, user) \in {row, grave(row.rev)}
  BY <1>2, <1>4 DEF SnapshotItem, grave, row
<1> QED BY <1>2, <1>3, <1>4, <1>5, <1>6, <1>7

-----------------------------------------------------------------------------
(* The order of items.                                                     *)

\* Some element of a finite set has the greatest position.
LEMMA LastExists ==
  ASSUME NEW F \in SUBSET Records, IsFiniteSet(F), F # {}
  PROVE  \E m \in F : \A k \in F : Order[k] <= Order[m]
<1> DEFINE later(k) == {j \in F : Order[j] > Order[k]}
           T == {later(k) : k \in F}
           R == StrictSubsetOrdering(F)
<1>1. T \subseteq FiniteSubsetsOf(F) /\ T # {}
  <2>1. \A k \in F : later(k) \in SUBSET F /\ IsFiniteSet(later(k))
    BY FS_Subset
  <2> HIDE DEF later
  <2> QED BY <2>1 DEF FiniteSubsetsOf
<1>2. IsWellFoundedOn(R, FiniteSubsetsOf(F))
  BY FS_StrictSubsetOrderingWellFounded
<1>3. PICK W \in T : \A V \in T : <<V, W>> \notin R
  <2> HIDE DEF T, R
  <2> QED BY <1>1, <1>2, WFMin
<1>4. PICK m \in F : W = later(m)
  BY <1>3
<1>5. \A k \in F : Order[k] \in Nat
  BY ReplicaConstants
<1>6. ASSUME NEW k \in F, Order[k] > Order[m]
      PROVE  FALSE
  <2>1. later(k) \subseteq later(m) /\ k \in later(m) /\ k \notin later(k)
    BY <1>5, <1>6
  <2>2. <<later(k), later(m)>> \in R
    BY <2>1 DEF StrictSubsetOrdering
  <2> QED BY <1>3, <1>4, <2>2
<1> QED BY <1>5, <1>6

\* The position of a page's last item.
LastOf(page) == Max({Order[k] : k \in page})

\* A page that leaves some out is not empty, and what it leaves out comes
\* after its last item.
LEMMA PageItemsFacts ==
  ASSUME ReadTypes, NEW id \in SnapshotIds, NEW after \in Nat,
         PageItems(id, after) # ItemsAfter(id, after)
  PROVE  /\ LastOf(PageItems(id, after)) \in Nat
         /\ after < LastOf(PageItems(id, after))
         /\ \A k \in ItemsAfter(id, after) :
              Order[k] <= LastOf(PageItems(id, after)) <=> k \in PageItems(id, after)
<1> DEFINE left == ItemsAfter(id, after)
           page == PageItems(id, after)
           before(k) == {j \in left : Order[j] < Order[k]}
<1>1. left \subseteq Records /\ \A k \in left : Order[k] \in Nat
  BY ReplicaConstants DEF ItemsAfter
<1>2. /\ page \subseteq left
      /\ \A k \in left : k \in page <=> Cardinality(before(k)) < PageSize
  BY DEF PageItems
<1>3. left # {}
  BY <1>2
<1>4. ASSUME NEW k \in left
      PROVE  IsFiniteSet(before(k)) /\ Cardinality(before(k)) \in Nat
  <2> DEFINE f == [j \in before(k) |-> Order[j]]
  <2>1. f \in [before(k) -> 0..Order[k]]
    BY <1>1, <1>4
  <2>2. \A i, j \in before(k) : f[i] = f[j] => i = j
    BY <1>1, ReplicaConstants
  <2>3. f \in Injection(before(k), 0..Order[k])
    BY <2>1, <2>2 DEF Injection, IsInjective
  <2>4. IsFiniteSet(0..Order[k])
    BY <1>1, <1>4, FS_Interval
  <2>5. IsFiniteSet(before(k))
    BY <2>3, <2>4, FS_Injection
  <2> QED BY <2>5, FS_CardinalityType
<1> HIDE DEF left, page
<1>5. page # {}
  <2> DEFINE positions == {Order[k] : k \in left}
  <2>1. positions \in SUBSET Nat /\ positions # {}
    BY <1>1, <1>3
  <2>2. PICK p \in positions : \A q \in positions : p <= q
    <3> HIDE DEF positions
    <3> QED BY <2>1, NatHasMin
  <2>3. PICK k \in left : p = Order[k]
    BY <2>2
  <2>4. before(k) = {}
    BY <1>1, <2>2, <2>3
  <2>5. Cardinality(before(k)) < PageSize
    <3>1. PageSize \in Nat \ {0} /\ 0 < PageSize
      BY ReplicaConstants
    <3> HIDE DEF before
    <3>2. Cardinality(before(k)) = 0
      BY <2>4, FS_EmptySet
    <3> QED BY <3>1, <3>2
  <2> QED BY <1>2, <2>3, <2>5
<1>6. ASSUME NEW j \in left, NEW k \in left, Order[j] < Order[k]
      PROVE  Cardinality(before(j)) < Cardinality(before(k))
  <2>1. before(j) \in SUBSET before(k)
    BY <1>1, <1>6
  <2>2. j \in before(k) /\ j \notin before(j)
    BY <1>1, <1>6
  <2> HIDE DEF before
  <2>3. /\ Cardinality(before(j)) <= Cardinality(before(k))
        /\ Cardinality(before(j)) # Cardinality(before(k))
    BY <1>4, <2>1, <2>2, FS_Subset
  <2> QED BY <1>4, <2>3
<1>7. IsFiniteSet(page)
  <2> DEFINE f == [k \in page |-> Cardinality(before(k))]
  <2>1. f \in [page -> 0..PageSize]
    <3>1. ASSUME NEW k \in page
          PROVE  Cardinality(before(k)) \in 0..PageSize
      <4>1. k \in left /\ Cardinality(before(k)) < PageSize
        BY <1>2
      <4>2. Cardinality(before(k)) \in Nat
        BY <1>4, <4>1
      <4> HIDE DEF before
      <4> QED BY <4>1, <4>2, ReplicaConstants
    <3> HIDE DEF before
    <3> QED BY <3>1
  <2>2. ASSUME NEW j \in page, NEW k \in page, f[j] = f[k]
        PROVE  j = k
    <3>1. j \in left /\ k \in left /\ j \in Records /\ k \in Records
      BY <1>1, <1>2
    <3>2. Cardinality(before(j)) = Cardinality(before(k))
      BY <2>2
    <3>3. ~ (Order[j] < Order[k]) /\ ~ (Order[k] < Order[j])
      <4>1. Cardinality(before(j)) \in Nat
        BY <1>4, <3>1
      <4> HIDE DEF before
      <4> QED BY <1>6, <3>1, <3>2, <4>1
    <3>4. Order[j] = Order[k]
      BY <1>1, <3>1, <3>3
    <3> QED BY <3>1, <3>4, ReplicaConstants
  <2>3. f \in Injection(page, 0..PageSize)
    BY <2>1, <2>2 DEF Injection, IsInjective
  <2>4. IsFiniteSet(0..PageSize)
    BY FS_Interval, ReplicaConstants
  <2> QED BY <2>3, <2>4, FS_Injection
<1>8. PICK m \in page : \A k \in page : Order[k] <= Order[m]
  BY <1>1, <1>2, <1>5, <1>7, LastExists
<1>9. m \in left /\ Order[m] \in Nat
  BY <1>1, <1>2
<1>10. LastOf(page) = Order[m]
  <2> DEFINE positions == {Order[k] : k \in page}
  <2>1. /\ positions \in SUBSET Nat /\ positions # {}
        /\ Order[m] \in positions /\ \A x \in positions : x <= Order[m]
    BY <1>1, <1>2, <1>8
  <2> HIDE DEF positions
  <2>2. Max(positions) \in positions /\ \A x \in positions : x <= Max(positions)
    BY <1>9, <2>1, MaxOfVersions
  <2>3. Max(positions) = Order[m]
    <3>1. Max(positions) \in Nat
      BY <2>1, <2>2
    <3>2. Max(positions) <= Order[m] /\ Order[m] <= Max(positions)
      BY <2>1, <2>2
    <3> QED BY <1>9, <3>1, <3>2
  <2> QED BY <2>3 DEF LastOf, positions
<1>11. ASSUME NEW k \in left, Order[k] <= Order[m]
       PROVE  k \in page
  <2>1. CASE k = m
    BY <2>1
  <2>2. CASE k # m
    <3>1. Order[k] < Order[m]
      BY <1>1, <1>9, <1>11, <2>2, ReplicaConstants
    <3>2. Cardinality(before(k)) < Cardinality(before(m))
      BY <1>6, <1>9, <3>1
    <3>3. Cardinality(before(m)) < PageSize
      BY <1>2, <1>9
    <3>4. Cardinality(before(k)) \in Nat /\ Cardinality(before(m)) \in Nat
      BY <1>4, <1>9
    <3>5. Cardinality(before(k)) < PageSize
      <4> HIDE DEF before
      <4> QED BY <3>2, <3>3, <3>4, ReplicaConstants
    <3> QED BY <1>2, <3>5
  <2> QED BY <2>1, <2>2
<1>12. after < Order[m]
  BY <1>9 DEF left, ItemsAfter
<1> QED BY <1>8, <1>9, <1>10, <1>11, <1>12 DEF page, left

-----------------------------------------------------------------------------
(* The steps of a device.                                                  *)

\* What a step of device d has to establish.
LEMMA OwnStep ==
  ASSUME ReplicaInv, UNCHANGED vars, NEW d \in Devices,
         NEW call \in SnapshotCall \cup PullCall \cup {NoCall}, NEW replica \in Replica,
         calls' = [calls EXCEPT ![d] = call],
         replicas' = [replicas EXCEPT ![d] = replica],
         snapshots' \in [SnapshotIds -> Snapshot \cup {NoSnapshot}],
         SnapshotsReached', Placed(d)',
         replicas[d].cursor <= replica.cursor,
         replica.cursor <= counter[WorkspaceOf[d]],
         \A id \in SnapshotIds :
           \/ snapshots'[id] \in {snapshots[id], NoSnapshot}
           \/ \A e \in Devices \ {d} :
                /\ InSnapshot(e) => id # calls[e].id
                /\ replicas[e].boot # NoBoot => id # replicas[e].boot.id
  PROVE  ReplicaInv'
<1>1. StoreInv' /\ HistoryMoves
  BY StoreInvStep DEF ReplicaInv
<1>2. ReadTypes'
  BY DEF ReplicaInv, ReadTypes
<1>3. ASSUME NEW e \in Devices \ {d}
      PROVE  Placed(e)' /\ replicas'[e] = replicas[e]
  <2>1. calls'[e] = calls[e] /\ replicas'[e] = replicas[e]
    BY DEF ReplicaInv, ReadTypes
  <2> QED BY <1>1, <2>1, PlacedKept
<1>4. replicas'[d] = replica
  BY DEF ReplicaInv, ReadTypes
<1>5. CheckInsAccepted'
  <2>1. counter' = counter /\ cursors' = cursors
    BY DEF vars
  <2>2. ASSUME NEW e \in Devices, cursors[WorkspaceOf[e]][e] # NoCursor
        PROVE  cursors[WorkspaceOf[e]][e].version \in Nat
    BY <2>2, ReplicaConstants
       DEF ReplicaInv, StoreInv, SyncInv, TypeOK, Cursor
  <2>3. ASSUME NEW e \in Devices
        PROVE  /\ replicas'[e].cursor <= counter'[WorkspaceOf[e]]
               /\ cursors'[WorkspaceOf[e]][e] # NoCursor =>
                    /\ cursors'[WorkspaceOf[e]][e].owner = UserOf[e]
                    /\ cursors'[WorkspaceOf[e]][e].version <= replicas'[e].cursor
    <3>1. /\ replicas[e].cursor \in Nat /\ replica.cursor \in Nat
          /\ replicas[e].cursor <= replicas'[e].cursor
      BY <1>3, <1>4 DEF ReplicaInv, ReadTypes, Replica
    <3>2. replicas'[e].cursor <= counter[WorkspaceOf[e]] /\ replicas'[e].cursor \in Nat
      BY <1>3, <1>4, <3>1 DEF ReplicaInv, CheckInsAccepted
    <3> QED BY <2>1, <2>2, <3>1, <3>2 DEF ReplicaInv, CheckInsAccepted
  <2> QED BY <2>3 DEF CheckInsAccepted
<1> QED BY <1>1, <1>2, <1>3, <1>5 DEF ReplicaInv

\* The facts every step of device d starts from.
LEMMA DeviceFacts ==
  ASSUME ReplicaInv, NEW d \in Devices
  PROVE  /\ calls[d] \in SnapshotCall \cup PullCall \cup {NoCall}
         /\ replicas[d] \in Replica /\ replicas[d].cursor \in Nat
         /\ replicas[d].cursor <= counter[WorkspaceOf[d]]
         /\ counter[WorkspaceOf[d]] \in Nat /\ WorkspaceOf[d] \in Workspaces
         /\ replicas = [replicas EXCEPT ![d] = replicas[d]]
         /\ calls = [calls EXCEPT ![d] = calls[d]]
         /\ Placed(d)
         /\ InSnapshot(d) => calls[d] \in SnapshotCall
         /\ InPull(d) => calls[d] \in PullCall
<1>1. /\ calls[d] \in SnapshotCall \cup PullCall \cup {NoCall}
      /\ replicas[d] \in Replica
      /\ replicas = [replicas EXCEPT ![d] = replicas[d]]
      /\ calls = [calls EXCEPT ![d] = calls[d]]
      /\ Placed(d)
  BY DEF ReplicaInv, ReadTypes
<1>2. WorkspaceOf[d] \in Workspaces
  BY ReplicaConstants
<1>3. /\ counter[WorkspaceOf[d]] \in Nat /\ replicas[d].cursor \in Nat
      /\ replicas[d].cursor <= counter[WorkspaceOf[d]]
  BY <1>1, <1>2 DEF ReplicaInv, CheckInsAccepted, StoreInv, SyncInv, TypeOK, Replica
<1>4. InSnapshot(d) => calls[d] \in SnapshotCall
  BY <1>1 DEF InSnapshot, Idle, SnapshotCall, PullCall
<1>5. InPull(d) => calls[d] \in PullCall
  BY <1>1 DEF InPull, InSnapshot, Idle, SnapshotCall, PullCall
<1> QED BY <1>1, <1>2, <1>3, <1>4, <1>5

\* A step that changes nothing but the call of device d.
LEMMA OwnCall ==
  ASSUME ReplicaInv, NEW d \in Devices,
         NEW call \in SnapshotCall \cup PullCall \cup {NoCall},
         UNCHANGED <<storeVars, snapshots, replicas>>,
         calls' = [calls EXCEPT ![d] = call],
         Placed(d)'
  PROVE  ReplicaInv'
<1>1. UNCHANGED vars
  BY DEF storeVars
<1>2. SnapshotsReached'
  BY <1>1 DEF ReplicaInv, SnapshotsReached, vars
<1>3. /\ snapshots' \in [SnapshotIds -> Snapshot \cup {NoSnapshot}]
      /\ \A id \in SnapshotIds : snapshots'[id] \in {snapshots[id], NoSnapshot}
  BY DEF ReplicaInv, ReadTypes
<1>4. /\ replicas[d] \in Replica /\ replicas[d].cursor <= replicas[d].cursor
      /\ replicas[d].cursor <= counter[WorkspaceOf[d]]
  BY DeviceFacts
<1>5. replicas' = [replicas EXCEPT ![d] = replicas[d]]
  BY DeviceFacts
<1> QED BY <1>1, <1>2, <1>3, <1>4, <1>5, OwnStep

LEMMA AbandonKeeps ==
  ASSUME ReplicaInv, NEW d \in Devices, AbandonCall(d)
  PROVE  ReplicaInv'
<1>1. /\ UNCHANGED vars /\ UNCHANGED <<snapshots, replicas>>
      /\ calls' = [calls EXCEPT ![d] = NoCall]
  BY DEF AbandonCall, storeVars
<1>3. Placed(d)'
  <2>1. calls'[d] = NoCall
    BY <1>1 DEF ReplicaInv, ReadTypes
  <2>2. ~ InSnapshot(d)' /\ ~ InPull(d)'
    BY <2>1 DEF InSnapshot, InPull, Idle
  <2> QED BY <1>1, <2>2, DeviceFacts DEF Placed, MadeFor
<1> QED BY <1>3, OwnCall DEF AbandonCall

\* A pull's next step: the replica and the snapshots stay.
LEMMA PullGoesOn ==
  ASSUME ReplicaInv, NEW d \in Devices, NEW call \in PullCall,
         UNCHANGED <<storeVars, snapshots, replicas>>,
         calls' = [calls EXCEPT ![d] = call],
         ~ replicas[d].stale, IsFiniteSet(call.page),
         replicas[d].cursor <= call.nextCursor,
         call.nextCursor <= counter[WorkspaceOf[d]]
  PROVE  ReplicaInv'
<1>1. UNCHANGED vars /\ calls'[d] = call
  BY DEF storeVars, ReplicaInv, ReadTypes
<1>3. Placed(d)'
  <2>1. ~ InSnapshot(d)'
    BY <1>1 DEF InSnapshot, Idle, PullCall
  <2>2. counter' = counter /\ replicas' = replicas
    BY <1>1 DEF vars
  <2> QED BY <1>1, <2>1, <2>2, DeviceFacts DEF Placed, MadeFor
<1> QED BY <1>3, OwnCall

LEMMA PullPageKeeps ==
  ASSUME ReplicaInv, NEW d \in Devices, PullPage(d)
  PROVE  ReplicaInv'
<1> DEFINE call == [step |-> "oldest",
                    page |-> FirstEntries(Matching(d), PullLimit),
                    nextCursor |-> NextCursor(d), oldest |-> NoVersion]
<1>1. /\ FirstEntries(Matching(d), PullLimit) \in SUBSET Entry
      /\ IsFiniteSet(FirstEntries(Matching(d), PullLimit))
      /\ NextCursor(d) \in Nat /\ replicas[d].cursor <= NextCursor(d)
      /\ NextCursor(d) <= counter[WorkspaceOf[d]]
  BY PageFacts DEF ReplicaInv
<1>2. call \in PullCall
  BY <1>1 DEF PullCall
<1> QED BY <1>1, <1>2, PullGoesOn DEF PullPage

LEMMA PullOldestKeeps ==
  ASSUME ReplicaInv, NEW d \in Devices, PullOldest(d)
  PROVE  ReplicaInv'
<1> DEFINE versions == RetainedVersions(WorkspaceOf[d])
           oldest == IF versions = {} THEN NoVersion ELSE Min(versions)
           call == [calls[d] EXCEPT !.step = "counter", !.oldest = oldest]
<1>1. InPull(d) /\ calls[d] \in PullCall
  BY DeviceFacts DEF PullOldest, InPull, InSnapshot
<1>2. oldest \in Nat \cup {NoVersion}
  <2>1. versions \in SUBSET Nat
    BY DEF RetainedVersions, ReplicaInv, StoreInv, SyncInv, TypeOK, Entry
  <2> HIDE DEF versions
  <2> QED BY <2>1, MinOfVersions
<1>3. /\ call \in PullCall /\ call.nextCursor = calls[d].nextCursor
      /\ call.page = calls[d].page
  <2> HIDE DEF oldest
  <2> QED BY <1>1, <1>2 DEF PullCall
<1>4. calls' = [calls EXCEPT ![d] = call]
  BY DEF PullOldest
<1> HIDE DEF call
<1> QED BY <1>1, <1>3, <1>4, DeviceFacts, PullGoesOn DEF PullOldest, Placed

LEMMA PullCounterKeeps ==
  ASSUME ReplicaInv, NEW d \in Devices, PullCounter(d)
  PROVE  ReplicaInv'
<1> DEFINE call == calls[d]
           visible == {e.op : e \in {f \in call.page :
                         isNotificationVisibleToUser(f.op, UserOf[d])}}
           table == MergeChanges(replicas[d].table, visible)
           bootstraps == RequiresSnapshot(call, replicas[d].cursor, counter[WorkspaceOf[d]])
           new == IF bootstraps THEN [replicas[d] EXCEPT !.stale = TRUE]
                  ELSE [replicas[d] EXCEPT !.cursor = call.nextCursor, !.table = table]
<1>1. /\ InPull(d) /\ call \in PullCall /\ Placed(d)
      /\ replicas[d] \in Replica /\ replicas[d].cursor \in Nat
  BY DeviceFacts DEF PullCounter, InPull, InSnapshot
<1>2. /\ ~ replicas[d].stale /\ replicas[d].boot = NoBoot
      /\ replicas[d].cursor <= call.nextCursor
      /\ call.nextCursor <= counter[WorkspaceOf[d]]
      /\ call.nextCursor \in Nat /\ IsFiniteSet(call.page)
      /\ call.page \in SUBSET Entry
  BY <1>1 DEF Placed, PullCall
<1>3. table \in Items
  <2> DEFINE P == {f \in call.page : isNotificationVisibleToUser(f.op, UserOf[d])}
  <2>1. P \in SUBSET Entry /\ IsFiniteSet(P)
    BY <1>2, FS_Subset
  <2>2. replicas[d].table \in Items
    BY <1>1 DEF Replica
  <2> HIDE DEF P
  <2>3. MergeChanges(replicas[d].table, {e.op : e \in P}) \in Items
    BY <2>1, <2>2, MergeChangesType
  <2> QED BY <2>3 DEF P
<1> HIDE DEF table
<1>4. /\ new \in Replica /\ new.boot = NoBoot
      /\ new.cursor \in {replicas[d].cursor, call.nextCursor}
  BY <1>1, <1>2, <1>3 DEF Replica
<1>5. /\ replicas' = [replicas EXCEPT ![d] = new]
      /\ calls' = [calls EXCEPT ![d] = NoCall]
      /\ UNCHANGED vars /\ snapshots' = snapshots
  BY DEF PullCounter, storeVars, table
<1> HIDE DEF new, call
<1>6. /\ replicas[d].cursor <= new.cursor
      /\ new.cursor <= counter[WorkspaceOf[d]]
  BY <1>1, <1>2, <1>4, DeviceFacts
<1>7. Placed(d)'
  <2>1. replicas'[d] = new /\ calls'[d] = NoCall
    BY <1>5 DEF ReplicaInv, ReadTypes
  <2>2. ~ InSnapshot(d)' /\ ~ InPull(d)'
    BY <2>1 DEF InSnapshot, InPull, Idle
  <2> QED BY <1>4, <2>1, <2>2 DEF Placed
<1>8. SnapshotsReached'
  BY <1>5 DEF ReplicaInv, SnapshotsReached, vars
<1>9. /\ snapshots' \in [SnapshotIds -> Snapshot \cup {NoSnapshot}]
      /\ \A id \in SnapshotIds : snapshots'[id] \in {snapshots[id], NoSnapshot}
  BY <1>5 DEF ReplicaInv, ReadTypes
<1> QED BY <1>4, <1>5, <1>6, <1>7, <1>8, <1>9, OwnStep

\* The snapshots that devices are reading.
InUse == {calls[e].id : e \in {f \in Devices : InSnapshot(f)}}
         \cup {replicas[e].boot.id : e \in {f \in Devices : replicas[f].boot # NoBoot}}

LEMMA CaptureKeeps ==
  ASSUME ReplicaInv, NEW d \in Devices, Capture(d)
  PROVE  ReplicaInv'
<1> DEFINE w == WorkspaceOf[d]
           items == [k \in Records |-> IF k \in Follows[d]
                                       THEN SnapshotItem(w, k, UserOf[d]) ELSE NoRow]
           snapshot == [ws |-> w, tables |-> Follows[d], watermark |-> counter[w],
                        expiresAt |-> now + SnapshotTTL, items |-> items]
<1>1. PICK id \in SnapshotIds \ InUse :
        /\ snapshots' = [i \in SnapshotIds |->
                           IF i = id THEN snapshot
                           ELSE IF Expired(i) THEN NoSnapshot ELSE snapshots[i]]
        /\ calls' = [calls EXCEPT ![d] = [step |-> "created", id |-> id, after |-> 0,
                                          watermark |-> counter[w], since |-> now]]
  BY DEF Capture, InUse, HighWatermark
<1>2. /\ UNCHANGED vars /\ replicas' = replicas
      /\ replicas[d].stale /\ replicas[d].boot = NoBoot
  BY DEF Capture, storeVars
<1>3. snapshot \in Snapshot
  <2>1. items \in Items
    BY ReplicaConstants, SnapshotItemType DEF ReplicaInv, Items
  <2>2. now + SnapshotTTL \in Nat
    BY ReplicaConstants DEF ReplicaInv, StoreInv, SyncInv, TypeOK
  <2> HIDE DEF items
  <2> QED BY <2>1, <2>2, ReplicaConstants, DeviceFacts DEF Snapshot
<1>4. /\ snapshot.ws = w /\ snapshot.tables = Follows[d]
      /\ snapshot.watermark = counter[w]
  OBVIOUS
<1> HIDE DEF snapshot
<1> DEFINE call == [step |-> "created", id |-> id, after |-> 0,
                    watermark |-> counter[w], since |-> now]
<1>5. call \in SnapshotCall
  BY DeviceFacts DEF SnapshotCall, ReplicaInv, StoreInv, SyncInv, TypeOK
<1>6. snapshots' \in [SnapshotIds -> Snapshot \cup {NoSnapshot}]
  BY <1>1, <1>3 DEF ReplicaInv, ReadTypes
<1>7. SnapshotsReached'
  <2>1. counter' = counter
    BY <1>2 DEF vars
  <2>2. ASSUME NEW i \in SnapshotIds, snapshots'[i] # NoSnapshot
        PROVE  snapshots'[i].watermark <= counter[snapshots'[i].ws]
    <3>1. CASE i = id
      BY <1>1, <1>4, <3>1, DeviceFacts
    <3>2. CASE i # id
      BY <1>1, <2>2, <3>2 DEF ReplicaInv, SnapshotsReached
    <3> QED BY <3>1, <3>2
  <2> QED BY <2>1, <2>2 DEF SnapshotsReached
<1>8. Placed(d)'
  <2>1. /\ calls'[d] = call /\ replicas'[d] = replicas[d]
        /\ snapshots'[id] = snapshot /\ counter' = counter
    BY <1>1, <1>2 DEF ReplicaInv, ReadTypes, vars
  <2>2. ~ InPull(d)'
    BY <2>1 DEF InPull, InSnapshot, Idle
  <2>3. call.id = id /\ call.after = 0 /\ call.watermark = counter[w]
    OBVIOUS
  <2> HIDE DEF call
  <2> QED BY <1>2, <1>4, <2>1, <2>2, <2>3, DeviceFacts DEF Placed, MadeFor
<1>9. \A i \in SnapshotIds :
        \/ snapshots'[i] \in {snapshots[i], NoSnapshot}
        \/ \A e \in Devices \ {d} :
             /\ InSnapshot(e) => i # calls[e].id
             /\ replicas[e].boot # NoBoot => i # replicas[e].boot.id
  BY <1>1 DEF InUse
<1>10. calls' = [calls EXCEPT ![d] = call]
  BY <1>1
<1> HIDE DEF call
<1>11. /\ replicas[d] \in Replica /\ replicas' = [replicas EXCEPT ![d] = replicas[d]]
       /\ replicas[d].cursor <= replicas[d].cursor
       /\ replicas[d].cursor <= counter[WorkspaceOf[d]]
  BY <1>2, DeviceFacts
<1> QED BY <1>2, <1>5, <1>6, <1>7, <1>8, <1>9, <1>10, <1>11, OwnStep

LEMMA ReadCreatedKeeps ==
  ASSUME ReplicaInv, NEW d \in Devices, ReadCreated(d)
  PROVE  ReplicaInv'
<1>1. InSnapshot(d) /\ calls[d] \in SnapshotCall /\ Placed(d)
  BY DeviceFacts DEF ReadCreated, InSnapshot
<1> DEFINE next == [calls[d] EXCEPT !.step = "items"]
<1>2. /\ UNCHANGED vars /\ UNCHANGED <<snapshots, replicas>>
      /\ \/ calls' = [calls EXCEPT ![d] = NoCall]
         \/ calls' = [calls EXCEPT ![d] = next]
  BY DEF ReadCreated, storeVars
<1>3. CASE calls' = [calls EXCEPT ![d] = NoCall]
  <2>1. calls'[d] = NoCall
    BY <1>3 DEF ReplicaInv, ReadTypes
  <2>2. ~ InSnapshot(d)' /\ ~ InPull(d)'
    BY <2>1 DEF InSnapshot, InPull, Idle
  <2>3. Placed(d)'
    BY <1>1, <1>2, <2>2 DEF Placed, MadeFor
  <2> QED BY <1>3, <2>3, OwnCall DEF ReadCreated
<1>4. CASE calls' = [calls EXCEPT ![d] = next]
  <2>1. /\ next \in SnapshotCall /\ next.id = calls[d].id
        /\ next.after = calls[d].after /\ next.watermark = calls[d].watermark
        /\ next.step = "items"
    BY <1>1 DEF SnapshotCall
  <2> HIDE DEF next
  <2>2. calls'[d] = next
    BY <1>4 DEF ReplicaInv, ReadTypes
  <2>3. ~ InPull(d)'
    BY <2>1, <2>2 DEF InSnapshot, InPull, Idle
  <2>4. counter' = counter
    BY <1>2 DEF vars
  <2>5. Placed(d)'
    BY <1>1, <1>2, <2>1, <2>2, <2>3, <2>4 DEF Placed, MadeFor
  <2> QED BY <1>4, <2>1, <2>5, OwnCall DEF ReadCreated
<1> QED BY <1>2, <1>3, <1>4

LEMMA RequestPageKeeps ==
  ASSUME ReplicaInv, NEW d \in Devices, RequestPage(d)
  PROVE  ReplicaInv'
<1> DEFINE boot == replicas[d].boot
<1>1. /\ Placed(d) /\ replicas[d] \in Replica /\ boot # NoBoot /\ boot \in Boot
      /\ Idle(d) /\ UNCHANGED vars
  BY DeviceFacts DEF RequestPage, storeVars, Replica
<1>2. boot.id \in SnapshotIds /\ boot.after \in Nat /\ MadeFor(d, boot.id)
  BY <1>1 DEF Boot, Placed
<1>3. ASSUME snapshots' = [snapshots EXCEPT ![boot.id] = NoSnapshot],
             replicas' = [replicas EXCEPT ![d].boot = NoBoot], calls' = calls
      PROVE  ReplicaInv'
  <2> DEFINE new == [replicas[d] EXCEPT !.boot = NoBoot]
  <2>1. /\ new \in Replica /\ new.boot = NoBoot /\ new.cursor = replicas[d].cursor
        /\ replicas' = [replicas EXCEPT ![d] = new]
    BY <1>1, <1>3 DEF Replica
  <2> HIDE DEF new
  <2>2. Placed(d)'
    <3>1. replicas'[d] = new /\ calls'[d] = calls[d]
      BY <1>3, <2>1 DEF ReplicaInv, ReadTypes
    <3>2. ~ InSnapshot(d)' /\ ~ InPull(d)'
      BY <1>1, <3>1 DEF InSnapshot, InPull, Idle
    <3> QED BY <2>1, <3>1, <3>2 DEF Placed
  <2>3. /\ snapshots' \in [SnapshotIds -> Snapshot \cup {NoSnapshot}]
        /\ \A id \in SnapshotIds : snapshots'[id] \in {snapshots[id], NoSnapshot}
    BY <1>2, <1>3 DEF ReplicaInv, ReadTypes
  <2>4. SnapshotsReached'
    BY <1>1, <2>3 DEF ReplicaInv, SnapshotsReached, vars
  <2>5. calls' = [calls EXCEPT ![d] = calls[d]]
    BY <1>3, DeviceFacts
  <2>6. /\ calls[d] \in SnapshotCall \cup PullCall \cup {NoCall}
        /\ replicas[d].cursor <= new.cursor
        /\ new.cursor <= counter[WorkspaceOf[d]]
    BY <2>1, DeviceFacts
  <2> QED BY <1>1, <2>1, <2>2, <2>3, <2>4, <2>5, <2>6, OwnStep
<1>4. ASSUME snapshots[boot.id] # NoSnapshot, UNCHANGED <<snapshots, replicas>>,
             calls' = [calls EXCEPT ![d] =
               [step |-> "items", id |-> boot.id, after |-> boot.after,
                watermark |-> snapshots[boot.id].watermark, since |-> now]]
      PROVE  ReplicaInv'
  <2> DEFINE call == [step |-> "items", id |-> boot.id, after |-> boot.after,
                      watermark |-> snapshots[boot.id].watermark, since |-> now]
  <2>1. snapshots[boot.id].watermark \in Nat
    BY <1>2, <1>4 DEF ReplicaInv, ReadTypes, Snapshot
  <2>2. call \in SnapshotCall
    BY <1>2, <2>1 DEF SnapshotCall, ReplicaInv, StoreInv, SyncInv, TypeOK
  <2>3. /\ replicas[d].cursor <= call.watermark
        /\ call.watermark <= counter[WorkspaceOf[d]]
    BY <1>2, <1>4 DEF MadeFor, ReplicaInv, SnapshotsReached
  <2>4. /\ call.id = boot.id /\ call.after = boot.after
        /\ call.watermark = snapshots[boot.id].watermark /\ call.step = "items"
    OBVIOUS
  <2>5. calls' = [calls EXCEPT ![d] = call]
    BY <1>4
  <2> HIDE DEF call
  <2>6. Placed(d)'
    <3>1. calls'[d] = call /\ counter' = counter /\ replicas' = replicas
      BY <1>1, <1>4, <2>5 DEF ReplicaInv, ReadTypes, vars
    <3>2. ~ InPull(d)'
      BY <2>4, <3>1 DEF InPull, InSnapshot, Idle
    <3> QED BY <1>1, <1>2, <1>4, <2>3, <2>4, <3>1, <3>2 DEF Placed, MadeFor
  <2> QED BY <1>1, <1>4, <2>2, <2>5, <2>6, OwnCall DEF storeVars
<1> QED BY <1>3, <1>4 DEF RequestPage

LEMMA ReadItemsKeeps ==
  ASSUME ReplicaInv, NEW d \in Devices, ReadItems(d)
  PROVE  ReplicaInv'
<1> DEFINE call == calls[d]
           boot == replicas[d].boot
           page == PageItems(call.id, call.after)
           before == IF call.after = 0 THEN Empty ELSE boot.table
           table == [k \in Records |-> IF k \in page
                       THEN Received(before, k, snapshots[call.id].items[k])[k]
                       ELSE before[k]]
           hasMore == page # ItemsAfter(call.id, call.after)
           more == [replicas[d] EXCEPT !.boot =
                      [id |-> call.id, after |-> LastOf(page), table |-> table]]
           done == [cursor |-> call.watermark, table |-> table,
                    stale |-> FALSE, boot |-> NoBoot]
<1>1. /\ InSnapshot(d) /\ call \in SnapshotCall /\ Placed(d)
      /\ replicas[d] \in Replica /\ UNCHANGED vars /\ snapshots' = snapshots
      /\ calls' = [calls EXCEPT ![d] = NoCall]
  BY DeviceFacts DEF ReadItems, InSnapshot, storeVars
<1>2. /\ call.id \in SnapshotIds /\ call.after \in Nat /\ call.watermark \in Nat
      /\ replicas[d].stale /\ MadeFor(d, call.id)
      /\ replicas[d].cursor <= call.watermark
      /\ call.watermark <= counter[WorkspaceOf[d]]
      /\ call.after # 0 => boot \in Boot
  BY <1>1 DEF SnapshotCall, Placed, Replica
<1>3. table \in Items
  <2>1. before \in Items
    BY <1>2 DEF Boot, Empty, Items
  <2>2. \A k \in page : /\ k \in Records /\ snapshots[call.id] # NoSnapshot
                        /\ snapshots[call.id].items[k] # NoRow
    BY DEF PageItems, ItemsAfter
  <2>3. \A k \in page : snapshots[call.id].items[k] \in Item
    BY <1>2, <2>2 DEF ReplicaInv, ReadTypes, Snapshot, Items
  <2> HIDE DEF before, page
  <2>4. \A k \in Records :
          table[k] \in Item \cup {NoRow}
    BY <2>1, <2>3, ReceivedType DEF Items
  <2> QED BY <2>4 DEF Items
<1>4. \/ hasMore /\ replicas' = [replicas EXCEPT ![d] = more]
      \/ replicas' = [replicas EXCEPT ![d] = done]
  BY DEF ReadItems, LastOf
<1>5. hasMore => LastOf(page) \in Nat
  BY <1>2, PageItemsFacts DEF ReplicaInv
<1> HIDE DEF table, page
<1>6. hasMore => /\ more \in Replica /\ more.cursor = replicas[d].cursor
                 /\ more.boot.id = call.id /\ more.stale
  BY <1>1, <1>2, <1>3, <1>5 DEF Replica, Boot
<1>7. done \in Replica /\ done.cursor = call.watermark /\ done.boot = NoBoot
  BY <1>2, <1>3 DEF Replica
<1> HIDE DEF more, done
<1>8. SnapshotsReached'
  BY <1>1 DEF ReplicaInv, SnapshotsReached, vars
<1>9. /\ snapshots' \in [SnapshotIds -> Snapshot \cup {NoSnapshot}]
      /\ \A id \in SnapshotIds : snapshots'[id] \in {snapshots[id], NoSnapshot}
  BY <1>1 DEF ReplicaInv, ReadTypes
<1>10. ~ InSnapshot(d)' /\ ~ InPull(d)'
  <2>1. calls'[d] = NoCall
    BY <1>1 DEF ReplicaInv, ReadTypes
  <2> QED BY <2>1 DEF InSnapshot, InPull, Idle
<1>11. CASE hasMore /\ replicas' = [replicas EXCEPT ![d] = more]
  <2>1. replicas'[d] = more
    BY <1>11 DEF ReplicaInv, ReadTypes
  <2>2. Placed(d)'
    BY <1>1, <1>2, <1>6, <1>10, <1>11, <2>1 DEF Placed, MadeFor
  <2>3. replicas[d].cursor <= more.cursor /\ more.cursor <= counter[WorkspaceOf[d]]
    BY <1>6, <1>11, DeviceFacts
  <2> QED BY <1>1, <1>6, <1>8, <1>9, <1>11, <2>2, <2>3, OwnStep
<1>12. CASE replicas' = [replicas EXCEPT ![d] = done]
  <2>1. replicas'[d] = done
    BY <1>12 DEF ReplicaInv, ReadTypes
  <2>2. Placed(d)'
    BY <1>7, <1>10, <2>1 DEF Placed
  <2>3. replicas[d].cursor <= done.cursor /\ done.cursor <= counter[WorkspaceOf[d]]
    BY <1>2, <1>7
  <2> QED BY <1>1, <1>7, <1>8, <1>9, <1>12, <2>2, <2>3, OwnStep
<1> QED BY <1>4, <1>11, <1>12

\* Pushes, check-ins, GC and time leave the devices where they are.
LEMMA StoreStepKeeps ==
  ASSUME ReplicaInv, StoreStep, UNCHANGED readVars, [Next]_vars
  PROVE  ReplicaInv'
<1>1. StoreInv' /\ HistoryMoves /\ StoreInv
  BY StoreInvStep DEF ReplicaInv
<1>2. snapshots' = snapshots /\ calls' = calls /\ replicas' = replicas
  BY DEF readVars
<1>3. ReadTypes'
  BY <1>2 DEF ReplicaInv, ReadTypes
<1>4. \A d \in Devices : Placed(d)'
  BY <1>1, <1>2, PlacedKept
<1>5. SnapshotsReached'
  <2>1. ASSUME NEW id \in SnapshotIds, snapshots[id] # NoSnapshot
        PROVE  snapshots[id].watermark <= counter'[snapshots[id].ws]
    <3>1. snapshots[id].ws \in Workspaces /\ snapshots[id].watermark \in Nat
      BY <2>1 DEF ReplicaInv, ReadTypes, Snapshot
    <3>2. /\ counter[snapshots[id].ws] \in Nat /\ counter'[snapshots[id].ws] \in Nat
          /\ counter[snapshots[id].ws] <= counter'[snapshots[id].ws]
      BY <1>1, <3>1 DEF StoreInv, SyncInv, TypeOK, HistoryMoves
    <3> QED BY <2>1, <3>1, <3>2 DEF ReplicaInv, SnapshotsReached
  <2> QED BY <1>2, <2>1 DEF SnapshotsReached
<1> DEFINE Registered(w, d) ==
             \/ cursors'[w][d] \in {cursors[w][d], NoCursor}
             \/ /\ w = WorkspaceOf[d]
                /\ cursors'[w][d] = [owner |-> UserOf[d], version |-> replicas[d].cursor,
                                     updatedAt |-> now]
<1>6. \A w \in Workspaces, d \in Devices : Registered(w, d)
  <2>1. cursors \in [Workspaces -> [Devices -> Cursor \cup {NoCursor}]]
    BY <1>1 DEF StoreInv, SyncInv, TypeOK
  <2>2. ASSUME NEW d \in Devices, CheckIn(d)
        PROVE  \A v \in Workspaces, e \in Devices : Registered(v, e)
    BY <2>1, <2>2, ReplicaConstants DEF CheckIn, UpdateCursor
  <2>3. ASSUME NEW w \in Workspaces, NEW retention \in Retentions,
               ForgetStaleCursors(w, retention)
        PROVE  \A v \in Workspaces, e \in Devices : Registered(v, e)
    BY <2>1, <2>3 DEF ForgetStaleCursors
  <2>4. CASE cursors' = cursors
    BY <2>4
  <2> QED BY <2>2, <2>3, <2>4, ZenonT(60) DEF StoreStep, BeginPush, ReplayOp,
          WriteOp, CommitPush, AbortPush, gcTombstones, gcChangeLog, TickReading, Tick
<1>7. CheckInsAccepted'
  <2>1. ASSUME NEW d \in Devices
        PROVE  /\ replicas[d].cursor <= counter'[WorkspaceOf[d]]
               /\ cursors'[WorkspaceOf[d]][d] # NoCursor =>
                    /\ cursors'[WorkspaceOf[d]][d].owner = UserOf[d]
                    /\ cursors'[WorkspaceOf[d]][d].version <= replicas[d].cursor
    <3>1. /\ counter'[WorkspaceOf[d]] \in Nat
          /\ counter[WorkspaceOf[d]] <= counter'[WorkspaceOf[d]]
      BY <1>1, ReplicaConstants DEF StoreInv, SyncInv, TypeOK, HistoryMoves
    <3>2. replicas[d].cursor <= counter'[WorkspaceOf[d]]
      BY <3>1, DeviceFacts
    <3>3. CASE cursors'[WorkspaceOf[d]][d] \in {cursors[WorkspaceOf[d]][d], NoCursor}
      BY <3>2, <3>3 DEF ReplicaInv, CheckInsAccepted
    <3>4. CASE cursors'[WorkspaceOf[d]][d] =
                 [owner |-> UserOf[d], version |-> replicas[d].cursor, updatedAt |-> now]
      BY <3>2, <3>4, DeviceFacts
    <3> QED BY <1>6, <3>3, <3>4, ReplicaConstants
  <2> QED BY <1>2, <2>1 DEF CheckInsAccepted
<1> QED BY <1>1, <1>3, <1>4, <1>5, <1>7 DEF ReplicaInv

\* Every step keeps ReplicaInv.
LEMMA ReplicaInvStep ==
  ASSUME ReplicaInv, [ReplicaNext]_allVars
  PROVE  ReplicaInv' /\ [Next]_vars
<1>1. [Next]_vars
  BY RunsTheStore
<1>2. CASE UNCHANGED allVars
  <2>1. StoreInv'
    BY <1>1, StoreInvStep DEF ReplicaInv
  <2>2. UNCHANGED readVars /\ UNCHANGED <<counter, cursors>>
    BY <1>2 DEF allVars, vars
  <2>3. snapshots' = snapshots /\ calls' = calls /\ replicas' = replicas
    BY <2>2 DEF readVars
  <2>4. \A d \in Devices : Placed(d)'
    <3>1. \A d \in Devices : Placed(d)
      BY DEF ReplicaInv
    <3> QED BY <2>2, <2>3, <3>1 DEF Placed, MadeFor, InSnapshot, InPull, Idle
  <2>5. ReadTypes' /\ CheckInsAccepted' /\ SnapshotsReached'
    BY <2>2, <2>3 DEF ReplicaInv, ReadTypes, CheckInsAccepted, SnapshotsReached
  <2> QED BY <1>1, <2>1, <2>4, <2>5 DEF ReplicaInv
<1>3. CASE ReplicaNext
  BY <1>1, <1>3, AbandonKeeps, PullPageKeeps, PullOldestKeeps, PullCounterKeeps,
     CaptureKeeps, ReadCreatedKeeps, RequestPageKeeps, ReadItemsKeeps,
     StoreStepKeeps DEF ReplicaNext
<1> QED BY <1>1, <1>2, <1>3

LEMMA ReplicaInvInit == InitReplica => ReplicaInv
<1> SUFFICES ASSUME InitReplica PROVE ReplicaInv
  OBVIOUS
<1>1. SyncInv
  <2>1. TypeOK
    BY Sentinels DEF InitReplica, Init, TypeOK
  <2>2. RowsHoldWinners /\ TombstonesBehindRows
    BY DEF InitReplica, Init, RowsHoldWinners, HoldsWinner, TombstonesBehindRows,
       TombstoneBehindRow
  <2>3. /\ VersionsContiguous /\ HistoryOrdered /\ LogIsSuffix
        /\ CursorsWithinHistory /\ NoOpIdCollision /\ tx = NoTx
    BY DEF InitReplica, Init, VersionsContiguous, HistoryOrdered, LogIsSuffix,
       CursorsWithinHistory, NoOpIdCollision
  <2> QED BY <2>1, <2>2, <2>3 DEF SyncInv
<1>2. CountersBounded /\ NoticesHoldPuts
  BY SyncConstants
     DEF InitReplica, Init, CountersBounded, NoticesHoldPuts, NoticeHoldsPut
<1>3. \A d \in Devices :
        /\ replicas[d] \in Replica /\ replicas[d].cursor = 0
        /\ replicas[d].boot = NoBoot /\ calls[d] = NoCall
  <2>1. Empty \in Items
    BY DEF Empty, Items
  <2> HIDE DEF Items
  <2> QED BY <2>1 DEF InitReplica, Replica
<1>4. ReadTypes
  BY <1>3 DEF InitReplica, ReadTypes
<1>5. \A d \in Devices : Placed(d)
  BY <1>3 DEF Placed, InSnapshot, InPull, Idle
<1>6. CheckInsAccepted /\ SnapshotsReached
  BY <1>3, ReplicaConstants DEF InitReplica, Init, CheckInsAccepted, SnapshotsReached
<1> QED BY <1>1, <1>2, <1>4, <1>5, <1>6 DEF ReplicaInv, StoreInv

\* ReplicaInv holds in every reachable state: it is inductive.
THEOREM ReplicaInvariant == ReplicaSpec => []ReplicaInv
BY ReplicaInvInit, ReplicaInvStep, PTL DEF ReplicaSpec

\* The store under the devices' calls is the store of SyncStore: everything
\* proved of it holds of the composition.
THEOREM ReplicasRunTheStore == ReplicaSpec => Spec
<1>1. InitReplica => Init
  BY DEF InitReplica
<1>2. ReplicaInv /\ [ReplicaNext]_allVars => [Next]_vars
  BY RunsTheStore
<1> QED BY <1>1, <1>2, ReplicaInvariant, PTL DEF ReplicaSpec, Spec

\* Calls, snapshots and replicas keep their types.
THEOREM ReplicaTypes == ReplicaSpec => []TypeOKReplica
<1>1. ReplicaInv => TypeOKReplica
  <2> SUFFICES ASSUME ReplicaInv PROVE TypeOKReplica
    OBVIOUS
  <2>1. TypeOK
    BY DEF ReplicaInv, StoreInv, SyncInv
  <2>2. \A id \in SnapshotIds : snapshots[id] # NoSnapshot => snapshots[id] \in Snapshot
    BY DEF ReplicaInv, ReadTypes
  <2>3. \A d \in Devices : ~ Idle(d) =>
          calls[d] \in (IF InSnapshot(d) THEN SnapshotCall ELSE PullCall)
    BY DeviceFacts DEF InPull
  <2>4. \A d \in Devices : replicas[d] \in Replica
    BY DEF ReplicaInv, ReadTypes
  <2> QED BY <2>1, <2>2, <2>3, <2>4 DEF TypeOKReplica
<1> QED BY <1>1, ReplicaInvariant, PTL

\* A device never has to be refused when it checks in.
THEOREM CheckInsHold == ReplicaSpec => []CheckInsAccepted
<1>1. ReplicaInv => CheckInsAccepted
  BY DEF ReplicaInv
<1> QED BY <1>1, ReplicaInvariant, PTL

-----------------------------------------------------------------------------
(* What a snapshot holds.                                                  *)

\* A revision names one operation of a workspace: no client reuses an op_id
\* with its clock and HLC for another operation, even after GC has removed
\* the first one from the log.
RevisionsIdentify ==
  \A w \in Workspaces : Unambiguous({e \in history : e.ws = w})

\* A capture keeps the merge of a record's whole history, or leaves out a
\* notification that is not its user's.
LEMMA CapturedItem ==
  ASSUME StoreInv, RevisionsIdentify, NEW w \in Workspaces, NEW k \in Records,
         NEW user
  PROVE  LET item == SnapshotItem(w, k, user)
             entries == UpTo(history, w, k, counter[w])
         IN  /\ item = MergeOf(entries) \/ (k \in Notifications /\ item = NoRow)
             /\ (k \in Notifications => OwnOnly(entries, user))
                  => item = MergeOf(entries)
<1> DEFINE item == SnapshotItem(w, k, user)
           entries == UpTo(history, w, k, counter[w])
           row == rows[w][k]
<1>1. entries = {e \in history : e.ws = w /\ e.op.record = k}
  BY DEF UpTo, StoreInv, SyncInv, VersionsContiguous
<1>2. /\ HoldsWinner(rows[w], w, k, history)
      /\ TombstoneBehindRow(rows[w], tombstones[w], k)
      /\ history \in SUBSET Entry /\ row \in Row \cup {NoRow}
  BY DEF StoreInv, SyncInv, RowsHoldWinners, TombstonesBehindRows, TypeOK
<1>3. entries \in SUBSET Entry /\ Unambiguous(entries)
  BY <1>1, <1>2 DEF RevisionsIdentify, Unambiguous
<1>4. CASE row = NoRow
  <2>1. entries = {} /\ tombstones[w][k] = NoTombstone
    BY <1>1, <1>2, <1>4 DEF HoldsWinner, TombstoneBehindRow
  <2>2. item = NoRow
    BY <1>4, <2>1 DEF SnapshotItem
  <2> QED BY <2>1, <2>2 DEF MergeOf
<1>5. ASSUME row # NoRow
      PROVE  /\ item = MergeOf(entries) \/ (k \in Notifications /\ item = NoRow)
             /\ (k \in Notifications => OwnOnly(entries, user))
                  => item = MergeOf(entries)
  <2> HIDE DEF entries, item
  <2>1. PICK e \in entries :
          /\ RevisionOf(e.op) = row.rev
          /\ row.deleted = (e.op.kind = "delete")
          /\ ~ row.deleted => row.data = e.op
    BY <1>1, <1>2, <1>5 DEF HoldsWinner
  <2>2. Unbeaten(e, entries)
    BY <1>1, <1>2, <1>5, <2>1 DEF HoldsWinner, Unbeaten, Beats
  <2>3. MergeOf(entries) = ChangeItem(e.op)
    BY <1>3, <2>2, MergeIs
  <2>4. row \in Row /\ e.op \in Operation
    BY <1>2, <1>3, <1>5, EntryRevision
  <2>5. ASSUME snapshotNotificationOwnerClause(row, k, user)
        PROVE  item = MergeOf(entries)
    <3>1. CASE row.deleted
      <4>1. item = [rev |-> row.rev, deleted |-> TRUE, data |-> NoData]
        BY <1>5, <2>5, <3>1 DEF item, SnapshotItem
      <4>2. e.op.kind = "delete"
        BY <2>1, <3>1
      <4>3. ChangeItem(e.op) = [rev |-> row.rev, deleted |-> TRUE, data |-> NoData]
        BY <2>1, <4>2 DEF ChangeItem
      <4> QED BY <2>3, <4>1, <4>3
    <3>2. CASE ~ row.deleted
      <4>1. item = row
        BY <1>5, <2>5, <3>2 DEF item, SnapshotItem
      <4>2. e.op.kind # "delete" /\ row.data = e.op
        BY <2>1, <3>2
      <4>3. ChangeItem(e.op) = [rev |-> row.rev, deleted |-> FALSE, data |-> e.op]
        BY <2>1, <4>2 DEF ChangeItem
      <4>4. row.deleted = FALSE
        BY <2>4, <3>2 DEF Row
      <4> HIDE DEF row
      <4>5. row = [rev |-> row.rev, deleted |-> FALSE, data |-> e.op]
        BY <2>4, <4>2, <4>4 DEF Row
      <4> QED BY <2>3, <4>1, <4>3, <4>5
    <3> QED BY <3>1, <3>2
  <2>6. ASSUME ~ snapshotNotificationOwnerClause(row, k, user)
        PROVE  /\ k \in Notifications /\ item = NoRow
               /\ ~ OwnOnly(entries, user)
    <3>1. k \in Notifications /\ notificationPayloadUserId(row) # user
      BY <2>6 DEF snapshotNotificationOwnerClause
    <3>2. item = NoRow
      BY <1>5, <2>6 DEF item, SnapshotItem
    <3>3. PICK p \in history : /\ p.ws = w /\ p.op.record = k /\ p.op.kind = "put"
                               /\ row.data = p.op
      BY <1>5, <3>1 DEF StoreInv, NoticesHoldPuts, NoticeHoldsPut
    <3>4. p \in entries /\ p.op \in Operation
      BY <1>1, <1>2, <3>3, EntryRevision
    <3>5. notificationPayloadUserId(row) = p.op.author
      BY <3>3, <3>4, Sentinels DEF notificationPayloadUserId
    <3> QED BY <3>1, <3>2, <3>3, <3>4, <3>5 DEF OwnOnly
  <2> QED BY <2>5, <2>6
<1> QED BY <1>4, <1>5

\* What a step does to the snapshots.
LEMMA SnapshotsChange ==
  ASSUME ReplicaInv, [ReplicaNext]_allVars, NEW id \in SnapshotIds
  PROVE  \/ snapshots'[id] \in {snapshots[id], NoSnapshot}
         \/ \E d \in Devices :
              /\ UNCHANGED vars
              /\ snapshots'[id] =
                   [ws |-> WorkspaceOf[d], tables |-> Follows[d],
                    watermark |-> counter[WorkspaceOf[d]],
                    expiresAt |-> now + SnapshotTTL,
                    items |-> [k \in Records |->
                                 IF k \in Follows[d]
                                 THEN SnapshotItem(WorkspaceOf[d], k, UserOf[d])
                                 ELSE NoRow]]
<1>1. ASSUME NEW d \in Devices, Capture(d)
      PROVE  \/ snapshots'[id] \in {snapshots[id], NoSnapshot}
             \/ /\ UNCHANGED vars
                /\ snapshots'[id] =
                     [ws |-> WorkspaceOf[d], tables |-> Follows[d],
                      watermark |-> counter[WorkspaceOf[d]],
                      expiresAt |-> now + SnapshotTTL,
                      items |-> [k \in Records |->
                                   IF k \in Follows[d]
                                   THEN SnapshotItem(WorkspaceOf[d], k, UserOf[d])
                                   ELSE NoRow]]
  BY <1>1 DEF Capture, HighWatermark, storeVars
<1>2. ASSUME NEW d \in Devices, RequestPage(d)
      PROVE  snapshots'[id] \in {snapshots[id], NoSnapshot}
  BY <1>2 DEF RequestPage, ReplicaInv, ReadTypes
<1>3. CASE snapshots' = snapshots
  BY <1>3
<1> QED BY <1>1, <1>2, <1>3 DEF ReplicaNext, PullPage, PullOldest, PullCounter,
        ReadCreated, ReadItems, AbandonCall, allVars, readVars

LEMMA OnePointStep ==
  ASSUME ReplicaInv, [ReplicaNext]_allVars, RevisionsIdentify, SnapshotsAreOnePoint
  PROVE  SnapshotsAreOnePoint'
<1> DEFINE Point(entries, s) ==
             \A k \in s.tables :
               LET merge == MergeOf(UpTo(entries, s.ws, k, s.watermark))
               IN  s.items[k] \in {merge} \cup
                     (IF k \in Notifications THEN {NoRow} ELSE {})
<1>1. StoreInv /\ StoreInv' /\ HistoryMoves
  BY ReplicaInvStep, StoreInvStep DEF ReplicaInv
<1>2. ASSUME NEW id \in SnapshotIds, snapshots[id] # NoSnapshot
      PROVE  Point(history, snapshots[id])
  BY <1>2 DEF SnapshotsAreOnePoint, EntriesUpTo, UpTo
<1>3. ASSUME NEW id \in SnapshotIds, snapshots'[id] # NoSnapshot
      PROVE  Point(history', snapshots'[id])
  <2>1. CASE snapshots'[id] = snapshots[id]
    <3> DEFINE s == snapshots[id]
    <3>1. /\ s.ws \in Workspaces /\ s.watermark \in Nat
          /\ s.watermark <= counter[s.ws]
      BY <1>3, <2>1
         DEF ReplicaInv, ReadTypes, Snapshot, SnapshotsReached
    <3>2. \A k : UpTo(history', s.ws, k, s.watermark) = UpTo(history, s.ws, k, s.watermark)
      BY <1>1, <3>1, PastIsKept DEF StoreInv
    <3>3. Point(history, s)
      BY <1>2, <1>3, <2>1
    <3> QED BY <2>1, <3>2, <3>3
  <2>2. CASE snapshots'[id] # snapshots[id]
    <3>1. PICK d \in Devices :
            /\ UNCHANGED vars
            /\ snapshots'[id] =
                 [ws |-> WorkspaceOf[d], tables |-> Follows[d],
                  watermark |-> counter[WorkspaceOf[d]],
                  expiresAt |-> now + SnapshotTTL,
                  items |-> [k \in Records |->
                               IF k \in Follows[d]
                               THEN SnapshotItem(WorkspaceOf[d], k, UserOf[d])
                               ELSE NoRow]]
      BY <1>3, <2>2, SnapshotsChange
    <3> DEFINE w == WorkspaceOf[d]
    <3>2. w \in Workspaces /\ Follows[d] \subseteq Records /\ history' = history
      BY <3>1, ReplicaConstants DEF vars
    <3>3. /\ snapshots'[id].ws = w /\ snapshots'[id].tables = Follows[d]
          /\ snapshots'[id].watermark = counter[w]
          /\ \A k \in Follows[d] :
               snapshots'[id].items[k] = SnapshotItem(w, k, UserOf[d])
      BY <3>1, <3>2
    <3>4. ASSUME NEW k \in Follows[d]
          PROVE  \/ SnapshotItem(w, k, UserOf[d]) = MergeOf(UpTo(history, w, k, counter[w]))
                 \/ k \in Notifications /\ SnapshotItem(w, k, UserOf[d]) = NoRow
      BY <1>1, <3>2, CapturedItem
    <3> HIDE DEF w
    <3> QED BY <3>2, <3>3, <3>4
  <2> QED BY <2>1, <2>2
<1>4. \A id \in SnapshotIds : snapshots'[id] # NoSnapshot => Point(history', snapshots'[id])
  BY <1>3
<1> QED BY <1>4 DEF SnapshotsAreOnePoint, EntriesUpTo, UpTo

\* If revisions identify operations, every snapshot is the merge at its
\* watermark, whatever is pushed and pruned after it, under either driver.
THEOREM SnapshotsHold ==
  ReplicaSpec /\ []RevisionsIdentify => []SnapshotsAreOnePoint
<1>1. InitReplica => SnapshotsAreOnePoint
  BY DEF InitReplica, SnapshotsAreOnePoint
<1>2. ReplicaInv /\ RevisionsIdentify /\ SnapshotsAreOnePoint
        /\ [ReplicaNext]_allVars => SnapshotsAreOnePoint'
  BY OnePointStep
<1> QED BY <1>1, <1>2, ReplicaInvariant, PTL DEF ReplicaSpec

-----------------------------------------------------------------------------
(* What a device holds.                                                    *)

\* A delete of a notification names whom an earlier put of it names: the
\* client sends the payload of what it deletes.
DeletesNameOwner ==
  \A e \in history :
    e.op.record \in Notifications /\ e.op.kind = "delete" =>
      \E f \in history : /\ f.ws = e.ws /\ f.op.record = e.op.record
                         /\ f.version < e.version
                         /\ f.op.kind = "put" /\ f.op.author = e.op.author

\* The item is the merge of these entries, unless others wrote the notification.
IsMerge(item, k, entries, user) ==
  (k \in Notifications => OwnOnly(entries, user)) => item = MergeOf(entries)

\* A device or snapshot that was brought up to a version holds the merge of
\* every record the device follows.
HoldsMerge(d, table, entries, version) ==
  \A k \in Follows[d] :
    IsMerge(table[k], k, UpTo(entries, WorkspaceOf[d], k, version), UserOf[d])

\* A bootstrap under way has the items up to its position.
HoldsItems(d, boot, items) ==
  \A k \in Follows[d] :
    boot.table[k] = IF Order[k] <= boot.after THEN items[k] ELSE NoRow

\* The changes between the cursor and the next cursor of a pull.
Due(d, entries, cursor, nextCursor) ==
  {e \in entries : /\ e.ws = WorkspaceOf[d] /\ e.op.record \in Follows[d]
                   /\ cursor < e.version /\ e.version <= nextCursor}

\* What is due and not in the page was pruned before the page was read, and
\* the oldest version read after it says so.
PullSound(d, call, cursor, entries, retained) ==
  LET missed == Due(d, entries, cursor, call.nextCursor) \ call.page
  IN  /\ call.page \subseteq Due(d, entries, cursor, call.nextCursor)
      /\ missed \cap retained = {}
      /\ call.step = "counter" /\ missed # {} =>
           call.oldest = NoVersion \/ cursor < call.oldest - 1

Current(d) ==
  LET call == calls[d]
      boot == replicas[d].boot
      cursor == replicas[d].cursor
  IN  /\ HoldsMerge(d, replicas[d].table, history, cursor)
      /\ boot # NoBoot /\ snapshots[boot.id] # NoSnapshot =>
           /\ HoldsMerge(d, snapshots[boot.id].items, history,
                         snapshots[boot.id].watermark)
           /\ HoldsItems(d, boot, snapshots[boot.id].items)
      /\ InSnapshot(d) /\ snapshots[call.id] # NoSnapshot =>
           HoldsMerge(d, snapshots[call.id].items, history, call.watermark)
      /\ InPull(d) => PullSound(d, call, cursor, history, log)

LEMMA DueKept ==
  ASSUME StoreInv, StoreInv', HistoryMoves, NEW d \in Devices, NEW cursor,
         NEW n \in Nat, n <= counter[WorkspaceOf[d]]
  PROVE  Due(d, history', cursor, n) = Due(d, history, cursor, n)
<1> DEFINE w == WorkspaceOf[d]
<1>1. counter[w] \in Nat
  BY ReplicaConstants DEF StoreInv, SyncInv, TypeOK
<1>2. ASSUME NEW e \in history' \ history, e.ws = w, e.version <= n
      PROVE  FALSE
  <2>1. e.version > counter[w]
    BY <1>2 DEF HistoryMoves
  <2>2. e.version \in Nat
    BY <1>2 DEF StoreInv, SyncInv, TypeOK, Entry
  <2> QED BY <1>1, <1>2, <2>1, <2>2
<1> QED BY <1>2 DEF Due, HistoryMoves

LEMMA MergesKept ==
  ASSUME StoreInv, StoreInv', HistoryMoves, NEW d \in Devices, NEW table,
         NEW n \in Nat, n <= counter[WorkspaceOf[d]],
         HoldsMerge(d, table, history, n)
  PROVE  HoldsMerge(d, table, history', n)
<1>1. ASSUME NEW k
      PROVE  UpTo(history', WorkspaceOf[d], k, n) = UpTo(history, WorkspaceOf[d], k, n)
  BY PastIsKept, ReplicaConstants DEF StoreInv
<1> QED BY <1>1 DEF HoldsMerge

\* A device stays current in a step that leaves it and its snapshots alone.
LEMMA CurrentKept ==
  ASSUME ReplicaInv, StoreInv', HistoryMoves, NEW d \in Devices, Current(d),
         calls'[d] = calls[d], replicas'[d] = replicas[d],
         \A id \in SnapshotIds :
           \/ snapshots'[id] \in {snapshots[id], NoSnapshot}
           \/ /\ replicas[d].boot # NoBoot => id # replicas[d].boot.id
              /\ InSnapshot(d) => id # calls[d].id
  PROVE  Current(d)'
<1> DEFINE call == calls[d]
           boot == replicas[d].boot
           cursor == replicas[d].cursor
<1>1. /\ Placed(d) /\ replicas[d] \in Replica /\ cursor \in Nat
      /\ cursor <= counter[WorkspaceOf[d]] /\ StoreInv
      /\ WorkspaceOf[d] \in Workspaces
  BY DeviceFacts DEF ReplicaInv
<1>2. (InSnapshot(d) <=> InSnapshot(d)') /\ (InPull(d) <=> InPull(d)')
  BY DEF InSnapshot, InPull, Idle
<1>3. HoldsMerge(d, replicas[d].table, history', cursor)
  BY <1>1, MergesKept DEF Current
<1>4. ASSUME boot # NoBoot, snapshots'[boot.id] # NoSnapshot
      PROVE  /\ HoldsMerge(d, snapshots'[boot.id].items, history',
                           snapshots'[boot.id].watermark)
             /\ HoldsItems(d, boot, snapshots'[boot.id].items)
  <2>1. boot.id \in SnapshotIds
    BY <1>1, <1>4 DEF Replica, Boot
  <2>2. snapshots'[boot.id] = snapshots[boot.id]
    BY <1>4, <2>1
  <2> DEFINE s == snapshots[boot.id]
  <2>3. s \in Snapshot /\ s.watermark \in Nat /\ s.ws = WorkspaceOf[d]
    BY <1>1, <1>4, <2>1, <2>2 DEF ReplicaInv, ReadTypes, Snapshot, Placed, MadeFor
  <2>4. s.watermark <= counter[WorkspaceOf[d]]
    BY <1>4, <2>1, <2>2, <2>3 DEF ReplicaInv, SnapshotsReached
  <2>5. /\ HoldsMerge(d, s.items, history, s.watermark)
        /\ HoldsItems(d, boot, s.items)
    BY <1>4, <2>2 DEF Current
  <2> HIDE DEF s
  <2>6. HoldsMerge(d, s.items, history', s.watermark)
    BY <1>1, <2>3, <2>4, <2>5, MergesKept
  <2> QED BY <2>2, <2>5, <2>6 DEF s
<1>5. ASSUME InSnapshot(d), snapshots'[call.id] # NoSnapshot
      PROVE  HoldsMerge(d, snapshots'[call.id].items, history', call.watermark)
  <2>1. call \in SnapshotCall
    BY <1>5, DeviceFacts
  <2>2. call.watermark \in Nat /\ call.watermark <= counter[WorkspaceOf[d]]
    BY <1>1, <1>5, <2>1 DEF Placed, SnapshotCall
  <2>3. /\ snapshots'[call.id] = snapshots[call.id]
        /\ HoldsMerge(d, snapshots[call.id].items, history, call.watermark)
    <3>1. call.id \in SnapshotIds
      BY <2>1 DEF SnapshotCall
    <3>2. snapshots'[call.id] = snapshots[call.id]
      BY <1>5, <3>1
    <3> QED BY <1>5, <3>2 DEF Current
  <2> DEFINE items == snapshots[call.id].items
  <2> HIDE DEF items
  <2>4. HoldsMerge(d, items, history', call.watermark)
    BY <1>1, <2>2, <2>3, MergesKept DEF items
  <2> QED BY <1>5, <2>3, <2>4 DEF items
<1>6. ASSUME InPull(d)
      PROVE  PullSound(d, call, cursor, history', log')
  <2>1. call \in PullCall
    BY <1>6, DeviceFacts
  <2>2. call.nextCursor \in Nat /\ call.nextCursor <= counter[WorkspaceOf[d]]
    BY <1>1, <1>6, <2>1 DEF Placed, PullCall
  <2>3. Due(d, history', cursor, call.nextCursor) = Due(d, history, cursor, call.nextCursor)
    BY <1>1, <2>2, DueKept
  <2>4. PullSound(d, call, cursor, history, log)
    BY <1>6 DEF Current
  <2>5. \A e \in Due(d, history, cursor, call.nextCursor) : e \in log' => e \in log
    BY DEF Due, HistoryMoves
  <2> HIDE DEF call, cursor
  <2> QED BY <2>3, <2>4, <2>5 DEF PullSound
<1> QED BY <1>2, <1>3, <1>4, <1>5, <1>6 DEF Current

\* A step of a device, as the others see it.
LEMMA OthersCurrent ==
  ASSUME ReplicaInv, NEW d \in Devices, UNCHANGED vars,
         \/ PullPage(d) \/ PullOldest(d) \/ PullCounter(d)
         \/ Capture(d) \/ ReadCreated(d) \/ RequestPage(d) \/ ReadItems(d)
         \/ AbandonCall(d),
         NEW e \in Devices \ {d}, Current(e)
  PROVE  Current(e)'
<1>1. StoreInv' /\ HistoryMoves
  BY StoreInvStep DEF ReplicaInv
<1>2. calls'[e] = calls[e] /\ replicas'[e] = replicas[e]
  <2>1. /\ calls \in [Devices -> SnapshotCall \cup PullCall \cup {NoCall}]
        /\ replicas \in [Devices -> Replica]
    BY DEF ReplicaInv, ReadTypes
  <2>2. calls' = calls \/ \E call : calls' = [calls EXCEPT ![d] = call]
    BY DEF PullPage, PullOldest, PullCounter, Capture, ReadCreated,
       RequestPage, ReadItems, AbandonCall
  <2>3. replicas' = replicas \/ \E replica : replicas' = [replicas EXCEPT ![d] = replica]
    BY DEF PullPage, PullOldest, PullCounter, Capture, ReadCreated,
       RequestPage, ReadItems, AbandonCall
  <2> QED BY <2>1, <2>2, <2>3
<1>3. \A id \in SnapshotIds :
        \/ snapshots'[id] \in {snapshots[id], NoSnapshot}
        \/ /\ replicas[e].boot # NoBoot => id # replicas[e].boot.id
           /\ InSnapshot(e) => id # calls[e].id
  <2>1. CASE snapshots' = snapshots
    BY <2>1
  <2>2. CASE RequestPage(d)
    BY <2>2 DEF RequestPage, ReplicaInv, ReadTypes
  <2>3. CASE Capture(d)
    BY <2>3 DEF Capture
  <2> QED BY <2>1, <2>2, <2>3 DEF PullPage, PullOldest, PullCounter, ReadCreated,
          ReadItems, AbandonCall
<1> QED BY <1>1, <1>2, <1>3, CurrentKept

\* A step of a device that leaves what it holds and what it boots from alone.
LEMMA CallCurrent ==
  ASSUME NEW d \in Devices, Current(d), UNCHANGED vars,
         UNCHANGED <<snapshots, replicas>>,
         InSnapshot(d)' /\ snapshots[calls'[d].id] # NoSnapshot =>
           HoldsMerge(d, snapshots[calls'[d].id].items, history, calls'[d].watermark),
         InPull(d)' => PullSound(d, calls'[d], replicas[d].cursor, history, log)
  PROVE  Current(d)'
<1>1. /\ history' = history /\ log' = log /\ snapshots' = snapshots
      /\ replicas' = replicas
  BY DEF vars
<1> QED BY <1>1 DEF Current

\* The changes of a page are all that the log holds up to the next cursor.
LEMMA PageIsComplete ==
  ASSUME StoreInv, ReadTypes, CheckInsAccepted, NEW d \in Devices,
         NEW e \in Matching(d), e.version <= NextCursor(d)
  PROVE  e \in FirstEntries(Matching(d), PullLimit)
<1> DEFINE found == Matching(d)
           page == FirstEntries(found, PullLimit)
           before(x) == {f \in found : f.version < x.version}
           w == WorkspaceOf[d]
<1>1. /\ replicas[d].cursor \in Nat /\ counter[w] \in Nat
      /\ found \subseteq history /\ history \subseteq Entry
      /\ \A f \in found : f.ws = w /\ f.version > replicas[d].cursor
  BY ReplicaConstants
     DEF ReadTypes, Replica, StoreInv, SyncInv, TypeOK, LogIsSuffix, Matching
<1>2. \A f \in found : f.version \in Nat /\ f.version <= counter[w]
  BY <1>1 DEF Entry, StoreInv, SyncInv, VersionsContiguous
<1>3. IsFiniteSet(found)
  <2>1. found \in SUBSET {f \in history : f.ws = w /\ f.version <= counter[w]}
    BY <1>1, <1>2
  <2> HIDE DEF found
  <2> QED BY <1>1, <2>1, EntriesFinite DEF StoreInv
<1>4. page # {}
  <2>1. page = {} => NextCursor(d) = replicas[d].cursor
    BY DEF NextCursor
  <2> QED BY <1>1, <1>2, <2>1
<1>5. PICK x \in page : x.version = NextCursor(d)
  BY <1>4, PageFacts
<1>6. x \in found /\ Cardinality(before(x)) < PullLimit
  BY <1>5 DEF FirstEntries
<1>7. before(e) \in SUBSET before(x) /\ before(x) \in SUBSET found
  BY <1>2, <1>5, <1>6
<1> HIDE DEF before, found
<1>8. /\ IsFiniteSet(before(x)) /\ IsFiniteSet(before(e))
      /\ Cardinality(before(e)) <= Cardinality(before(x))
      /\ Cardinality(before(x)) \in Nat /\ Cardinality(before(e)) \in Nat
  BY <1>3, <1>7, FS_Subset, FS_CardinalityType
<1>9. Cardinality(before(e)) < PullLimit
  BY <1>6, <1>8, ReplicaConstants
<1> QED BY <1>9 DEF before, found, FirstEntries

LEMMA PullPageCurrent ==
  ASSUME ReplicaInv, NEW d \in Devices, Current(d), PullPage(d)
  PROVE  Current(d)'
<1> DEFINE page == FirstEntries(Matching(d), PullLimit)
           next == NextCursor(d)
           cursor == replicas[d].cursor
           call == [step |-> "oldest", page |-> page,
                    nextCursor |-> next, oldest |-> NoVersion]
<1>1. /\ page \subseteq Matching(d) /\ next \in Nat
      /\ \A e \in page : e.version <= next
  BY PageFacts DEF ReplicaInv
<1>2. Matching(d) = {e \in log : /\ e.ws = WorkspaceOf[d] /\ e.version > cursor
                                 /\ e.op.record \in Follows[d]}
  BY DEF Matching
<1>3. /\ log \subseteq history /\ history \subseteq Entry /\ cursor \in Nat
  BY DeviceFacts DEF ReplicaInv, StoreInv, SyncInv, TypeOK, LogIsSuffix
<1>4. page \subseteq Due(d, history, cursor, next)
  <2> HIDE DEF page, next, cursor
  <2> QED BY <1>1, <1>2, <1>3 DEF Due, Entry
<1>5. ASSUME NEW e \in Due(d, history, cursor, next) \cap log
      PROVE  e \in page
  <2>1. e \in Matching(d) /\ e.version <= next
    <3> HIDE DEF page, next, cursor
    <3> QED BY <1>2, <1>3 DEF Due, Entry
  <2> QED BY <2>1, PageIsComplete DEF ReplicaInv
<1>6. /\ call.page = page /\ call.nextCursor = next /\ call.step = "oldest"
  OBVIOUS
<1>7. calls'[d] = call /\ UNCHANGED vars /\ UNCHANGED <<snapshots, replicas>>
  BY DEF PullPage, storeVars, ReplicaInv, ReadTypes
<1>8. PullSound(d, call, cursor, history, log)
  <2> HIDE DEF call, page, next, cursor
  <2> QED BY <1>4, <1>5, <1>6 DEF PullSound
<1>9. ~ InSnapshot(d)'
  BY <1>6, <1>7 DEF InSnapshot, Idle
<1> QED BY <1>7, <1>8, <1>9, CallCurrent

LEMMA PullOldestCurrent ==
  ASSUME ReplicaInv, NEW d \in Devices, Current(d), PullOldest(d)
  PROVE  Current(d)'
<1> DEFINE w == WorkspaceOf[d]
           versions == RetainedVersions(w)
           oldest == IF versions = {} THEN NoVersion ELSE Min(versions)
           call == calls[d]
           next == [call EXCEPT !.step = "counter", !.oldest = oldest]
           cursor == replicas[d].cursor
           missed == Due(d, history, cursor, call.nextCursor) \ call.page
<1>1. InPull(d) /\ call \in PullCall /\ cursor \in Nat
  BY DeviceFacts DEF PullOldest, InPull, InSnapshot
<1>2. PullSound(d, call, cursor, history, log)
  BY <1>1 DEF Current
<1>3. versions \in SUBSET Nat
  BY DEF RetainedVersions, ReplicaInv, StoreInv, SyncInv, TypeOK, Entry
<1>4. ASSUME NEW e \in missed, versions # {}
      PROVE  cursor < Min(versions) - 1
  <2>1. /\ e \in history /\ e \notin log /\ e.ws = w /\ cursor < e.version
        /\ e.version \in Nat
    BY <1>2 DEF PullSound, Due, ReplicaInv, StoreInv, SyncInv, TypeOK, Entry
  <2>2. Min(versions) \in versions
    <3> HIDE DEF versions
    <3> QED BY <1>3, <1>4, MinOfVersions
  <2>3. PICK f \in log : f.ws = w /\ f.version = Min(versions)
    BY <2>2 DEF RetainedVersions
  <2>4. ~ (f.version < e.version) /\ f # e /\ f \in history
    BY <2>1, <2>3 DEF ReplicaInv, StoreInv, SyncInv, LogIsSuffix
  <2>5. f.version # e.version
    BY <2>1, <2>3, <2>4 DEF ReplicaInv, StoreInv, SyncInv, VersionsContiguous
  <2>6. Min(versions) \in Nat
    BY <1>3, <2>2
  <2> HIDE DEF versions, cursor
  <2> QED BY <1>1, <2>1, <2>3, <2>4, <2>5, <2>6
<1> HIDE DEF versions
<1>5. /\ next.page = call.page /\ next.nextCursor = call.nextCursor
      /\ next.step = "counter" /\ next.oldest = oldest
  <2> HIDE DEF oldest
  <2> QED BY <1>1 DEF PullCall
<1>6. missed # {} => oldest = NoVersion \/ cursor < oldest - 1
  BY <1>4
<1>7. calls'[d] = next /\ UNCHANGED vars /\ UNCHANGED <<snapshots, replicas>>
  BY <1>1 DEF PullOldest, storeVars, ReplicaInv, ReadTypes, versions
<1> HIDE DEF oldest, next, call, cursor
<1>8. PullSound(d, next, cursor, history, log)
  BY <1>2, <1>5, <1>6 DEF PullSound
<1>9. ~ InSnapshot(d)'
  BY <1>5, <1>7 DEF InSnapshot, Idle
<1> QED BY <1>7, <1>8, <1>9, CallCurrent DEF cursor

\* A pull shows the device every change of a notification that only its user
\* wrote: the deletes name that user too.
LEMMA OwnChangesVisible ==
  ASSUME StoreInv, DeletesNameOwner, NEW w, NEW k, NEW n \in Nat, NEW user,
         k \in Notifications => OwnOnly(UpTo(history, w, k, n), user),
         NEW e \in UpTo(history, w, k, n)
  PROVE  isNotificationVisibleToUser(e.op, user)
<1>1. e \in history /\ e.op.record = k /\ e.ws = w /\ e.version <= n
  BY DEF UpTo
<1>2. \A f \in history : f.version \in Nat
  BY DEF StoreInv, SyncInv, TypeOK, Entry
<1>3. e.op.kind \in {"put", "delete"}
  <2>1. e.op \in Operation
    BY <1>1, EntryRevision DEF StoreInv, SyncInv, TypeOK
  <2> QED BY <2>1 DEF Operation
<1>4. ASSUME k \in Notifications
      PROVE  e.op.author = user
  <2>1. CASE e.op.kind = "put"
    BY <1>4, <2>1 DEF OwnOnly
  <2>2. CASE e.op.kind = "delete"
    <3>1. PICK f \in history : /\ f.ws = w /\ f.op.record = k
                               /\ f.version < e.version
                               /\ f.op.kind = "put" /\ f.op.author = e.op.author
      BY <1>1, <1>4, <2>2 DEF DeletesNameOwner
    <3>2. f.version <= n
      BY <1>1, <1>2, <3>1
    <3>3. f \in UpTo(history, w, k, n)
      BY <3>1, <3>2 DEF UpTo
    <3> QED BY <1>4, <3>1, <3>3 DEF OwnOnly
  <2> QED BY <1>3, <2>1, <2>2
<1> QED BY <1>1, <1>4 DEF isNotificationVisibleToUser

\* A pull that is not told to bootstrap has missed nothing.
LEMMA NothingMissed ==
  ASSUME ReplicaInv, NEW d \in Devices, Current(d), PullCounter(d),
         ~ RequiresSnapshot(calls[d], replicas[d].cursor, counter[WorkspaceOf[d]])
  PROVE  calls[d].page = Due(d, history, replicas[d].cursor, calls[d].nextCursor)
<1> DEFINE call == calls[d]
           cursor == replicas[d].cursor
           reached == counter[WorkspaceOf[d]]
           missed == Due(d, history, cursor, call.nextCursor) \ call.page
<1>1. /\ InPull(d) /\ call \in PullCall /\ cursor \in Nat /\ reached \in Nat
      /\ Placed(d)
  BY DeviceFacts DEF PullCounter, InPull, InSnapshot
<1>2. /\ call.oldest \in Nat \cup {NoVersion} /\ call.nextCursor \in Nat
      /\ call.nextCursor <= reached
  BY <1>1 DEF PullCall, Placed
<1>3. PullSound(d, call, cursor, history, log) /\ call.step = "counter"
  BY <1>1 DEF Current, PullCounter
<1>4. ASSUME NEW e \in missed
      PROVE  FALSE
  <2>1. cursor < e.version /\ e.version <= call.nextCursor /\ e.version \in Nat
    BY DEF Due, ReplicaInv, StoreInv, SyncInv, TypeOK, Entry
  <2>2. cursor < reached
    <3> HIDE DEF cursor, reached, call
    <3> QED BY <1>1, <1>2, <2>1
  <2>3. call.oldest = NoVersion \/ cursor < call.oldest - 1
    BY <1>3 DEF PullSound
  <2>4. ~ RequiresSnapshot(call, cursor, reached)
    OBVIOUS
  <2> HIDE DEF cursor, reached, call
  <2> DEFINE oldest == IF call.oldest = NoVersion THEN reached + 1 ELSE call.oldest
  <2>5. CASE call.oldest = NoVersion
    <3>1. ~ (oldest > 0 /\ cursor < oldest - 1)
      BY <2>4 DEF RequiresSnapshot
    <3>2. oldest = reached + 1
      BY <2>5
    <3> HIDE DEF oldest
    <3> QED BY <1>1, <2>2, <3>1, <3>2
  <2>6. CASE call.oldest # NoVersion
    <3>1. ~ (oldest > 0 /\ cursor < oldest - 1)
      BY <2>4 DEF RequiresSnapshot
    <3>2. oldest = call.oldest /\ oldest \in Nat
      BY <1>2, <2>6
    <3> HIDE DEF oldest
    <3> QED BY <1>1, <2>3, <2>6, <3>1, <3>2
  <2> QED BY <2>5, <2>6
<1> QED BY <1>3, <1>4 DEF PullSound

\* What a page adds to the merge of a record.
LEMMA PageMerges ==
  ASSUME ReplicaInv, RevisionsIdentify, DeletesNameOwner, NEW d \in Devices,
         NEW table \in Items, NEW cursor \in Nat, NEW next \in Nat,
         cursor <= next,
         HoldsMerge(d, table, history, cursor),
         NEW P, P = {e \in Due(d, history, cursor, next) :
                       isNotificationVisibleToUser(e.op, UserOf[d])}
  PROVE  HoldsMerge(d, MergeChanges(table, {e.op : e \in P}), history, next)
<1> DEFINE w == WorkspaceOf[d]
           user == UserOf[d]
           merged == MergeChanges(table, {e.op : e \in P})
<1>1. /\ w \in Workspaces /\ Follows[d] \subseteq Records
      /\ StoreInv /\ SyncInv /\ history \subseteq Entry
  BY ReplicaConstants DEF ReplicaInv, StoreInv, SyncInv, TypeOK
<1>2. \A e \in history : e.version \in Nat
  BY <1>1 DEF Entry
<1>3. ASSUME NEW k \in Follows[d],
             k \in Notifications => OwnOnly(UpTo(history, w, k, next), user)
      PROVE  merged[k] = MergeOf(UpTo(history, w, k, next))
  <2> DEFINE E == UpTo(history, w, k, cursor)
             F == {e \in P : e.op.record = k}
             ops == {f.op : f \in F}
  <2>1. UpTo(history, w, k, next) = E \cup F
    <3>1. ASSUME NEW e \in UpTo(history, w, k, next), e \notin E
          PROVE  e \in F
      <4>1. /\ e \in history /\ e.ws = w /\ e.op.record = k
            /\ e.version <= next /\ cursor < e.version
        BY <1>2, <3>1 DEF UpTo
      <4>2. isNotificationVisibleToUser(e.op, user)
        BY <1>1, <1>3, OwnChangesVisible
      <4> QED BY <4>1, <4>2 DEF Due
    <3>2. ASSUME NEW e \in E \cup F
          PROVE  e \in UpTo(history, w, k, next)
      BY <1>2 DEF UpTo, Due
    <3> HIDE DEF E, F
    <3> QED BY <3>1, <3>2
  <2>2. /\ IsFiniteSet(E) /\ IsFiniteSet(F)
        /\ E \in SUBSET Entry /\ F \in SUBSET Entry
    <3>1. E \in SUBSET {e \in history : e.ws = w /\ e.version <= cursor}
      BY DEF UpTo
    <3>2. F \in SUBSET {e \in history : e.ws = w /\ e.version <= next}
      BY DEF Due
    <3> HIDE DEF E, F
    <3> QED BY <1>1, <3>1, <3>2, EntriesFinite
  <2>3. Unambiguous(E \cup F)
    <3>1. E \cup F \subseteq {e \in history : e.ws = w}
      BY DEF UpTo, Due
    <3> HIDE DEF E, F
    <3> QED BY <1>1, <3>1 DEF RevisionsIdentify, Unambiguous
  <2>4. table[k] = MergeOf(E)
    <3>1. E \subseteq UpTo(history, w, k, next)
      BY <2>1
    <3>2. k \in Notifications => OwnOnly(E, user)
      BY <1>3, <3>1 DEF OwnOnly
    <3> QED BY <3>2 DEF HoldsMerge, IsMerge
  <2>5. {op \in {e.op : e \in P} : op.record = k} = ops
    OBVIOUS
  <2>6. F = {} <=> ops = {}
    OBVIOUS
  <2> DEFINE winner == CHOOSE op \in ops :
                         \A o \in ops : ~ lwwExcludedWins(RevisionOf(o), RevisionOf(op))
  <2>7. merged[k] = IF ops = {} THEN table[k] ELSE Received(table, k, ChangeItem(winner))[k]
    <3> DEFINE on(j) == {op \in {e.op : e \in P} : op.record = j}
    <3>1. merged = [j \in Records |->
             IF on(j) = {} THEN table[j]
             ELSE Received(table, j, ChangeItem(
                    CHOOSE op \in on(j) :
                      \A o \in on(j) :
                        ~ lwwExcludedWins(RevisionOf(o), RevisionOf(op))))[j]]
      BY DEF MergeChanges
    <3>2. on(k) = ops
      BY <2>5
    <3> HIDE DEF on, merged, ops
    <3> QED BY <1>1, <3>1, <3>2
  <2>8. MergeOf(E \cup F) = IF F = {} THEN table[k]
                            ELSE Received(table, k, ChangeItem(winner))[k]
    <3> HIDE DEF E, F
    <3> QED BY <1>1, <2>2, <2>3, <2>4, MergeExtends
  <2> HIDE DEF E, F, ops, winner, merged
  <2> QED BY <2>1, <2>6, <2>7, <2>8
<1> HIDE DEF merged
<1>4. \A k \in Follows[d] : IsMerge(merged[k], k, UpTo(history, w, k, next), user)
  BY <1>3 DEF IsMerge
<1> QED BY <1>4 DEF HoldsMerge, merged

LEMMA PullCounterCurrent ==
  ASSUME ReplicaInv, RevisionsIdentify, DeletesNameOwner,
         NEW d \in Devices, Current(d), PullCounter(d)
  PROVE  Current(d)'
<1> DEFINE call == calls[d]
           cursor == replicas[d].cursor
           P == {f \in call.page : isNotificationVisibleToUser(f.op, UserOf[d])}
           table == MergeChanges(replicas[d].table, {e.op : e \in P})
           bootstraps == RequiresSnapshot(call, cursor, counter[WorkspaceOf[d]])
<1>1. /\ InPull(d) /\ call \in PullCall /\ Placed(d) /\ cursor \in Nat
      /\ replicas[d] \in Replica
  BY DeviceFacts DEF PullCounter, InPull, InSnapshot
<1>2. /\ replicas[d].boot = NoBoot /\ call.nextCursor \in Nat
      /\ cursor <= call.nextCursor /\ replicas[d].table \in Items
  BY <1>1 DEF Placed, PullCall, Replica
<1>3. /\ UNCHANGED vars /\ snapshots' = snapshots /\ calls'[d] = NoCall
      /\ replicas'[d] = IF bootstraps THEN [replicas[d] EXCEPT !.stale = TRUE]
                        ELSE [replicas[d] EXCEPT !.cursor = call.nextCursor,
                                                 !.table = table]
  BY DEF PullCounter, storeVars, ReplicaInv, ReadTypes
<1>4. HoldsMerge(d, replicas[d].table, history, cursor)
  BY DEF Current
<1>5. ASSUME ~ bootstraps
      PROVE  HoldsMerge(d, table, history, call.nextCursor)
  <2>1. call.page = Due(d, history, cursor, call.nextCursor)
    BY <1>5, NothingMissed
  <2>2. P = {e \in Due(d, history, cursor, call.nextCursor) :
               isNotificationVisibleToUser(e.op, UserOf[d])}
    BY <2>1
  <2> HIDE DEF P, call, cursor
  <2> QED BY <1>1, <1>2, <1>4, <2>2, PageMerges
<1> HIDE DEF table, bootstraps, call
<1>6. /\ replicas'[d].boot = NoBoot
      /\ \/ replicas'[d].table = replicas[d].table /\ replicas'[d].cursor = cursor
         \/ /\ ~ bootstraps
            /\ replicas'[d].table = table /\ replicas'[d].cursor = call.nextCursor
  BY <1>1, <1>2, <1>3 DEF Replica
<1>7. HoldsMerge(d, replicas'[d].table, history', replicas'[d].cursor)
  <2>1. history' = history
    BY <1>3 DEF vars
  <2> QED BY <1>4, <1>5, <1>6, <2>1
<1>8. ~ InSnapshot(d)' /\ ~ InPull(d)'
  BY <1>3 DEF InSnapshot, InPull, Idle
<1> QED BY <1>6, <1>7, <1>8 DEF Current

\* A snapshot outlives the call that reads a page of it.
PagesOutlived ==
  \A d \in Devices : (~ Idle(d) /\ calls[d].step = "items")
                       => snapshots[calls[d].id] # NoSnapshot

\* A capture serves the device it is made for.
LEMMA CaptureServes ==
  ASSUME ReplicaInv, RevisionsIdentify, NEW d \in Devices,
         NEW items, \A k \in Follows[d] :
                      items[k] = SnapshotItem(WorkspaceOf[d], k, UserOf[d])
  PROVE  HoldsMerge(d, items, history, counter[WorkspaceOf[d]])
<1>1. WorkspaceOf[d] \in Workspaces /\ Follows[d] \subseteq Records /\ StoreInv
  BY ReplicaConstants DEF ReplicaInv
<1>2. ASSUME NEW k \in Follows[d]
      PROVE  IsMerge(items[k], k, UpTo(history, WorkspaceOf[d], k, counter[WorkspaceOf[d]]),
                     UserOf[d])
  BY <1>1, CapturedItem DEF IsMerge
<1> QED BY <1>2 DEF HoldsMerge

LEMMA CaptureMakes ==
  ASSUME ReplicaInv, NEW d \in Devices, Capture(d)
  PROVE  \E id \in SnapshotIds : calls'[d].id = id /\ snapshots'[id] \in Snapshot
<1> DEFINE w == WorkspaceOf[d]
           items == [k \in Records |-> IF k \in Follows[d]
                                       THEN SnapshotItem(w, k, UserOf[d]) ELSE NoRow]
           snapshot == [ws |-> w, tables |-> Follows[d], watermark |-> counter[w],
                        expiresAt |-> now + SnapshotTTL, items |-> items]
<1>1. PICK id \in SnapshotIds : snapshots'[id] = snapshot /\ calls'[d].id = id
  BY DEF Capture, HighWatermark, ReplicaInv, ReadTypes
<1>2. items \in Items
  BY ReplicaConstants, SnapshotItemType DEF ReplicaInv, Items
<1>3. now + SnapshotTTL \in Nat /\ counter[w] \in Nat
  BY ReplicaConstants DEF ReplicaInv, StoreInv, SyncInv, TypeOK
<1> HIDE DEF items
<1>4. snapshot \in Snapshot
  BY <1>2, <1>3, ReplicaConstants, DeviceFacts DEF Snapshot
<1> QED BY <1>1, <1>4

LEMMA CaptureCurrent ==
  ASSUME ReplicaInv, RevisionsIdentify, NEW d \in Devices, Current(d), Capture(d)
  PROVE  Current(d)'
<1> DEFINE w == WorkspaceOf[d]
           items == [k \in Records |-> IF k \in Follows[d]
                                       THEN SnapshotItem(w, k, UserOf[d]) ELSE NoRow]
           snapshot == [ws |-> w, tables |-> Follows[d], watermark |-> counter[w],
                        expiresAt |-> now + SnapshotTTL, items |-> items]
<1>1. PICK id \in SnapshotIds :
        /\ snapshots' = [i \in SnapshotIds |->
                           IF i = id THEN snapshot
                           ELSE IF Expired(i) THEN NoSnapshot ELSE snapshots[i]]
        /\ calls' = [calls EXCEPT ![d] = [step |-> "created", id |-> id, after |-> 0,
                                          watermark |-> counter[w], since |-> now]]
  BY DEF Capture, HighWatermark
<1> DEFINE call == [step |-> "created", id |-> id, after |-> 0,
                    watermark |-> counter[w], since |-> now]
<1>2. /\ UNCHANGED vars /\ replicas' = replicas /\ replicas[d].boot = NoBoot
      /\ calls'[d] = call /\ snapshots'[id] = snapshot
  BY <1>1 DEF Capture, storeVars, ReplicaInv, ReadTypes
<1>3. snapshot.watermark = counter[w] /\ snapshot.items = items
  OBVIOUS
<1>4. snapshot # NoSnapshot
  <2>1. items \in Items
    BY ReplicaConstants, SnapshotItemType DEF ReplicaInv, Items
  <2>2. now + SnapshotTTL \in Nat
    BY ReplicaConstants DEF ReplicaInv, StoreInv, SyncInv, TypeOK
  <2> HIDE DEF items
  <2>3. snapshot \in Snapshot
    BY <2>1, <2>2, ReplicaConstants, DeviceFacts DEF Snapshot
  <2> QED BY <2>3, ReplicaSentinels
<1>5. HoldsMerge(d, items, history, counter[w])
  <2>1. \A k \in Follows[d] : items[k] = SnapshotItem(w, k, UserOf[d])
    BY ReplicaConstants
  <2> HIDE DEF items
  <2> QED BY <2>1, CaptureServes
<1>6. call.id = id /\ call.watermark = counter[w] /\ call.step = "created"
  OBVIOUS
<1>7. history' = history /\ ~ InPull(d)'
  BY <1>2, <1>6 DEF vars, InPull, InSnapshot, Idle
<1>8. HoldsMerge(d, replicas[d].table, history, replicas[d].cursor)
  BY DEF Current
<1> HIDE DEF snapshot, call, items
<1> QED BY <1>2, <1>3, <1>4, <1>5, <1>6, <1>7, <1>8 DEF Current

LEMMA ReadCreatedCurrent ==
  ASSUME ReplicaInv, NEW d \in Devices, Current(d), ReadCreated(d)
  PROVE  Current(d)'
<1>1. InSnapshot(d) /\ calls[d] \in SnapshotCall
  BY DeviceFacts DEF ReadCreated, InSnapshot
<1> DEFINE next == [calls[d] EXCEPT !.step = "items"]
<1>2. /\ next.id = calls[d].id /\ next.watermark = calls[d].watermark
      /\ next.step = "items"
  BY <1>1 DEF SnapshotCall
<1>3. snapshots[calls[d].id] # NoSnapshot =>
        HoldsMerge(d, snapshots[calls[d].id].items, history, calls[d].watermark)
  BY <1>1 DEF Current
<1>4. /\ UNCHANGED vars /\ UNCHANGED <<snapshots, replicas>>
      /\ calls'[d] \in {next, NoCall}
  BY DEF ReadCreated, storeVars, ReplicaInv, ReadTypes
<1>5. ~ InPull(d)'
  BY <1>2, <1>4 DEF InPull, InSnapshot, Idle
<1>6. InSnapshot(d)' => calls'[d] = next
  BY <1>4 DEF InSnapshot, Idle
<1> HIDE DEF next
<1> QED BY <1>2, <1>3, <1>4, <1>5, <1>6, CallCurrent

LEMMA RequestPageCurrent ==
  ASSUME ReplicaInv, NEW d \in Devices, Current(d), RequestPage(d)
  PROVE  Current(d)'
<1> DEFINE boot == replicas[d].boot
<1>1. /\ Placed(d) /\ replicas[d] \in Replica /\ boot # NoBoot
      /\ Idle(d) /\ UNCHANGED vars
  BY DeviceFacts DEF RequestPage, storeVars
<1>2. CASE replicas' = [replicas EXCEPT ![d].boot = NoBoot] /\ calls' = calls
  <2>1. /\ replicas'[d].boot = NoBoot /\ replicas'[d].table = replicas[d].table
        /\ replicas'[d].cursor = replicas[d].cursor
    BY <1>1, <1>2 DEF ReplicaInv, ReadTypes, Replica
  <2>2. ~ InSnapshot(d)' /\ ~ InPull(d)'
    BY <1>1, <1>2 DEF InSnapshot, InPull, Idle
  <2>3. history' = history
    BY <1>1 DEF vars
  <2> QED BY <2>1, <2>2, <2>3 DEF Current
<1>3. ASSUME snapshots[boot.id] # NoSnapshot, UNCHANGED <<snapshots, replicas>>,
             calls' = [calls EXCEPT ![d] =
               [step |-> "items", id |-> boot.id, after |-> boot.after,
                watermark |-> snapshots[boot.id].watermark, since |-> now]]
      PROVE  Current(d)'
  <2> DEFINE call == [step |-> "items", id |-> boot.id, after |-> boot.after,
                      watermark |-> snapshots[boot.id].watermark, since |-> now]
  <2>1. calls'[d] = call
    BY <1>3 DEF ReplicaInv, ReadTypes
  <2>2. /\ call.id = boot.id /\ call.watermark = snapshots[boot.id].watermark
        /\ call.step = "items"
    OBVIOUS
  <2>3. HoldsMerge(d, snapshots[boot.id].items, history, snapshots[boot.id].watermark)
    BY <1>1, <1>3 DEF Current
  <2> HIDE DEF call
  <2>4. ~ InPull(d)'
    BY <2>1, <2>2 DEF InPull, InSnapshot, Idle
  <2> QED BY <1>1, <1>3, <2>1, <2>2, <2>3, <2>4, CallCurrent
<1> QED BY <1>2, <1>3 DEF RequestPage

LEMMA ReadItemsCurrent ==
  ASSUME ReplicaInv, NEW d \in Devices, Current(d), ReadItems(d),
         snapshots[calls[d].id] # NoSnapshot
  PROVE  Current(d)'
<1> DEFINE call == calls[d]
           boot == replicas[d].boot
           items == snapshots[call.id].items
           left == ItemsAfter(call.id, call.after)
           page == PageItems(call.id, call.after)
           before == IF call.after = 0 THEN Empty ELSE boot.table
           table == [k \in Records |-> IF k \in page
                       THEN Received(before, k, items[k])[k] ELSE before[k]]
           more == [replicas[d] EXCEPT !.boot =
                      [id |-> call.id, after |-> LastOf(page), table |-> table]]
           done == [cursor |-> call.watermark, table |-> table,
                    stale |-> FALSE, boot |-> NoBoot]
<1>1. /\ InSnapshot(d) /\ call \in SnapshotCall /\ Placed(d)
      /\ replicas[d] \in Replica /\ UNCHANGED vars /\ snapshots' = snapshots
      /\ calls'[d] = NoCall
  BY DeviceFacts DEF ReadItems, InSnapshot, storeVars, ReplicaInv, ReadTypes
<1>2. /\ call.id \in SnapshotIds /\ call.after \in Nat /\ call.watermark \in Nat
      /\ snapshots[call.id] # NoSnapshot
      /\ snapshots[call.id].watermark = call.watermark
      /\ HoldsMerge(d, items, history, call.watermark)
      /\ call.after # 0 => /\ boot # NoBoot /\ boot \in Boot
                           /\ call.id = boot.id /\ call.after = boot.after
                           /\ HoldsItems(d, boot, items)
  BY <1>1 DEF SnapshotCall, Placed, Replica, Current
<1>3. items \in Items /\ Follows[d] \subseteq Records
  BY <1>2, ReplicaConstants DEF ReplicaInv, ReadTypes, Snapshot
<1>4. /\ left = {k \in Records : items[k] # NoRow /\ Order[k] > call.after}
      /\ page \subseteq left /\ \A k \in Records : Order[k] \in Nat /\ Order[k] > 0
  BY <1>2, ReplicaConstants DEF ItemsAfter, PageItems
<1>5. ASSUME NEW k \in Follows[d]
      PROVE  before[k] = IF Order[k] <= call.after THEN items[k] ELSE NoRow
  <2>1. CASE call.after = 0
    BY <1>3, <1>4, <2>1 DEF Empty
  <2>2. CASE call.after # 0
    BY <1>2, <2>2 DEF HoldsItems
  <2> QED BY <2>1, <2>2
<1>6. before \in Items
  BY <1>2 DEF Boot, Empty, Items
<1> HIDE DEF before, left, page, items
<1>7. ASSUME NEW k \in Follows[d]
      PROVE  table[k] = IF k \in page \/ Order[k] <= call.after THEN items[k] ELSE NoRow
  <2>1. k \in Records /\ Order[k] \in Nat
    BY <1>3, <1>4
  <2>2. CASE k \in page
    <3>1. before[k] = NoRow
      BY <1>2, <1>4, <1>5, <2>1, <2>2
    <3>2. Received(before, k, items[k])[k] = items[k]
      BY <1>6, <2>1, <3>1 DEF Received, Items
    <3> QED BY <2>1, <2>2, <3>2
  <2>3. CASE k \notin page
    BY <1>5, <2>1, <2>3
  <2> QED BY <2>2, <2>3
<1>8. \/ page # left /\ replicas'[d] = more
      \/ page = left /\ replicas'[d] = done
  BY DEF ReadItems, LastOf, ReplicaInv, ReadTypes, before, page, left, items
<1>9. history' = history /\ ~ InSnapshot(d)' /\ ~ InPull(d)'
  BY <1>1 DEF vars, InSnapshot, InPull, Idle
<1> HIDE DEF table
<1>10. CASE page # left /\ replicas'[d] = more
  <2>1. /\ LastOf(page) \in Nat /\ call.after < LastOf(page)
        /\ \A k \in left : Order[k] <= LastOf(page) <=> k \in page
    BY <1>2, <1>10, PageItemsFacts DEF ReplicaInv, page, left
  <2> DEFINE newBoot == [id |-> call.id, after |-> LastOf(page), table |-> table]
  <2>2. newBoot.id = call.id /\ newBoot.after = LastOf(page) /\ newBoot.table = table
    OBVIOUS
  <2>3. /\ replicas'[d].boot = newBoot /\ replicas'[d].table = replicas[d].table
        /\ replicas'[d].cursor = replicas[d].cursor
    BY <1>1, <1>10 DEF Replica
  <2> HIDE DEF newBoot
  <2>4. ASSUME NEW k \in Follows[d]
        PROVE  newBoot.table[k] = IF Order[k] <= newBoot.after THEN items[k] ELSE NoRow
    <3>1. k \in Records /\ Order[k] \in Nat
      BY <1>3, <1>4
    <3>2. CASE k \in left
      <4>1. ~ (Order[k] <= call.after)
        BY <1>2, <1>4, <3>1, <3>2
      <4> QED BY <1>7, <2>1, <2>2, <3>2, <4>1
    <3>3. CASE k \notin left
      <4>1. items[k] = NoRow \/ Order[k] <= call.after
        BY <1>2, <1>4, <3>1, <3>3
      <4>2. Order[k] <= call.after => Order[k] <= LastOf(page)
        BY <1>2, <2>1, <3>1
      <4> QED BY <1>4, <1>7, <2>2, <3>3, <4>1, <4>2
    <3> QED BY <3>2, <3>3
  <2>5. HoldsItems(d, newBoot, items)
    BY <2>4 DEF HoldsItems
  <2>6. HoldsMerge(d, replicas[d].table, history, replicas[d].cursor)
    BY DEF Current
  <2> QED BY <1>1, <1>2, <1>9, <2>2, <2>3, <2>5, <2>6 DEF Current, items
<1>11. CASE page = left /\ replicas'[d] = done
  <2>1. /\ replicas'[d].cursor = call.watermark /\ replicas'[d].table = table
        /\ replicas'[d].boot = NoBoot
    BY <1>11
  <2>2. \A k \in Follows[d] : table[k] = items[k]
    BY <1>2, <1>3, <1>4, <1>7, <1>11
  <2>3. HoldsMerge(d, table, history, call.watermark)
    BY <1>2, <2>2 DEF HoldsMerge
  <2> QED BY <1>9, <2>1, <2>3 DEF Current
<1> QED BY <1>8, <1>10, <1>11

LEMMA AbandonCurrent ==
  ASSUME ReplicaInv, NEW d \in Devices, Current(d), AbandonCall(d)
  PROVE  Current(d)'
<1>1. UNCHANGED vars /\ UNCHANGED <<snapshots, replicas>> /\ calls'[d] = NoCall
  BY DEF AbandonCall, storeVars, ReplicaInv, ReadTypes
<1>2. ~ InSnapshot(d)' /\ ~ InPull(d)'
  BY <1>1 DEF InSnapshot, InPull, Idle
<1> QED BY <1>1, <1>2, CallCurrent

\* Every step keeps every device current.
LEMMA CurrentStep ==
  ASSUME ReplicaInv, RevisionsIdentify, DeletesNameOwner, PagesOutlived,
         \A d \in Devices : Current(d), [ReplicaNext]_allVars
  PROVE  \A d \in Devices : Current(d)'
<1>1. StoreInv' /\ HistoryMoves
  BY ReplicaInvStep, StoreInvStep DEF ReplicaInv
<1>2. CASE UNCHANGED readVars
  <2>1. calls' = calls /\ replicas' = replicas /\ snapshots' = snapshots
    BY <1>2 DEF readVars
  <2> QED BY <1>1, <2>1, CurrentKept
<1>3. ASSUME NEW d \in Devices,
             \/ PullPage(d) \/ PullOldest(d) \/ PullCounter(d)
             \/ Capture(d) \/ ReadCreated(d) \/ RequestPage(d) \/ ReadItems(d)
             \/ AbandonCall(d)
      PROVE  \A e \in Devices : Current(e)'
  <2>1. UNCHANGED vars
    BY <1>3 DEF PullPage, PullOldest, PullCounter, Capture, ReadCreated,
       RequestPage, ReadItems, AbandonCall, storeVars
  <2>2. Current(d)'
    <3>1. CASE ReadItems(d)
      <4>1. snapshots[calls[d].id] # NoSnapshot
        BY <3>1 DEF ReadItems, PagesOutlived, Idle
      <4> QED BY <3>1, <4>1, ReadItemsCurrent
    <3> QED BY <1>3, <3>1, PullPageCurrent, PullOldestCurrent, PullCounterCurrent,
            CaptureCurrent, ReadCreatedCurrent, RequestPageCurrent, AbandonCurrent
  <2>3. \A e \in Devices \ {d} : Current(e)'
    BY <1>3, <2>1, OthersCurrent
  <2> QED BY <2>2, <2>3
<1> QED BY <1>2, <1>3 DEF ReplicaNext, allVars

LEMMA CurrentInit ==
  ASSUME InitReplica
  PROVE  \A d \in Devices : Current(d)
<1>1. \A d \in Devices :
        /\ replicas[d].cursor = 0 /\ replicas[d].table = Empty
        /\ replicas[d].boot = NoBoot /\ calls[d] = NoCall
  BY DEF InitReplica
<1>2. history = {}
  BY DEF InitReplica, Init
<1>3. ASSUME NEW d \in Devices, NEW k \in Follows[d]
      PROVE  IsMerge(Empty[k], k, UpTo(history, WorkspaceOf[d], k, 0), UserOf[d])
  <2>1. k \in Records
    BY ReplicaConstants
  <2>2. UpTo(history, WorkspaceOf[d], k, 0) = {}
    BY <1>2 DEF UpTo
  <2> QED BY <2>1, <2>2 DEF IsMerge, MergeOf, Empty
<1> QED BY <1>1, <1>3 DEF Current, HoldsMerge, InSnapshot, InPull, Idle

\* Under a local driver nothing happens while a snapshot call is open, so the
\* snapshot is there when its page is read.
LEMMA LocalPagesStep ==
  ASSUME ~ Awaited, ReplicaInv, [ReplicaNext]_allVars,
         \A d \in Devices : InSnapshot(d) => snapshots[calls[d].id] # NoSnapshot
  PROVE  \A d \in Devices : InSnapshot(d)' => snapshots'[calls'[d].id] # NoSnapshot
<1>1. CASE UNCHANGED readVars
  BY <1>1 DEF readVars, InSnapshot, Idle
<1>2. ASSUME NEW d \in Devices,
             \/ PullPage(d) \/ PullOldest(d) \/ PullCounter(d)
             \/ Capture(d) \/ ReadCreated(d) \/ RequestPage(d) \/ ReadItems(d)
             \/ AbandonCall(d),
             NEW e \in Devices, InSnapshot(e)'
      PROVE  snapshots'[calls'[e].id] # NoSnapshot
  <2>1. calls \in [Devices -> SnapshotCall \cup PullCall \cup {NoCall}]
    BY DEF ReplicaInv, ReadTypes
  <2>2. CASE e # d
    <3>1. ~ InSnapshot(e)
      BY <1>2, <2>2 DEF MayRun, PullPage, PullOldest, PullCounter, Capture,
         ReadCreated, RequestPage, ReadItems, AbandonCall
    <3>2. calls' = calls \/ \E call : calls' = [calls EXCEPT ![d] = call]
      BY <1>2 DEF PullPage, PullOldest, PullCounter, Capture, ReadCreated,
         RequestPage, ReadItems, AbandonCall
    <3>3. calls'[e] = calls[e]
      BY <2>1, <2>2, <3>2
    <3> QED BY <1>2, <3>1, <3>3 DEF InSnapshot, Idle
  <2>3. CASE e = d /\ PullPage(d)
    <3>1. calls'[d].step = "oldest"
      BY <2>1, <2>3 DEF PullPage
    <3> QED BY <1>2, <2>3, <3>1 DEF InSnapshot
  <2>4. CASE e = d /\ PullOldest(d)
    <3>1. calls[d] \in PullCall
      BY <2>4, DeviceFacts DEF PullOldest, InPull, InSnapshot, Idle
    <3>2. calls'[d].step = "counter"
      BY <2>1, <2>4, <3>1 DEF PullOldest, PullCall
    <3> QED BY <1>2, <2>4, <3>2 DEF InSnapshot
  <2>5. CASE e = d /\ (PullCounter(d) \/ ReadItems(d) \/ AbandonCall(d))
    <3>1. calls'[d] = NoCall
      BY <2>1, <2>5 DEF PullCounter, ReadItems, AbandonCall
    <3> QED BY <1>2, <2>5, <3>1 DEF InSnapshot, Idle
  <2>6. CASE e = d /\ Capture(d)
    <3>1. PICK id \in SnapshotIds : calls'[d].id = id /\ snapshots'[id] \in Snapshot
      BY <2>6, CaptureMakes
    <3> QED BY <2>6, <3>1, ReplicaSentinels
  <2>7. CASE e = d /\ ReadCreated(d)
    <3>1. InSnapshot(d) /\ calls[d] \in SnapshotCall
      BY <2>7, DeviceFacts DEF ReadCreated, InSnapshot
    <3>2. calls'[d].id = calls[d].id /\ snapshots' = snapshots
      BY <1>2, <2>1, <2>7, <3>1 DEF ReadCreated, SnapshotCall, InSnapshot, Idle
    <3> QED BY <2>7, <3>1, <3>2
  <2>8. CASE e = d /\ RequestPage(d)
    <3>1. calls' # calls
      BY <1>2, <2>8 DEF RequestPage, InSnapshot, Idle
    <3>2. /\ snapshots[replicas[d].boot.id] # NoSnapshot
          /\ snapshots' = snapshots /\ calls'[d].id = replicas[d].boot.id
      BY <2>1, <2>8, <3>1 DEF RequestPage
    <3> QED BY <2>8, <3>2
  <2> QED BY <1>2, <2>2, <2>3, <2>4, <2>5, <2>6, <2>7, <2>8
<1> QED BY <1>1, <1>2 DEF ReplicaNext, allVars

\* A device that follows the protocol holds the merge of all that was accepted
\* up to its cursor, over any number of pages, pushes, GCs and lost answers,
\* with either driver: if revisions identify operations, the delete of a
\* notification names its owner, and no snapshot goes while a page of it is
\* read.  SyncReplica_notice.cfg and SyncReplica_d1.cfg show a device that holds
\* something else when a delete names nobody, and when a snapshot expires.
THEOREM ReplicasHoldTheirCursors ==
  ReplicaSpec /\ []RevisionsIdentify /\ []DeletesNameOwner /\ []PagesOutlived
    => []ReplicaHoldsItsCursor
<1> DEFINE AllCurrent == \A d \in Devices : Current(d)
<1>1. InitReplica => AllCurrent
  BY CurrentInit
<1>2. ReplicaInv /\ RevisionsIdentify /\ DeletesNameOwner /\ PagesOutlived
        /\ AllCurrent /\ [ReplicaNext]_allVars => AllCurrent'
  BY CurrentStep
<1>3. AllCurrent => ReplicaHoldsItsCursor
  BY DEF Current, HoldsMerge, IsMerge, ReplicaHoldsItsCursor, EntriesUpTo, UpTo
<1> HIDE DEF AllCurrent
<1> QED BY <1>1, <1>2, <1>3, ReplicaInvariant, PTL DEF ReplicaSpec

\* Under a local driver, whose snapshot calls do not wait, no snapshot goes
\* while a page of it is read (snapshot): the device holds its cursor.
THEOREM LocalReplicasHoldTheirCursors ==
  ASSUME ~ Awaited
  PROVE  ReplicaSpec /\ []RevisionsIdentify /\ []DeletesNameOwner
           => []ReplicaHoldsItsCursor
<1> DEFINE AllThere ==
      \A d \in Devices : InSnapshot(d) => snapshots[calls[d].id] # NoSnapshot
<1>1. InitReplica => AllThere
  BY DEF InitReplica, InSnapshot, Idle
<1>2. ReplicaInv /\ AllThere /\ [ReplicaNext]_allVars => AllThere'
  BY LocalPagesStep
<1>3. AllThere => PagesOutlived
  BY DEF PagesOutlived, InSnapshot
<1> HIDE DEF AllThere
<1> QED BY <1>1, <1>2, <1>3, ReplicaInvariant, ReplicasHoldTheirCursors, PTL
        DEF ReplicaSpec
=============================================================================
