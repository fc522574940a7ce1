---------------------------- MODULE SyncRevision ----------------------------
(***************************************************************************)
(* Last-writer-wins revisions.  A pushed operation and the row or          *)
(* tombstone it writes carry the triple (clock, hlc, op_id).  The HLC and  *)
(* the op_id are strings compared lexicographically; only their order      *)
(* matters, so both are numbers here.                                      *)
(***************************************************************************)
EXTENDS Integers

Revision == [clock: Nat, hlc: Nat, opId: Nat]

\* The revision part of an operation.
RevisionOf(x) == [clock |-> x.clock, hlc |-> x.hlc, opId |-> x.opId]

\* The comparison of the TypeScript code: the first differing field decides.
compareSyncRevision(left, right) ==
  IF left.clock # right.clock THEN IF left.clock > right.clock THEN 1 ELSE -1
  ELSE IF left.hlc # right.hlc THEN IF left.hlc > right.hlc THEN 1 ELSE -1
  ELSE IF left.opId # right.opId THEN IF left.opId > right.opId THEN 1 ELSE -1
  ELSE 0

incomingRevisionWins(incoming, current) ==
  compareSyncRevision(incoming, current) > 0

\* The same test as SQL spells it in the ON CONFLICT ... WHERE of an upsert.
lwwExcludedWins(excluded, target) ==
  \/ excluded.clock > target.clock
  \/ excluded.clock = target.clock /\ excluded.hlc > target.hlc
  \/ /\ excluded.clock = target.clock
     /\ excluded.hlc = target.hlc
     /\ excluded.opId > target.opId
=============================================================================
