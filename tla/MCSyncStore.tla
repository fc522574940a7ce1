----------------------------- MODULE MCSyncStore -----------------------------
(***************************************************************************)
(* Instances of SyncStore for TLC.                                         *)
(***************************************************************************)
EXTENDS SyncStore

CONSTANTS w1, w2, u1, u2, d1, thread, notice

Put(id, k, clock, hlc, user) ==
  [opId |-> id, record |-> k, kind |-> "put",
   clock |-> clock, hlc |-> hlc, author |-> user]

Delete(id, k, clock, hlc) ==
  [opId |-> id, record |-> k, kind |-> "delete",
   clock |-> clock, hlc |-> hlc, author |-> NoUser]

\* One record written and deleted concurrently, with a revision tie that the
\* op_id breaks, and two requests that reuse op_id 1.
ThreadOps == {Put(1, thread, 1, 1, NoUser), Put(1, thread, 2, 1, NoUser),
              Delete(2, thread, 1, 1)}

\* A notification put that becomes whoever pushes it first's, one that names
\* u2, an invalid one that reuses op_id 1, and a delete.
NoticeOps == {Put(1, notice, 1, 1, NoUser), Put(2, notice, 1, 2, u2),
              Put(1, notice, 3, 1, u1), Delete(4, notice, 2, 1)}

InvalidNotice == {Put(1, notice, 3, 1, u1)}

\* Deletes of one record with growing revisions, and an older put.
DeleteOps == {Put(1, thread, 1, 1, NoUser), Delete(2, thread, 2, 1),
              Delete(3, thread, 3, 1)}

-----------------------------------------------------------------------------
\* GC deletes only what is older than the retention window: no delete is
\* forgotten whose deleted_at lies within every window an operator may
\* configure.
PrunedDeletesAreOld ==
  [][\A w \in Workspaces, k \in Records :
       tombstones[w][k] # NoTombstone /\ tombstones'[w][k] = NoTombstone
       => \E retention \in Retentions :
            tombstones[w][k].deletedAt + retention < now]_vars
=============================================================================
