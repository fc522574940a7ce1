---------------------------- MODULE MCSyncReplica ----------------------------
(***************************************************************************)
(* Instances of SyncReplica for TLC: one workspace, a user's devices.      *)
(***************************************************************************)
EXTENDS SyncReplica

CONSTANTS w1, u1, d1, d2, thread, notice

Put(id, k, clock) ==
  [opId |-> id, record |-> k, kind |-> "put",
   clock |-> clock, hlc |-> 1, author |-> NoUser]

\* A delete whose payload names user, or that has no payload.
Delete(id, k, clock, user) ==
  [opId |-> id, record |-> k, kind |-> "delete",
   clock |-> clock, hlc |-> 1, author |-> user]

\* A thread and a notification that are written and deleted, the notification
\* by a delete that names its owner.
MixedOps == {Put(1, thread, 1), Delete(2, thread, 2, NoUser),
             Put(3, notice, 1), Delete(4, notice, 2, u1)}

\* A notification that is deleted without a payload.
NoticeOps == {Put(1, notice, 1), Delete(2, notice, 2, NoUser)}

\* Two records to bootstrap.
TwoPuts == {Put(1, thread, 1), Put(2, notice, 1)}

OrderOf == [k \in Records |-> IF k = notice THEN 1 ELSE 2]
UserOfAll == [d \in Devices |-> u1]
WorkspaceOfAll == [d \in Devices |-> w1]
FollowsAll == [d \in Devices |-> Records]

\* d2 follows a table without records.
FollowsOne == [d \in Devices |-> IF d = d1 THEN Records ELSE {}]
=============================================================================
