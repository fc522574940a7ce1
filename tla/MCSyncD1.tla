------------------------------ MODULE MCSyncD1 ------------------------------
(***************************************************************************)
(* Instances of SyncD1 for TLC: two requests race.                         *)
(***************************************************************************)
EXTENDS SyncD1, TLC

CONSTANTS w1, w2, u1, d1, thread, r1, r2

Put(id, clock) == [opId |-> id, record |-> thread, kind |-> "put",
                   clock |-> clock, hlc |-> 1, author |-> NoUser]

Delete(id, clock) == [Put(id, clock) EXCEPT !.kind = "delete"]

\* Two deletes and a put on one record; op_id 1 is used twice.
RaceOps == {Put(1, 1), Delete(1, 3), Delete(2, 2)}

\* Two puts are enough for a race of two pushes.
TwoPuts == {Put(1, 1), Put(2, 2)}

Symmetry == Permutations(Requests)
=============================================================================
