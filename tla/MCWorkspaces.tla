---------------------------- MODULE MCWorkspaces ----------------------------
(***************************************************************************)
(* Instances of Workspaces for TLC.                                        *)
(***************************************************************************)
EXTENDS Workspaces, TLC

CONSTANTS u1, u2, w1, w2, a1, a2, e1, c1, c2

\* Both accounts have the email that is invited, so they can race for it.
SharedEmail == [a \in Identities |-> e1]

\* No invite is sent yet, or the first one.
NoneOrOne ==
  {[i \in Invites |-> Null],
   [i \in Invites |->
      IF i = 1 THEN [ws |-> Home, email |-> e1, role |-> "editor",
                     status |-> "pending", due |-> FALSE, user |-> Null]
      ELSE Null]}

\* The shared email, and the account that has no user at first.
EmailOrAccount == {[account |-> Null, email |-> e1],
                   [account |-> a2, email |-> Null]}

CallerSymmetry == Permutations(Callers)
=============================================================================
