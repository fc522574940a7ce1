----------------------------- MODULE MCConnect -----------------------------
(***************************************************************************)
(* Instances of Connect for TLC.                                           *)
(***************************************************************************)
EXTENDS Connect

CONSTANTS a1, a2, e1, e2, k1, u1, p1, p2, w1, w2, tunnel, c1

\* One account with two workspaces.
TwoWorkspaces == {[user |-> u1, workspace |-> p1], [user |-> u1, workspace |-> p2]}

\* Requests are approved in the first; calls come from both.
FirstWorkspace == {[user |-> u1, workspace |-> p1]}
=============================================================================
