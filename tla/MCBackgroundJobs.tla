-------------------------- MODULE MCBackgroundJobs --------------------------
(***************************************************************************)
(* Instances of BackgroundJobs for TLC.                                    *)
(***************************************************************************)
EXTENDS BackgroundJobs

CONSTANTS j1, j2, u1, u2, k1, w1, w2, c1, c2

\* A workflow job with a key that workers run, and a chat job without.
TwoCalls == {[user |-> u1, key |-> k1, executable |-> TRUE],
             [user |-> u2, key |-> NoKey, executable |-> FALSE]}
=============================================================================
