----------------------------- MODULE MCWebhooks -----------------------------
(***************************************************************************)
(* Instances of Webhooks for TLC.                                          *)
(***************************************************************************)
EXTENDS Webhooks

CONSTANTS w1, d1, k1, k2, x1, x2, h1
=============================================================================
