----------------------------- MODULE MCWebhooks -----------------------------
(***************************************************************************)
(* The deliveries of one notification by themselves, for what an update of *)
(* it sends.                                                               *)
(***************************************************************************)
EXTENDS Webhooks

CONSTANTS hook, created, updated, job
=============================================================================
