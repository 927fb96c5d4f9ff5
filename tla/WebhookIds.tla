------------------------------ MODULE WebhookIds ------------------------------
(***************************************************************************)
(* What the modules about webhooks share: the watch_ids that uuid4 will    *)
(* ever return.                                                            *)
(***************************************************************************)
CONSTANT Ids
=============================================================================
