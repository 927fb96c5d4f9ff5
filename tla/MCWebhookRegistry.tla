--------------------------- MODULE MCWebhookRegistry ---------------------------
(***************************************************************************)
(* Instances of WebhookRegistry for TLC.  Ids bounds the registrations of  *)
(* a behaviour; crashes, restarts and failing statements are not bounded.  *)
(***************************************************************************)
EXTENDS WebhookRegistry, TLC

\* Ids, keys and usernames are only ever compared for equality.
Symmetry == Permutations(Ids) \cup Permutations(Users) \cup Permutations(Owners)
=============================================================================
