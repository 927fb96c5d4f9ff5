------------------------------ MODULE MCWebhooks ------------------------------
(***************************************************************************)
(* Instances of Webhooks for TLC.                                          *)
(***************************************************************************)
EXTENDS Webhooks, TLC

\* Ids, keys and usernames are only ever compared for equality.
Symmetry == Permutations(Ids) \cup Permutations(Users) \cup Permutations(Owners)
=============================================================================
