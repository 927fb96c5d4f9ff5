------------------------------ MODULE MCApiAuth ------------------------------
(***************************************************************************)
(* Two calls for one active key, one key a day and an IP; a request at a   *)
(* time.                                                                   *)
(***************************************************************************)
EXTENDS ApiAuth
=============================================================================
