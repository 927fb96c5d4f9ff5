------------------------------- MODULE MCFrontend -------------------------------
(***************************************************************************)
(* Three submits of the form and two keys.                                 *)
(***************************************************************************)
EXTENDS Frontend
=============================================================================
