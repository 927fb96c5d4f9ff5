----------------------------- MODULE MCLiveService -----------------------------
(***************************************************************************)
(* A stream and a webhook around two changes of the streamer.              *)
(***************************************************************************)
EXTENDS LiveService
=============================================================================
