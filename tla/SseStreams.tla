------------------------------ MODULE SseStreams ------------------------------
(***************************************************************************)
(* What the modules about the SSE endpoints share: the requests that can   *)
(* be open at a time.                                                      *)
(***************************************************************************)
CONSTANT Streams
=============================================================================
