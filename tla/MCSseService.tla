----------------------------- MODULE MCSseService -----------------------------
(***************************************************************************)
(* Two streams, two identities and two usernames under caps of one: the    *)
(* second stream is refused on its key or on a username, and a list can    *)
(* repeat a username.                                                      *)
(***************************************************************************)
EXTENDS SseService
=============================================================================
