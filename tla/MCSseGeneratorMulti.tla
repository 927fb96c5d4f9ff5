------------------------- MODULE MCSseGeneratorMulti -------------------------
(***************************************************************************)
(* Two tasks for one spelling of a username, and others as the cfg says.   *)
(***************************************************************************)
EXTENDS SseGeneratorMulti

CONSTANTS e1, e2, e3, Ninja, ninja, xqc

MCLower == (Ninja :> ninja) @@ (ninja :> ninja) @@ (xqc :> xqc)

OneSpelling  == (e1 :> Ninja) @@ (e2 :> Ninja) @@ (e3 :> xqc)
TwoSpellings == (e1 :> Ninja) @@ (e2 :> ninja)
=============================================================================
