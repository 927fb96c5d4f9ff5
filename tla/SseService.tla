------------------------------ MODULE SseService ------------------------------
(***************************************************************************)
(* The SSE endpoints at work: SseConnections for the slots, SseGenerator   *)
(* for the body of GET /api/stream/{username}.  The body of the endpoint   *)
(* for several usernames (SseGeneratorMulti) is opaque here: it takes and  *)
(* gives back slots and ends when it likes.                                *)
(***************************************************************************)
EXTENDS SseConnections, SseGenerator

serviceVars == <<connVars, genVars>>

TypeOK == ConnTypeOK /\ GenTypeOK

Init == ConnInit /\ GenInit

-----------------------------------------------------------------------------

LiveStream(s) == \E i \in Identities, u \in Users :
    Accept(s, i, Only(u)) /\ UNCHANGED genVars

LiveStreamMulti(s) == \E i \in Identities, list \in Lists :
    Accept(s, i, list) /\ UNCHANGED genVars

\* A list of one username comes from either endpoint.
BeginGenerator(s) ==
    /\ \E u \in Users : stream[s].asked = Only(u)
    /\ BeginBody(s) /\ GenBegin(s)

BeginMulti(s) == BeginBody(s) /\ UNCHANGED genVars

Disconnect(s) == Leave(s) /\ UNCHANGED genVars

Dropped(s) == DropResponse(s) /\ UNCHANGED genVars

Step(s) == GenStep(s) /\ UNCHANGED connVars

\* The fatal item has been taken, or the client has gone.
MayEnd(s) == ~stream[s].here \/ (gen[s].pc = "yield" /\ gen[s].item = "fatal")

\* The finally clause runs in the same step.
GeneratorEnds(s) == MayEnd(s) /\ GenEnd(s) /\ EndBody(s)

MultiEnds(s) == ~Running(s) /\ EndBody(s) /\ UNCHANGED genVars

Restart == RestartConnections /\ GenRestart

Next ==
    \/ Restart
    \/ \E s \in Streams :
         \/ LiveStream(s) \/ LiveStreamMulti(s) \/ BeginGenerator(s) \/ BeginMulti(s)
         \/ Disconnect(s) \/ Dropped(s) \/ Step(s)
         \/ GeneratorEnds(s) \/ MultiEnds(s)

Spec == Init /\ [][Next]_serviceVars
=============================================================================
