--------------------------- MODULE SseConnections ---------------------------
(***************************************************************************)
(* Admission to the SSE endpoints of api/main.py: live_stream and          *)
(* live_stream_multi count the stream under its identity (API key or IP)   *)
(* and under every username it follows; the finally clause of the          *)
(* generator gives the slots back.  That clause belongs to a body that has *)
(* begun: a response whose client is already gone may be dropped, if the   *)
(* server lets it come to that, without its body ever being started.       *)
(***************************************************************************)
EXTENDS Naturals, FiniteSetsExt, SseStreams

CONSTANTS
    Identities,
    Users,           \* the usernames, in lower case
    MaxPerKey,       \* SSE_MAX_PER_KEY
    MaxPerUsername,  \* SSE_MAX_PER_USERNAME
    MaxUsers         \* _MAX_USERS, names in one request

ASSUME ConnectionsAssumption ==
    /\ IsFiniteSet(Streams) /\ IsFiniteSet(Identities)
    /\ MaxPerKey \in Nat /\ MaxPerUsername \in Nat
    /\ MaxUsers \in Nat \ {0}

VARIABLES
    conns,    \* _sse_connections, 0 where the dictionary has no entry
    perUser,  \* _sse_per_username, likewise
    stream    \* of a stream: how far it has come, whether its client is
              \* there, its identity and how often it names each username

connVars == <<conns, perUser, stream>>

\* The list of a request, in any order: nothing removes a repeated username.
Lists == {list \in [Users -> 0..MaxUsers] :
            MapThenSumSet(LAMBDA u : list[u], Users) \in 1..MaxUsers}

\* The request of live_stream, for one username.
Only(u) == [v \in Users |-> IF v = u THEN 1 ELSE 0]

NoStream == [phase |-> "none", here |-> FALSE, who |-> "nobody",
             asked |-> [u \in Users |-> 0]]

Open(s) == stream[s].phase # "none"

ConnTypeOK ==
    /\ conns \in [Identities -> Nat]
    /\ perUser \in [Users -> Nat]
    /\ stream \in [Streams -> [phase : {"none", "accepted", "streaming", "lost"},
                               here : BOOLEAN,
                               who : Identities \cup {"nobody"},
                               asked : [Users -> 0..MaxUsers]]]

ConnInit ==
    /\ conns = [i \in Identities |-> 0]
    /\ perUser = [u \in Users |-> 0]
    /\ stream = [s \in Streams |-> NoStream]

-----------------------------------------------------------------------------

\* Slip: one more than the cap gets in.
RoomForOneMore(n, cap) == n <= cap

Room(n, cap) == n < cap

\* Both caps, looked at before anything is counted: a username repeated in
\* the list is compared with the same count each time.
HasRoom(i, list) ==
    /\ Room(conns[i], MaxPerKey)
    /\ \A u \in Users : list[u] > 0 => Room(perUser[u], MaxPerUsername)

\* The endpoint answers with a StreamingResponse; a request over a cap is
\* answered 429 and changes nothing.
Accept(s, i, list) ==
    /\ stream[s].phase = "none"
    /\ HasRoom(i, list)
    /\ conns' = [conns EXCEPT ![i] = @ + 1]
    /\ perUser' = [u \in Users |-> perUser[u] + list[u]]
    /\ stream' = [stream EXCEPT ![s] =
                    [phase |-> "accepted", here |-> TRUE, who |-> i, asked |-> list]]

\* Starlette takes the first item from the generator: its body begins.
BeginBody(s) ==
    /\ stream[s].phase = "accepted"
    /\ stream' = [stream EXCEPT ![s].phase = "streaming"]
    /\ UNCHANGED <<conns, perUser>>

\* The client goes, at any moment.
Leave(s) ==
    /\ Open(s) /\ stream[s].here
    /\ stream' = [stream EXCEPT ![s].here = FALSE]
    /\ UNCHANGED <<conns, perUser>>

\* The response is given up before it starts the body, the client being gone.
\* Whether that happens is up to the ASGI server: one whose send does not
\* suspend usually lets the body begin.
DropResponse(s) ==
    /\ stream[s].phase = "accepted" /\ ~stream[s].here
    /\ stream' = [stream EXCEPT ![s].phase = "lost"]
    /\ UNCHANGED <<conns, perUser>>

\* Slip: the finally clause goes over the set of names, not the list.
TimesOnce(s, u) == IF stream[s].asked[u] > 0 THEN 1 ELSE 0

\* How often the finally clause gives back a slot of u.
Times(s, u) == stream[s].asked[u]

\* max(0, n - k), a step of the finally clause after another.
Less(n, k) == IF n > k THEN n - k ELSE 0

\* The body of either generator is over, with its finally clause.
EndBody(s) ==
    /\ stream[s].phase = "streaming"
    /\ conns' = [conns EXCEPT ![stream[s].who] = Less(@, 1)]
    /\ perUser' = [u \in Users |-> Less(perUser[u], Times(s, u))]
    /\ stream' = [stream EXCEPT ![s] = NoStream]

\* The process stops and starts again.
RestartConnections ==
    /\ conns' = [i \in Identities |-> 0]
    /\ perUser' = [u \in Users |-> 0]
    /\ stream' = [s \in Streams |-> NoStream]

-----------------------------------------------------------------------------

OpenOf(i) == {s \in Streams : Open(s) /\ stream[s].who = i}
NamesOpen(u) ==
    MapThenSumSet(LAMBDA s : stream[s].asked[u], {s \in Streams : Open(s)})

\* What /health reports.
ActiveSseConnections == MapThenSumSet(LAMBDA i : conns[i], Identities)

\* The counter of an identity is the number of its streams that took a slot
\* and have not given it back, and within its cap.
KeySlotsExact == \A i \in Identities :
    conns[i] = Cardinality(OpenOf(i)) /\ conns[i] <= MaxPerKey

\* Both counters are exact, the one of a username name by name, and so is
\* /health: nothing is counted twice or released twice, and max(0, ..) never
\* has anything to hide.
CountersExact ==
    /\ KeySlotsExact
    /\ \A u \in Users : perUser[u] = NamesOpen(u)
    /\ ActiveSseConnections = Cardinality({s \in Streams : Open(s)})

\* No identity and no username has more streams than its cap, whatever the
\* lists repeat.
WithinCaps ==
    /\ \A i \in Identities : Cardinality(OpenOf(i)) <= MaxPerKey
    /\ \A u \in Users :
         Cardinality({s \in Streams : Open(s) /\ stream[s].asked[u] > 0}) <= MaxPerUsername

\* "decremented even on client disconnect": every slot belongs to a stream
\* whose body runs or is yet to run, whatever the server does with a response.
SlotsFreed == \A i \in Identities :
    conns[i] = Cardinality({s \in OpenOf(i) : stream[s].phase # "lost"})
=============================================================================
