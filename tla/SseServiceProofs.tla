--------------------------- MODULE SseServiceProofs ---------------------------
(***************************************************************************)
(* Proofs about SseService, for any streams, identities, usernames, caps   *)
(* and heartbeat interval: the silence of a generator, the changes it      *)
(* shows, the slots of an identity and of a username, and the caps.        *)
(***************************************************************************)
EXTENDS SseService, FoldFacts, FiniteSetTheorems, TLAPS

-----------------------------------------------------------------------------
(* The generators *)

\* What a generator knows agrees with what its client was sent: last_live is
\* the last status shown, had_error says that an error came after it or is
\* being yielded right now; what is being yielded is an item, and if it is a
\* status, it is news; every silent poll has been counted.
Agrees(g, f) ==
    /\ g.lastLive = f.shown
    /\ g.hadError <=> (f.failed \/ (g.pc = "yield" /\ g.item = "error"))
    /\ g.pc = "yield" => g.item \in Item
    /\ g.pc = "yield" /\ g.item \in Status => g.item # f.shown \/ f.failed
    /\ g.quiet <= g.polls

GenInv == GenTypeOK /\ \A s \in Streams : Agrees(gen[s], feed[s])

Shown == [shown : Status \cup {"unknown"}, failed : BOOLEAN, beat : BOOLEAN]

\* One more poll modulo HEARTBEAT_EVERY.
LEMMA NextCount ==
    ASSUME NEW s \in Streams, GenTypeOK
    PROVE  /\ NextPoll(s) \in 0..(HeartbeatEvery - 1)
           /\ NextPoll(s) = 0 \/ NextPoll(s) = gen[s].polls + 1
<1> USE GeneratorAssumption
<1> DEFINE p == gen[s].polls
<1>0. p \in 0..(HeartbeatEvery - 1)
  BY DEF GenTypeOK, Generator
<1> HIDE DEF p
<1>1. CASE p + 1 = HeartbeatEvery
  <2>1. HeartbeatEvery % HeartbeatEvery = 0
    OBVIOUS
  <2>2. QED  BY <1>1, <2>1 DEF NextPoll, p
<1>2. CASE p + 1 < HeartbeatEvery
  <2>1. (p + 1) % HeartbeatEvery = p + 1
    BY <1>0, <1>2
  <2>2. QED  BY <1>0, <1>2, <2>1 DEF NextPoll, p
<1>3. QED  BY <1>0, <1>1, <1>2

LEMMA Fresh == NoGenerator \in Generator /\ Feed!Nothing \in Shown
               /\ Agrees(NoGenerator, Feed!Nothing)
BY GeneratorAssumption DEF NoGenerator, Generator, Feed!Nothing, Shown, Agrees, Status

\* The generator of one stream becomes g and its feed f: it is enough that
\* those two agree.
LEMMA OneStream ==
    ASSUME GenInv, NEW s \in Streams, NEW g \in Generator, NEW f \in Shown,
           gen' = [gen EXCEPT ![s] = g], feed' = [feed EXCEPT ![s] = f],
           Agrees(g, f)
    PROVE  GenInv'
<1>1. GenTypeOK'
  BY DEF GenInv, GenTypeOK, Shown
<1>2. ASSUME NEW t \in Streams  PROVE Agrees(gen'[t], feed'[t])
  <2>1. CASE t = s
    BY <2>1 DEF GenInv, GenTypeOK
  <2>2. CASE t # s
    <3>1. gen'[t] = gen[t] /\ feed'[t] = feed[t]
      BY <2>2 DEF GenInv, GenTypeOK
    <3>2. QED  BY <3>1 DEF GenInv
  <2>3. QED  BY <2>1, <2>2
<1>3. QED  BY <1>1, <1>2 DEF GenInv, Agrees

\* A generator that goes from one wait to another.
LEMMA MovesKeepsGenInv ==
    ASSUME GenInv, NEW s \in Streams, NEW from, NEW to \in {"poll", "sleep"},
           from # "yield", Moves(s, from, to)
    PROVE  GenInv'
<1> DEFINE g == [gen[s] EXCEPT !.pc = to]
<1>1. gen[s] \in Generator /\ feed[s] \in Shown /\ Agrees(gen[s], feed[s])
  BY DEF GenInv, GenTypeOK, Shown
<1>2. g \in Generator /\ Agrees(g, feed[s])
  BY <1>1 DEF Generator, Agrees, Moves
<1>3. gen' = [gen EXCEPT ![s] = g] /\ feed' = [feed EXCEPT ![s] = feed[s]]
  BY DEF Moves, GenInv, GenTypeOK
<1>4. QED  BY <1>1, <1>2, <1>3, OneStream

\* A poll, with the item it yields or without one; a status is yielded only
\* if it is news.
LEMMA PolledKeepsGenInv ==
    ASSUME GenInv, NEW s \in Streams, NEW i \in Item \cup {"none"}, Polled(s, i),
           i \in Status => i # feed[s].shown \/ feed[s].failed,
           i = "none" => NextPoll(s) # 0
    PROVE  GenInv'
<1> DEFINE g == AfterPoll(s, i)
<1>1. gen[s] \in Generator /\ feed[s] \in Shown /\ Agrees(gen[s], feed[s])
  BY DEF GenInv, GenTypeOK, Shown
<1>2. /\ Count(s, i) \in 0..(HeartbeatEvery - 1)
      /\ i = "none" => Count(s, i) = gen[s].polls + 1
  BY <1>1, NextCount DEF Count, GenInv, Generator
<1>3. g \in Generator
  <2>1. /\ (IF i = "none" THEN gen[s].quiet + 1 ELSE 0) \in Nat
        /\ (IF i = "none" THEN "sleep" ELSE "yield") \in {"poll", "yield", "sleep"}
        /\ (gen[s].hadError \/ i = "error") \in BOOLEAN
    BY <1>1 DEF Generator
  <2>2. QED  BY <1>1, <1>2, <2>1 DEF Generator, AfterPoll
<1>4. Agrees(g, feed[s])
  <2>1. /\ g.lastLive = gen[s].lastLive /\ g.item = i /\ g.polls = Count(s, i)
        /\ g.pc = IF i = "none" THEN "sleep" ELSE "yield"
        /\ g.hadError = (gen[s].hadError \/ i = "error")
        /\ g.quiet = IF i = "none" THEN gen[s].quiet + 1 ELSE 0
    BY <1>1 DEF Generator, AfterPoll
  <2>2. gen[s].pc # "yield"
    BY DEF Polled
  <2>3. g.hadError <=> (feed[s].failed \/ (g.pc = "yield" /\ g.item = "error"))
    BY <1>1, <2>1, <2>2 DEF Agrees, Generator
  <2>4. g.quiet <= g.polls
    <3>1. gen[s].quiet \in Nat /\ gen[s].polls \in Nat /\ gen[s].quiet <= gen[s].polls
      BY <1>1, GeneratorAssumption DEF Generator, Agrees
    <3>2. g.polls \in Nat
      BY <1>2, <2>1, GeneratorAssumption
    <3>3. CASE i = "none"
      BY <1>2, <2>1, <3>1, <3>3
    <3>4. CASE i # "none"
      BY <2>1, <3>2, <3>4
    <3>5. QED  BY <3>3, <3>4
  <2>5. QED  BY <1>1, <2>1, <2>3, <2>4 DEF Agrees
<1>5. gen' = [gen EXCEPT ![s] = g] /\ feed' = [feed EXCEPT ![s] = feed[s]]
  BY DEF Polled, GenInv, GenTypeOK
<1> HIDE DEF g
<1>6. QED  BY <1>1, <1>3, <1>4, <1>5, OneStream

LEMMA PollsKeepGenInv ==
    ASSUME GenInv, NEW s \in Streams,
           (\E status \in Status : PollStatus(s, status)) \/ PollError(s) \/ PollNotFound(s)
    PROVE  GenInv'
<1>1. ASSUME NEW status \in Status, PollStatus(s, status)  PROVE GenInv'
  <2> DEFINE i == Outcome(s, status)
  <2>1. gen[s].lastLive = feed[s].shown /\ gen[s].hadError = feed[s].failed
    BY <1>1 DEF GenInv, GenTypeOK, Generator, Agrees, PollStatus, Polled
  <2>2. /\ i \in Item \cup {"none"}
        /\ i \in Status => i # feed[s].shown \/ feed[s].failed
        /\ i = "none" => NextPoll(s) # 0
    BY <2>1 DEF Outcome, Item, Status
  <2>3. Polled(s, i)
    BY <1>1 DEF PollStatus
  <2> HIDE DEF i
  <2>4. QED  BY <2>2, <2>3, PolledKeepsGenInv
<1>2. CASE PollError(s)
  <2>1. Polled(s, "error")
    BY <1>2 DEF PollError
  <2>2. QED  BY <2>1, PolledKeepsGenInv DEF Item, Status
<1>3. CASE PollNotFound(s)
  <2>1. Polled(s, "fatal")
    BY <1>3 DEF PollNotFound
  <2>2. QED  BY <2>1, PolledKeepsGenInv DEF Item, Status
<1>4. QED  BY <1>1, <1>2, <1>3

LEMMA TakenKeepsGenInv ==
    ASSUME GenInv, NEW s \in Streams, Taken(s)
    PROVE  GenInv'
<1> DEFINE i == gen[s].item
           g == [Learnt(gen[s]) EXCEPT !.pc = "sleep", !.item = "none"]
           f == Feed!Sent(feed[s], i)
<1>1. gen[s] \in Generator /\ feed[s] \in Shown /\ Agrees(gen[s], feed[s])
  BY DEF GenInv, GenTypeOK, Shown
<1>2. i \in Status \cup {"error", "heartbeat"} /\ gen[s].pc = "yield"
  BY <1>1 DEF Taken, Agrees, Item
<1>3. g \in Generator /\ f \in Shown /\ Agrees(g, f)
  <2>1. CASE i \in Status
    BY <1>1, <1>2, <2>1 DEF Generator, Shown, Agrees, Learnt, Feed!Sent, Status
  <2>2. CASE i = "error"
    BY <1>1, <1>2, <2>2 DEF Generator, Shown, Agrees, Learnt, Feed!Sent, Status
  <2>3. CASE i = "heartbeat"
    BY <1>1, <1>2, <2>3 DEF Generator, Shown, Agrees, Learnt, Feed!Sent, Status
  <2>4. QED  BY <1>2, <2>1, <2>2, <2>3
<1>4. gen' = [gen EXCEPT ![s] = g] /\ feed' = [feed EXCEPT ![s] = f]
  BY DEF Taken, GenInv, GenTypeOK
<1> HIDE DEF g, f
<1>5. QED  BY <1>3, <1>4, OneStream

\* Every generator is gone, with its feed.
LEMMA NoneKeepsGenInv ==
    ASSUME gen = [s \in Streams |-> NoGenerator], feed = [s \in Streams |-> Feed!Nothing]
    PROVE  GenInv
BY Fresh DEF GenInv, GenTypeOK, Shown

\* Whatever a generator does.
LEMMA GenNextKeepsGenInv == GenInv /\ [GenNext]_genVars => GenInv'
<1> SUFFICES ASSUME GenInv, [GenNext]_genVars  PROVE GenInv'
  OBVIOUS
<1>1. ASSUME NEW s \in Streams, GenBegin(s) \/ Wake(s)  PROVE GenInv'
  BY <1>1, MovesKeepsGenInv DEF GenBegin, Wake
<1>2. ASSUME NEW s \in Streams,
             (\E status \in Status : PollStatus(s, status)) \/ PollError(s) \/ PollNotFound(s)
      PROVE  GenInv'
  BY <1>2, PollsKeepGenInv
<1>3. ASSUME NEW s \in Streams, Taken(s)  PROVE GenInv'
  BY <1>3, TakenKeepsGenInv
<1>4. ASSUME NEW s \in Streams, GenEnd(s)  PROVE GenInv'
  BY <1>4, Fresh, OneStream DEF GenEnd, Feed!Connect
<1>5. CASE GenRestart
  <2>1. /\ gen' = [s \in Streams |-> NoGenerator]
        /\ feed' = [s \in Streams |-> Feed!Nothing]
    BY <1>5 DEF GenRestart, Feed!Reset
  <2>2. GenTypeOK'
    BY <2>1, Fresh DEF GenTypeOK, Shown
  <2>3. \A s \in Streams : gen'[s] = NoGenerator /\ feed'[s] = Feed!Nothing
    BY <2>1
  <2>4. QED  BY <2>2, <2>3, Fresh DEF GenInv, Agrees
<1>6. CASE UNCHANGED genVars
  BY <1>6 DEF GenInv, GenTypeOK, genVars, Agrees
<1>7. QED
  BY <1>1, <1>2, <1>3, <1>4, <1>5, <1>6 DEF GenNext, GenStep

\* A step of the service is a step of its generators or none.
LEMMA ServiceRunsGenerators == [Next]_serviceVars => [GenNext]_genVars
BY DEF Next, serviceVars, genVars, GenNext, LiveStream, LiveStreamMulti,
       BeginGenerator, BeginMulti, Disconnect, Dropped, Step, GeneratorEnds,
       MultiEnds, Restart

LEMMA GeneratorInvariant == Spec => []GenInv
<1>1. Init => GenInv
  BY NoneKeepsGenInv DEF Init, GenInit, Feed!FeedInit
<1>2. GenInv /\ [Next]_serviceVars => GenInv'
  BY GenNextKeepsGenInv, ServiceRunsGenerators
<1>3. QED  BY <1>1, <1>2, PTL DEF Spec

\* No client waits for HEARTBEAT_EVERY polls without an item, in whatever
\* order news, errors and silence come.
THEOREM SignOfLife == Spec => []NeverSilent
<1>1. GenInv => NeverSilent
  <2> SUFFICES ASSUME GenInv, NEW s \in Streams  PROVE gen[s].quiet < HeartbeatEvery
    BY DEF NeverSilent
  <2>1. /\ gen[s].quiet \in Nat /\ gen[s].quiet <= gen[s].polls
        /\ gen[s].polls \in 0..(HeartbeatEvery - 1)
    BY DEF GenInv, GenTypeOK, Generator, Agrees
  <2>2. QED  BY <2>1, GeneratorAssumption
<1>2. QED  BY <1>1, GeneratorInvariant, PTL

-----------------------------------------------------------------------------
(* Refinement of ChangeFeed *)

LEMMA FeedStep == GenInv /\ [GenNext]_genVars => [Feed!FeedNext]_feed
<1> SUFFICES ASSUME GenInv, [GenNext]_genVars  PROVE [Feed!FeedNext]_feed
  OBVIOUS
<1> USE DEF Feed!FeedNext
<1>1. ASSUME NEW s \in Streams,
             \/ GenBegin(s) \/ Wake(s) \/ PollError(s) \/ PollNotFound(s)
             \/ \E status \in Status : PollStatus(s, status)
      PROVE  UNCHANGED feed
  BY <1>1 DEF GenBegin, Wake, Moves, PollStatus, PollError, PollNotFound, Polled
<1>2. ASSUME NEW s \in Streams, Taken(s)
      PROVE  Feed!ShowStatus(s) \/ Feed!ShowError(s) \/ UNCHANGED feed
  <2> DEFINE i == gen[s].item
  <2>1. /\ i \in Status \cup {"error", "heartbeat"}
        /\ i \in Status => i # feed[s].shown \/ feed[s].failed
    BY <1>2 DEF GenInv, Taken, Agrees, Item
  <2>2. feed' = [feed EXCEPT ![s] = Feed!Sent(feed[s], i)]
    BY <1>2 DEF Taken
  <2> HIDE DEF i
  <2>3. CASE i \in Status
    BY <2>1, <2>2, <2>3 DEF Feed!ShowStatus
  <2>4. CASE i = "error"
    BY <2>2, <2>4 DEF Feed!ShowError
  <2>5. CASE i = "heartbeat"
    <3>1. Feed!Sent(feed[s], i) = feed[s]
      BY <2>5 DEF Feed!Sent, Status
    <3>2. QED  BY <2>2, <3>1 DEF GenInv, GenTypeOK
  <2>6. QED  BY <2>1, <2>3, <2>4, <2>5
<1>3. ASSUME NEW s \in Streams, GenEnd(s)  PROVE Feed!Connect(s)
  BY <1>3 DEF GenEnd
<1>4. CASE GenRestart
  BY <1>4 DEF GenRestart
<1>5. CASE UNCHANGED genVars
  BY <1>5 DEF genVars
<1>6. QED  BY <1>1, <1>2, <1>3, <1>4, <1>5 DEF GenNext, GenStep

\* A stream of one username shows its client changes, and the status once
\* more after an error; never the same status twice running.
THEOREM StreamIsChangeFeed == Spec => ImplementsChangeFeed
<1>1. Init => Feed!FeedInit
  BY DEF Init, GenInit
<1>2. GenInv /\ [Next]_serviceVars => [Feed!FeedNext]_feed
  BY FeedStep, ServiceRunsGenerators
<1>3. QED
  BY <1>1, <1>2, GeneratorInvariant, PTL DEF Spec, ImplementsChangeFeed, Feed!FeedSpec

-----------------------------------------------------------------------------
(* The slots of an identity *)

SlotInv ==
    /\ ConnTypeOK
    /\ \A s \in Streams : Open(s) => stream[s].who \in Identities
    /\ KeySlotsExact

\* The streams of an identity are finitely many.
LEMMA OpenOfFinite ==
    ASSUME NEW i \in Identities
    PROVE  IsFiniteSet(OpenOf(i)) /\ Cardinality(OpenOf(i)) \in Nat
<1>1. OpenOf(i) \in SUBSET Streams
  BY DEF OpenOf
<1>2. QED  BY <1>1, ConnectionsAssumption, FS_Subset, FS_CardinalityType

\* A step that opens and closes nothing, and names nobody else.
LEMMA SlotsKept ==
    ASSUME SlotInv, UNCHANGED conns, ConnTypeOK',
           \A s \in Streams : /\ stream'[s].who = stream[s].who
                              /\ stream'[s].phase = "none" <=> stream[s].phase = "none"
    PROVE  SlotInv'
<1>1. \A i \in Identities : OpenOf(i)' = OpenOf(i)
  BY DEF OpenOf, Open
<1>2. QED  BY <1>1 DEF SlotInv, KeySlotsExact, Open

\* One stream moves on.
LEMMA PhaseKeepsSlots ==
    ASSUME SlotInv, NEW s \in Streams, UNCHANGED <<conns, perUser>>,
           NEW p \in {"accepted", "streaming", "lost"}, NEW h \in BOOLEAN, Open(s),
           stream' = [stream EXCEPT ![s] = [@ EXCEPT !.phase = p, !.here = h]]
    PROVE  SlotInv'
<1>1. ConnTypeOK'
  BY DEF SlotInv, ConnTypeOK
<1>2. ASSUME NEW t \in Streams
      PROVE  /\ stream'[t].who = stream[t].who
             /\ stream'[t].phase = "none" <=> stream[t].phase = "none"
  BY DEF SlotInv, ConnTypeOK, Open
<1>3. QED  BY <1>1, <1>2, SlotsKept

LEMMA AcceptKeepsSlots ==
    ASSUME SlotInv, NEW s \in Streams, NEW i \in Identities,
           NEW list \in [Users -> 0..MaxUsers], Accept(s, i, list)
    PROVE  SlotInv'
<1> USE DEF SlotInv, KeySlotsExact, ConnTypeOK
<1> DEFINE new == [phase |-> "accepted", here |-> TRUE, who |-> i, asked |-> list]
<1>1. /\ conns' = [conns EXCEPT ![i] = conns[i] + 1] /\ conns[i] < MaxPerKey
      /\ stream' = [stream EXCEPT ![s] = new] /\ stream[s].phase = "none"
      /\ perUser' = [u \in Users |-> perUser[u] + list[u]]
  BY DEF Accept, HasRoom, Room
<1>2. ConnTypeOK'
  <2>1. perUser' \in [Users -> Nat]
    <3>1. ASSUME NEW u \in Users  PROVE perUser[u] + list[u] \in Nat
      BY ConnectionsAssumption
    <3>2. QED  BY <1>1, <3>1
  <2>2. conns' \in [Identities -> Nat] /\ new.phase = "accepted" /\ new.who = i
    BY <1>1
  <2>3. QED  BY <1>1, <2>1, <2>2
<1>3. /\ stream'[s] = new
      /\ \A t \in Streams \ {s} : stream'[t] = stream[t]
  BY <1>1
<1>4. /\ s \notin OpenOf(i) /\ OpenOf(i)' = OpenOf(i) \cup {s}
      /\ \A j \in Identities \ {i} : OpenOf(j)' = OpenOf(j)
  BY <1>1, <1>3 DEF OpenOf, Open
<1>5. Cardinality(OpenOf(i)') = Cardinality(OpenOf(i)) + 1
  BY <1>4, OpenOfFinite, FS_AddElement
<1>6. ASSUME NEW j \in Identities
      PROVE  conns'[j] = Cardinality(OpenOf(j)') /\ conns'[j] <= MaxPerKey
  <2>1. CASE j = i
    BY <1>1, <1>5, <2>1, ConnectionsAssumption
  <2>2. CASE j # i
    BY <1>1, <1>4, <2>2
  <2>3. QED  BY <2>1, <2>2
<1>7. \A t \in Streams : Open(t)' => stream'[t].who \in Identities
  BY <1>3 DEF Open
<1>8. QED  BY <1>2, <1>6, <1>7

LEMMA EndBodyKeepsSlots ==
    ASSUME SlotInv, NEW s \in Streams, EndBody(s)
    PROVE  SlotInv'
<1> USE DEF SlotInv, KeySlotsExact, ConnTypeOK
<1>1. PICK i \in Identities : stream[s].who = i
  BY DEF EndBody, Open
<1>2. s \in OpenOf(i)
  BY <1>1 DEF EndBody, Open, OpenOf
<1>3. /\ conns' = [conns EXCEPT ![i] = Less(conns[i], 1)]
      /\ stream' = [stream EXCEPT ![s] = NoStream]
      /\ perUser' = [u \in Users |-> Less(perUser[u], Times(s, u))]
  BY <1>1 DEF EndBody
<1>4. /\ stream'[s].phase = "none"
      /\ \A t \in Streams \ {s} : stream'[t] = stream[t]
  BY <1>3 DEF NoStream
<1>5. \A j \in Identities :
        OpenOf(j)' = {t \in Streams \ {s} : stream[t].phase # "none" /\ stream[t].who = j}
  BY <1>4 DEF OpenOf, Open
<1>6. OpenOf(i)' = OpenOf(i) \ {s}
  BY <1>2, <1>5 DEF OpenOf, Open
<1>7. ASSUME NEW j \in Identities \ {i}  PROVE OpenOf(j)' = OpenOf(j)
  BY <1>1, <1>5, <1>7 DEF OpenOf, Open
<1>8. /\ Cardinality(OpenOf(i)') = Cardinality(OpenOf(i)) - 1
      /\ Cardinality(OpenOf(i)) \in Nat /\ Cardinality(OpenOf(i)') \in Nat
  <2>1. /\ IsFiniteSet(OpenOf(i)) /\ Cardinality(OpenOf(i)) \in Nat
        /\ IsFiniteSet(OpenOf(i) \ {s})
    BY <1>2, OpenOfFinite, FS_RemoveElement
  <2>2. Cardinality(OpenOf(i) \ {s}) = Cardinality(OpenOf(i)) - 1
    BY <1>2, <2>1, FS_RemoveElement
  <2>3. Cardinality(OpenOf(i) \ {s}) \in Nat
    BY <2>1, FS_CardinalityType
  <2>4. QED  BY <1>6, <2>1, <2>2, <2>3
<1>9. conns[i] = Cardinality(OpenOf(i)) /\ conns[i] <= MaxPerKey /\ conns[i] \in Nat
  OBVIOUS
<1>10. Less(conns[i], 1) = conns[i] - 1 /\ Less(conns[i], 1) \in Nat
  BY <1>8, <1>9 DEF Less
<1>11. ASSUME NEW j \in Identities
       PROVE  conns'[j] = Cardinality(OpenOf(j)') /\ conns'[j] <= MaxPerKey
  <2>1. CASE j # i
    <3>1. conns'[j] = conns[j] /\ OpenOf(j)' = OpenOf(j)
      BY <1>3, <1>7, <2>1
    <3>2. QED  BY <3>1
  <2>2. CASE j = i
    <3>1. conns'[i] = conns[i] - 1
      BY <1>3, <1>10
    <3>2. QED  BY <1>8, <1>9, <2>2, <3>1, ConnectionsAssumption
  <2>3. QED  BY <2>1, <2>2
<1>12. ConnTypeOK'
  <2>1. perUser' \in [Users -> Nat]
    <3>1. ASSUME NEW u \in Users  PROVE Less(perUser[u], Times(s, u)) \in Nat
      <4>1. Times(s, u) \in Nat /\ perUser[u] \in Nat
        BY ConnectionsAssumption DEF Times
      <4>2. QED  BY <4>1 DEF Less
    <3>2. QED  BY <1>3, <3>1
  <2>2. conns' \in [Identities -> Nat]
    BY <1>3, <1>10
  <2>3. NoStream \in [phase : {"none", "accepted", "streaming", "lost"},
                      here : BOOLEAN, who : Identities \cup {"nobody"},
                      asked : [Users -> 0..MaxUsers]]
    BY ConnectionsAssumption DEF NoStream
  <2>4. QED  BY <1>3, <2>1, <2>2, <2>3
<1>13. \A t \in Streams : Open(t)' => stream'[t].who \in Identities
  BY <1>4 DEF Open
<1>14. QED  BY <1>11, <1>12, <1>13

LEMMA NoSlots ==
    ASSUME conns = [i \in Identities |-> 0], perUser = [u \in Users |-> 0],
           stream = [s \in Streams |-> NoStream]
    PROVE  SlotInv
<1>1. ConnTypeOK
  BY ConnectionsAssumption DEF ConnTypeOK, NoStream
<1>2. \A s \in Streams : ~Open(s)
  BY DEF Open, NoStream
<1>3. \A i \in Identities : OpenOf(i) = {}
  BY <1>2 DEF OpenOf
<1>4. QED
  BY <1>1, <1>2, <1>3, FS_EmptySet, ConnectionsAssumption DEF SlotInv, KeySlotsExact

LEMMA SlotStep == SlotInv /\ [Next]_serviceVars => SlotInv'
<1> SUFFICES ASSUME SlotInv, [Next]_serviceVars  PROVE SlotInv'
  OBVIOUS
<1>1. ASSUME NEW s \in Streams, LiveStream(s)  PROVE SlotInv'
  <2>1. PICK i \in Identities, u \in Users : Accept(s, i, Only(u))
    BY <1>1 DEF LiveStream
  <2>2. Only(u) \in [Users -> 0..MaxUsers]
    BY ConnectionsAssumption DEF Only
  <2>3. QED  BY <2>1, <2>2, AcceptKeepsSlots
<1>2. ASSUME NEW s \in Streams, LiveStreamMulti(s)  PROVE SlotInv'
  BY <1>2, AcceptKeepsSlots DEF LiveStreamMulti, Lists
<1>3. ASSUME NEW s \in Streams, BeginBody(s)  PROVE SlotInv'
  <2>1. stream' = [stream EXCEPT ![s] = [@ EXCEPT !.phase = "streaming",
                                                  !.here = stream[s].here]]
    BY <1>3 DEF BeginBody, SlotInv, ConnTypeOK
  <2>2. stream[s].here \in BOOLEAN /\ Open(s) /\ UNCHANGED <<conns, perUser>>
    BY <1>3 DEF BeginBody, SlotInv, ConnTypeOK, Open
  <2>3. QED  BY <2>1, <2>2, PhaseKeepsSlots
<1>4. ASSUME NEW s \in Streams, Leave(s)  PROVE SlotInv'
  <2>1. stream' = [stream EXCEPT ![s] = [@ EXCEPT !.phase = stream[s].phase,
                                                  !.here = FALSE]]
    BY <1>4 DEF Leave, SlotInv, ConnTypeOK
  <2>2. /\ stream[s].phase \in {"accepted", "streaming", "lost"} /\ Open(s)
        /\ UNCHANGED <<conns, perUser>>
    BY <1>4 DEF Leave, SlotInv, ConnTypeOK, Open
  <2>3. QED  BY <2>1, <2>2, PhaseKeepsSlots
<1>5. ASSUME NEW s \in Streams, DropResponse(s)  PROVE SlotInv'
  <2>1. stream' = [stream EXCEPT ![s] = [@ EXCEPT !.phase = "lost",
                                                  !.here = stream[s].here]]
    BY <1>5 DEF DropResponse, SlotInv, ConnTypeOK
  <2>2. stream[s].here \in BOOLEAN /\ Open(s) /\ UNCHANGED <<conns, perUser>>
    BY <1>5 DEF DropResponse, SlotInv, ConnTypeOK, Open
  <2>3. QED  BY <2>1, <2>2, PhaseKeepsSlots
<1>6. ASSUME NEW s \in Streams, EndBody(s)  PROVE SlotInv'
  BY <1>6, EndBodyKeepsSlots
<1>7. CASE RestartConnections
  <2>1. ConnTypeOK'
    BY <1>7, ConnectionsAssumption DEF RestartConnections, ConnTypeOK, NoStream
  <2>2. \A s \in Streams : ~Open(s)'
    BY <1>7 DEF RestartConnections, Open, NoStream
  <2>3. \A i \in Identities : OpenOf(i)' = {}
    BY <2>2 DEF OpenOf
  <2>4. KeySlotsExact'
    BY <1>7, <2>3, FS_EmptySet, ConnectionsAssumption
       DEF RestartConnections, KeySlotsExact
  <2>5. QED  BY <2>1, <2>2, <2>4 DEF SlotInv
<1>8. CASE UNCHANGED connVars
  BY <1>8, SlotsKept DEF connVars, SlotInv, ConnTypeOK
<1>9. QED
  BY <1>1, <1>2, <1>3, <1>4, <1>5, <1>6, <1>7, <1>8
     DEF Next, serviceVars, BeginGenerator, BeginMulti, Disconnect, Dropped,
         Step, GeneratorEnds, MultiEnds, Restart

LEMMA SlotInvariant == Spec => []SlotInv
<1>1. Init => SlotInv
  BY NoSlots DEF Init, ConnInit
<1>2. QED  BY <1>1, SlotStep, PTL DEF Spec

\* Nothing that happens to a stream takes two slots of its identity or gives
\* one back twice; no identity has more streams than SSE_MAX_PER_KEY.
THEOREM KeySlots == Spec => []KeySlotsExact
<1>1. SlotInv => KeySlotsExact
  BY DEF SlotInv
<1>2. QED  BY <1>1, SlotInvariant, PTL

\* The slots and the generators keep their types.
THEOREM ServiceTypes == Spec => []TypeOK
<1>1. SlotInv /\ GenInv => TypeOK
  BY DEF SlotInv, GenInv, TypeOK
<1>2. QED  BY <1>1, SlotInvariant, GeneratorInvariant, PTL

-----------------------------------------------------------------------------
(* The slots of a username, and what /health reports *)

\* The streams that are open in str, a value of stream, and those that name
\* u; how often each of them names it.
OpenIn(str)      == {s \in Streams : str[s].phase # "none"}
NamingIn(str, u) == {s \in OpenIn(str) : str[s].asked[u] > 0}
AskedIn(str, u)  == [s \in Streams |-> str[s].asked[u]]

LEMMA AskedFacts ==
    ASSUME NEW str, NEW u \in Users,
           \A s \in Streams : str[s].asked \in [Users -> 0..MaxUsers]
    PROVE  /\ IsFiniteSet(OpenIn(str)) /\ OpenIn(str) \in SUBSET Streams
           /\ \A s \in Streams : AskedIn(str, u)[s] = str[s].asked[u]
                                 /\ AskedIn(str, u)[s] \in Nat
<1>1. OpenIn(str) \in SUBSET Streams
  BY DEF OpenIn
<1>2. IsFiniteSet(OpenIn(str))
  BY <1>1, ConnectionsAssumption, FS_Subset
<1>3. QED  BY <1>1, <1>2, ConnectionsAssumption DEF AskedIn

SumAsked(str, u) == MapThenSumSet(LAMBDA s : str[s].asked[u], OpenIn(str))

\* That is a sum in the sense of FoldFacts.
LEMMA SumAskedIsSum ==
    ASSUME NEW str, NEW u \in Users,
           \A s \in Streams : str[s].asked \in [Users -> 0..MaxUsers]
    PROVE  SumAsked(str, u) = SumOver(AskedIn(str, u), OpenIn(str))
<1> DEFINE O == OpenIn(str)
           It == CHOOSE it : it = [t \in SUBSET O |->
                   IF t = {} THEN 0 ELSE str[Anyone(t)].asked[u] + it[t \ {Anyone(t)}]]
<1>0. IsFiniteSet(O) /\ O \in SUBSET Streams /\ \A s \in O : AskedIn(str, u)[s] \in Nat
  BY AskedFacts
<1>1. SumAsked(str, u) = It[O]
  BY DEF SumAsked, MapThenSumSet, MapThenFoldSet, Anyone
<1> HIDE DEF O
<1>2. PICK j : Sums(j, AskedIn(str, u), O) /\ SumOver(AskedIn(str, u), O) = j[O]
  BY <1>0, SumUnfolds
<1>3. ASSUME NEW t \in SUBSET O, t # {}
      PROVE  AskedIn(str, u)[Anyone(t)] = str[Anyone(t)].asked[u]
  <2>1. Anyone(t) \in Streams
    BY <1>0, <1>3 DEF Anyone
  <2>2. QED  BY <2>1, AskedFacts
<1>4. PICK i \in [SUBSET O -> Nat] : Sums(i, AskedIn(str, u), O)
  BY <1>0, SumsExist
<1>5. i = [t \in SUBSET O |->
             IF t = {} THEN 0 ELSE str[Anyone(t)].asked[u] + i[t \ {Anyone(t)}]]
  BY <1>3, <1>4 DEF Sums
<1>6. It = [t \in SUBSET O |->
              IF t = {} THEN 0 ELSE str[Anyone(t)].asked[u] + It[t \ {Anyone(t)}]]
  BY <1>5
<1> HIDE DEF It
<1>7. Sums(It, AskedIn(str, u), O)
  BY <1>3, <1>6 DEF Sums
<1>8. It[O] = j[O]
  BY <1>0, <1>2, <1>7, SumsAgree
<1>9. QED  BY <1>1, <1>2, <1>8 DEF O

\* A stream that opens adds the names of its list, one that closes takes them
\* away; a stream counts for a username if it names it at least once.
LEMMA SumAskedFacts ==
    ASSUME NEW str, NEW u \in Users,
           \A s \in Streams : str[s].asked \in [Users -> 0..MaxUsers]
    PROVE  /\ SumAsked(str, u) \in Nat
           /\ Cardinality(NamingIn(str, u)) <= SumAsked(str, u)
           /\ OpenIn(str) = {} => SumAsked(str, u) = 0
           /\ \A s \in OpenIn(str) : \A other :
                /\ OpenIn(other) = OpenIn(str) \ {s}
                /\ \A t \in OpenIn(other) : other[t].asked = str[t].asked
                /\ \A t \in Streams : other[t].asked \in [Users -> 0..MaxUsers]
                => SumAsked(str, u) = str[s].asked[u] + SumAsked(other, u)
<1> DEFINE O == OpenIn(str)
           f == AskedIn(str, u)
<1>1. /\ IsFiniteSet(O) /\ O \in SUBSET Streams
      /\ \A s \in Streams : f[s] = str[s].asked[u] /\ f[s] \in Nat
  BY AskedFacts
<1>2. SumAsked(str, u) = SumOver(f, O)
  BY SumAskedIsSum
<1> HIDE DEF O, f
<1>3. /\ SumOver(f, O) \in Nat
      /\ O = {} => SumOver(f, O) = 0
      /\ \A s \in O : SumOver(f, O) = f[s] + SumOver(f, O \ {s})
  <2>1. \A s \in O : f[s] \in Nat
    BY <1>1
  <2>2. QED  BY <1>1, <2>1, SumFacts
<1>4. Cardinality(NamingIn(str, u)) <= SumOver(f, O)
  <2>1. \A s \in O : f[s] \in Nat
    BY <1>1
  <2>2. NamingIn(str, u) = {s \in O : f[s] > 0}
    BY <1>1 DEF NamingIn, O
  <2>3. QED  BY <1>1, <2>1, <2>2, SumBoundsCount
<1>5. ASSUME NEW s \in OpenIn(str), NEW other,
             OpenIn(other) = OpenIn(str) \ {s},
             \A t \in OpenIn(other) : other[t].asked = str[t].asked,
             \A t \in Streams : other[t].asked \in [Users -> 0..MaxUsers]
      PROVE  SumAsked(str, u) = str[s].asked[u] + SumAsked(other, u)
  <2> DEFINE g == AskedIn(other, u)
             R == O \ {s}
  <2>1. SumAsked(other, u) = SumOver(g, R)
    BY <1>5, SumAskedIsSum DEF O
  <2>2. IsFiniteSet(R) /\ R \in SUBSET Streams
    BY <1>1, FS_Subset
  <2>3. \A t \in R : f[t] \in Nat /\ g[t] = f[t]
    <3>1. \A t \in Streams : g[t] = other[t].asked[u]
      BY <1>5, AskedFacts
    <3>2. QED  BY <1>1, <1>5, <2>2, <3>1 DEF O
  <2> HIDE DEF g
  <2>4. SumOver(g, R) = SumOver(f, R)
    <3> HIDE DEF R
    <3>1. QED  BY <2>2, <2>3, SumDependsOnSummands
  <2>5. SumOver(f, O) = f[s] + SumOver(f, R) /\ f[s] = str[s].asked[u]
    BY <1>1, <1>3, <1>5 DEF O
  <2>6. QED  BY <1>2, <2>1, <2>4, <2>5
<1>6. QED  BY <1>2, <1>3, <1>4, <1>5 DEF O

CountInv ==
    /\ SlotInv
    /\ \A u \in Users : /\ perUser[u] = SumAsked(stream, u)
                        /\ Cardinality(NamingIn(stream, u)) <= MaxPerUsername
    /\ SumOver(conns, Identities) = Cardinality(OpenIn(stream))

LEMMA NamingFinite ==
    ASSUME NEW str, NEW u \in Users
    PROVE  /\ IsFiniteSet(OpenIn(str)) /\ Cardinality(OpenIn(str)) \in Nat
           /\ IsFiniteSet(NamingIn(str, u)) /\ Cardinality(NamingIn(str, u)) \in Nat
<1>1. OpenIn(str) \in SUBSET Streams /\ NamingIn(str, u) \in SUBSET Streams
  BY DEF OpenIn, NamingIn
<1>2. QED  BY <1>1, ConnectionsAssumption, FS_Subset, FS_CardinalityType

\* A step that opens and closes nothing and changes no list.
LEMMA CountsKept ==
    ASSUME CountInv, SlotInv', UNCHANGED <<conns, perUser>>,
           \A s \in Streams : /\ stream'[s].asked = stream[s].asked
                              /\ stream'[s].phase = "none" <=> stream[s].phase = "none"
    PROVE  CountInv'
<1>1. OpenIn(stream') = OpenIn(stream)
  BY DEF OpenIn
<1>2. ASSUME NEW u \in Users
      PROVE  /\ SumAsked(stream', u) = SumAsked(stream, u)
             /\ NamingIn(stream', u) = NamingIn(stream, u)
  <2>1. NamingIn(stream', u) = NamingIn(stream, u)
    BY <1>1 DEF NamingIn, OpenIn
  <2>2. AskedIn(stream', u) = AskedIn(stream, u)
    BY DEF AskedIn
  <2>3. /\ \A s \in Streams : stream[s].asked \in [Users -> 0..MaxUsers]
        /\ \A s \in Streams : stream'[s].asked \in [Users -> 0..MaxUsers]
    BY DEF CountInv, SlotInv, ConnTypeOK
  <2>4. SumAsked(stream, u) = SumOver(AskedIn(stream, u), OpenIn(stream))
    BY <2>3, SumAskedIsSum
  <2>5. SumAsked(stream', u) = SumOver(AskedIn(stream', u), OpenIn(stream'))
    BY <2>3, SumAskedIsSum
  <2>6. QED  BY <1>1, <2>1, <2>2, <2>4, <2>5
<1>3. QED  BY <1>1, <1>2 DEF CountInv

\* A stream opens: its list was below every cap it counts against.
LEMMA AcceptKeepsCounts ==
    ASSUME CountInv, NEW s \in Streams, NEW i \in Identities,
           NEW list \in [Users -> 0..MaxUsers], Accept(s, i, list)
    PROVE  CountInv'
<1>1. SlotInv'
  BY AcceptKeepsSlots DEF CountInv
<1>2. /\ stream \in [Streams -> [phase : {"none", "accepted", "streaming", "lost"},
                               here : BOOLEAN,
                               who : Identities \cup {"nobody"},
                               asked : [Users -> 0..MaxUsers]]]
      /\ \A t \in Streams : stream[t].asked \in [Users -> 0..MaxUsers]
      /\ \A t \in Streams : stream'[t].asked \in [Users -> 0..MaxUsers]
  BY <1>1 DEF CountInv, SlotInv, ConnTypeOK
<1>3. /\ stream'[s].phase = "accepted" /\ stream'[s].asked = list
      /\ \A t \in Streams \ {s} : stream'[t] = stream[t]
      /\ stream[s].phase = "none"
  BY <1>2 DEF Accept
<1>4. /\ s \in OpenIn(stream') /\ s \notin OpenIn(stream)
      /\ OpenIn(stream) = OpenIn(stream') \ {s}
      /\ OpenIn(stream') = OpenIn(stream) \cup {s}
      /\ \A t \in OpenIn(stream) : t # s /\ t \in Streams
  BY <1>3 DEF OpenIn
<1>5. \A t \in OpenIn(stream) : stream[t].asked = stream'[t].asked
  BY <1>3, <1>4
<1>6. ASSUME NEW u \in Users
      PROVE  /\ perUser'[u] = SumAsked(stream', u)
             /\ Cardinality(NamingIn(stream', u)) <= MaxPerUsername
  <2>1. SumAsked(stream', u) = stream'[s].asked[u] + SumAsked(stream, u)
    <3>1. /\ \A t \in Streams : stream[t].asked \in [Users -> 0..MaxUsers]
          /\ \A t \in Streams : stream'[t].asked \in [Users -> 0..MaxUsers]
          /\ s \in OpenIn(stream') /\ OpenIn(stream) = OpenIn(stream') \ {s}
      BY <1>2, <1>4
    <3>2. QED  BY <1>5, <3>1, SumAskedFacts
  <2>2. /\ perUser[u] = SumAsked(stream, u) /\ SumAsked(stream, u) \in Nat
        /\ Cardinality(NamingIn(stream, u)) <= SumAsked(stream, u)
    BY <1>2, SumAskedFacts DEF CountInv
  <2>3. list[u] \in Nat
    BY ConnectionsAssumption
  <2>4. perUser'[u] = perUser[u] + list[u]
    BY DEF Accept
  <2>5. perUser'[u] = SumAsked(stream', u)
    BY <1>3, <2>1, <2>2, <2>3, <2>4
  <2>6. CASE list[u] > 0
    <3>1. perUser[u] < MaxPerUsername
      BY <2>6 DEF Accept, HasRoom, Room
    <3>2. s \notin NamingIn(stream, u) /\ NamingIn(stream', u) = NamingIn(stream, u) \cup {s}
      BY <1>3, <1>4, <1>5, <2>6 DEF NamingIn
    <3>3. Cardinality(NamingIn(stream', u)) = Cardinality(NamingIn(stream, u)) + 1
      BY <3>2, NamingFinite, FS_AddElement
    <3>4. QED
      BY <2>2, <2>5, <3>1, <3>3, NamingFinite, ConnectionsAssumption
  <2>7. CASE ~(list[u] > 0)
    <3>1. NamingIn(stream', u) = NamingIn(stream, u)
      BY <1>3, <1>4, <1>5, <2>7 DEF NamingIn
    <3>2. QED  BY <2>5, <3>1 DEF CountInv
  <2>8. QED  BY <2>6, <2>7
<1>7. SumOver(conns', Identities) = Cardinality(OpenIn(stream'))
  <2>1. /\ \A j \in Identities : conns[j] \in Nat /\ conns'[j] \in Nat
        /\ conns'[i] = conns[i] + 1
        /\ \A j \in Identities \ {i} : conns'[j] = conns[j]
    BY <1>1 DEF Accept, CountInv, SlotInv, ConnTypeOK
  <2>2. /\ SumOver(conns, Identities) \in Nat /\ SumOver(conns', Identities) \in Nat
        /\ SumOver(conns', Identities) + conns[i] = SumOver(conns, Identities) + conns'[i]
    BY <2>1, SumChanges, ConnectionsAssumption
  <2>3. Cardinality(OpenIn(stream')) = Cardinality(OpenIn(stream)) + 1
    <3>1. IsFiniteSet(OpenIn(stream))
      BY <1>4, ConnectionsAssumption, FS_Subset DEF OpenIn
    <3>2. QED  BY <1>4, <3>1, FS_AddElement
  <2>4. SumOver(conns', Identities) = SumOver(conns, Identities) + 1
    <3>1. \A a, b, c \in Nat : a + c = b + (c + 1) => a = b + 1
      OBVIOUS
    <3>2. QED  BY <2>1, <2>2, <3>1
  <2>5. QED  BY <2>3, <2>4 DEF CountInv
<1>8. QED  BY <1>1, <1>6, <1>7 DEF CountInv

\* A body ends: the counters hold at least what it gives back.
LEMMA EndBodyKeepsCounts ==
    ASSUME CountInv, NEW s \in Streams, EndBody(s)
    PROVE  CountInv'
<1>1. SlotInv'
  BY EndBodyKeepsSlots DEF CountInv
<1>2. /\ stream \in [Streams -> [phase : {"none", "accepted", "streaming", "lost"},
                               here : BOOLEAN,
                               who : Identities \cup {"nobody"},
                               asked : [Users -> 0..MaxUsers]]]
      /\ \A t \in Streams : stream[t].asked \in [Users -> 0..MaxUsers]
      /\ \A t \in Streams : stream'[t].asked \in [Users -> 0..MaxUsers]
  BY <1>1 DEF CountInv, SlotInv, ConnTypeOK
<1>3. /\ stream'[s].phase = "none" /\ stream[s].phase # "none"
      /\ \A t \in Streams \ {s} : stream'[t] = stream[t]
  BY <1>2 DEF EndBody, NoStream
<1>4. /\ s \in OpenIn(stream)
      /\ OpenIn(stream') = OpenIn(stream) \ {s}
      /\ \A t \in OpenIn(stream') : t # s /\ t \in Streams
  BY <1>3 DEF OpenIn
<1>5. \A t \in OpenIn(stream') : stream'[t].asked = stream[t].asked
  BY <1>3, <1>4
<1>6. ASSUME NEW u \in Users
      PROVE  /\ perUser'[u] = SumAsked(stream', u)
             /\ Cardinality(NamingIn(stream', u)) <= MaxPerUsername
  <2>1. SumAsked(stream, u) = stream[s].asked[u] + SumAsked(stream', u)
    BY <1>2, <1>4, <1>5, SumAskedFacts
  <2>2. perUser[u] = SumAsked(stream, u) /\ SumAsked(stream', u) \in Nat
    BY <1>2, SumAskedFacts DEF CountInv
  <2>3. stream[s].asked[u] \in Nat
    BY <1>2, ConnectionsAssumption
  <2>4. perUser'[u] = Less(perUser[u], stream[s].asked[u])
    BY DEF EndBody, Times
  <2>5. \A a, b \in Nat : Less(a + b, a) = b
    BY DEF Less
  <2>6. perUser'[u] = SumAsked(stream', u)
    BY <2>1, <2>2, <2>3, <2>4, <2>5
  <2>7. Cardinality(NamingIn(stream', u)) <= Cardinality(NamingIn(stream, u))
    <3>1. NamingIn(stream', u) \subseteq NamingIn(stream, u)
      BY <1>4, <1>5 DEF NamingIn
    <3>2. QED  BY <3>1, NamingFinite, FS_Subset
  <2>8. Cardinality(NamingIn(stream, u)) <= MaxPerUsername
    BY DEF CountInv
  <2>9. QED  BY <2>6, <2>7, <2>8, NamingFinite, ConnectionsAssumption
<1>7. SumOver(conns', Identities) = Cardinality(OpenIn(stream'))
  <2>1. PICK i \in Identities : stream[s].who = i
    BY <1>3 DEF CountInv, SlotInv, Open
  <2>2. conns[i] \in Nat /\ conns[i] > 0
    <3>1. s \in OpenOf(i)
      BY <1>3, <2>1 DEF OpenOf, Open
    <3>2. Cardinality(OpenOf(i)) # 0
      BY <3>1, OpenOfFinite, FS_EmptySet
    <3>3. QED  BY <3>2 DEF CountInv, SlotInv, KeySlotsExact, ConnTypeOK
  <2>3. /\ \A j \in Identities : conns[j] \in Nat /\ conns'[j] \in Nat
        /\ conns'[i] = Less(conns[i], 1)
        /\ \A j \in Identities \ {i} : conns'[j] = conns[j]
    BY <1>1, <2>1 DEF EndBody, CountInv, SlotInv, ConnTypeOK
  <2>4. conns[i] = conns'[i] + 1
    BY <2>2, <2>3 DEF Less
  <2>5. /\ SumOver(conns, Identities) \in Nat /\ SumOver(conns', Identities) \in Nat
        /\ SumOver(conns', Identities) + conns[i] = SumOver(conns, Identities) + conns'[i]
    BY <2>3, SumChanges, ConnectionsAssumption
  <2>6. SumOver(conns, Identities) = SumOver(conns', Identities) + 1
    <3>1. \A a, b, c \in Nat : a + (c + 1) = b + c => b = a + 1
      OBVIOUS
    <3>2. QED  BY <2>3, <2>4, <2>5, <3>1
  <2>7. IsFiniteSet(OpenIn(stream))
    BY ConnectionsAssumption, FS_Subset DEF OpenIn
  <2>8. /\ Cardinality(OpenIn(stream')) = Cardinality(OpenIn(stream)) - 1
        /\ Cardinality(OpenIn(stream')) \in Nat /\ Cardinality(OpenIn(stream)) \in Nat
    <3>1. IsFiniteSet(OpenIn(stream'))
      BY <1>4, <2>7, FS_RemoveElement
    <3>2. QED  BY <1>4, <2>7, <3>1, FS_RemoveElement, FS_CardinalityType
  <2>9. SumOver(conns, Identities) = Cardinality(OpenIn(stream))
    BY DEF CountInv
  <2>10. \A a, b \in Nat : b = a + 1 => a = b - 1
    OBVIOUS
  <2>11. QED  BY <2>5, <2>6, <2>8, <2>9, <2>10
<1>8. QED  BY <1>1, <1>6, <1>7 DEF CountInv

\* No stream is open and no slot is counted.
LEMMA NoCounts ==
    ASSUME NEW str, NEW c, NEW n, str = [s \in Streams |-> NoStream],
           c = [i \in Identities |-> 0], n = [u \in Users |-> 0]
    PROVE  /\ \A u \in Users : /\ n[u] = SumAsked(str, u)
                               /\ Cardinality(NamingIn(str, u)) <= MaxPerUsername
           /\ SumOver(c, Identities) = Cardinality(OpenIn(str))
<1>1. OpenIn(str) = {}
  BY DEF OpenIn, NoStream
<1>2. \A s \in Streams : str[s].asked \in [Users -> 0..MaxUsers]
  BY ConnectionsAssumption DEF NoStream
<1>3. ASSUME NEW u \in Users
      PROVE  n[u] = SumAsked(str, u) /\ Cardinality(NamingIn(str, u)) <= MaxPerUsername
  <2>1. SumAsked(str, u) = 0
    BY <1>1, <1>2, SumAskedFacts
  <2>2. NamingIn(str, u) = {}
    BY <1>1 DEF NamingIn
  <2>3. QED  BY <2>1, <2>2, FS_EmptySet, ConnectionsAssumption
<1>4. SumOver(c, Identities) = 0
  BY SumOfNothing, ConnectionsAssumption
<1>5. QED  BY <1>1, <1>3, <1>4, FS_EmptySet

LEMMA CountStep == CountInv /\ [Next]_serviceVars => CountInv'
<1> SUFFICES ASSUME CountInv, [Next]_serviceVars  PROVE CountInv'
  OBVIOUS
<1>1. SlotInv'
  BY SlotStep DEF CountInv
<1>2. ASSUME NEW s \in Streams, LiveStream(s)  PROVE CountInv'
  <2>1. PICK i \in Identities, u \in Users : Accept(s, i, Only(u))
    BY <1>2 DEF LiveStream
  <2>2. Only(u) \in [Users -> 0..MaxUsers]
    BY ConnectionsAssumption DEF Only
  <2>3. QED  BY <2>1, <2>2, AcceptKeepsCounts
<1>3. ASSUME NEW s \in Streams, LiveStreamMulti(s)  PROVE CountInv'
  BY <1>3, AcceptKeepsCounts DEF LiveStreamMulti, Lists
<1>4. ASSUME NEW s \in Streams, BeginBody(s) \/ Leave(s) \/ DropResponse(s)
      PROVE  CountInv'
  <2>1. UNCHANGED <<conns, perUser>>
    BY <1>4 DEF BeginBody, Leave, DropResponse
  <2>2. ASSUME NEW t \in Streams
        PROVE  /\ stream'[t].asked = stream[t].asked
               /\ stream'[t].phase = "none" <=> stream[t].phase = "none"
    <3> USE DEF CountInv, SlotInv, ConnTypeOK
    <3>1. CASE BeginBody(s)
      BY <3>1 DEF BeginBody
    <3>2. CASE Leave(s)
      BY <3>2 DEF Leave
    <3>3. CASE DropResponse(s)
      BY <3>3 DEF DropResponse
    <3>4. QED  BY <1>4, <3>1, <3>2, <3>3
  <2>3. QED  BY <1>1, <2>1, <2>2, CountsKept
<1>5. ASSUME NEW s \in Streams, EndBody(s)  PROVE CountInv'
  BY <1>5, EndBodyKeepsCounts
<1>6. CASE RestartConnections
  BY <1>1, <1>6, NoCounts DEF RestartConnections, CountInv
<1>7. CASE UNCHANGED connVars
  BY <1>1, <1>7, CountsKept DEF connVars
<1>8. QED
  BY <1>2, <1>3, <1>4, <1>5, <1>6, <1>7
     DEF Next, serviceVars, BeginGenerator, BeginMulti, Disconnect, Dropped,
         Step, GeneratorEnds, MultiEnds, Restart

LEMMA CountInvariant == Spec => []CountInv
<1>1. Init => CountInv
  BY NoSlots, NoCounts DEF Init, ConnInit, CountInv
<1>2. QED  BY <1>1, CountStep, PTL DEF Spec

\* Both counters are exact name by name, whatever a list repeats and whichever
\* way a stream ends, so max(0, ..) never hides a slot given back twice; and
\* /health reports the number of streams.
THEOREM CountersAreExact == Spec => []CountersExact
<1>1. CountInv => CountersExact
  <2> SUFFICES ASSUME CountInv  PROVE CountersExact
    OBVIOUS
  <2>1. OpenIn(stream) = {s \in Streams : Open(s)}
    BY DEF OpenIn, Open
  <2>2. ASSUME NEW u \in Users  PROVE perUser[u] = NamesOpen(u)
    <3>1. SumAsked(stream, u) = NamesOpen(u)
      BY <2>1 DEF SumAsked, NamesOpen
    <3>2. QED  BY <3>1 DEF CountInv
  <2>3. ActiveSseConnections = SumOver(conns, Identities)
    BY DEF ActiveSseConnections, SumOver
  <2>4. QED  BY <2>1, <2>2, <2>3 DEF CountInv, SlotInv, CountersExact
<1>2. QED  BY <1>1, CountInvariant, PTL

\* No identity has more streams than SSE_MAX_PER_KEY and no username more
\* than SSE_MAX_PER_USERNAME, though a list is checked before it is counted.
THEOREM CapsHold == Spec => []WithinCaps
<1>1. CountInv => WithinCaps
  <2> SUFFICES ASSUME CountInv  PROVE WithinCaps
    OBVIOUS
  <2>1. ASSUME NEW i \in Identities  PROVE Cardinality(OpenOf(i)) <= MaxPerKey
    BY DEF CountInv, SlotInv, KeySlotsExact
  <2>2. ASSUME NEW u \in Users
        PROVE  Cardinality({s \in Streams : Open(s) /\ stream[s].asked[u] > 0})
                 <= MaxPerUsername
    <3>1. NamingIn(stream, u) = {s \in Streams : Open(s) /\ stream[s].asked[u] > 0}
      BY DEF NamingIn, OpenIn, Open
    <3>2. QED  BY <3>1 DEF CountInv
  <2>3. QED  BY <2>1, <2>2 DEF WithinCaps
<1>2. QED  BY <1>1, CountInvariant, PTL
=============================================================================
