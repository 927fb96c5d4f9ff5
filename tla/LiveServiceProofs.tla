--------------------------- MODULE LiveServiceProofs ---------------------------
(***************************************************************************)
(* Proofs about LiveService, for any number of streams and webhooks of a   *)
(* username, any TTLs, time-out and limits and any number of changes: the  *)
(* composition takes steps of its parts only, so the cache keeps all its   *)
(* promises when streams and webhooks, with what they do between two       *)
(* polls, are its callers; and what the audience is told is the answer of  *)
(* a call, at most so old, in the streamer's order.                        *)
(***************************************************************************)
EXTENDS LiveService, TLAPS

\* Who calls get_live_status_sse.
Audience == Streams \cup Ids

-----------------------------------------------------------------------------
(* The service and its parts *)

\* A step of the service is a step of the cache or leaves it alone.
LEMMA CacheStep ==
    ASSUME [Next]_vars
    PROVE  [Cache!Next]_(Cache!vars)
<1>1. ASSUME NEW c \in Audience,
             Waits(c) \/ Served(c) \/ Cache!Fail(c) \/ Abandon(c) \/ UNCHANGED cacheVars
      PROVE  [Cache!Next]_(Cache!vars)
  BY <1>1 DEF Audience, Waits, Served, Abandon, Cache!Next, Cache!SseStep,
              Cache!vars, cacheVars
<1>2. CASE World
  BY <1>2 DEF World, Cache!Next
<1>3. ASSUME NEW s \in Streams, Connect(s) \/ StreamStep(s) \/ Disconnect(s)
      PROVE  [Cache!Next]_(Cache!vars)
  <2>1. Waits(s) \/ Served(s) \/ Cache!Fail(s) \/ Abandon(s) \/ UNCHANGED cacheVars
    BY <1>3 DEF Connect, StreamStep, StreamPolls, Disconnect
  <2>2. QED  BY <1>1, <2>1 DEF Audience
<1>4. ASSUME NEW w \in Ids, Register(w) \/ HookStep(w) \/ Unregister(w)
      PROVE  [Cache!Next]_(Cache!vars)
  <2>1. Waits(w) \/ Served(w) \/ Cache!Fail(w) \/ Abandon(w) \/ UNCHANGED cacheVars
    BY <1>4 DEF Register, HookStep, HookPolls, Unregister
  <2>2. QED  BY <1>1, <2>1 DEF Audience
<1>5. CASE UNCHANGED vars
  BY <1>5 DEF vars, cacheVars, Cache!vars
<1>6. QED  BY <1>2, <1>3, <1>4, <1>5 DEF Next

\* Streams and webhooks use get_live_status_sse as StatusCache says a caller
\* may: whatever a generator or a poll loop does, the cache sees calls that
\* begin, go on, end or are cancelled.
THEOREM ServiceUsesCache == Spec => Cache!Spec
<1>1. Init => Cache!Init
  BY DEF Init
<1>2. [Next]_vars => [Cache!Next]_(Cache!vars)
  BY CacheStep
<1>3. QED  BY <1>1, <1>2, PTL DEF Spec, Cache!Spec

\* A step of the service is a step of a generator or leaves them alone.
LEMMA GeneratorStep ==
    ASSUME [Next]_vars
    PROVE  [Gen!GenNext]_(Gen!genVars)
<1>1. CASE World
  BY <1>1 DEF World, genVars, Gen!genVars
<1>2. ASSUME NEW s \in Streams, Connect(s) \/ StreamStep(s) \/ Disconnect(s)
      PROVE  [Gen!GenNext]_(Gen!genVars)
  <2>1. Status(got'[s]) \in Gen!Status
    BY DEF Status, Gen!Status
  <2>2. Gen!GenBegin(s) \/ Gen!GenStep(s) \/ Gen!GenEnd(s) \/ UNCHANGED genVars
    BY <1>2, <2>1 DEF Connect, StreamStep, StreamPolls, Told, Disconnect, Gen!GenStep
  <2>3. QED  BY <2>2 DEF Gen!GenNext, genVars, Gen!genVars
<1>3. ASSUME NEW w \in Ids, Register(w) \/ HookStep(w) \/ Unregister(w)
      PROVE  UNCHANGED genVars
  BY <1>3 DEF Register, HookStep, Unregister
<1>4. CASE UNCHANGED vars
  BY <1>4 DEF vars, genVars, Gen!genVars
<1>5. QED  BY <1>1, <1>2, <1>3, <1>4 DEF Next, genVars, Gen!genVars

\* The streams of the service are the generators of SseGenerator, with the
\* answers of the cache for the statuses left open there.
THEOREM ServiceRunsStreams == Spec => Gen!GenInit /\ [][Gen!GenNext]_(Gen!genVars)
<1>1. Init => Gen!GenInit
  BY DEF Init
<1>2. [Next]_vars => [Gen!GenNext]_(Gen!genVars)
  BY GeneratorStep
<1>3. QED  BY <1>1, <1>2, PTL DEF Spec

\* A step of the service is a step of a poll loop or leaves them alone.
LEMMA TaskSteps ==
    ASSUME [Next]_vars
    PROVE  [Loop!LoopNext]_(Loop!loopVars)
<1>1. CASE World
  BY <1>1 DEF World, loopVars, Loop!loopVars
<1>2. ASSUME NEW s \in Streams, Connect(s) \/ StreamStep(s) \/ Disconnect(s)
      PROVE  UNCHANGED loopVars
  BY <1>2 DEF Connect, StreamStep, Disconnect
<1>3. ASSUME NEW w \in Ids, Register(w) \/ HookStep(w) \/ Unregister(w)
      PROVE  [Loop!LoopNext]_(Loop!loopVars)
  <2>1. CASE Register(w)
    <3>1. {w} \in SUBSET Ids
      OBVIOUS
    <3>2. QED  BY <2>1, <3>1 DEF Register, Loop!LoopNext
  <2>2. OnAir(got'[w]) \in BOOLEAN
    BY DEF OnAir
  <2>3. CASE HookStep(w)
    <3>1. Loop!LoopStep(w) \/ UNCHANGED loopVars
      BY <2>2, <2>3 DEF HookStep, HookPolls, Hears, Dispatches, Loop!LoopStep,
                        Loop!PollingStep, Loop!News
    <3>2. QED  BY <3>1 DEF Loop!LoopNext, loopVars, Loop!loopVars
  <2>4. CASE Unregister(w)
    BY <2>4 DEF Unregister, Loop!LoopNext
  <2>5. QED  BY <1>3, <2>1, <2>3, <2>4
<1>4. CASE UNCHANGED vars
  BY <1>4 DEF vars, loopVars, Loop!loopVars
<1>5. QED  BY <1>1, <1>2, <1>3, <1>4 DEF Next, loopVars, Loop!loopVars

\* The webhooks of the service are the poll loops of WebhookLoop, with the
\* answers of the cache for the statuses left open there.
THEOREM ServiceRunsTasks == Spec => Loop!LoopSpec
<1>1. Init => Loop!LoopInit
  BY DEF Init
<1>2. [Next]_vars => [Loop!LoopNext]_(Loop!loopVars)
  BY TaskSteps
<1>3. QED  BY <1>1, <1>2, PTL DEF Spec, Loop!LoopSpec

-----------------------------------------------------------------------------
(* What is proved of the cache holds in the service *)

CacheFacts == INSTANCE StatusCacheProofs WITH
                SseCallers <- Streams \cup Ids, RestCallers <- {}, pc <- call

LEMMA CacheConstants == CacheFacts!CacheAssumption
BY PartsAssumption DEF Cache!CacheAssumption, CacheFacts!CacheAssumption,
                       Cache!Callers, CacheFacts!Callers

\* The operators of StatusCacheProofs are those of StatusCache.
LEMMA SameInit == Cache!Init <=> CacheFacts!Init
BY DEF Cache!Init, CacheFacts!Init, Cache!Callers, CacheFacts!Callers

LEMMA SameHits ==
    ASSUME NEW c
    PROVE  /\ Cache!SseHit(c) <=> CacheFacts!SseHit(c)
           /\ Cache!SseSecondHit(c) <=> CacheFacts!SseSecondHit(c)
           /\ Cache!SseAnswer(c) <=> CacheFacts!SseAnswer(c)
<1> USE DEF Cache!Fresh, CacheFacts!Fresh, Cache!Return, CacheFacts!Return,
            Cache!Finish, CacheFacts!Finish, Cache!Release, CacheFacts!Release,
            Cache!lock, CacheFacts!lock
<1>1. Cache!SseHit(c) <=> CacheFacts!SseHit(c)
  BY DEF Cache!SseHit, CacheFacts!SseHit, Cache!SseEntry, CacheFacts!SseEntry
<1>2. Cache!SseSecondHit(c) <=> CacheFacts!SseSecondHit(c)
  BY DEF Cache!SseSecondHit, CacheFacts!SseSecondHit
<1>3. Cache!SseAnswer(c) <=> CacheFacts!SseAnswer(c)
  BY Zenon
     DEF Cache!SseAnswer, CacheFacts!SseAnswer, Cache!LeaveLock, CacheFacts!LeaveLock,
         Cache!Shows, CacheFacts!Shows, Cache!InCall, CacheFacts!InCall,
         Cache!Version, CacheFacts!Version
<1>4. QED  BY <1>1, <1>2, <1>3

LEMMA SameOthers ==
    ASSUME NEW c
    PROVE  /\ Cache!SseMiss(c) <=> CacheFacts!SseMiss(c)
           /\ Cache!SseFetch(c) <=> CacheFacts!SseFetch(c)
           /\ Cache!RoomFound(c) <=> CacheFacts!RoomFound(c)
           /\ Cache!Fail(c) <=> CacheFacts!Fail(c)
           /\ Cache!Cancel(c) <=> CacheFacts!Cancel(c)
BY DEF Cache!SseMiss, CacheFacts!SseMiss, Cache!SseFetch, CacheFacts!SseFetch,
       Cache!RoomFound, CacheFacts!RoomFound, Cache!Fail, CacheFacts!Fail,
       Cache!Cancel, CacheFacts!Cancel, Cache!Acquire, CacheFacts!Acquire,
       Cache!Stale, CacheFacts!Stale, Cache!Send, CacheFacts!Send,
       Cache!Fresh, CacheFacts!Fresh, Cache!Finish, CacheFacts!Finish,
       Cache!Release, CacheFacts!Release, Cache!LeaveLock, CacheFacts!LeaveLock,
       Cache!lock, CacheFacts!lock, Cache!InCall, CacheFacts!InCall,
       Cache!RemoveAt, CacheFacts!RemoveAt

LEMMA SameWorld ==
    (Cache!Change <=> CacheFacts!Change) /\ (Cache!Tick <=> CacheFacts!Tick)
BY DEF Cache!Change, CacheFacts!Change, Cache!Tick, CacheFacts!Tick,
       Cache!InCall, CacheFacts!InCall, Cache!Callers, CacheFacts!Callers,
       Cache!Older, CacheFacts!Older, Cache!Horizon, CacheFacts!Horizon,
       Cache!Aged, CacheFacts!Aged, Cache!lock, CacheFacts!lock

LEMMA SameNext ==
    [Cache!Next]_(Cache!vars) => [CacheFacts!Next]_(CacheFacts!vars)
<1>1. UNCHANGED Cache!vars => UNCHANGED CacheFacts!vars
  BY DEF Cache!vars, CacheFacts!vars
<1>2. Cache!Next => CacheFacts!Next
  BY SameHits, SameOthers, SameWorld
     DEF Cache!Next, CacheFacts!Next, Cache!SseStep, CacheFacts!SseStep
<1>3. QED  BY <1>1, <1>2

LEMMA ServiceUsesProvedCache == Spec => CacheFacts!Spec
<1>1. Init => CacheFacts!Init
  BY SameInit DEF Init
<1>2. [Next]_vars => [CacheFacts!Next]_(CacheFacts!vars)
  BY CacheStep, SameNext
<1>3. QED  BY <1>1, <1>2, PTL DEF Spec, CacheFacts!Spec

\* However streams and webhooks come, go and fail, the lock of a username is
\* never left to nobody, and at most one of them talks to TikTok.
THEOREM ServiceLock == Spec => [](Cache!LockInUse /\ Cache!SingleFlight)
<1>1. CacheFacts!Spec => []CacheFacts!LockInUse
  BY CacheConstants, CacheFacts!LockNeverLeaks
<1>2. CacheFacts!Spec => []CacheFacts!SingleFlight
  BY CacheConstants, CacheFacts!OneFetchAtATime
<1>3. CacheFacts!LockInUse => Cache!LockInUse
  BY DEF CacheFacts!LockInUse, Cache!LockInUse
<1>4. CacheFacts!SingleFlight => Cache!SingleFlight
  BY DEF CacheFacts!SingleFlight, Cache!SingleFlight, CacheFacts!InCall, Cache!InCall
<1>5. QED  BY <1>1, <1>2, <1>3, <1>4, ServiceUsesProvedCache, PTL

-----------------------------------------------------------------------------
(* What the audience is told *)

\* A generator and what its client was sent, as far as the proof looks.
GenRecord == [pc : {"none", "poll", "yield", "sleep"}, item : Gen!Item \cup {"none"},
              lastLive : Gen!Status \cup {"unknown"}, hadError : BOOLEAN,
              polls : Nat, quiet : Nat]
FeedRecord == [shown : Gen!Status \cup {"unknown"}, failed : BOOLEAN, beat : BOOLEAN]

\* Generator g hands its client a status.
Telling(g) == g.pc = "yield" /\ g.item \in Gen!Status

\* A generator g whose last call returned version v, and its feed f: last_live
\* is what the client was shown, and either that is the status of v or the
\* status of v is on its way.
Knows(g, f, v) ==
    /\ f.shown = g.lastLive
    /\ g.pc = "none" => g.lastLive = "unknown"
    /\ Telling(g) => g.item = Status(v)
    /\ ~Telling(g) => g.lastLive \in {"unknown", Status(v)}

StreamsInv ==
    /\ gen \in [Streams -> GenRecord]
    /\ feed \in [Streams -> FeedRecord]
    /\ \A s \in Streams : Knows(gen[s], feed[s], got[s])

\* last_live of a poll loop is the status its last call returned.
HooksInv ==
    /\ lastLive \in [Ids -> BOOLEAN \cup {Unknown}]
    /\ \A w \in Ids : lastLive[w] \in {Unknown, OnAir(got[w])}

AnswersTyped == got \in [Audience -> Nat]

\* A call returns its version to its caller.
LEMMA AnswerOfItsOwn ==
    ASSUME AnswersTyped, NEW c \in Audience, Served(c)
    PROVE  \A d \in Audience \ {c} : got'[d] = got[d]
BY DEF AnswersTyped, Served, Cache!SseHit, Cache!SseSecondHit, Cache!SseAnswer,
       Cache!Return

\* Whatever else happens, nothing is returned to anybody.
LEMMA NoAnswer ==
    ASSUME NEW c, Waits(c) \/ Cache!Fail(c) \/ Abandon(c) \/ UNCHANGED cacheVars
    PROVE  got' = got
BY DEF Waits, Abandon, Cache!SseMiss, Cache!SseFetch, Cache!RoomFound, Cache!Fail,
       Cache!Cancel, cacheVars

LEMMA AnswersHaveTypes == Spec => []AnswersTyped
<1>1. CacheFacts!Spec => []CacheFacts!TypeOK
  BY CacheConstants, CacheFacts!TypeCorrect
<1>2. CacheFacts!TypeOK => AnswersTyped
  BY CacheConstants DEF CacheFacts!TypeOK, CacheFacts!Callers, CacheFacts!Version,
                        Audience, CacheFacts!CacheAssumption, AnswersTyped
<1>3. QED  BY <1>1, <1>2, ServiceUsesProvedCache, PTL

LEMMA StatusIsStatus == \A v : Status(v) \in Gen!Status /\ OnAir(v) \in BOOLEAN
BY DEF Status, Gen!Status, OnAir

\* The generator of s becomes g, its feed f, and no other stream is answered.
LEMMA OneStreamMoves ==
    ASSUME StreamsInv, AnswersTyped, NEW s \in Streams,
           NEW g \in GenRecord, NEW f \in FeedRecord,
           gen' = [gen EXCEPT ![s] = g], feed' = [feed EXCEPT ![s] = f],
           \A d \in Streams \ {s} : got'[d] = got[d],
           Knows(g, f, got'[s])
    PROVE  StreamsInv'
<1>1. gen' \in [Streams -> GenRecord] /\ feed' \in [Streams -> FeedRecord]
  BY DEF StreamsInv
<1>2. ASSUME NEW d \in Streams  PROVE Knows(gen'[d], feed'[d], got'[d])
  <2>1. CASE d = s
    <3>1. gen'[d] = g /\ feed'[d] = f
      BY <2>1 DEF StreamsInv
    <3>2. QED  BY <2>1, <3>1
  <2>2. CASE d # s
    <3>1. gen'[d] = gen[d] /\ feed'[d] = feed[d] /\ got'[d] = got[d]
      BY <2>2 DEF StreamsInv
    <3>2. Knows(gen[d], feed[d], got[d])
      BY DEF StreamsInv
    <3>3. QED  BY <3>1, <3>2
  <2>3. QED  BY <2>1, <2>2
<1>3. QED  BY <1>1, <1>2 DEF StreamsInv, Knows, Telling

\* A poll that yields item i, or none.
LEMMA PolledKnows ==
    ASSUME StreamsInv, AnswersTyped, NEW s \in Streams,
           NEW i \in Gen!Item \cup {"none"}, Gen!Polled(s, i),
           \A d \in Streams \ {s} : got'[d] = got[d],
           i \in Gen!Status => i = Status(got'[s]),
           i \notin Gen!Status => gen[s].lastLive \in {"unknown", Status(got'[s])}
    PROVE  StreamsInv'
<1> DEFINE g == Gen!AfterPoll(s, i)
<1>1. gen[s] \in GenRecord /\ feed[s] \in FeedRecord /\ Knows(gen[s], feed[s], got[s])
  BY DEF StreamsInv
<1>2. Gen!Count(s, i) \in Nat
  <2>1. HeartbeatEvery \in Nat \ {0} /\ gen[s].polls \in Nat
    BY <1>1, PartsAssumption DEF Gen!GeneratorAssumption, GenRecord
  <2>2. \A n \in Nat, h \in Nat \ {0} : (n + 1) % h \in Nat
    OBVIOUS
  <2>3. QED  BY <2>1, <2>2 DEF Gen!Count, Gen!NextPoll
<1>3. /\ g \in GenRecord
      /\ g.pc = (IF i = "none" THEN "sleep" ELSE "yield")
      /\ g.item = i /\ g.lastLive = gen[s].lastLive
  <2>1. /\ (IF i = "none" THEN gen[s].quiet + 1 ELSE 0) \in Nat
        /\ (IF i = "none" THEN "sleep" ELSE "yield") \in {"yield", "sleep"}
        /\ (gen[s].hadError \/ i = "error") \in BOOLEAN
    BY <1>1 DEF GenRecord
  <2>2. QED  BY <1>1, <1>2, <2>1 DEF GenRecord, Gen!AfterPoll
<1>4. gen' = [gen EXCEPT ![s] = g] /\ feed' = [feed EXCEPT ![s] = feed[s]]
  BY DEF Gen!Polled, StreamsInv
<1> HIDE DEF g
<1>5. Telling(g) <=> i \in Gen!Status
  BY <1>3 DEF Telling, Gen!Status
<1>6. Knows(g, feed[s], got'[s])
  BY <1>1, <1>3, <1>5 DEF Knows
<1>7. QED  BY <1>1, <1>3, <1>4, <1>6, OneStreamMoves

\* A call that returns a status.
LEMMA ServedKnows ==
    ASSUME StreamsInv, AnswersTyped, NEW s \in Streams, Served(s),
           Gen!PollStatus(s, Status(got'[s]))
    PROVE  StreamsInv'
<1> DEFINE status == Status(got'[s])
           i == Gen!Outcome(s, status)
<1>1. \A d \in Streams \ {s} : got'[d] = got[d]
  BY AnswerOfItsOwn DEF Audience
<1>2. status \in Gen!Status
  BY StatusIsStatus
<1>3. Gen!Polled(s, i)
  BY DEF Gen!PollStatus
<1> HIDE DEF status
<1>4. /\ i \in Gen!Item \cup {"none"}
      /\ i \in Gen!Status => i = status
      /\ i \notin Gen!Status => gen[s].lastLive = status
  BY <1>2 DEF Gen!Outcome, Gen!Item, Gen!Status
<1> HIDE DEF i
<1>5. QED  BY <1>1, <1>3, <1>4, PolledKnows DEF status

\* A call that fails.
LEMMA FailedKnows ==
    ASSUME StreamsInv, AnswersTyped, NEW s \in Streams, got' = got,
           NEW i \in {"error", "fatal"}, Gen!Polled(s, i)
    PROVE  StreamsInv'
<1>1. Knows(gen[s], feed[s], got[s]) /\ gen[s].pc = "poll"
  BY DEF StreamsInv, Gen!Polled
<1>2. i \in Gen!Item /\ i \notin Gen!Status
  BY DEF Gen!Item, Gen!Status
<1>3. gen[s].lastLive \in {"unknown", Status(got'[s])}
  BY <1>1 DEF Knows, Telling
<1>4. QED  BY <1>2, <1>3, PolledKnows

\* A generator that goes from one wait to another.
LEMMA MovesKnows ==
    ASSUME StreamsInv, AnswersTyped, NEW s \in Streams, got' = got,
           NEW from \in {"none", "sleep"}, Gen!Moves(s, from, "poll")
    PROVE  StreamsInv'
<1> DEFINE g == [gen[s] EXCEPT !.pc = "poll"]
<1>1. gen[s] \in GenRecord /\ feed[s] \in FeedRecord /\ Knows(gen[s], feed[s], got[s])
  BY DEF StreamsInv
<1>2. g \in GenRecord /\ Knows(g, feed[s], got'[s])
  BY <1>1 DEF GenRecord, Knows, Telling, Gen!Moves
<1>3. gen' = [gen EXCEPT ![s] = g] /\ feed' = [feed EXCEPT ![s] = feed[s]]
  BY DEF Gen!Moves, StreamsInv
<1>4. QED  BY <1>1, <1>2, <1>3, OneStreamMoves

\* The client has been sent the item.
LEMMA TakenKnows ==
    ASSUME StreamsInv, AnswersTyped, NEW s \in Streams, got' = got, Gen!Taken(s)
    PROVE  StreamsInv'
<1> DEFINE i == gen[s].item
           g == [Gen!Learnt(gen[s]) EXCEPT !.pc = "sleep", !.item = "none"]
           f == Gen!Feed!Sent(feed[s], i)
<1>1. gen[s] \in GenRecord /\ feed[s] \in FeedRecord /\ Knows(gen[s], feed[s], got[s])
  BY DEF StreamsInv
<1>2. gen[s].pc = "yield"
  BY DEF Gen!Taken
<1>3. g \in GenRecord /\ f \in FeedRecord /\ Knows(g, f, got'[s])
  <2>1. CASE i \in Gen!Status
    BY <1>1, <1>2, <2>1 DEF GenRecord, FeedRecord, Knows, Telling, Gen!Learnt,
                            Gen!Feed!Sent
  <2>2. CASE i \notin Gen!Status
    BY <1>1, <1>2, <2>2 DEF GenRecord, FeedRecord, Knows, Telling, Gen!Learnt,
                            Gen!Feed!Sent
  <2>3. QED  BY <2>1, <2>2
<1>4. gen' = [gen EXCEPT ![s] = g] /\ feed' = [feed EXCEPT ![s] = f]
  BY DEF Gen!Taken, StreamsInv
<1> HIDE DEF g, f
<1>5. QED  BY <1>3, <1>4, OneStreamMoves

LEMMA FreshKnows ==
    /\ Gen!NoGenerator \in GenRecord
    /\ Gen!Feed!Nothing \in FeedRecord
    /\ \A v : Knows(Gen!NoGenerator, Gen!Feed!Nothing, v)
BY DEF Gen!NoGenerator, GenRecord, Gen!Feed!Nothing, FeedRecord, Knows, Telling

\* The generator is over.
LEMMA EndKnows ==
    ASSUME StreamsInv, AnswersTyped, NEW s \in Streams, got' = got, Gen!GenEnd(s)
    PROVE  StreamsInv'
BY FreshKnows, OneStreamMoves DEF Gen!GenEnd, Gen!Feed!Connect

\* Any step of a stream.
LEMMA StreamStepKnows ==
    ASSUME StreamsInv, AnswersTyped, NEW s \in Streams,
           Connect(s) \/ StreamStep(s) \/ Disconnect(s)
    PROVE  StreamsInv'
<1>1. CASE Connect(s)
  <2>1. got' = got /\ Gen!Moves(s, "none", "poll")
    BY <1>1 DEF Connect, cacheVars, Gen!GenBegin
  <2>2. QED  BY <2>1, MovesKnows
<1>2. CASE Disconnect(s)
  <2>1. got' = got /\ Gen!GenEnd(s)
    BY <1>2, NoAnswer DEF Disconnect
  <2>2. QED  BY <2>1, EndKnows
<1>3. CASE StreamStep(s)
  <2>1. CASE Waits(s) /\ UNCHANGED genVars
    <3>1. got' = got
      BY <2>1, NoAnswer
    <3>2. QED  BY <2>1, <3>1 DEF genVars, StreamsInv, Knows, Telling
  <2>2. CASE Served(s) /\ Gen!PollStatus(s, Status(got'[s]))
    BY <2>2, ServedKnows
  <2>3. CASE Cache!Fail(s) /\ (Gen!PollError(s) \/ Gen!PollNotFound(s))
    <3>1. got' = got
      BY <2>3, NoAnswer
    <3>2. QED  BY <2>3, <3>1, FailedKnows DEF Gen!PollError, Gen!PollNotFound
  <2>4. CASE (Gen!Taken(s) \/ Gen!Wake(s) \/ Told(s)) /\ UNCHANGED cacheVars
    <3>1. got' = got
      BY <2>4 DEF cacheVars
    <3>2. QED
      BY <2>4, <3>1, TakenKnows, MovesKnows, EndKnows DEF Gen!Wake, Told
  <2>5. QED  BY <1>3, <2>1, <2>2, <2>3, <2>4 DEF StreamStep, StreamPolls
<1>4. QED  BY <1>1, <1>2, <1>3

\* A step of a stream answers no webhook, a step of a webhook no stream.
LEMMA ApartInStream ==
    ASSUME AnswersTyped, NEW s \in Streams, Connect(s) \/ StreamStep(s) \/ Disconnect(s)
    PROVE  \A w \in Ids : got'[w] = got[w]
<1>1. Served(s) \/ Waits(s) \/ Cache!Fail(s) \/ Abandon(s) \/ UNCHANGED cacheVars
  BY DEF Connect, StreamStep, StreamPolls, Disconnect
<1>2. QED
  BY <1>1, AnswerOfItsOwn, NoAnswer, CallersDistinct DEF Audience

LEMMA ApartInHook ==
    ASSUME AnswersTyped, NEW w \in Ids, Register(w) \/ HookStep(w) \/ Unregister(w)
    PROVE  \A d \in Audience \ {w} : got'[d] = got[d]
<1>1. Served(w) \/ Waits(w) \/ Cache!Fail(w) \/ Abandon(w) \/ UNCHANGED cacheVars
  BY DEF Register, HookStep, HookPolls, Unregister
<1>2. QED
  BY <1>1, AnswerOfItsOwn, NoAnswer DEF Audience

\* What a webhook's step does to its last_live: news, nothing or the end.
LEMMA HookStepKnows ==
    ASSUME HooksInv, AnswersTyped, NEW w \in Ids,
           Register(w) \/ HookStep(w) \/ Unregister(w)
    PROVE  HooksInv'
<1>0. /\ lastLive \in [Ids -> BOOLEAN \cup {Unknown}]
      /\ \A v \in Ids : lastLive[v] \in {Unknown, OnAir(got[v])}
      /\ \A v \in Ids \ {w} : got'[v] = got[v]
  BY ApartInHook DEF HooksInv, Audience
<1>1. CASE Served(w) /\ Hears(w, OnAir(got'[w]))
  <2>1. lastLive' = [lastLive EXCEPT ![w] = OnAir(got'[w])]
    BY <1>0, <1>1 DEF Hears, Loop!PollChanged, Loop!PollNoNews
  <2>2. QED  BY <1>0, <2>1, StatusIsStatus DEF HooksInv
<1>2. ASSUME got' = got,
             \A v \in Ids : lastLive'[v] \in {lastLive[v], Unknown},
             lastLive' \in [Ids -> BOOLEAN \cup {Unknown}]
      PROVE  HooksInv'
  BY <1>0, <1>2 DEF HooksInv
<1>3. CASE Cache!Fail(w) /\ (Loop!PollNoNews(w) \/ Loop!PollNotFound(w))
  <2>1. got' = got /\ lastLive' = lastLive
    BY <1>3, NoAnswer DEF Loop!PollNoNews, Loop!PollNotFound
  <2>2. QED  BY <1>0, <1>2, <2>1
<1>4. CASE Waits(w) /\ UNCHANGED loopVars
  <2>1. got' = got /\ lastLive' = lastLive
    BY <1>4, NoAnswer DEF loopVars
  <2>2. QED  BY <1>0, <1>2, <2>1
<1>5. CASE Dispatches(w) /\ UNCHANGED cacheVars
  <2>1. got' = got
    BY <1>5 DEF cacheVars
  <2>2. lastLive' = lastLive
        \/ lastLive' = [id \in Ids |-> IF id \in {w} THEN Unknown ELSE lastLive[id]]
    BY <1>5 DEF Dispatches, Loop!LoopStep, Loop!PollingStep, Loop!PollNoNews,
                Loop!News, Loop!PollChanged, Loop!Wake, Loop!PostAccepted,
                Loop!PostRejected, Loop!BackoffOver, Loop!PollNotFound,
                Loop!EventFailed, Loop!Return, Loop!ClearLocals, Loop!Goto
  <2>3. QED  BY <1>0, <1>2, <2>1, <2>2
<1>6. CASE Register(w)
  <2>1. got' = got /\ lastLive' = lastLive
    BY <1>6 DEF Register, Loop!Begin, cacheVars
  <2>2. QED  BY <1>0, <1>2, <2>1
<1>7. CASE Unregister(w)
  <2>1. got' = got
    BY <1>7, NoAnswer DEF Unregister
  <2>2. lastLive' = [id \in Ids |-> IF id \in {w} THEN Unknown ELSE lastLive[id]]
    BY <1>7 DEF Unregister, Loop!Cancel, Loop!ClearLocals
  <2>3. QED  BY <1>0, <1>2, <2>1, <2>2
<1>8. QED
  BY <1>1, <1>3, <1>4, <1>5, <1>6, <1>7 DEF HookStep, HookPolls

AudienceInv == AnswersTyped /\ StreamsInv /\ HooksInv

LEMMA AudienceStep ==
    AnswersTyped /\ StreamsInv /\ HooksInv /\ [Next]_vars => (StreamsInv /\ HooksInv)'
<1> SUFFICES ASSUME AnswersTyped, StreamsInv, HooksInv, [Next]_vars
             PROVE  StreamsInv' /\ HooksInv'
  OBVIOUS
<1>1. ASSUME UNCHANGED <<gen, feed>>, \A s \in Streams : got'[s] = got[s]
      PROVE  StreamsInv'
  BY <1>1 DEF StreamsInv, Knows, Telling
<1>2. ASSUME UNCHANGED lastLive, \A w \in Ids : got'[w] = got[w]
      PROVE  HooksInv'
  BY <1>2 DEF HooksInv
<1>3. CASE World \/ UNCHANGED vars
  <2>1. UNCHANGED <<gen, feed, lastLive, got>>
    BY <1>3 DEF World, vars, genVars, loopVars, cacheVars, Cache!Change, Cache!Tick
  <2>2. QED  BY <1>1, <1>2, <2>1
<1>4. ASSUME NEW s \in Streams, Connect(s) \/ StreamStep(s) \/ Disconnect(s)
      PROVE  StreamsInv' /\ HooksInv'
  <2>1. UNCHANGED lastLive
    BY <1>4 DEF Connect, StreamStep, Disconnect, loopVars
  <2>2. QED  BY <1>2, <1>4, <2>1, ApartInStream, StreamStepKnows
<1>5. ASSUME NEW w \in Ids, Register(w) \/ HookStep(w) \/ Unregister(w)
      PROVE  StreamsInv' /\ HooksInv'
  <2>1. UNCHANGED <<gen, feed>>
    BY <1>5 DEF Register, HookStep, Unregister, genVars
  <2>2. \A s \in Streams : got'[s] = got[s]
    BY <1>5, ApartInHook, CallersDistinct DEF Audience
  <2>3. QED  BY <1>1, <1>5, <2>1, <2>2, HookStepKnows
<1>6. QED  BY <1>3, <1>4, <1>5 DEF Next

LEMMA AudienceInvariant == Spec => []AudienceInv
<1>1. Init => StreamsInv /\ HooksInv
  BY FreshKnows DEF Init, Gen!GenInit, Gen!Feed!FeedInit, Loop!LoopInit,
                    StreamsInv, HooksInv
<1>2. QED
  BY <1>1, AudienceStep, AnswersHaveTypes, PTL DEF Spec, AudienceInv

\* Nobody is told anything but the status of the version that its own last
\* call returned: what a client has been shown is that status, or it is on its
\* way; what a poll loop compares with and posts is that status.
ToldWhatWasAnswered ==
    /\ \A s \in Streams :
        \/ feed[s].shown \in {"unknown", Status(got[s])}
        \/ gen[s].pc = "yield" /\ gen[s].item = Status(got[s])
    /\ \A w \in Ids : lastLive[w] \in {Unknown, OnAir(got[w])}

\* Errors, cancelled calls and the steps of the others never put anything else
\* into what a stream or a webhook tells.
THEOREM NothingInvented == Spec => []ToldWhatWasAnswered
<1>1. AudienceInv => ToldWhatWasAnswered
  BY DEF AudienceInv, StreamsInv, HooksInv, Knows, Telling, ToldWhatWasAnswered
<1>2. QED  BY <1>1, AudienceInvariant, PTL

-----------------------------------------------------------------------------
(* How old the news is *)

\* A stream yields a status; a poll loop posts one.
StreamNews(s) == gen[s].pc = "poll" /\ gen'[s].pc = "yield" /\ gen'[s].item \in Gen!Status
HookNews(w)   == task[w] = "poll" /\ task'[w] = "post"

\* v is no older than anything anybody has been told, and misses no change
\* older than POLL_INTERVAL and one call.
UpToDate(v) ==
    /\ \A d \in Audience : got[d] <= v
    /\ ~Cache!Misses(v, SseTtl + Timeout)

\* News is the status of a version that is up to date, whoever is told.
NewsIsFresh ==
    [][/\ \A s \in Streams : StreamNews(s) =>
            gen'[s].item = Status(got'[s]) /\ UpToDate(got'[s])
       /\ \A w \in Ids : HookNews(w) =>
            lastLive'[w] = OnAir(got'[w]) /\ UpToDate(got'[w])]_vars

\* The facts of the cache that news rests on.
CacheFact == CacheFacts!TypeOK /\ CacheFacts!AgeInv /\ CacheFacts!CacheInv
             /\ CacheFacts!FeedInv

LEMMA CacheFactsHold == Spec => []CacheFact
<1>1. CacheFacts!Spec => [](CacheFacts!TypeOK /\ CacheFacts!AgeInv)
  BY CacheConstants, CacheFacts!AgeInvariant
<1>2. CacheFacts!Spec => [](CacheFacts!CacheInv /\ CacheFacts!FeedInv)
  BY CacheConstants, CacheFacts!ReadersBehind
<1>3. QED  BY <1>1, <1>2, ServiceUsesProvedCache, PTL DEF CacheFact

LEMMA ServedUpToDate ==
    ASSUME CacheFact, NEW c \in Audience, Served(c)
    PROVE  UpToDate(got'[c])
<1>1. CacheFacts!SseHit(c) \/ CacheFacts!SseSecondHit(c) \/ CacheFacts!SseAnswer(c)
  BY SameHits DEF Served
<1>2. ~CacheFacts!Misses(got'[c], SseTtl + Timeout)
  BY <1>1, CacheConstants, CacheFacts!AnswerAge DEF CacheFact, Audience
<1>3. \A d \in Audience : got[d] <= got'[c]
  BY <1>1, CacheConstants, CacheFacts!AnswerOrder DEF CacheFact, Audience
<1>4. QED  BY <1>2, <1>3 DEF UpToDate, Cache!Misses, CacheFacts!Misses

\* A step of one stream leaves the others alone.
LEMMA OneGenerator ==
    ASSUME StreamsInv, NEW s \in Streams, Connect(s) \/ StreamStep(s) \/ Disconnect(s)
    PROVE  \A d \in Streams \ {s} : gen'[d] = gen[d]
BY DEF StreamsInv, Connect, StreamStep, StreamPolls, Disconnect, Told, Gen!GenBegin,
       Gen!Wake, Gen!Moves, Gen!Taken, Gen!GenEnd, Gen!PollStatus, Gen!PollError,
       Gen!PollNotFound, Gen!Polled, genVars

\* Only a call that returns a status makes news of it.
LEMMA StreamNewsIsServed ==
    ASSUME StreamsInv, [Next]_vars, NEW s \in Streams, StreamNews(s)
    PROVE  Served(s) /\ gen'[s].item = Status(got'[s])
<1>0. gen[s] \in GenRecord /\ gen[s].pc = "poll" /\ gen'[s] # gen[s]
  BY DEF StreamsInv, StreamNews
<1>1. Connect(s) \/ StreamStep(s) \/ Disconnect(s)
  <2>1. ASSUME \/ World \/ UNCHANGED vars
               \/ \E w \in Ids : Register(w) \/ HookStep(w) \/ Unregister(w)
        PROVE  UNCHANGED gen
    BY <2>1 DEF World, vars, Register, HookStep, Unregister, genVars
  <2>2. ASSUME NEW d \in Streams, Connect(d) \/ StreamStep(d) \/ Disconnect(d), d # s
        PROVE  gen'[s] = gen[s]
    BY <2>2, OneGenerator
  <2>3. QED  BY <1>0, <2>1, <2>2 DEF Next
<1>2. ASSUME NEW i, Gen!Polled(s, i)  PROVE gen'[s].item = i
  BY <1>0, <1>2 DEF Gen!Polled, Gen!AfterPoll, StreamsInv, GenRecord
<1>3. CASE Served(s) /\ Gen!PollStatus(s, Status(got'[s]))
  <2> DEFINE i == Gen!Outcome(s, Status(got'[s]))
  <2>1. gen'[s].item = i
    BY <1>2, <1>3 DEF Gen!PollStatus
  <2>2. i \in Gen!Status => i = Status(got'[s])
    BY DEF Gen!Outcome, Gen!Status
  <2> HIDE DEF i
  <2>3. QED  BY <1>3, <2>1, <2>2 DEF StreamNews
<1>4. ~(Gen!PollError(s) \/ Gen!PollNotFound(s))
  BY <1>2 DEF Gen!PollError, Gen!PollNotFound, StreamNews, Gen!Status
<1>5. ~(Connect(s) \/ Disconnect(s) \/ Told(s) \/ Gen!Taken(s) \/ Gen!Wake(s)
        \/ UNCHANGED genVars)
  <2>1. ~(Gen!GenBegin(s) \/ Gen!Wake(s) \/ Gen!Taken(s))
    BY <1>0 DEF Gen!GenBegin, Gen!Wake, Gen!Moves, Gen!Taken
  <2>2. ~Gen!GenEnd(s)
    BY <1>0 DEF Gen!GenEnd, Gen!NoGenerator, StreamNews, StreamsInv
  <2>3. QED  BY <1>0, <2>1, <2>2 DEF Connect, Disconnect, Told, genVars
<1>6. QED  BY <1>1, <1>3, <1>4, <1>5 DEF StreamStep, StreamPolls

TasksTyped == task \in [Ids -> Loop!PC]

LEMMA OneTask ==
    ASSUME TasksTyped, NEW w \in Ids, Register(w) \/ HookStep(w) \/ Unregister(w)
    PROVE  \A d \in Ids \ {w} : task'[d] = task[d]
BY DEF TasksTyped, Register, HookStep, HookPolls, Unregister, Dispatches, Hears,
       Loop!Begin, Loop!Cancel, Loop!LoopStep, Loop!PollingStep, Loop!PollNoNews,
       Loop!News, Loop!PollChanged, Loop!Wake, Loop!PostAccepted,
       Loop!PostRejected, Loop!BackoffOver, Loop!PollNotFound,
       Loop!EventFailed, Loop!Return, Loop!Goto, loopVars

LEMMA HookNewsIsServed ==
    ASSUME TasksTyped, HooksInv, [Next]_vars, NEW w \in Ids, HookNews(w)
    PROVE  Served(w) /\ lastLive'[w] = OnAir(got'[w])
<1>0. task[w] = "poll" /\ task'[w] = "post"
  BY DEF HookNews
<1>1. Register(w) \/ HookStep(w) \/ Unregister(w)
  <2>1. ASSUME \/ World \/ UNCHANGED vars
               \/ \E s \in Streams : Connect(s) \/ StreamStep(s) \/ Disconnect(s)
        PROVE  UNCHANGED task
    BY <2>1 DEF World, vars, Connect, StreamStep, Disconnect, loopVars
  <2>2. ASSUME NEW d \in Ids, Register(d) \/ HookStep(d) \/ Unregister(d), d # w
        PROVE  task'[w] = task[w]
    BY <2>2, OneTask
  <2>3. QED  BY <1>0, <2>1, <2>2 DEF Next
<1>2. CASE Served(w) /\ Hears(w, OnAir(got'[w]))
  BY <1>0, <1>2 DEF Hears, Loop!PollChanged, Loop!PollNoNews, Loop!Goto, TasksTyped,
                    HooksInv
<1>3. ~(Loop!PollNoNews(w) \/ Loop!PollNotFound(w) \/ UNCHANGED loopVars
        \/ Register(w) \/ Unregister(w))
  BY <1>0 DEF Loop!PollNoNews, Loop!PollNotFound, Loop!Goto, TasksTyped, loopVars,
              Register, Unregister, Loop!Begin, Loop!Cancel
<1>4. ~Dispatches(w)
  BY <1>0 DEF Dispatches
<1>5. QED  BY <1>1, <1>2, <1>3, <1>4 DEF HookStep, HookPolls

\* The tasks' program counters keep their type.
LEMMA TasksKeepTypes == Spec => []TasksTyped
<1>1. Loop!LoopInit => TasksTyped
  BY DEF Loop!LoopInit, TasksTyped, Loop!PC
<1>2. TasksTyped /\ [Loop!LoopNext]_(Loop!loopVars) => TasksTyped'
  BY DEF TasksTyped, Loop!PC, Loop!Waiting, Loop!loopVars, Loop!LoopNext, Loop!Begin,
         Loop!Cancel, Loop!Die, Loop!LoopStep, Loop!PollingStep, Loop!PollNoNews,
         Loop!News, Loop!PollChanged, Loop!Wake, Loop!PostAccepted,
         Loop!PostRejected, Loop!BackoffOver, Loop!PollNotFound,
         Loop!EventFailed, Loop!Return, Loop!Goto
<1>3. QED  BY <1>1, <1>2, ServiceRunsTasks, PTL DEF Loop!LoopSpec

\* A client or a receiver is never sent as news what is older than what anybody
\* has heard before, or older than the cache and a call allow: queues at the
\* lock, stale entries, cancelled callers and cached answers included.
THEOREM FreshNews == Spec => NewsIsFresh
<1>1. CacheFact /\ AudienceInv /\ TasksTyped /\ [Next]_vars =>
        [/\ \A s \in Streams : StreamNews(s) =>
                gen'[s].item = Status(got'[s]) /\ UpToDate(got'[s])
         /\ \A w \in Ids : HookNews(w) =>
                lastLive'[w] = OnAir(got'[w]) /\ UpToDate(got'[w])]_vars
  BY StreamNewsIsServed, HookNewsIsServed, ServedUpToDate DEF AudienceInv, Audience
<1>2. QED
  BY <1>1, CacheFactsHold, AudienceInvariant, TasksKeepTypes, PTL
     DEF Spec, NewsIsFresh

-----------------------------------------------------------------------------
(* What receivers acknowledge *)

\* An event that is being posted has a status.
PostsHaveStatus ==
    /\ TasksTyped
    /\ lastLive \in [Ids -> BOOLEAN \cup {Unknown}]
    /\ acked \in [Ids -> BOOLEAN \cup {Unknown}]
    /\ \A w \in Ids : task[w] \in {"post", "backoff"} => lastLive[w] # Unknown

LEMMA PostsKeepStatus ==
    PostsHaveStatus /\ [Loop!LoopNext]_(Loop!loopVars) => PostsHaveStatus'
<1> SUFFICES ASSUME PostsHaveStatus, [Loop!LoopNext]_(Loop!loopVars)
             PROVE  PostsHaveStatus'
  OBVIOUS
<1>0. Unknown \notin BOOLEAN
  BY PartsAssumption DEF Loop!LoopAssumption
<1> USE DEF PostsHaveStatus, TasksTyped, Loop!PC, Loop!Waiting
<1>1. ASSUME NEW S \in SUBSET Ids, Loop!Begin(S)  PROVE PostsHaveStatus'
  BY <1>1 DEF Loop!Begin
<1>2. ASSUME NEW w \in Ids, Loop!Cancel(w) \/ Loop!Return(w)  PROVE PostsHaveStatus'
  BY <1>2 DEF Loop!Cancel, Loop!Return, Loop!ClearLocals, Loop!Goto
<1>3. ASSUME NEW w \in Ids, Loop!News(w)  PROVE PostsHaveStatus'
  BY <1>0, <1>3 DEF Loop!News, Loop!PollChanged, Loop!Goto
<1>4. ASSUME NEW w \in Ids,
             \/ Loop!PollNoNews(w) \/ Loop!Wake(w) \/ Loop!PollNotFound(w)
             \/ Loop!PostAccepted(w) \/ Loop!PostRejected(w) \/ Loop!BackoffOver(w)
             \/ Loop!EventFailed(w)
      PROVE  PostsHaveStatus'
  BY <1>4 DEF Loop!PollNoNews, Loop!Wake, Loop!PollNotFound, Loop!PostAccepted,
              Loop!PostRejected, Loop!BackoffOver, Loop!EventFailed, Loop!Goto
<1>5. CASE Loop!Die
  BY <1>5 DEF Loop!Die, Loop!ClearLocals
<1>6. CASE UNCHANGED Loop!loopVars
  BY <1>6 DEF Loop!loopVars
<1>7. QED
  BY <1>1, <1>2, <1>3, <1>4, <1>5, <1>6
     DEF Loop!LoopNext, Loop!LoopStep, Loop!PollingStep

\* What a receiver newly acknowledges is the status of the last answer to its
\* poll loop: no retry and no backoff brings up an older one.
AcknowledgedIsLast ==
    [][\A w \in Ids : acked'[w] # acked[w] => acked'[w] = OnAir(got[w])]_vars

THEOREM ReceiversFollow == Spec => AcknowledgedIsLast
<1>1. Loop!LoopInit => PostsHaveStatus
  BY DEF Loop!LoopInit, PostsHaveStatus, TasksTyped, Loop!PC
<1>2. PostsHaveStatus /\ AudienceInv /\ [Loop!LoopNext]_(Loop!loopVars) =>
        \A w \in Ids : acked'[w] # acked[w] => acked'[w] = OnAir(got[w])
  <2> SUFFICES ASSUME PostsHaveStatus, AudienceInv, [Loop!LoopNext]_(Loop!loopVars),
                      NEW w \in Ids, acked'[w] # acked[w]
               PROVE  acked'[w] = OnAir(got[w])
    OBVIOUS
  <2>1. Loop!PostAccepted(w)
    <3>1. ASSUME NEW v \in Ids, Loop!PostAccepted(v)  PROVE v = w
      BY <3>1 DEF Loop!PostAccepted, PostsHaveStatus
    <3>2. \E v \in Ids : Loop!PostAccepted(v)
      BY DEF Loop!LoopNext, Loop!Begin, Loop!Cancel, Loop!Die, Loop!LoopStep,
             Loop!PollingStep, Loop!PollNoNews, Loop!News, Loop!PollChanged,
             Loop!Wake, Loop!PostRejected, Loop!BackoffOver, Loop!PollNotFound,
             Loop!EventFailed, Loop!Return, Loop!loopVars
    <3>3. QED  BY <3>1, <3>2
  <2>2. acked'[w] = lastLive[w] /\ lastLive[w] # Unknown
    BY <2>1 DEF Loop!PostAccepted, Loop!Goto, PostsHaveStatus
  <2>3. QED  BY <2>2 DEF AudienceInv, HooksInv
<1>3. [Next]_vars => [Loop!LoopNext]_(Loop!loopVars)
  BY TaskSteps
<1>4. PostsHaveStatus /\ AudienceInv /\ [Next]_vars =>
        [\A w \in Ids : acked'[w] # acked[w] => acked'[w] = OnAir(got[w])]_vars
  BY <1>2, <1>3
<1>5. QED
  BY <1>1, <1>4, PostsKeepStatus, ServiceRunsTasks, AudienceInvariant, PTL
     DEF Spec, Loop!LoopSpec, AcknowledgedIsLast
=============================================================================
