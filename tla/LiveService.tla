------------------------------ MODULE LiveService ------------------------------
(***************************************************************************)
(* From the streamer to the audience: the generators of SseGenerator and   *)
(* the poll loops of WebhookLoop as callers of get_live_status_sse         *)
(* (StatusCache), all for one username.  A poll is a call: it waits at the *)
(* lock or for TikTok, and ends with a status, from a cache or from        *)
(* TikTok, or with an error.  A caller that goes takes its call along.     *)
(***************************************************************************)
EXTENDS Naturals, SseStreams, WebhookIds

CONSTANTS NoOne, Empty, SseTtl, RestTtl, Timeout, MaxVersion,  \* StatusCache
          HeartbeatEvery,                                      \* SseGenerator
          MaxAttempts, MaxFailures, HistorySize, Unknown, NoHistory

ASSUME CallersDistinct == Streams \cap Ids = {}

VARIABLES
    version, changeAge, sse, rest, holder, waiters, call, since, left, got, sinceFetch,
    gen, feed,
    task, lastLive, failures, attempt, history, acked

Cache == INSTANCE StatusCache WITH
            SseCallers <- Streams \cup Ids, RestCallers <- {}, pc <- call
Gen   == INSTANCE SseGenerator
Loop  == INSTANCE WebhookLoop WITH pc <- task

\* What the parts assume of their constants.
ASSUME PartsAssumption ==
    /\ Cache!CacheAssumption
    /\ Gen!GeneratorAssumption
    /\ Loop!LoopAssumption

cacheVars == <<version, changeAge, sse, rest, holder, waiters, call, since, left,
               got, sinceFetch>>
genVars   == <<gen, feed>>
loopVars  == <<task, lastLive, failures, attempt, history, acked>>
vars      == <<cacheVars, genVars, loopVars>>

Init == Cache!Init /\ Gen!GenInit /\ Loop!LoopInit

-----------------------------------------------------------------------------

\* The streamer is offline at first, and every version is the opposite.
OnAir(v)  == v % 2 = 1
Status(v) == IF OnAir(v) THEN "live" ELSE "offline"

\* The call of c goes on, or returns a status.
Waits(c)  == Cache!SseMiss(c) \/ Cache!SseFetch(c) \/ Cache!RoomFound(c)
Served(c) == Cache!SseHit(c) \/ Cache!SseSecondHit(c) \/ Cache!SseAnswer(c)

\* The task of c is cancelled, in its call or elsewhere.
Abandon(c) == IF call[c] = "idle" THEN UNCHANGED cacheVars ELSE Cache!Cancel(c)

StreamPolls(s) ==
    /\ gen[s].pc = "poll"
    /\ \/ Waits(s) /\ UNCHANGED genVars
       \/ Served(s) /\ Gen!PollStatus(s, Status(got'[s]))
       \/ Cache!Fail(s) /\ (Gen!PollError(s) \/ Gen!PollNotFound(s))

\* The client has read that the user does not exist; the generator returns.
Told(s) == gen[s].item = "fatal" /\ Gen!GenEnd(s)

StreamStep(s) ==
    /\ \/ StreamPolls(s)
       \/ (Gen!Taken(s) \/ Gen!Wake(s) \/ Told(s)) /\ UNCHANGED cacheVars
    /\ UNCHANGED loopVars

\* Slip: only going live is news.
OnlyLive(w, live) ==
    IF live /\ live # lastLive[w] THEN Loop!PollChanged(w, live) ELSE Loop!PollNoNews(w)

\* What the loop makes of a status.
Hears(w, live) ==
    IF live # lastLive[w] THEN Loop!PollChanged(w, live) ELSE Loop!PollNoNews(w)

HookPolls(w) ==
    /\ task[w] = "poll"
    /\ \/ Waits(w) /\ UNCHANGED loopVars
       \/ Served(w) /\ Hears(w, OnAir(got'[w]))
       \/ Cache!Fail(w) /\ (Loop!PollNoNews(w) \/ Loop!PollNotFound(w))

\* The dispatch of an event, and the sleep.
Dispatches(w) == task[w] # "poll" /\ Loop!LoopStep(w)

HookStep(w) ==
    /\ HookPolls(w) \/ (Dispatches(w) /\ UNCHANGED cacheVars)
    /\ UNCHANGED genVars

\* Clients come and go, webhooks are registered and unregistered.
Connect(s)    == Gen!GenBegin(s) /\ UNCHANGED <<cacheVars, loopVars>>
Disconnect(s) == Gen!GenEnd(s) /\ Abandon(s) /\ UNCHANGED loopVars
Register(w)   == Loop!Begin({w}) /\ UNCHANGED <<cacheVars, genVars>>
Unregister(w) == Loop!Cancel(w) /\ Abandon(w) /\ UNCHANGED genVars

World == (Cache!Change \/ Cache!Tick) /\ UNCHANGED <<genVars, loopVars>>

Next ==
    \/ World
    \/ \E s \in Streams : Connect(s) \/ StreamStep(s) \/ Disconnect(s)
    \/ \E w \in Ids : Register(w) \/ HookStep(w) \/ Unregister(w)

\* Time passes, a step that is due is taken (the calls have timeouts, the
\* client reads, the receiver answers or not), and TikTok, asked again and
\* again, answers again and again.
Fairness ==
    /\ SF_vars(Cache!Tick /\ UNCHANGED <<genVars, loopVars>>)
    /\ \A s \in Streams : WF_vars(StreamStep(s))
                          /\ SF_vars(Cache!SseAnswer(s) /\ StreamStep(s))
    /\ \A w \in Ids : WF_vars(HookStep(w))
                      /\ SF_vars(Cache!SseAnswer(w) /\ HookStep(w))

Spec == Init /\ [][Next]_vars /\ Fairness

-----------------------------------------------------------------------------

\* A client that stays is in the end shown what the streamer does, through
\* whatever errors, cached answers, queues at the lock and cancelled callers.
StreamsCatchUp == \A s \in Streams :
    <>[]Gen!Running(s) => <>[](feed[s].shown = Status(version))

\* The receiver of a webhook that stays has in the end acknowledged what the
\* streamer does, or the very last event was lost.
ReceiversCatchUp == \A w \in Ids :
    <>[]Loop!Active(w) =>
        <>[](Loop!Idle(w) => \/ acked[w] = OnAir(version)
                             \/ Loop!EndsWithFailures(history[w], 1))
=============================================================================
