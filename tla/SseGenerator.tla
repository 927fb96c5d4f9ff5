----------------------------- MODULE SseGenerator -----------------------------
(***************************************************************************)
(* _sse_generator of api/main.py, the body of GET /api/stream/{username}:  *)
(* one asynchronous generator per stream, which polls, yields an item when *)
(* there is news, an error or a heartbeat due, and sleeps.  A yield hands  *)
(* the item to the client; only when it returns are last_live and          *)
(* had_error brought up to date.  The client may go at any suspension.     *)
(***************************************************************************)
EXTENDS Naturals, SseStreams

CONSTANT
    HeartbeatEvery  \* HEARTBEAT_EVERY: polls between two signs of life

ASSUME GeneratorAssumption == HeartbeatEvery \in Nat \ {0}

VARIABLES
    gen,    \* the generator of a stream: what it waits for, and its variables
    feed    \* history: what its client has been sent

genVars == <<gen, feed>>

Status == {"live", "offline"}
Item   == Status \cup {"heartbeat", "error", "fatal"}

Feed == INSTANCE ChangeFeed WITH Feeds <- Streams, Unknown <- "unknown"

\* polls is poll_count modulo HEARTBEAT_EVERY, all that is looked at; quiet
\* is history, the polls since the last item.
Generator == [pc : {"none", "poll", "yield", "sleep"}, item : Item \cup {"none"},
              lastLive : Status \cup {"unknown"}, hadError : BOOLEAN,
              polls : 0..(HeartbeatEvery - 1), quiet : Nat]

NoGenerator == [pc |-> "none", item |-> "none", lastLive |-> "unknown",
                hadError |-> FALSE, polls |-> 0, quiet |-> 0]

GenTypeOK ==
    /\ gen \in [Streams -> Generator]
    /\ feed \in [Streams -> [shown : Status \cup {"unknown"}, failed : BOOLEAN,
                             beat : BOOLEAN]]

GenInit == gen = [s \in Streams |-> NoGenerator] /\ Feed!FeedInit

-----------------------------------------------------------------------------

Running(s) == gen[s].pc # "none"

Moves(s, from, to) ==
    /\ gen[s].pc = from
    /\ gen' = [gen EXCEPT ![s].pc = to]
    /\ UNCHANGED feed

\* The body runs for the first time, for a new client; a sleep is over.
GenBegin(s) == Moves(s, "none", "poll")
Wake(s)     == Moves(s, "sleep", "poll")

NextPoll(s) == (gen[s].polls + 1) % HeartbeatEvery

\* What there is to say of a status: that it is news, or the first one after
\* an error; otherwise nothing, unless a heartbeat is due.
Outcome(s, status) ==
    IF status # gen[s].lastLive \/ gen[s].hadError THEN status
    ELSE IF NextPoll(s) = 0 THEN "heartbeat" ELSE "none"

\* Slip: poll_count counts what is sent.
CountSent(s, i) == IF i = "none" THEN gen[s].polls ELSE NextPoll(s)

Count(s, i) == IF i = "fatal" THEN gen[s].polls ELSE NextPoll(s)

\* A poll is over: item i is yielded or, if it is none, the generator sleeps.
AfterPoll(s, i) ==
    [gen[s] EXCEPT !.pc = IF i = "none" THEN "sleep" ELSE "yield",
                   !.item = i,
                   !.polls = Count(s, i),
                   !.hadError = gen[s].hadError \/ i = "error",
                   !.quiet = IF i = "none" THEN gen[s].quiet + 1 ELSE 0]

Polled(s, i) ==
    /\ gen[s].pc = "poll"
    /\ gen' = [gen EXCEPT ![s] = AfterPoll(s, i)]
    /\ UNCHANGED feed

PollStatus(s, status) == Polled(s, Outcome(s, status))

\* TikTokAPIError is told and the generator goes on; TikTokUserNotFound is
\* told last.
PollError(s)    == Polled(s, "error")
PollNotFound(s) == Polled(s, "fatal")

\* Slip: had_error outlives the status that follows the error.
LearntButError(g) == IF g.item \in Status THEN [g EXCEPT !.lastLive = g.item] ELSE g

Learnt(g) ==
    IF g.item \in Status THEN [g EXCEPT !.lastLive = g.item, !.hadError = FALSE] ELSE g

\* The yield returns: the client has been sent the item.
Taken(s) ==
    /\ gen[s].pc = "yield" /\ gen[s].item # "fatal"
    /\ gen' = [gen EXCEPT ![s] = [Learnt(@) EXCEPT !.pc = "sleep", !.item = "none"]]
    /\ feed' = [feed EXCEPT ![s] = Feed!Sent(@, gen[s].item)]

\* The generator is over and its variables go: the fatal item has been
\* taken, or the client has gone (CancelledError at an await, GeneratorExit
\* at a yield).
GenEnd(s) ==
    /\ Running(s)
    /\ gen' = [gen EXCEPT ![s] = NoGenerator]
    /\ Feed!Connect(s)

GenStep(s) ==
    \/ \E status \in Status : PollStatus(s, status)
    \/ PollError(s) \/ PollNotFound(s) \/ Taken(s) \/ Wake(s)

\* The process stops, with every generator.
GenRestart == gen' = [s \in Streams |-> NoGenerator] /\ Feed!Reset

GenNext == GenRestart \/ \E s \in Streams : GenBegin(s) \/ GenStep(s) \/ GenEnd(s)

-----------------------------------------------------------------------------

\* A stream is never silent for HEARTBEAT_EVERY polls running: a status, an
\* error or a heartbeat goes out before, in whatever order they come.
NeverSilent == \A s \in Streams : gen[s].quiet < HeartbeatEvery

\* A stream is a ChangeFeed: the client is shown changes, and the status once
\* more after an error.
ImplementsChangeFeed == Feed!FeedSpec
=============================================================================
