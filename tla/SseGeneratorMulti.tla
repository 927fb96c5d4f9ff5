-------------------------- MODULE SseGeneratorMulti --------------------------
(***************************************************************************)
(* _sse_generator_multi of api/main.py, the body of GET /api/stream: a     *)
(* task per entry of the list polls and puts what is to be sent on one     *)
(* queue, and the generator takes items from it for the client.            *)
(* last_live and had_error are kept by the entry as it was spelled: tasks  *)
(* of one spelling share them, tasks of two spellings of a username do     *)
(* not.  A status is sent under the username in lower case, an error under *)
(* the spelling.  The last task to end puts the sentinel _MULTI_DONE; a    *)
(* generator that ends first cancels the tasks.                            *)
(***************************************************************************)
EXTENDS Naturals, SequencesExt

CONSTANTS
    Entries,         \* the entries of the list, a task each
    Spellings,       \* usernames in upper and lower case
    usernames,       \* the list: how an entry spells its username
    Lower,           \* u.lower()
    HeartbeatEvery,  \* HEARTBEAT_EVERY
    Done,            \* _MULTI_DONE
    MaxQueue         \* bound: no task polls while this many items wait

ASSUME MultiAssumption ==
    /\ IsFiniteSet(Entries) /\ usernames \in [Entries -> Spellings]
    /\ Lower \in [Spellings -> Spellings]
    /\ \A u \in Spellings : Lower[Lower[u]] = Lower[u]
    /\ HeartbeatEvery \in Nat \ {0}
    /\ MaxQueue \in Nat \ {0}

VARIABLES
    gen,        \* the generator: "open", "done" (sentinel seen) or "left"
    task,       \* of an entry: what its task waits for, and its poll_count
                \* modulo HEARTBEAT_EVERY
    known,      \* last_live and had_error, by spelling
    remaining,  \* remaining[0]
    queue,
    feed        \* history: what the client has been sent, by username in
                \* lower case

vars == <<gen, task, known, remaining, queue, feed>>

Asked        == {usernames[e] : e \in Entries}
Usernames    == {Lower[u] : u \in Asked}
SpelledAs(n) == {u \in Asked : Lower[u] = n}

Status == {"live", "offline"}
News   == Status \cup {"error"}

\* What a task may say of a username, and a heartbeat, which names nobody.
Heartbeat == [name |-> "none", what |-> "heartbeat"]
Item      == [name : Spellings, what : News \cup {"fatal"}] \cup {Heartbeat}

ASSUME DoneAssumption == Done \notin Item

Feed == INSTANCE ChangeFeed WITH Feeds <- Usernames, Unknown <- "unknown"

Ended(e) == task[e].pc = "ended"
AllEnded == \A e \in Entries : Ended(e)

TypeOK ==
    /\ gen \in {"open", "done", "left"}
    /\ task \in [Entries -> [pc : {"created", "poll", "sleep", "ended"},
                             polls : 0..(HeartbeatEvery - 1)]]
    /\ known \in [Asked -> [lastLive : Status \cup {"unknown"}, hadError : BOOLEAN]]
    /\ remaining \in 0..Cardinality(Entries)
    /\ queue \in Seq(Item \cup {Done})
    /\ feed \in [Usernames -> [shown : Status \cup {"unknown"}, failed : BOOLEAN,
                           beat : BOOLEAN]]

Init ==
    /\ gen = "open"
    /\ task = [e \in Entries |-> [pc |-> "created", polls |-> 0]]
    /\ known = [u \in Asked |-> [lastLive |-> "unknown", hadError |-> FALSE]]
    /\ remaining = Cardinality(Entries)
    /\ queue = <<>>
    /\ Feed!FeedInit

-----------------------------------------------------------------------------

\* The tasks go on until the generator cancels them.
Wakes(e, from) ==
    /\ gen = "open" /\ task[e].pc = from
    /\ task' = [task EXCEPT ![e].pc = "poll"]
    /\ UNCHANGED <<gen, known, remaining, queue, feed>>

Start(e) == Wakes(e, "created")
Wake(e)  == Wakes(e, "sleep")

NextPoll(e) == (task[e].polls + 1) % HeartbeatEvery

\* Slip: last_live is one variable per task.
OutcomeOfItsOwn(e, status) ==
    IF status # known[usernames[e]].lastLive \/ task[e].polls = 0 THEN status ELSE "none"

\* What a poll finds to say of a status: that it is news, or the first one
\* after an error; otherwise nothing, unless a heartbeat is due.
Outcome(e, status) == LET k == known[usernames[e]] IN
    IF status # k.lastLive \/ k.hadError THEN status
    ELSE IF NextPoll(e) = 0 THEN "heartbeat" ELSE "none"

Learnt(k, what) ==
    IF what \in Status THEN [lastLive |-> what, hadError |-> FALSE]
    ELSE IF what = "error" THEN [k EXCEPT !.hadError = TRUE] ELSE k

\* LiveStatus carries cache_key, the errors carry uname.
Says(e, what) ==
    IF what = "heartbeat" THEN Heartbeat
    ELSE [name |-> IF what \in Status THEN Lower[usernames[e]] ELSE usernames[e],
          what |-> what]

\* Slip: had_error is noted, the client is not told.
PutButError(e, what) ==
    IF what \notin {"none", "error"} THEN Append(queue, Says(e, what)) ELSE queue

Put(e, what) == IF what # "none" THEN Append(queue, Says(e, what)) ELSE queue

Polls(e) == gen = "open" /\ task[e].pc = "poll" /\ Len(queue) < MaxQueue

Polled(e, what) ==
    /\ Polls(e)
    /\ queue' = Put(e, what)
    /\ known' = [known EXCEPT ![usernames[e]] = Learnt(@, what)]
    /\ task' = [task EXCEPT ![e] = [pc |-> "sleep", polls |-> NextPoll(e)]]
    /\ UNCHANGED <<gen, remaining, feed>>

\* A status, or TikTokAPIError.
Poll(e) == Polled(e, "error") \/ \E status \in Status : Polled(e, Outcome(e, status))

\* Slip: every task that ends puts the sentinel.
EachDone(q) == Append(q, Done)

LastDone(q) == IF remaining = 1 THEN Append(q, Done) ELSE q

\* The finally clause of a task that has left the queue as q.
Finally(e, q) ==
    /\ remaining' = remaining - 1
    /\ queue' = LastDone(q)
    /\ task' = [task EXCEPT ![e].pc = "ended"]
    /\ UNCHANGED <<gen, known, feed>>

\* TikTokUserNotFound: the task says so and ends.
PollNotFound(e) == Polls(e) /\ Finally(e, Put(e, "fatal"))

\* CancelledError, once the generator is over, at the await of a task that
\* has begun.
Cancelled(e) == gen # "open" /\ task[e].pc \in {"poll", "sleep"} /\ Finally(e, queue)

\* A task cancelled before its first step has no finally clause to run.
NeverStarted(e) ==
    /\ gen # "open" /\ task[e].pc = "created"
    /\ task' = [task EXCEPT ![e].pc = "ended"]
    /\ UNCHANGED <<gen, known, remaining, queue, feed>>

-----------------------------------------------------------------------------

\* Slip: the sentinel is passed over.
PassOver(i) == "open"

AfterItem(i) == IF i = Done THEN "done" ELSE "open"

\* A client that knows f of username n takes item i: it does not tell upper
\* from lower case.
Hears(f, i, n) ==
    IF i # Done /\ i.what \in News /\ Lower[i.name] = n THEN Feed!Sent(f, i.what) ELSE f

\* queue.get() returns: an item is yielded to the client, the sentinel ends
\* the stream.
Take ==
    /\ gen = "open" /\ queue # <<>>
    /\ gen' = AfterItem(Head(queue))
    /\ queue' = Tail(queue)
    /\ feed' = [n \in Usernames |-> Hears(feed[n], Head(queue), n)]
    /\ UNCHANGED <<task, known, remaining>>

\* The client goes, at queue.get() or at the yield, with what it was sent.
Leave ==
    /\ gen = "open"
    /\ gen' = "left"
    /\ Feed!Reset
    /\ UNCHANGED <<task, known, remaining, queue>>

TaskStep(e) ==
    Start(e) \/ Wake(e) \/ Poll(e) \/ PollNotFound(e) \/ Cancelled(e) \/ NeverStarted(e)

Next == Take \/ Leave \/ \E e \in Entries : TaskStep(e)

\* A cancelled task and a generator with something to take get their turn on
\* the event loop, and the send of an item ends, if only because the client
\* is found to be gone.  Polls may stay away.
Fairness ==
    /\ \A e \in Entries : WF_vars(Cancelled(e) \/ NeverStarted(e))
    /\ WF_vars(queue # <<>> /\ Head(queue) = Done /\ Take)
    /\ WF_vars(queue # <<>> /\ (Take \/ Leave))

Spec == Init /\ [][Next]_vars /\ Fairness

-----------------------------------------------------------------------------

\* What the client knows of username n when all that waits has been sent.
WillKnow(n) == FoldLeft(LAMBDA f, i : Hears(f, i, n), feed[n], queue)

\* Usernames that the list spells in one way, repeated or not.
SpelledOnce == {n \in Usernames : \A u, v \in SpelledAs(n) : u = v}

\* What the tasks and the client make of username n agree: the status the
\* client will have been shown last is the last_live of a spelling, an error
\* it is told of is noted by one, and noted by none in vain unless another
\* spelling has spoken since.
NothingLost == gen = "open" => \A n \in Usernames :
    /\ \E u \in SpelledAs(n) : known[u].lastLive = WillKnow(n).shown
    /\ WillKnow(n).failed => \E u \in SpelledAs(n) : known[u].hadError
    /\ n \in SpelledOnce =>
         \A u \in SpelledAs(n) : known[u].hadError => WillKnow(n).failed

\* The sentinel comes after everything the tasks had to say, and once.
DoneIsLast ==
    /\ \A k \in DOMAIN queue : queue[k] = Done => k = Len(queue) /\ AllEnded
    /\ gen = "done" => queue = <<>> /\ AllEnded

OneWay == INSTANCE ChangeFeed WITH
    Feeds <- SpelledOnce, Unknown <- "unknown", feed <- [n \in SpelledOnce |-> feed[n]]

\* Every username spelled in one way is a ChangeFeed, though tasks that know
\* of one another only by the queue and two dictionaries write it.
ImplementsChangeFeed == OneWay!FeedSpec

\* "Change-only per username", said of every username: the code does not keep
\* it of one that the list spells in two ways (SseMultiCase.cfg).
ChangeOnly == Feed!FeedSpec

\* No task outlives the stream for good, and no stream outlives its tasks.
StreamWindsUp == (gen # "open" \/ AllEnded) ~> (gen # "open" /\ AllEnded)
=============================================================================
