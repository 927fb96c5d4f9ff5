------------------------------ MODULE WebhookLoop ------------------------------
(***************************************************************************)
(* The poll loop of a webhook: the task _poll_loop of api/webhooks.py,     *)
(* with _dispatch_with_retry, _dispatch and _record_delivery, one task per *)
(* webhook.  Every await is a step boundary: the call to                   *)
(* get_live_status_sse, each POST, each backoff, the sleep between two     *)
(* polls and the DELETE statement of a removal.                            *)
(*                                                                         *)
(* What TikTok answers and what the receiver answers are left open.  Here  *)
(* a task may begin, be cancelled or die with the process at any time;     *)
(* module Webhooks says when the registry does that.                       *)
(***************************************************************************)
EXTENDS Naturals, Sequences, WebhookIds

CONSTANTS
    MaxAttempts,  \* DISPATCH_MAX_ATTEMPTS: POSTs per event
    MaxFailures,  \* MAX_DISPATCH_FAILURES: failed events in a row
    HistorySize,  \* _MAX_DELIVERY_HISTORY
    Unknown,      \* last_live = None: no status seen yet
    NoHistory     \* the id has no delivery history

ASSUME LoopAssumption ==
    /\ MaxAttempts \in Nat \ {0}
    /\ MaxFailures \in Nat \ {0}
    /\ HistorySize \in Nat
    /\ HistorySize >= MaxFailures
    /\ Unknown \notin BOOLEAN
    /\ NoHistory \notin Seq([attempts : 1..MaxAttempts, success : BOOLEAN])

VARIABLES
    pc,        \* what the task of the webhook is waiting for
    lastLive,  \* last_live
    failures,  \* failures: failed events since the last delivered one
    attempt,   \* the number of the POST in flight, or of the last one
    history,   \* _delivery_history
    acked      \* the status in the last POST the receiver answered with 2xx

loopVars == <<pc, lastLive, failures, attempt, history, acked>>

-----------------------------------------------------------------------------

Waiting == {"poll", "post", "backoff", "sleep"}
PC      == {"none", "remove", "ended"} \cup Waiting
Record  == [attempts : 1..MaxAttempts, success : BOOLEAN]

\* The task runs and may still poll and POST.
Active(id) == pc[id] \in Waiting

\* The loop is between two events.
Idle(id) == pc[id] \in {"sleep", "poll"}

\* The endpoint of the deliveries answers 404 where there is no history.
HasHistory(id) == history[id] # NoHistory

LoopTypeOK ==
    /\ pc \in [Ids -> PC]
    /\ lastLive \in [Ids -> BOOLEAN \cup {Unknown}]
    /\ failures \in [Ids -> 0..MaxFailures]
    /\ attempt \in [Ids -> 0..MaxAttempts]
    /\ history \in [Ids -> Seq(Record) \cup {NoHistory}]
    /\ \A id \in Ids : HasHistory(id) => Len(history[id]) <= HistorySize
    /\ acked \in [Ids -> BOOLEAN \cup {Unknown}]

LoopInit ==
    /\ pc = [id \in Ids |-> "none"]
    /\ lastLive = [id \in Ids |-> Unknown]
    /\ failures = [id \in Ids |-> 0]
    /\ attempt = [id \in Ids |-> 0]
    /\ history = [id \in Ids |-> NoHistory]
    /\ acked = [id \in Ids |-> Unknown]

-----------------------------------------------------------------------------
(* The task as a whole *)

\* create_task and a fresh deque, for one registration or for all the rows
\* restored at a start.
Begin(S) ==
    /\ S \subseteq {id \in Ids : pc[id] = "none"}
    /\ pc' = [id \in Ids |-> IF id \in S THEN "poll" ELSE pc[id]]
    /\ history' = [id \in Ids |-> IF id \in S THEN <<>> ELSE history[id]]
    /\ UNCHANGED <<lastLive, failures, attempt, acked>>

\* The task of id moves from one await to the next.
Goto(id, from, to) == pc[id] = from /\ pc' = [pc EXCEPT ![id] = to]

\* The locals of a task that is gone.
ClearLocals(S) ==
    /\ lastLive' = [id \in Ids |-> IF id \in S THEN Unknown ELSE lastLive[id]]
    /\ failures' = [id \in Ids |-> IF id \in S THEN 0 ELSE failures[id]]
    /\ attempt' = [id \in Ids |-> IF id \in S THEN 0 ELSE attempt[id]]

\* Slip: the history stays.
HistoryKept(id) == history[id]

HistoryDropped(id) == NoHistory

\* unregister_webhook cancels the task and drops the history.  At whatever
\* await the CancelledError arrives, nothing of the loop runs after it.
Cancel(id) ==
    /\ Active(id)
    /\ pc' = [pc EXCEPT ![id] = "ended"]
    /\ history' = [history EXCEPT ![id] = HistoryDropped(id)]
    /\ ClearLocals({id})
    /\ UNCHANGED acked

\* The process ends, and every task and history with it.
Die ==
    /\ pc' = [id \in Ids |-> "none"]
    /\ history' = [id \in Ids |-> NoHistory]
    /\ ClearLocals(Ids)
    /\ UNCHANGED acked

-----------------------------------------------------------------------------
(* Polling *)

\* The status is the one already known, or TikTok failed (TikTokAPIError).
PollNoNews(id) ==
    /\ Goto(id, "poll", "sleep")
    /\ UNCHANGED <<lastLive, failures, attempt, history, acked>>

\* The first status, or another one than before: last_live is set before the
\* event is dispatched, and never set back.
PollChanged(id, live) ==
    /\ Goto(id, "poll", "post")
    /\ live # lastLive[id]
    /\ lastLive' = [lastLive EXCEPT ![id] = live]
    /\ attempt' = [attempt EXCEPT ![id] = 1]
    /\ UNCHANGED <<failures, history, acked>>

\* TikTokUserNotFound: the loop removes its own webhook.
PollNotFound(id) ==
    /\ Goto(id, "poll", "remove")
    /\ UNCHANGED <<lastLive, failures, attempt, history, acked>>

Wake(id) ==
    /\ Goto(id, "sleep", "poll")
    /\ UNCHANGED <<lastLive, failures, attempt, history, acked>>

-----------------------------------------------------------------------------
(* Dispatching one event *)

\* Slip: a lost delivery is not recorded.
PushDelivered(h, r) == IF r.success THEN <<r>> ELSE h

\* A deque with maxlen drops its oldest element.
Push(h, r) == LET all == Append(h, r)
              IN  IF Len(all) > HistorySize THEN Tail(all) ELSE all

\* _record_delivery: nothing is recorded for an id without a history.
RecordDelivery(id, success) ==
    LET r == [attempts |-> attempt[id], success |-> success]
    IN  history' = [history EXCEPT ![id] =
            IF HasHistory(id) THEN Push(history[id], r) ELSE NoHistory]

\* Slips: a delivered event leaves the counter alone, or a lost one does.
KeptOnSuccess(n) == n
KeptOnLoss(n)    == n

AfterSuccess(n) == 0
AfterLoss(n)    == n + 1

\* 2xx: the event is delivered and the failure counter starts again.
PostAccepted(id) ==
    /\ Goto(id, "post", "sleep")
    /\ acked' = [acked EXCEPT ![id] = lastLive[id]]
    /\ RecordDelivery(id, TRUE)
    /\ failures' = [failures EXCEPT ![id] = AfterSuccess(@)]
    /\ attempt' = [attempt EXCEPT ![id] = 0]
    /\ UNCHANGED lastLive

\* Another answer, a timeout or a network error, with attempts left.
PostRejected(id) ==
    /\ Goto(id, "post", "backoff")
    /\ attempt[id] < MaxAttempts
    /\ UNCHANGED <<lastLive, failures, attempt, history, acked>>

\* Slip: the retry does not count.
SameAttempt(n) == n

NextAttempt(n) == n + 1

BackoffOver(id) ==
    /\ Goto(id, "backoff", "post")
    /\ attempt' = [attempt EXCEPT ![id] = NextAttempt(@)]
    /\ UNCHANGED <<lastLive, failures, history, acked>>

\* The last attempt fails: the event is lost, and after MaxFailures of them
\* in a row the loop removes its own webhook.
EventFailed(id) ==
    /\ attempt[id] = MaxAttempts
    /\ IF AfterLoss(failures[id]) >= MaxFailures
         THEN Goto(id, "post", "remove")
         ELSE Goto(id, "post", "sleep")
    /\ RecordDelivery(id, FALSE)
    /\ failures' = [failures EXCEPT ![id] = AfterLoss(@)]
    /\ attempt' = [attempt EXCEPT ![id] = 0]
    /\ UNCHANGED <<lastLive, acked>>

\* The DELETE has run or failed; the task returns.  Its history stays.
Return(id) ==
    /\ Goto(id, "remove", "ended")
    /\ ClearLocals({id})
    /\ UNCHANGED <<history, acked>>

-----------------------------------------------------------------------------

News(id) == \E live \in BOOLEAN : PollChanged(id, live)

\* Steps between which the loop stays in charge of its webhook.
PollingStep(id) ==
    \/ PollNoNews(id) \/ News(id) \/ Wake(id)
    \/ PostAccepted(id) \/ PostRejected(id) \/ BackoffOver(id)

LoopStep(id) ==
    \/ PollingStep(id) \/ PollNotFound(id) \/ EventFailed(id) \/ Return(id)

LoopNext ==
    \/ \E S \in SUBSET Ids : Begin(S)
    \/ \E id \in Ids : Cancel(id) \/ LoopStep(id)
    \/ Die

LoopSpec == LoopInit /\ [][LoopNext]_loopVars

\* Every await of the loop ends: both TikTok calls, the POST and SQLite have
\* timeouts, and a sleep is over when its time is.
FairLoopSpec == LoopSpec /\ \A id \in Ids : WF_loopVars(LoopStep(id))

-----------------------------------------------------------------------------
(* Properties *)

\* h ends with at least n failed deliveries.
EndsWithFailures(h, n) ==
    /\ n <= Len(h)
    /\ \A i \in (Len(h) - n + 1)..Len(h) : ~h[i].success

\* The failure counter is the number of failed events at the end of the
\* history, no more and no fewer: a success in between starts it again, and
\* what happened before a restart does not count.
FailuresMatchHistory ==
    \A id \in Ids :
        Active(id) => /\ EndsWithFailures(history[id], failures[id])
                      /\ ~EndsWithFailures(history[id], failures[id] + 1)

\* Between events the receiver has acknowledged the very status the loop
\* believes it knows, unless the last event was lost after all its attempts.
ReceiverInformed ==
    \A id \in Ids :
        Idle(id) /\ lastLive[id] # Unknown =>
            \/ acked[id] = lastLive[id]
            \/ EndsWithFailures(history[id], 1)

\* A webhook is given up over its receiver only when the last MaxFailures
\* events all failed.
GivenUpWhenEarned ==
    [][\A id \in Ids :
        pc[id] = "post" /\ pc'[id] = "remove" =>
            EndsWithFailures(history'[id], MaxFailures)]_loopVars

\* The dispatch of an event ends.
EventSettles ==
    \A id \in Ids :
        pc[id] \in {"post", "backoff"} ~> pc[id] \notin {"post", "backoff"}

\* A webhook that is kept for ever, of a streamer who goes live and offline
\* for ever, has a receiver that answers for ever: a dead one is given up.
KeptOnlyIfAnswering ==
    \A id \in Ids :
        <>[]Active(id) /\ []<><<News(id)>>_loopVars
            => []<><<PostAccepted(id)>>_loopVars
=============================================================================
