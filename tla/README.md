# Verification of NotifTK

NotifTK is a FastAPI service that tells its clients when a TikTok streamer goes
live or offline: by a REST call, by a server-sent-event (SSE) stream, or by a
webhook it POSTs to. This directory holds TLA+ models of the parts of it that
keep state, TLC configurations that check them on small instances, and TLAPS
proofs that carry the most important results to every instance. Paths below
are relative to the repository.

## 1. Inventory

| Component | Source | State | Operations | What is hard |
|---|---|---|---|---|
| Webhook registry | `api/webhooks.py` | `_watchers` (memory), table `webhooks` (SQLite) | register, unregister, self-removal, list, restore, shutdown | memory changes on the event loop, the table in worker threads: any order, failures, crashes |
| Poll task of a webhook | `api/webhooks.py` `_poll_loop` | `last_live`, `failures`, `_delivery_history` | poll, POST with three attempts, backoff, give up | a lost event is never sent again; cancellation at any await |
| Status caches | `api/tiktok.py` | `_cache`, `_sse_cache`, `_sse_locks` | `get_live_status`, `get_live_status_sse` | thundering herd, cancelled waiters, two caches with different lifetimes, errors |
| SSE admission | `api/main.py` `live_stream*` | `_sse_connections`, `_sse_per_username` | take a slot, give it back | taken in the endpoint, given back in a generator that may never start |
| SSE generator, one username | `api/main.py` `_sse_generator` | `last_live`, `had_error`, `poll_count` | poll, yield, sleep, end | state updated after the yield; the client leaves anywhere |
| SSE generator, several usernames | `api/main.py` `_sse_generator_multi` | queue, shared `last_live`/`had_error`, `remaining` | poll tasks put, generator takes, sentinel, cancel | tasks share state by the spelling of a username; who ends whom |
| API keys | `api/keys.py` | table `api_keys`, `_gen_log` under a lock | generate, revoke, look up | threads read the clock before they wait for the lock; two transactions |
| Authentication, rate limit | `api/auth.py` | `_request_log` | look up in a thread, admit, 429 | the verdict is used after an await; lazy pruning |
| Lifespan, health | `api/main.py` | none of their own | restore at start, shutdown, `/health` | a process end is where memory is lost |
| Models, validation, URL guard, signing | `api/models.py`, `api/webhooks.py` | none | pure functions | - |
| Web page | `frontend/index.html` | `source` (the EventSource), the key in `localStorage` | `startMonitoring`, `stopMonitoring`, handlers of the EventSource | two awaits before the stream is opened; handlers act on a shared variable |
| Deployment, CI | `infra/`, `Dockerfile`, `.github/` | none | - | one process, one volume |

How they interact. An endpoint passes authentication first, then calls the
registry, the caches or the admission. Stream generators and webhook tasks both
poll through `get_live_status_sse`; the REST endpoint calls `get_live_status`;
the two share the REST cache. The registry creates and cancels tasks, and a task
removes its own webhook from the registry. Keys and webhooks live in the same
SQLite file, always reached through `asyncio.to_thread`. The page is a client of
the stream endpoint, of `/health` and of `/api/keys/verify`. Everything else runs on
one event loop, so code between two awaits is one step; every model takes its
step boundaries from the awaits, the yields and the threads.

What makes each component correct:

- registry: what is acknowledged survives a crash, what is deleted stays
  deleted, both caps, a webhook belongs to the key that made it;
- poll task: every event is delivered or counted and recorded as failed, no
  duplicate, removal only after enough failures in a row;
- caches: one fetch at a time, shared results, bounded staleness, a stream never
  goes backwards, nobody hangs on the lock;
- streams: exact slot counters, a status is told again only after an error, never
  silent for long, orderly end;
- streams and webhooks over the caches: whoever stays hears of the last change in
  the end;
- the page: it listens to one stream, the one it can stop;
- keys and authentication: the limits hold between concurrent threads, a dead
  key is refused, the sliding window admits no more than its limit.

The hazards, each at its line, are listed in `PROJECT.json`.

## 2. Modules

| Module | Models | State and actions |
|---|---|---|
| `WebhookIds` | the constant the webhook modules share | - |
| `WebhookRegistry` | the registry, both stores | per watch_id: `watchers` is `_watchers`, `db` the table, `reg`/`unreg`/`rm` where its POST, its DELETE and the statement of its removal are; `Listed` is what the list endpoints show a caller. `Register` and `Unregister` run to the only await; the insert and delete threads and the resumption of the request are `ServerStep`; `ProcessEnd`, `Start` shutdown or crash, and `restore_webhooks` |
| `WebhookLoop` | `_poll_loop`, `_dispatch_with_retry`, `_record_delivery` | per webhook a `pc` (which await), the task's locals, the history; `acked` is a history variable: what the receiver last accepted |
| `Webhooks` | both together | every action of the one with its counterpart of the other: `UnregisterWebhook` cancels the task, `EventLost` and `UserNotFound` remove the webhook, `Stop` and `Restore` start and end both |
| `StatusCache` | `api/tiktok.py` for one username | the caches as entries with ages, the lock as holder and FIFO queue, per caller its await, and the time left of its request. `Change` and `Tick` are the world |
| `LiveFeed` | abstract: a register that follows the streamer and never goes back | what the stream side of the caches promises |
| `SseStreams` | the constant the SSE modules share | - |
| `SseConnections` | admission and slots | the two counters, and per stream its phase. `ActiveSseConnections` is what `/health` reports. `Accept` is the endpoint, `BeginBody`, `EndBody` the generator's life, `DropResponse` a response whose client was gone before its body began |
| `SseGenerator` | `_sse_generator` | `gen[s]` holds the await (`poll`, `yield`, `sleep`), the item being yielded and the locals; `feed`, and `quiet` in `gen`, are history |
| `SseService` | both together | a body ends and gives its slots back in one step, as the finally clause does |
| `ChangeFeed` | abstract: what a client of a stream is promised, by username | the status when it changes, and once more after an error |
| `SseGeneratorMulti` | `_sse_generator_multi`, one stream | tasks, `known` (`last_live` and `had_error`, by spelling), `queue`, `remaining`, `gen`; the sentinel is `Done`. `usernames` is the list as the request spells it, `Lower` is `lower()`; a status is queued under the username in lower case, an error under its spelling; `feed` is what the client, who sees one username, has been sent |
| `LiveService` | `SseGenerator` and `WebhookLoop` as callers of `StatusCache`, one username | a poll is a call: `Waits` while it queues or fetches, `Served` when it returns a status, which the generator or the loop takes in the same step; `Disconnect` and `Unregister` cancel the call with its caller |
| `Frontend` | the script of `frontend/index.html` | per call of `startMonitoring` its await, its key and its EventSource; `source` and `saved` are the page's; `Connected`, `Rejected`, `Lost`, `Message`, `Fatal` are the events |
| `ApiKeys` | `api/keys.py` | a call of `generate_key` step by step: clock, lock and log, count, insert, log |
| `ApiAuth` | `api/auth.py` over `ApiKeys` | a request's look-up in a thread (`ReadClock`, `Select`), then `Admit` or `Limit`; `ServeEnv` is a key of `API_KEYS`, or an IP when authentication is off |
| `*Proofs`, `FoldFacts` | theorems, and the lemmas about folds they share | section 5 |
| `MC*` | instances for TLC | constants, symmetry |

Some modules carry *slips*: a small operator of the model (what a release does, what
a limit is compared with, what a loop makes of a status) once more, with a plausible
mistake in it. No specification uses them. Each is there because putting it in the
place of the real one must break the property it was written for, which shows that
the property depends on the code it is about.

### Abstractions

- A `watch_id`, a key, a username or a URL is a model value. Caches, counters and
  webhooks key a username by its lower case, and the modules about them start from there.
  `_sse_generator_multi` does not: it keeps `last_live` and `had_error` by the entries as
  the request spells them, so `SseGeneratorMulti` keeps the spellings and models
  `lower()`. Row contents beyond what decides ownership, caps and validity are left out.
- A status is a version number in `StatusCache` and one of two values elsewhere.
  The number carries the order of changes; the values are what `is_live` compares.
- A fetch ends with a status or with one of the two exceptions `api/tiktok.py`
  declares. Other exceptions, from building the client or closing it, are a
  hazard noted in `PROJECT.json`. Closing the HTTP client takes no time.
- `asyncio.Lock` hands over in FIFO order. An uncontended acquisition takes one
  step more in the model than in the code: a caller may be scheduled in between,
  which allows more behaviours, never fewer.
- Cancellation arrives at an await; nothing of the cancelled body runs after it
  except its finally clauses.
- The body of a stream of several usernames is opaque in `SseService`; its own
  module models one stream from start to end. The restart of the process is in
  `SseService`, not in `SseGeneratorMulti`, whose state does not outlive it.
- In `LiveService` every version of the streamer is the opposite of the one before,
  so that a change of status is never hidden behind a change of title.
- `Frontend` leaves out rendering; the badge keeps three values. The
  two requests of `startMonitoring` may fail, and the server may forget a key, refuse
  a good one (429) or lose a connection at any moment. `EventSource` is the
  browser's, modelled from how the page uses it: it tries again when a connection is
  lost and does not when it is answered with an error.
- `TikTok`, receivers, clients and SQLite are environment: they answer what they
  like, when they like; SQLite may refuse any statement.

## 3. Runs

Every run below ends within about two minutes on four cores.

| Run | Instance | Shows |
|---|---|---|
| `Registry` | 3 ids, 2 users, caps 2 and 1; crashes and failures unbounded; symmetric in ids and users | `WatchedIsDurable`, `AcknowledgedSurvives`, `ErasedStaysErased`, `OrphansExplained`, `CapsUnlessResurrected` |
| `Service` | 1 webhook, 2 keys, 3 attempts, 3 failures, a history of 4; crashes, restarts and failing statements unbounded | counter and history agree; the receiver is informed or its loss is on record; a webhook is given up only after three failures in a row, and one that is kept for ever has a receiver that answers; every event settles; a task runs exactly while its webhook is watched; the history goes with the unregistration; owners are kept apart; the composition implements `WebhookRegistry` and `WebhookLoop` with their fairness and answers every request |
| `StatusCache` | 3 stream callers, 1 REST caller, one change, TTLs 2 and 3, time-out 1 | single flight, the lock in use, successes at least a TTL apart, bounded staleness, refinement of `LiveFeed`, every call returns |
| `SseService` | 2 streams, 2 identities, 2 usernames, caps 1 and 1, lists of up to 2 | counters exact, caps kept, never silent, refinement of `ChangeFeed` |
| `SseMulti` | 3 entries, 2 usernames (one twice, in one spelling), queue of 2 | the queue and the client together always agree with what the tasks believe; every username spelled in one way is a `ChangeFeed`; sentinel last; the stream winds up |
| `ApiAuth` | 2 calls, 1 IP, caps of 1, a day of 2, time to 3, one request at a time | caps under concurrent threads and revocation, dead keys refused, sliding window, no call stuck |
| `LiveService` | 1 stream, 1 webhook, two changes, TTLs, time-out and heartbeat of 1, 1 attempt, 2 failures, history of 2 | a client that stays is in the end shown what the streamer does; the receiver of a webhook that stays has acknowledged it, or the last event is on record as lost |
| `Frontend` | 3 submits, 2 keys, authentication enabled | the page listens to one stream unless a form was submitted while another call awaited; what it takes for its monitor is never a stream that the server has refused |

Why the bounds are enough. Registrations interact in pairs (caps, two statements
of one id) and a third is needed for the cap per user and the global cap to be
told apart. Tasks of different webhooks share nothing but the registry, whose own run has
three ids: one webhook with all its attempts, failures and a history that wraps shows
what a task and the registry do to each other. Two callers of the
cache race, the third makes the queue of the lock longer than one, which is where a
hand-over or a cancelled waiter could go wrong; one change makes an old and a new
status, and the ages are capped where nothing looks at them any more. In
`SseMulti` two entries share a username and a third does not (`SseMultiCase` spells one in two ways); the queue bound
limits only how far tasks run ahead of the client. In `LiveService` the second change undoes the first, so that a caller
that missed both has nothing to catch up with, one that missed the second has; a stream
and a webhook are the two kinds of caller, and two are enough for the cache to be stale
for one and filled by the other. In `Frontend` two submits leak an EventSource and the third
meets the leaked one's events. In `ApiAuth` the clock passes
a whole day and a whole window, so that both windows slide; a third call was tried
on the keys alone with the same result. Bounds are constants of the cfg files
(`MaxVersion`, `MaxQueue`, `MaxTime`) or the number of ids, calls, submits and streams.

Four runs are meant to fail: each checks one sentence of the repository that the
code does not keep.

| Run | Sentence | What happens |
|---|---|---|
| `RegistryLateInsert` | "Cancel the poll task, remove from memory and DB." (`api/webhooks.py:332`) | the id is listed as soon as it is in memory; its DELETE can run before its own INSERT, which then leaves a row that the next start restores |
| `CachePolling` | "TikTok is polled at most once per POLL_INTERVAL regardless of subscriber count" (`api/tiktok.py:91`) | failures are not cached; queued callers fetch one after the other |
| `StreamSlots` | "decremented even on client disconnect" (`api/main.py:759`) | a generator whose body never began runs no finally clause; its slot is taken until the restart. Whether a response is dropped before its body begins depends on the ASGI server: one whose `send` does not suspend usually begins it |
| `FrontendTyping` | "Stop monitoring when the user starts typing a new username" (`frontend/index.html:488`) | while `startMonitoring` awaits `/health` or `/api/keys/verify` there is nothing to stop yet; the call then opens its stream |

A fifth sentence is left to a configuration outside the list of runs, `SseMultiCase.cfg` of
`MCSseGeneratorMulti`: "Change-only per username — identical semantics to _sse_generator"
(`api/main.py:806`). TLC refutes `ChangeOnly` in a second: the two tasks of
`?users=Ninja,ninja` share neither `last_live` nor `had_error`, which are keyed by the raw
entries (`api/main.py:817`), and both send the same status under the name `ninja`
(`api/tiktok.py:105`).

The safety properties of the other runs are stated around these: `ErasedStaysErased`
and `OrphansExplained` name the late INSERT and the failed DELETE as the only
causes, `CountersExact` counts a lost slot as taken, `HistoryUntilUnregistered`
says what does hold of the history (a webhook that removes itself leaves it behind,
though `api/webhooks.py:192` says "Returns None if the watch_id is unknown"), and
`OneStream` excepts overlapping submits, where the page does lose an EventSource.
`ImplementsChangeFeed` of `SseGeneratorMulti` speaks of the usernames that the list spells in
one way (`SpelledOnce`); `NothingLost` of all, with a spelling that knows what the client
was shown in place of the one, and in both directions where there is one spelling.

What some properties do not say: `OneStream` and `MonitorAlive` do not cover what a leaked
EventSource does to the page (its error or fatal message takes down or relabels another
monitor). `PerIpCapped` speaks of one process: the log of generations is in memory, and
after a restart the code lets an IP have its daily number of keys again, though the limit
is stated without that exception (`api/keys.py:11`, `api/main.py:527`,
`docs/wiki/authentication.md:54`). `AnswersFresh` does not exclude that REST answers go back
to an older status. `DeadKeysRefused` speaks of keys that are dead when the request
arrives: one revoked between its look-up and the admission is let in, and streams that are
open stay so.

## 4. Fairness

- `WebhookRegistry`, `Webhooks`: weak fairness of `ServerStep(id)`: a worker thread
  finishes (SQLite's own time-out turns a lock into an error) and the event loop
  resumes the coroutine that waits for it. Nothing is assumed of clients or of
  crashes, and a request that a crash interrupts counts as answered "lost".
- `WebhookLoop`: weak fairness of a task's step: the polls and the POSTs have
  time-outs, sleeps end.
- `StatusCache`: weak fairness of a caller's next step: `TIKTOK_TIMEOUT` ends each
  request, and the lock is handed over. Time itself is not assumed to pass.
- `SseService`: none, its properties are safety. That the body of a client that has gone
  comes to its end is up to the ASGI server and is not claimed.
- `SseGeneratorMulti`: a cancelled task gets its turn, so does a generator that has
  an item to take, and a send ends. Polls may stay away for ever.
- `ApiAuth`: a worker thread goes on. Requests need no fairness.
- `LiveService`: weak fairness of every caller's step, as in its parts: calls have
  time-outs, sleeps end, the client reads, the receiver answers or not. Strong fairness
  of time, which calls in flight stop again and again for a moment and which nothing
  holds back in the world; and of an answer of TikTok to each caller: a service that failed every
  call for ever would leave everybody uninformed, so of infinitely many calls infinitely
  many are assumed to be answered. Nothing is assumed of the streamer, of clients and of
  registrations.
- `Frontend`: none, its properties are safety.

`SseMulti` and `SseMultiCase` are checked without deadlock detection because a finished stream has no
next step; all other systems can always do something.

## 5. Proofs

Safety results are proved for every value of the constants that satisfies the
named assumptions (`RegistryAssumption`, `LoopAssumption`, `CacheAssumption` and
the like, each in the module that declares the constants).

- `WebhooksProofs`, in three parts. The registry: `RegistryInv` adds to the properties
  what connects the two stores: where a request is decides what its row may be (a row
  stored carries what was asked; a statement still to run belongs to an id in a given
  state). Without it `WatchedIsDurable` is not inductive: it does not say that a DELETE
  under way has no watcher. `Caps` needs a separate argument about cardinalities,
  from `FiniteSetTheorems`: the ids watched and never removed only grow in
  `Register`, under the caps. The loops: `LoopInv` ties the counter to the tail of the
  history and the attempts to the await; that `HistorySize >= MaxFailures` is needed, and
  assumed, because a history shorter than the counter could not show it. The service:
  each of its steps is a step of the registry and of the loop, or a stutter
  (`ServiceIsRegistry`, `ServiceRunsLoops`). The loop's theorems then hold of the
  service (`ServiceCounters`, `ServiceReceivers`, `ServiceRemovals`). `TaskWatched` and
  `HistoryFollowsWebhook` are proved on the composition: the first needs that a task in
  its own removal is no longer watched, the second that an answered unregistration came
  from `Cancel`, which drops the history.
- `StatusCacheProofs`. `CacheInv`: whoever fetches for a stream
  holds the lock and found the cache stale, and what it will see is no older than
  what is published. From it follow the lock's discipline, the sharing of fetches
  and the refinement of `LiveFeed`. What any feed's readers may rely on is proved of
  `LiveFeed` (`NobodyAhead`, `FeedNeverBackwards`) and carried down through the
  refinement (`CacheIsBehind`, `NeverShownOlder`). `AnswersAreFresh` needs an invariant of
  ages of its own: an entry misses no change that is older than the entry and a time-out
  together.
- `SseServiceProofs`. `GenInv` says that what a generator remembers is what its
  client was sent: `last_live` is the last status shown, `had_error` that an error
  came after it or is being yielded; a status being yielded is news, and every
  silent poll was counted. `NeverSilent` and the refinement of `ChangeFeed` follow,
  and hold of the composed service because each of its steps is a generator's or a
  stutter. `SlotInv` gives the per-identity half of `CountersExact`. `CountInv` gives the
  rest: the counter of a username is the sum, over the streams that have their slots, of
  how often each names it, so `max(0, ..)` never hides a slot given back twice; no more
  than `MaxPerUsername` streams name it (a list that repeats a name counts more than
  once, which is why `WithinCaps` does not bound the counter itself); and the counters of
  the identities add up to the number of open streams, which is what `/health` reports.
- `SseGeneratorMultiProofs`. `TaskInv` counts the tasks that are alive: exactly `remaining`
  while the generator is open, no more afterwards (a task cancelled before its first
  step never counts itself out). `SentinelIsLast` follows. `Chains` says of the queue, for every
  username spelled in one way, that each status in it differs from what the client will have been told just
  before, and that its end is what the tasks believe the client to know.
  `MultiIsChangeFeed` follows. `TellInv` says that the queue, told item by item to a client
  who knows what this one knows, ends in what the tasks know, each spelling for
  itself: `TasksTellAll`. A put
  at one end changes the end of that tale by its item, a take at the other moves its
  beginning, and the items of other usernames leave it alone.
- `ApiAuthProofs`. `KeysInv`: whoever is inside the `with` statement of
  `generate_key` holds the lock, and a call past the count leaves room for one more
  row, so `MAX_KEYS` holds although count and insertion are two transactions.
  `DeadInv`: the row of a key that was dead when a request came is dead at whatever
  time its look-up reads. `LogInv`
  gives `DailyLimit`: what the process has logged stays in the log while it is
  young, because a holder of the lock prunes with a clock it read earlier and so keeps
  more than it must, never less; and whoever is inside the lock has found room.
  `RateInv` gives `RateLimitHolds`: what was really served within the window is what the
  log holds of it, entry by entry, whenever the log was last pruned, because pruning twice
  with a later clock is pruning once.
- `LiveServiceProofs`. The composition takes steps of its parts only (`ServiceUsesCache`,
  `ServiceRunsStreams`, `ServiceRunsTasks`): whatever generators and loops do between two
  polls, they use the cache as `StatusCache` says callers may. So its theorems hold with
  them as callers (`ServiceLock`). `AudienceInv` follows a status from the cache to the
  audience: what a generator or a loop remembers is the status of the version its own last
  call returned, or that status is on its way. `NothingInvented` states it; `FreshNews`
  adds that a status, when it becomes news to a client or a receiver, misses no change
  older than `POLL_INTERVAL` and one time-out and is no older than what anybody
  has been answered; `ReceiversFollow` that a receiver newly acknowledges the
  status of the last answer only. (`AnswersFresh` says nothing of a hit that returns to a
  caller what it had: it changes nothing. A stream that has reconnected makes news
  of such a hit, so `FreshNews` uses the lemma under `AnswersAreFresh`, which covers it.)
- `FrontendProofs`. `PageInv` holds both properties of the page: while calls of
  `startMonitoring` have not overlapped, one at most awaits and it has nothing to listen
  to, so `ListensToOne`; `source` leaves an EventSource in the step that closes it for good,
  be it the source or one the page has lost track of, so `MonitorIsAlive`.
- `FoldFacts` holds the lemmas these proofs share. The library's induction theorems take
  an operator as a parameter, which the provers cannot instantiate; `Induction` and
  `SeqInduction` are stated of a set instead, and proved from the well-foundedness of the
  naturals. With them the folds and sums of the community modules can be reasoned about:
  a sum over a finite set changes by what one member changes, a fold over a sequence
  ends with its last element, bounds its members, and is the same for
  steps that agree. `InWindow` of `ApiAuth` is written as a fold for this reason.

Counting needs finite sets: the streams, their identities, the entries of a list and the
calls of `generate_key` are assumed to be finitely many, as the requests a process ever sees
are.

Only model-checked: liveness and the refinement of fairness (`EventSettles`,
`KeptOnlyIfAnswering`, `ImplementsFairRegistry`, `ImplementsFairLoop`, `RequestsAnswered`,
`CallsReturn`, `StreamWindsUp`, `CallsEnd`, `StreamsCatchUp`,
`ReceiversCatchUp`), whose proofs would need `ENABLED`, out of the prover's reach. Of the
two fair refinements the safety half is proved. Every safety invariant, action property and
safety refinement that a run checks is stated by a theorem. The properties that fail are
for TLC to refute.

## 6. Plan

Done in this order: `WebhookRegistry`, `WebhookLoop`, their composition, `StatusCache`
with `LiveFeed`, the SSE modules with `ChangeFeed`, keys and authentication, the proofs
of the stream of several usernames and of the daily limit, the streams and the webhooks over
the caches, the page; then the proofs of the remaining safety properties: the page, the
slots, the rate limit, the queue, and what streams and webhooks tell their audience.

What could still be added:

1. REST answers across overlapping fetches: a REST fetch that began earlier may
   overwrite the newer entry a stream fetch left in `_cache`;
2. streams over `ApiAuth`: a revoked key and the streams it opened;
3. generation limits across a restart (see section 3), and expired keys against `MAX_KEYS`;
4. the page against `SseService` instead of a server that answers as it likes;
5. the receivers of `LiveService` through the loop's own invariant: between events they
   have acknowledged the last answer, or its loss is on record.

The runs are few and dense on purpose.

## 7. Not modelled

Pure functions (validation, URL guard, hashing, signing, JSON), logging, CORS,
versioning, deployment, CI and the rendering of the page. `/health` and the list
endpoints only read. The slots of `_sse_connections` that hold zero are deleted by the code; a
missing entry and a zero are one value here.
