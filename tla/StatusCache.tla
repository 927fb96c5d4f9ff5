------------------------------ MODULE StatusCache ------------------------------
(***************************************************************************)
(* The two caches of api/tiktok.py in front of TikTok, for one username    *)
(* (usernames share nothing: both caches and the locks are keyed by the    *)
(* lower-case name).                                                       *)
(*                                                                         *)
(* SSE callers (stream generators and webhook loops) go through            *)
(* get_live_status_sse: a cache hit, or a turn at the username's           *)
(* asyncio.Lock, a second look at the cache and a fetch.  REST callers go  *)
(* through get_live_status, which has a cache of its own and no lock.  A   *)
(* fetch is two calls, each with a timeout; callers may be cancelled at    *)
(* any await.                                                              *)
(*                                                                         *)
(* What TikTok knows of the streamer is a version number, which grows with *)
(* every change; a status is the version it shows.  A call shows any       *)
(* version that was current while it was in flight.  Time is discrete and  *)
(* appears only as ages and remaining times, capped where nobody looks     *)
(* any further.                                                            *)
(***************************************************************************)
EXTENDS Integers, SequencesExt

CONSTANTS
    SseCallers,   \* tasks that call get_live_status_sse
    RestCallers,  \* tasks that call get_live_status
    NoOne,        \* the lock is free
    Empty,        \* no cache entry
    SseTtl,       \* POLL_INTERVAL
    RestTtl,      \* CACHE_TTL
    Timeout,      \* TIKTOK_TIMEOUT
    MaxVersion    \* bound: changes of the streamer in a behaviour

Callers == SseCallers \cup RestCallers

ASSUME CacheAssumption ==
    /\ SseCallers \cap RestCallers = {}
    /\ NoOne \notin Callers
    /\ SseTtl \in Nat \ {0}
    /\ RestTtl \in Nat /\ SseTtl <= RestTtl
    /\ Timeout \in Nat \ {0}
    /\ MaxVersion \in Nat
    /\ Empty \notin [ver : 0..MaxVersion, age : 0..RestTtl]

VARIABLES
    version,    \* the version TikTok would show now
    changeAge,  \* changeAge[v]: time since version v became current
    sse,        \* _sse_cache[username]
    rest,       \* _cache[username]
    holder,     \* who holds _sse_locks[username], or is next to run with it
    waiters,    \* callers queued at the lock, in order of arrival
    pc,         \* what each caller is waiting for
    since,      \* the version when the caller's current call was sent
    left,       \* time left until that call times out
    got,        \* the last status returned to the caller
    sinceFetch  \* history: time since the last SSE fetch was sent

lock == <<holder, waiters>>
vars == <<version, changeAge, sse, rest, holder, waiters, pc, since, left,
          got, sinceFetch>>

-----------------------------------------------------------------------------

Version == 0..MaxVersion

\* An entry keeps its age up to the longest TTL it is compared with.
Entry == [ver : Version, age : 0..RestTtl]

\* The oldest change a correct answer may have missed, and a little more.
Horizon == RestTtl + Timeout

InCall(c) == pc[c] \in {"room", "info"}

\* Slip: an entry is served at the very end of its TTL.
FreshToTheEnd(entry, ttl) == entry # Empty /\ entry.age <= ttl

Fresh(entry, ttl) == entry # Empty /\ entry.age < ttl

TypeOK ==
    /\ version \in Version
    /\ changeAge \in [1..MaxVersion -> 0..Horizon]
    /\ sse \in Entry \cup {Empty}
    /\ rest \in Entry \cup {Empty}
    /\ holder \in SseCallers \cup {NoOne}
    /\ waiters \in Seq(SseCallers)
    /\ pc \in [Callers -> {"idle", "lock", "room", "info"}]
    /\ since \in [Callers -> Version]
    /\ left \in [Callers -> 0..Timeout]
    /\ got \in [Callers -> Version]
    /\ sinceFetch \in 0..SseTtl

Init ==
    /\ version = 0
    /\ changeAge = [v \in 1..MaxVersion |-> 0]
    /\ sse = Empty
    /\ rest = Empty
    /\ holder = NoOne
    /\ waiters = <<>>
    /\ pc = [c \in Callers |-> "idle"]
    /\ since = [c \in Callers |-> 0]
    /\ left = [c \in Callers |-> 0]
    /\ got = [c \in Callers |-> 0]
    /\ sinceFetch = SseTtl

-----------------------------------------------------------------------------
(* The world *)

\* The streamer goes live or offline, or changes the title.
Change ==
    /\ version < MaxVersion
    /\ version' = version + 1
    /\ changeAge' = [changeAge EXCEPT ![version + 1] = 0]
    /\ UNCHANGED <<sse, rest, lock, pc, since, left, got, sinceFetch>>

Older(age, cap) == IF age < cap THEN age + 1 ELSE cap

Aged(entry) == IF entry = Empty THEN Empty
               ELSE [entry EXCEPT !.age = Older(@, RestTtl)]

\* Time passes; a call whose time is up ends before it does.
Tick ==
    /\ \A c \in Callers : InCall(c) => left[c] > 0
    /\ left' = [c \in Callers |-> IF InCall(c) THEN left[c] - 1 ELSE left[c]]
    /\ changeAge' = [v \in 1..MaxVersion |->
                        IF v <= version THEN Older(changeAge[v], Horizon)
                                        ELSE changeAge[v]]
    /\ sse' = Aged(sse)
    /\ rest' = Aged(rest)
    /\ sinceFetch' = Older(sinceFetch, SseTtl)
    /\ UNCHANGED <<version, lock, pc, since, got>>

-----------------------------------------------------------------------------
(* The lock: asyncio.Lock serves its waiters in order of arrival *)

\* Slips: every call makes a lock of its own; the release wakes nobody; an
\* error path forgets the release.
AcquireOwn(c) == holder' = c /\ UNCHANGED waiters

ReleaseUnheard == holder' = NoOne /\ UNCHANGED waiters

LeaveLockHeld(c) == UNCHANGED lock

Acquire(c) ==
    IF holder = NoOne
      THEN holder' = c /\ UNCHANGED waiters
      ELSE waiters' = Append(waiters, c) /\ UNCHANGED holder

Release ==
    IF waiters = <<>>
      THEN holder' = NoOne /\ UNCHANGED waiters
      ELSE holder' = Head(waiters) /\ waiters' = Tail(waiters)

\* c leaves the block, if it is in it.
LeaveLock(c) == IF holder = c THEN Release ELSE UNCHANGED lock

-----------------------------------------------------------------------------
(* Calls *)

\* The caller's call is over; its locals are gone.
Finish(c) ==
    /\ pc' = [pc EXCEPT ![c] = "idle"]
    /\ since' = [since EXCEPT ![c] = 0]
    /\ left' = [left EXCEPT ![c] = 0]

Return(c, v) == Finish(c) /\ got' = [got EXCEPT ![c] = v]

\* A call to TikTok is sent.
Send(c, call) ==
    /\ pc' = [pc EXCEPT ![c] = call]
    /\ since' = [since EXCEPT ![c] = version]
    /\ left' = [left EXCEPT ![c] = Timeout]

\* Slips: stream callers are served from the REST cache; the cache is not
\* looked at again inside the lock.
RestEntry == rest
Unseen    == TRUE

SseEntry == sse
Stale    == ~Fresh(sse, SseTtl)

\* get_live_status_sse, the fast path.
SseHit(c) ==
    /\ pc[c] = "idle"
    /\ Fresh(SseEntry, SseTtl)
    /\ Return(c, SseEntry.ver)
    /\ UNCHANGED <<version, changeAge, sse, rest, lock, sinceFetch>>

\* The entry is missing or stale: the caller asks for the lock.
SseMiss(c) ==
    /\ pc[c] = "idle"
    /\ ~Fresh(sse, SseTtl)
    /\ Acquire(c)
    /\ pc' = [pc EXCEPT ![c] = "lock"]
    /\ UNCHANGED <<version, changeAge, sse, rest, since, left, got, sinceFetch>>

\* Inside the lock the cache is looked at again: somebody has filled it ...
SseSecondHit(c) ==
    /\ pc[c] = "lock"
    /\ holder = c
    /\ Fresh(sse, SseTtl)
    /\ Return(c, sse.ver)
    /\ Release
    /\ UNCHANGED <<version, changeAge, sse, rest, sinceFetch>>

\* ... or the caller fetches, and keeps the lock while it does.
SseFetch(c) ==
    /\ pc[c] = "lock"
    /\ holder = c
    /\ Stale
    /\ Send(c, "room")
    /\ sinceFetch' = 0
    /\ UNCHANGED <<version, changeAge, sse, rest, lock, got>>

\* get_live_status.
RestHit(c) ==
    /\ pc[c] = "idle"
    /\ Fresh(rest, RestTtl)
    /\ Return(c, rest.ver)
    /\ UNCHANGED <<version, changeAge, sse, rest, lock, sinceFetch>>

RestFetch(c) ==
    /\ pc[c] = "idle"
    /\ ~Fresh(rest, RestTtl)
    /\ Send(c, "room")
    /\ UNCHANGED <<version, changeAge, sse, rest, lock, got, sinceFetch>>

\* _fetch_live_status: a room id came back, and its details are asked for.
RoomFound(c) ==
    /\ pc[c] = "room"
    /\ Send(c, "info")
    /\ UNCHANGED <<version, changeAge, sse, rest, lock, got, sinceFetch>>

\* The fetch ends with a status: there is no room, the details came, or the
\* room is age restricted.
Shows(c, v) == InCall(c) /\ v \in since[c]..version

\* An SSE fetch fills both caches, in one step with the release of the lock.
SseAnswer(c) == \E v \in Version :
    /\ Shows(c, v)
    /\ Return(c, v)
    /\ sse' = [ver |-> v, age |-> 0]
    /\ rest' = [ver |-> v, age |-> 0]
    /\ LeaveLock(c)
    /\ UNCHANGED <<version, changeAge, sinceFetch>>

\* A REST fetch fills the REST cache only.
RestAnswer(c) == \E v \in Version :
    /\ Shows(c, v)
    /\ Return(c, v)
    /\ rest' = [ver |-> v, age |-> 0]
    /\ UNCHANGED <<version, changeAge, sse, lock, sinceFetch>>

\* A call fails or times out (TikTokAPIError), or TikTok does not know the
\* user (TikTokUserNotFound): nothing is cached, the lock is released.
Fail(c) ==
    /\ InCall(c)
    /\ Finish(c)
    /\ LeaveLock(c)
    /\ UNCHANGED <<version, changeAge, sse, rest, got, sinceFetch>>

\* The caller's task is cancelled, in a call or in the queue of the lock.
Cancel(c) ==
    /\ pc[c] # "idle"
    /\ Finish(c)
    /\ IF pc[c] = "lock" /\ holder # c
         THEN /\ \E i \in 1..Len(waiters) :
                    waiters[i] = c /\ waiters' = RemoveAt(waiters, i)
              /\ UNCHANGED holder
         ELSE LeaveLock(c)
    /\ UNCHANGED <<version, changeAge, sse, rest, got, sinceFetch>>

-----------------------------------------------------------------------------

\* Steps of a call that is under way.
SseStep(c)  == SseSecondHit(c) \/ SseFetch(c) \/ RoomFound(c) \/ SseAnswer(c) \/ Fail(c)
RestStep(c) == RoomFound(c) \/ RestAnswer(c) \/ Fail(c)

Next ==
    \/ Change
    \/ Tick
    \/ \E c \in SseCallers : SseHit(c) \/ SseMiss(c) \/ SseStep(c) \/ Cancel(c)
    \/ \E c \in RestCallers : RestHit(c) \/ RestFetch(c) \/ RestStep(c) \/ Cancel(c)

Spec == Init /\ [][Next]_vars

\* A call in flight ends (both have timeouts) and the event loop runs a task
\* that can run.  Nobody has to start a call, and nothing has to change.
FairSpec ==
    /\ Spec
    /\ \A c \in SseCallers : WF_vars(SseStep(c))
    /\ \A c \in RestCallers : WF_vars(RestStep(c))

-----------------------------------------------------------------------------
(* Properties *)

\* At most one SSE caller talks to TikTok, and it holds the lock.
SingleFlight ==
    \A c \in SseCallers : InCall(c) => holder = c

\* The lock is never left behind: its holder is a caller that will run, and
\* everybody in the queue is waiting, once, for somebody.
LockInUse ==
    /\ holder # NoOne => pc[holder] # "idle"
    /\ waiters # <<>> => holder # NoOne
    /\ \A i, j \in 1..Len(waiters) :
        /\ pc[waiters[i]] = "lock"
        /\ waiters[i] # holder
        /\ i # j => waiters[i] # waiters[j]

\* A second SSE fetch never succeeds while the result of another is fresh:
\* callers that found the cache stale together share one answer.
SuccessesSpaced ==
    [][\A c \in SseCallers : SseAnswer(c) => ~Fresh(sse, SseTtl)]_vars

\* An answer of version v, returned now, misses no change older than the
\* TTL of the cache it may have come from plus one call to TikTok.
Misses(v, age) == v < version /\ changeAge[v + 1] >= age

AnswersFresh ==
    [][/\ \A c \in SseCallers :
            SseHit(c) \/ SseSecondHit(c) \/ SseAnswer(c)
                => ~Misses(got'[c], SseTtl + Timeout)
       /\ \A c \in RestCallers :
            RestHit(c) \/ RestAnswer(c)
                => ~Misses(got'[c], RestTtl + Timeout)]_vars

\* Every call returns, with a status or an error, however many callers queue
\* and however often TikTok fails.
CallsReturn == \A c \in Callers : pc[c] # "idle" ~> pc[c] = "idle"

\* The SSE side is a register that follows the streamer and never goes back.
Feed == INSTANCE LiveFeed WITH
            Readers <- SseCallers,
            published <- IF sse = Empty THEN 0 ELSE sse.ver,
            got <- [c \in SseCallers |-> got[c]]

ImplementsLiveFeed == Feed!FeedSpec

(* Claims of the comments in api/tiktok.py that the code does not keep. *)

\* "TikTok is polled at most once per POLL_INTERVAL regardless of subscriber
\* count".
PolledOncePerInterval ==
    [][\A c \in SseCallers : SseFetch(c) => sinceFetch >= SseTtl]_vars
=============================================================================
