------------------------------- MODULE ApiAuth -------------------------------
(***************************************************************************)
(* api_key_dependency and _check_rate_limit of api/auth.py, over the keys  *)
(* of ApiKeys: a request presents a key, a worker thread looks it up, and  *)
(* when the answer is back on the event loop the request is rate-limited   *)
(* and admitted.  A key of API_KEYS needs no look-up.                      *)
(***************************************************************************)
EXTENDS ApiKeys, SequencesExt

CONSTANTS
    Requests,
    EnvKeys,       \* VALID_KEYS; with auth disabled, the IPs of the clients
    RateLimit,     \* RATE_LIMIT_REQUESTS
    RateWindow     \* RATE_LIMIT_WINDOW

ASSUME AuthAssumption ==
    /\ EnvKeys \cap Calls = {}
    /\ RateLimit \in Nat
    /\ RateWindow \in Nat \ {0}

Keys == Calls \cup EnvKeys

VARIABLES
    rpc,         \* where a request is
    presented,   \* its key
    readAt,      \* the time its look-up read
    dead,        \* history: its key was no longer valid when it came
    requestLog,  \* _request_log
    served       \* history: the admissions of the last window, by key

authVars == <<rpc, presented, readAt, dead, requestLog, served>>
vars == <<keyVars, authVars>>

AuthTypeOK ==
    /\ rpc \in [Requests -> {"none", "arrived", "reading", "valid", "admitted"}]
    /\ presented \in [Requests -> Keys \cup {Nobody}]
    /\ readAt \in [Requests -> 0..MaxTime]
    /\ dead \in [Requests -> BOOLEAN]
    /\ requestLog \in [Keys -> Seq(0..MaxTime)]
    /\ served \in [Keys -> Seq(0..MaxTime)]

TypeOK == KeyTypeOK /\ AuthTypeOK

Init ==
    /\ KeysInit
    /\ rpc = [q \in Requests |-> "none"]
    /\ presented = [q \in Requests |-> Nobody]
    /\ readAt = [q \in Requests |-> 0]
    /\ dead = [q \in Requests |-> FALSE]
    /\ requestLog = [k \in Keys |-> <<>>]
    /\ served = [k \in Keys |-> <<>>]

-----------------------------------------------------------------------------

Unexpired(k, t) == row[k].expires = Never \/ row[k].expires > t

\* Slip: is_active is not asked for.
ValidIfUnexpired(k, t) == row[k] # NoKey /\ Unexpired(k, t)

\* The row is there, active and not expired, as is_db_key_valid asks of it.
ValidAt(k, t) == row[k] # NoKey /\ row[k].active /\ Unexpired(k, t)

Goto(q, place) == rpc' = [rpc EXCEPT ![q] = place]

\* The request is over, one way or another.
Over(q) ==
    /\ Goto(q, "none")
    /\ presented' = [presented EXCEPT ![q] = Nobody]
    /\ readAt' = [readAt EXCEPT ![q] = 0]
    /\ dead' = [dead EXCEPT ![q] = FALSE]

Arrive(q) == \E k \in Calls :
    /\ rpc[q] = "none"
    /\ Goto(q, "arrived")
    /\ presented' = [presented EXCEPT ![q] = k]
    /\ dead' = [dead EXCEPT ![q] =
                  row[k] # NoKey /\ ~(row[k].active /\ Unexpired(k, now))]
    /\ UNCHANGED <<readAt, requestLog, served>>

\* is_db_key_valid, in its thread: the clock first, then the SELECT.
ReadClock(q) ==
    /\ rpc[q] = "arrived"
    /\ Goto(q, "reading")
    /\ readAt' = [readAt EXCEPT ![q] = now]
    /\ UNCHANGED <<presented, dead, requestLog, served>>

Select(q) ==
    /\ rpc[q] = "reading"
    /\ IF ValidAt(presented[q], readAt[q])
         THEN Goto(q, "valid") /\ UNCHANGED <<presented, readAt, dead>>
         ELSE Over(q)
    /\ UNCHANGED <<requestLog, served>>

\* The SELECT raises ("database is locked"): 500.
LookupFails(q) ==
    /\ rpc[q] = "reading"
    /\ Over(q)
    /\ UNCHANGED <<requestLog, served>>

\* Eviction, entry by entry: what is older than the window goes.
InWindow(log, t) ==
    FoldLeft(LAMBDA kept, x : IF x > t - RateWindow THEN Append(kept, x) ELSE kept,
             <<>>, log)

\* Slip: the entry of an identity that starts afresh is dropped, not begun.
NoFreshStart(log) == IF log = <<>> THEN <<>> ELSE Append(log, now)

Extended(log) == Append(log, now)

\* _check_rate_limit, when there is room: the log is pruned and goes on.
CheckRateLimit(k) ==
    /\ Len(InWindow(requestLog[k], now)) < RateLimit
    /\ requestLog' = [requestLog EXCEPT ![k] = Extended(InWindow(@, now))]

\* HTTP 429: the log is pruned.
RateLimited(k) ==
    /\ Len(InWindow(requestLog[k], now)) >= RateLimit
    /\ requestLog' = [requestLog EXCEPT ![k] = InWindow(@, now)]

Serve(k) == served' = [served EXCEPT ![k] = Append(@, now)]

\* The look-up is back: the request is admitted, or answered 429.
Admit(q) ==
    /\ rpc[q] = "valid"
    /\ CheckRateLimit(presented[q])
    /\ Serve(presented[q])
    /\ Goto(q, "admitted")
    /\ UNCHANGED <<presented, readAt, dead>>

Limit(q) ==
    /\ rpc[q] = "valid"
    /\ RateLimited(presented[q])
    /\ Over(q)
    /\ UNCHANGED served

\* The handler of an admitted request has answered.
Answered(q) ==
    /\ rpc[q] = "admitted"
    /\ Over(q)
    /\ UNCHANGED <<requestLog, served>>

\* A request that needs no look-up, all in one go.
ServeEnv == \E k \in EnvKeys :
    /\ \/ CheckRateLimit(k) /\ Serve(k)
       \/ RateLimited(k) /\ UNCHANGED served
    /\ UNCHANGED <<rpc, presented, readAt, dead>>

RequestStep(q) ==
    \/ Arrive(q) \/ ReadClock(q) \/ Select(q) \/ LookupFails(q)
    \/ Admit(q) \/ Limit(q) \/ Answered(q)

\* A new process knows nothing of what the last one served.
Restart ==
    /\ KeysRestart
    /\ rpc' = [q \in Requests |-> "none"]
    /\ presented' = [q \in Requests |-> Nobody]
    /\ readAt' = [q \in Requests |-> 0]
    /\ dead' = [q \in Requests |-> FALSE]
    /\ requestLog' = [k \in Keys |-> <<>>]
    /\ served' = [k \in Keys |-> <<>>]

\* Time passes for everyone; served forgets what is out of the window.
Later ==
    /\ Tick
    /\ served' = [k \in Keys |-> InWindow(served[k], now')]
    /\ UNCHANGED <<rpc, presented, readAt, dead, requestLog>>

Next ==
    \/ Later \/ Restart
    \/ \E c \in Calls : (Ask(c) \/ CallStep(c) \/ Revoke(c)) /\ UNCHANGED authVars
    \/ (ServeEnv \/ \E q \in Requests : RequestStep(q)) /\ UNCHANGED keyVars

\* The worker thread of a call goes on when it can.
Fairness == \A c \in Calls : WF_vars(CallStep(c) /\ UNCHANGED authVars)

Spec == Init /\ [][Next]_vars /\ Fairness

-----------------------------------------------------------------------------

\* A key that was revoked, or had expired, before a request came does not let
\* the request in, however late the look-up and whatever happens meanwhile.
DeadKeysRefused == \A q \in Requests : rpc[q] = "admitted" => ~dead[q]

\* No key is served more than RATE_LIMIT_REQUESTS times in any window of
\* RATE_LIMIT_WINDOW, this one or one gone by, though the log is pruned only
\* when it is looked at.
RateCapped == \A k \in Keys : Len(served[k]) <= RateLimit
=============================================================================
