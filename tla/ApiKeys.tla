------------------------------- MODULE ApiKeys -------------------------------
(***************************************************************************)
(* The self-service keys of api/keys.py: the SQLite table api_keys, and    *)
(* generate_key and revoke_key, each run in a worker thread.  generate_key *)
(* reads the clock, then waits for _gen_log_lock, under which it looks at  *)
(* both limits, stores the key and logs it; the log dies with the process, *)
(* the table does not.  A key is named after the call that generates it.   *)
(***************************************************************************)
EXTENDS Integers, FiniteSets

CONSTANTS
    Calls,         \* the calls of generate_key there will ever be
    Ips,
    Lifetimes,     \* the values of expires_in
    Never,         \* expires_in = None
    NoKey,         \* no row
    Nobody,        \* the lock is free
    MaxKeys,       \* MAX_KEYS
    MaxKeysPerIp,  \* MAX_KEYS_PER_IP
    Day,           \* 24 hours
    MaxTime        \* bound: when the clock stops

ASSUME KeysAssumption ==
    /\ IsFiniteSet(Calls)
    /\ Nobody \notin Calls
    /\ NoKey \notin [expires : Nat \cup {Never}, active : BOOLEAN]
    /\ Lifetimes \subseteq Nat \ {0}
    /\ Never \notin Nat
    /\ MaxKeys \in Nat /\ MaxKeysPerIp \in Nat
    /\ Day \in Nat \ {0} /\ MaxTime \in Nat

VARIABLES
    now,      \* the clock
    row,      \* the table api_keys
    genLog,   \* _gen_log: per IP, the calls whose timestamp it holds
    lock,     \* who holds _gen_log_lock
    pc,       \* where a call is
    ip,       \* its client
    life,     \* its expires_in
    stamp,    \* the time it read
    logged    \* history: the calls this process has carried through

keyVars == <<now, row, genLog, lock, pc, ip, life, stamp, logged>>

\* What validity depends on; created_at is only listed.
Row == [expires : Nat \cup {Never}, active : BOOLEAN]

InFlight(c) == pc[c] \in {"stamped", "locked", "counted", "inserted"}

KeyTypeOK ==
    /\ now \in 0..MaxTime
    /\ row \in [Calls -> Row \cup {NoKey}]
    /\ genLog \in [Ips -> SUBSET Calls]
    /\ lock \in Calls \cup {Nobody}
    /\ pc \in [Calls -> {"none", "stamped", "locked", "counted", "inserted", "over"}]
    /\ ip \in [Calls -> Ips \cup {Nobody}]
    /\ life \in [Calls -> Lifetimes \cup {Never}]
    /\ stamp \in [Calls -> 0..MaxTime]
    /\ logged \subseteq Calls

KeysInit ==
    /\ now = 0
    /\ row = [c \in Calls |-> NoKey]
    /\ genLog = [i \in Ips |-> {}]
    /\ lock = Nobody
    /\ pc = [c \in Calls |-> "none"]
    /\ ip = [c \in Calls |-> Nobody]
    /\ life = [c \in Calls |-> Never]
    /\ stamp = [c \in Calls |-> 0]
    /\ logged = {}

-----------------------------------------------------------------------------

\* The call raises, and its variables go.
Raise(c) ==
    /\ pc' = [pc EXCEPT ![c] = "over"]
    /\ ip' = [ip EXCEPT ![c] = Nobody]
    /\ life' = [life EXCEPT ![c] = Never]
    /\ stamp' = [stamp EXCEPT ![c] = 0]

GoOn(c, place) ==
    /\ pc' = [pc EXCEPT ![c] = place]
    /\ UNCHANGED <<ip, life, stamp>>

\* POST /api/keys with a valid label and lifetime: the thread reads the clock.
Ask(c) == \E i \in Ips, l \in Lifetimes \cup {Never} :
    /\ pc[c] = "none"
    /\ pc' = [pc EXCEPT ![c] = "stamped"]
    /\ ip' = [ip EXCEPT ![c] = i]
    /\ life' = [life EXCEPT ![c] = l]
    /\ stamp' = [stamp EXCEPT ![c] = now]
    /\ UNCHANGED <<now, row, genLog, lock, logged>>

\* Slip: the window is a tick too short.
RecentTickShort(log, t) == {c \in log : stamp[c] > t - Day + 1}

\* The calls of log less than 24 hours older than t.
Recent(log, t) == {c \in log : stamp[c] > t - Day}

\* Slip: nobody waits for the lock.
Anytime == TRUE

Unlocked == lock = Nobody

\* The lock is acquired and the log pruned; KeyRateLimitError releases it.
Enter(c) ==
    /\ pc[c] = "stamped" /\ Unlocked
    /\ genLog' = [genLog EXCEPT ![ip[c]] = Recent(@, stamp[c])]
    /\ IF Cardinality(genLog'[ip[c]]) >= MaxKeysPerIp
         THEN Raise(c) /\ UNCHANGED lock
         ELSE GoOn(c, "locked") /\ lock' = c
    /\ UNCHANGED <<now, row, logged>>

\* is_active = 1, whether or not the key has expired.
ActiveKeys == {k \in Calls : row[k] # NoKey /\ row[k].active}

CountKeys(c) ==
    /\ pc[c] = "locked"
    /\ IF Cardinality(ActiveKeys) >= MaxKeys
         THEN Raise(c) /\ lock' = Nobody
         ELSE GoOn(c, "counted") /\ UNCHANGED lock
    /\ UNCHANGED <<now, row, genLog, logged>>

InsertKey(c) ==
    /\ pc[c] = "counted"
    /\ pc' = [pc EXCEPT ![c] = "inserted"]
    /\ row' = [row EXCEPT ![c] =
                 [expires |-> IF life[c] = Never THEN Never ELSE stamp[c] + life[c],
                  active |-> TRUE]]
    /\ life' = [life EXCEPT ![c] = Never]
    /\ UNCHANGED <<now, genLog, lock, ip, stamp, logged>>

\* The log is written, the lock released, the key returned.
LogKey(c) ==
    /\ pc[c] = "inserted"
    /\ pc' = [pc EXCEPT ![c] = "over"]
    /\ genLog' = [genLog EXCEPT ![ip[c]] = @ \cup {c}]
    /\ lock' = Nobody
    /\ logged' = logged \cup {c}
    /\ UNCHANGED <<now, row, ip, life, stamp>>

\* Slip: a call that raises keeps the lock.
StillHeld == lock

Released == Nobody

\* A SELECT or an INSERT raises ("database is locked"): the call is over, and
\* the with statement releases the lock.
StatementFails(c) ==
    /\ pc[c] \in {"locked", "counted"}
    /\ Raise(c)
    /\ lock' = Released
    /\ UNCHANGED <<now, row, genLog, logged>>

\* revoke_key, one statement, at any moment.
Revoke(k) ==
    /\ row[k] # NoKey
    /\ row' = [row EXCEPT ![k].active = FALSE]
    /\ UNCHANGED <<now, genLog, lock, pc, ip, life, stamp, logged>>

Tick ==
    /\ now < MaxTime
    /\ now' = now + 1
    /\ UNCHANGED <<row, genLog, lock, pc, ip, life, stamp, logged>>

\* The process stops and starts again: the table is what it was.
KeysRestart ==
    /\ genLog' = [i \in Ips |-> {}]
    /\ lock' = Nobody
    /\ pc' = [c \in Calls |-> IF InFlight(c) THEN "over" ELSE pc[c]]
    /\ ip' = [c \in Calls |-> Nobody]
    /\ life' = [c \in Calls |-> Never]
    /\ stamp' = [c \in Calls |-> 0]
    /\ logged' = {}
    /\ UNCHANGED <<now, row>>

CallStep(c) ==
    Enter(c) \/ CountKeys(c) \/ InsertKey(c) \/ LogKey(c) \/ StatementFails(c)

-----------------------------------------------------------------------------

\* MAX_KEYS is never exceeded, whatever the calls, revocations, failures and
\* restarts in between the count and the insertion.
KeysCapped == Cardinality(ActiveKeys) <= MaxKeys

\* "max keys a single IP can generate per 24 h": of the keys that one process
\* has given to an IP, no more than the limit are less than a day old, even
\* when calls look at the log in another order than they read the clock.
PerIpCapped == \A i \in Ips :
    Cardinality({c \in logged : ip[c] = i /\ stamp[c] > now - Day}) <= MaxKeysPerIp

\* Every call of generate_key comes to an end: the lock is not lost.
CallsEnd == \A c \in Calls : InFlight(c) ~> ~InFlight(c)
=============================================================================
