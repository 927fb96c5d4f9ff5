--------------------------- MODULE StatusCacheProofs ---------------------------
(***************************************************************************)
(* Proofs about StatusCache, for any callers, any TTLs and timeout and any *)
(* number of changes: its types, the discipline of the lock, the double    *)
(* check, that the SSE side implements LiveFeed and what its readers may   *)
(* rely on, and how old an answer may be.                                  *)
(***************************************************************************)
EXTENDS StatusCache, SequenceTheorems, TLAPS

\* The version the SSE side has published.
Published == IF sse = Empty THEN 0 ELSE sse.ver

\* The fetch of an SSE caller: it owns the lock, the cache it found stale is
\* still stale, and it will see nothing older than what is published.
FetchInv ==
    \A c \in SseCallers :
        InCall(c) => /\ holder = c
                     /\ ~Fresh(sse, SseTtl)
                     /\ Published <= since[c]

CacheInv ==
    /\ TypeOK
    /\ LockInUse
    /\ FetchInv
    /\ \A c \in RestCallers : pc[c] # "lock"
    /\ Published <= version
    /\ \A c \in Callers : since[c] <= version

-----------------------------------------------------------------------------
(* Sequences *)

\* Taking one element out of a queue.
LEMMA RemoveAtFacts ==
    ASSUME NEW S, NEW s \in Seq(S), NEW i \in 1..Len(s)
    PROVE  /\ RemoveAt(s, i) \in Seq(S)
           /\ Len(RemoveAt(s, i)) = Len(s) - 1
           /\ \A j \in 1..(Len(s) - 1) :
                RemoveAt(s, i)[j] = IF j < i THEN s[j] ELSE s[j + 1]
<1> DEFINE a == SubSeq(s, 1, i - 1)
           b == SubSeq(s, i + 1, Len(s))
<1>0. Len(s) \in Nat /\ i \in Nat
  OBVIOUS
<1>1. /\ a \in Seq(S) /\ Len(a) = i - 1
      /\ \A j \in 1..(i - 1) : a[j] = s[j]
  BY <1>0
<1>2. /\ b \in Seq(S) /\ Len(b) = Len(s) - i
      /\ \A j \in 1..(Len(s) - i) : b[j] = s[i + j]
  BY <1>0
<1>3. RemoveAt(s, i) = a \o b
  BY DEF RemoveAt
<1> HIDE DEF a, b
<1>4. /\ a \o b \in Seq(S)
      /\ Len(a \o b) = Len(a) + Len(b)
      /\ \A j \in 1..(Len(a) + Len(b)) :
            (a \o b)[j] = IF j <= Len(a) THEN a[j] ELSE b[j - Len(a)]
  <2>1. a \in Seq(S) /\ b \in Seq(S)
    BY <1>1, <1>2
  <2>2. QED  BY <2>1, ConcatProperties, Zenon
<1>5. Len(a) + Len(b) = Len(s) - 1
  BY <1>0, <1>1, <1>2
<1>6. ASSUME NEW j \in 1..(Len(s) - 1)
      PROVE  (a \o b)[j] = IF j < i THEN s[j] ELSE s[j + 1]
  <2>1. (a \o b)[j] = IF j <= i - 1 THEN a[j] ELSE b[j - (i - 1)]
    BY <1>1, <1>4, <1>5
  <2>2. CASE j < i
    BY <1>0, <1>1, <2>1, <2>2
  <2>3. CASE ~(j < i)
    <3>1. j - (i - 1) \in 1..(Len(s) - i) /\ i + (j - (i - 1)) = j + 1
      BY <1>0, <2>3
    <3>2. b[j - (i - 1)] = s[j + 1]
      <4>1. b[j - (i - 1)] = s[i + (j - (i - 1))]
        BY <1>2, <3>1
      <4>2. QED  BY <3>1, <4>1
    <3>3. ~(j <= i - 1)
      BY <1>0, <2>3
    <3>4. QED  BY <2>1, <2>3, <3>2, <3>3
  <2>4. QED  BY <2>2, <2>3
<1>7. QED  BY <1>3, <1>4, <1>5, <1>6

-----------------------------------------------------------------------------
(* The lock *)

\* The lock as it is when nobody starts or stops to wait.
LEMMA LockKept ==
    ASSUME TypeOK, LockInUse, UNCHANGED lock,
           \A c \in SseCallers : pc[c] # "idle" => pc'[c] # "idle",
           \A c \in SseCallers : pc[c] = "lock" =>
                pc'[c] = "lock" \/ holder = c
    PROVE  LockInUse'
BY DEF TypeOK, LockInUse, lock

\* A caller asks for the lock.
LEMMA LockAcquired ==
    ASSUME TypeOK, LockInUse, NEW c \in SseCallers, pc[c] = "idle", Acquire(c),
           pc' = [pc EXCEPT ![c] = "lock"]
    PROVE  /\ holder' \in SseCallers \cup {NoOne}
           /\ waiters' \in Seq(SseCallers)
           /\ LockInUse'
           /\ holder = NoOne \/ holder' = holder
<1>0. c \in Callers /\ NoOne \notin Callers
  BY CacheAssumption DEF Callers
<1>1. CASE holder = NoOne
  <2>1. waiters = <<>>
    BY <1>1 DEF LockInUse
  <2>2. holder' = c /\ waiters' = <<>> /\ pc'[c] = "lock" /\ Len(waiters') = 0
    BY <1>0, <1>1, <2>1 DEF Acquire, TypeOK
  <2>3. QED  BY <1>1, <2>1, <2>2 DEF LockInUse, TypeOK
<1>2. CASE holder # NoOne
  <2>1. /\ waiters' = Append(waiters, c) /\ holder' = holder
        /\ waiters \in Seq(SseCallers) /\ Len(waiters) \in Nat
        /\ holder \in SseCallers
    BY <1>2 DEF Acquire, TypeOK
  <2>2. /\ waiters' \in Seq(SseCallers)
        /\ Len(waiters') = Len(waiters) + 1
        /\ waiters'[Len(waiters) + 1] = c
        /\ \A i \in 1..Len(waiters) : waiters'[i] = waiters[i]
    BY <2>1
  <2>3. /\ \A i \in 1..Len(waiters) : waiters[i] \in Callers /\ waiters[i] # c
        /\ holder # c /\ holder \in Callers
    BY <1>2, <2>1 DEF LockInUse, TypeOK, Callers
  <2>4. pc'[c] = "lock" /\ \A d \in Callers : d # c => pc'[d] = pc[d]
    BY <1>0 DEF TypeOK
  <2>5. /\ holder' # NoOne => pc'[holder'] # "idle"
        /\ waiters' # <<>> => holder' # NoOne
    BY <1>2, <2>1, <2>3, <2>4 DEF LockInUse
  <2>6. ASSUME NEW i \in 1..Len(waiters'), NEW j \in 1..Len(waiters')
        PROVE  /\ pc'[waiters'[i]] = "lock"
               /\ waiters'[i] # holder'
               /\ i # j => waiters'[i] # waiters'[j]
    BY <2>1, <2>2, <2>3, <2>4 DEF LockInUse
  <2>7. QED  BY <2>1, <2>2, <2>5, <2>6 DEF LockInUse
<1>3. QED  BY <1>1, <1>2

\* The holder leaves, and hands the lock to the first in the queue.
LEMMA LockReleased ==
    ASSUME TypeOK, LockInUse, NEW c \in SseCallers, holder = c, Release,
           pc' = [pc EXCEPT ![c] = "idle"]
    PROVE  /\ holder' \in SseCallers \cup {NoOne}
           /\ waiters' \in Seq(SseCallers)
           /\ LockInUse'
           /\ \A d \in SseCallers : holder' = d => pc[d] = "lock"
<1>0. c \in Callers /\ NoOne \notin Callers
  BY CacheAssumption DEF Callers
<1>1. CASE waiters = <<>>
  <2>1. holder' = NoOne /\ waiters' = <<>> /\ Len(waiters') = 0
    BY <1>1 DEF Release
  <2>2. QED  BY <1>0, <2>1 DEF LockInUse, TypeOK, Callers
<1>2. CASE waiters # <<>>
  <2>1. /\ waiters \in Seq(SseCallers) /\ Len(waiters) \in Nat
        /\ Len(waiters) >= 1
        /\ holder' = waiters[1] /\ waiters' = Tail(waiters)
    BY <1>2 DEF Release, TypeOK
  <2>2. /\ waiters' \in Seq(SseCallers)
        /\ Len(waiters') = Len(waiters) - 1
        /\ \A i \in 1..Len(waiters') : waiters'[i] = waiters[i + 1]
    BY <2>1
  <2>3. \A i \in 1..Len(waiters) : waiters[i] \in Callers /\ waiters[i] # c
                                    /\ waiters[i] \in SseCallers
    BY <2>1 DEF LockInUse, Callers
  <2>4. \A d \in Callers : d # c => pc'[d] = pc[d]
    BY DEF TypeOK
  <2>5. /\ holder' \in SseCallers /\ pc[holder'] = "lock" /\ pc'[holder'] = "lock"
        /\ holder' # NoOne
    BY <1>0, <2>1, <2>3, <2>4 DEF LockInUse
  <2>6. ASSUME NEW i \in 1..Len(waiters'), NEW j \in 1..Len(waiters')
        PROVE  /\ pc'[waiters'[i]] = "lock"
               /\ waiters'[i] # holder'
               /\ i # j => waiters'[i] # waiters'[j]
    <3>1. /\ i + 1 \in 1..Len(waiters) /\ j + 1 \in 1..Len(waiters)
          /\ 1 \in 1..Len(waiters) /\ i + 1 # 1
          /\ i # j => i + 1 # j + 1
      BY <2>1, <2>2
    <3>2. QED  BY <2>1, <2>2, <2>3, <2>4, <3>1 DEF LockInUse
  <2>7. QED  BY <2>2, <2>5, <2>6 DEF LockInUse
<1>3. QED  BY <1>1, <1>2

\* A caller in the queue is cancelled.
LEMMA LockAbandoned ==
    ASSUME TypeOK, LockInUse, NEW c \in SseCallers, NEW k \in 1..Len(waiters),
           waiters[k] = c, waiters' = RemoveAt(waiters, k), UNCHANGED holder,
           pc' = [pc EXCEPT ![c] = "idle"]
    PROVE  waiters' \in Seq(SseCallers) /\ LockInUse'
<1>0. c \in Callers
  BY DEF Callers
<1>1. waiters \in Seq(SseCallers) /\ Len(waiters) \in Nat
  BY DEF TypeOK
<1>2. /\ waiters' \in Seq(SseCallers)
      /\ Len(waiters') = Len(waiters) - 1
      /\ \A j \in 1..(Len(waiters) - 1) :
            waiters'[j] = IF j < k THEN waiters[j] ELSE waiters[j + 1]
  BY <1>1, RemoveAtFacts
<1>3. holder # c /\ holder # NoOne /\ holder \in Callers
  BY <1>1 DEF LockInUse, TypeOK, Callers
<1>4. \A d \in Callers : d # c => pc'[d] = pc[d]
  BY DEF TypeOK
<1>5. ASSUME NEW i \in 1..Len(waiters'), NEW j \in 1..Len(waiters')
      PROVE  /\ pc'[waiters'[i]] = "lock"
             /\ waiters'[i] # holder'
             /\ i # j => waiters'[i] # waiters'[j]
  <2> DEFINE Old(n) == IF n < k THEN n ELSE n + 1
  <2>1. /\ Old(i) \in 1..Len(waiters) /\ Old(j) \in 1..Len(waiters)
        /\ Old(i) # k /\ (i # j => Old(i) # Old(j))
        /\ waiters'[i] = waiters[Old(i)] /\ waiters'[j] = waiters[Old(j)]
    BY <1>1, <1>2
  <2> HIDE DEF Old
  <2>2. waiters[Old(i)] # c /\ waiters[Old(i)] \in Callers
    BY <1>1, <2>1 DEF LockInUse, Callers
  <2>3. QED  BY <1>4, <2>1, <2>2 DEF LockInUse
<1>7. QED  BY <1>2, <1>3, <1>4, <1>5 DEF LockInUse

-----------------------------------------------------------------------------
(* The invariant *)

\* What the assumption on the constants gives the steps below.
LEMMA CacheConstants ==
    /\ SseTtl \in Nat /\ RestTtl \in Nat /\ Timeout \in Nat /\ MaxVersion \in Nat
    /\ SseTtl > 0 /\ SseTtl <= RestTtl
    /\ NoOne \notin Callers
    /\ SseCallers \subseteq Callers /\ RestCallers \subseteq Callers
    /\ SseCallers \cap RestCallers = {}
    /\ Empty \notin Entry
BY CacheAssumption DEF Callers, Entry, Version

LEMMA CacheInvInit == Init => CacheInv
<1> SUFFICES ASSUME Init  PROVE CacheInv
  OBVIOUS
<1>1. TypeOK
  BY CacheConstants DEF Init, TypeOK, Version, Horizon
<1>2. LockInUse /\ FetchInv
  BY CacheConstants DEF Init, LockInUse, FetchInv, InCall
<1>3. QED
  BY <1>1, <1>2, CacheConstants DEF Init, CacheInv, Published, Version

\* A fresh entry has been fresh before; an entry keeps its version.
LEMMA AgedFacts ==
    ASSUME NEW e \in Entry \cup {Empty}
    PROVE  /\ Aged(e) \in Entry \cup {Empty}
           /\ Fresh(Aged(e), SseTtl) => Fresh(e, SseTtl)
           /\ Aged(e) = Empty <=> e = Empty
           /\ e # Empty => Aged(e).ver = e.ver
<1>1. CASE e = Empty
  BY <1>1, CacheConstants DEF Aged, Fresh
<1>2. CASE e # Empty
  <2>1. e \in [ver : Version, age : 0..RestTtl]
    BY <1>2 DEF Entry
  <2>2. /\ Aged(e) = [e EXCEPT !.age = Older(e.age, RestTtl)]
        /\ Older(e.age, RestTtl) \in 0..RestTtl
        /\ Older(e.age, RestTtl) < SseTtl => e.age < SseTtl
    BY <1>2, <2>1, CacheConstants DEF Aged, Older
  <2>3. /\ Aged(e) \in Entry
        /\ Aged(e).ver = e.ver
        /\ Aged(e).age = Older(e.age, RestTtl)
    BY <2>1, <2>2 DEF Entry
  <2>4. QED  BY <1>2, <2>2, <2>3, CacheConstants DEF Fresh
<1>3. QED  BY <1>1, <1>2

\* A caller that ends its call in FetchInv's sense: nobody else is disturbed.
LEMMA FinishFacts ==
    ASSUME TypeOK, NEW c \in Callers, Finish(c)
    PROVE  /\ pc' \in [Callers -> {"idle", "lock", "room", "info"}]
           /\ since' \in [Callers -> Version]
           /\ left' \in [Callers -> 0..Timeout]
           /\ pc'[c] = "idle" /\ since'[c] = 0
           /\ \A d \in Callers \ {c} : pc'[d] = pc[d] /\ since'[d] = since[d]
BY CacheConstants DEF TypeOK, Finish, Version

LEMMA SendFacts ==
    ASSUME TypeOK, NEW c \in Callers, NEW call \in {"room", "info"}, Send(c, call)
    PROVE  /\ pc' \in [Callers -> {"idle", "lock", "room", "info"}]
           /\ since' \in [Callers -> Version]
           /\ left' \in [Callers -> 0..Timeout]
           /\ pc'[c] = call /\ since'[c] = version
           /\ \A d \in Callers \ {c} : pc'[d] = pc[d] /\ since'[d] = since[d]
BY CacheConstants DEF TypeOK, Send

\* Steps of the world: the streamer changes, time passes.
LEMMA WorldStep == CacheInv /\ (Change \/ Tick) => CacheInv'
<1> SUFFICES ASSUME CacheInv, Change \/ Tick  PROVE CacheInv'
  OBVIOUS
<1> USE CacheConstants
<1>0. TypeOK /\ LockInUse /\ FetchInv
  BY DEF CacheInv
<1>1. UNCHANGED <<lock, pc, since, got>>
  BY DEF Change, Tick
<1>2. LockInUse'
  BY <1>0, <1>1, LockKept DEF TypeOK
<1>3. CASE Change
  <2>1. TypeOK'
    BY <1>0, <1>3 DEF Change, TypeOK, Version, Horizon, lock
  <2>2. version' = version + 1 /\ version \in Nat /\ sse' = sse
    BY <1>0, <1>3 DEF Change, TypeOK, Version
  <2>3. Published' = Published /\ FetchInv'
    BY <1>0, <1>1, <2>2 DEF Published, FetchInv, InCall, lock
  <2>4. Published \in Nat /\ \A c \in Callers : since[c] \in Nat
    BY <1>0 DEF Published, TypeOK, Entry, Version
  <2>5. QED  BY <1>1, <1>2, <2>1, <2>2, <2>3, <2>4 DEF CacheInv
<1>4. CASE Tick
  <2>1. /\ sse' = Aged(sse) /\ rest' = Aged(rest) /\ version' = version
        /\ sse \in Entry \cup {Empty} /\ rest \in Entry \cup {Empty}
    BY <1>0, <1>4 DEF Tick, TypeOK
  <2>2. /\ sse' \in Entry \cup {Empty} /\ rest' \in Entry \cup {Empty}
        /\ Fresh(sse', SseTtl) => Fresh(sse, SseTtl)
        /\ Published' = Published
    BY <2>1, AgedFacts DEF Published
  <2>3. left' \in [Callers -> 0..Timeout]
    <3>1. \A c \in Callers : InCall(c) => left[c] - 1 \in 0..Timeout
      BY <1>0, <1>4 DEF Tick, TypeOK
    <3>2. QED  BY <1>0, <1>4, <3>1 DEF Tick, TypeOK
  <2>4. changeAge' \in [1..MaxVersion -> 0..Horizon]
    BY <1>0, <1>4 DEF Tick, TypeOK, Older, Horizon
  <2>5. sinceFetch' \in 0..SseTtl
    BY <1>0, <1>4 DEF Tick, TypeOK, Older
  <2>6. TypeOK'
    BY <1>0, <1>1, <2>1, <2>2, <2>3, <2>4, <2>5 DEF TypeOK, lock
  <2>7. FetchInv'
    BY <1>0, <1>1, <2>2 DEF FetchInv, InCall, Fresh, lock
  <2>8. QED  BY <1>1, <1>2, <2>1, <2>2, <2>6, <2>7 DEF CacheInv
<1>5. QED  BY <1>3, <1>4

\* Steps of a REST caller: it has no part in the lock or in the SSE cache.
LEMMA RestCallerStep ==
    ASSUME CacheInv, NEW c \in RestCallers,
           RestHit(c) \/ RestFetch(c) \/ RestStep(c) \/ Cancel(c)
    PROVE  CacheInv'
<1> USE CacheConstants
<1>0. TypeOK /\ LockInUse /\ FetchInv /\ c \in Callers /\ c \notin SseCallers
      /\ version \in Nat
  BY DEF CacheInv, TypeOK, Version
<1>1. holder # c /\ pc[c] # "lock"
  BY <1>0 DEF CacheInv, TypeOK
<1>2. /\ UNCHANGED <<version, changeAge, sse, lock, sinceFetch>>
      /\ \/ Finish(c)
         \/ \E call \in {"room", "info"} : Send(c, call)
  BY <1>1 DEF RestHit, RestFetch, RestStep, RoomFound, RestAnswer, Fail, Cancel,
              LeaveLock, Return, lock
<1>3. /\ pc' \in [Callers -> {"idle", "lock", "room", "info"}]
      /\ since' \in [Callers -> Version]
      /\ left' \in [Callers -> 0..Timeout]
      /\ pc'[c] # "lock" /\ since'[c] <= version
      /\ \A d \in Callers \ {c} : pc'[d] = pc[d] /\ since'[d] = since[d]
  BY <1>0, <1>2, FinishFacts, SendFacts
<1>4. /\ rest' \in Entry \cup {Empty}
      /\ got' \in [Callers -> Version]
  <2>1. \A v \in Version : [ver |-> v, age |-> 0] \in Entry
    BY DEF Entry
  <2>2. Fresh(rest, RestTtl) => rest.ver \in Version
    BY <1>0 DEF Fresh, TypeOK, Entry
  <2>3. CASE RestHit(c)
    BY <1>0, <2>2, <2>3 DEF RestHit, Return, TypeOK
  <2>4. CASE RestFetch(c) \/ RoomFound(c) \/ Fail(c) \/ Cancel(c)
    BY <1>0, <2>4 DEF RestFetch, RoomFound, Fail, Cancel, TypeOK
  <2>5. CASE RestAnswer(c)
    <3>1. PICK v \in Version : /\ rest' = [ver |-> v, age |-> 0]
                               /\ got' = [got EXCEPT ![c] = v]
      BY <2>5 DEF RestAnswer, Return
    <3>2. rest' \in Entry
      BY <2>1, <3>1
    <3>3. got' \in [Callers -> Version]
      BY <1>0, <3>1 DEF TypeOK
    <3>4. QED  BY <3>2, <3>3
  <2>6. RestHit(c) \/ RestFetch(c) \/ RestStep(c) \/ Cancel(c)
    OBVIOUS
  <2>7. QED  BY <2>3, <2>4, <2>5, <2>6 DEF RestStep
<1>5. TypeOK'
  BY <1>0, <1>2, <1>3, <1>4 DEF TypeOK, lock
<1>6. LockInUse'
  BY <1>0, <1>2, <1>3, LockKept
<1>7. FetchInv' /\ Published' = Published
  BY <1>0, <1>2, <1>3 DEF FetchInv, Published, InCall, lock
<1>8. QED
  BY <1>0, <1>2, <1>3, <1>5, <1>6, <1>7 DEF CacheInv

\* A stream caller starts: it is served from the cache, or asks for the lock.
LEMMA SseStart ==
    ASSUME CacheInv, NEW c \in SseCallers, SseHit(c) \/ SseMiss(c)
    PROVE  CacheInv'
<1> USE CacheConstants
<1>0. TypeOK /\ LockInUse /\ FetchInv /\ c \in Callers /\ c \notin RestCallers
      /\ pc[c] = "idle" /\ version \in Nat
  BY DEF CacheInv, TypeOK, Version, SseHit, SseEntry, SseMiss
<1>1. CASE SseHit(c)
  <2>1. sse.ver \in Version /\ UNCHANGED <<version, sse, lock>>
    BY <1>0, <1>1 DEF SseHit, SseEntry, Fresh, TypeOK, Entry
  <2>2. Finish(c) /\ got' \in [Callers -> Version]
    BY <1>0, <1>1, <2>1 DEF SseHit, SseEntry, Return, TypeOK
  <2>3. pc' = pc
    BY <1>0, <2>2 DEF Finish, TypeOK
  <2>4. TypeOK'
    BY <1>0, <1>1, <2>2, FinishFacts DEF SseHit, SseEntry, TypeOK, lock
  <2>5. LockInUse'
    BY <1>0, <2>1, <2>3, LockKept
  <2>6. FetchInv' /\ Published' = Published
    BY <1>0, <2>1, <2>2, FinishFacts DEF FetchInv, Published, InCall, lock
  <2>7. QED  BY <1>0, <2>1, <2>2, <2>3, <2>4, <2>5, <2>6, FinishFacts DEF CacheInv
<1>2. CASE SseMiss(c)
  <2>1. /\ UNCHANGED <<version, sse, since>>
        /\ pc' = [pc EXCEPT ![c] = "lock"]
        /\ Acquire(c)
    BY <1>2 DEF SseMiss
  <2>2. /\ holder' \in SseCallers \cup {NoOne} /\ waiters' \in Seq(SseCallers)
        /\ LockInUse' /\ (holder = NoOne \/ holder' = holder)
    BY <1>0, <2>1, LockAcquired
  <2>3. /\ pc' \in [Callers -> {"idle", "lock", "room", "info"}]
        /\ pc'[c] = "lock" /\ \A d \in Callers \ {c} : pc'[d] = pc[d]
    BY <1>0, <2>1 DEF TypeOK
  <2>4. TypeOK'
    BY <1>0, <1>2, <2>2, <2>3 DEF SseMiss, TypeOK
  <2>5. FetchInv' /\ Published' = Published
    BY <1>0, <2>1, <2>2, <2>3 DEF FetchInv, Published, InCall
  <2>6. QED  BY <1>0, <2>1, <2>2, <2>3, <2>4, <2>5 DEF CacheInv
<1>3. QED  BY <1>1, <1>2

\* The holder of the lock leaves the block, without an answer of its own.
LEMMA HolderLeaves ==
    ASSUME CacheInv, NEW c \in SseCallers, holder = c, Finish(c), Release,
           got' \in [Callers -> Version],
           UNCHANGED <<version, changeAge, sse, rest, sinceFetch>>
    PROVE  CacheInv'
<1> USE CacheConstants
<1>0. TypeOK /\ LockInUse /\ FetchInv /\ c \in Callers /\ c \notin RestCallers
      /\ version \in Nat /\ pc' = [pc EXCEPT ![c] = "idle"]
  BY DEF CacheInv, TypeOK, Version, Finish
<1>1. /\ holder' \in SseCallers \cup {NoOne} /\ waiters' \in Seq(SseCallers)
      /\ LockInUse'
  BY <1>0, LockReleased
<1>2. TypeOK'
  BY <1>0, <1>1, FinishFacts DEF TypeOK
<1>3. FetchInv' /\ Published' = Published
  BY <1>0, FinishFacts DEF FetchInv, Published, InCall
<1>4. QED  BY <1>0, <1>1, <1>2, <1>3, FinishFacts DEF CacheInv

\* The holder of the lock stays in the block and sends a call.
LEMMA HolderSends ==
    ASSUME CacheInv, NEW c \in SseCallers, SseFetch(c) \/ RoomFound(c)
    PROVE  CacheInv'
<1> USE CacheConstants
<1>0. TypeOK /\ LockInUse /\ FetchInv /\ c \in Callers /\ c \notin RestCallers
      /\ version \in Nat /\ version \in Version
  BY DEF CacheInv, TypeOK, Version
<1>1. /\ UNCHANGED <<version, changeAge, sse, rest, lock, got>>
      /\ holder = c /\ ~Fresh(sse, SseTtl) /\ pc[c] # "idle"
      /\ sinceFetch' \in 0..SseTtl
      /\ \E call \in {"room", "info"} : Send(c, call)
  BY <1>0 DEF SseFetch, Stale, RoomFound, FetchInv, InCall, TypeOK
<1>2. /\ pc' \in [Callers -> {"idle", "lock", "room", "info"}]
      /\ since' \in [Callers -> Version]
      /\ left' \in [Callers -> 0..Timeout]
      /\ pc'[c] \in {"room", "info"} /\ since'[c] = version
      /\ \A d \in Callers \ {c} : pc'[d] = pc[d] /\ since'[d] = since[d]
  BY <1>0, <1>1, SendFacts
<1>3. TypeOK'
  BY <1>0, <1>1, <1>2 DEF TypeOK, lock
<1>4. LockInUse'
  BY <1>0, <1>1, <1>2, LockKept
<1>5. FetchInv' /\ Published' = Published
  BY <1>0, <1>1, <1>2 DEF FetchInv, CacheInv, Published, InCall, lock
<1>6. QED  BY <1>0, <1>1, <1>2, <1>3, <1>4, <1>5 DEF CacheInv

\* The holder of the lock publishes what it has fetched.
LEMMA HolderPublishes ==
    ASSUME CacheInv, NEW c \in SseCallers, SseAnswer(c)
    PROVE  /\ CacheInv'
           /\ ~Fresh(sse, SseTtl)
           /\ Published' \in Published..version
           /\ got' = [got EXCEPT ![c] = Published']
<1> USE CacheConstants
<1>0. TypeOK /\ LockInUse /\ FetchInv /\ c \in Callers /\ c \notin RestCallers
      /\ version \in Nat
  BY DEF CacheInv, TypeOK, Version
<1>1. PICK v \in Version :
        /\ InCall(c) /\ v \in since[c]..version
        /\ Finish(c) /\ got' = [got EXCEPT ![c] = v]
        /\ sse' = [ver |-> v, age |-> 0] /\ rest' = [ver |-> v, age |-> 0]
        /\ LeaveLock(c)
        /\ UNCHANGED <<version, changeAge, sinceFetch>>
  BY DEF SseAnswer, Shows, Return
<1>2. holder = c /\ ~Fresh(sse, SseTtl) /\ Published <= since[c]
  BY <1>0, <1>1 DEF FetchInv
<1>3. pc' = [pc EXCEPT ![c] = "idle"] /\ Release
  BY <1>1, <1>2 DEF Finish, LeaveLock
<1>4. /\ holder' \in SseCallers \cup {NoOne} /\ waiters' \in Seq(SseCallers)
      /\ LockInUse'
  BY <1>0, <1>2, <1>3, LockReleased
<1>5. [ver |-> v, age |-> 0] \in Entry
  BY DEF Entry
<1>6. sse' # Empty /\ sse'.ver = v
  BY <1>1, <1>5
<1>7. Published' = v /\ Published \in Nat /\ since[c] \in Nat /\ v \in Nat
  BY <1>0, <1>6 DEF Published, TypeOK, Version, Entry
<1>8. got' \in [Callers -> Version]
  BY <1>0, <1>1 DEF TypeOK
<1>9. TypeOK'
  BY <1>0, <1>1, <1>4, <1>5, <1>8, FinishFacts DEF TypeOK
<1>10. FetchInv'
  BY <1>0, <1>1, <1>2, FinishFacts DEF FetchInv, InCall
<1>11. CacheInv'
  <2>1. /\ pc'[c] = "idle" /\ since'[c] = 0
        /\ \A d \in Callers \ {c} : pc'[d] = pc[d] /\ since'[d] = since[d]
    BY <1>0, <1>1, FinishFacts
  <2>2. /\ \A d \in RestCallers : pc'[d] # "lock"
        /\ \A d \in Callers : since'[d] <= version'
    BY <1>0, <1>1, <2>1 DEF CacheInv
  <2>3. Published' <= version'
    BY <1>0, <1>1, <1>7
  <2>4. QED  BY <1>4, <1>9, <1>10, <2>2, <2>3 DEF CacheInv
<1>12. QED  BY <1>1, <1>2, <1>7, <1>11

\* A stream caller gives up in the queue of the lock.
LEMMA WaiterCancelled ==
    ASSUME CacheInv, NEW c \in SseCallers, Cancel(c), pc[c] = "lock", holder # c
    PROVE  CacheInv'
<1> USE CacheConstants
<1>0. TypeOK /\ LockInUse /\ FetchInv /\ c \in Callers /\ c \notin RestCallers
      /\ version \in Nat
  BY DEF CacheInv, TypeOK, Version
<1>1. /\ Finish(c) /\ UNCHANGED holder
      /\ UNCHANGED <<version, changeAge, sse, rest, got, sinceFetch>>
      /\ pc' = [pc EXCEPT ![c] = "idle"]
  BY DEF Cancel, Finish
<1>2. PICK k \in 1..Len(waiters) : waiters[k] = c /\ waiters' = RemoveAt(waiters, k)
  BY DEF Cancel
<1>3. waiters' \in Seq(SseCallers) /\ LockInUse'
  BY <1>0, <1>1, <1>2, LockAbandoned
<1>4. TypeOK'
  BY <1>0, <1>1, <1>3, FinishFacts DEF TypeOK
<1>5. FetchInv' /\ Published' = Published
  BY <1>0, <1>1, FinishFacts DEF FetchInv, Published, InCall
<1>6. /\ \A d \in RestCallers : pc'[d] # "lock"
      /\ \A d \in Callers : since'[d] <= version'
  <2>1. /\ pc'[c] = "idle" /\ since'[c] = 0
        /\ \A d \in Callers \ {c} : pc'[d] = pc[d] /\ since'[d] = since[d]
    BY <1>0, <1>1, FinishFacts
  <2>2. QED  BY <1>0, <1>1, <2>1 DEF CacheInv
<1>7. QED  BY <1>1, <1>3, <1>4, <1>5, <1>6 DEF CacheInv

LEMMA SseCallerStep ==
    ASSUME CacheInv, NEW c \in SseCallers,
           SseHit(c) \/ SseMiss(c) \/ SseStep(c) \/ Cancel(c)
    PROVE  CacheInv'
<1>0. TypeOK /\ LockInUse /\ FetchInv /\ c \in Callers
  BY CacheConstants DEF CacheInv
<1>1. CASE SseHit(c) \/ SseMiss(c)
  BY <1>1, SseStart
<1>2. CASE SseFetch(c) \/ RoomFound(c)
  BY <1>2, HolderSends
<1>3. CASE SseAnswer(c)
  BY <1>3, HolderPublishes
<1>4. CASE SseSecondHit(c)
  <2>1. sse.ver \in Version
    BY <1>0, <1>4 DEF SseSecondHit, Fresh, TypeOK, Entry
  <2>2. /\ holder = c /\ Finish(c) /\ Release
        /\ UNCHANGED <<version, changeAge, sse, rest, sinceFetch>>
        /\ got' \in [Callers -> Version]
    BY <1>0, <1>4, <2>1 DEF SseSecondHit, Return, TypeOK
  <2>3. QED  BY <2>2, HolderLeaves
<1>5. CASE Fail(c) \/ (Cancel(c) /\ ~(pc[c] = "lock" /\ holder # c))
  <2>1. holder = c
    <3>1. CASE Fail(c)
      BY <1>0, <3>1 DEF Fail, FetchInv
    <3>2. CASE Cancel(c) /\ pc[c] # "lock"
      BY <1>0, <3>2 DEF Cancel, FetchInv, InCall, TypeOK
    <3>3. QED  BY <1>5, <3>1, <3>2
  <2>2. /\ Finish(c) /\ Release
        /\ UNCHANGED <<version, changeAge, sse, rest, got, sinceFetch>>
    BY <1>5, <2>1 DEF Fail, Cancel, LeaveLock
  <2>3. QED  BY <1>0, <2>1, <2>2, HolderLeaves DEF TypeOK
<1>6. CASE Cancel(c) /\ pc[c] = "lock" /\ holder # c
  BY <1>6, WaiterCancelled
<1>7. QED  BY <1>1, <1>2, <1>3, <1>4, <1>5, <1>6 DEF SseStep

LEMMA StutterStep == CacheInv /\ UNCHANGED vars => CacheInv'
<1> SUFFICES ASSUME CacheInv, UNCHANGED vars  PROVE CacheInv'
  OBVIOUS
<1>1. TypeOK' /\ FetchInv' /\ LockInUse'
  BY DEF CacheInv, TypeOK, FetchInv, LockInUse, Published, InCall, vars, lock
<1>2. QED  BY <1>1 DEF CacheInv, Published, vars, lock

LEMMA CacheInvStep == CacheInv /\ [Next]_vars => CacheInv'
BY WorldStep, RestCallerStep, SseCallerStep, StutterStep DEF Next

-----------------------------------------------------------------------------
(* The theorems *)

\* In every behaviour the lock, the cache and the calls in flight agree.
THEOREM CacheInvariant == Spec => []CacheInv
<1>1. Init => CacheInv
  BY CacheInvInit
<1>2. CacheInv /\ [Next]_vars => CacheInv'
  BY CacheInvStep
<1>3. QED  BY <1>1, <1>2, PTL DEF Spec

\* The caches, the lock and the callers' locals stay in their ranges.
THEOREM TypeCorrect == Spec => []TypeOK
<1>1. CacheInv => TypeOK
  BY DEF CacheInv
<1>2. QED  BY <1>1, CacheInvariant, PTL

\* get_live_status_sse talks to TikTok only inside the username's lock, so at
\* most one stream caller does at a time.
THEOREM OneFetchAtATime == Spec => []SingleFlight
<1>1. CacheInv => SingleFlight
  BY DEF CacheInv, FetchInv, SingleFlight
<1>2. QED  BY <1>1, CacheInvariant, PTL

\* Returns, errors and cancellations never leave the lock to nobody, and never
\* leave a caller that has gone in its queue.
THEOREM LockNeverLeaks == Spec => []LockInUse
<1>1. CacheInv => LockInUse
  BY DEF CacheInv
<1>2. QED  BY <1>1, CacheInvariant, PTL

\* The second look at the cache inside the lock: callers that found it stale
\* together share one successful fetch.
THEOREM FetchesShared == Spec => SuccessesSpaced
<1>1. CacheInv /\ [Next]_vars =>
        [\A c \in SseCallers : SseAnswer(c) => ~Fresh(sse, SseTtl)]_vars
  BY HolderPublishes
<1>2. QED  BY <1>1, CacheInvariant, PTL DEF Spec, SuccessesSpaced

-----------------------------------------------------------------------------
(* The SSE side implements LiveFeed *)

FeedGot == [c \in SseCallers |-> got[c]]

\* A stream caller's got changes only to what is published.
LEMMA GotChange ==
    ASSUME TypeOK, NEW c \in SseCallers, NEW v, got' = [got EXCEPT ![c] = v]
    PROVE  FeedGot' = [FeedGot EXCEPT ![c] = v]
BY CacheConstants DEF FeedGot, TypeOK

\* A REST caller's got is nobody's business.
LEMMA GotKept ==
    ASSUME TypeOK, \/ got' = got
                   \/ \E c \in RestCallers, v \in Version : got' = [got EXCEPT ![c] = v]
    PROVE  FeedGot' = FeedGot
BY CacheConstants DEF FeedGot, TypeOK

LEMMA FeedInitStep == Init => Feed!FeedInit
BY CacheConstants DEF Init, Feed!FeedInit

LEMMA FeedStep ==
    ASSUME CacheInv, Next
    PROVE  Feed!FeedNext \/ UNCHANGED <<version, Published, FeedGot>>
<1>0. TypeOK
  BY DEF CacheInv
<1>1. CASE Change
  <2>1. FeedGot' = FeedGot /\ Published' = Published
    BY <1>0, <1>1, GotKept DEF Change, Published
  <2>2. Feed!Change
    BY <1>1, <2>1 DEF Change, Feed!Change, Published, FeedGot
  <2>3. QED  BY <2>2 DEF Feed!FeedNext
<1>2. CASE Tick
  <2>1. sse' = Aged(sse) /\ sse \in Entry \cup {Empty}
        /\ got' = got /\ version' = version
    BY <1>0, <1>2 DEF Tick, TypeOK
  <2>2. Published' = Published
    BY <2>1, AgedFacts DEF Published
  <2>3. QED  BY <1>0, <2>1, <2>2, GotKept
<1>3. ASSUME NEW c \in SseCallers, SseHit(c) \/ SseSecondHit(c)  PROVE Feed!FeedNext
  <2>1. /\ got' = [got EXCEPT ![c] = Published]
        /\ UNCHANGED <<version, sse>>
    BY <1>3 DEF SseHit, SseEntry, SseSecondHit, Return, Fresh, Published
  <2>2. FeedGot' = [FeedGot EXCEPT ![c] = Published] /\ Published' = Published
    BY <1>0, <2>1, GotChange DEF Published
  <2>3. Feed!Read(c)
    BY <2>1, <2>2 DEF Feed!Read, Published, FeedGot
  <2>4. QED  BY <2>3 DEF Feed!FeedNext
<1>4. ASSUME NEW c \in SseCallers, SseAnswer(c)  PROVE Feed!FeedNext
  <2>1. /\ Published' \in Published..version
        /\ got' = [got EXCEPT ![c] = Published']
        /\ version' = version
    BY <1>4, HolderPublishes DEF SseAnswer
  <2>2. FeedGot' = [FeedGot EXCEPT ![c] = Published']
    BY <1>0, <2>1, GotChange
  <2>3. Feed!Publish(c)
    BY <2>1, <2>2 DEF Feed!Publish, Published, FeedGot
  <2>4. QED  BY <2>3 DEF Feed!FeedNext
<1>5. ASSUME NEW c \in SseCallers,
             SseMiss(c) \/ SseFetch(c) \/ RoomFound(c) \/ Fail(c) \/ Cancel(c)
      PROVE  UNCHANGED <<version, Published, FeedGot>>
  <2>1. UNCHANGED <<version, sse, got>>
    BY <1>5 DEF SseMiss, SseFetch, Stale, RoomFound, Fail, Cancel
  <2>2. QED  BY <1>0, <2>1, GotKept DEF Published
<1>6. ASSUME NEW c \in RestCallers,
             RestHit(c) \/ RestFetch(c) \/ RestStep(c) \/ Cancel(c)
      PROVE  UNCHANGED <<version, Published, FeedGot>>
  <2>1. UNCHANGED <<version, sse>>
    BY <1>6 DEF RestHit, RestFetch, RestStep, RoomFound, RestAnswer, Fail, Cancel
  <2>2. \/ got' = got
        \/ \E v \in Version : got' = [got EXCEPT ![c] = v]
    <3>1. Fresh(rest, RestTtl) => rest.ver \in Version
      BY <1>0 DEF Fresh, TypeOK, Entry
    <3>2. QED
      BY <1>6, <3>1 DEF RestHit, RestFetch, RestStep, RoomFound, RestAnswer, Fail,
                        Cancel, Return
  <2>3. FeedGot' = FeedGot
    BY <1>0, <2>2, GotKept
  <2>4. QED  BY <2>1, <2>3 DEF Published
<1>7. QED  BY <1>1, <1>2, <1>3, <1>4, <1>5, <1>6 DEF Next, SseStep

\* Whatever caches, lock, timeouts and cancellations do, stream callers see a
\* register that follows the streamer and never shows an older state than one
\* it has already shown to anybody.
THEOREM SseIsLiveFeed == Spec => ImplementsLiveFeed
<1>1. Init => Feed!FeedInit
  BY FeedInitStep
<1>2. CacheInv /\ [Next]_vars => [Feed!FeedNext]_(Feed!feedVars)
  <2>1. ASSUME UNCHANGED vars  PROVE UNCHANGED <<version, Published, FeedGot>>
    BY <2>1 DEF vars, Published, FeedGot
  <2>2. UNCHANGED <<version, Published, FeedGot>> => UNCHANGED Feed!feedVars
    BY DEF Feed!feedVars, Published, FeedGot
  <2>3. QED  BY <2>1, <2>2, FeedStep
<1>3. QED
  BY <1>1, <1>2, CacheInvariant, PTL DEF Spec, ImplementsLiveFeed, Feed!FeedSpec

-----------------------------------------------------------------------------
(* What LiveFeed's readers may rely on *)

FeedInv ==
    /\ version \in Nat
    /\ Published \in Nat
    /\ FeedGot \in [SseCallers -> Nat]
    /\ Published <= version
    /\ \A c \in SseCallers : FeedGot[c] <= Published

FeedReads(c) ==
    /\ FeedGot' = [FeedGot EXCEPT ![c] = Published]
    /\ UNCHANGED <<version, Published>>

FeedPublishes(c) ==
    /\ Published' \in Published..version
    /\ FeedGot' = [FeedGot EXCEPT ![c] = Published']
    /\ UNCHANGED version

LEMMA FeedActions ==
    ASSUME Feed!FeedNext
    PROVE  \/ version' = version + 1 /\ UNCHANGED <<Published, FeedGot>>
           \/ \E c \in SseCallers : FeedReads(c) \/ FeedPublishes(c)
BY DEF Feed!FeedNext, Feed!Change, Feed!Read, Feed!Publish,
       FeedReads, FeedPublishes, Published, FeedGot

LEMMA FeedPublishedIn ==
    ASSUME FeedInv, NEW c \in SseCallers, FeedPublishes(c)
    PROVE  Published' \in Nat /\ Published <= Published' /\ Published' <= version
BY DEF FeedInv, FeedPublishes

LEMMA FeedInvStep == FeedInv /\ [Feed!FeedNext]_(Feed!feedVars) => FeedInv'
<1> SUFFICES ASSUME FeedInv, [Feed!FeedNext]_(Feed!feedVars)  PROVE FeedInv'
  OBVIOUS
<1>1. CASE version' = version + 1 /\ UNCHANGED <<Published, FeedGot>>
  BY <1>1 DEF FeedInv
<1>2. ASSUME NEW c \in SseCallers, FeedReads(c)  PROVE FeedInv'
  BY <1>2 DEF FeedInv, FeedReads
<1>3. ASSUME NEW c \in SseCallers, FeedPublishes(c)  PROVE FeedInv'
  <2>1. Published' \in Nat /\ Published <= Published' /\ Published' <= version
    BY <1>3, FeedPublishedIn
  <2>2. /\ version' = version
        /\ FeedGot' \in [SseCallers -> Nat]
        /\ \A d \in SseCallers :
                FeedGot'[d] = IF d = c THEN Published' ELSE FeedGot[d]
    BY <1>3, <2>1 DEF FeedInv, FeedPublishes
  <2>3. QED  BY <2>1, <2>2 DEF FeedInv
<1>4. CASE UNCHANGED Feed!feedVars
  <2>1. UNCHANGED <<version, Published, FeedGot>>
    BY <1>4 DEF Feed!feedVars, Published, FeedGot
  <2>2. QED  BY <2>1 DEF FeedInv
<1>5. QED  BY <1>1, <1>2, <1>3, <1>4, FeedActions

LEMMA FeedInvariant == Feed!FeedSpec => []FeedInv
<1>1. Feed!FeedInit => FeedInv
  <2> SUFFICES ASSUME Feed!FeedInit  PROVE FeedInv
    OBVIOUS
  <2>1. version = 0 /\ Published = 0 /\ FeedGot = [c \in SseCallers |-> 0]
    BY DEF Feed!FeedInit, Published, FeedGot
  <2>2. QED  BY <2>1 DEF FeedInv
<1>2. QED  BY <1>1, FeedInvStep, PTL DEF Feed!FeedSpec

\* No reader of a feed is ahead of the register, and the register is not ahead
\* of the streamer.
THEOREM NobodyAhead == Feed!FeedSpec => []Feed!Behind
<1>1. FeedInv => Feed!Behind
  BY DEF FeedInv, Feed!Behind, Published, FeedGot
<1>2. QED  BY <1>1, FeedInvariant, PTL

\* What a reader is newly shown is at least as recent as anything any reader
\* has been shown.
THEOREM FeedNeverBackwards == Feed!FeedSpec => Feed!NeverBackwards
<1>1. FeedInv /\ [Feed!FeedNext]_(Feed!feedVars) =>
        [\A r \in SseCallers :
            FeedGot'[r] # FeedGot[r] =>
                \A q \in SseCallers : FeedGot'[r] >= FeedGot[q]]_(Feed!feedVars)
  <2> SUFFICES ASSUME FeedInv, Feed!FeedNext, NEW r \in SseCallers,
                      NEW q \in SseCallers, FeedGot'[r] # FeedGot[r]
               PROVE  FeedGot'[r] >= FeedGot[q]
    OBVIOUS
  <2>1. ASSUME NEW c \in SseCallers, FeedReads(c)  PROVE FeedGot'[r] >= FeedGot[q]
    <3>1. FeedGot'[r] = Published
      BY <2>1 DEF FeedReads, FeedInv
    <3>2. QED  BY <3>1 DEF FeedInv
  <2>2. ASSUME NEW c \in SseCallers, FeedPublishes(c)
        PROVE  FeedGot'[r] >= FeedGot[q]
    <3>1. FeedGot'[r] = Published'
      BY <2>2 DEF FeedPublishes, FeedInv
    <3>2. QED  BY <2>2, <3>1, FeedPublishedIn DEF FeedInv
  <2>3. QED  BY <2>1, <2>2, FeedActions
<1>2. (\A r \in SseCallers :
            FeedGot'[r] # FeedGot[r] =>
                \A q \in SseCallers : FeedGot'[r] >= FeedGot[q])
        <=> (\A r \in SseCallers :
                [c \in SseCallers |-> got[c]]'[r] # [c \in SseCallers |-> got[c]][r]
                    => \A q \in SseCallers :
                        [c \in SseCallers |-> got[c]]'[r] >= [c \in SseCallers |-> got[c]][q])
  BY DEF FeedGot
<1>3. QED
  BY <1>1, <1>2, FeedInvariant, PTL DEF Feed!FeedSpec, Feed!NeverBackwards

LEMMA ReadersBehind == Spec => [](CacheInv /\ FeedInv)
BY CacheInvariant, SseIsLiveFeed, FeedInvariant, PTL DEF ImplementsLiveFeed

\* What a stream caller is answered, were it the version it had, is at least as
\* recent as what any of them has been answered.
LEMMA AnswerOrder ==
    ASSUME CacheInv, FeedInv, NEW c \in SseCallers,
           SseHit(c) \/ SseSecondHit(c) \/ SseAnswer(c)
    PROVE  \A d \in SseCallers : got[d] <= got'[c]
<1>0. /\ got \in [Callers -> Version] /\ c \in Callers
      /\ \A d \in SseCallers : got[d] \in Nat /\ got[d] <= Published
      /\ Published \in Nat
  BY CacheConstants DEF CacheInv, TypeOK, FeedInv, FeedGot, Version, Callers
<1>1. CASE SseHit(c) \/ SseSecondHit(c)
  <2>1. got'[c] = Published
    BY <1>0, <1>1 DEF SseHit, SseEntry, SseSecondHit, Return, Fresh, Published
  <2>2. QED  BY <1>0, <2>1
<1>2. CASE SseAnswer(c)
  <2>1. Published' \in Published..version /\ got'[c] = Published'
    BY <1>0, <1>2, HolderPublishes
  <2>2. version \in Nat
    BY CacheConstants DEF CacheInv, TypeOK, Version
  <2>3. QED  BY <1>0, <2>1, <2>2
<1>3. QED  BY <1>1, <1>2

\* No stream caller has been shown a status newer than the SSE cache holds, and
\* the cache holds none that has not happened.
THEOREM CacheIsBehind == Spec => []Feed!Behind
BY SseIsLiveFeed, NobodyAhead DEF ImplementsLiveFeed

\* A status newly shown to a stream caller is at least as recent as any shown
\* to another before.
THEOREM NeverShownOlder == Spec => Feed!NeverBackwards
BY SseIsLiveFeed, FeedNeverBackwards DEF ImplementsLiveFeed

-----------------------------------------------------------------------------
(* How old an answer may be *)

\* Version v misses no change that is older than age.
Covers(v, age) == v <= version /\ (v < version => changeAge[v + 1] <= age)

ChangesInOrder == \A i, j \in 1..version : i <= j => changeAge[j] <= changeAge[i]

\* A call covers what had changed when it was sent, an entry what had changed
\* when the call that filled it was sent.
AgeInv ==
    /\ ChangesInOrder
    /\ \A c \in Callers : InCall(c) => Covers(since[c], Timeout - left[c])
    /\ \A e \in {sse, rest} : e # Empty => Covers(e.ver, Timeout + e.age)

\* The types AgeInv's arithmetic needs.
LEMMA AgeTypes ==
    ASSUME TypeOK
    PROVE  /\ version \in Nat /\ version <= MaxVersion /\ MaxVersion \in Nat
           /\ \A i \in 1..version : changeAge[i] \in 0..(RestTtl + Timeout)
           /\ \A c \in Callers : since[c] \in Nat /\ left[c] \in 0..Timeout
           /\ \A e \in {sse, rest} : e # Empty =>
                /\ e \in Entry /\ e.ver \in Nat /\ e.age \in 0..RestTtl
BY CacheConstants DEF TypeOK, Version, Horizon, Entry

\* A later version covers at least as much.
LEMMA CoversLater ==
    ASSUME TypeOK, ChangesInOrder, NEW w \in Nat, NEW age \in Int, Covers(w, age),
           NEW v \in w..version
    PROVE  Covers(v, age)
<1>1. CASE v < version
  <2>1. w + 1 \in 1..version /\ v + 1 \in 1..version /\ w + 1 <= v + 1 /\ w < version
    BY <1>1, AgeTypes
  <2>2. changeAge[v + 1] <= changeAge[w + 1] /\ changeAge[w + 1] <= age
    BY <2>1 DEF ChangesInOrder, Covers
  <2>3. changeAge[v + 1] \in Int /\ changeAge[w + 1] \in Int
    BY <2>1, AgeTypes
  <2>4. QED  BY <1>1, <2>2, <2>3, AgeTypes DEF Covers
<1>2. CASE ~(v < version)
  BY <1>2, AgeTypes DEF Covers
<1>3. QED  BY <1>1, <1>2

\* The streamer changes: a change of age 0.
LEMMA AgeChange == TypeOK /\ AgeInv /\ Change => AgeInv'
<1> SUFFICES ASSUME TypeOK, AgeInv, Change  PROVE AgeInv'
  OBVIOUS
<1> USE CacheConstants
<1>1. /\ version' = version + 1 /\ version < MaxVersion
      /\ UNCHANGED <<sse, rest, pc, since, left>>
  BY DEF Change
<1>2. /\ changeAge'[version + 1] = 0
      /\ \A i \in 1..version : changeAge'[i] = changeAge[i]
  BY <1>1, AgeTypes DEF Change, TypeOK
<1>3. ChangesInOrder'
  BY <1>1, <1>2, AgeTypes DEF AgeInv, ChangesInOrder
<1>4. ASSUME NEW v \in Nat, NEW age \in Nat, Covers(v, age)  PROVE Covers(v, age)'
  <2>1. v < version => v + 1 \in 1..version
    BY AgeTypes
  <2>2. v = version => changeAge'[v + 1] = 0
    BY <1>2
  <2>3. QED  BY <1>1, <1>2, <1>4, <2>1, <2>2, AgeTypes DEF Covers
<1>5. \A c \in Callers : Timeout - left[c] \in Nat
  BY AgeTypes
<1>6. (\A c \in Callers : InCall(c) => Covers(since[c], Timeout - left[c]))'
  BY <1>1, <1>4, <1>5, AgeTypes DEF AgeInv, InCall
<1>7. (\A e \in {sse, rest} : e # Empty => Covers(e.ver, Timeout + e.age))'
  BY <1>1, <1>4, AgeTypes DEF AgeInv
<1>8. QED  BY <1>3, <1>6, <1>7 DEF AgeInv

\* Time passes: changes, calls and entries get older together.
LEMMA AgeTick == TypeOK /\ AgeInv /\ Tick => AgeInv'
<1> SUFFICES ASSUME TypeOK, AgeInv, Tick  PROVE AgeInv'
  OBVIOUS
<1> USE CacheConstants
<1>1. /\ version' = version /\ pc' = pc /\ since' = since
      /\ \A c \in Callers : InCall(c) => left[c] > 0 /\ left'[c] = left[c] - 1
      /\ sse' = Aged(sse) /\ rest' = Aged(rest)
  BY DEF Tick
<1>2. \A i \in 1..version : changeAge'[i] = Older(changeAge[i], RestTtl + Timeout)
  BY AgeTypes DEF Tick, TypeOK, Horizon
<1>3. \A i \in 1..version : /\ changeAge'[i] <= changeAge[i] + 1
                            /\ changeAge'[i] <= RestTtl + Timeout
                            /\ changeAge'[i] \in Nat
  BY <1>2, AgeTypes DEF Older
<1>4. ChangesInOrder'
  BY <1>1, <1>2, AgeTypes DEF AgeInv, ChangesInOrder, Older
<1>5. ASSUME NEW c \in Callers, InCall(c)'
      PROVE  Covers(since[c], Timeout - left[c])'
  <2>1. InCall(c) /\ Covers(since[c], Timeout - left[c])
    BY <1>1, <1>5 DEF AgeInv, InCall
  <2>2. since[c] < version => since[c] + 1 \in 1..version
    BY AgeTypes
  <2>3. left'[c] = left[c] - 1 /\ left[c] \in Nat /\ since'[c] = since[c]
        /\ since[c] \in Nat
    BY <1>1, <2>1, AgeTypes
  <2>4. QED  BY <1>1, <1>3, <2>1, <2>2, <2>3, AgeTypes DEF Covers
<1>6. ASSUME NEW e \in {sse, rest}, e # Empty
      PROVE  /\ Aged(e) # Empty
             /\ Aged(e).ver <= version
             /\ Aged(e).ver < version =>
                    changeAge'[Aged(e).ver + 1] <= Timeout + Aged(e).age
  <2>1. /\ e \in Entry /\ e.ver \in Nat /\ e.age \in 0..RestTtl
        /\ Covers(e.ver, Timeout + e.age)
    BY <1>6, AgeTypes DEF AgeInv
  <2>2. Aged(e) # Empty /\ Aged(e).ver = e.ver
    BY <1>6, <2>1, AgedFacts
  <2>3. Aged(e).age = IF e.age < RestTtl THEN e.age + 1 ELSE RestTtl
    BY <1>6, <2>1 DEF Aged, Older, Entry
  <2>4. e.ver < version => e.ver + 1 \in 1..version
    BY <2>1, AgeTypes
  <2>5. e.ver < version => changeAge'[e.ver + 1] <= Timeout + Aged(e).age
    BY <1>3, <2>1, <2>3, <2>4, AgeTypes DEF Covers
  <2>6. QED  BY <2>1, <2>2, <2>5 DEF Covers
<1>7. (\A e \in {sse, rest} : e # Empty => Covers(e.ver, Timeout + e.age))'
  <2>1. sse \in Entry \cup {Empty} /\ rest \in Entry \cup {Empty}
    BY DEF TypeOK
  <2>2. (sse' # Empty => sse # Empty) /\ (rest' # Empty => rest # Empty)
    BY <1>1, <2>1, AgedFacts
  <2>3. QED  BY <1>1, <1>6, <2>2 DEF Covers
<1>8. QED  BY <1>4, <1>5, <1>7 DEF AgeInv

\* A status that a call of c may show covers everything but the call itself.
LEMMA ShownCovers ==
    ASSUME TypeOK, AgeInv, NEW c \in Callers, NEW v, Shows(c, v)
    PROVE  v \in Nat /\ Covers(v, Timeout)
<1>1. InCall(c) /\ v \in since[c]..version /\ Covers(since[c], Timeout - left[c])
  BY DEF Shows, AgeInv
<1>2. since[c] \in Nat /\ Timeout - left[c] \in Int /\ Timeout - left[c] <= Timeout
      /\ version \in Nat /\ v \in Nat
  BY <1>1, AgeTypes, CacheConstants
<1>3. Covers(v, Timeout - left[c])
  BY <1>1, <1>2, CoversLater DEF AgeInv
<1>4. v < version => changeAge[v + 1] \in Int
  BY <1>2, AgeTypes
<1>5. QED  BY <1>2, <1>3, <1>4, CacheConstants DEF Covers

\* A step of a caller: its call ends, or a new one starts from the version that
\* is current; an entry is kept, or filled with a status just shown.
LEMMA AgeCaller ==
    ASSUME TypeOK, AgeInv, NEW c \in Callers,
           UNCHANGED <<version, changeAge>>,
           Finish(c) \/ (\E call \in {"room", "info"} : Send(c, call))
                     \/ (UNCHANGED <<since, left>> /\ pc' = [pc EXCEPT ![c] = "lock"]),
           sse' = sse \/ \E v : Shows(c, v) /\ sse' = [ver |-> v, age |-> 0],
           rest' = rest \/ \E v : Shows(c, v) /\ rest' = [ver |-> v, age |-> 0]
    PROVE  AgeInv'
<1> USE CacheConstants
<1>1. ChangesInOrder'
  BY DEF AgeInv, ChangesInOrder
<1>2. ASSUME NEW d \in Callers, InCall(d)'
      PROVE  Covers(since[d], Timeout - left[d])'
  <2>1. CASE d # c
    <3>1. pc'[d] = pc[d] /\ since'[d] = since[d] /\ left'[d] = left[d]
      BY <2>1 DEF TypeOK, Finish, Send
    <3>2. QED  BY <1>2, <3>1 DEF AgeInv, InCall, Covers
  <2>2. CASE d = c
    <3>1. \E call \in {"room", "info"} : Send(c, call)
      BY <1>2, <2>2 DEF InCall, Finish, TypeOK
    <3>2. since'[c] = version /\ version' = version
      BY <3>1, SendFacts
    <3>3. QED  BY <2>2, <3>2, AgeTypes DEF Covers
  <2>3. QED  BY <2>1, <2>2
<1>3. ASSUME NEW v, Shows(c, v)  PROVE Covers(v, Timeout + 0)
  BY <1>3, ShownCovers
<1>4. ASSUME sse' # Empty  PROVE Covers(sse.ver, Timeout + sse.age)'
  BY <1>3, <1>4 DEF AgeInv, Covers
<1>5. ASSUME rest' # Empty  PROVE Covers(rest.ver, Timeout + rest.age)'
  BY <1>3, <1>5 DEF AgeInv, Covers
<1>6. QED  BY <1>1, <1>2, <1>4, <1>5 DEF AgeInv

LEMMA AgeStep == TypeOK /\ AgeInv /\ [Next]_vars => AgeInv'
<1> SUFFICES ASSUME TypeOK, AgeInv, [Next]_vars  PROVE AgeInv'
  OBVIOUS
<1>1. CASE Change \/ Tick
  BY <1>1, AgeChange, AgeTick
<1>2. ASSUME NEW c \in SseCallers,
             SseHit(c) \/ SseMiss(c) \/ SseStep(c) \/ Cancel(c)
      PROVE  AgeInv'
  <2>1. c \in Callers /\ UNCHANGED <<version, changeAge>>
    BY <1>2, CacheConstants DEF SseHit, SseEntry, SseMiss, SseStep, SseSecondHit, SseFetch, Stale,
        RoomFound, SseAnswer, Fail, Cancel
  <2>2. \/ Finish(c)
        \/ \E call \in {"room", "info"} : Send(c, call)
        \/ UNCHANGED <<since, left>> /\ pc' = [pc EXCEPT ![c] = "lock"]
    BY <1>2 DEF SseHit, SseEntry, SseMiss, SseStep, SseSecondHit, SseFetch, Stale, RoomFound,
        SseAnswer, Fail, Cancel, Return
  <2>3. /\ sse' = sse \/ \E v : Shows(c, v) /\ sse' = [ver |-> v, age |-> 0]
        /\ rest' = rest \/ \E v : Shows(c, v) /\ rest' = [ver |-> v, age |-> 0]
    BY <1>2 DEF SseHit, SseEntry, SseMiss, SseStep, SseSecondHit, SseFetch, Stale, RoomFound,
        SseAnswer, Fail, Cancel
  <2>4. QED  BY <2>1, <2>2, <2>3, AgeCaller
<1>3. ASSUME NEW c \in RestCallers,
             RestHit(c) \/ RestFetch(c) \/ RestStep(c) \/ Cancel(c)
      PROVE  AgeInv'
  <2>1. c \in Callers /\ UNCHANGED <<version, changeAge, sse>>
    BY <1>3, CacheConstants DEF RestHit, RestFetch, RestStep, RoomFound, RestAnswer,
        Fail, Cancel
  <2>2. Finish(c) \/ \E call \in {"room", "info"} : Send(c, call)
    BY <1>3 DEF RestHit, RestFetch, RestStep, RoomFound, RestAnswer, Fail, Cancel,
        Return
  <2>3. rest' = rest \/ \E v : Shows(c, v) /\ rest' = [ver |-> v, age |-> 0]
    BY <1>3 DEF RestHit, RestFetch, RestStep, RoomFound, RestAnswer, Fail, Cancel
  <2>4. QED  BY <2>1, <2>2, <2>3, AgeCaller
<1>4. CASE UNCHANGED vars
  BY <1>4 DEF AgeInv, ChangesInOrder, Covers, InCall, vars
<1>5. QED  BY <1>1, <1>2, <1>3, <1>4 DEF Next

\* What a hit or an answer returns covers all but its TTL and its call.
LEMMA AnswerAge ==
    ASSUME TypeOK, AgeInv
    PROVE  /\ \A c \in SseCallers : SseHit(c) \/ SseSecondHit(c) \/ SseAnswer(c)
                => ~Misses(got'[c], SseTtl + Timeout)
           /\ \A c \in RestCallers : RestHit(c) \/ RestAnswer(c)
                => ~Misses(got'[c], RestTtl + Timeout)
<1> USE CacheConstants
<1>1. ASSUME NEW e \in {sse, rest}, NEW ttl \in {SseTtl, RestTtl}, Fresh(e, ttl)
      PROVE  ~Misses(e.ver, ttl + Timeout)
  <2>1. /\ e # Empty /\ e.age < ttl /\ Covers(e.ver, Timeout + e.age)
        /\ e.ver \in Nat /\ e.age \in 0..RestTtl
    BY <1>1, AgeTypes DEF Fresh, AgeInv
  <2>2. e.ver < version => changeAge[e.ver + 1] \in Nat
    BY <2>1, AgeTypes
  <2>3. QED  BY <2>1, <2>2 DEF Misses, Covers
<1>2. ASSUME NEW c \in Callers, NEW v, Shows(c, v), NEW ttl \in {SseTtl, RestTtl}
      PROVE  ~Misses(v, ttl + Timeout)
  <2>1. v \in Nat /\ Covers(v, Timeout)
    BY <1>2, ShownCovers
  <2>2. v < version => changeAge[v + 1] \in Nat
    BY <2>1, AgeTypes
  <2>3. QED  BY <2>1, <2>2 DEF Misses, Covers
<1>3. ASSUME NEW c \in Callers, NEW v, Return(c, v)  PROVE got'[c] = v
  BY <1>3 DEF Return, TypeOK
<1>4. ASSUME NEW c \in SseCallers, SseHit(c) \/ SseSecondHit(c) \/ SseAnswer(c)
      PROVE  ~Misses(got'[c], SseTtl + Timeout)
  <2>1. CASE SseHit(c) \/ SseSecondHit(c)
    BY <1>1, <1>3, <2>1 DEF SseHit, SseEntry, SseSecondHit
  <2>2. CASE SseAnswer(c)
    BY <1>2, <1>3, <2>2 DEF SseAnswer
  <2>3. QED  BY <1>4, <2>1, <2>2
<1>5. ASSUME NEW c \in RestCallers, RestHit(c) \/ RestAnswer(c)
      PROVE  ~Misses(got'[c], RestTtl + Timeout)
  <2>1. CASE RestHit(c)
    BY <1>1, <1>3, <2>1 DEF RestHit
  <2>2. CASE RestAnswer(c)
    BY <1>2, <1>3, <2>2 DEF RestAnswer
  <2>3. QED  BY <1>5, <2>1, <2>2
<1>6. QED  BY <1>4, <1>5

LEMMA AgeInvariant == Spec => [](TypeOK /\ AgeInv)
<1>1. Init => AgeInv
  BY CacheConstants DEF Init, AgeInv, ChangesInOrder, InCall
<1>2. TypeOK /\ AgeInv /\ [Next]_vars => AgeInv'
  BY AgeStep
<1>3. QED  BY <1>1, <1>2, TypeCorrect, PTL DEF Spec

\* An answer never misses a change older than the TTL of the cache that serves
\* the caller and the timeout of one call to TikTok, whatever the race between
\* fetches, hits and changes.
THEOREM AnswersAreFresh == Spec => AnswersFresh
<1>1. TypeOK /\ AgeInv /\ [Next]_vars =>
        [/\ \A c \in SseCallers : SseHit(c) \/ SseSecondHit(c) \/ SseAnswer(c)
                => ~Misses(got'[c], SseTtl + Timeout)
         /\ \A c \in RestCallers : RestHit(c) \/ RestAnswer(c)
                => ~Misses(got'[c], RestTtl + Timeout)]_vars
  BY AnswerAge
<1>2. QED  BY <1>1, AgeInvariant, PTL DEF Spec, AnswersFresh
=============================================================================
