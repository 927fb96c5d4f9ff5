---------------------------- MODULE WebhooksProofs ----------------------------
(***************************************************************************)
(* Proofs about the webhook service, in three parts.  Of WebhookRegistry,  *)
(* for any number of ids, users and keys and any caps: its types, the      *)
(* agreement of memory and table (RegistryInv and the invariants it        *)
(* implies), and the caps.  Of WebhookLoop, for any number of webhooks,    *)
(* attempts and failures and any length of the history that can hold a     *)
(* full run of failures: its types, the failure counter against the        *)
(* history, and what the receiver knows.  Of Webhooks: the composed        *)
(* service implements both, so what is proved of the parts holds of the    *)
(* service, and a webhook is watched exactly while its task is active.     *)
(***************************************************************************)
EXTENDS Webhooks, FiniteSetTheorems, TLAPS

-----------------------------------------------------------------------------
(* The registry *)

\* A request whose coroutine has not answered yet.
Unanswered == {"writing", "written", "failed"}

\* What holds of a single id.  The invariants of WebhookRegistry are not
\* inductive one by one: each step of an id relates its watcher, its row, its
\* two requests and its DELETE, so all of them are carried together.
IdInv(id) ==
    /\ Watched(id) => /\ up
                      /\ watchers[id] = asked[id]
                      /\ rm[id] = "none"
    /\ Stored(id) => /\ db[id] = asked[id]
                     /\ reg[id] \in {"written", "ok", "lost"}
    /\ asked[id] = NoRow <=> reg[id] = "none"
    /\ ~up => reg[id] \notin Unanswered /\ rm[id] # "deleting"
    /\ rm[id] # "none" \/ id \in raced => id \in removed
    /\ id \in removed => reg[id] # "none"
    /\ Watched(id) => Stored(id) \/ reg[id] \in {"writing", "failed", "error"}
    /\ reg[id] \in Unanswered /\ id \notin removed => Watched(id)
    /\ reg[id] \in {"written", "ok"} /\ id \notin removed => Stored(id)
    /\ up /\ reg[id] = "ok" /\ id \notin removed => Watched(id)
    /\ reg[id] = "writing" /\ ~Watched(id) => id \in raced
    /\ rm[id] = "deleted" /\ id \notin raced => ~Stored(id)
    /\ up /\ Stored(id) /\ ~Watched(id) =>
            rm[id] \in {"deleting", "failed"} \/ id \in raced

RegistryInv == RegistryTypeOK /\ \A id \in Ids : IdInv(id)

-----------------------------------------------------------------------------

\* NoRow is no row.
LEMMA NoRowIsNoRow == NoRow \notin Row
BY RegistryAssumption DEF Row

\* Every step keeps the types.
LEMMA TypeStep == RegistryTypeOK /\ [RegistryNext]_regVars => RegistryTypeOK'
<1> SUFFICES ASSUME RegistryTypeOK, [RegistryNext]_regVars
             PROVE  RegistryTypeOK'
  OBVIOUS
<1> USE DEF RegistryTypeOK, RegState, UnregState, RmState
<1>1. ASSUME NEW id \in Ids, NEW u \in Users, NEW o \in Owners \cup {NoOwner},
             Register(id, u, o)
      PROVE  RegistryTypeOK'
  <2>1. [user |-> u, owner |-> o] \in Row
    BY DEF Row
  <2>2. QED  BY <1>1, <2>1 DEF Register
<1>2. ASSUME NEW id \in Ids, NEW caller \in Owners \cup {NoOwner},
             Unregister(id, caller)
      PROVE  RegistryTypeOK'
  BY <1>2 DEF Unregister, Remove, Popped, Issued
<1>3. ASSUME NEW id \in Ids, LoopRemove(id)
      PROVE  RegistryTypeOK'
  BY <1>3 DEF LoopRemove, Remove, Popped, Issued
<1>4. ASSUME NEW id \in Ids, ServerStep(id)
      PROVE  RegistryTypeOK'
  BY <1>4 DEF ServerStep, Insert, Inserted, RegisterReturn, ThreadDone,
           Delete, Deleted, UnregisterReturn
<1>5. ASSUME ProcessEnd  PROVE RegistryTypeOK'
  BY <1>5 DEF ProcessEnd
<1>6. ASSUME Start  PROVE RegistryTypeOK'
  BY <1>6 DEF Start, Restored
<1>7. CASE UNCHANGED regVars
  BY <1>7 DEF regVars
<1>8. QED
  BY <1>1, <1>2, <1>3, <1>4, <1>5, <1>6, <1>7 DEF RegistryNext

\* The variables of the registry always have their types.
THEOREM TypeCorrect == RegistrySpec => []RegistryTypeOK
<1>1. RegistryInit => RegistryTypeOK
  BY DEF RegistryInit, RegistryTypeOK, RegState, UnregState, RmState
<1>2. QED
  BY <1>1, TypeStep, PTL DEF RegistrySpec

-----------------------------------------------------------------------------

\* What a step of one id leaves of another id keeps its IdInv.
Untouched(id) ==
    /\ watchers'[id] = watchers[id]
    /\ db'[id] = db[id]
    /\ reg'[id] = reg[id]
    /\ asked'[id] = asked[id]
    /\ rm'[id] = rm[id]
    /\ id \in removed' <=> id \in removed
    /\ id \in raced' <=> id \in raced

LEMMA UntouchedInv ==
    ASSUME NEW id \in Ids, IdInv(id), up' = up, Untouched(id)
    PROVE  IdInv(id)'
BY DEF IdInv, Untouched, Watched, Stored, Unanswered

\* Every step keeps the invariant of every id.
LEMMA InvStep == RegistryInv /\ [RegistryNext]_regVars => RegistryInv'
<1> SUFFICES ASSUME RegistryInv, [RegistryNext]_regVars
             PROVE  RegistryInv'
  OBVIOUS
<1>0. RegistryTypeOK /\ RegistryTypeOK'
  BY TypeStep DEF RegistryInv
<1> SUFFICES ASSUME NEW i \in Ids  PROVE IdInv(i)'
  BY <1>0 DEF RegistryInv
<1>i. IdInv(i)
  BY DEF RegistryInv
<1> USE <1>0, <1>i, NoRowIsNoRow
        DEF RegistryTypeOK, RegState, UnregState, RmState
<1>1. ASSUME NEW id \in Ids, NEW u \in Users, NEW o \in Owners \cup {NoOwner},
             Register(id, u, o)
      PROVE  IdInv(i)'
  <2>1. [user |-> u, owner |-> o] \in Row
    BY DEF Row
  <2>2. CASE i # id
    BY <1>1, <2>2, UntouchedInv DEF Register, Untouched
  <2>3. CASE i = id
    BY <1>1, <2>1, <2>3 DEF Register, IdInv, Watched, Stored, Unanswered
  <2>4. QED  BY <2>2, <2>3
<1>2. ASSUME NEW id \in Ids, Remove(id), up, UNCHANGED <<up, db, reg, asked>>
      PROVE  IdInv(i)'
  <2>1. CASE i # id
    BY <1>2, <2>1, UntouchedInv DEF Remove, Popped, Issued, Untouched
  <2>2. CASE i = id
    BY <1>2, <2>2 DEF Remove, Popped, Issued, IdInv, Watched, Stored, Unanswered
  <2>3. QED  BY <2>1, <2>2
<1>3. ASSUME NEW id \in Ids, ServerStep(id)
      PROVE  IdInv(i)'
  <2>1. CASE i # id
    BY <1>3, <2>1, UntouchedInv
       DEF ServerStep, Insert, Inserted, RegisterReturn, ThreadDone,
           Delete, Deleted, UnregisterReturn, Untouched
  <2>2. CASE i = id
    <3>1. CASE Insert(id)
      BY <3>1, <2>2 DEF Insert, Inserted, IdInv, Watched, Stored, Unanswered
    <3>2. CASE RegisterReturn(id)
      BY <3>2, <2>2 DEF RegisterReturn, ThreadDone, IdInv, Watched, Stored, Unanswered
    <3>3. CASE Delete(id)
      BY <3>3, <2>2 DEF Delete, Deleted, IdInv, Watched, Stored, Unanswered
    <3>4. CASE UnregisterReturn(id)
      BY <3>4, <2>2 DEF UnregisterReturn, IdInv, Watched, Stored, Unanswered
    <3>5. QED
      BY <1>3, <3>1, <3>2, <3>3, <3>4 DEF ServerStep
  <2>3. QED  BY <2>1, <2>2
<1>4. ASSUME ProcessEnd  PROVE IdInv(i)'
  BY <1>4 DEF ProcessEnd, IdInv, Watched, Stored, Unanswered
<1>5. ASSUME Start  PROVE IdInv(i)'
  BY <1>5 DEF Start, Restored, IdInv, Watched, Stored, Unanswered
<1>6. CASE UNCHANGED regVars
  BY <1>6, UntouchedInv DEF regVars, Untouched
<1>7. QED
  BY <1>1, <1>2, <1>3, <1>4, <1>5, <1>6 DEF RegistryNext, Unregister, LoopRemove

\* The inductive invariant holds in every reachable state.
THEOREM RegistryInvariant == RegistrySpec => []RegistryInv
<1>1. RegistryInit => RegistryInv
  <2>1. RegistryInit => RegistryTypeOK
    BY DEF RegistryInit, RegistryTypeOK, RegState, UnregState, RmState
  <2>2. ASSUME RegistryInit, NEW id \in Ids  PROVE IdInv(id)
    BY <2>2 DEF RegistryInit, IdInv, Watched, Stored, Unanswered
  <2>3. QED  BY <2>1, <2>2 DEF RegistryInv
<1>2. QED
  BY <1>1, InvStep, PTL DEF RegistrySpec

-----------------------------------------------------------------------------

\* A restart brings back every watched webhook whose INSERT has run.
THEOREM Durability == RegistrySpec => []WatchedIsDurable
<1>1. RegistryInv => WatchedIsDurable
  BY DEF RegistryInv, IdInv, WatchedIsDurable, Watched, Stored
<1>2. QED  BY <1>1, RegistryInvariant, PTL

\* A registration that was acknowledged outlives crashes until it is removed.
THEOREM Survival == RegistrySpec => []AcknowledgedSurvives
<1>1. RegistryInv => AcknowledgedSurvives
  BY DEF RegistryInv, IdInv, AcknowledgedSurvives, Listed, WatchedIds, MayRemove, Watched
<1>2. QED  BY <1>1, RegistryInvariant, PTL

\* No row, in memory or in the table, differs from the one asked for.
THEOREM Ownership == RegistrySpec => []OwnerBinding
<1>1. RegistryInv => OwnerBinding
  BY DEF RegistryInv, IdInv, OwnerBinding
<1>2. QED  BY <1>1, RegistryInvariant, PTL

\* A committed DELETE is final unless it overtook the INSERT.
THEOREM Erasure == RegistrySpec => []ErasedStaysErased
<1>1. RegistryInv => ErasedStaysErased
  BY DEF RegistryInv, IdInv, ErasedStaysErased
<1>2. QED  BY <1>1, RegistryInvariant, PTL

\* Rows without a watcher have one of the two known causes.
THEOREM Orphans == RegistrySpec => []OrphansExplained
<1>1. RegistryInv => OrphansExplained
  BY DEF RegistryInv, IdInv, OrphansExplained
<1>2. QED  BY <1>1, RegistryInvariant, PTL

-----------------------------------------------------------------------------
(* The caps *)

\* The webhooks the caps are about: never removed, and watched now or by the
\* next process.
Counted       == {id \in Ids \ removed : Watched(id) \/ (~up /\ Stored(id))}
CountedFor(u) == {id \in Counted : asked[id].user = u}

CapInv ==
    /\ Cardinality(Counted) <= MaxWebhooks
    /\ \A u \in Users : Cardinality(CountedFor(u)) <= MaxPerUser

\* A subset of a set of ids has no more elements.
LEMMA CountMonotone ==
    ASSUME NEW S \in SUBSET Ids, NEW T \in SUBSET S
    PROVE  Cardinality(S) \in Nat /\ Cardinality(T) <= Cardinality(S)
<1>1. IsFiniteSet(S)
  BY FS_Subset, RegistryAssumption
<1>2. QED
  BY <1>1, FS_Subset, FS_CardinalityType

\* One id more is at most one more to count.
LEMMA CountOneMore ==
    ASSUME NEW S \in SUBSET Ids, NEW id \in Ids
    PROVE  Cardinality(S \cup {id}) <= Cardinality(S) + 1
<1>1. IsFiniteSet(S)
  BY FS_Subset, RegistryAssumption
<1>2. Cardinality(S) \in Nat
  BY <1>1, FS_CardinalityType
<1>3. Cardinality(S \cup {id}) =
        IF id \in S THEN Cardinality(S) ELSE Cardinality(S) + 1
  BY <1>1, FS_AddElement
<1>4. QED  BY <1>2, <1>3

\* Steps that count nothing new keep the caps.
LEMMA CapShrinks ==
    ASSUME CapInv, Counted' \subseteq Counted,
           \A id \in Counted' : asked'[id] = asked[id]
    PROVE  CapInv'
<1>1. Cardinality(Counted') <= MaxWebhooks
  <2>1. Counted \in SUBSET Ids /\ Counted' \in SUBSET Counted
    BY DEF Counted
  <2>2. Cardinality(Counted) \in Nat /\ Cardinality(Counted') \in Nat
    BY <2>1, CountMonotone
  <2>3. QED  BY <2>1, <2>2, CountMonotone, RegistryAssumption DEF CapInv
<1>2. ASSUME NEW u \in Users
      PROVE  Cardinality(CountedFor(u)') <= MaxPerUser
  <2>1. CountedFor(u) \in SUBSET Ids /\ CountedFor(u)' \in SUBSET CountedFor(u)
    BY DEF Counted, CountedFor
  <2>2. Cardinality(CountedFor(u)) \in Nat /\ Cardinality(CountedFor(u)') \in Nat
    BY <2>1, CountMonotone
  <2>3. QED  BY <2>1, <2>2, CountMonotone, RegistryAssumption DEF CapInv
<1>3. QED  BY <1>1, <1>2 DEF CapInv

\* Every step keeps the caps.
LEMMA CapStep ==
    RegistryInv /\ CapInv /\ [RegistryNext]_regVars => CapInv'
<1> SUFFICES ASSUME RegistryInv, CapInv, [RegistryNext]_regVars
             PROVE  CapInv'
  OBVIOUS
<1> USE NoRowIsNoRow
<1>a. /\ watchers \in [Ids -> Row \cup {NoRow}]
      /\ db \in [Ids -> Row \cup {NoRow}]
      /\ asked \in [Ids -> Row \cup {NoRow}]
      /\ up \in BOOLEAN
  BY DEF RegistryInv, RegistryTypeOK
<1>b. \A id \in Ids : IdInv(id)
  BY DEF RegistryInv
<1>1. ASSUME NEW id \in Ids, NEW u \in Users, NEW o \in Owners \cup {NoOwner},
             Register(id, u, o)
      PROVE  CapInv'
  <2>0. /\ up /\ up'
        /\ [user |-> u, owner |-> o] \in Row
    BY <1>1, <1>a DEF Register, Row
  <2>1. /\ Counted \in SUBSET WatchedIds
        /\ WatchedIds \in SUBSET Ids
        /\ Counted' = Counted \cup {id} \/ Counted' = Counted
    BY <1>1, <1>a, <1>b, <2>0 DEF Register, Counted, Watched, Stored, WatchedIds
  <2>2. Cardinality(Counted') <= MaxWebhooks
    <3>1. /\ Cardinality(WatchedIds) \in Nat
          /\ Cardinality(WatchedIds) < MaxWebhooks
          /\ Cardinality(Counted) <= Cardinality(WatchedIds)
          /\ Cardinality(Counted) \in Nat
      BY <1>1, <2>1, CountMonotone DEF Register
    <3>2. /\ Cardinality(Counted \cup {id}) <= Cardinality(Counted) + 1
          /\ Cardinality(Counted \cup {id}) \in Nat
      BY <2>1, CountOneMore, CountMonotone
    <3>3. QED  BY <2>1, <3>1, <3>2, RegistryAssumption
  <2>3. ASSUME NEW v \in Users
        PROVE  Cardinality(CountedFor(v)') <= MaxPerUser
    <3>1. CASE v # u
      <4>1. CountedFor(v)' = CountedFor(v)
        BY <1>1, <1>a, <1>b, <2>0, <2>1, <3>1
           DEF Register, CountedFor, Counted, IdInv, Watched, Stored
      <4>2. QED  BY <4>1 DEF CapInv
    <3>2. CASE v = u
      <4> DEFINE S == {w \in WatchedIds : watchers[w].user = u}
      <4>1. CountedFor(u) \in SUBSET S
        BY <1>b, <2>1 DEF CountedFor, IdInv, WatchedIds
      <4>2. S \in SUBSET Ids
        BY DEF WatchedIds
      <4>3. Cardinality(S) \in Nat /\ Cardinality(S) < MaxPerUser
        BY <1>1, <4>2, CountMonotone DEF Register, CountFor
      <4>4. CountedFor(u) \in SUBSET Ids
        BY DEF CountedFor, Counted
      <4>5. /\ Cardinality(CountedFor(u)) \in Nat
            /\ Cardinality(CountedFor(u)) <= Cardinality(S)
        BY <4>1, <4>2, <4>4, CountMonotone
      <4>6. CountedFor(u)' \in SUBSET (CountedFor(u) \cup {id})
        BY <1>1, <1>a, <2>0, <2>1 DEF Register, CountedFor, Counted, Watched, Stored
      <4>7. CountedFor(u) \cup {id} \in SUBSET Ids
        BY <4>4
      <4>8. /\ Cardinality(CountedFor(u) \cup {id}) <= Cardinality(CountedFor(u)) + 1
            /\ Cardinality(CountedFor(u) \cup {id}) \in Nat
        BY <4>4, <4>7, CountOneMore, CountMonotone
      <4>9. /\ Cardinality(CountedFor(u)') \in Nat
            /\ Cardinality(CountedFor(u)') <= Cardinality(CountedFor(u) \cup {id})
        BY <4>6, <4>7, CountMonotone
      <4> HIDE DEF S
      <4>10. QED  BY <3>2, <4>3, <4>5, <4>8, <4>9, RegistryAssumption
    <3>3. QED  BY <3>1, <3>2
  <2>4. QED  BY <2>2, <2>3 DEF CapInv
<1>2. ASSUME NEW id \in Ids, Remove(id), UNCHANGED <<up, db, asked>>
      PROVE  CapInv'
  BY <1>2, <1>a, CapShrinks DEF Remove, Popped, Issued, Counted, Watched, Stored
<1>3. ASSUME NEW id \in Ids, ServerStep(id)
      PROVE  CapInv'
  BY <1>3, <1>a, CapShrinks
     DEF ServerStep, Insert, Inserted, RegisterReturn, ThreadDone,
           Delete, Deleted, UnregisterReturn, Counted, Watched, Stored
<1>4. ASSUME ProcessEnd  PROVE CapInv'
  <2>1. Counted' \subseteq Counted
    BY <1>4, <1>a, <1>b DEF ProcessEnd, Counted, IdInv, Watched, Stored
  <2>2. QED  BY <1>4, <2>1, CapShrinks DEF ProcessEnd
<1>5. ASSUME Start  PROVE CapInv'
  <2>1. Counted' \subseteq Counted
    BY <1>5, <1>a DEF Start, Restored, Counted, Watched, Stored
  <2>2. QED  BY <1>5, <2>1, CapShrinks DEF Start, Restored
<1>6. CASE UNCHANGED regVars
  BY <1>6, CapShrinks DEF regVars, Counted, Watched, Stored
<1>7. QED
  BY <1>1, <1>2, <1>3, <1>4, <1>5, <1>6 DEF RegistryNext, Unregister, LoopRemove

\* Webhooks that were never removed stay within both caps, across restarts.
THEOREM Caps == RegistrySpec => []CapsUnlessResurrected
<1>1. RegistryInit => CapInv
  <2> SUFFICES ASSUME RegistryInit  PROVE CapInv
    OBVIOUS
  <2>1. Counted = {} /\ \A u \in Users : CountedFor(u) = {}
    BY DEF RegistryInit, Counted, CountedFor, Watched, Stored
  <2>2. QED  BY <2>1, FS_EmptySet, RegistryAssumption DEF CapInv
<1>2. RegistryInv /\ CapInv => CapsUnlessResurrected
  <2> SUFFICES ASSUME RegistryInv, CapInv  PROVE CapsUnlessResurrected
    OBVIOUS
  <2>1. /\ WatchedIds \ removed \in SUBSET Counted
        /\ Counted \in SUBSET Ids
    BY DEF WatchedIds, Counted
  <2>2. Cardinality(WatchedIds \ removed) <= MaxWebhooks
    <3>1. /\ Cardinality(Counted) \in Nat
          /\ Cardinality(WatchedIds \ removed) \in Nat
          /\ Cardinality(WatchedIds \ removed) <= Cardinality(Counted)
      BY <2>1, CountMonotone
    <3>2. QED  BY <3>1, RegistryAssumption DEF CapInv
  <2>3. ASSUME NEW u \in Users
        PROVE  Cardinality({id \in WatchedIds \ removed : watchers[id].user = u})
                   <= MaxPerUser
    <3> DEFINE S == {id \in WatchedIds \ removed : watchers[id].user = u}
    <3>1. S \in SUBSET CountedFor(u) /\ CountedFor(u) \in SUBSET Ids
      BY <2>1 DEF RegistryInv, IdInv, CountedFor, WatchedIds
    <3>2. /\ Cardinality(CountedFor(u)) \in Nat
          /\ Cardinality(S) \in Nat
          /\ Cardinality(S) <= Cardinality(CountedFor(u))
      BY <3>1, CountMonotone
    <3> HIDE DEF S
    <3>3. Cardinality(S) <= MaxPerUser
      BY <3>2, RegistryAssumption DEF CapInv
    <3>4. QED  BY <3>3 DEF S
  <2>4. QED  BY <2>2, <2>3 DEF CapsUnlessResurrected
<1>3. QED
  BY <1>1, <1>2, CapStep, RegistryInvariant, PTL DEF RegistrySpec
-----------------------------------------------------------------------------
(* The loops *)

\* What holds of the task of a single webhook.
TaskInv(id) ==
    LET h == history[id] IN
    /\ pc[id] \in {"none", "ended"} =>
            lastLive[id] = Unknown /\ failures[id] = 0 /\ attempt[id] = 0
    /\ Active(id) => /\ h # NoHistory
                     /\ failures[id] < MaxFailures
                     /\ EndsWithFailures(h, failures[id])
                     /\ ~EndsWithFailures(h, failures[id] + 1)
    /\ pc[id] \in {"post", "backoff"} => attempt[id] >= 1 /\ lastLive[id] # Unknown
    /\ pc[id] = "backoff" => attempt[id] < MaxAttempts
    /\ Idle(id) => attempt[id] = 0
    /\ Idle(id) /\ lastLive[id] # Unknown =>
            acked[id] = lastLive[id] \/ EndsWithFailures(h, 1)

LoopInv == LoopTypeOK /\ \A id \in Ids : TaskInv(id)

-----------------------------------------------------------------------------

\* A record pushed on a history with room for it is appended.
LEMMA PushWithRoom ==
    ASSUME NEW h \in Seq(Record), Len(h) < HistorySize, NEW r \in Record
    PROVE  /\ Push(h, r) \in Seq(Record)
           /\ Len(Push(h, r)) = Len(h) + 1
           /\ Push(h, r)[Len(h) + 1] = r
           /\ \A i \in 1..Len(h) : Push(h, r)[i] = h[i]
<1>1. Len(h) \in Nat /\ Len(Append(h, r)) = Len(h) + 1
  OBVIOUS
<1>2. Push(h, r) = Append(h, r)
  BY <1>1, LoopAssumption DEF Push
<1>3. QED  BY <1>2

\* On a full history it takes the place of the oldest record.
LEMMA PushWhenFull ==
    ASSUME NEW h \in Seq(Record), Len(h) = HistorySize, NEW r \in Record
    PROVE  /\ Push(h, r) \in Seq(Record)
           /\ Len(Push(h, r)) = Len(h)
           /\ Push(h, r)[Len(h)] = r
           /\ \A i \in 1..(Len(h) - 1) : Push(h, r)[i] = h[i + 1]
<1> DEFINE all == Append(h, r)
<1>1. /\ all \in Seq(Record)
      /\ Len(h) \in Nat
      /\ Len(all) = Len(h) + 1
      /\ all[Len(h) + 1] = r
      /\ \A i \in 1..Len(h) : all[i] = h[i]
  OBVIOUS
<1>2. Push(h, r) = Tail(all)
  BY <1>1, LoopAssumption DEF Push
<1>3. Len(h) >= 1
  BY LoopAssumption
<1> HIDE DEF all
<1>4. /\ Tail(all) \in Seq(Record)
      /\ Len(Tail(all)) = Len(h)
      /\ \A i \in 1..Len(h) : Tail(all)[i] = all[i + 1]
  BY <1>1, <1>3
<1>5. QED  BY <1>1, <1>2, <1>3, <1>4

\* A failed record makes the run of failures at the end one longer, exactly.
LEMMA PushFailure ==
    ASSUME NEW h \in Seq(Record), Len(h) <= HistorySize,
           NEW r \in Record, r.success = FALSE,
           NEW n \in Nat, n < HistorySize,
           EndsWithFailures(h, n), ~EndsWithFailures(h, n + 1)
    PROVE  /\ EndsWithFailures(Push(h, r), n + 1)
           /\ ~EndsWithFailures(Push(h, r), n + 2)
           /\ EndsWithFailures(Push(h, r), 1)
<1> DEFINE p == Push(h, r)
<1>0. Len(h) \in Nat /\ HistorySize \in Nat
  BY LoopAssumption
<1>1. CASE Len(h) < HistorySize
  <2>1. /\ Len(p) = Len(h) + 1
        /\ p[Len(h) + 1] = r
        /\ \A i \in 1..Len(h) : p[i] = h[i]
    BY <1>1, PushWithRoom
  <2> HIDE DEF p
  <2>2. EndsWithFailures(p, n + 1)
    BY <1>0, <2>1 DEF EndsWithFailures
  <2>3. ASSUME EndsWithFailures(p, n + 2)  PROVE FALSE
    BY <1>0, <2>1, <2>3 DEF EndsWithFailures
  <2>4. EndsWithFailures(p, 1)
    BY <1>0, <2>1 DEF EndsWithFailures
  <2>5. QED  BY <2>2, <2>3, <2>4 DEF p
<1>2. CASE Len(h) = HistorySize
  <2>1. /\ Len(p) = Len(h)
        /\ p[Len(h)] = r
        /\ \A i \in 1..(Len(h) - 1) : p[i] = h[i + 1]
    BY <1>2, PushWhenFull
  <2> HIDE DEF p
  <2>2. EndsWithFailures(p, n + 1)
    BY <1>0, <1>2, <2>1 DEF EndsWithFailures
  <2>3. ASSUME EndsWithFailures(p, n + 2)  PROVE FALSE
    <3>1. n + 2 <= Len(h)
      BY <2>1, <2>3 DEF EndsWithFailures
    <3>2. ASSUME NEW i \in (Len(h) - (n + 1) + 1)..Len(h)
          PROVE  ~h[i].success
      <4>1. i - 1 \in 1..(Len(h) - 1) /\ i - 1 \in (Len(h) - (n + 2) + 1)..Len(h)
        BY <1>0, <3>1
      <4>2. p[i - 1] = h[i]
        BY <1>0, <2>1, <4>1
      <4>3. QED  BY <2>1, <2>3, <4>1, <4>2 DEF EndsWithFailures
    <3>3. QED  BY <1>0, <3>1, <3>2 DEF EndsWithFailures
  <2>4. EndsWithFailures(p, 1)
    BY <1>0, <1>2, <2>1 DEF EndsWithFailures
  <2>5. QED  BY <2>2, <2>3, <2>4 DEF p
<1>3. QED  BY <1>0, <1>1, <1>2

\* A delivered record ends every run of failures.
LEMMA PushSuccess ==
    ASSUME NEW h \in Seq(Record), Len(h) <= HistorySize,
           NEW r \in Record, r.success = TRUE
    PROVE  /\ EndsWithFailures(Push(h, r), 0)
           /\ ~EndsWithFailures(Push(h, r), 1)
<1> DEFINE p == Push(h, r)
<1>0. Len(h) \in Nat /\ HistorySize \in Nat /\ HistorySize >= 1
  BY LoopAssumption
<1>1. Len(p) \in Nat /\ Len(p) >= 1 /\ p[Len(p)] = r
  <2>1. CASE Len(h) < HistorySize  BY <1>0, <2>1, PushWithRoom
  <2>2. CASE Len(h) = HistorySize  BY <1>0, <2>2, PushWhenFull
  <2>3. QED  BY <1>0, <2>1, <2>2
<1> HIDE DEF p
<1>2. EndsWithFailures(p, 0) /\ ~EndsWithFailures(p, 1)
  BY <1>1 DEF EndsWithFailures
<1>3. QED  BY <1>2 DEF p

\* Pushing keeps the history a short sequence.
LEMMA PushKeeps ==
    ASSUME NEW h \in Seq(Record), Len(h) <= HistorySize, NEW r \in Record
    PROVE  Push(h, r) \in Seq(Record) /\ Len(Push(h, r)) <= HistorySize
<1>0. Len(h) \in Nat /\ HistorySize \in Nat
  BY LoopAssumption
<1>1. CASE Len(h) < HistorySize
  BY <1>0, <1>1, PushWithRoom
<1>2. CASE Len(h) = HistorySize
  BY <1>0, <1>2, PushWhenFull
<1>3. QED  BY <1>0, <1>1, <1>2

-----------------------------------------------------------------------------

\* A task that has just begun.
LEMMA NoFailuresYet ==
    EndsWithFailures(<<>>, 0) /\ ~EndsWithFailures(<<>>, 1)
BY DEF EndsWithFailures

\* What a step leaves alone keeps its TaskInv.
TaskUntouched(id) ==
    /\ pc'[id] = pc[id]
    /\ lastLive'[id] = lastLive[id]
    /\ failures'[id] = failures[id]
    /\ attempt'[id] = attempt[id]
    /\ history'[id] = history[id]
    /\ acked'[id] = acked[id]

LEMMA TaskUntouchedInv ==
    ASSUME NEW id \in Ids, TaskInv(id), TaskUntouched(id)
    PROVE  TaskInv(id)'
BY DEF TaskInv, TaskUntouched, Active, Idle, EndsWithFailures, Waiting

\* What a task knows while a POST is in flight.
LEMMA AtPost ==
    ASSUME LoopInv, NEW id \in Ids, pc[id] = "post"
    PROVE  /\ history[id] \in Seq(Record)
           /\ Len(history[id]) <= HistorySize
           /\ failures[id] \in Nat /\ failures[id] < MaxFailures
           /\ EndsWithFailures(history[id], failures[id])
           /\ ~EndsWithFailures(history[id], failures[id] + 1)
           /\ attempt[id] \in 1..MaxAttempts
           /\ lastLive[id] \in BOOLEAN
<1>1. TaskInv(id) /\ LoopTypeOK
  BY DEF LoopInv
<1>2. Active(id)
  BY DEF Active, Waiting
<1>3. history[id] # NoHistory
  BY <1>1, <1>2 DEF TaskInv
<1>4. history[id] \in Seq(Record) /\ Len(history[id]) <= HistorySize
  BY <1>1, <1>3 DEF LoopTypeOK, HasHistory
<1>5. failures[id] \in Nat
  BY <1>1, LoopAssumption DEF LoopTypeOK, HasHistory
<1>6. attempt[id] \in 1..MaxAttempts /\ lastLive[id] \in BOOLEAN
  BY <1>1, LoopAssumption DEF TaskInv, LoopTypeOK, HasHistory
<1>7. /\ failures[id] < MaxFailures
      /\ EndsWithFailures(history[id], failures[id])
      /\ ~EndsWithFailures(history[id], failures[id] + 1)
  BY <1>1, <1>2 DEF TaskInv
<1>8. QED  BY <1>4, <1>5, <1>6, <1>7

\* A sequence of records is a history.
LEMMA HistoryIsSequence == \A h \in Seq(Record) : h # NoHistory
BY LoopAssumption DEF Record

\* Every step keeps the types, given what the invariant says of the task
\* that takes it.
LEMMA LoopTypeStep == LoopInv /\ [LoopNext]_loopVars => LoopTypeOK'
<1> SUFFICES ASSUME LoopInv, [LoopNext]_loopVars  PROVE LoopTypeOK'
  OBVIOUS
<1> USE LoopAssumption DEF LoopInv, LoopTypeOK, HasHistory, PC, Waiting
<1>1. ASSUME NEW S \in SUBSET Ids, Begin(S)  PROVE LoopTypeOK'
  <2>1. <<>> \in Seq(Record) /\ Len(<<>>) = 0
    OBVIOUS
  <2>2. QED  BY <1>1, <2>1 DEF Begin
<1>2. ASSUME NEW id \in Ids, Cancel(id)  PROVE LoopTypeOK'
  BY <1>2 DEF Cancel, HistoryDropped, ClearLocals
<1>3. ASSUME NEW id \in Ids, PollingStep(id)  PROVE LoopTypeOK'
  <2>1. CASE PollNoNews(id)
    BY <2>1 DEF PollNoNews, Goto
  <2>2. CASE News(id)
    BY <2>2 DEF News, PollChanged, Goto
  <2>3. CASE Wake(id)
    BY <2>3 DEF Wake, Goto
  <2>4. CASE PostRejected(id)
    BY <2>4 DEF PostRejected, Goto
  <2>5. CASE BackoffOver(id)
    BY <2>5 DEF BackoffOver, NextAttempt, Goto, TaskInv
  <2>6. CASE PostAccepted(id)
    <3> DEFINE r == [attempts |-> attempt[id], success |-> TRUE]
    <3>1. pc[id] = "post"
      BY <2>6 DEF PostAccepted, AfterSuccess, Goto
    <3>2. r \in Record /\ r.success = TRUE
      BY <3>1, AtPost DEF Record
    <3>3. /\ Push(history[id], r) \in Seq(Record)
          /\ Len(Push(history[id], r)) <= HistorySize
      BY <3>1, <3>2, AtPost, PushKeeps
    <3>4. history' = [history EXCEPT ![id] = Push(history[id], r)]
      BY <2>6, <3>1, AtPost, HistoryIsSequence DEF PostAccepted, AfterSuccess, RecordDelivery, HasHistory
    <3> HIDE DEF r
    <3>5. QED  BY <2>6, <3>3, <3>4 DEF PostAccepted, AfterSuccess, Goto
  <2>7. QED
    BY <1>3, <2>1, <2>2, <2>3, <2>4, <2>5, <2>6 DEF PollingStep
<1>4. ASSUME NEW id \in Ids, PollNotFound(id)  PROVE LoopTypeOK'
  BY <1>4 DEF PollNotFound, Goto
<1>5. ASSUME NEW id \in Ids, EventFailed(id)  PROVE LoopTypeOK'
  <2> DEFINE r == [attempts |-> attempt[id], success |-> FALSE]
  <2>1. pc[id] = "post" /\ attempt[id] = MaxAttempts
    BY <1>5 DEF EventFailed, AfterLoss, Goto
  <2>2. r \in Record /\ r.attempts = MaxAttempts
    BY <2>1, AtPost DEF Record
  <2>3. /\ Push(history[id], r) \in Seq(Record)
        /\ Len(Push(history[id], r)) <= HistorySize
    BY <2>1, <2>2, AtPost, PushKeeps
  <2>4. history' = [history EXCEPT ![id] = Push(history[id], r)]
    BY <1>5, <2>1, AtPost, HistoryIsSequence DEF EventFailed, AfterLoss, RecordDelivery, HasHistory
  <2>5. failures[id] + 1 \in 0..MaxFailures
    BY <2>1, AtPost
  <2>6. pc' \in [Ids -> PC]
    BY <1>5 DEF EventFailed, AfterLoss, Goto
  <2>7. failures' \in [Ids -> 0..MaxFailures] /\ attempt' \in [Ids -> 0..MaxAttempts]
    BY <1>5, <2>5 DEF EventFailed, AfterLoss
  <2> HIDE DEF r
  <2>8. QED  BY <1>5, <2>3, <2>4, <2>6, <2>7 DEF EventFailed, AfterLoss
<1>6. ASSUME NEW id \in Ids, Return(id)  PROVE LoopTypeOK'
  BY <1>6 DEF Return, Goto, ClearLocals
<1>7. ASSUME Die  PROVE LoopTypeOK'
  BY <1>7 DEF Die, ClearLocals
<1>8. CASE UNCHANGED loopVars
  BY <1>8 DEF loopVars
<1>9. QED
  BY <1>1, <1>2, <1>3, <1>4, <1>5, <1>6, <1>7, <1>8 DEF LoopNext, LoopStep

-----------------------------------------------------------------------------

\* The step of a task keeps the invariant of every task.
LEMMA LoopInvStep == LoopInv /\ [LoopNext]_loopVars => LoopInv'
<1> SUFFICES ASSUME LoopInv, [LoopNext]_loopVars  PROVE LoopInv'
  OBVIOUS
<1>0. LoopTypeOK /\ LoopTypeOK'
  BY LoopTypeStep DEF LoopInv
<1> SUFFICES ASSUME NEW i \in Ids  PROVE TaskInv(i)'
  BY <1>0 DEF LoopInv
<1>i. TaskInv(i)
  BY DEF LoopInv
<1> USE <1>0, <1>i, LoopAssumption DEF LoopTypeOK, HasHistory, PC, Waiting
<1>1. ASSUME NEW S \in SUBSET Ids, Begin(S)  PROVE TaskInv(i)'
  <2>1. CASE i \notin S
    BY <1>1, <2>1, TaskUntouchedInv DEF Begin, TaskUntouched
  <2>2. CASE i \in S
    <3>1. /\ pc'[i] = "poll" /\ history'[i] = <<>>
          /\ lastLive'[i] = Unknown /\ failures'[i] = 0 /\ attempt'[i] = 0
      BY <1>1, <2>2 DEF Begin, TaskInv
    <3>2. <<>> \in Seq(Record) /\ Len(<<>>) = 0
      OBVIOUS
    <3>3. <<>> # NoHistory
      BY <3>2, HistoryIsSequence
    <3>4. QED  BY <3>1, <3>2, <3>3, NoFailuresYet DEF TaskInv, Active, Idle
  <2>3. QED  BY <2>1, <2>2
<1>2. ASSUME NEW id \in Ids, Cancel(id)  PROVE TaskInv(i)'
  <2>1. CASE i # id
    BY <1>2, <2>1, TaskUntouchedInv DEF Cancel, HistoryDropped, ClearLocals, TaskUntouched
  <2>2. CASE i = id
    BY <1>2, <2>2 DEF Cancel, HistoryDropped, ClearLocals, TaskInv, Active, Idle
  <2>3. QED  BY <2>1, <2>2
<1>3. ASSUME NEW id \in Ids, PollNoNews(id) \/ Wake(id)  PROVE TaskInv(i)'
  <2>1. CASE i # id
    BY <1>3, <2>1, TaskUntouchedInv DEF PollNoNews, Wake, Goto, TaskUntouched
  <2>2. CASE i = id
    <3>1. Idle(i) /\ Idle(i)' /\ UNCHANGED <<lastLive, failures, attempt, history, acked>>
      BY <1>3, <2>2 DEF PollNoNews, Wake, Goto, Idle
    <3>2. QED  BY <3>1 DEF TaskInv, Active, Idle
  <2>3. QED  BY <2>1, <2>2
<1>4. ASSUME NEW id \in Ids, NEW live \in BOOLEAN, PollChanged(id, live)  PROVE TaskInv(i)'
  <2>1. CASE i # id
    BY <1>4, <2>1, TaskUntouchedInv DEF PollChanged, Goto, TaskUntouched
  <2>2. CASE i = id
    <3>1. /\ pc[i] = "poll" /\ pc'[i] = "post"
          /\ lastLive'[i] \in BOOLEAN \ {lastLive[i]} /\ attempt'[i] = 1
          /\ UNCHANGED <<failures, history, acked>>
      BY <1>4, <2>2 DEF PollChanged, Goto
    <3>2. /\ history[i] # NoHistory
          /\ failures[i] < MaxFailures
          /\ EndsWithFailures(history[i], failures[i])
          /\ ~EndsWithFailures(history[i], failures[i] + 1)
      BY <3>1 DEF TaskInv, Active
    <3>3. QED  BY <3>1, <3>2 DEF TaskInv, Active, Idle
  <2>3. QED  BY <2>1, <2>2
<1>5. ASSUME NEW id \in Ids, PollNotFound(id)  PROVE TaskInv(i)'
  <2>1. CASE i # id
    BY <1>5, <2>1, TaskUntouchedInv DEF PollNotFound, Goto, TaskUntouched
  <2>2. CASE i = id
    BY <1>5, <2>2 DEF PollNotFound, Goto, TaskInv, Active, Idle
  <2>3. QED  BY <2>1, <2>2
<1>6. ASSUME NEW id \in Ids, PostRejected(id)  PROVE TaskInv(i)'
  <2>1. CASE i # id
    BY <1>6, <2>1, TaskUntouchedInv DEF PostRejected, Goto, TaskUntouched
  <2>2. CASE i = id
    BY <1>6, <2>2 DEF PostRejected, Goto, TaskInv, Active, Idle
  <2>3. QED  BY <2>1, <2>2
<1>7. ASSUME NEW id \in Ids, BackoffOver(id)  PROVE TaskInv(i)'
  <2>1. CASE i # id
    BY <1>7, <2>1, TaskUntouchedInv DEF BackoffOver, NextAttempt, Goto, TaskUntouched
  <2>2. CASE i = id
    BY <1>7, <2>2 DEF BackoffOver, NextAttempt, Goto, TaskInv, Active, Idle
  <2>3. QED  BY <2>1, <2>2
<1>8. ASSUME NEW id \in Ids, PostAccepted(id)  PROVE TaskInv(i)'
  <2>1. CASE i # id
    BY <1>8, <2>1, TaskUntouchedInv DEF PostAccepted, AfterSuccess, RecordDelivery, HasHistory, Goto, TaskUntouched
  <2>2. CASE i = id
    <3> DEFINE r == [attempts |-> attempt[id], success |-> TRUE]
               p == Push(history[id], r)
    <3>1. /\ pc[id] = "post" /\ pc'[id] = "sleep"
          /\ failures'[id] = 0 /\ attempt'[id] = 0
          /\ acked'[id] = lastLive[id] /\ lastLive'[id] = lastLive[id]
      BY <1>8 DEF PostAccepted, AfterSuccess, Goto
    <3>2. r \in Record /\ r.success = TRUE
      BY <3>1, AtPost DEF Record
    <3>3. history'[id] = p
      BY <1>8, <3>1, AtPost, HistoryIsSequence DEF PostAccepted, AfterSuccess, RecordDelivery, HasHistory
    <3>4. /\ EndsWithFailures(p, 0) /\ ~EndsWithFailures(p, 1)
      BY <3>1, <3>2, AtPost, PushSuccess
    <3>5. p # NoHistory
      BY <3>1, <3>2, AtPost, PushKeeps, HistoryIsSequence
    <3> HIDE DEF p
    <3>6. QED  BY <2>2, <3>1, <3>3, <3>4, <3>5 DEF TaskInv, Active, Idle
  <2>3. QED  BY <2>1, <2>2
<1>9. ASSUME NEW id \in Ids, EventFailed(id)  PROVE TaskInv(i)'
  <2>1. CASE i # id
    BY <1>9, <2>1, TaskUntouchedInv DEF EventFailed, AfterLoss, RecordDelivery, HasHistory, Goto, TaskUntouched
  <2>2. CASE i = id
    <3> DEFINE r == [attempts |-> attempt[id], success |-> FALSE]
               p == Push(history[id], r)
    <3>1. /\ pc[id] = "post" /\ pc'[id] \in {"sleep", "remove"}
          /\ pc'[id] = "sleep" => failures[id] + 1 < MaxFailures
          /\ attempt[id] = MaxAttempts
          /\ failures'[id] = failures[id] + 1 /\ attempt'[id] = 0
          /\ lastLive'[id] \in BOOLEAN
      <4>1. pc[id] = "post" /\ failures[id] \in Nat
        BY <1>9 DEF EventFailed, AfterLoss, Goto
      <4>2. lastLive'[id] = lastLive[id] /\ lastLive[id] \in BOOLEAN
        BY <1>9, <4>1, AtPost DEF EventFailed, AfterLoss
      <4>3. QED  BY <1>9, <4>1, <4>2 DEF EventFailed, AfterLoss, Goto
    <3>2. r \in Record /\ r.success = FALSE /\ r.attempts = MaxAttempts
      BY <3>1, AtPost DEF Record
    <3>3. history'[id] = p
      BY <1>9, <3>1, AtPost, HistoryIsSequence DEF EventFailed, AfterLoss, RecordDelivery, HasHistory
    <3>4. /\ EndsWithFailures(p, failures[id] + 1)
          /\ ~EndsWithFailures(p, failures[id] + 2)
          /\ EndsWithFailures(p, 1)
      <4>1. failures[id] < HistorySize
        BY <3>1, AtPost
      <4>2. QED  BY <3>1, <3>2, <4>1, AtPost, PushFailure
    <3>5. p # NoHistory
      BY <3>1, <3>2, AtPost, PushKeeps, HistoryIsSequence
    <3>6. failures'[id] + 1 = failures[id] + 2
      BY <3>1, AtPost
    <3> HIDE DEF p
    <3>7. QED  BY <2>2, <3>1, <3>3, <3>4, <3>5, <3>6 DEF TaskInv, Active, Idle
  <2>3. QED  BY <2>1, <2>2
<1>10. ASSUME NEW id \in Ids, Return(id)  PROVE TaskInv(i)'
  <2>1. CASE i # id
    BY <1>10, <2>1, TaskUntouchedInv DEF Return, Goto, ClearLocals, TaskUntouched
  <2>2. CASE i = id
    BY <1>10, <2>2 DEF Return, Goto, ClearLocals, TaskInv, Active, Idle
  <2>3. QED  BY <2>1, <2>2
<1>11. ASSUME Die  PROVE TaskInv(i)'
  BY <1>11 DEF Die, ClearLocals, TaskInv, Active, Idle
<1>12. CASE UNCHANGED loopVars
  BY <1>12, TaskUntouchedInv DEF loopVars, TaskUntouched
<1>13. QED
  BY <1>1, <1>2, <1>3, <1>4, <1>5, <1>6, <1>7, <1>8, <1>9, <1>10, <1>11, <1>12
     DEF LoopNext, LoopStep, PollingStep, News

\* The inductive invariant holds in every reachable state.
THEOREM LoopInvariant == LoopSpec => []LoopInv
<1>1. LoopInit => LoopInv
  <2>1. LoopInit => LoopTypeOK
    BY LoopAssumption DEF LoopInit, LoopTypeOK, HasHistory, PC
  <2>2. ASSUME LoopInit, NEW id \in Ids  PROVE TaskInv(id)
    BY <2>2 DEF LoopInit, TaskInv, Active, Idle, Waiting
  <2>3. QED  BY <2>1, <2>2 DEF LoopInv
<1>2. QED
  BY <1>1, LoopInvStep, PTL DEF LoopSpec

-----------------------------------------------------------------------------

\* The variables of the loop always have their types.
THEOREM LoopTypeCorrect == LoopSpec => []LoopTypeOK
<1>1. LoopInv => LoopTypeOK
  BY DEF LoopInv
<1>2. QED  BY <1>1, LoopInvariant, PTL

\* The failure counter is the length of the failing end of the history.
THEOREM CounterMatchesHistory == LoopSpec => []FailuresMatchHistory
<1>1. LoopInv => FailuresMatchHistory
  BY DEF LoopInv, TaskInv, FailuresMatchHistory
<1>2. QED  BY <1>1, LoopInvariant, PTL

\* Between events the receiver knows what the loop knows, or the last event
\* is recorded as failed.
THEOREM ReceiverKnows == LoopSpec => []ReceiverInformed
<1>1. LoopInv => ReceiverInformed
  BY DEF LoopInv, TaskInv, ReceiverInformed
<1>2. QED  BY <1>1, LoopInvariant, PTL

\* A webhook is removed over its receiver only after MaxFailures failed
\* events in a row.
THEOREM RemovalIsEarned == LoopSpec => GivenUpWhenEarned
<1>1. ASSUME LoopInv, [LoopNext]_loopVars, NEW id \in Ids,
             pc[id] = "post", pc'[id] = "remove"
      PROVE  EndsWithFailures(history'[id], MaxFailures)
  <2>0. id \in Ids /\ pc \in [Ids -> PC]
    BY <1>1 DEF LoopInv, LoopTypeOK
  <2>1. EventFailed(id)
    <3>0. ASSUME NEW S \in SUBSET Ids, Begin(S)  PROVE FALSE
      BY <1>1, <2>0, <3>0 DEF Begin
    <3>1. ASSUME NEW j \in Ids, Cancel(j)  PROVE FALSE
      BY <1>1, <2>0, <3>1 DEF Cancel, HistoryDropped
    <3>2. ASSUME NEW j \in Ids, PollingStep(j) \/ PollNotFound(j) \/ Return(j)
          PROVE  FALSE
      BY <1>1, <2>0, <3>2
         DEF PollingStep, PollNoNews, News, PollChanged, Wake, PostAccepted,
             PostRejected, BackoffOver, PollNotFound, Return, Goto
    <3>3. ASSUME NEW j \in Ids, EventFailed(j)  PROVE j = id
      BY <1>1, <2>0, <3>3 DEF EventFailed, AfterLoss, Goto
    <3>4. ~Die /\ ~UNCHANGED loopVars
      BY <1>1, <2>0 DEF Die, loopVars
    <3>5. QED
      BY <1>1, <3>0, <3>1, <3>2, <3>3, <3>4 DEF LoopNext, LoopStep
  <2> DEFINE r == [attempts |-> attempt[id], success |-> FALSE]
             p == Push(history[id], r)
  <2>2. r \in Record /\ r.success = FALSE
    BY <1>1, AtPost DEF Record
  <2>3. history'[id] = p
    BY <1>1, <2>1, AtPost, HistoryIsSequence
       DEF EventFailed, AfterLoss, RecordDelivery, HasHistory, LoopInv, LoopTypeOK
  <2>4. failures[id] + 1 = MaxFailures
    BY <1>1, <2>0, <2>1, AtPost, LoopAssumption DEF EventFailed, AfterLoss, Goto
  <2>5. EndsWithFailures(p, failures[id] + 1)
    <3>1. failures[id] < HistorySize
      BY <2>4, <1>1, AtPost, LoopAssumption
    <3>2. QED  BY <1>1, <2>2, <3>1, AtPost, PushFailure
  <2>6. QED  BY <2>3, <2>4, <2>5
<1>2. LoopInv /\ [LoopNext]_loopVars =>
        [\A id \in Ids : pc[id] = "post" /\ pc'[id] = "remove" =>
            EndsWithFailures(history'[id], MaxFailures)]_loopVars
  BY <1>1
<1>3. QED
  BY <1>2, LoopInvariant, PTL DEF LoopSpec, GivenUpWhenEarned
-----------------------------------------------------------------------------
(* The service *)

\* Hidden behind the service the registry takes registry steps only.
THEOREM ServiceIsRegistry == Spec => ImplementsRegistry
<1>1. Init => RegistryInit
  BY DEF Init
<1>2. [Next]_vars => [RegistryNext]_regVars
  <2> SUFFICES ASSUME [Next]_vars  PROVE [RegistryNext]_regVars
    OBVIOUS
  <2>1. ASSUME NEW id \in Ids, NEW u \in Users, NEW o \in Owners \cup {NoOwner},
               RegisterWebhook(id, u, o)
        PROVE  RegistryNext
    BY <2>1 DEF RegisterWebhook, RegistryNext
  <2>2. ASSUME NEW id \in Ids, NEW caller \in Owners \cup {NoOwner},
               UnregisterWebhook(id, caller)
        PROVE  RegistryNext
    BY <2>2 DEF UnregisterWebhook, RegistryNext
  <2>3. ASSUME NEW id \in Ids, TaskStep(id)
        PROVE  [RegistryNext]_regVars
    BY <2>3 DEF TaskStep, LoopOnly, UserNotFound, EventLost, LoopReturn,
                RegistryNext
  <2>4. ASSUME NEW id \in Ids, RegistryOnly(id)  PROVE RegistryNext
    BY <2>4 DEF RegistryOnly, RegistryNext
  <2>5. CASE Stop \/ Restore
    BY <2>5 DEF Stop, Restore, RegistryNext
  <2>6. CASE UNCHANGED vars
    BY <2>6 DEF vars
  <2>7. QED
    BY <2>1, <2>2, <2>3, <2>4, <2>5, <2>6 DEF Next
<1>3. QED
  BY <1>1, <1>2, PTL DEF Spec, ImplementsRegistry, RegistrySpec

\* Every task of the service takes loop steps only.
THEOREM ServiceRunsLoops == Spec => ImplementsLoop
<1>1. Init => LoopInit
  BY DEF Init
<1>2. [Next]_vars => [LoopNext]_(loopVars)
  <2> SUFFICES ASSUME [Next]_vars  PROVE [LoopNext]_(loopVars)
    OBVIOUS
  <2>1. ASSUME NEW id \in Ids, NEW u \in Users, NEW o \in Owners \cup {NoOwner},
               RegisterWebhook(id, u, o)
        PROVE  LoopNext
    BY <2>1 DEF RegisterWebhook, LoopNext
  <2>2. ASSUME NEW id \in Ids, NEW caller \in Owners \cup {NoOwner},
               UnregisterWebhook(id, caller)
        PROVE  LoopNext
    BY <2>2 DEF UnregisterWebhook, LoopNext
  <2>3. ASSUME NEW id \in Ids, TaskStep(id)  PROVE LoopNext
    BY <2>3 DEF TaskStep, LoopOnly, UserNotFound, EventLost, LoopReturn,
                LoopNext, LoopStep
  <2>4. ASSUME NEW id \in Ids, RegistryOnly(id)
        PROVE  UNCHANGED loopVars
    BY <2>4 DEF RegistryOnly, loopVars
  <2>5. CASE Stop
    BY <2>5 DEF Stop, LoopNext
  <2>6. CASE Restore
    <3>1. {id \in Ids : Stored(id)} \in SUBSET Ids
      OBVIOUS
    <3>2. QED  BY <2>6, <3>1 DEF Restore, LoopNext
  <2>7. CASE UNCHANGED vars
    BY <2>7 DEF vars, loopVars
  <2>8. QED
    BY <2>1, <2>2, <2>3, <2>4, <2>5, <2>6, <2>7 DEF Next
<1>3. QED
  BY <1>1, <1>2, PTL DEF Spec, ImplementsLoop, LoopSpec

-----------------------------------------------------------------------------

\* The service has every invariant of its registry.
LEMMA ServiceRegistryInv == Spec => []RegistryInv
BY ServiceIsRegistry, RegistryInvariant DEF ImplementsRegistry

\* Watching and polling go together, and pc is a function on Ids.
ServiceInv == pc \in [Ids -> PC] /\ TaskIffWatched

LEMMA ServiceStep == RegistryInv /\ ServiceInv /\ [Next]_vars => ServiceInv'
<1> SUFFICES ASSUME RegistryInv, ServiceInv, [Next]_vars
             PROVE  ServiceInv'
  OBVIOUS
<1>0. /\ pc \in [Ids -> PC]
      /\ watchers \in [Ids -> Row \cup {NoRow}]
      /\ \A id \in Ids : Watched(id) <=> Active(id)
      /\ ~up => \A id \in Ids : ~Watched(id)
  BY DEF RegistryInv, RegistryTypeOK, IdInv, ServiceInv, TaskIffWatched
<1> USE <1>0, NoRowIsNoRow
    DEF ServiceInv, TaskIffWatched, Watched, Active, PC, Waiting
<1>1. ASSUME NEW id \in Ids, NEW u \in Users, NEW o \in Owners \cup {NoOwner},
             RegisterWebhook(id, u, o)
      PROVE  ServiceInv'
  <2>1. [user |-> u, owner |-> o] # NoRow
    BY DEF Row
  <2>2. QED  BY <1>1, <2>1 DEF RegisterWebhook, Register, Begin
<1>2. ASSUME NEW id \in Ids, NEW caller \in Owners \cup {NoOwner},
             UnregisterWebhook(id, caller)
      PROVE  ServiceInv'
  BY <1>2 DEF UnregisterWebhook, Unregister, Remove, Popped, Cancel
<1>3. ASSUME NEW id \in Ids, TaskStep(id)  PROVE ServiceInv'
  <2>1. CASE LoopOnly(id)
    BY <2>1 DEF LoopOnly, PollingStep, PollNoNews, News, PollChanged,
                Wake, PostAccepted, PostRejected,
                BackoffOver, Goto, regVars
  <2>2. CASE UserNotFound(id)
    BY <2>2 DEF UserNotFound, LoopRemove, Remove, Popped, PollNotFound, Goto
  <2>3. CASE EventLost(id)
    BY <2>3 DEF EventLost, LoopRemove, Remove, Popped, EventFailed, Goto, regVars
  <2>4. CASE LoopReturn(id)
    BY <2>4 DEF LoopReturn, Return, Goto, regVars
  <2>5. QED  BY <1>3, <2>1, <2>2, <2>3, <2>4 DEF TaskStep
<1>4. ASSUME NEW id \in Ids, RegistryOnly(id)  PROVE ServiceInv'
  BY <1>4 DEF RegistryOnly, loopVars, ServerStep, Insert,
              RegisterReturn, Delete, UnregisterReturn
<1>5. CASE Stop
  BY <1>5 DEF Stop, ProcessEnd, Die
<1>6. CASE Restore
  BY <1>6 DEF Restore, Start, Restored, Stored, Begin
<1>7. CASE UNCHANGED vars
  BY <1>7 DEF vars, regVars, loopVars
<1>8. QED
  BY <1>1, <1>2, <1>3, <1>4, <1>5, <1>6, <1>7 DEF Next

LEMMA ServiceInvariant == Spec => []ServiceInv
<1>1. Init => ServiceInv
  BY DEF Init, RegistryInit, LoopInit, ServiceInv, TaskIffWatched,
         Watched, Active, PC, Waiting
<1>2. QED
  BY <1>1, ServiceStep, ServiceRegistryInv, PTL DEF Spec

\* No task without a watched webhook and no watched webhook without a task.
THEOREM TaskWatched == Spec => []TaskIffWatched
<1>1. ServiceInv => TaskIffWatched
  BY DEF ServiceInv
<1>2. QED  BY <1>1, ServiceInvariant, PTL

-----------------------------------------------------------------------------

\* The service has the invariant of its loops, and with it what is proved of
\* them: the failure counter is the failing end of the history, the receiver
\* knows what the loop knows, and a webhook is given up when that is earned.
LEMMA ServiceLoopInv == Spec => []LoopInv
BY ServiceRunsLoops, LoopInvariant DEF ImplementsLoop

\* The failure counters of the service against its histories.
THEOREM ServiceCounters == Spec => []FailuresMatchHistory
BY ServiceRunsLoops, CounterMatchesHistory DEF ImplementsLoop

\* The receivers of the service know what its loops know.
THEOREM ServiceReceivers == Spec => []ReceiverInformed
BY ServiceRunsLoops, ReceiverKnows DEF ImplementsLoop

\* The service gives no webhook up too early.
THEOREM ServiceRemovals == Spec => GivenUpWhenEarned
BY ServiceRunsLoops, RemovalIsEarned DEF ImplementsLoop

\* A webhook that is watched, or was never registered, has no unregistration
\* behind it, and an unregistered one has no history.
UnregInv(id) ==
    /\ Watched(id) \/ reg[id] = "none" => unreg[id] = "none"
    /\ unreg[id] # "none" => history[id] = NoHistory

LEMMA UnregStep ==
    ASSUME RegistryInv, ServiceInv, LoopTypeOK, [Next]_vars,
           NEW i \in Ids, UnregInv(i)
    PROVE  UnregInv(i)'
<1>0. /\ watchers \in [Ids -> Row \cup {NoRow}]
      /\ pc \in [Ids -> PC]
      /\ \A id \in Ids : Watched(id) <=> Active(id)
      /\ history \in [Ids -> Seq(Record) \cup {NoHistory}]
      /\ unreg \in [Ids -> UnregState] /\ reg \in [Ids -> RegState]
  BY DEF RegistryInv, RegistryTypeOK, ServiceInv, TaskIffWatched, LoopTypeOK
<1> USE <1>0, NoRowIsNoRow DEF UnregInv, Watched
<1>1. ASSUME NEW id \in Ids, NEW u \in Users, NEW o \in Owners \cup {NoOwner},
             RegisterWebhook(id, u, o)
      PROVE  UnregInv(i)'
  BY <1>1 DEF RegisterWebhook, Register, Begin
<1>2. ASSUME NEW id \in Ids, NEW caller \in Owners \cup {NoOwner},
             UnregisterWebhook(id, caller)
      PROVE  UnregInv(i)'
  <2>1. reg'[i] = reg[i]
    BY <1>2 DEF UnregisterWebhook, Unregister
  <2>2. CASE i # id
    BY <1>2, <2>1, <2>2 DEF UnregisterWebhook, Unregister, Remove, Popped, Cancel
  <2>3. CASE i = id
    <3>1. /\ watchers'[i] = NoRow /\ history'[i] = NoHistory
          /\ Watched(i)
      BY <1>2, <2>3 DEF UnregisterWebhook, Unregister, Remove, Popped, Cancel,
                        HistoryDropped
    <3>2. reg[i] # "none"
      BY <3>1 DEF RegistryInv, IdInv
    <3>3. QED  BY <2>1, <3>1, <3>2
  <2>4. QED  BY <2>2, <2>3
<1>3. ASSUME NEW id \in Ids, TaskStep(id)  PROVE UnregInv(i)'
  <2>1. /\ UNCHANGED <<reg, unreg>>
        /\ Watched(i)' => Watched(i)
    BY <1>3 DEF TaskStep, LoopOnly, UserNotFound, EventLost, LoopReturn,
                LoopRemove, Remove, Popped, regVars
  <2>2. history[i] = NoHistory => history'[i] = NoHistory
    BY <1>3 DEF TaskStep, LoopOnly, UserNotFound, EventLost, LoopReturn,
                PollingStep, PollNoNews, News, PollChanged, Wake, PostAccepted,
                PostRejected, BackoffOver, PollNotFound, EventFailed, Return,
                RecordDelivery, HasHistory
  <2>3. QED  BY <2>1, <2>2
<1>4. ASSUME NEW id \in Ids, RegistryOnly(id)  PROVE UnregInv(i)'
  BY <1>4 DEF RegistryOnly, loopVars, ServerStep, Insert, RegisterReturn,
              Delete, UnregisterReturn, ThreadDone
<1>5. CASE Stop
  BY <1>5 DEF Stop, ProcessEnd, Die
<1>6. CASE Restore
  BY <1>6 DEF Restore, Start, Restored, Stored, Begin
<1>7. CASE UNCHANGED vars
  BY <1>7 DEF vars, regVars, loopVars
<1>8. QED
  BY <1>1, <1>2, <1>3, <1>4, <1>5, <1>6, <1>7 DEF Next

\* A watched webhook has a history; an unregistered one has none.
THEOREM HistoryFollowsWebhook == Spec => []HistoryUntilUnregistered
<1>1. Init => \A id \in Ids : UnregInv(id)
  BY DEF Init, RegistryInit, LoopInit, UnregInv
<1>2. RegistryInv /\ ServiceInv /\ LoopInv /\ (\A id \in Ids : UnregInv(id))
      /\ [Next]_vars => (\A id \in Ids : UnregInv(id))'
  BY UnregStep DEF LoopInv
<1>3. RegistryInv /\ ServiceInv /\ LoopInv /\ (\A id \in Ids : UnregInv(id))
        => HistoryUntilUnregistered
  BY DEF ServiceInv, TaskIffWatched, LoopInv, TaskInv, UnregInv,
         HistoryUntilUnregistered, HasHistory
<1>4. QED
  BY <1>1, <1>2, <1>3, ServiceInvariant, ServiceRegistryInv, ServiceLoopInv, PTL DEF Spec
=============================================================================
