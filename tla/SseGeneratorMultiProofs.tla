----------------------- MODULE SseGeneratorMultiProofs -----------------------
(***************************************************************************)
(* Proofs about SseGeneratorMulti, for any list of usernames, repeated and *)
(* spelled as it likes, and any length of the queue: the sentinel, the     *)
(* changes that the client is shown of a username spelled in one way, and  *)
(* that the queue loses nothing.                                           *)
(***************************************************************************)
EXTENDS SseGeneratorMulti, FoldFacts, FiniteSetTheorems, TLAPS

-----------------------------------------------------------------------------
(* Types, and the count of the tasks *)

Alive == {e \in Entries : ~Ended(e)}
Said  == News \cup {"fatal", "heartbeat"}

Knowledge == [lastLive : Status \cup {"unknown"}, hadError : BOOLEAN]
Shown     == [shown : Status \cup {"unknown"}, failed : BOOLEAN, beat : BOOLEAN]

LEMMA LearntType ==
    ASSUME NEW k \in Knowledge, NEW what
    PROVE  Learnt(k, what) \in Knowledge
<1>1. CASE what \in Status
  BY <1>1 DEF Knowledge, Learnt
<1>2. CASE what \notin Status
  BY <1>2 DEF Knowledge, Learnt
<1>3. QED  BY <1>1, <1>2

LEMMA SentType ==
    ASSUME NEW f \in Shown, NEW what
    PROVE  Feed!Sent(f, what) \in Shown
<1>1. CASE what \in Status
  BY <1>1 DEF Shown, Feed!Sent
<1>2. CASE what \notin Status
  BY <1>2 DEF Shown, Feed!Sent
<1>3. QED  BY <1>1, <1>2

LEMMA HearsType ==
    ASSUME NEW f \in Shown, NEW i, NEW n  PROVE Hears(f, i, n) \in Shown
BY SentType DEF Hears

LEMMA Asking ==
    ASSUME NEW e \in Entries
    PROVE  /\ usernames[e] \in Asked /\ usernames[e] \in Spellings
           /\ Lower[usernames[e]] \in Usernames /\ Lower[usernames[e]] \in Spellings
           /\ usernames[e] \in SpelledAs(Lower[usernames[e]])
BY MultiAssumption DEF Asked, Usernames, SpelledAs

\* What a task says is an item, about its username or, a heartbeat, about none.
LEMMA SaysItem ==
    ASSUME NEW e \in Entries, NEW what \in Said
    PROVE  /\ Says(e, what) \in Item /\ Says(e, what) # Done
           /\ Says(e, what).what = what
           /\ what # "heartbeat" => Lower[Says(e, what).name] = Lower[usernames[e]]
<1>1. Says(e, what) \in Item
  <2>1. CASE what = "heartbeat"
    BY <2>1 DEF Says, Item
  <2>2. CASE what # "heartbeat"
    BY <2>2, Asking DEF Says, Item, Said
  <2>3. QED  BY <2>1, <2>2
<1>2. Says(e, what) # Done
  BY <1>1, DoneAssumption
<1>3. Says(e, what).what = what
  BY DEF Says, Heartbeat
<1>4. what # "heartbeat" => Lower[Says(e, what).name] = Lower[usernames[e]]
  BY Asking, MultiAssumption DEF Says
<1>5. QED  BY <1>1, <1>2, <1>3, <1>4

\* The tasks that have not ended are at most remaining[0], and exactly that
\* many while none has been cancelled; the sentinel says that there are none.
TaskInv ==
    /\ TypeOK
    /\ Cardinality(Alive) <= remaining
    /\ gen = "open" => Cardinality(Alive) = remaining
    /\ DoneIsLast

LEMMA AliveFinite == IsFiniteSet(Alive) /\ Cardinality(Alive) \in Nat
<1>1. Alive \in SUBSET Entries
  BY DEF Alive
<1>2. QED  BY <1>1, MultiAssumption, FS_Subset, FS_CardinalityType

\* What is put is an item or nothing.
LEMMA PutItem ==
    ASSUME TypeOK, NEW e \in Entries, NEW what \in Said \cup {"none"}
    PROVE  /\ Put(e, what) \in Seq(Item \cup {Done})
           /\ \A k \in 1..Len(Put(e, what)) :
                 \/ k \in 1..Len(queue) /\ Put(e, what)[k] = queue[k]
                 \/ Put(e, what)[k] # Done
<1>1. CASE what = "none"
  BY <1>1 DEF Put, TypeOK
<1>2. CASE what # "none"
  <2> DEFINE i == Says(e, what)
  <2>2. i # Done /\ i \in Item \cup {Done} /\ Put(e, what) = Append(queue, i)
    BY <1>2, SaysItem DEF Put
  <2> HIDE DEF i
  <2>3. QED  BY <2>2 DEF TypeOK
<1>3. QED  BY <1>1, <1>2

\* A task that goes on.
LEMMA TaskGoesOn ==
    ASSUME TaskInv, NEW e \in Entries, ~Ended(e), gen = "open",
           NEW t \in [pc : {"created", "poll", "sleep"}, polls : 0..(HeartbeatEvery - 1)],
           task' = [task EXCEPT ![e] = t]
    PROVE  Alive' = Alive /\ ~AllEnded'
<1>1. \A d \in Entries : Ended(d)' <=> Ended(d)
  BY DEF TaskInv, TypeOK, Ended
<1>2. QED  BY <1>1 DEF Alive, AllEnded

\* A task that ends is one less alive.
LEMMA TaskEnds ==
    ASSUME TaskInv, NEW e \in Entries, ~Ended(e),
           task' = [task EXCEPT ![e].pc = "ended"]
    PROVE  /\ Alive' = Alive \ {e} /\ e \in Alive
           /\ Cardinality(Alive') = Cardinality(Alive) - 1
           /\ Cardinality(Alive) \in Nat /\ Cardinality(Alive') \in Nat
           /\ Cardinality(Alive) = 1 => AllEnded'
<1>1. \A d \in Entries : Ended(d)' <=> (Ended(d) \/ d = e)
  BY DEF TaskInv, TypeOK, Ended
<1>2. Alive' = Alive \ {e} /\ e \in Alive
  BY <1>1 DEF Alive
<1>3. /\ IsFiniteSet(Alive) /\ Cardinality(Alive) \in Nat
      /\ Cardinality(Alive') = Cardinality(Alive) - 1
      /\ IsFiniteSet(Alive')
  BY <1>2, AliveFinite, FS_RemoveElement
<1>4. Cardinality(Alive') \in Nat
  BY <1>3, FS_CardinalityType
<1>5. ASSUME Cardinality(Alive) = 1  PROVE AllEnded'
  <2>1. Cardinality(Alive') = 0
    BY <1>3, <1>5
  <2>2. Alive' = {}
    BY <1>3, <2>1, FS_EmptySet
  <2>3. QED  BY <2>2 DEF Alive, AllEnded
<1>6. QED  BY <1>2, <1>3, <1>4, <1>5

LEMMA TaskInvInit == Init => TaskInv
<1> SUFFICES ASSUME Init  PROVE TaskInv
  OBVIOUS
<1>1. Cardinality(Entries) \in Nat
  BY MultiAssumption, FS_CardinalityType
<1>2. Alive = Entries
  BY DEF Alive, Init, Ended
<1>3. TypeOK
  BY <1>1, MultiAssumption DEF Init, TypeOK, Feed!FeedInit, Feed!Nothing
<1>4. QED  BY <1>1, <1>2, <1>3 DEF Init, TaskInv, DoneIsLast

LEMMA WakesKeepsTaskInv ==
    ASSUME TaskInv, NEW e \in Entries, NEW from \in {"created", "sleep"}, Wakes(e, from)
    PROVE  TaskInv'
<1> DEFINE t == [task[e] EXCEPT !.pc = "poll"]
<1>1. /\ t \in [pc : {"created", "poll", "sleep"}, polls : 0..(HeartbeatEvery - 1)]
      /\ ~Ended(e) /\ gen = "open" /\ task' = [task EXCEPT ![e] = t]
  BY DEF Wakes, Ended, TaskInv, TypeOK
<1> HIDE DEF t
<1>2. Alive' = Alive
  BY <1>1, TaskGoesOn
<1>3. TypeOK'
  BY <1>1 DEF TaskInv, TypeOK, Wakes
<1>4. DoneIsLast'
  BY <1>1 DEF TaskInv, DoneIsLast, Wakes, AllEnded
<1>5. QED  BY <1>2, <1>3, <1>4 DEF TaskInv, Wakes

LEMMA PolledKeepsTaskInv ==
    ASSUME TaskInv, NEW e \in Entries, NEW what \in News \cup {"heartbeat", "none"},
           Polled(e, what)
    PROVE  TaskInv'
<1> DEFINE t == [pc |-> "sleep", polls |-> NextPoll(e)]
<1>1. /\ t \in [pc : {"created", "poll", "sleep"}, polls : 0..(HeartbeatEvery - 1)]
      /\ ~Ended(e) /\ gen = "open" /\ task' = [task EXCEPT ![e] = t]
  <2>1. task[e].polls \in Nat
    BY MultiAssumption DEF TaskInv, TypeOK
  <2>2. NextPoll(e) \in 0..(HeartbeatEvery - 1)
    BY <2>1, MultiAssumption DEF NextPoll
  <2>3. QED  BY <2>2 DEF Polled, Polls, Ended
<1> HIDE DEF t
<1>2. Alive' = Alive
  BY <1>1, TaskGoesOn
<1>3. Learnt(known[usernames[e]], what) \in Knowledge
  BY Asking, LearntType DEF TaskInv, TypeOK, Knowledge
<1>4. Put(e, what) \in Seq(Item \cup {Done})
  BY PutItem DEF TaskInv, Said
<1>5. TypeOK'
  <2>1. /\ queue' = Put(e, what) /\ task' = [task EXCEPT ![e] = t]
        /\ known' = [known EXCEPT ![usernames[e]] = Learnt(known[usernames[e]], what)]
        /\ UNCHANGED <<gen, remaining, feed>>
    BY <1>1 DEF Polled
  <2>2. known' \in [Asked -> Knowledge]
    BY <1>3, <2>1 DEF TaskInv, TypeOK, Knowledge
  <2>3. QED  BY <1>1, <1>4, <2>1, <2>2 DEF TaskInv, TypeOK, Knowledge
<1>6. \A k \in 1..Len(queue) : queue[k] # Done
  BY <1>1 DEF TaskInv, DoneIsLast, AllEnded, TypeOK
<1>7. \A k \in 1..Len(queue') : queue'[k] # Done
  BY <1>6, PutItem DEF Polled, TaskInv, Said
<1>8. DoneIsLast'
  BY <1>1, <1>5, <1>7 DEF DoneIsLast, Polled, TypeOK
<1>9. QED  BY <1>2, <1>5, <1>8 DEF TaskInv, Polled

LEMMA FinallyKeepsTaskInv ==
    ASSUME TaskInv, NEW e \in Entries, ~Ended(e), NEW q \in Seq(Item \cup {Done}),
           \A k \in 1..Len(q) : q[k] # Done, Finally(e, q)
    PROVE  TaskInv'
<1>1. /\ Cardinality(Alive') = Cardinality(Alive) - 1
      /\ Cardinality(Alive) \in Nat /\ Cardinality(Alive') \in Nat
      /\ Cardinality(Alive) = 1 => AllEnded'
  BY TaskEnds DEF Finally
<1>2. remaining \in Nat /\ Cardinality(Alive) <= remaining
      /\ (gen = "open" => Cardinality(Alive) = remaining)
  BY DEF TaskInv, TypeOK
<1>3. TypeOK'
  <2>1. queue' \in Seq(Item \cup {Done})
    BY DEF Finally, LastDone
  <2>2. remaining' \in 0..Cardinality(Entries)
    <3>1. Cardinality(Entries) \in Nat
      BY MultiAssumption, FS_CardinalityType
    <3>2. QED  BY <1>1, <1>2, <3>1 DEF Finally, TaskInv, TypeOK
  <2>3. QED  BY <2>1, <2>2 DEF Finally, TaskInv, TypeOK
<1>4. gen # "done"
  BY DEF TaskInv, DoneIsLast, AllEnded
<1>5. CASE remaining = 1
  <2>1. AllEnded'
    BY <1>1, <1>2, <1>5
  <2>2. queue' = Append(q, Done)
    BY <1>5 DEF Finally, LastDone
  <2>3. DoneIsLast'
    BY <1>4, <2>1, <2>2 DEF DoneIsLast, Finally
  <2>4. QED  BY <1>1, <1>2, <1>3, <2>3 DEF TaskInv, Finally
<1>6. CASE remaining # 1
  <2>1. queue' = q
    BY <1>6 DEF Finally, LastDone
  <2>2. DoneIsLast'
    BY <1>4, <2>1 DEF DoneIsLast, Finally
  <2>3. QED  BY <1>1, <1>2, <1>3, <2>2 DEF TaskInv, Finally
<1>7. QED  BY <1>5, <1>6

LEMMA TaskStepKeepsTaskInv ==
    ASSUME TaskInv, NEW e \in Entries, TaskStep(e)
    PROVE  TaskInv'
<1>1. CASE Start(e) \/ Wake(e)
  BY <1>1, WakesKeepsTaskInv DEF Start, Wake
<1>2. CASE Poll(e)
  BY <1>2, PolledKeepsTaskInv DEF Poll, Outcome, News
<1>3. ASSUME ~Ended(e)  PROVE \A k \in 1..Len(queue) : queue[k] # Done
  BY <1>3 DEF TaskInv, DoneIsLast, AllEnded, TypeOK
<1>4. CASE PollNotFound(e)
  <2>1. ~Ended(e) /\ Finally(e, Put(e, "fatal"))
    BY <1>4 DEF PollNotFound, Polls, Ended
  <2>2. /\ Put(e, "fatal") \in Seq(Item \cup {Done})
        /\ \A k \in 1..Len(Put(e, "fatal")) : Put(e, "fatal")[k] # Done
    BY <1>3, <2>1, PutItem DEF TaskInv, Said
  <2>3. QED  BY <2>1, <2>2, FinallyKeepsTaskInv
<1>5. CASE Cancelled(e)
  <2>1. ~Ended(e) /\ Finally(e, queue) /\ queue \in Seq(Item \cup {Done})
    BY <1>5 DEF Cancelled, Ended, TaskInv, TypeOK
  <2>2. QED  BY <1>3, <2>1, FinallyKeepsTaskInv
<1>6. CASE NeverStarted(e)
  <2>1. /\ ~Ended(e) /\ task' = [task EXCEPT ![e].pc = "ended"] /\ gen # "open"
        /\ UNCHANGED <<gen, known, remaining, queue, feed>>
    BY <1>6 DEF NeverStarted, Ended
  <2>2. /\ Cardinality(Alive') = Cardinality(Alive) - 1
        /\ Cardinality(Alive) \in Nat /\ Cardinality(Alive') \in Nat
    BY <2>1, TaskEnds
  <2>3. TypeOK'
    BY <2>1 DEF TaskInv, TypeOK
  <2>4. DoneIsLast'
    BY <1>3, <2>1 DEF TaskInv, DoneIsLast, AllEnded, TypeOK
  <2>5. remaining \in Nat
    BY DEF TaskInv, TypeOK
  <2>6. QED  BY <2>1, <2>2, <2>3, <2>4, <2>5 DEF TaskInv
<1>7. QED  BY <1>1, <1>2, <1>4, <1>5, <1>6 DEF TaskStep

LEMMA TaskInvStep == TaskInv /\ [Next]_vars => TaskInv'
<1> SUFFICES ASSUME TaskInv, [Next]_vars  PROVE TaskInv'
  OBVIOUS
<1>1. ASSUME NEW e \in Entries, TaskStep(e)  PROVE TaskInv'
  BY <1>1, TaskStepKeepsTaskInv
<1>2. CASE Take
  <2> DEFINE i == Head(queue)
  <2>1. /\ queue' = Tail(queue) /\ queue # <<>> /\ queue \in Seq(Item \cup {Done})
        /\ i \in Item \cup {Done} /\ gen = "open"
        /\ UNCHANGED <<task, known, remaining>>
    BY <1>2 DEF Take, TaskInv, TypeOK
  <2>2. /\ Alive' = Alive /\ (AllEnded' <=> AllEnded)
    BY <2>1 DEF Alive, AllEnded, Ended
  <2>3. feed' \in [Usernames -> Shown]
    <3>1. \A n \in Usernames : Hears(feed[n], i, n) \in Shown
      BY HearsType DEF TaskInv, TypeOK, Shown
    <3>2. QED  BY <1>2, <3>1 DEF Take
  <2>4. TypeOK'
    BY <1>2, <2>1, <2>3 DEF TaskInv, TypeOK, Take, AfterItem, Shown
  <2>5. DoneIsLast'
    <3>1. CASE i = Done
      <4>1. 1 \in DOMAIN queue /\ queue[1] = Done
        BY <2>1, <3>1
      <4>2. Len(queue) = 1 /\ AllEnded
        BY <4>1 DEF TaskInv, DoneIsLast
      <4>3. queue' = <<>>
        BY <2>1, <4>2
      <4>4. QED  BY <2>2, <4>2, <4>3 DEF DoneIsLast
    <3>2. CASE i # Done
      <4>1. gen' = "open"
        BY <1>2, <3>2 DEF Take, AfterItem
      <4>2. \A k \in 1..Len(queue') : k + 1 \in 1..Len(queue) /\ queue'[k] = queue[k + 1]
        BY <2>1
      <4>3. QED  BY <2>1, <2>2, <4>1, <4>2 DEF TaskInv, DoneIsLast
    <3>3. QED  BY <3>1, <3>2
  <2>6. QED  BY <2>1, <2>2, <2>4, <2>5 DEF TaskInv
<1>3. CASE Leave
  <2>1. Alive' = Alive /\ (AllEnded' <=> AllEnded) /\ gen' = "left"
    BY <1>3 DEF Leave, Alive, AllEnded, Ended
  <2>2. TypeOK'
    BY <1>3 DEF Leave, TaskInv, TypeOK, Feed!Reset, Feed!Nothing
  <2>3. DoneIsLast'
    BY <1>3, <2>1 DEF Leave, TaskInv, DoneIsLast
  <2>4. QED  BY <1>3, <2>1, <2>2, <2>3 DEF Leave, TaskInv
<1>4. CASE UNCHANGED vars
  BY <1>4 DEF vars, TaskInv, TypeOK, DoneIsLast, Alive, AllEnded, Ended
<1>5. QED  BY <1>1, <1>2, <1>3, <1>4 DEF Next

LEMMA TaskInvariant == Spec => []TaskInv
BY TaskInvInit, TaskInvStep, PTL DEF Spec

\* No item follows the sentinel and no task is alive when it is put or taken,
\* however the ends of the tasks and the departure of the client fall.
THEOREM SentinelIsLast == Spec => []DoneIsLast
<1>1. TaskInv => DoneIsLast
  BY DEF TaskInv
<1>2. QED  BY <1>1, TaskInvariant, PTL

-----------------------------------------------------------------------------
(* Refinement of ChangeFeed *)

\* Item i tells of username n what ChangeFeed is about, and where in q
\* something does.
About(i, n)  == i # Done /\ i.what \in News /\ Lower[i.name] = n
NewsAt(q, n) == {k \in 1..Len(q) : About(q[k], n)}

\* What waits for username n is news, one item after the other, to a client
\* that has been sent f; at the end of it stands what the tasks believe the
\* client to know.
Chain(q, f, known_n, n) ==
    /\ \A k \in NewsAt(q, n) : (\A j \in NewsAt(q, n) : k <= j) /\ q[k].what \in Status
         => q[k].what # f.shown \/ f.failed
    /\ \A j, k \in NewsAt(q, n) :
         j < k /\ (\A m \in NewsAt(q, n) : m <= j \/ k <= m) /\ q[k].what \in Status
         => q[k].what # q[j].what
    /\ \A k \in NewsAt(q, n) : (\A j \in NewsAt(q, n) : j <= k)
         => /\ known_n.hadError <=> q[k].what = "error"
            /\ q[k].what \in Status => known_n.lastLive = q[k].what
    /\ NewsAt(q, n) = {} =>
         /\ known_n.hadError <=> f.failed
         /\ ~f.failed => known_n.lastLive = f.shown

\* Something else is put.
LEMMA ChainOther ==
    ASSUME NEW q \in Seq(Item \cup {Done}), NEW i \in Item \cup {Done}, NEW n,
           NEW f \in Shown, NEW kn \in Knowledge, Chain(q, f, kn, n),
           ~About(i, n)
    PROVE  Chain(Append(q, i), f, kn, n)
<1> DEFINE q2 == Append(q, i)
<1>1. /\ q2 \in Seq(Item \cup {Done}) /\ Len(q2) = Len(q) + 1 /\ q2[Len(q) + 1] = i
      /\ \A k \in 1..Len(q) : q2[k] = q[k]
      /\ Len(q) \in Nat
  OBVIOUS
<1> HIDE DEF q2
<1>2. NewsAt(q2, n) = NewsAt(q, n) /\ NewsAt(q, n) \in SUBSET (1..Len(q))
  BY <1>1 DEF NewsAt
<1>3. \A k \in NewsAt(q, n) : q2[k] = q[k]
  BY <1>1, <1>2
<1>4. Chain(q2, f, kn, n)
  BY <1>2, <1>3 DEF Chain
<1>5. QED  BY <1>4 DEF q2

\* News is put, and the tasks know it.
LEMMA ChainNews ==
    ASSUME NEW q \in Seq(Item \cup {Done}), NEW n, NEW what \in News,
           NEW i \in Item, About(i, n), i.what = what,
           NEW f \in Shown, NEW kn \in Knowledge, Chain(q, f, kn, n),
           what \in Status => what # kn.lastLive \/ kn.hadError
    PROVE  Chain(Append(q, i), f, Learnt(kn, what), n)
<1> DEFINE q2 == Append(q, i)
           L == Len(q) + 1
<1>0. i \in Item /\ i # Done /\ i.what = what
  BY DEF About
<1>1. /\ q2 \in Seq(Item \cup {Done}) /\ Len(q2) = L /\ q2[L] = i
      /\ \A k \in 1..Len(q) : q2[k] = q[k]
      /\ Len(q) \in Nat /\ L \notin 1..Len(q) /\ 1..L = (1..Len(q)) \cup {L}
      /\ \A k \in 1..Len(q) : k < L
  BY <1>0
<1> HIDE DEF q2, L
<1>2. NewsAt(q2, n) = NewsAt(q, n) \cup {L} /\ NewsAt(q, n) \in SUBSET (1..Len(q))
  BY <1>0, <1>1 DEF NewsAt
<1>3. /\ \A k \in NewsAt(q, n) : q2[k] = q[k] /\ k < L /\ k \in Nat
      /\ L \in Nat
  BY <1>1, <1>2 DEF L
<1>4. /\ Learnt(kn, what).hadError <=> what = "error"
      /\ what \in Status => Learnt(kn, what).lastLive = what
  BY DEF Learnt, Knowledge, Status, News
<1>5. ASSUME NEW k \in NewsAt(q2, n), \A j \in NewsAt(q2, n) : k <= j, q2[k].what \in Status
      PROVE  q2[k].what # f.shown \/ f.failed
  <2>1. CASE k \in NewsAt(q, n)
    BY <1>2, <1>3, <1>5, <2>1 DEF Chain
  <2>2. CASE k = L
    <3>1. NewsAt(q, n) = {}
      BY <1>2, <1>3, <1>5, <2>2
    <3>2. QED  BY <1>0, <1>1, <1>5, <2>2, <3>1 DEF Chain
  <2>3. QED  BY <1>2, <2>1, <2>2
<1>6. ASSUME NEW j \in NewsAt(q2, n), NEW k \in NewsAt(q2, n), j < k,
             \A m \in NewsAt(q2, n) : m <= j \/ k <= m, q2[k].what \in Status
      PROVE  q2[k].what # q2[j].what
  <2>1. j \in NewsAt(q, n)
    BY <1>2, <1>3, <1>6
  <2>2. CASE k \in NewsAt(q, n)
    BY <1>2, <1>3, <1>6, <2>1, <2>2 DEF Chain
  <2>3. CASE k = L
    <3>1. \A m \in NewsAt(q, n) : m <= j
      BY <1>2, <1>3, <1>6, <2>3
    <3>2. /\ kn.hadError <=> q[j].what = "error"
          /\ q[j].what \in Status => kn.lastLive = q[j].what
      BY <2>1, <3>1 DEF Chain
    <3>3. q[j].what \in Status \cup {"error"} /\ "error" \notin Status
      BY <2>1 DEF NewsAt, About, News, Status
    <3>4. QED  BY <1>0, <1>1, <1>3, <1>6, <2>1, <2>3, <3>2, <3>3
  <2>4. QED  BY <1>2, <2>2, <2>3
<1>7. ASSUME NEW k \in NewsAt(q2, n), \A j \in NewsAt(q2, n) : j <= k
      PROVE  k = L
  BY <1>2, <1>3, <1>7
<1>8. Chain(q2, f, Learnt(kn, what), n)
  <2>1. L \in NewsAt(q2, n)
    BY <1>2
  <2>2. ASSUME NEW k \in NewsAt(q2, n), \A j \in NewsAt(q2, n) : j <= k
        PROVE  /\ Learnt(kn, what).hadError <=> q2[k].what = "error"
               /\ q2[k].what \in Status => Learnt(kn, what).lastLive = q2[k].what
    BY <1>0, <1>1, <1>4, <1>7, <2>2
  <2>3. QED  BY <1>5, <1>6, <2>1, <2>2 DEF Chain
<1>9. QED  BY <1>8 DEF q2

\* What stands in the tail of a queue.
LEMMA TailNews ==
    ASSUME NEW q \in Seq(Item \cup {Done}), q # <<>>, NEW n
    PROVE  /\ NewsAt(q, n) \in SUBSET (1..Len(q))
           /\ \A k \in NewsAt(Tail(q), n) :
                 k \in Nat /\ k + 1 \in NewsAt(q, n) /\ Tail(q)[k] = q[k + 1] /\ 1 <= k
           /\ \A k \in NewsAt(q, n) : k # 1 => k - 1 \in NewsAt(Tail(q), n)
<1>1. /\ Tail(q) \in Seq(Item \cup {Done}) /\ Len(Tail(q)) = Len(q) - 1
      /\ \A k \in 1..(Len(q) - 1) : Tail(q)[k] = q[k + 1]
      /\ Len(q) \in Nat /\ Len(q) >= 1
  OBVIOUS
<1> DEFINE r == Tail(q)
<1>2. /\ Len(r) = Len(q) - 1 /\ \A k \in 1..(Len(q) - 1) : r[k] = q[k + 1]
  BY <1>1
<1> HIDE DEF r
<1>3. ASSUME NEW k \in NewsAt(r, n)
      PROVE  k \in Nat /\ k + 1 \in NewsAt(q, n) /\ r[k] = q[k + 1] /\ 1 <= k
  <2>1. k \in 1..Len(r)
    BY <1>3 DEF NewsAt
  <2>2. k \in 1..(Len(q) - 1) /\ k + 1 \in 1..Len(q)
    BY <1>1, <1>2, <2>1
  <2>3. r[k] = q[k + 1]
    BY <1>2, <2>2
  <2>4. QED  BY <1>3, <2>2, <2>3 DEF NewsAt
<1>4. ASSUME NEW k \in NewsAt(q, n), k # 1  PROVE k - 1 \in NewsAt(r, n)
  <2>1. k \in 1..Len(q)
    BY DEF NewsAt
  <2>2. k - 1 \in 1..(Len(q) - 1) /\ (k - 1) + 1 = k
    BY <1>1, <1>4, <2>1
  <2>3. r[k - 1] = q[k] /\ k - 1 \in 1..Len(r)
    BY <1>2, <2>2
  <2>4. QED  BY <2>3 DEF NewsAt
<1>5. NewsAt(q, n) \in SUBSET (1..Len(q))
  BY DEF NewsAt
<1>6. QED  BY <1>3, <1>4, <1>5 DEF r

\* The head of the queue is about something else.
LEMMA ChainTailOther ==
    ASSUME NEW q \in Seq(Item \cup {Done}), q # <<>>, NEW n,
           NEW f \in Shown, NEW kn \in Knowledge, Chain(q, f, kn, n), 1 \notin NewsAt(q, n)
    PROVE  Chain(Tail(q), f, kn, n)
<1> DEFINE N == NewsAt(q, n)
           R == NewsAt(Tail(q), n)
           r == Tail(q)
<1>1. /\ \A k \in R : k \in Nat /\ k + 1 \in N /\ r[k] = q[k + 1]
      /\ \A k \in N : k \in Nat /\ k - 1 \in R /\ k - 1 \in Nat
  <2>1. \A k \in N : k \in 1..Len(q) /\ k # 1
    BY TailNews
  <2>2. QED  BY <2>1, TailNews
<1> HIDE DEF R, r
<1>2. ASSUME NEW k \in R  PROVE /\ (\A j \in R : k <= j) => \A j \in N : k + 1 <= j
                                /\ (\A j \in R : j <= k) => \A j \in N : j <= k + 1
  BY <1>1
<1>3. ASSUME NEW j \in R, NEW k \in R, \A m \in R : m <= j \/ k <= m
      PROVE  \A m \in N : m <= j + 1 \/ k + 1 <= m
  BY <1>1, <1>3
<1>4. R = {} => N = {}
  BY <1>1
<1>5. ASSUME NEW k \in R, \A j \in R : k <= j, r[k].what \in Status
      PROVE  r[k].what # f.shown \/ f.failed
  BY <1>1, <1>2, <1>5 DEF Chain
<1>6. ASSUME NEW j \in R, NEW k \in R, j < k, \A m \in R : m <= j \/ k <= m,
             r[k].what \in Status
      PROVE  r[k].what # r[j].what
  <2>1. j + 1 < k + 1 /\ j + 1 \in N /\ k + 1 \in N
    BY <1>1, <1>6
  <2>2. r[k] = q[k + 1] /\ r[j] = q[j + 1] /\ q[k + 1].what \in Status
    BY <1>1, <1>6
  <2>3. \A m \in N : m <= j + 1 \/ k + 1 <= m
    BY <1>3, <1>6
  <2>4. q[k + 1].what # q[j + 1].what
    BY <2>1, <2>2, <2>3 DEF Chain
  <2>5. QED  BY <2>2, <2>4
<1>7. ASSUME NEW k \in R, \A j \in R : j <= k
      PROVE  /\ kn.hadError <=> r[k].what = "error"
             /\ r[k].what \in Status => kn.lastLive = r[k].what
  BY <1>1, <1>2, <1>7 DEF Chain
<1>8. QED  BY <1>4, <1>5, <1>6, <1>7 DEF Chain, R, r

\* The head of the queue is sent.
LEMMA ChainTailNews ==
    ASSUME NEW q \in Seq(Item \cup {Done}), q # <<>>, NEW n,
           NEW f \in Shown, NEW kn \in Knowledge, Chain(q, f, kn, n), 1 \in NewsAt(q, n)
    PROVE  /\ Chain(Tail(q), Feed!Sent(f, q[1].what), kn, n)
           /\ q[1].what \in Status => q[1].what # f.shown \/ f.failed
<1> DEFINE N == NewsAt(q, n)
           R == NewsAt(Tail(q), n)
           r == Tail(q)
           g == Feed!Sent(f, q[1].what)
<1>1. /\ \A k \in R : k \in Nat /\ k + 1 \in N /\ r[k] = q[k + 1] /\ 1 <= k
      /\ \A k \in N : k \in Nat /\ k >= 1 /\ (k # 1 => k - 1 \in R /\ k - 1 \in Nat)
  <2>1. \A k \in N : k \in 1..Len(q)
    BY TailNews
  <2>2. QED  BY <2>1, TailNews
<1>0. q[1].what \in Status \cup {"error"}
  BY DEF NewsAt, About, News
<1>2. /\ q[1].what \in Status => g.shown = q[1].what /\ ~g.failed
      /\ q[1].what = "error" => g.failed
  BY DEF Feed!Sent, Shown, Status
<1> HIDE DEF R, r, g
<1>3. ASSUME NEW k \in R, \A j \in R : k <= j, r[k].what \in Status
      PROVE  r[k].what # g.shown \/ g.failed
  <2>1. \A m \in N : m <= 1 \/ k + 1 <= m
    BY <1>1, <1>3
  <2>2. k + 1 \in N /\ 1 < k + 1 /\ q[k + 1].what \in Status
    BY <1>1, <1>3
  <2>3. q[k + 1].what # q[1].what
    BY <2>1, <2>2 DEF Chain
  <2>4. QED  BY <1>0, <1>1, <1>2, <2>3
<1>4. ASSUME NEW j \in R, NEW k \in R, j < k, \A m \in R : m <= j \/ k <= m,
             r[k].what \in Status
      PROVE  r[k].what # r[j].what
  <2>1. j + 1 < k + 1 /\ j + 1 \in N /\ k + 1 \in N
    BY <1>1, <1>4
  <2>2. \A m \in N : m <= j + 1 \/ k + 1 <= m
    BY <1>1, <1>4
  <2>3. r[k] = q[k + 1] /\ r[j] = q[j + 1] /\ q[k + 1].what \in Status
    BY <1>1, <1>4
  <2>4. q[k + 1].what # q[j + 1].what
    BY <2>1, <2>2, <2>3 DEF Chain
  <2>5. QED  BY <2>3, <2>4
<1>5. ASSUME NEW k \in R, \A j \in R : j <= k
      PROVE  /\ kn.hadError <=> r[k].what = "error"
             /\ r[k].what \in Status => kn.lastLive = r[k].what
  <2>1. k + 1 \in N /\ \A m \in N : m <= k + 1
    BY <1>1, <1>5
  <2>2. QED  BY <1>1, <2>1 DEF Chain
<1>6. ASSUME R = {}
      PROVE  (kn.hadError <=> g.failed) /\ (~g.failed => kn.lastLive = g.shown)
  <2>1. \A m \in N : m <= 1
    BY <1>1, <1>6
  <2>2. /\ kn.hadError <=> q[1].what = "error"
        /\ q[1].what \in Status => kn.lastLive = q[1].what
    BY <2>1 DEF Chain
  <2>3. "error" \notin Status
    BY DEF Status
  <2>4. QED  BY <1>0, <1>2, <2>2, <2>3
<1>7. q[1].what \in Status => q[1].what # f.shown \/ f.failed
  BY <1>1 DEF Chain
<1>8. QED  BY <1>3, <1>4, <1>5, <1>6, <1>7 DEF Chain, R, r, g

Chains == gen = "open" =>
    \A n \in SpelledOnce : \A u \in SpelledAs(n) : Chain(queue, feed[n], known[u], n)

LEMMA OnlySpelling ==
    ASSUME NEW n \in SpelledOnce
    PROVE  /\ n \in Usernames
           /\ \A u, v \in SpelledAs(n) : u \in Asked /\ u = v
BY DEF SpelledOnce, SpelledAs

\* What one task puts.
LEMMA PolledKeepsChains ==
    ASSUME TaskInv, Chains, NEW e \in Entries,
           NEW what \in News \cup {"heartbeat", "none"}, Polled(e, what),
           what \in Status => \/ what # known[usernames[e]].lastLive
                              \/ known[usernames[e]].hadError
    PROVE  Chains'
<1> DEFINE i == Says(e, what)
           s == usernames[e]
<1>1. /\ gen = "open" /\ queue \in Seq(Item \cup {Done})
      /\ \A n \in Usernames : feed[n] \in Shown
      /\ known \in [Asked -> Knowledge] /\ s \in Asked
      /\ feed' = feed /\ known' = [known EXCEPT ![s] = Learnt(known[s], what)]
  BY Asking DEF Polled, Polls, TaskInv, TypeOK, Shown, Knowledge
<1> HIDE DEF s
<1>2. ASSUME NEW n \in SpelledOnce, NEW u \in SpelledAs(n)
      PROVE  Chain(queue', feed[n], known'[u], n)
  <2>1. /\ Chain(queue, feed[n], known[u], n) /\ feed[n] \in Shown
        /\ u \in Asked /\ known[u] \in Knowledge
    BY <1>1, OnlySpelling DEF Chains
  <2>2. CASE what = "none"
    <3>1. queue' = queue
      BY <2>2 DEF Polled, Put
    <3>2. Learnt(known[s], what) = known[s]
      BY <2>2 DEF Learnt, Status
    <3>3. known'[u] = known[u]
      BY <1>1, <2>1, <3>2
    <3>4. QED  BY <2>1, <3>1, <3>3
  <2>3. CASE what = "heartbeat" \/ (what \in News /\ n # Lower[s])
    <3>1. queue' = Append(queue, i) /\ i \in Item /\ i.what = what
          /\ (what # "heartbeat" => Lower[i.name] = Lower[s])
      BY <2>3, SaysItem DEF Polled, Put, Said, News, Status, s
    <3>2. Learnt(known[s], "heartbeat") = known[s]
      BY DEF Learnt, Status
    <3>3. Lower[u] = n
      BY DEF SpelledAs
    <3>4. known'[u] = known[u]
      BY <1>1, <2>1, <2>3, <3>2, <3>3
    <3> HIDE DEF i
    <3>5. ~About(i, n)
      BY <2>3, <3>1 DEF About, News, Status
    <3>6. Chain(Append(queue, i), feed[n], known[u], n)
      BY <1>1, <2>1, <3>1, <3>5, ChainOther
    <3>7. QED  BY <3>1, <3>4, <3>6
  <2>4. CASE what \in News /\ n = Lower[s]
    <3>1. queue' = Append(queue, i) /\ i \in Item /\ i.what = what /\ About(i, n)
      BY <2>4, SaysItem DEF Polled, Put, Said, News, Status, About, s
    <3>2. s = u
      BY <2>4, Asking, OnlySpelling DEF s
    <3>3. known'[u] = Learnt(known[u], what)
      BY <1>1, <3>2
    <3>4. what \in Status => what # known[u].lastLive \/ known[u].hadError
      BY <3>2 DEF s
    <3> HIDE DEF i
    <3>5. Chain(Append(queue, i), feed[n], Learnt(known[u], what), n)
      BY <1>1, <2>1, <2>4, <3>1, <3>4, ChainNews
    <3>6. QED  BY <3>1, <3>3, <3>5
  <2>5. QED  BY <2>2, <2>3, <2>4
<1>3. QED  BY <1>1, <1>2 DEF Chains

\* The username is not found, or nothing is put: nobody is told of a status.
LEMMA FatalKeepsChains ==
    ASSUME TaskInv, Chains, NEW e \in Entries, PollNotFound(e)
    PROVE  Chains'
<1> DEFINE i == Says(e, "fatal")
<1>1. /\ queue \in Seq(Item \cup {Done}) /\ gen = "open"
      /\ feed \in [Usernames -> Shown] /\ known \in [Asked -> Knowledge]
      /\ feed' = feed /\ known' = known
  BY DEF PollNotFound, Finally, Polls, TaskInv, TypeOK, Shown, Knowledge
<1>2. /\ i \in Item /\ Put(e, "fatal") = Append(queue, i) /\ i.what = "fatal"
  BY SaysItem DEF Said, Put
<1> HIDE DEF i
<1>3. \A n : ~About(i, n) /\ ~About(Done, n)
  BY <1>2 DEF About, News, Status
<1>4. ASSUME NEW n \in SpelledOnce, NEW u \in SpelledAs(n)
      PROVE  Chain(queue', feed[n], known[u], n)
  <2>0. feed[n] \in Shown /\ known[u] \in Knowledge /\ Chain(queue, feed[n], known[u], n)
    BY <1>1, OnlySpelling DEF Chains
  <2>1. /\ Chain(Append(queue, i), feed[n], known[u], n)
        /\ Append(queue, i) \in Seq(Item \cup {Done})
    <3>1. i \in Item \cup {Done} /\ ~About(i, n) /\ queue \in Seq(Item \cup {Done})
      BY <1>1, <1>2, <1>3
    <3>2. Chain(Append(queue, i), feed[n], known[u], n)
      BY <2>0, <3>1, ChainOther
    <3>3. QED  BY <3>1, <3>2
  <2>2. Chain(Append(Append(queue, i), Done), feed[n], known[u], n)
    <3> DEFINE q == Append(queue, i)
    <3>1. q \in Seq(Item \cup {Done}) /\ Chain(q, feed[n], known[u], n)
      BY <2>1
    <3> HIDE DEF q
    <3>2. Chain(Append(q, Done), feed[n], known[u], n)
      BY <1>3, <2>0, <3>1, ChainOther
    <3>3. QED  BY <3>2 DEF q
  <2>3. queue' \in {Append(queue, i), Append(Append(queue, i), Done)}
    BY <1>2 DEF PollNotFound, Finally, LastDone
  <2>4. QED  BY <2>1, <2>2, <2>3
<1>5. QED  BY <1>1, <1>4 DEF Chains

View == [n \in SpelledOnce |-> feed[n]]

\* What the client hears of the usernames spelled in one way.
LEMMA ViewHears ==
    ASSUME TaskInv, Take, NEW n \in SpelledOnce
    PROVE  /\ View'[n] = Hears(View[n], Head(queue), n) /\ View[n] = feed[n]
           /\ View'[n] = feed'[n]
<1>1. n \in Usernames
  BY OnlySpelling
<1>2. feed' = [m \in Usernames |-> Hears(feed[m], Head(queue), m)]
  BY DEF Take
<1>3. QED  BY <1>1, <1>2 DEF View

\* The client is sent the head of the queue, and it is news if it is a status.
LEMMA TakeKeepsChains ==
    ASSUME TaskInv, Chains, Take
    PROVE  Chains' /\ (OneWay!FeedNext \/ View' = View)
<1> DEFINE i == Head(queue)
<1>1. /\ queue \in Seq(Item \cup {Done}) /\ queue # <<>> /\ gen = "open"
      /\ queue' = Tail(queue) /\ known' = known /\ i = queue[1] /\ 1 \in 1..Len(queue)
      /\ \A n \in SpelledOnce : \A u \in SpelledAs(n) :
           /\ feed[n] \in Shown /\ known[u] \in Knowledge
           /\ Chain(queue, feed[n], known[u], n)
  BY OnlySpelling DEF Take, TaskInv, TypeOK, Shown, Knowledge, Chains
<1>2. \A n \in SpelledOnce : 1 \in NewsAt(queue, n) <=> About(i, n)
  BY <1>1 DEF NewsAt
<1>3. \A n \in SpelledOnce :
        /\ About(i, n) => View'[n] = Feed!Sent(View[n], i.what)
        /\ ~About(i, n) => View'[n] = View[n]
        /\ View[n] = feed[n] /\ View'[n] = feed'[n]
  BY ViewHears DEF Hears, About
<1> HIDE DEF i
<1>4. ASSUME NEW n \in SpelledOnce, NEW u \in SpelledAs(n)
      PROVE  Chain(queue', feed'[n], known[u], n)
  <2>1. CASE About(i, n)
    <3>1. feed'[n] = Feed!Sent(feed[n], queue[1].what)
      BY <1>1, <1>3, <2>1
    <3>2. Chain(Tail(queue), Feed!Sent(feed[n], queue[1].what), known[u], n)
      BY <1>1, <1>2, <2>1, ChainTailNews
    <3>3. QED  BY <1>1, <3>1, <3>2
  <2>2. CASE ~About(i, n)
    <3>1. Chain(Tail(queue), feed[n], known[u], n)
      BY <1>1, <1>2, <2>2, ChainTailOther
    <3>2. QED  BY <1>1, <1>3, <2>2, <3>1
  <2>3. QED  BY <2>1, <2>2
<1>5. CASE \E n \in SpelledOnce : About(i, n)
  <2>1. PICK n \in SpelledOnce : About(i, n)
    BY <1>5
  <2>2. \A m \in SpelledOnce : m # n => View'[m] = View[m]
    BY <1>3, <2>1 DEF About
  <2>3. View' = [View EXCEPT ![n] = Feed!Sent(View[n], i.what)]
    BY <1>3, <2>1, <2>2 DEF View
  <2>4. PICK u \in Asked : u \in SpelledAs(n)
    BY OnlySpelling DEF Usernames, SpelledAs
  <2>5. i.what \in Status => i.what # View[n].shown \/ View[n].failed
    <3>1. 1 \in NewsAt(queue, n) /\ Chain(queue, feed[n], known[u], n)
          /\ feed[n] \in Shown /\ known[u] \in Knowledge
      BY <1>1, <1>2, <2>1, <2>4
    <3>2. queue[1].what \in Status => queue[1].what # feed[n].shown \/ feed[n].failed
      BY <1>1, <3>1, ChainTailNews
    <3>3. QED  BY <1>1, <1>3, <3>2
  <2>6. View' = [View EXCEPT ![n] = OneWay!Sent(View[n], i.what)]
    BY <2>3 DEF Feed!Sent, OneWay!Sent
  <2>7. CASE i.what \in Status
    <3>1. OneWay!ShowStatus(n)
      BY <2>5, <2>6, <2>7 DEF OneWay!ShowStatus, View
    <3>2. QED  BY <1>1, <1>4, <3>1 DEF OneWay!FeedNext, Chains
  <2>8. CASE i.what = "error"
    <3>1. OneWay!ShowError(n)
      BY <2>6, <2>8 DEF OneWay!ShowError, View
    <3>2. QED  BY <1>1, <1>4, <3>1 DEF OneWay!FeedNext, Chains
  <2>9. QED  BY <2>1, <2>7, <2>8 DEF About, News
<1>6. CASE \A n \in SpelledOnce : ~About(i, n)
  <2>1. View' = View
    BY <1>3, <1>6 DEF View
  <2>2. QED  BY <1>1, <1>4, <2>1 DEF Chains
<1>7. QED  BY <1>5, <1>6

LEMMA ChainsInit == Init => Chains
<1> SUFFICES ASSUME Init, NEW n \in SpelledOnce, NEW u \in SpelledAs(n)
             PROVE  Chain(queue, feed[n], known[u], n)
  BY DEF Chains
<1>1. NewsAt(queue, n) = {}
  BY DEF Init, NewsAt
<1>2. feed[n] = Feed!Nothing /\ known[u] = [lastLive |-> "unknown", hadError |-> FALSE]
  BY OnlySpelling DEF Init, Feed!FeedInit
<1>3. QED  BY <1>1, <1>2 DEF Chain, Feed!Nothing

LEMMA ChainsStep ==
    TaskInv /\ Chains /\ [Next]_vars => Chains' /\ (OneWay!FeedNext \/ View' = View)
<1> SUFFICES ASSUME TaskInv, Chains, [Next]_vars
             PROVE  Chains' /\ (OneWay!FeedNext \/ View' = View)
  OBVIOUS
<1>1. CASE Take
  BY <1>1, TakeKeepsChains
<1>2. CASE Leave
  <2>1. View' = [n \in SpelledOnce |-> OneWay!Nothing]
    BY <1>2, OnlySpelling DEF Leave, View, Feed!Reset, Feed!Nothing, OneWay!Nothing
  <2>2. OneWay!Reset
    BY <2>1 DEF OneWay!Reset, View
  <2>3. QED  BY <1>2, <2>2 DEF Leave, Chains, OneWay!FeedNext
<1>3. CASE UNCHANGED vars
  BY <1>3 DEF vars, Chains, View
<1>4. ASSUME NEW e \in Entries, TaskStep(e)  PROVE Chains' /\ feed' = feed
  <2>1. CASE Start(e) \/ Wake(e)
    BY <2>1 DEF Start, Wake, Wakes, Chains
  <2>2. CASE Poll(e)
    <3>1. CASE Polled(e, "error")
      <4>1. Chains'
        BY <3>1, PolledKeepsChains DEF Status, News
      <4>2. QED  BY <3>1, <4>1 DEF Polled
    <3>2. ASSUME NEW status \in Status, Polled(e, Outcome(e, status))
          PROVE  Chains' /\ feed' = feed
      <4> DEFINE what == Outcome(e, status)
      <4>1. /\ what \in News \cup {"heartbeat", "none"}
            /\ what \in Status => \/ what # known[usernames[e]].lastLive
                                  \/ known[usernames[e]].hadError
        BY DEF Outcome, Status, News
      <4>2. Polled(e, what)
        BY <3>2
      <4> HIDE DEF what
      <4>3. Chains'
        BY <4>1, <4>2, PolledKeepsChains
      <4>4. QED  BY <4>2, <4>3 DEF Polled
    <3>3. QED  BY <2>2, <3>1, <3>2 DEF Poll
  <2>3. CASE PollNotFound(e)
    BY <2>3, FatalKeepsChains DEF PollNotFound, Finally
  <2>4. CASE Cancelled(e) \/ NeverStarted(e)
    BY <2>4 DEF Cancelled, NeverStarted, Finally, Chains
  <2>5. QED  BY <1>4, <2>1, <2>2, <2>3, <2>4 DEF TaskStep
<1>5. QED  BY <1>1, <1>2, <1>3, <1>4 DEF Next, View

\* Whatever the tasks of one spelling put between one another's items, a
\* client is shown by username changes, and the status once more after an
\* error; never the same status twice with no error in between.  Of usernames
\* that the list spells in several ways this does not hold.
THEOREM MultiIsChangeFeed == Spec => ImplementsChangeFeed
<1>1. Init => OneWay!FeedInit
  BY OnlySpelling DEF Init, Feed!FeedInit, OneWay!FeedInit, Feed!Nothing, OneWay!Nothing
<1>2. Spec => [](TaskInv /\ Chains)
  BY TaskInvInit, TaskInvStep, ChainsInit, ChainsStep, PTL DEF Spec
<1>3. TaskInv /\ Chains /\ [Next]_vars => OneWay!FeedNext \/ UNCHANGED [n \in SpelledOnce |-> feed[n]]
  BY ChainsStep DEF View
<1>4. QED
  BY <1>1, <1>2, <1>3, PTL DEF Spec, ImplementsChangeFeed, OneWay!FeedSpec

-----------------------------------------------------------------------------
(* What waits in the queue *)

\* The client of username n, who knows f, takes all of q.
Told(q, f, n) == FoldLeft(LAMBDA g, i : Hears(g, i, n), f, q)
HearsAll(p, q, f, n) == p[0] = f /\ \A k \in 1..Len(q) : p[k] = Hears(p[k - 1], q[k], n)

Entry == Item \cup {Done}

LEMMA ToldUnfolds ==
    ASSUME NEW q \in Seq(Entry), NEW f \in Shown, NEW n
    PROVE  \E p : /\ HearsAll(p, q, f, n) /\ Told(q, f, n) = p[Len(q)]
                 /\ \A k \in 0..Len(q) : p[k] \in Shown
<1> DEFINE m == Len(q)
           It == CHOOSE it : it = [s \in SUBSET DOMAIN q |->
                   IF s = {} THEN f ELSE Hears(it[s \ {Max(s)}], q[Max(s)], n)]
           step == [z \in (1..m) \X Shown |-> Hears(z[2], q[z[1]], n)]
<1>0. m \in Nat /\ DOMAIN q = 1..m
  OBVIOUS
<1>1. Told(q, f, n) = It[DOMAIN q]
  BY DEF Told, FoldLeft, MapThenFoldSet
<1> HIDE DEF m
<1>2. \A x \in 1..m, v \in Shown :
        step[<<x, v>>] = Hears(v, q[x], n) /\ step[<<x, v>>] \in Shown
  BY HearsType
<1> HIDE DEF step
<1>3. StepIn(step, m, Shown)
  BY <1>2 DEF StepIn
<1>4. PICK i \in [SUBSET (1..m) -> Shown] : Folds(i, m, f, step)
  BY <1>0, <1>3, FoldIterExists
<1>5. \A s \in SUBSET (1..m) : s # {} => Max(s) \in 1..m
  BY <1>0, MaxFacts
<1>6. i = [s \in SUBSET DOMAIN q |->
             IF s = {} THEN f ELSE Hears(i[s \ {Max(s)}], q[Max(s)], n)]
  <2>1. ASSUME NEW s \in SUBSET (1..m), s # {}
        PROVE  i[s] = Hears(i[s \ {Max(s)}], q[Max(s)], n)
    <3>1. i[s] = step[<<Max(s), i[s \ {Max(s)}]>>] /\ i[s \ {Max(s)}] \in Shown
      BY <1>4, <2>1 DEF Folds
    <3>2. QED  BY <1>2, <1>5, <2>1, <3>1
  <2>2. i[{}] = f
    BY <1>4 DEF Folds
  <2>3. QED  BY <1>0, <1>4, <2>1, <2>2
<1>7. It = [s \in SUBSET DOMAIN q |->
              IF s = {} THEN f ELSE Hears(It[s \ {Max(s)}], q[Max(s)], n)]
  BY <1>6
<1> HIDE DEF It
<1>8. Steps(It, m, f, step, Shown)
  <2>1. ASSUME NEW s \in SUBSET (1..m), s # {}, It[s \ {Max(s)}] \in Shown
        PROVE  It[s] = step[<<Max(s), It[s \ {Max(s)}]>>]
    <3>1. It[s] = Hears(It[s \ {Max(s)}], q[Max(s)], n)
      BY <1>0, <1>7, <2>1
    <3>2. QED  BY <1>2, <1>5, <2>1, <3>1
  <2>2. It[{}] = f
    BY <1>7
  <2>3. QED  BY <2>1, <2>2 DEF Steps
<1>9. PICK p \in [0..m -> Shown] : Runs(p, m, f, step) /\ It[1..m] = p[m]
  BY <1>0, <1>3, <1>8, FoldRuns
<1>10. ASSUME NEW k \in 1..m  PROVE p[k] = Hears(p[k - 1], q[k], n)
  <2>1. k - 1 \in 0..m
    BY <1>0
  <2>2. p[k - 1] \in Shown /\ p[k] = step[<<k, p[k - 1]>>]
    BY <1>9, <2>1 DEF Runs
  <2>3. QED  BY <1>2, <2>2
<1>11. HearsAll(p, q, f, n) /\ Told(q, f, n) = p[m]
  BY <1>0, <1>1, <1>9, <1>10 DEF Runs, HearsAll, m
<1>12. QED  BY <1>9, <1>11 DEF m

LEMMA ToldFacts ==
    ASSUME NEW f \in Shown, NEW n
    PROVE  /\ Told(<<>>, f, n) = f
           /\ \A q \in Seq(Entry) : Told(q, f, n) \in Shown
           /\ \A q \in Seq(Entry), x \in Entry :
                Told(Append(q, x), f, n) = Hears(Told(q, f, n), x, n)
<1>1. Told(<<>>, f, n) = f
  <2> DEFINE e == <<>>
  <2>1. e \in Seq(Entry) /\ Len(e) = 0
    OBVIOUS
  <2> HIDE DEF e
  <2>2. PICK p : HearsAll(p, e, f, n) /\ Told(e, f, n) = p[Len(e)]
    BY <2>1, ToldUnfolds
  <2>3. QED  BY <2>1, <2>2 DEF HearsAll, e
<1>2. ASSUME NEW q \in Seq(Entry)  PROVE Told(q, f, n) \in Shown
  <2>1. Len(q) \in 0..Len(q)
    OBVIOUS
  <2>2. QED  BY <2>1, ToldUnfolds
<1>3. ASSUME NEW q \in Seq(Entry), NEW x \in Entry
      PROVE  Told(Append(q, x), f, n) = Hears(Told(q, f, n), x, n)
  <2> DEFINE r == Append(q, x)
             m == Len(q)
  <2>1. /\ r \in Seq(Entry) /\ Len(r) = m + 1 /\ r[m + 1] = x /\ m \in Nat
        /\ \A k \in 1..m : r[k] = q[k]
    OBVIOUS
  <2> HIDE DEF r
  <2>2. PICK a : HearsAll(a, q, f, n) /\ Told(q, f, n) = a[Len(q)]
    BY ToldUnfolds
  <2>3. PICK b : HearsAll(b, r, f, n) /\ Told(r, f, n) = b[Len(r)]
    BY <2>1, ToldUnfolds
  <2>4. a[0] = b[0] /\ \A k \in 1..m : a[k - 1] = b[k - 1] => a[k] = b[k]
    <3>1. \A k \in 1..m : k \in 1..Len(r) /\ r[k] = q[k]
      BY <2>1
    <3>2. QED  BY <2>2, <2>3, <3>1 DEF HearsAll
  <2>5. \A k \in 0..m : a[k] = b[k]
    <3>1. m \in Nat
      BY <2>1
    <3>2. Alike(a, b, m)
      BY <2>4 DEF Alike
    <3> HIDE DEF m
    <3>3. QED  BY <3>1, <3>2, SameFold
  <2>6. a[m] = b[m] /\ b[m + 1] = Hears(b[m], x, n)
    <3>1. m \in 0..m /\ m + 1 \in 1..Len(r) /\ (m + 1) - 1 = m
      BY <2>1
    <3>2. QED  BY <2>1, <2>3, <2>5, <3>1 DEF HearsAll
  <2>7. QED  BY <2>1, <2>2, <2>3, <2>6 DEF r
<1>4. QED  BY <1>1, <1>2, <1>3

\* Taking the head of the queue now or as the first of all is the same.
LEMMA ToldHeadFirst ==
    ASSUME NEW q \in Seq(Entry), q # <<>>, NEW f \in Shown, NEW n
    PROVE  Told(q, f, n) = Told(Tail(q), Hears(f, q[1], n), n)
<1> DEFINE F == {r \in Seq(Entry) : r # <<>> =>
                  Told(r, f, n) = Told(Tail(r), Hears(f, r[1], n), n)}
<1>1. <<>> \in F
  OBVIOUS
<1>2. ASSUME NEW r \in Seq(Entry), r \in F, NEW x \in Entry  PROVE Append(r, x) \in F
  <2>1. Told(Append(r, x), f, n) = Hears(Told(r, f, n), x, n)
    BY ToldFacts
  <2>2. ASSUME r = <<>>
        PROVE  Told(Append(r, x), f, n) = Told(Tail(Append(r, x)), Hears(f, Append(r, x)[1], n), n)
    <3>1. Append(r, x)[1] = x /\ Tail(Append(r, x)) = <<>>
      BY <2>2
    <3>2. Told(r, f, n) = f /\ Told(<<>>, Hears(f, x, n), n) = Hears(f, x, n)
      BY <2>2, HearsType, ToldFacts
    <3>3. QED  BY <2>1, <3>1, <3>2
  <2>3. ASSUME r # <<>>
        PROVE  Told(Append(r, x), f, n) = Told(Tail(Append(r, x)), Hears(f, Append(r, x)[1], n), n)
    <3>1. /\ Append(r, x)[1] = r[1] /\ Tail(Append(r, x)) = Append(Tail(r), x)
          /\ Tail(r) \in Seq(Entry)
      BY <2>3
    <3>2. Hears(f, r[1], n) \in Shown
      BY HearsType
    <3>3. Told(Append(Tail(r), x), Hears(f, r[1], n), n)
            = Hears(Told(Tail(r), Hears(f, r[1], n), n), x, n)
      BY <3>1, <3>2, ToldFacts
    <3>4. Told(r, f, n) = Told(Tail(r), Hears(f, r[1], n), n)
      BY <1>2, <2>3
    <3>5. QED  BY <2>1, <3>1, <3>3, <3>4
  <2>4. Told(Append(r, x), f, n) = Told(Tail(Append(r, x)), Hears(f, Append(r, x)[1], n), n)
    BY <2>2, <2>3
  <2>5. Append(r, x) \in Seq(Entry)
    OBVIOUS
  <2>6. QED  BY <2>4, <2>5, Zenon
<1>3. Seq(Entry) \subseteq F
  <2> HIDE DEF F
  <2>1. QED  BY <1>1, <1>2, SeqInduction
<1>4. QED  BY <1>3

\* What NothingLost says of one username, whose client knows w.
Agree(kn, w, n) ==
    /\ \E u \in SpelledAs(n) : kn[u].lastLive = w.shown
    /\ w.failed => \E u \in SpelledAs(n) : kn[u].hadError
    /\ n \in SpelledOnce => \A u \in SpelledAs(n) : kn[u].hadError => w.failed

TellInv == gen = "open" => \A n \in Usernames : Agree(known, Told(queue, feed[n], n), n)

\* A task of spelling s notes what its client is to hear.
LEMMA AgreeHears ==
    ASSUME NEW kn \in [Asked -> Knowledge], NEW w \in Shown, NEW n, NEW s \in SpelledAs(n),
           NEW what \in News, Agree(kn, w, n)
    PROVE  Agree([kn EXCEPT ![s] = Learnt(kn[s], what)], Feed!Sent(w, what), n)
<1> DEFINE k2 == [kn EXCEPT ![s] = Learnt(kn[s], what)]
           w2 == Feed!Sent(w, what)
<1>1. /\ k2[s] = Learnt(kn[s], what) /\ \A u \in SpelledAs(n) : u # s => k2[u] = kn[u]
      /\ kn[s] \in Knowledge
  BY DEF SpelledAs
<1> HIDE DEF k2
<1>2. CASE what \in Status
  <2>1. w2.shown = what /\ ~w2.failed
    BY <1>2 DEF Feed!Sent
  <2>2. k2[s].lastLive = what /\ ~k2[s].hadError
    BY <1>1, <1>2 DEF Learnt
  <2>3. n \in SpelledOnce => \A u \in SpelledAs(n) : u = s
    BY OnlySpelling
  <2> HIDE DEF w2
  <2>4. Agree(k2, w2, n)
    BY <2>1, <2>2, <2>3 DEF Agree
  <2>5. QED  BY <2>4 DEF k2, w2
<1>3. CASE what = "error"
  <2>1. w2.shown = w.shown /\ w2.failed
    BY <1>3 DEF Feed!Sent, Shown, Status
  <2>2. k2[s].lastLive = kn[s].lastLive /\ k2[s].hadError
    BY <1>1, <1>3 DEF Learnt, Knowledge, Status
  <2> HIDE DEF w2
  <2>3. \A u \in SpelledAs(n) : k2[u].lastLive = kn[u].lastLive
    BY <1>1, <2>2
  <2>4. Agree(k2, w2, n)
    BY <2>1, <2>2, <2>3 DEF Agree
  <2>5. QED  BY <2>4 DEF k2, w2
<1>4. QED  BY <1>2, <1>3 DEF News

LEMMA PolledTells ==
    ASSUME TaskInv, TellInv, NEW e \in Entries, NEW what \in News \cup {"heartbeat", "none"},
           Polled(e, what)
    PROVE  TellInv'
<1> DEFINE i == Says(e, what)
           s == usernames[e]
<1>1. /\ gen = "open" /\ queue \in Seq(Entry)
      /\ \A n \in Usernames : feed[n] \in Shown
      /\ feed' = feed /\ queue' = Put(e, what)
      /\ known' = [known EXCEPT ![s] = Learnt(known[s], what)]
      /\ known \in [Asked -> Knowledge]
  BY DEF Polled, Polls, TaskInv, TypeOK, Shown, Knowledge, Entry
<1>2. s \in Asked /\ s \in SpelledAs(Lower[s])
  BY Asking
<1>3. what = "none" \/ (i \in Entry /\ queue' = Append(queue, i) /\ i.what = what)
  BY <1>1, SaysItem DEF Put, Said, Entry
<1>4. what \in News => i # Done /\ Lower[i.name] = Lower[s]
  BY SaysItem DEF Said, News, Status
<1>5. what \notin News => known' = known
  <2>1. what \notin News => Learnt(known[s], what) = known[s]
    BY DEF Learnt, News, Status
  <2>2. QED  BY <1>1, <1>2, <2>1
<1> HIDE DEF i, s
<1>6. ASSUME NEW n \in Usernames  PROVE Agree(known', Told(queue', feed[n], n), n)
  <2> DEFINE w == Told(queue, feed[n], n)
  <2>1. Agree(known, w, n) /\ w \in Shown /\ feed[n] \in Shown
    BY <1>1, ToldFacts DEF TellInv
  <2>2. CASE what = "none"
    <3>1. queue' = queue /\ known' = known
      BY <1>1, <1>5, <2>2 DEF Put, News, Status
    <3>2. QED  BY <2>1, <3>1
  <2>3. CASE what # "none"
    <3>0. i \in Entry /\ queue' = Append(queue, i)
      BY <1>3, <2>3
    <3>1. Told(queue', feed[n], n) = Hears(w, i, n) /\ i.what = what
      <4>1. Told(Append(queue, i), feed[n], n) = Hears(w, i, n)
        BY <1>1, <2>1, <3>0, ToldFacts
      <4>2. QED  BY <1>3, <2>3, <3>0, <4>1
    <3> HIDE DEF w
    <3>2. CASE what \in News /\ n = Lower[s]
      <4>1. Hears(w, i, n) = Feed!Sent(w, what)
        BY <1>4, <3>1, <3>2 DEF Hears
      <4>2. s \in SpelledAs(n)
        BY <1>2, <3>2
      <4>3. Agree([known EXCEPT ![s] = Learnt(known[s], what)], Feed!Sent(w, what), n)
        BY <1>1, <2>1, <3>2, <4>2, AgreeHears
      <4>4. QED  BY <1>1, <3>1, <4>1, <4>3
    <3>3. CASE what \notin News \/ n # Lower[s]
      <4>1. Hears(w, i, n) = w
        BY <1>4, <3>1, <3>3 DEF Hears
      <4>2. \A u \in SpelledAs(n) : known'[u] = known[u]
        <5>1. CASE what \notin News
          BY <1>5, <5>1
        <5>2. CASE n # Lower[s]
          <6>1. \A u \in SpelledAs(n) : u # s /\ u \in Asked
            BY <5>2 DEF SpelledAs
          <6>2. QED  BY <1>1, <6>1
        <5>3. QED  BY <3>3, <5>1, <5>2
      <4>3. QED  BY <2>1, <3>1, <4>1, <4>2 DEF Agree
    <3>4. QED  BY <3>2, <3>3
  <2>4. QED  BY <2>2, <2>3
<1>7. QED  BY <1>1, <1>6 DEF TellInv

\* "fatal" and the sentinel tell nothing of a status.
LEMMA FatalTells ==
    ASSUME TaskInv, TellInv, NEW e \in Entries, PollNotFound(e)
    PROVE  TellInv'
<1> DEFINE i == Says(e, "fatal")
<1>1. /\ queue \in Seq(Entry) /\ gen = "open"
      /\ \A n \in Usernames : feed[n] \in Shown
      /\ feed' = feed /\ known' = known
  BY DEF PollNotFound, Finally, Polls, TaskInv, TypeOK, Shown, Entry
<1>2. /\ i \in Entry /\ Done \in Entry /\ Put(e, "fatal") = Append(queue, i)
      /\ i.what = "fatal"
  BY SaysItem DEF Said, Put, Entry
<1>3. ASSUME NEW n \in Usernames, NEW f \in Shown
      PROVE  Hears(f, i, n) = f /\ Hears(f, Done, n) = f
  BY <1>2 DEF Hears, News, Status
<1> HIDE DEF i
<1>4. ASSUME NEW n \in Usernames  PROVE Told(queue', feed[n], n) = Told(queue, feed[n], n)
  <2> DEFINE q == Append(queue, i)
             told == Told(queue, feed[n], n)
  <2>0. feed[n] \in Shown /\ q \in Seq(Entry)
    BY <1>1, <1>2
  <2>1. told \in Shown
    BY <1>1, <2>0, ToldFacts
  <2>2. Told(q, feed[n], n) = Hears(told, i, n)
    BY <1>1, <1>2, <2>0, ToldFacts
  <2>3. Told(Append(q, Done), feed[n], n) = Hears(Told(q, feed[n], n), Done, n)
    <3> HIDE DEF q
    <3>1. QED  BY <1>2, <2>0, ToldFacts
  <2>6. Hears(told, i, n) = told /\ Hears(told, Done, n) = told
    <3> HIDE DEF told
    <3>1. QED  BY <1>3, <2>1
  <2>4. queue' \in {Append(queue, i), Append(Append(queue, i), Done)}
    BY <1>2 DEF PollNotFound, Finally, LastDone
  <2>5. QED  BY <2>2, <2>3, <2>4, <2>6
<1>5. QED  BY <1>1, <1>4 DEF TellInv

LEMMA TakeTells == ASSUME TaskInv, TellInv, Take  PROVE TellInv'
<1>1. /\ queue \in Seq(Entry) /\ queue # <<>> /\ gen = "open"
      /\ queue' = Tail(queue) /\ known' = known
      /\ feed \in [Usernames -> Shown]
      /\ feed' = [n \in Usernames |-> Hears(feed[n], queue[1], n)]
  BY DEF Take, TaskInv, TypeOK, Shown, Entry
<1>2. ASSUME NEW n \in Usernames
      PROVE  Told(queue', feed'[n], n) = Told(queue, feed[n], n)
  <2>1. feed'[n] = Hears(feed[n], queue[1], n)
    BY <1>1
  <2>2. Told(queue, feed[n], n) = Told(Tail(queue), Hears(feed[n], queue[1], n), n)
    BY <1>1, ToldHeadFirst
  <2>3. QED  BY <1>1, <2>1, <2>2
<1>3. QED  BY <1>1, <1>2 DEF TellInv

LEMMA TellInvStep == TaskInv /\ TellInv /\ [Next]_vars => TellInv'
<1> SUFFICES ASSUME TaskInv, TellInv, [Next]_vars  PROVE TellInv'
  OBVIOUS
<1>1. CASE Take
  BY <1>1, TakeTells
<1>2. CASE Leave
  BY <1>2 DEF Leave, TellInv
<1>3. CASE UNCHANGED vars
  BY <1>3 DEF vars, TellInv
<1>4. ASSUME NEW e \in Entries, TaskStep(e)  PROVE TellInv'
  <2>1. CASE Start(e) \/ Wake(e)
    BY <2>1 DEF Start, Wake, Wakes, TellInv
  <2>2. CASE Poll(e)
    <3>1. ASSUME NEW status \in Status
          PROVE  Outcome(e, status) \in News \cup {"heartbeat", "none"}
      BY DEF Outcome, News, Status
    <3>2. "error" \in News \cup {"heartbeat", "none"}
      BY DEF News
    <3>3. QED  BY <2>2, <3>1, <3>2, PolledTells DEF Poll
  <2>3. CASE PollNotFound(e)
    BY <2>3, FatalTells
  <2>4. CASE Cancelled(e) \/ NeverStarted(e)
    BY <2>4 DEF Cancelled, NeverStarted, Finally, TellInv
  <2>5. QED  BY <1>4, <2>1, <2>2, <2>3, <2>4 DEF TaskStep
<1>5. QED  BY <1>1, <1>2, <1>3, <1>4 DEF Next

\* Wherever the queue stands, tasks and client agree on every username once
\* the queue has been sent: the status shown last is one that a spelling
\* believes in, an error told is one that a spelling has noted; spelled in one
\* way, the username's tasks know exactly what the client will know.
THEOREM TasksTellAll == Spec => []NothingLost
<1>1. Init => TellInv
  <2> SUFFICES ASSUME Init, NEW n \in Usernames
               PROVE  Agree(known, Told(queue, feed[n], n), n)
    BY DEF TellInv
  <2>1. feed[n] = Feed!Nothing /\ queue = <<>> /\ Feed!Nothing \in Shown
    BY DEF Init, Feed!FeedInit, Feed!Nothing, Shown
  <2>2. Told(queue, feed[n], n) = Feed!Nothing
    BY <2>1, ToldFacts
  <2>3. PICK u \in Asked : u \in SpelledAs(n)
    BY DEF Usernames, SpelledAs
  <2>4. \A v \in SpelledAs(n) : known[v].lastLive = "unknown" /\ ~known[v].hadError
    BY DEF Init, SpelledAs
  <2>5. QED  BY <2>2, <2>3, <2>4 DEF Agree, Feed!Nothing
<1>2. TellInv => NothingLost
  BY DEF TellInv, NothingLost, Agree, WillKnow, Told
<1>3. QED  BY <1>1, <1>2, TellInvStep, TaskInvariant, PTL DEF Spec
=============================================================================
