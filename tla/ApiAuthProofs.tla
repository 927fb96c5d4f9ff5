---------------------------- MODULE ApiAuthProofs ----------------------------
(***************************************************************************)
(* Proofs about ApiAuth, for any number of calls, requests and keys, any   *)
(* limits and lifetimes: the cap on active keys, which depends on the lock *)
(* around two transactions, the daily limit of an IP, which holds although *)
(* the stamps of the log are not in the order of its entries, the refusal  *)
(* of dead keys, which depends on what a look-up reads and when, and the   *)
(* rate limit of a sliding window that is pruned only when it is used.     *)
(***************************************************************************)
EXTENDS ApiAuth, FoldFacts, FiniteSetTheorems, TLAPS

-----------------------------------------------------------------------------
(* Generating keys *)

Places == {"none", "stamped", "locked", "counted", "inserted", "over"}

\* The calls inside the with statement of generate_key.
Inside(c) == pc[c] \in {"locked", "counted", "inserted"}

KeysInv ==
    /\ now \in Nat
    /\ row \in [Calls -> Row \cup {NoKey}]
    /\ pc \in [Calls -> Places]
    /\ life \in [Calls -> Lifetimes \cup {Never}]
    /\ stamp \in [Calls -> Nat]
    /\ \A c \in Calls : Inside(c) <=> lock = c
    /\ \A c \in Calls : row[c] # NoKey => pc[c] \in {"inserted", "over"}
    /\ \A c \in Calls : pc[c] = "counted" => Cardinality(ActiveKeys) < MaxKeys
    /\ KeysCapped

LEMMA ActiveFinite ==
    IsFiniteSet(ActiveKeys) /\ Cardinality(ActiveKeys) \in Nat
<1>1. ActiveKeys \in SUBSET Calls
  BY DEF ActiveKeys
<1>2. QED  BY <1>1, KeysAssumption, FS_Subset, FS_CardinalityType

LEMMA KeysInvInit == KeysInit => KeysInv
<1> SUFFICES ASSUME KeysInit  PROVE KeysInv
  OBVIOUS
<1>1. ActiveKeys = {}
  BY DEF KeysInit, ActiveKeys
<1>2. KeysCapped
  BY <1>1, FS_EmptySet, KeysAssumption DEF KeysCapped
<1>3. QED  BY <1>2, KeysAssumption DEF KeysInit, KeysInv, Inside, Places

\* A step that leaves the table as it is, and lets nobody past the count.
LEMMA TableKept ==
    ASSUME KeysInv, UNCHANGED row,
           \A c \in Calls : pc'[c] = "counted" => pc[c] = "counted"
    PROVE  /\ KeysCapped'
           /\ \A c \in Calls : pc'[c] = "counted" => Cardinality(ActiveKeys') < MaxKeys
<1>1. ActiveKeys' = ActiveKeys
  BY DEF ActiveKeys
<1>2. QED  BY <1>1 DEF KeysInv, KeysCapped

\* The steps of a call.
LEMMA AskKeeps == ASSUME KeysInv, NEW c \in Calls, Ask(c)  PROVE KeysInv'
<1> PICK i \in Ips, l \in Lifetimes \cup {Never} :
      /\ pc[c] = "none"
      /\ pc' = [pc EXCEPT ![c] = "stamped"]
      /\ life' = [life EXCEPT ![c] = l]
      /\ stamp' = [stamp EXCEPT ![c] = now]
      /\ UNCHANGED <<now, row, lock>>
  BY DEF Ask
<1>1. /\ KeysCapped'
      /\ \A d \in Calls : pc'[d] = "counted" => Cardinality(ActiveKeys') < MaxKeys
  BY TableKept DEF KeysInv
<1>2. QED  BY <1>1 DEF KeysInv, Inside, Places

\* A call that raises while it holds the lock.
LEMMA RaiseKeeps ==
    ASSUME KeysInv, NEW c \in Calls, Raise(c), UNCHANGED <<now, row>>,
           \/ Inside(c) /\ lock' = Nobody
           \/ pc[c] = "stamped" /\ UNCHANGED lock
    PROVE  KeysInv'
<1>1. /\ pc' = [pc EXCEPT ![c] = "over"]
      /\ life' = [life EXCEPT ![c] = Never]
      /\ stamp' = [stamp EXCEPT ![c] = 0]
  BY DEF Raise
<1>2. /\ KeysCapped'
      /\ \A d \in Calls : pc'[d] = "counted" => Cardinality(ActiveKeys') < MaxKeys
  BY <1>1, TableKept DEF KeysInv
<1>3. \A d \in Calls : Inside(d)' <=> lock' = d
  BY <1>1, KeysAssumption DEF KeysInv, Inside
<1>4. QED  BY <1>1, <1>2, <1>3 DEF KeysInv, Places

LEMMA EnterKeeps == ASSUME KeysInv, NEW c \in Calls, Enter(c)  PROVE KeysInv'
<1>1. CASE Raise(c) /\ UNCHANGED lock
  BY <1>1, RaiseKeeps DEF Enter
<1>2. CASE GoOn(c, "locked") /\ lock' = c
  <2>1. /\ pc[c] = "stamped" /\ lock = Nobody
        /\ pc' = [pc EXCEPT ![c] = "locked"]
        /\ UNCHANGED <<now, row, life, stamp>>
    BY <1>2 DEF Enter, Unlocked, GoOn
  <2>2. /\ KeysCapped'
        /\ \A d \in Calls : pc'[d] = "counted" => Cardinality(ActiveKeys') < MaxKeys
    BY <2>1, TableKept DEF KeysInv
  <2>3. \A d \in Calls : Inside(d)' <=> lock' = d
    BY <1>2, <2>1, KeysAssumption DEF KeysInv, Inside
  <2>4. QED  BY <2>1, <2>2, <2>3 DEF KeysInv, Places
<1>3. QED  BY <1>1, <1>2 DEF Enter

LEMMA CountKeysKeeps == ASSUME KeysInv, NEW c \in Calls, CountKeys(c)  PROVE KeysInv'
<1>1. CASE Raise(c) /\ lock' = Nobody
  BY <1>1, RaiseKeeps DEF CountKeys, Inside
<1>2. CASE Cardinality(ActiveKeys) < MaxKeys /\ GoOn(c, "counted") /\ UNCHANGED lock
  <2>1. /\ pc[c] = "locked"
        /\ pc' = [pc EXCEPT ![c] = "counted"]
        /\ UNCHANGED <<now, row, life, stamp, lock>>
    BY <1>2 DEF CountKeys, GoOn
  <2>2. ActiveKeys' = ActiveKeys
    BY <2>1 DEF ActiveKeys
  <2>3. \A d \in Calls : Inside(d)' <=> lock' = d
    BY <2>1 DEF KeysInv, Inside
  <2>4. QED  BY <1>2, <2>1, <2>2, <2>3 DEF KeysInv, KeysCapped, Places
<1>3. Cardinality(ActiveKeys) >= MaxKeys \/ Cardinality(ActiveKeys) < MaxKeys
  BY ActiveFinite, KeysAssumption
<1>4. QED  BY <1>1, <1>2, <1>3 DEF CountKeys

LEMMA InsertKeyKeeps == ASSUME KeysInv, NEW c \in Calls, InsertKey(c)  PROVE KeysInv'
<1> DEFINE new == [expires |-> IF life[c] = Never THEN Never ELSE stamp[c] + life[c],
                   active |-> TRUE]
<1>1. /\ pc[c] = "counted"
      /\ pc' = [pc EXCEPT ![c] = "inserted"]
      /\ row' = [row EXCEPT ![c] = new]
      /\ life' = [life EXCEPT ![c] = Never]
      /\ UNCHANGED <<now, lock, stamp>>
  BY DEF InsertKey
<1>2. new \in Row /\ new # NoKey /\ new.active
  <2>1. stamp[c] \in Nat /\ life[c] \in Lifetimes \cup {Never}
    BY DEF KeysInv
  <2>2. new.expires \in Nat \cup {Never}
    BY <2>1, KeysAssumption
  <2>3. new \in Row
    BY <2>2 DEF Row
  <2>4. QED  BY <2>3, KeysAssumption DEF Row
<1> HIDE DEF new
<1>3. row[c] = NoKey /\ ActiveKeys' = ActiveKeys \cup {c} /\ c \notin ActiveKeys
  BY <1>1, <1>2 DEF ActiveKeys, KeysInv
<1>4. KeysCapped'
  <2>1. Cardinality(ActiveKeys) < MaxKeys
    BY <1>1 DEF KeysInv
  <2>2. Cardinality(ActiveKeys') = Cardinality(ActiveKeys) + 1
    BY <1>3, ActiveFinite, FS_AddElement
  <2>3. QED  BY <2>1, <2>2, ActiveFinite, KeysAssumption DEF KeysCapped
<1>5. \A d \in Calls : pc[d] = "counted" => d = c
  BY <1>1 DEF KeysInv, Inside
<1>6. \A d \in Calls : Inside(d)' <=> lock' = d
  BY <1>1 DEF KeysInv, Inside
<1>7. row' \in [Calls -> Row \cup {NoKey}]
  BY <1>1, <1>2 DEF KeysInv
<1>8. QED  BY <1>1, <1>4, <1>5, <1>6, <1>7 DEF KeysInv, Places

LEMMA LogKeyKeeps == ASSUME KeysInv, NEW c \in Calls, LogKey(c)  PROVE KeysInv'
<1>1. /\ pc[c] = "inserted"
      /\ pc' = [pc EXCEPT ![c] = "over"]
      /\ lock' = Nobody
      /\ UNCHANGED <<now, row, life, stamp>>
  BY DEF LogKey
<1>2. /\ KeysCapped'
      /\ \A d \in Calls : pc'[d] = "counted" => Cardinality(ActiveKeys') < MaxKeys
  BY <1>1, TableKept DEF KeysInv
<1>3. \A d \in Calls : Inside(d)' <=> lock' = d
  BY <1>1, KeysAssumption DEF KeysInv, Inside
<1>4. QED  BY <1>1, <1>2, <1>3 DEF KeysInv, Places

LEMMA RevokeKeeps == ASSUME KeysInv, NEW c \in Calls, Revoke(c)  PROVE KeysInv'
<1>1. /\ row[c] # NoKey
      /\ row' = [row EXCEPT ![c] = [row[c] EXCEPT !.active = FALSE]]
      /\ UNCHANGED <<now, pc, life, stamp, lock>>
  BY DEF Revoke
<1>2. row[c] \in Row /\ [row[c] EXCEPT !.active = FALSE] \in Row
  BY <1>1 DEF KeysInv, Row
<1>3. row' \in [Calls -> Row \cup {NoKey}]
  BY <1>1, <1>2 DEF KeysInv
<1>4. ActiveKeys' \in SUBSET ActiveKeys
  <2>1. \A k \in Calls : k # c => row'[k] = row[k]
    BY <1>1 DEF KeysInv
  <2>2. ~row'[c].active
    BY <1>1, <1>2 DEF KeysInv, Row
  <2>3. QED  BY <2>1, <2>2 DEF ActiveKeys
<1>5. Cardinality(ActiveKeys') <= Cardinality(ActiveKeys) /\ Cardinality(ActiveKeys') \in Nat
  BY <1>4, ActiveFinite, FS_Subset, FS_CardinalityType
<1>6. \A k \in Calls : row'[k] # NoKey => row[k] # NoKey
  BY <1>1 DEF KeysInv
<1>7. QED
  BY <1>1, <1>3, <1>5, <1>6, ActiveFinite, KeysAssumption DEF KeysInv, KeysCapped, Inside

\* Whatever the calls, the administrator, the clock and the process do.
LEMMA KeysInvStep == KeysInv /\ [Next]_vars => KeysInv'
<1> SUFFICES ASSUME KeysInv, [Next]_vars  PROVE KeysInv'
  OBVIOUS
<1>1. ASSUME NEW c \in Calls, Ask(c) \/ CallStep(c) \/ Revoke(c)  PROVE KeysInv'
  <2>1. CASE StatementFails(c)
    BY <2>1, RaiseKeeps DEF StatementFails, Released, Inside
  <2>2. QED
    BY <1>1, <2>1, AskKeeps, EnterKeeps, CountKeysKeeps, InsertKeyKeeps,
       LogKeyKeeps, RevokeKeeps DEF CallStep
<1>2. CASE Tick
  <2>1. now' = now + 1 /\ UNCHANGED <<row, lock, pc, life, stamp>>
    BY <1>2 DEF Tick
  <2>2. /\ KeysCapped'
        /\ \A d \in Calls : pc'[d] = "counted" => Cardinality(ActiveKeys') < MaxKeys
    BY <2>1, TableKept
  <2>3. QED  BY <2>1, <2>2 DEF KeysInv, Inside
<1>3. CASE KeysRestart
  <2>1. /\ UNCHANGED <<now, row>> /\ lock' = Nobody
        /\ pc' = [c \in Calls |-> IF InFlight(c) THEN "over" ELSE pc[c]]
        /\ life' = [c \in Calls |-> Never]
        /\ stamp' = [c \in Calls |-> 0]
    BY <1>3 DEF KeysRestart
  <2>2. \A c \in Calls : pc'[c] = "over" \/ (pc'[c] = pc[c] /\ ~Inside(c))
    BY <2>1 DEF InFlight, Inside
  <2>3. /\ KeysCapped'
        /\ \A d \in Calls : pc'[d] = "counted" => Cardinality(ActiveKeys') < MaxKeys
    BY <2>1, <2>2, TableKept DEF Inside
  <2>4. \A c \in Calls : Inside(c)' <=> lock' = c
    BY <2>1, <2>2, KeysAssumption DEF Inside
  <2>5. QED  BY <2>1, <2>2, <2>3, <2>4 DEF KeysInv, Places, InFlight
<1>4. CASE UNCHANGED keyVars
  BY <1>4 DEF keyVars, KeysInv, Inside, ActiveKeys, KeysCapped
<1>5. QED
  BY <1>1, <1>2, <1>3, <1>4 DEF Next, Later, Restart, vars

LEMMA KeysInvariant == Spec => []KeysInv
<1>1. Init => KeysInv
  BY KeysInvInit DEF Init
<1>2. QED  BY <1>1, KeysInvStep, PTL DEF Spec

\* MAX_KEYS holds whatever the order of the threads: between the count and
\* the insertion of one call nobody else inserts.
THEOREM ActiveKeysCapped == Spec => []KeysCapped
<1>1. KeysInv => KeysCapped
  BY DEF KeysInv
<1>2. QED  BY <1>1, KeysInvariant, PTL

-----------------------------------------------------------------------------
(* The daily limit of an IP *)

\* The keys this process has given to IP i in the last 24 hours.
Young(i) == {c \in logged : ip[c] = i /\ stamp[c] > now - Day}

\* What this process has logged, it still holds as long as it is young; who
\* is inside the lock has found room in the log.
LogInv ==
    /\ genLog \in [Ips -> SUBSET Calls]
    /\ ip \in [Calls -> Ips \cup {Nobody}]
    /\ logged \subseteq Calls
    /\ \A c \in Calls : stamp[c] <= now
    /\ \A c \in Calls : InFlight(c) => ip[c] \in Ips
    /\ \A c \in logged : pc[c] = "over" /\ ip[c] \in Ips
    /\ \A i \in Ips : Young(i) \subseteq genLog[i]
    /\ \A c \in Calls : Inside(c) => Cardinality(genLog[ip[c]]) < MaxKeysPerIp
    /\ \A i \in Ips : Cardinality(Young(i)) <= MaxKeysPerIp

LEMMA LogFinite ==
    ASSUME NEW S \in SUBSET Calls  PROVE IsFiniteSet(S) /\ Cardinality(S) \in Nat
BY KeysAssumption, FS_Subset, FS_CardinalityType

\* No new key in the log: the young keys can only grow old.
LEMMA NobodyYounger ==
    ASSUME KeysInv, LogInv, KeysInv', now <= now', logged' = logged,
           \A c \in logged : ip'[c] = ip[c] /\ stamp'[c] = stamp[c]
    PROVE  \A i \in Ips : Young(i)' \subseteq Young(i)
                          /\ Cardinality(Young(i)') <= MaxKeysPerIp
<1> SUFFICES ASSUME NEW i \in Ips
             PROVE  Young(i)' \subseteq Young(i) /\ Cardinality(Young(i)') <= MaxKeysPerIp
  OBVIOUS
<1>1. Young(i)' \subseteq Young(i)
  <2>1. ASSUME NEW c \in logged, stamp'[c] > now' - Day  PROVE stamp[c] > now - Day
    <3>1. c \in Calls /\ stamp[c] \in Nat /\ now \in Nat /\ now' \in Nat
      BY DEF KeysInv, LogInv
    <3>2. stamp'[c] = stamp[c]
      OBVIOUS
    <3>3. QED  BY <2>1, <3>1, <3>2, KeysAssumption
  <2>2. QED  BY <2>1 DEF Young
<1>2. Young(i) \in SUBSET Calls /\ Young(i)' \in SUBSET Calls
  BY DEF Young, LogInv
<1>3. Cardinality(Young(i)') <= Cardinality(Young(i))
  BY <1>1, <1>2, LogFinite, FS_Subset
<1>4. Cardinality(Young(i)) <= MaxKeysPerIp
  BY DEF LogInv
<1>5. QED  BY <1>1, <1>2, <1>3, <1>4, LogFinite, KeysAssumption

\* A step that leaves the logs alone and lets nobody into the lock.
LEMMA LogKept ==
    ASSUME KeysInv, LogInv, KeysInv', now <= now', UNCHANGED <<logged, genLog>>,
           ip' \in [Calls -> Ips \cup {Nobody}],
           \A c \in Calls : stamp'[c] <= now',
           \A c \in Calls : /\ InFlight(c)' => ip'[c] \in Ips
                            /\ Inside(c)' => Inside(c) /\ ip'[c] = ip[c]
                            /\ pc[c] = "over" => /\ pc'[c] = "over"
                                                 /\ ip'[c] = ip[c]
                                                 /\ stamp'[c] = stamp[c]
    PROVE  LogInv'
<1>1. \A c \in logged : /\ c \in Calls /\ pc'[c] = "over"
                        /\ ip'[c] = ip[c] /\ stamp'[c] = stamp[c]
  BY DEF LogInv
<1>2. \A i \in Ips : Young(i)' \subseteq Young(i) /\ Cardinality(Young(i)') <= MaxKeysPerIp
  BY <1>1, NobodyYounger
<1>3. \A i \in Ips : Young(i)' \subseteq genLog'[i]
  BY <1>2 DEF LogInv
<1>4. \A c \in Calls : Inside(c)' => Cardinality(genLog'[ip'[c]]) < MaxKeysPerIp
  BY DEF LogInv
<1>5. QED  BY <1>1, <1>2, <1>3, <1>4 DEF LogInv

LEMMA EnterLog ==
    ASSUME KeysInv, LogInv, KeysInv', NEW c \in Calls, Enter(c)  PROVE LogInv'
<1> DEFINE kept == Recent(genLog[ip[c]], stamp[c])
<1>1. /\ pc[c] = "stamped" /\ lock = Nobody /\ ip[c] \in Ips
      /\ genLog' = [genLog EXCEPT ![ip[c]] = kept]
      /\ UNCHANGED <<now, logged>>
      /\ \A d \in Calls : ~Inside(d)
  BY KeysAssumption DEF Enter, Unlocked, LogInv, InFlight, KeysInv
<1>2. /\ pc' \in [Calls -> Places]
      /\ \A d \in Calls : d # c => pc'[d] = pc[d] /\ ip'[d] = ip[d] /\ stamp'[d] = stamp[d]
      /\ ip' \in [Calls -> Ips \cup {Nobody}]
      /\ \/ pc'[c] = "over" /\ stamp'[c] = 0
         \/ /\ pc'[c] = "locked" /\ ip'[c] = ip[c] /\ stamp'[c] = stamp[c]
            /\ ~(Cardinality(kept) >= MaxKeysPerIp)
  <2>1. genLog'[ip[c]] = kept
    BY <1>1 DEF LogInv
  <2>2. QED  BY <2>1 DEF Enter, Raise, GoOn, KeysInv, LogInv
<1>3. c \notin logged
  BY <1>1 DEF LogInv
<1>4. \A d \in logged : d \in Calls /\ pc'[d] = "over" /\ ip'[d] = ip[d] /\ stamp'[d] = stamp[d]
  BY <1>2, <1>3 DEF LogInv
<1>5. /\ kept \in SUBSET Calls
      /\ Young(ip[c]) \subseteq kept
  <2>1. genLog[ip[c]] \in SUBSET Calls /\ Young(ip[c]) \subseteq genLog[ip[c]]
    BY <1>1 DEF LogInv
  <2>2. ASSUME NEW d \in Young(ip[c])  PROVE stamp[d] > stamp[c] - Day
    <3>1. /\ d \in Calls /\ stamp[d] > now - Day /\ stamp[c] <= now
          /\ stamp[d] \in Nat /\ stamp[c] \in Nat /\ now \in Nat
      BY <2>2 DEF Young, LogInv, KeysInv
    <3>2. QED  BY <3>1, KeysAssumption
  <2>3. QED  BY <2>1, <2>2 DEF Recent
<1>6. genLog' \in [Ips -> SUBSET Calls]
  BY <1>1, <1>5 DEF LogInv
<1>7. \A i \in Ips : Young(i)' \subseteq Young(i) /\ Cardinality(Young(i)') <= MaxKeysPerIp
  <2>1. now <= now'
    BY <1>1 DEF KeysInv
  <2>2. QED  BY <1>1, <1>4, <2>1, NobodyYounger
<1>8. \A i \in Ips : Young(i)' \subseteq genLog'[i]
  BY <1>1, <1>5, <1>7 DEF LogInv
<1>9. \A d \in Calls : Inside(d)' => Cardinality(genLog'[ip'[d]]) < MaxKeysPerIp
  <2>1. \A d \in Calls : Inside(d)' => d = c
    BY <1>1, <1>2 DEF Inside
  <2>2. Inside(c)' => Cardinality(genLog'[ip'[c]]) < MaxKeysPerIp
    BY <1>1, <1>2, <1>5, LogFinite, KeysAssumption DEF Inside, LogInv
  <2>3. QED  BY <2>1, <2>2
<1>10. \A d \in Calls : stamp'[d] <= now' /\ (InFlight(d)' => ip'[d] \in Ips)
  BY <1>1, <1>2 DEF LogInv, KeysInv, InFlight
<1>11. QED
  BY <1>1, <1>2, <1>4, <1>6, <1>7, <1>8, <1>9, <1>10 DEF LogInv

LEMMA LogKeyLog ==
    ASSUME KeysInv, LogInv, KeysInv', NEW c \in Calls, LogKey(c)  PROVE LogInv'
<1>1. /\ pc[c] = "inserted" /\ Inside(c) /\ lock = c /\ ip[c] \in Ips
      /\ pc' = [pc EXCEPT ![c] = "over"]
      /\ genLog' = [genLog EXCEPT ![ip[c]] = genLog[ip[c]] \cup {c}]
      /\ logged' = logged \cup {c}
      /\ UNCHANGED <<now, ip, stamp>>
      /\ \A d \in Calls : d # c => ~Inside(d)
  BY DEF LogKey, Inside, InFlight, KeysInv, LogInv
<1>2. \A d \in Calls : ~Inside(d)'
  BY <1>1 DEF Inside, KeysInv
<1>3. genLog' \in [Ips -> SUBSET Calls]
  BY <1>1 DEF LogInv
<1>4. \A i \in Ips : /\ i # ip[c] => Young(i)' = Young(i)
                     /\ Young(i)' \subseteq Young(i) \cup {c}
  BY <1>1 DEF Young
<1>5. \A i \in Ips : Young(i)' \subseteq genLog'[i]
  BY <1>1, <1>4 DEF LogInv
<1>6. ASSUME NEW i \in Ips  PROVE Cardinality(Young(i)') <= MaxKeysPerIp
  <2>1. CASE i # ip[c]
    BY <1>4, <2>1 DEF LogInv
  <2>2. CASE i = ip[c]
    <3>1. Young(i)' \subseteq genLog[i] \cup {c} /\ genLog[i] \in SUBSET Calls
      BY <1>4 DEF LogInv
    <3>2. Cardinality(genLog[i]) < MaxKeysPerIp
      BY <1>1, <2>2 DEF LogInv
    <3>3. Cardinality(genLog[i] \cup {c}) <= Cardinality(genLog[i]) + 1
      BY <3>1, LogFinite, FS_AddElement
    <3>4. /\ genLog[i] \cup {c} \in SUBSET Calls /\ Young(i)' \in SUBSET Calls
          /\ Cardinality(Young(i)') <= Cardinality(genLog[i] \cup {c})
      BY <3>1, LogFinite, FS_Subset
    <3>5. QED  BY <3>1, <3>2, <3>3, <3>4, LogFinite, KeysAssumption
  <2>3. QED  BY <2>1, <2>2
<1>7. \A d \in Calls : stamp'[d] <= now' /\ (InFlight(d)' => ip'[d] \in Ips)
  BY <1>1 DEF LogInv, InFlight, KeysInv
<1>8. \A d \in logged' : pc'[d] = "over" /\ ip'[d] \in Ips
  BY <1>1 DEF LogInv, KeysInv
<1>9. QED
  BY <1>1, <1>2, <1>3, <1>5, <1>6, <1>7, <1>8 DEF LogInv

LEMMA LogInvStep == KeysInv /\ LogInv /\ [Next]_vars => LogInv'
<1> SUFFICES ASSUME KeysInv, LogInv, [Next]_vars  PROVE LogInv'
  OBVIOUS
<1>0. KeysInv'
  BY KeysInvStep
<1>1. ASSUME NEW c \in Calls, Ask(c) \/ CallStep(c) \/ Revoke(c)  PROVE LogInv'
  <2>1. CASE Ask(c) \/ Revoke(c)
    BY <1>0, <2>1, LogKept DEF Ask, Revoke, LogInv, KeysInv, InFlight, Inside
  <2>2. CASE CountKeys(c) \/ StatementFails(c)
    BY <1>0, <2>2, LogKept
       DEF CountKeys, StatementFails, Raise, GoOn, LogInv, KeysInv, InFlight, Inside
  <2>3. CASE InsertKey(c)
    BY <1>0, <2>3, LogKept DEF InsertKey, LogInv, KeysInv, InFlight, Inside
  <2>4. QED
    BY <1>0, <1>1, <2>1, <2>2, <2>3, EnterLog, LogKeyLog DEF CallStep
<1>2. CASE Tick
  <2>1. now' = now + 1 /\ now \in Nat
        /\ UNCHANGED <<genLog, pc, ip, stamp, logged>>
    BY <1>2 DEF Tick, KeysInv
  <2>2. \A c \in Calls : stamp[c] <= now' /\ stamp[c] \in Nat
    BY <2>1 DEF LogInv, KeysInv
  <2>3. QED  BY <1>0, <2>1, <2>2, LogKept DEF LogInv, InFlight, Inside
<1>3. CASE KeysRestart
  <2>1. /\ genLog' = [i \in Ips |-> {}] /\ logged' = {} /\ now' = now
        /\ pc' = [c \in Calls |-> IF InFlight(c) THEN "over" ELSE pc[c]]
        /\ ip' = [c \in Calls |-> Nobody] /\ stamp' = [c \in Calls |-> 0]
    BY <1>3 DEF KeysRestart
  <2>2. \A c \in Calls : ~Inside(c)' /\ ~InFlight(c)' /\ stamp'[c] <= now'
    BY <2>1 DEF Inside, InFlight, KeysInv
  <2>3. \A i \in Ips : Young(i)' = {} /\ Cardinality(Young(i)') <= MaxKeysPerIp
    BY <2>1, FS_EmptySet, KeysAssumption DEF Young
  <2>4. QED  BY <2>1, <2>2, <2>3 DEF LogInv
<1>4. CASE UNCHANGED keyVars
  <2>1. now <= now'
    BY <1>4 DEF keyVars, KeysInv
  <2>2. QED  BY <1>0, <1>4, <2>1, LogKept DEF keyVars, LogInv, InFlight, Inside
<1>5. QED
  BY <1>1, <1>2, <1>3, <1>4 DEF Next, Later, Restart, vars

\* One process gives an IP no more than MAX_KEYS_PER_IP keys in 24 hours, in
\* whatever order the threads read the clock and get the lock.
THEOREM DailyLimit == Spec => []PerIpCapped
<1>1. Init => LogInv
  <2> SUFFICES ASSUME Init  PROVE LogInv
    OBVIOUS
  <2>1. \A i \in Ips : Young(i) = {} /\ Cardinality(Young(i)) <= MaxKeysPerIp
    BY FS_EmptySet, KeysAssumption DEF Init, KeysInit, Young
  <2>2. QED  BY <2>1 DEF Init, KeysInit, LogInv, InFlight, Inside
<1>2. LogInv => PerIpCapped
  BY DEF LogInv, PerIpCapped, Young
<1>3. QED  BY <1>1, <1>2, LogInvStep, KeysInvariant, PTL DEF Spec

-----------------------------------------------------------------------------
(* Looking keys up *)

\* The row of k is there and lets nobody in at time t or later.
DeadAt(k, t) ==
    /\ k \in Calls
    /\ row[k] # NoKey
    /\ row[k].active => row[k].expires \in Nat /\ row[k].expires <= t

\* A request whose key was dead when it came has not passed its look-up, and
\* at whatever time the look-up reads, the key is dead still.
DeadInv ==
    /\ rpc \in [Requests -> {"none", "arrived", "reading", "valid", "admitted"}]
    /\ presented \in [Requests -> Keys \cup {Nobody}]
    /\ readAt \in [Requests -> Nat]
    /\ dead \in [Requests -> BOOLEAN]
    /\ \A q \in Requests : dead[q] =>
         \/ rpc[q] = "arrived" /\ DeadAt(presented[q], now)
         \/ rpc[q] = "reading" /\ DeadAt(presented[q], readAt[q])

\* A dead key is dead later, and comes back to life by no step.
LEMMA DeadForGood ==
    ASSUME KeysInv, [Next]_vars, NEW k, NEW t \in Nat, NEW u \in Nat,
           DeadAt(k, t), t <= u
    PROVE  DeadAt(k, u)' /\ now' \in Nat /\ now <= now'
<1>1. now' \in Nat /\ now <= now'
  BY KeysInvStep
     DEF KeysInv, Next, Later, Tick, Restart, KeysRestart, vars, keyVars, Ask,
         CallStep, Enter, CountKeys, InsertKey, LogKey, StatementFails, Revoke
<1>2. row'[k] = row[k] \/ (row'[k] = [row[k] EXCEPT !.active = FALSE])
  <2>1. ASSUME NEW c \in Calls, InsertKey(c)  PROVE row'[k] = row[k]
    <3>1. c # k
      BY <2>1 DEF InsertKey, KeysInv, DeadAt
    <3>2. QED  BY <2>1, <3>1 DEF InsertKey, KeysInv, DeadAt
  <2>2. ASSUME NEW c \in Calls, Revoke(c)
        PROVE  row'[k] = row[k] \/ (row'[k] = [row[k] EXCEPT !.active = FALSE])
    BY <2>2 DEF Revoke, KeysInv, DeadAt
  <2>3. CASE UNCHANGED row
    BY <2>3
  <2>4. QED
    BY <2>1, <2>2, <2>3
       DEF Next, Later, Tick, Restart, KeysRestart, vars, keyVars, Ask,
           CallStep, Enter, CountKeys, LogKey, StatementFails
<1>3. row[k] \in Row
  BY DEF KeysInv, DeadAt
<1>4. /\ row'[k] \in Row
      /\ row'[k].active => row[k].active
      /\ row'[k].expires = row[k].expires
  BY <1>2, <1>3 DEF Row
<1>5. row'[k] # NoKey
  BY <1>4, KeysAssumption DEF Row
<1>6. QED  BY <1>1, <1>4, <1>5 DEF DeadAt

\* What DeadInv says of one request.
Watched(q) ==
    dead[q] => \/ rpc[q] = "arrived" /\ DeadAt(presented[q], now)
               \/ rpc[q] = "reading" /\ DeadAt(presented[q], readAt[q])

\* A step of somebody else.
LEMMA RequestWaits ==
    ASSUME KeysInv, DeadInv, [Next]_vars, NEW q \in Requests,
           dead'[q] = dead[q], rpc'[q] = rpc[q], presented'[q] = presented[q],
           readAt'[q] = readAt[q]
    PROVE  Watched(q)'
<1> SUFFICES ASSUME dead[q]
             PROVE  \/ rpc'[q] = "arrived" /\ DeadAt(presented[q], now)'
                    \/ rpc'[q] = "reading" /\ DeadAt(presented[q], readAt[q])'
  BY DEF Watched
<1>1. PICK k : presented[q] = k
  OBVIOUS
<1>2. PICK t \in Nat : now = t
  BY DEF KeysInv
<1>3. PICK v \in Nat : now' = v
  BY KeysInvStep DEF KeysInv
<1>4. PICK r \in Nat : readAt[q] = r
  BY DEF DeadInv
<1>5. CASE rpc[q] = "arrived" /\ DeadAt(presented[q], now)
  <2>1. DeadAt(k, t)
    BY <1>1, <1>2, <1>5
  <2>2. t <= v
    BY <1>2, <1>3, <2>1, DeadForGood
  <2>3. DeadAt(k, v)'
    BY <2>1, <2>2, DeadForGood
  <2>4. QED  BY <1>1, <1>3, <1>5, <2>3 DEF DeadAt
<1>6. CASE rpc[q] = "reading" /\ DeadAt(presented[q], readAt[q])
  <2>1. DeadAt(k, r)
    BY <1>1, <1>4, <1>6
  <2>2. DeadAt(k, r)'
    BY <2>1, DeadForGood
  <2>3. QED  BY <1>1, <1>4, <1>6, <2>2 DEF DeadAt
<1>7. QED  BY <1>5, <1>6 DEF DeadInv

\* A step of the request itself.
LEMMA RequestMoves ==
    ASSUME KeysInv, DeadInv, NEW q \in Requests, RequestStep(q), UNCHANGED keyVars
    PROVE  Watched(q)'
<1>0. /\ now \in Nat /\ row \in [Calls -> Row \cup {NoKey}]
      /\ now' = now /\ row' = row
  BY DEF keyVars, KeysInv
<1> USE DEF DeadInv
<1>1. CASE Over(q)
  <2>1. ~dead'[q]
    BY <1>1 DEF Over
  <2>2. QED  BY <2>1 DEF Watched
<1>2. CASE Arrive(q)
  <2> SUFFICES ASSUME dead'[q]  PROVE Watched(q)'
    BY DEF Watched
  <2>1. PICK k \in Calls :
          /\ rpc'[q] = "arrived" /\ presented'[q] = k
          /\ row[k] # NoKey /\ ~(row[k].active /\ Unexpired(k, now))
    BY <1>2 DEF Arrive, Goto
  <2>2. row[k].expires \in Nat \cup {Never}
    BY <1>0, <2>1 DEF Row
  <2>3. row[k].active => row[k].expires \in Nat /\ row[k].expires <= now
    BY <1>0, <2>1, <2>2 DEF Unexpired
  <2>4. QED  BY <1>0, <2>1, <2>3 DEF Watched, DeadAt
<1>3. CASE ReadClock(q)
  <2>1. /\ rpc[q] = "arrived" /\ rpc'[q] = "reading" /\ readAt'[q] = now
        /\ presented'[q] = presented[q] /\ dead'[q] = dead[q]
    BY <1>3 DEF ReadClock, Goto
  <2>2. QED  BY <1>0, <2>1 DEF Watched, DeadAt
<1>4. CASE Select(q) /\ ~Over(q)
  <2>1. /\ rpc[q] = "reading" /\ ValidAt(presented[q], readAt[q])
        /\ dead'[q] = dead[q]
    BY <1>4 DEF Select
  <2>2. ~DeadAt(presented[q], readAt[q])
    BY <2>1, KeysAssumption DEF ValidAt, Unexpired, DeadAt
  <2>3. QED  BY <2>1, <2>2 DEF Watched
<1>5. CASE Admit(q)
  <2>1. rpc[q] = "valid" /\ dead'[q] = dead[q]
    BY <1>5 DEF Admit
  <2>2. QED  BY <2>1 DEF Watched
<1>6. QED
  BY <1>1, <1>2, <1>3, <1>4, <1>5
     DEF RequestStep, LookupFails, Limit, Answered, Select

LEMMA DeadTypes ==
    ASSUME KeysInv, DeadInv, [Next]_vars
    PROVE  /\ rpc' \in [Requests -> {"none", "arrived", "reading", "valid", "admitted"}]
           /\ presented' \in [Requests -> Keys \cup {Nobody}]
           /\ readAt' \in [Requests -> Nat]
           /\ dead' \in [Requests -> BOOLEAN]
<1> USE DEF DeadInv, Keys
<1>1. ASSUME NEW q \in Requests, RequestStep(q)
      PROVE  /\ rpc' \in [Requests -> {"none", "arrived", "reading", "valid", "admitted"}]
             /\ presented' \in [Requests -> Keys \cup {Nobody}]
             /\ readAt' \in [Requests -> Nat]
             /\ dead' \in [Requests -> BOOLEAN]
  <2>1. CASE Over(q)
    BY <2>1 DEF Over, Goto
  <2>2. CASE Arrive(q)
    BY <2>2 DEF Arrive, Goto
  <2>3. CASE ReadClock(q)
    BY <2>3 DEF ReadClock, Goto, KeysInv
  <2>4. CASE Goto(q, "valid") /\ UNCHANGED <<presented, readAt, dead>>
    BY <2>4 DEF Goto
  <2>5. CASE Admit(q)
    BY <2>5 DEF Admit, Goto
  <2>6. QED
    BY <1>1, <2>1, <2>2, <2>3, <2>4, <2>5
       DEF RequestStep, Select, LookupFails, Limit, Answered
<1>2. CASE Restart
  BY <1>2 DEF Restart
<1>3. CASE UNCHANGED <<rpc, presented, readAt, dead>>
  BY <1>3
<1>4. QED  BY <1>1, <1>2, <1>3 DEF Next, Later, ServeEnv, authVars, vars

LEMMA DeadInvStep == KeysInv /\ DeadInv /\ [Next]_vars => DeadInv'
<1> SUFFICES ASSUME KeysInv, DeadInv, [Next]_vars, NEW q \in Requests
             PROVE  Watched(q)'
  BY DeadTypes DEF DeadInv, Watched
<1>1. CASE UNCHANGED <<rpc, presented, readAt, dead>>
  BY <1>1, RequestWaits
<1>2. ASSUME NEW p \in Requests, RequestStep(p), UNCHANGED keyVars
      PROVE  Watched(q)'
  <2>1. CASE p = q
    BY <1>2, <2>1, RequestMoves
  <2>2. CASE p # q
    <3>1. /\ dead'[q] = dead[q] /\ rpc'[q] = rpc[q]
          /\ presented'[q] = presented[q] /\ readAt'[q] = readAt[q]
      BY <1>2, <2>2
         DEF DeadInv, RequestStep, Arrive, ReadClock, Select, LookupFails, Admit,
             Limit, Answered, Over, Goto
    <3>2. QED  BY <3>1, RequestWaits
  <2>3. QED  BY <2>1, <2>2
<1>3. CASE Restart
  <2>1. ~dead'[q]
    BY <1>3 DEF Restart
  <2>2. QED  BY <2>1 DEF Watched
<1>4. QED  BY <1>1, <1>2, <1>3 DEF Next, Later, ServeEnv, authVars, vars

LEMMA DeadInvariant == Spec => []DeadInv
<1>1. Init => DeadInv
  BY DEF Init, DeadInv, Keys
<1>2. QED  BY <1>1, DeadInvStep, KeysInvariant, PTL DEF Spec

\* A key revoked or expired before the request came never lets it in, though
\* its thread may look it up much later and read the clock before the row.
THEOREM DeadKeysStayOut == Spec => []DeadKeysRefused
<1>1. DeadInv => DeadKeysRefused
  BY DEF DeadInv, DeadKeysRefused
<1>2. QED  BY <1>1, DeadInvariant, PTL

-----------------------------------------------------------------------------
(* The rate limit *)

Kept(kept, x, t) == IF x > t - RateWindow THEN Append(kept, x) ELSE kept

\* What is kept of the first entries of q, of none, of one, and so on.
Prunes(p, q, t) ==
    p[0] = <<>> /\ \A k \in 1..Len(q) : p[k] = Kept(p[k - 1], q[k], t)

\* InWindow goes through the log entry by entry.
LEMMA InWindowUnfolds ==
    ASSUME NEW q \in Seq(Nat), NEW t \in Nat
    PROVE  \E p : /\ Prunes(p, q, t) /\ InWindow(q, t) = p[Len(q)]
                 /\ \A k \in 0..Len(q) : p[k] \in Seq(Nat)
<1> DEFINE n == Len(q)
           It == CHOOSE it : it = [s \in SUBSET DOMAIN q |->
                   IF s = {} THEN <<>> ELSE Kept(it[s \ {Max(s)}], q[Max(s)], t)]
           step == [z \in (1..n) \X Seq(Nat) |-> Kept(z[2], q[z[1]], t)]
<1>0. n \in Nat /\ DOMAIN q = 1..n /\ \A k \in 1..n : q[k] \in Nat
  OBVIOUS
<1>1. InWindow(q, t) = It[DOMAIN q]
  BY DEF InWindow, FoldLeft, MapThenFoldSet, Kept
<1> HIDE DEF n
<1>2. \A x \in 1..n, v \in Seq(Nat) :
        step[<<x, v>>] = Kept(v, q[x], t) /\ step[<<x, v>>] \in Seq(Nat)
  BY <1>0 DEF Kept
<1> HIDE DEF step
<1>3. PICK i \in [SUBSET (1..n) -> Seq(Nat)] : Folds(i, n, <<>>, step)
  <2> DEFINE V == Seq(Nat)
  <2>1. n \in Nat /\ <<>> \in V /\ StepIn(step, n, V)
    BY <1>0, <1>2 DEF StepIn
  <2> HIDE DEF V
  <2>2. \E i \in [SUBSET (1..n) -> V] : Folds(i, n, <<>>, step)
    BY <2>1, FoldIterExists
  <2>3. QED  BY <2>2 DEF V
<1>4. ASSUME NEW s \in SUBSET (1..n), s # {}
      PROVE  i[s] = Kept(i[s \ {Max(s)}], q[Max(s)], t)
  <2>1. Max(s) \in 1..n
    BY <1>0, <1>4, MaxFacts
  <2>2. i[s \ {Max(s)}] \in Seq(Nat)
    OBVIOUS
  <2>3. i[s] = step[<<Max(s), i[s \ {Max(s)}]>>]
    BY <1>3, <1>4 DEF Folds
  <2>4. QED  BY <1>2, <2>1, <2>2, <2>3
<1>5. i = [s \in SUBSET DOMAIN q |->
             IF s = {} THEN <<>> ELSE Kept(i[s \ {Max(s)}], q[Max(s)], t)]
  BY <1>0, <1>3, <1>4 DEF Folds
<1>6. It = [s \in SUBSET DOMAIN q |->
              IF s = {} THEN <<>> ELSE Kept(It[s \ {Max(s)}], q[Max(s)], t)]
  BY <1>5
<1> HIDE DEF It
<1>7. Steps(It, n, <<>>, step, Seq(Nat))
  <2>1. \A s \in SUBSET (1..n) :
          It[s] = IF s = {} THEN <<>> ELSE Kept(It[s \ {Max(s)}], q[Max(s)], t)
    BY <1>0, <1>6
  <2>2. \A s \in SUBSET (1..n) : s # {} => Max(s) \in 1..n
    BY <1>0, MaxFacts
  <2>3. ASSUME NEW s \in SUBSET (1..n), s # {}, It[s \ {Max(s)}] \in Seq(Nat)
        PROVE  It[s] = step[<<Max(s), It[s \ {Max(s)}]>>]
    BY <1>2, <2>1, <2>2, <2>3
  <2>4. It[{}] = <<>>
    BY <2>1
  <2>5. QED  BY <2>3, <2>4 DEF Steps
<1>8. PICK p \in [0..n -> Seq(Nat)] : Runs(p, n, <<>>, step) /\ It[1..n] = p[n]
  <2> DEFINE V == Seq(Nat)
  <2>1. n \in Nat /\ <<>> \in V /\ StepIn(step, n, V) /\ Steps(It, n, <<>>, step, V)
    BY <1>0, <1>2, <1>7 DEF StepIn
  <2> HIDE DEF V
  <2>2. \E p \in [0..n -> V] : Runs(p, n, <<>>, step) /\ It[1..n] = p[n]
    BY <2>1, FoldRuns
  <2>3. QED  BY <2>2 DEF V
<1>9. ASSUME NEW k \in 1..n  PROVE p[k] = Kept(p[k - 1], q[k], t)
  <2>1. k - 1 \in 0..n
    BY <1>0
  <2>2. p[k - 1] \in Seq(Nat) /\ p[k] = step[<<k, p[k - 1]>>]
    BY <1>8, <2>1 DEF Runs
  <2>3. QED  BY <1>2, <2>2
<1>10. Prunes(p, q, t) /\ InWindow(q, t) = p[n]
  BY <1>0, <1>1, <1>8, <1>9 DEF Runs, Prunes, n
<1>11. QED  BY <1>8, <1>10 DEF n

LEMMA InWindowFacts ==
    ASSUME NEW t \in Nat
    PROVE  /\ InWindow(<<>>, t) = <<>>
           /\ \A q \in Seq(Nat) : InWindow(q, t) \in Seq(Nat)
           /\ \A q \in Seq(Nat), x \in Nat :
                InWindow(Append(q, x), t) = Kept(InWindow(q, t), x, t)
<1>1. InWindow(<<>>, t) = <<>>
  <2> DEFINE e == <<>>
  <2>1. e \in Seq(Nat) /\ Len(e) = 0
    OBVIOUS
  <2> HIDE DEF e
  <2>2. PICK p : Prunes(p, e, t) /\ InWindow(e, t) = p[Len(e)]
    BY <2>1, InWindowUnfolds
  <2>3. QED  BY <2>1, <2>2 DEF Prunes, e
<1>2. ASSUME NEW q \in Seq(Nat)  PROVE InWindow(q, t) \in Seq(Nat)
  <2>1. Len(q) \in 0..Len(q)
    OBVIOUS
  <2>2. QED  BY <2>1, InWindowUnfolds
<1>3. ASSUME NEW q \in Seq(Nat), NEW x \in Nat
      PROVE  InWindow(Append(q, x), t) = Kept(InWindow(q, t), x, t)
  <2> DEFINE r == Append(q, x)
             n == Len(q)
  <2>1. /\ r \in Seq(Nat) /\ Len(r) = n + 1 /\ r[n + 1] = x /\ n \in Nat
        /\ \A k \in 1..n : r[k] = q[k]
    OBVIOUS
  <2> HIDE DEF r
  <2>2. PICK a : Prunes(a, q, t) /\ InWindow(q, t) = a[Len(q)]
    BY InWindowUnfolds
  <2>3. PICK b : Prunes(b, r, t) /\ InWindow(r, t) = b[Len(r)]
    BY <2>1, InWindowUnfolds
  <2>4. a[0] = b[0] /\ \A k \in 1..n : a[k - 1] = b[k - 1] => a[k] = b[k]
    <3>1. \A k \in 1..n : k \in 1..Len(r) /\ r[k] = q[k]
      BY <2>1
    <3>2. QED  BY <2>2, <2>3, <3>1 DEF Prunes
  <2>5. \A k \in 0..n : a[k] = b[k]
    <3>1. n \in Nat
      BY <2>1
    <3>2. Alike(a, b, n)
      BY <2>4 DEF Alike
    <3> HIDE DEF n
    <3>3. QED  BY <3>1, <3>2, SameFold
  <2>6. a[n] = b[n] /\ b[n + 1] = Kept(b[n], x, t)
    <3>1. n \in 0..n /\ n + 1 \in 1..Len(r) /\ (n + 1) - 1 = n
      BY <2>1
    <3>2. QED  BY <2>1, <2>3, <2>5, <3>1 DEF Prunes
  <2>7. QED  BY <2>1, <2>2, <2>3, <2>6 DEF r
<1>4. QED  BY <1>1, <1>2, <1>3

\* Pruning now and again later is pruning later, and never adds anything.
LEMMA PruneTwice ==
    ASSUME NEW t \in Nat, NEW u \in Nat, t <= u, NEW q \in Seq(Nat)
    PROVE  /\ InWindow(InWindow(q, t), u) = InWindow(q, u)
           /\ Len(InWindow(q, u)) <= Len(q)
<1> DEFINE F == {r \in Seq(Nat) : /\ InWindow(InWindow(r, t), u) = InWindow(r, u)
                                 /\ Len(InWindow(r, u)) <= Len(r)}
<1>1. <<>> \in F
  <2>1. <<>> \in Seq(Nat) /\ Len(<<>>) <= Len(<<>>)
    OBVIOUS
  <2>2. QED  BY <2>1, InWindowFacts
<1>2. ASSUME NEW r \in Seq(Nat), r \in F, NEW x \in Nat  PROVE Append(r, x) \in F
  <2>1. /\ InWindow(Append(r, x), t) = Kept(InWindow(r, t), x, t)
        /\ InWindow(Append(r, x), u) = Kept(InWindow(r, u), x, u)
        /\ InWindow(r, t) \in Seq(Nat) /\ InWindow(r, u) \in Seq(Nat)
    BY InWindowFacts
  <2>2. InWindow(Append(InWindow(r, t), x), u) = Kept(InWindow(InWindow(r, t), u), x, u)
    BY <2>1, InWindowFacts
  <2>3. x > u - RateWindow => x > t - RateWindow
    BY AuthAssumption
  <2>4. InWindow(Kept(InWindow(r, t), x, t), u) = Kept(InWindow(r, u), x, u)
    <3>1. CASE x > t - RateWindow
      BY <1>2, <2>2, <3>1 DEF Kept
    <3>2. CASE ~(x > t - RateWindow)
      BY <1>2, <2>3, <3>2 DEF Kept
    <3>3. QED  BY <3>1, <3>2
  <2>5. Len(Kept(InWindow(r, u), x, u)) <= Len(Append(r, x))
    <3>1. Len(InWindow(r, u)) <= Len(r)
      BY <1>2
    <3>2. QED  BY <2>1, <3>1 DEF Kept
  <2>6. QED  BY <2>1, <2>4, <2>5
<1>3. Seq(Nat) \subseteq F
  <2> HIDE DEF F
  <2>1. QED  BY <1>1, <1>2, SeqInduction
<1>4. QED  BY <1>3

\* The log of a key, pruned, is what the key has been served in the window
\* that ends now; what a call finds there is therefore all that counts.
RateInv ==
    /\ now \in Nat
    /\ requestLog \in [Keys -> Seq(Nat)]
    /\ served \in [Keys -> Seq(Nat)]
    /\ \A k \in Keys : /\ served[k] = InWindow(requestLog[k], now)
                       /\ Len(served[k]) <= RateLimit

LEMMA RateLimitedKeeps ==
    ASSUME RateInv, NEW k, RateLimited(k), UNCHANGED <<served, now>>
    PROVE  RateInv'
<1> DEFINE log == InWindow(requestLog[k], now)
<1>1. requestLog' = [requestLog EXCEPT ![k] = log]
  BY DEF RateLimited
<1>2. CASE k \notin Keys
  <2>1. requestLog' = requestLog
    BY <1>1, <1>2 DEF RateInv
  <2>2. QED  BY <2>1 DEF RateInv
<1>3. CASE k \in Keys
  <2>1. log \in Seq(Nat) /\ InWindow(log, now) = log
    BY <1>3, InWindowFacts, PruneTwice DEF RateInv
  <2> HIDE DEF log
  <2>2. requestLog' \in [Keys -> Seq(Nat)]
    BY <1>1, <2>1 DEF RateInv
  <2>3. \A j \in Keys : InWindow(requestLog'[j], now) = InWindow(requestLog[j], now)
    BY <1>1, <2>1 DEF RateInv, log
  <2>4. QED  BY <2>2, <2>3 DEF RateInv
<1>4. QED  BY <1>2, <1>3

LEMMA ServeKeeps ==
    ASSUME RateInv, NEW k, CheckRateLimit(k), Serve(k), UNCHANGED now
    PROVE  RateInv'
<1> DEFINE log == InWindow(requestLog[k], now)
<1>1. /\ requestLog' = [requestLog EXCEPT ![k] = Append(log, now)]
      /\ served' = [served EXCEPT ![k] = Append(served[k], now)]
      /\ Len(log) < RateLimit
  BY DEF CheckRateLimit, Extended, Serve
<1>2. CASE k \notin Keys
  <2>1. requestLog' = requestLog /\ served' = served
    BY <1>1, <1>2 DEF RateInv
  <2>2. QED  BY <2>1 DEF RateInv
<1>3. CASE k \in Keys
  <2>1. now \in Nat /\ requestLog[k] \in Seq(Nat) /\ served[k] = log
    BY <1>3 DEF RateInv
  <2>2. log \in Seq(Nat) /\ InWindow(log, now) = log
    BY <2>1, InWindowFacts, PruneTwice
  <2>3. InWindow(Append(log, now), now) = Append(log, now)
    <3>1. InWindow(Append(log, now), now) = Kept(InWindow(log, now), now, now)
      BY <2>1, <2>2, InWindowFacts
    <3>2. now > now - RateWindow
      BY <2>1, AuthAssumption
    <3>3. QED  BY <2>2, <3>1, <3>2 DEF Kept
  <2> HIDE DEF log
  <2>4. Append(log, now) \in Seq(Nat) /\ Len(Append(log, now)) <= RateLimit
    BY <1>1, <2>1, <2>2, AuthAssumption
  <2> DEFINE new == Append(log, now)
  <2>5. /\ requestLog' = [requestLog EXCEPT ![k] = new]
        /\ served' = [served EXCEPT ![k] = new]
    BY <1>1, <2>1
  <2>6. new \in Seq(Nat) /\ Len(new) <= RateLimit /\ InWindow(new, now) = new
    BY <2>3, <2>4
  <2> HIDE DEF new
  <2>7. requestLog' \in [Keys -> Seq(Nat)] /\ served' \in [Keys -> Seq(Nat)]
    BY <2>5, <2>6 DEF RateInv
  <2>8. ASSUME NEW j \in Keys
        PROVE  served'[j] = InWindow(requestLog'[j], now) /\ Len(served'[j]) <= RateLimit
    <3>1. CASE j = k
      BY <2>5, <2>6, <3>1 DEF RateInv
    <3>2. CASE j # k
      BY <2>5, <3>2 DEF RateInv
    <3>3. QED  BY <3>1, <3>2
  <2>9. QED  BY <2>7, <2>8 DEF RateInv
<1>4. QED  BY <1>2, <1>3

\* A tick: what leaves the window leaves both sides.
LEMMA LaterKeeps == ASSUME RateInv, Later  PROVE RateInv'
<1>1. /\ now \in Nat /\ now' = now + 1 /\ now' \in Nat /\ now <= now'
      /\ requestLog' = requestLog
      /\ served' = [k \in Keys |-> InWindow(served[k], now')]
  BY DEF RateInv, Later, Tick
<1>2. ASSUME NEW k \in Keys
      PROVE  /\ served'[k] \in Seq(Nat)
             /\ served'[k] = InWindow(requestLog[k], now')
             /\ Len(served'[k]) <= RateLimit
  <2>1. /\ requestLog[k] \in Seq(Nat) /\ served[k] \in Seq(Nat)
        /\ served[k] = InWindow(requestLog[k], now) /\ Len(served[k]) <= RateLimit
    BY DEF RateInv
  <2>2. InWindow(served[k], now') \in Seq(Nat)
    BY <1>1, <2>1, InWindowFacts
  <2>3. InWindow(served[k], now') = InWindow(requestLog[k], now')
    BY <1>1, <2>1, PruneTwice
  <2>4. Len(InWindow(served[k], now')) <= Len(served[k])
    BY <1>1, <2>1, PruneTwice
  <2>5. QED  BY <1>1, <2>1, <2>2, <2>3, <2>4, AuthAssumption
<1>3. served' \in [Keys -> Seq(Nat)]
  BY <1>1, <1>2
<1>4. QED  BY <1>1, <1>2, <1>3 DEF RateInv

LEMMA NothingServed ==
    ASSUME NEW log, NEW t \in Nat, log = [k \in Keys |-> <<>>]
    PROVE  /\ log \in [Keys -> Seq(Nat)]
           /\ \A k \in Keys : log[k] = InWindow(log[k], t) /\ Len(log[k]) <= RateLimit
<1>1. <<>> \in Seq(Nat) /\ Len(<<>>) = 0
  OBVIOUS
<1>2. QED  BY <1>1, InWindowFacts, AuthAssumption

LEMMA RateInvStep == RateInv /\ [Next]_vars => RateInv'
<1> SUFFICES ASSUME RateInv, [Next]_vars  PROVE RateInv'
  OBVIOUS
<1>1. ASSUME NEW k, RateLimited(k), UNCHANGED <<served, now>>  PROVE RateInv'
  BY <1>1, RateLimitedKeeps
<1>2. ASSUME NEW k, CheckRateLimit(k), Serve(k), UNCHANGED now  PROVE RateInv'
  BY <1>2, ServeKeeps
<1>3. CASE UNCHANGED <<requestLog, served, now>>
  BY <1>3 DEF RateInv
<1>4. CASE Later
  BY <1>4, LaterKeeps
<1>5. CASE Restart
  <2>1. /\ requestLog' = [k \in Keys |-> <<>>] /\ served' = [k \in Keys |-> <<>>]
        /\ now' = now /\ now \in Nat
    BY <1>5 DEF Restart, KeysRestart, RateInv
  <2>2. QED  BY <2>1, NothingServed DEF RateInv
<1>6. ASSUME NEW q \in Requests, RequestStep(q), UNCHANGED keyVars  PROVE RateInv'
  <2>1. now' = now
    BY <1>6 DEF keyVars
  <2>2. CASE Admit(q)
    BY <1>2, <2>1, <2>2 DEF Admit
  <2>3. CASE Limit(q)
    BY <1>1, <2>1, <2>3 DEF Limit
  <2>4. QED
    BY <1>3, <1>6, <2>1, <2>2, <2>3
       DEF RequestStep, Arrive, ReadClock, Select, LookupFails, Answered
<1>7. ASSUME ServeEnv, UNCHANGED keyVars  PROVE RateInv'
  <2>1. now' = now
    BY <1>7 DEF keyVars
  <2>2. QED  BY <1>1, <1>2, <1>7, <2>1 DEF ServeEnv
<1>8. ASSUME NEW c \in Calls, Ask(c) \/ CallStep(c) \/ Revoke(c), UNCHANGED authVars
      PROVE  RateInv'
  <2>1. now' = now
    BY <1>8 DEF Ask, CallStep, Enter, CountKeys, InsertKey, LogKey, StatementFails, Revoke
  <2>2. QED  BY <1>3, <1>8, <2>1 DEF authVars
<1>9. CASE UNCHANGED vars
  BY <1>3, <1>9 DEF vars, keyVars, authVars
<1>10. QED  BY <1>4, <1>5, <1>6, <1>7, <1>8, <1>9 DEF Next

\* No key is served more than RATE_LIMIT_REQUESTS times within
\* RATE_LIMIT_WINDOW: although a log is pruned only when its key asks, and only
\* then, what has been pruned is never missed.
THEOREM RateLimitHolds == Spec => []RateCapped
<1>1. Init => RateInv
  BY NothingServed DEF Init, KeysInit, RateInv
<1>2. RateInv => RateCapped
  BY DEF RateInv, RateCapped
<1>3. QED  BY <1>1, <1>2, RateInvStep, PTL DEF Spec
=============================================================================
