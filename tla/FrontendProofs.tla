---------------------------- MODULE FrontendProofs ----------------------------
(***************************************************************************)
(* Proofs about Frontend, for any number of submits and keys, with auth or *)
(* without: the page listens to one stream as long as calls of             *)
(* startMonitoring do not overlap, and never holds on to a dead one.       *)
(***************************************************************************)
EXTENDS Frontend, TLAPS

\* While calls have not overlapped, one at most awaits, and it has nothing
\* to listen to: stopMonitoring came first.
OneCall == ~overlap => \A r \in Starts : Awaiting(r) =>
    /\ source = None
    /\ \A q \in Starts : Awaiting(q) => q = r

PageInv == TypeOK /\ MonitorAlive /\ OneStream /\ OneCall

\* Closed closes source and nothing else.
LEMMA ClosedFacts ==
    ASSUME TypeOK
    PROVE  /\ Closed(start) \in [Starts -> [at : {"none", "health", "verify", "over"},
                                            key : Keys \cup {None},
                                            stream : {"none", "connecting", "open", "closed"}]]
           /\ \A s \in Starts :
                /\ Closed(start)[s].at = start[s].at
                /\ Closed(start)[s].key = start[s].key
                /\ Closed(start)[s].stream = IF s = source THEN "closed" ELSE start[s].stream
<1>1. CASE source = None
  BY <1>1, PageAssumption DEF TypeOK, Closed
<1>2. CASE source # None
  BY <1>2 DEF TypeOK, Closed
<1>3. QED  BY <1>1, <1>2

\* The page stops listening, and no call that was not under way is now.
LEMMA StopKeeps ==
    ASSUME PageInv, start' = Closed(start), source' = None,
           saved' \in Keys \cup {None}, good' \subseteq Keys,
           label' \in {"connecting", "active", "error"}, typed' \in BOOLEAN,
           overlap' = overlap
    PROVE  PageInv'
<1>1. TypeOK'
  BY ClosedFacts DEF PageInv, TypeOK
<1>2. \A s \in Starts : /\ Awaiting(s)' <=> Awaiting(s)
                        /\ Listening(s)' <=> Listening(s) /\ s # source
  BY ClosedFacts DEF PageInv, Awaiting, Listening
<1>3. QED
  BY <1>1, <1>2 DEF PageInv, MonitorAlive, OneStream, OneCall

LEMMA SubmitKeeps == ASSUME PageInv, NEW s \in Starts, Submit(s)  PROVE PageInv'
<1>1. /\ \A r \in Starts : Listening(r)' <=> Listening(r) /\ r # source
      /\ \A r \in Starts \ {s} : Awaiting(r)' <=> Awaiting(r)
      /\ source' = None
      /\ ~overlap' => ~overlap /\ \A r \in Starts : ~Awaiting(r)
  BY ClosedFacts DEF PageInv, TypeOK, Submit, Awaiting, Listening
<1>2. TypeOK'
  <2> DEFINE calls == Closed(start)
  <2>1. start' = [calls EXCEPT ![s].at = "health", ![s].key = saved]
        /\ saved \in Keys \cup {None}
    BY DEF PageInv, TypeOK, Submit
  <2>2. calls \in [Starts -> [at : {"none", "health", "verify", "over"},
                             key : Keys \cup {None},
                             stream : {"none", "connecting", "open", "closed"}]]
    BY ClosedFacts DEF PageInv
  <2> HIDE DEF calls
  <2>3. start' \in [Starts -> [at : {"none", "health", "verify", "over"},
                              key : Keys \cup {None},
                              stream : {"none", "connecting", "open", "closed"}]]
    BY <2>1, <2>2
  <2>4. overlap' \in BOOLEAN
    BY DEF PageInv, TypeOK, Submit
  <2>5. QED  BY <2>3, <2>4 DEF PageInv, TypeOK, Submit
<1>3. QED
  BY <1>1, <1>2 DEF PageInv, MonitorAlive, OneStream, OneCall

\* A call that gives up awaits no more and opens nothing.
LEMMA GiveUpKeeps ==
    ASSUME PageInv, NEW s \in Starts, GiveUp(s), saved' \in Keys \cup {None}
    PROVE  PageInv'
<1>1. \A r \in Starts : /\ Listening(r)' <=> Listening(r)
                        /\ Awaiting(r)' => Awaiting(r)
  BY DEF PageInv, TypeOK, GiveUp, Awaiting, Listening
<1>2. TypeOK'
  BY DEF PageInv, TypeOK, GiveUp
<1>3. QED
  BY <1>1, <1>2 DEF PageInv, MonitorAlive, OneStream, OneCall, GiveUp, TypeOK

\* The call that awaits opens its EventSource: if calls have not overlapped,
\* there is no other.
LEMMA OpenKeeps == ASSUME PageInv, NEW s \in Starts, Awaiting(s), Open(s)  PROVE PageInv'
<1>1. /\ Listening(s)' /\ ~Awaiting(s)' /\ source' = s /\ overlap' = overlap
      /\ \A r \in Starts \ {s} : /\ Listening(r)' <=> Listening(r)
                                 /\ Awaiting(r)' <=> Awaiting(r)
  BY DEF PageInv, TypeOK, Open, Awaiting, Listening
<1>2. TypeOK'
  BY DEF PageInv, TypeOK, Open
<1>3. ASSUME ~overlap
      PROVE  \A r \in Starts : ~Listening(r) /\ (Awaiting(r) => r = s)
  BY <1>3, PageAssumption DEF PageInv, OneStream, OneCall
<1>4. QED
  BY <1>1, <1>2, <1>3 DEF PageInv, MonitorAlive, OneStream, OneCall

\* An error of any EventSource: only source's own end clears source.
LEMMA OnErrorKeeps ==
    ASSUME PageInv, NEW s \in Starts, Listening(s),
           NEW to \in {"connecting", "closed"},
           OnError([start EXCEPT ![s].stream = to]), UNCHANGED <<good, typed, overlap>>
    PROVE  PageInv'
<1> DEFINE calls == [start EXCEPT ![s].stream = to]
<1>1. /\ calls[s].stream = to
      /\ \A r \in Starts : calls[r].at = start[r].at
      /\ \A r \in Starts \ {s} : calls[r] = start[r]
      /\ start' = calls
  BY DEF PageInv, TypeOK, OnError
<1>2. \A r \in Starts : /\ Awaiting(r)' <=> Awaiting(r)
                        /\ Listening(r)' => Listening(r)
                        /\ Listening(r) /\ r # s => Listening(r)'
                        /\ to = "connecting" => Listening(s)'
  BY <1>1 DEF Awaiting, Listening
<1>3. TypeOK'
  BY DEF PageInv, TypeOK, OnError
<1>4. CASE source = s /\ to = "closed"
  <2>1. source' = None /\ ~Listening(s)'
    BY <1>1, <1>4, PageAssumption DEF OnError, Listening
  <2>2. QED
    BY <1>2, <1>3, <1>4, <2>1 DEF PageInv, MonitorAlive, OneStream, OneCall
<1>5. CASE ~(source = s /\ to = "closed")
  <2>1. source # None => source \in Starts /\ calls[source].stream # "closed"
    BY <1>1, <1>5 DEF PageInv, TypeOK, MonitorAlive, Listening
  <2>2. source' = source
    BY <2>1 DEF OnError
  <2>3. source # None => Listening(source)'
    BY <1>2, <1>5, <2>1, <2>2 DEF PageInv, MonitorAlive
  <2>4. QED
    BY <1>2, <1>3, <2>2, <2>3 DEF PageInv, MonitorAlive, OneStream, OneCall
<1>6. QED  BY <1>4, <1>5

LEMMA PageInvStep == PageInv /\ [Next]_vars => PageInv'
<1> SUFFICES ASSUME PageInv, [Next]_vars  PROVE PageInv'
  OBVIOUS
<1>1. CASE Type
  BY <1>1, StopKeeps DEF Type, PageInv, TypeOK
<1>2. ASSUME NEW k \in Keys \cup {None}, SaveKey(k) \/ Expire(k)  PROVE PageInv'
  BY <1>2 DEF SaveKey, Expire, PageInv, TypeOK, MonitorAlive, OneStream, OneCall,
              Awaiting, Listening
<1>3. ASSUME NEW s \in Starts, Submit(s)  PROVE PageInv'
  BY <1>3, SubmitKeeps
<1>4. ASSUME NEW s \in Starts, Health(s)  PROVE PageInv'
  <2>1. CASE Open(s)
    BY <1>4, <2>1, OpenKeeps DEF Health, Awaiting
  <2>2. CASE GiveUp(s) /\ UNCHANGED saved
    BY <2>2, GiveUpKeeps DEF PageInv, TypeOK
  <2>3. CASE /\ start' = [start EXCEPT ![s].at = "verify"]
             /\ UNCHANGED <<source, saved, good, label, typed, overlap>>
    <3>1. \A r \in Starts : /\ Awaiting(r)' <=> Awaiting(r)
                            /\ Listening(r)' <=> Listening(r)
      BY <1>4, <2>3 DEF Health, PageInv, TypeOK, Awaiting, Listening
    <3>2. TypeOK'
      BY <2>3 DEF PageInv, TypeOK
    <3>3. QED
      BY <2>3, <3>1, <3>2 DEF PageInv, TypeOK, MonitorAlive, OneStream, OneCall
  <2>4. QED  BY <1>4, <2>1, <2>2, <2>3 DEF Health
<1>5. ASSUME NEW s \in Starts, Refused(s)  PROVE PageInv'
  BY <1>5, GiveUpKeeps DEF Refused
<1>6. ASSUME NEW s \in Starts, Verified(s)  PROVE PageInv'
  BY <1>6, OpenKeeps DEF Verified, Awaiting
<1>7. ASSUME NEW s \in Starts, Unreachable(s)  PROVE PageInv'
  BY <1>7, OpenKeeps, GiveUpKeeps DEF Unreachable, PageInv, TypeOK
<1>8. ASSUME NEW s \in Starts, Connected(s)  PROVE PageInv'
  <2>1. \A r \in Starts : /\ Awaiting(r)' <=> Awaiting(r)
                          /\ Listening(r)' <=> Listening(r)
    BY <1>8 DEF Connected, PageInv, TypeOK, Awaiting, Listening
  <2>2. TypeOK'
    BY <1>8 DEF Connected, PageInv, TypeOK
  <2>3. QED
    BY <1>8, <2>1, <2>2
       DEF Connected, PageInv, TypeOK, MonitorAlive, OneStream, OneCall
<1>9. ASSUME NEW s \in Starts, Rejected(s) \/ Lost(s)  PROVE PageInv'
  BY <1>9, OnErrorKeeps DEF Rejected, Lost, Listening
<1>10. ASSUME NEW s \in Starts, Message(s)  PROVE PageInv'
  BY <1>10 DEF Message, PageInv, TypeOK, MonitorAlive, OneStream, OneCall,
               Awaiting, Listening
<1>11. ASSUME NEW s \in Starts, Fatal(s)  PROVE PageInv'
  BY <1>11, StopKeeps DEF Fatal, PageInv, TypeOK
<1>12. CASE UNCHANGED vars
  BY <1>12 DEF vars, PageInv, TypeOK, MonitorAlive, OneStream, OneCall,
               Awaiting, Listening
<1>13. QED
  BY <1>1, <1>2, <1>3, <1>4, <1>5, <1>6, <1>7, <1>8, <1>9, <1>10, <1>11, <1>12 DEF Next

LEMMA PageInvariant == Spec => []PageInv
<1>1. ASSUME Init  PROVE PageInv
  <2>1. TypeOK
    BY <1>1 DEF Init, TypeOK
  <2>2. source = None /\ \A s \in Starts : ~Awaiting(s) /\ ~Listening(s)
    BY <1>1 DEF Init, Awaiting, Listening
  <2>3. QED
    BY <2>1, <2>2 DEF PageInv, MonitorAlive, OneStream, OneCall
<1>2. QED  BY <1>1, PageInvStep, PTL DEF Spec

\* A page whose submits never overlapped listens to one stream at most, the
\* one stopMonitoring will close, through any answers, errors and reconnects.
THEOREM ListensToOne == Spec => []OneStream
<1>1. PageInv => OneStream
  BY DEF PageInv
<1>2. QED  BY <1>1, PageInvariant, PTL

\* source is never an EventSource that has closed for good, overlap or not:
\* onerror looks at source, but a source that closes is looked at in time.
THEOREM MonitorIsAlive == Spec => []MonitorAlive
<1>1. PageInv => MonitorAlive
  BY DEF PageInv
<1>2. QED  BY <1>1, PageInvariant, PTL
=============================================================================
