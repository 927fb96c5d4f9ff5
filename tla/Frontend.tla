------------------------------- MODULE Frontend -------------------------------
(***************************************************************************)
(* The script of frontend/index.html: the key it saves, startMonitoring    *)
(* with its two awaited requests, the EventSource it opens and the         *)
(* handlers of its events, which know nothing but the variable source.     *)
(* The server accepts, refuses, fails and goes away as it likes, and       *)
(* forgets keys.                                                           *)
(***************************************************************************)
EXTENDS Naturals, FiniteSets

CONSTANTS
    Starts,      \* the calls of startMonitoring
    Keys,
    None,        \* no key, no EventSource
    AuthEnabled  \* what /health says

ASSUME PageAssumption == None \notin Starts \cup Keys /\ AuthEnabled \in BOOLEAN

VARIABLES
    start,    \* per call: what it awaits, its apiKey, its EventSource
    source,   \* the call whose EventSource is in source
    saved,    \* the key in localStorage
    good,     \* the keys the server accepts
    label,    \* the badge of the card
    typed,    \* history: the user has typed since the last submit
    overlap   \* history: a form was submitted while a call awaited

vars == <<start, source, saved, good, label, typed, overlap>>

Awaiting(s)  == start[s].at \in {"health", "verify"}
Listening(s) == start[s].stream \in {"connecting", "open"}

TypeOK ==
    /\ start \in [Starts -> [at : {"none", "health", "verify", "over"},
                             key : Keys \cup {None},
                             stream : {"none", "connecting", "open", "closed"}]]
    /\ source \in Starts \cup {None}
    /\ saved \in Keys \cup {None} /\ good \subseteq Keys
    /\ label \in {"connecting", "active", "error"}
    /\ typed \in BOOLEAN /\ overlap \in BOOLEAN

Init ==
    /\ start = [s \in Starts |-> [at |-> "none", key |-> None, stream |-> "none"]]
    /\ source = None
    /\ saved \in Keys \cup {None} /\ good = Keys
    /\ label = "connecting"
    /\ typed = FALSE /\ overlap = FALSE

-----------------------------------------------------------------------------
(* Starting and stopping *)

\* Slip: the last EventSource is left to itself.
LeftOpen(calls) == calls

\* stopMonitoring, whatever else becomes of the calls: source is closed.
Closed(calls) ==
    IF source = None THEN calls ELSE [calls EXCEPT ![source].stream = "closed"]

Submit(s) ==
    /\ start[s].at = "none"
    /\ start' = [Closed(start) EXCEPT ![s].at = "health", ![s].key = saved]
    /\ source' = None
    /\ label' = "connecting"
    /\ typed' = FALSE
    /\ overlap' = (overlap \/ \E r \in Starts : Awaiting(r))
    /\ UNCHANGED <<saved, good>>

\* The user edits the username.
Type ==
    /\ start' = Closed(start)
    /\ source' = None
    /\ typed' = TRUE
    /\ UNCHANGED <<saved, good, label, overlap>>

\* The call shows an error and returns.
GiveUp(s) ==
    /\ start' = [start EXCEPT ![s].at = "over"]
    /\ label' = "error"
    /\ UNCHANGED <<source, good, typed, overlap>>

Open(s) ==
    /\ start' = [start EXCEPT ![s].at = "over", ![s].stream = "connecting"]
    /\ source' = s
    /\ UNCHANGED <<saved, good, label, typed, overlap>>

\* /health has answered: with auth enabled the key is verified first.
Health(s) ==
    /\ start[s].at = "health"
    /\ IF ~AuthEnabled THEN Open(s)
       ELSE IF start[s].key = None THEN GiveUp(s) /\ UNCHANGED saved
       ELSE /\ start' = [start EXCEPT ![s].at = "verify"]
            /\ UNCHANGED <<source, saved, good, label, typed, overlap>>

\* /api/keys/verify has refused the key: the saved key is dropped.
Refused(s) ==
    /\ start[s].at = "verify" /\ start[s].key \notin good
    /\ GiveUp(s)
    /\ saved' = None

\* Any other answer will do, a 429 or a 500 as well.
Verified(s) == start[s].at = "verify" /\ Open(s)

\* A request fails: with a key the call goes on all the same.
Unreachable(s) ==
    /\ Awaiting(s)
    /\ IF start[s].key = None THEN GiveUp(s) /\ UNCHANGED saved ELSE Open(s)

-----------------------------------------------------------------------------
(* Events of an EventSource *)

\* Slip: every error is taken for a lost connection.
ReconnectOnly(calls) ==
    /\ start' = calls
    /\ label' = IF source = None THEN label ELSE "connecting"
    /\ UNCHANGED <<source, saved>>

\* onerror, which looks at source, whoever's error it is: a source closed by
\* the server is given up, and the saved key with it.
OnError(calls) ==
    IF source # None /\ calls[source].stream = "closed"
      THEN start' = calls /\ source' = None /\ saved' = None /\ label' = "error"
      ELSE /\ start' = calls
           /\ label' = IF source = None THEN label ELSE "connecting"
           /\ UNCHANGED <<source, saved>>

\* The server answers 200.
Connected(s) ==
    /\ start[s].stream = "connecting"
    /\ AuthEnabled => start[s].key \in good
    /\ start' = [start EXCEPT ![s].stream = "open"]
    /\ UNCHANGED <<source, saved, good, label, typed, overlap>>

\* It answers 401, or 429 whatever the key: EventSource does not try again.
Rejected(s) ==
    /\ start[s].stream = "connecting"
    /\ OnError([start EXCEPT ![s].stream = "closed"])
    /\ UNCHANGED <<good, typed, overlap>>

\* The connection fails or is lost: EventSource tries again.
Lost(s) ==
    /\ Listening(s)
    /\ OnError([start EXCEPT ![s].stream = "connecting"])
    /\ UNCHANGED <<good, typed, overlap>>

\* onmessage: a status, or a transient error ...
Message(s) ==
    /\ start[s].stream = "open"
    /\ label' \in {"active", "error"}
    /\ UNCHANGED <<start, source, saved, good, typed, overlap>>

\* ... or the fatal one, which stops source, whoever's message it is.
Fatal(s) ==
    /\ start[s].stream = "open"
    /\ start' = Closed(start)
    /\ source' = None
    /\ label' = "error"
    /\ UNCHANGED <<saved, good, typed, overlap>>

-----------------------------------------------------------------------------

\* The user saves, generates or clears a key, at any moment.
SaveKey(k) ==
    /\ saved' = k
    /\ UNCHANGED <<start, source, good, label, typed, overlap>>

\* The server forgets a key.
Expire(k) ==
    /\ good' = good \ {k}
    /\ UNCHANGED <<start, source, saved, label, typed, overlap>>

Next ==
    \/ Type
    \/ \E k \in Keys \cup {None} : SaveKey(k) \/ Expire(k)
    \/ \E s \in Starts :
        \/ Submit(s) \/ Health(s) \/ Refused(s) \/ Verified(s) \/ Unreachable(s)
        \/ Connected(s) \/ Rejected(s) \/ Lost(s) \/ Message(s) \/ Fatal(s)

Spec == Init /\ [][Next]_vars

-----------------------------------------------------------------------------

\* The page listens to one stream, the one it can stop, unless two calls of
\* startMonitoring were ever under way at a time.
OneStream ==
    ~overlap => \A s \in Starts : Listening(s) => s = source

\* What the page takes for its monitor is no stream that the server has
\* refused for good, however many streams it has lost track of.
MonitorAlive == source # None => Listening(source)

(* A claim of a comment in index.html that the code does not keep. *)

\* "Stop monitoring when the user starts typing a new username".
StopStops == typed => source = None
=============================================================================
