------------------------------ MODULE ChangeFeed ------------------------------
(***************************************************************************)
(* What a stream promises the client for one username, whatever the        *)
(* generator, the queue and the polls do: the status when it changes, and  *)
(* once more after an error; never the same status twice running.          *)
(***************************************************************************)
CONSTANTS
    Feeds,     \* the usernames a client follows, or the streams of one each
    Status,    \* what is_live can be
    Unknown    \* nothing shown yet

VARIABLE
    feed       \* what the client was sent: the last status shown, whether an
               \* error came after it, and a bit that every status changes

Nothing == [shown |-> Unknown, failed |-> FALSE, beat |-> FALSE]

\* A client that has been sent f is sent item i as well.
Sent(f, i) ==
    IF i \in Status THEN [shown |-> i, failed |-> FALSE, beat |-> ~f.beat]
    ELSE IF i = "error" THEN [f EXCEPT !.failed = TRUE] ELSE f

FeedInit == feed = [f \in Feeds |-> Nothing]

\* A client connects, or connects again: it knows nothing.
Connect(f) == feed' = [feed EXCEPT ![f] = Nothing]

ShowStatus(f) == \E status \in Status :
    /\ status # feed[f].shown \/ feed[f].failed
    /\ feed' = [feed EXCEPT ![f] = Sent(@, status)]

ShowError(f) == feed' = [feed EXCEPT ![f] = Sent(@, "error")]

\* The server stops, with every stream.
Reset == feed' = [f \in Feeds |-> Nothing]

FeedNext == Reset \/ \E f \in Feeds : Connect(f) \/ ShowStatus(f) \/ ShowError(f)

FeedSpec == FeedInit /\ [][FeedNext]_feed
=============================================================================
