------------------------------- MODULE LiveFeed -------------------------------
(***************************************************************************)
(* What get_live_status_sse promises its callers, whatever caching, lock   *)
(* and network do: a shared register that follows the streamer.  A caller  *)
(* reads the register, or moves it to a state that is at least as recent   *)
(* and reads that.  No caller is ever shown an older state after any       *)
(* caller has been shown a newer one.                                      *)
(***************************************************************************)
EXTENDS Integers

CONSTANT Readers  \* callers of get_live_status_sse

VARIABLES
    version,    \* the state the streamer is in
    published,  \* the state in the register
    got         \* the state each reader saw last

feedVars == <<version, published, got>>

FeedTypeOK ==
    /\ version \in Nat
    /\ published \in Nat
    /\ got \in [Readers -> Nat]

FeedInit ==
    /\ version = 0
    /\ published = 0
    /\ got = [r \in Readers |-> 0]

Change ==
    /\ version' = version + 1
    /\ UNCHANGED <<published, got>>

Read(r) ==
    /\ got' = [got EXCEPT ![r] = published]
    /\ UNCHANGED <<version, published>>

Publish(r) ==
    /\ published' \in published..version
    /\ got' = [got EXCEPT ![r] = published']
    /\ UNCHANGED version

FeedNext == Change \/ \E r \in Readers : Read(r) \/ Publish(r)

FeedSpec == FeedInit /\ [][FeedNext]_feedVars

-----------------------------------------------------------------------------

\* Nobody has seen anything newer than the register holds, and the register
\* holds nothing that has not happened.
Behind ==
    /\ published <= version
    /\ \A r \in Readers : got[r] <= published

\* Whoever is shown a state is shown one at least as recent as any reader
\* has seen: the readers agree on the order of the streamer's states.
NeverBackwards ==
    [][\A r \in Readers :
        got'[r] # got[r] => \A q \in Readers : got'[r] >= got[q]]_feedVars
=============================================================================
