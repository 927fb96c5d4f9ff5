---------------------------- MODULE WebhookRegistry ----------------------------
(***************************************************************************)
(* The registry of api/webhooks.py: the in-memory dict _watchers, the      *)
(* SQLite table webhooks, and the requests and worker threads that keep    *)
(* the two together, across process ends and restarts.                     *)
(*                                                                         *)
(* The event loop changes _watchers first and then awaits the SQLite       *)
(* statement, which asyncio.to_thread runs in a worker thread.  Statements *)
(* of different requests run in any order, and each of them may fail       *)
(* ("database is locked", disk full).  Meanwhile other requests are        *)
(* served: a watch_id is listed, and can be deleted, as soon as it is in   *)
(* _watchers, before its own INSERT has run.                               *)
(*                                                                         *)
(* The poll loop appears only through LoopRemove, the step with which it   *)
(* removes its own webhook (too many failures, or user not found);         *)
(* module WebhookLoop is the loop, module Webhooks puts the two together.  *)
(***************************************************************************)
EXTENDS Naturals, FiniteSets, WebhookIds

CONSTANTS
    Users,        \* TikTok usernames, already in lower case
    Owners,       \* API keys (a row stores the SHA-256 of one)
    NoOwner,      \* owner_key = None: auth disabled, or the admin path
    NoRow,        \* the id has no entry
    MaxWebhooks,  \* MAX_WEBHOOKS_TOTAL
    MaxPerUser    \* MAX_WEBHOOKS_PER_USER

ASSUME RegistryAssumption ==
    /\ IsFiniteSet(Ids)
    /\ NoOwner \notin Owners
    /\ NoRow \notin [user : Users, owner : Owners \cup {NoOwner}]
    /\ MaxWebhooks \in Nat
    /\ MaxPerUser \in Nat

VARIABLES
    up,        \* the process is running and has restored its webhooks
    watchers,  \* _watchers: the row of every watched id
    db,        \* the table webhooks
    reg,       \* per id, its POST /api/watch
    asked,     \* per id, the row that request asked for
    unreg,     \* per id, the DELETE /api/watch/{id} that found its watcher
    rm,        \* per id, the DELETE statement issued for its watcher
    removed,   \* history: ids ever taken out of _watchers by a removal
    raced      \* history: ids that this process took out of _watchers while
               \* their INSERT was still to run

regVars == <<up, watchers, db, reg, asked, unreg, rm, removed, raced>>

-----------------------------------------------------------------------------

Row == [user : Users, owner : Owners \cup {NoOwner}]

Watched(id) == watchers[id] # NoRow
Stored(id)  == db[id] # NoRow

WatchedIds == {id \in Ids : Watched(id)}

\* "writing": the INSERT is with a worker thread; "written", "failed": the
\* thread is done and the coroutine has not resumed yet; "ok", "error": the
\* client has its 201 or 500; "lost": the process ended before the answer.
RegState   == {"none", "writing", "written", "failed", "ok", "error", "lost"}
UnregState == {"none", "pending", "ok", "error", "lost"}
RmState    == {"none", "deleting", "deleted", "failed"}

RegistryTypeOK ==
    /\ up \in BOOLEAN
    /\ watchers \in [Ids -> Row \cup {NoRow}]
    /\ db \in [Ids -> Row \cup {NoRow}]
    /\ reg \in [Ids -> RegState]
    /\ asked \in [Ids -> Row \cup {NoRow}]
    /\ unreg \in [Ids -> UnregState]
    /\ rm \in [Ids -> RmState]
    /\ removed \subseteq Ids
    /\ raced \subseteq Ids

RegistryInit ==
    /\ up = FALSE
    /\ watchers = [id \in Ids |-> NoRow]
    /\ db = [id \in Ids |-> NoRow]
    /\ reg = [id \in Ids |-> "none"]
    /\ asked = [id \in Ids |-> NoRow]
    /\ unreg = [id \in Ids |-> "none"]
    /\ rm = [id \in Ids |-> "none"]
    /\ removed = {}
    /\ raced = {}

-----------------------------------------------------------------------------
(* POST /api/watch *)

\* Slip: the rows of the table are counted.
CountRowsFor(u) == Cardinality({id \in Ids : Stored(id) /\ db[id].user = u})

\* How many webhooks are watched for user u.
CountFor(u) == Cardinality({id \in WatchedIds : watchers[id].user = u})

\* register_webhook up to its only await: both caps are checked and the
\* watcher is entered in one uninterrupted run of the event loop.  A request
\* that finds a cap reached, or a blocked callback URL, changes nothing.
Register(id, u, o) ==
    /\ up /\ reg[id] = "none"
    /\ Cardinality(WatchedIds) < MaxWebhooks
    /\ CountFor(u) < MaxPerUser
    /\ LET row == [user |-> u, owner |-> o]
       IN  /\ watchers' = [watchers EXCEPT ![id] = row]
           /\ asked' = [asked EXCEPT ![id] = row]
    /\ reg' = [reg EXCEPT ![id] = "writing"]
    /\ UNCHANGED <<up, db, unreg, rm, removed, raced>>

\* Slip: the connection is closed without a commit.
Uncommitted(id) == db[id]

\* INSERT OR REPLACE, with the arguments bound when the request ran.
Inserted(id) == asked[id]

\* The statement runs, or fails; then the watcher stays in memory all the same.
Insert(id) ==
    /\ up /\ reg[id] = "writing"
    /\ \/ /\ db' = [db EXCEPT ![id] = Inserted(id)]
          /\ reg' = [reg EXCEPT ![id] = "written"]
       \/ reg' = [reg EXCEPT ![id] = "failed"] /\ UNCHANGED db
    /\ UNCHANGED <<up, watchers, asked, unreg, rm, removed, raced>>

\* Slip: a failed INSERT is awaited for ever.
SuccessOnly == {"written"}

ThreadDone == {"written", "failed"}

\* The coroutine resumes: 201 with the watch_id, or a 500.
RegisterReturn(id) ==
    /\ up /\ reg[id] \in ThreadDone
    /\ reg' = [reg EXCEPT ![id] = IF @ = "written" THEN "ok" ELSE "error"]
    /\ UNCHANGED <<up, watchers, db, asked, unreg, rm, removed, raced>>

-----------------------------------------------------------------------------
(* DELETE /api/watch/{watch_id}, and removal by the poll loop *)

\* Slips: a removal forgets the dict, or the table.
Kept(id)  == watchers[id]
NotIssued == "none"

Popped(id) == NoRow
Issued     == "deleting"

\* The id leaves _watchers, and a DELETE statement goes to a worker thread.
Remove(id) ==
    /\ Watched(id)
    /\ watchers' = [watchers EXCEPT ![id] = Popped(id)]
    /\ rm' = [rm EXCEPT ![id] = Issued]
    /\ removed' = removed \cup {id}
    /\ raced' = IF reg[id] = "writing" THEN raced \cup {id} ELSE raced

\* caller may remove a webhook of its own, or one without an owner; without
\* a key (auth disabled) there is no ownership check.
MayRemove(caller, id) ==
    \/ caller = NoOwner
    \/ watchers[id].owner \in {NoOwner, caller}

\* list_webhooks: what a caller is shown, everything without a key.
Listed(caller) == {id \in WatchedIds : MayRemove(caller, id)}

\* unregister_webhook up to its await.  When the id is unknown or belongs to
\* another key the answer is 404 and nothing changes.
Unregister(id, caller) ==
    /\ up
    /\ Remove(id)
    /\ MayRemove(caller, id)
    /\ unreg' = [unreg EXCEPT ![id] = "pending"]
    /\ UNCHANGED <<up, db, reg, asked>>

\* The poll loop of id pops its watcher and awaits the DELETE.
LoopRemove(id) ==
    /\ up
    /\ Remove(id)
    /\ UNCHANGED <<up, db, reg, asked, unreg>>

\* Slip: again no commit.
DeleteUncommitted(id) == db[id]

Deleted(id) == NoRow

Delete(id) ==
    /\ up /\ rm[id] = "deleting"
    /\ \/ /\ db' = [db EXCEPT ![id] = Deleted(id)]
          /\ rm' = [rm EXCEPT ![id] = "deleted"]
       \/ rm' = [rm EXCEPT ![id] = "failed"] /\ UNCHANGED db
    /\ UNCHANGED <<up, watchers, reg, asked, unreg, removed, raced>>

\* 204, or a 500 when the statement failed.
UnregisterReturn(id) ==
    /\ up /\ unreg[id] = "pending" /\ rm[id] \in {"deleted", "failed"}
    /\ unreg' = [unreg EXCEPT ![id] = IF rm[id] = "deleted" THEN "ok" ELSE "error"]
    /\ UNCHANGED <<up, watchers, db, reg, asked, rm, removed, raced>>

-----------------------------------------------------------------------------
(* Process end and restart *)

\* The process ends, killed or through shutdown_webhooks: memory is gone, a
\* statement that has not committed never will, a request not answered yet
\* never is.  (A graceful stop is the case in which none is pending.)
ProcessEnd ==
    /\ up
    /\ up' = FALSE
    /\ watchers' = [id \in Ids |-> NoRow]
    /\ reg' = [id \in Ids |-> IF reg[id] \in {"writing", "written", "failed"}
                                THEN "lost" ELSE reg[id]]
    /\ unreg' = [id \in Ids |-> IF unreg[id] = "pending"
                                  THEN "lost" ELSE unreg[id]]
    /\ rm' = [id \in Ids |-> IF rm[id] = "deleting" THEN "failed" ELSE rm[id]]
    /\ UNCHANGED <<db, asked, removed, raced>>

\* Slip: a restart drops the key of a row.
RestoredWithoutKey(id) ==
    IF Stored(id) THEN [db[id] EXCEPT !.owner = NoOwner] ELSE NoRow

\* The watcher restore_webhooks makes of the row of id.
Restored(id) == db[id]

\* restore_webhooks: every row is watched again, whatever the caps say; no
\* removal has been asked of these watchers yet.
Start ==
    /\ ~up
    /\ up' = TRUE
    /\ watchers' = [id \in Ids |-> Restored(id)]
    /\ rm' = [id \in Ids |-> IF Stored(id) THEN "none" ELSE rm[id]]
    /\ unreg' = [id \in Ids |-> IF Stored(id) THEN "none" ELSE unreg[id]]
    /\ raced' = {}
    /\ UNCHANGED <<db, reg, asked, removed>>

-----------------------------------------------------------------------------

\* A worker thread finishes, or the event loop resumes a waiting request.
ServerStep(id) ==
    Insert(id) \/ RegisterReturn(id) \/ Delete(id) \/ UnregisterReturn(id)

RegistryNext ==
    \/ \E id \in Ids :
        \/ \E u \in Users, o \in Owners \cup {NoOwner} : Register(id, u, o)
        \/ \E caller \in Owners \cup {NoOwner} : Unregister(id, caller)
        \/ LoopRemove(id)
        \/ ServerStep(id)
    \/ ProcessEnd
    \/ Start

RegistrySpec == RegistryInit /\ [][RegistryNext]_regVars

\* SQLite answers a statement or times out, and asyncio resumes a coroutine
\* whose thread is done.  Nothing is assumed of clients, loops or crashes.
FairRegistrySpec ==
    RegistrySpec /\ \A id \in Ids : WF_regVars(ServerStep(id))
-----------------------------------------------------------------------------
(* Properties *)

\* A watched webhook is stored as it is watched unless its INSERT is still
\* running or has failed: a restart at any moment brings it back, and no
\* DELETE of an earlier removal hits the row of a watched id.
WatchedIsDurable ==
    \A id \in Ids :
        Watched(id) => \/ db[id] = watchers[id]
                       \/ reg[id] \in {"writing", "failed", "error"}

\* A registration answered with 201 is in force, and on the list of its owner,
\* while the process is up, through any number of crashes and restarts, until
\* somebody removes it.
AcknowledgedSurvives ==
    \A id \in Ids :
        up /\ reg[id] = "ok" /\ id \notin removed => id \in Listed(asked[id].owner)

\* Every row is one a client asked for, with the owner it asked for: a
\* restart neither mixes up nor loses the key a webhook is bound to.
OwnerBinding ==
    \A id \in Ids : /\ Watched(id) => watchers[id] = asked[id]
                    /\ Stored(id)  => db[id] = asked[id]

\* Once its DELETE has committed a removed webhook is neither stored nor
\* watched, now or after a restart, provided its INSERT was not still to run
\* when it was removed.
ErasedStaysErased ==
    \A id \in Ids :
        rm[id] = "deleted" /\ id \notin raced => ~Stored(id) /\ ~Watched(id)

\* While the process is up a row nobody watches is on its way out, or a
\* leftover of one of the two known causes: its DELETE failed, or its INSERT
\* ran after it was removed.
OrphansExplained ==
    \A id \in Ids :
        up /\ Stored(id) /\ ~Watched(id) =>
            rm[id] \in {"deleting", "failed"} \/ id \in raced

\* Both caps hold of the webhooks that were never removed: only the return
\* of a removed webhook at a restart can push the registry over a cap.
CapsUnlessResurrected ==
    /\ Cardinality(WatchedIds \ removed) <= MaxWebhooks
    /\ \A u \in Users :
        Cardinality({id \in WatchedIds \ removed : watchers[id].user = u})
            <= MaxPerUser

\* Every request the service accepted is answered unless the process ends.
RequestsAnswered ==
    \A id \in Ids :
        /\ reg[id] = "writing" ~> reg[id] \in {"ok", "error", "lost"}
        /\ unreg[id] = "pending" ~> unreg[id] \in {"ok", "error", "lost"}

(* A claim of a comment in api/webhooks.py that the code does not keep. *)

\* "Cancel the poll task, remove from memory and DB": after a 204 the row is
\* gone.
UnregisterErasesRow ==
    \A id \in Ids : unreg[id] = "ok" => ~Stored(id)
=============================================================================
