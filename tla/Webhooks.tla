------------------------------- MODULE Webhooks -------------------------------
(***************************************************************************)
(* The webhook service of api/webhooks.py and of its endpoints in          *)
(* api/main.py: the registry and the poll loops, composed.  Each function  *)
(* that touches both is one action that conjoins a step of WebhookRegistry *)
(* with a step of WebhookLoop; every other step belongs to one of the two  *)
(* and leaves the other alone.                                             *)
(***************************************************************************)
EXTENDS WebhookRegistry, WebhookLoop

vars == <<regVars, loopVars>>

Init == RegistryInit /\ LoopInit

-----------------------------------------------------------------------------

\* register_webhook: the watcher, its task and its history appear together.
RegisterWebhook(id, u, o) == Register(id, u, o) /\ Begin({id})

\* Slip: the task is forgotten.
UnregisterKeepsTask(id, caller) == Unregister(id, caller) /\ UNCHANGED loopVars

\* unregister_webhook: the task is cancelled and the history dropped before
\* the DELETE is awaited.
UnregisterWebhook(id, caller) == Unregister(id, caller) /\ Cancel(id)

\* TikTokUserNotFound in the loop.
UserNotFound(id) == PollNotFound(id) /\ LoopRemove(id)

\* A lost event, after which the loop may remove its own webhook.
EventLost(id) ==
    /\ EventFailed(id)
    /\ IF pc'[id] = "remove" THEN LoopRemove(id) ELSE UNCHANGED regVars

\* Slip: the loop never hears of a DELETE that failed.
Succeeded == {"deleted"}

Settled == {"deleted", "failed"}

\* The loop's own DELETE is through, one way or the other.
LoopReturn(id) == Return(id) /\ rm[id] \in Settled /\ UNCHANGED regVars

\* Slip: a cancelled task takes the request for its webhook with it.
RequestDiesWithTask(id) == Active(id) /\ ServerStep(id) /\ UNCHANGED loopVars

\* What a loop does without the registry, and the registry without a loop.
LoopOnly(id)     == PollingStep(id) /\ UNCHANGED regVars
RegistryOnly(id) == ServerStep(id) /\ UNCHANGED loopVars

\* The process ends, killed or through shutdown_webhooks.
Stop == ProcessEnd /\ Die

\* restore_webhooks: a task and an empty history for every row.
Restore == Start /\ Begin({id \in Ids : Stored(id)})

TaskStep(id) ==
    LoopOnly(id) \/ UserNotFound(id) \/ EventLost(id) \/ LoopReturn(id)

Next ==
    \/ \E id \in Ids :
        \/ \E u \in Users, o \in Owners \cup {NoOwner} : RegisterWebhook(id, u, o)
        \/ \E caller \in Owners \cup {NoOwner} : UnregisterWebhook(id, caller)
        \/ TaskStep(id)
        \/ RegistryOnly(id)
    \/ Stop
    \/ Restore

Spec == Init /\ [][Next]_vars

FairSpec ==
    /\ Spec
    /\ \A id \in Ids : WF_vars(TaskStep(id)) /\ WF_vars(RegistryOnly(id))

-----------------------------------------------------------------------------
(* Properties *)

TypeOK == RegistryTypeOK /\ LoopTypeOK

\* A webhook is watched exactly while its task polls and POSTs: no callback
\* is called once the webhook is removed, none is listed that nobody serves.
TaskIffWatched == \A id \in Ids : Watched(id) <=> Active(id)

\* A watched webhook has a delivery history, and once an unregistration is
\* answered with 204 the history is gone.
HistoryUntilUnregistered ==
    \A id \in Ids :
        /\ Watched(id) => HasHistory(id)
        /\ unreg[id] = "ok" /\ ~Watched(id) => ~HasHistory(id)

\* The service is a registry whose loops remove webhooks now and then, and
\* under FairSpec it answers every request a fair registry answers.
ImplementsRegistry     == RegistrySpec
ImplementsFairRegistry == FairRegistrySpec

\* Every task is a poll loop, begun at most once per process,
\* and under FairSpec it is never stuck: the registry's threads let it end.
ImplementsLoop     == LoopSpec
ImplementsFairLoop == FairLoopSpec
=============================================================================
