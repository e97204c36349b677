----------------------------- MODULE RunEvents ------------------------------
(***************************************************************************)
(* The event channel between Applier.Run and its caller: RunnerState       *)
(* (pkg/client/runner_state.go), handleError (pkg/client/applier.go) and   *)
(* the events (pkg/event/event.go), on top of the steps of module Applier. *)
(* The channel has no buffer: the goroutine of Run does its next step once *)
(* the caller has received the event of the last one.  Status updates that *)
(* are neither Current nor Failed change nothing and are left out.         *)
(***************************************************************************)
EXTENDS Applier

VARIABLES
  event,    \* the event being sent, or NoEvent
  reading,  \* whether the caller still receives
  told,     \* whether it has received an event that is an error
  deaf      \* ghost: whether an informer failed under a wait of this run

eventVars == <<event, reading, told, deaf>>
allVars   == <<vars, eventVars>>

NoEvent == [type |-> "none", status |-> "none"]
Event(type, status) == [type |-> type, status |-> status]

\* Mutant: what a prune could not delete is not an error.
IsErrorEventButPrune(e) == e.type = "error" \/ (e.type # "prune" /\ e.status = "failed")

\* Event.IsErrorEvent: the tasks set an error exactly when the status is Failed.
IsErrorEvent(e) == e.type = "error" \/ e.status = "failed"

-----------------------------------------------------------------------------
(* What each step of the run sends.                                         *)

Silent            == event' = NoEvent
Sends(type, status) == event' = Event(type, status)

\* handleError
StepWithError == (LoadFails \/ LoadNoMatch \/ GraphRejected \/ RunnerStops)
                   /\ Sends("error", "none")

\* An object that was already gone is pruned without another event.
SilentStep == (Prepare \/ RunnerReturns \/ TaskEnds \/ DeleteNotFound) /\ Silent

\* An inventory task begins with an event, the others with their first object.
TakeStep ==
  /\ RunnerTakes
  /\ IF Head(queue).type = "inventory" THEN Sends("inventory", "pending") ELSE Silent

ApplyEvents ==
  \/ \E m \in Manifests :
       \/ ApplyStarts(m) /\ Sends("apply", "pending")
       \/ /\ FilterStops(m)
          /\ Sends("apply", IF statuses'[m] = "skipped" THEN "skipped" ELSE "failed")
  \/ PatchSucceeds /\ Sends("apply", "successful")
  \/ (PatchFails \/ PatchLost \/ PatchUnsupported) /\ Sends("apply", "failed")

PruneEvents ==
  \/ \E id \in Ids : PruneStarts(id) /\ Sends("prune", "pending")
  \/ DeleteSucceeds /\ Sends("prune", "successful")
  \/ (DeleteFails \/ DeleteLost) /\ Sends("prune", "failed")

InventoryEvents ==
  \/ Save /\ Sends("inventory", "successful")
  \/ SaveFails /\ Sends("inventory", "failed")

StatusEvents ==
  \E id \in Ids : \/ StatusCurrent(id) /\ Sends("status", "successful")
                  \/ StatusFailed(id) /\ Sends("status", "failed")

\* The error event of a failed informer names no object that is watched, and
\* the wait drops it (wait.go:75-77).
WaitIsCut ==
  /\ PollerCloses
  /\ deaf' = (deaf \/ faults' # faults)
  /\ Silent

\* The goroutine of Run, once its last event was received.
Runs ==
  /\ event = NoEvent
  /\ \/ /\ \/ StepWithError \/ SilentStep \/ TakeStep \/ ApplyEvents
           \/ PruneEvents \/ InventoryEvents \/ StatusEvents
        /\ UNCHANGED deaf
     \/ WaitIsCut
  /\ UNCHANGED <<reading, told>>

-----------------------------------------------------------------------------
(* The caller.                                                              *)

Receives ==
  /\ reading /\ event # NoEvent
  /\ told' = (told \/ IsErrorEvent(event))
  /\ event' = NoEvent
  /\ UNCHANGED <<vars, reading, deaf>>

\* It leaves its loop before the channel is closed.
Leaves ==
  /\ reading /\ pc # "idle"
  /\ reading' = FALSE
  /\ UNCHANGED <<vars, event, told, deaf>>

Calls ==
  /\ Start /\ event = NoEvent
  /\ reading' = TRUE /\ told' = FALSE /\ deaf' = FALSE
  /\ UNCHANGED event

ProcessDies == Crash /\ Silent /\ UNCHANGED <<reading, told, deaf>>

Around ==
  /\ Timeout \/ Cancel \/ \E id \in Ids : Reconcile(id) \/ ExternalDelete(id)
  /\ UNCHANGED eventVars

-----------------------------------------------------------------------------
EventsInit == Init /\ event = NoEvent /\ reading = TRUE /\ told = FALSE /\ deaf = FALSE

EventsNext == Runs \/ Receives \/ Leaves \/ Calls \/ ProcessDies \/ Around

\* As in Applier; and a caller that has not left receives.
EventsFairness ==
  /\ WF_allVars(Runs /\ NoFault)
  /\ WF_allVars(Receives)
  /\ WF_allVars(Timeout /\ UNCHANGED eventVars)
  /\ \A id \in Ids : WF_allVars(Reconcile(id) /\ UNCHANGED eventVars)

EventsSpec == EventsInit /\ [][EventsNext]_allVars /\ EventsFairness

-----------------------------------------------------------------------------
(* Properties.                                                              *)

Over == pc = "idle" /\ event = NoEvent

\* A caller that saw the channel closed and no error event has it all: every
\* object applied or kept out by a filter, what left the input deleted, the
\* inventory saved, and what was applied seen reconciled if the run waits.  One
\* failure is silent: that of an informer, which ends a wait early.
SilenceMeansDone ==
  Over /\ outcome # "crashed" /\ runs > 0 /\ reading /\ ~told =>
    /\ \A m \in Vertices(input) : statuses[m] \in {"applyOk", "skipped"}
    /\ ~opts.dryRun =>
         /\ (starting \ InputIds) \cap live = {}
         /\ book = "saved"
         /\ stored = WithStatus({"applyOk"}) \cup (WithStatus({"skipped"}) \cap starting)
    /\ Waits /\ ~deaf => WithStatus({"applyOk"}) \subseteq reconciled

\* A run with a timeout ends and closes its channel, whatever the controllers
\* and the server do, for a caller that receives until then.
TimeoutEndsRun == opts.timeout /\ pc # "idle" ~> Over \/ ~reading

\* Without a timeout it still ends, unless it waits for an object that is gone,
\* never came to be, or whose controller has given up.
RunEndsOrWaits ==
  pc # "idle" ~> Over \/ ~reading \/ (pc = "wait" /\ ~(watch \subseteq live \ Sick))
=============================================================================
