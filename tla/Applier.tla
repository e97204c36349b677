------------------------------ MODULE Applier ------------------------------
(***************************************************************************)
(* Applier.Run (pkg/client/applier.go) with the queue it builds, the       *)
(* runner and the four tasks (pkg/runner), the inventory manager and the   *)
(* ConfigMap store (pkg/inventory), against an API server that may fail,   *)
(* lose a reply, or change under the run.  Runs follow one another: the    *)
(* inventory and the cluster are all that survives from one to the next.   *)
(*                                                                         *)
(* The manager keys objectStatuses by pointer, so the model does too: the  *)
(* objects of the input are manifests, and the remote object of identity   *)
(* id that loadObjectsFromInventory fetched is the pointer id itself.      *)
(***************************************************************************)
EXTENDS ResourceGraph, FiniteSets

CONSTANTS
  Inputs,          \* the slices a caller may pass to Run
  Options,         \* the ApplierOptions it may pass
  Rank,            \* the order of resource.less on identities
  NamespaceOf,     \* the Namespace object an object lives in, or None
  CrdOf,           \* the CustomResourceDefinition of its kind, or None
  Sick,            \* objects whose controller reports Failed for ever
  InventoryId,     \* the ConfigMap of the inventory, not one of Ids
  ServerProfiles,  \* sets of identities the server cannot server-side apply
  PreExisting,     \* objects that may be in the cluster before the first run
  MaxRuns,         \* bound: runs of one behaviour
  MaxFaults        \* bound: faults of one behaviour

OptionType == [dryRun : BOOLEAN, wait : BOOLEAN, timeout : BOOLEAN]

ASSUME ApplierAssumption ==
  /\ Inputs \subseteq Seq(Manifests)
  /\ Options \subseteq OptionType
  /\ Rank \in [Ids -> Nat]
  /\ NamespaceOf \in [Ids -> Ids \cup {None}]
  /\ CrdOf \in [Ids -> Ids \cup {None}]
  /\ Sick \subseteq Ids
  /\ PreExisting \subseteq Ids
  /\ ServerProfiles \subseteq SUBSET (Ids \cup {InventoryId})
  /\ Manifests \cap Ids = {}
  /\ None \notin Manifests \cup Ids
  /\ InventoryId \notin Ids
  /\ MaxRuns \in Nat /\ MaxFaults \in Nat

VARIABLES
  \* the API server
  live,        \* identities of the objects in the cluster
  managed,     \* ghost: the live ones whose content jpl has written
  ready,       \* the live ones whose controller reports them Current
  stored,      \* the keys of the inventory ConfigMap
  noSSA,       \* what the server answers 415 UnsupportedMediaType to
  \* the run
  pc,          \* "idle", "load", "select" or the type of the running task
  input,       \* the objects of Run
  opts,        \* the options of Run
  starting,    \* Manager.startingObjects
  statuses,    \* Manager.objectStatuses, by pointer
  queue,       \* the tasks not started yet
  todo,        \* pointers the running apply or prune task has left
  current,     \* the pointer whose request is in flight, or None
  watch,       \* WaitTask.objectsToWatch
  ctxDone,     \* whether the context of the run is done
  outcome,     \* how the last run ended
  \* ghosts and bounds
  reconciled,  \* what the run has seen Current since it last wrote it
  failedSeen,  \* what the running wait was told is Failed
  cut,         \* whether a wait of this run ended before its objects did
  lost,        \* what this run wrote, untracked, without hearing of it
  book,        \* "clean", "dirty" once it wrote objects, "saved" after a save
  intact,      \* no run ended dirty, none lost the reply to a first write
  runs, faults

serverVars == <<live, managed, ready, stored>>
callVars   == <<input, opts, starting>>
taskVars   == <<todo, current, statuses>>
ghostVars  == <<lost, book, intact>>
waitVars   == <<watch, reconciled, failedSeen, cut>>
vars == <<serverVars, noSSA, pc, callVars, taskVars, queue, waitVars, ctxDone,
          outcome, ghostVars, runs, faults>>

Pointers == Manifests \cup Ids
IdOfPtr(p) == IF p \in Manifests THEN IdOf(p) ELSE p
InputIds == {IdOf(m) : m \in Vertices(input)}

Containers(id) == {NamespaceOf[id], CrdOf[id]} \ {None}

\* Only the pointers of the run have a status.
WithStatus(S) == {IdOfPtr(p) : p \in {q \in Pointers : statuses[q] \in S}}

Fault   == faults < MaxFaults /\ faults' = faults + 1
NoFault == UNCHANGED faults

-----------------------------------------------------------------------------
(* The server: external, modelled from the requests the code makes.         *)

\* A server-side apply stores the object; its controller has yet to act.
Write(id) ==
  IF opts.dryRun THEN UNCHANGED <<serverVars, book>>
  ELSE /\ book' = "dirty"
       /\ live' = live \cup {id}
       /\ managed' = managed \cup {id}
       /\ ready' = ready \ {id}
       /\ UNCHANGED stored

\* Deleting a Namespace or a CRD takes the objects it contains with it.  A
\* deletion is final: an object that a finalizer keeps is taken for gone.
Gone(id) == {id} \cup {x \in live : id \in Containers(x)}

Erase(id) ==
  /\ live' = live \ Gone(id)
  /\ managed' = managed \ Gone(id)
  /\ ready' = ready \ Gone(id)
  /\ UNCHANGED stored

Reconcile(id) ==
  /\ id \in live \ (ready \cup Sick)
  /\ ready' = ready \cup {id}
  /\ UNCHANGED <<live, managed, stored, noSSA, pc, callVars, taskVars, queue,
                 waitVars, ctxDone, outcome, ghostVars, runs, faults>>

ExternalDelete(id) ==
  /\ Fault
  /\ id \in live
  /\ Erase(id)
  /\ UNCHANGED <<noSSA, pc, callVars, taskVars, queue, waitVars, ctxDone,
                 outcome, ghostVars, runs>>

-----------------------------------------------------------------------------
(* The context and the end of a run.                                        *)

ContextDone ==
  /\ pc # "idle" /\ ~ctxDone
  /\ ctxDone' = TRUE
  /\ UNCHANGED <<serverVars, noSSA, pc, callVars, taskVars, queue, waitVars,
                 outcome, ghostVars, runs>>

Timeout == opts.timeout /\ NoFault /\ ContextDone
Cancel  == Fault /\ ContextDone

End(result) ==
  /\ pc' = "idle"
  /\ outcome' = result
  /\ intact' = (intact /\ book # "dirty")
  /\ UNCHANGED <<serverVars, noSSA, callVars, taskVars, queue, waitVars,
                 ctxDone, lost, book, runs>>

\* The process dies: everything but the server is lost.
Crash == pc # "idle" /\ Fault /\ End("crashed")

-----------------------------------------------------------------------------
(* Applier.Run up to the runner.                                            *)

Start ==
  /\ pc = "idle" /\ runs < MaxRuns
  /\ input' \in Inputs
  /\ opts' \in Options
  /\ pc' = "load"
  /\ runs' = runs + 1
  /\ starting' = {} /\ queue' = <<>> /\ ctxDone' = FALSE
  /\ todo' = {} /\ current' = None /\ statuses' = [p \in Pointers |-> "none"]
  /\ watch' = {} /\ reconciled' = {} /\ failedSeen' = {} /\ cut' = FALSE
  /\ lost' = {} /\ book' = "clean" /\ outcome' = "running"
  /\ UNCHANGED <<serverVars, noSSA, intact, faults>>

\* Store.Load or a Get of a tracked object fails; so may a generator or a mutator.
LoadFails ==
  /\ pc = "load"
  /\ (ctxDone /\ NoFault) \/ Fault
  /\ End("loadError")

\* The kind of a tracked object is no longer served: RESTMapping fails before
\* the Get, and its error is returned as it is (object_cache.go:66-69).  While
\* the mapper's discovery data is older than the deletion the Get is sent, and
\* answers not found: then Prepare is what happens.
LoadNoMatch ==
  /\ pc = "load" /\ ~ctxDone
  /\ \E id \in stored : CrdOf[id] \notin live \cup {None}
  /\ NoFault
  /\ End("noMatch")

\* Mutant: the input is not taken out of what is pruned.
ToPruneWhateverTheInput == stored \cap live

\* findObjectsToPrune
ToPrune == (stored \cap live) \ InputIds

Task(type, objs) == [type |-> type, objs |-> objs]

Waits == opts.wait /\ ~opts.dryRun

\* Mutant: all the groups are applied, then waited for.
ApplyTasksThenWaits ==
  LET groups == Groups(input)
      n      == Len(groups)
  IN  [i \in 1..(IF Waits THEN 2 * n ELSE n) |->
         IF i <= n THEN Task("apply", groups[i]) ELSE Task("wait", groups[i - n])]

\* An apply task for each group, each with its wait task if the run waits.
ApplyTasks ==
  LET groups == Groups(input)
      n      == Len(groups)
  IN  IF ~Waits THEN [i \in 1..n |-> Task("apply", groups[i])]
      ELSE [i \in 1..(2 * n) |->
              Task(IF i % 2 = 1 THEN "apply" ELSE "wait", groups[(i + 1) \div 2])]

PruneTasks == IF ToPrune = {} THEN <<>> ELSE <<Task("prune", ToPrune)>>

\* QueueBuilder.Build
BuildQueue == ApplyTasks \o PruneTasks \o <<Task("inventory", {})>>

GraphRejected ==
  /\ pc = "load" /\ ~ctxDone /\ NoFault
  /\ GraphError(input) \/ Cyclic(input)
  /\ End("graphError")

Prepare ==
  /\ pc = "load" /\ ~ctxDone /\ NoFault
  /\ ~GraphError(input) /\ ~Cyclic(input)
  /\ starting' = stored \cap live
  /\ queue' = BuildQueue
  /\ pc' = "select"
  /\ UNCHANGED <<serverVars, noSSA, input, opts, taskVars, waitVars, ctxDone,
                 outcome, ghostVars, runs>>

-----------------------------------------------------------------------------
(* taskRunner.RunWithQueue: when the context is done and a task is queued,  *)
(* the select statement picks either.                                       *)

RunnerStops == pc = "select" /\ ctxDone /\ NoFault /\ End("contextError")

RunnerReturns == pc = "select" /\ queue = <<>> /\ NoFault /\ End("ok")

\* Mutant: a wait with nothing to watch starts the poller.
AfterWatchingNothing(watched) == "wait"

\* WaitTask.Run returns at once when it has nothing to watch.
AfterWatching(watched) == IF watched = {} THEN "select" ELSE "wait"

\* RunnerState.SkipWaitCurrentStatus
Watchable(m) == statuses[m] \notin {"applyFailed", "skipped"}

RunnerTakes ==
  /\ pc = "select" /\ queue # <<>> /\ NoFault
  /\ queue' = Tail(queue)
  /\ LET t == Head(queue)
         watched == {IdOfPtr(p) : p \in {x \in t.objs : Watchable(x)}}
     IN IF t.type = "wait"
          THEN /\ watch' = watched
               /\ failedSeen' = {}
               /\ pc' = AfterWatching(watched)
               /\ UNCHANGED todo
          ELSE /\ pc' = t.type
               /\ todo' = t.objs
               /\ UNCHANGED <<watch, failedSeen>>
  /\ UNCHANGED <<serverVars, noSSA, callVars, current, statuses, reconciled,
                 cut, ctxDone, outcome, ghostVars, runs>>

\* An apply or prune task has gone through its objects.
TaskEnds ==
  /\ pc \in {"apply", "prune"} /\ todo = {} /\ NoFault
  /\ pc' = "select"
  /\ UNCHANGED <<serverVars, noSSA, callVars, taskVars, queue, waitVars,
                 ctxDone, outcome, ghostVars, runs>>

\* Mutant: the object at hand is kept after its event.
ReportWithoutReset(p, status) ==
  /\ todo' = todo \ {p}
  /\ current' = current
  /\ statuses' = [statuses EXCEPT ![p] = status]

\* The object at hand gets its terminal event, and a status with it.
Report(p, status) ==
  /\ todo' = todo \ {p}
  /\ current' = None
  /\ statuses' = [statuses EXCEPT ![p] = status]

-----------------------------------------------------------------------------
(* ApplyTask.Run                                                            *)

NextToApply == {p \in todo : \A q \in todo : Rank[IdOfPtr(p)] <= Rank[IdOfPtr(q)]}

\* A filter fails or keeps the object out; the filters are the caller's.
FilterStops(m) ==
  /\ pc = "apply" /\ current = None /\ m \in NextToApply
  /\ \/ Fault /\ Report(m, "applyFailed")
     \/ NoFault /\ Report(m, "skipped")
  /\ UNCHANGED <<serverVars, noSSA, pc, callVars, queue, waitVars, ctxDone,
                 outcome, ghostVars, runs>>

ApplyStarts(m) ==
  /\ pc = "apply" /\ current = None /\ m \in NextToApply /\ NoFault
  /\ current' = m
  /\ UNCHANGED <<serverVars, noSSA, pc, callVars, todo, statuses, queue,
                 waitVars, ctxDone, outcome, ghostVars, runs>>

\* Nothing the server could store: the context is done, or the namespace or
\* the kind of the object is not there.
Unpatchable(id) == ctxDone \/ ~(Containers(id) \subseteq live)

\* A kind may not be served until its CRD is established.
Unserved(id) == CrdOf[id] \notin ready \cup {None}

PatchSucceeds ==
  /\ pc = "apply" /\ current # None /\ NoFault
  /\ LET id == IdOfPtr(current) IN
       /\ ~Unpatchable(id) /\ id \notin noSSA
       /\ Write(id)
       /\ reconciled' = reconciled \ {id}
  /\ Report(current, "applyOk")
  /\ UNCHANGED <<noSSA, pc, callVars, queue, watch, failedSeen, cut, ctxDone,
                 outcome, lost, intact, runs>>

PatchFails ==
  /\ pc = "apply" /\ current # None
  /\ \/ NoFault /\ (Unpatchable(IdOfPtr(current)) \/ Unserved(IdOfPtr(current)))
     \/ Fault
  /\ Report(current, "applyFailed")
  /\ UNCHANGED <<serverVars, noSSA, pc, callVars, queue, waitVars, ctxDone,
                 outcome, ghostVars, runs>>

\* The server stores the object and the reply never arrives.
PatchLost ==
  /\ pc = "apply" /\ current # None /\ Fault
  /\ LET id == IdOfPtr(current) IN
       /\ ~Unpatchable(id) /\ id \notin noSSA /\ ~opts.dryRun
       /\ Write(id)
       /\ reconciled' = reconciled \ {id}
       /\ lost' = lost \cup ({id} \ starting)
       /\ intact' = (intact /\ id \in starting)
  /\ Report(current, "applyFailed")
  /\ UNCHANGED <<noSSA, pc, callVars, queue, watch, failedSeen, cut, ctxDone,
                 outcome, runs>>

\* 415: the task gives up, the objects it had left get no event and no status.
PatchUnsupported ==
  /\ pc = "apply" /\ current # None /\ NoFault
  /\ ~Unpatchable(IdOfPtr(current)) /\ IdOfPtr(current) \in noSSA
  /\ todo' = {} /\ current' = None
  /\ statuses' = [statuses EXCEPT ![current] = "applyFailed"]
  /\ UNCHANGED <<serverVars, noSSA, pc, callVars, queue, waitVars, ctxDone,
                 outcome, ghostVars, runs>>

-----------------------------------------------------------------------------
(* WaitTask.Run over the StatusPoller interface.                            *)

StatusCurrent(id) ==
  /\ pc = "wait" /\ id \in watch \cap ready /\ NoFault
  /\ watch' = watch \ {id}
  /\ reconciled' = reconciled \cup {id}
  /\ pc' = IF watch = {id} THEN "select" ELSE "wait"
  /\ UNCHANGED <<serverVars, noSSA, callVars, taskVars, queue, failedSeen, cut,
                 ctxDone, outcome, ghostVars, runs>>

\* A Failed status is sent on and changes nothing in the task.
StatusFailed(id) ==
  /\ pc = "wait" /\ id \in (watch \cap live \cap Sick) \ failedSeen /\ NoFault
  /\ failedSeen' = failedSeen \cup {id}
  /\ UNCHANGED <<serverVars, noSSA, pc, callVars, taskVars, queue, watch,
                 reconciled, cut, ctxDone, outcome, ghostVars, runs>>

\* Mutant: the poller does not look at the context.
PollerClosesOnlyOnError ==
  /\ pc = "wait"
  /\ Fault
  /\ pc' = "select"
  /\ cut' = TRUE
  /\ UNCHANGED <<serverVars, noSSA, callVars, taskVars, queue, watch, reconciled,
                 failedSeen, ctxDone, outcome, ghostVars, runs>>

\* The poller closes its channel: the context is done or an informer failed.
PollerCloses ==
  /\ pc = "wait"
  /\ (ctxDone /\ NoFault) \/ Fault
  /\ pc' = "select"
  /\ cut' = TRUE
  /\ UNCHANGED <<serverVars, noSSA, callVars, taskVars, queue, watch, reconciled,
                 failedSeen, ctxDone, outcome, ghostVars, runs>>

-----------------------------------------------------------------------------
(* PruneTask.Run: the order is the reverse of the one of apply.             *)

NextToPrune == {p \in todo : \A q \in todo : Rank[q] <= Rank[p]}

PruneStarts(id) ==
  /\ pc = "prune" /\ current = None /\ id \in NextToPrune /\ NoFault
  /\ current' = id
  /\ UNCHANGED <<serverVars, noSSA, pc, callVars, todo, statuses, queue,
                 waitVars, ctxDone, outcome, ghostVars, runs>>

DeleteSucceeds ==
  /\ pc = "prune" /\ current \in live /\ ~ctxDone /\ NoFault
  /\ IF opts.dryRun THEN UNCHANGED serverVars ELSE Erase(current)
  /\ Report(current, "deleteOk")
  /\ UNCHANGED <<noSSA, pc, callVars, queue, waitVars, ctxDone, outcome,
                 ghostVars, runs>>

\* An object that is already gone gets no terminal event.
DeleteNotFound ==
  /\ pc = "prune" /\ current \notin live \cup {None} /\ ~ctxDone /\ NoFault
  /\ todo' = todo \ {current} /\ current' = None
  /\ UNCHANGED <<serverVars, noSSA, pc, callVars, statuses, queue, waitVars,
                 ctxDone, outcome, ghostVars, runs>>

\* The server refuses, the context is done, or the kind is no longer served.
DeleteFails ==
  /\ pc = "prune" /\ current # None
  /\ \/ NoFault /\ (ctxDone \/ CrdOf[current] \notin live \cup {None})
     \/ Fault
  /\ Report(current, "deleteFailed")
  /\ UNCHANGED <<serverVars, noSSA, pc, callVars, queue, waitVars, ctxDone,
                 outcome, ghostVars, runs>>

\* The object is deleted and the reply never arrives.
DeleteLost ==
  /\ pc = "prune" /\ current \in live /\ ~ctxDone /\ ~opts.dryRun /\ Fault
  /\ Erase(current)
  /\ Report(current, "deleteFailed")
  /\ UNCHANGED <<noSSA, pc, callVars, queue, waitVars, ctxDone, outcome,
                 ghostVars, runs>>

-----------------------------------------------------------------------------
(* InventoryTask.Run and Manager.SaveCurrentInventoryState.                 *)

\* Mutant: what a filter kept out is forgotten.
NewInventoryWithoutSkipped ==
  WithStatus({"applyOk", "deleteFailed"})
    \cup (WithStatus({"applyFailed"}) \cap starting)

\* Mutant: what could not be deleted is forgotten.
NewInventoryWithoutFailedDeletes ==
  WithStatus({"applyOk"})
    \cup (WithStatus({"applyFailed", "skipped"}) \cap starting)

\* Mutant: what was deleted is kept.
NewInventoryWithDeleted ==
  WithStatus({"applyOk", "deleteFailed", "deleteOk"})
    \cup (WithStatus({"applyFailed", "skipped"}) \cap starting)

NewInventory ==
  WithStatus({"applyOk", "deleteFailed"})
    \cup (WithStatus({"applyFailed", "skipped"}) \cap starting)

\* The save reaches the server; whether its reply comes back changes nothing.
Save ==
  /\ pc = "inventory" /\ ~ctxDone /\ InventoryId \notin noSSA /\ NoFault
  /\ IF opts.dryRun
       THEN UNCHANGED <<stored, book>>
       ELSE stored' = NewInventory /\ book' = "saved"
  /\ pc' = "select"
  /\ UNCHANGED <<live, managed, ready, noSSA, callVars, taskVars, queue,
                 waitVars, ctxDone, outcome, lost, intact, runs>>

SaveFails ==
  /\ pc = "inventory"
  /\ ((ctxDone \/ InventoryId \in noSSA) /\ NoFault) \/ Fault
  /\ pc' = "select"
  /\ UNCHANGED <<serverVars, noSSA, callVars, taskVars, queue, waitVars,
                 ctxDone, outcome, ghostVars, runs>>

-----------------------------------------------------------------------------
Init ==
  /\ live \in SUBSET PreExisting
  /\ managed = {} /\ ready = live /\ stored = {}
  /\ noSSA \in ServerProfiles
  /\ pc = "idle" /\ input = <<>>
  /\ opts = [dryRun |-> FALSE, wait |-> FALSE, timeout |-> FALSE]
  /\ starting = {} /\ queue = <<>> /\ todo = {} /\ current = None
  /\ statuses = [p \in Pointers |-> "none"]
  /\ watch = {} /\ reconciled = {} /\ failedSeen = {} /\ cut = FALSE
  /\ ctxDone = FALSE /\ outcome = "ok"
  /\ lost = {} /\ book = "clean" /\ intact = TRUE /\ runs = 0 /\ faults = 0

ApplyStep ==
  \/ \E m \in Manifests : FilterStops(m) \/ ApplyStarts(m)
  \/ PatchSucceeds \/ PatchFails \/ PatchLost \/ PatchUnsupported

WaitStep == PollerCloses \/ \E id \in Ids : StatusCurrent(id) \/ StatusFailed(id)

PruneStep ==
  \/ \E id \in Ids : PruneStarts(id)
  \/ DeleteSucceeds \/ DeleteNotFound \/ DeleteFails \/ DeleteLost

\* What the goroutine of Run does once it is started.
RunStep ==
  \/ LoadFails \/ LoadNoMatch \/ GraphRejected \/ Prepare
  \/ RunnerStops \/ RunnerReturns \/ RunnerTakes \/ TaskEnds
  \/ ApplyStep \/ WaitStep \/ PruneStep \/ Save \/ SaveFails

Environment ==
  \/ Start \/ Timeout \/ Cancel \/ Crash
  \/ \E id \in Ids : Reconcile(id) \/ ExternalDelete(id)

Next == RunStep \/ Environment

\* The goroutine is scheduled and every request returns; a timeout fires; a
\* controller that is not sick reconciles its object.
Fairness ==
  /\ WF_vars(RunStep /\ NoFault)
  /\ WF_vars(Timeout)
  /\ \A id \in Ids : WF_vars(Reconcile(id))

Spec == Init /\ [][Next]_vars /\ Fairness

-----------------------------------------------------------------------------
(* Properties.                                                              *)

Statuses == {"none", "applyOk", "applyFailed", "skipped", "deleteOk", "deleteFailed"}
TaskType == [type : {"apply", "wait", "prune", "inventory"}, objs : SUBSET Pointers]

TypeOK ==
  /\ live \subseteq Ids /\ managed \subseteq live /\ ready \subseteq live
  /\ stored \subseteq Ids /\ starting \subseteq Ids
  /\ noSSA \in ServerProfiles
  /\ pc \in {"idle", "load", "select", "apply", "wait", "prune", "inventory"}
  /\ input \in Seq(Manifests) /\ opts \in OptionType
  /\ statuses \in [Pointers -> Statuses]
  /\ queue \in Seq(TaskType)
  /\ todo \subseteq Pointers /\ current \in todo \cup {None}
  /\ watch \subseteq Ids /\ reconciled \subseteq Ids
  /\ failedSeen \subseteq Ids /\ lost \subseteq Ids
  /\ ctxDone \in BOOLEAN /\ cut \in BOOLEAN /\ intact \in BOOLEAN
  /\ outcome \in {"ok", "running", "crashed", "loadError", "noMatch",
                  "graphError", "contextError"}
  /\ book \in {"clean", "dirty", "saved"}
  /\ runs \in 0..MaxRuns /\ faults \in 0..MaxFaults

\* Between two runs every object jpl has written and that still exists is in
\* the inventory, as long as no run was stopped between its writes and its
\* save and no reply to a first write was lost: failed deletions, failed and
\* skipped updates of tracked objects included (manager.go:118-136).
TrackedBetweenRuns == pc = "idle" /\ intact => managed \subseteq stored

\* A save never drops a tracked object that still exists with content of jpl:
\* whatever became of it in this run, it stays tracked until it is deleted.
\* The exception is an object recreated by an apply the run believes failed.
TrackedStaysTracked ==
  [][stored' # stored => stored \cap managed \subseteq stored' \cup lost]_vars

\* The task of the group of m gave up: the server answered 415 to one of them.
GivenUp(m) ==
  \E i \in DOMAIN Groups(input) :
     /\ m \in Groups(input)[i]
     /\ \E p \in Groups(input)[i] : IdOf(p) \in noSSA /\ statuses[p] = "applyFailed"

\* When an object is about to be applied, each of its dependencies has been
\* tried before, unless its task gave up on a 415 (apply.go:110-114), and the
\* ones that were applied have been seen reconciled, unless waiting is off or a
\* wait was cut short (queuebuilder.go:78-95, the wait of wait.go:51-92):
\* "dependencies are not just applied first, but have reconciled before their
\* dependents are applied" for those that could be.
DependenciesSettled ==
  pc = "apply" /\ current # None =>
    \A e \in Edges(input) : e[1] = current =>
      /\ statuses[e[2]] # "none" \/ GivenUp(e[2])
      /\ (opts.wait /\ ~opts.dryRun /\ statuses[e[2]] = "applyOk" /\ ~cut)
           => IdOf(e[2]) \in reconciled

\* After a run in which everything was applied, deleted and saved, the
\* inventory is the input, and nothing else jpl ever wrote is left in the
\* cluster: "automatically deletes objects that were previously applied and
\* then removed from the input set" (README.md:46-47).
CleanRunConverges ==
  pc = "idle" /\ outcome = "ok" /\ book = "saved" /\ intact
  /\ (\A m \in Vertices(input) : statuses[m] = "applyOk")
  /\ WithStatus({"deleteFailed"}) = {}
    => stored = InputIds /\ managed \subseteq InputIds

\* A prune request deletes, with what it contains, an object that was tracked
\* when the run began and that the input has no more (applier.go:216-230).
PruneDeletesAbandoned ==
  [][live' # live /\ pc = "prune" /\ current # current' =>
       /\ current \in starting \ InputIds
       /\ live \ live' = Gone(current)]_vars
=============================================================================
