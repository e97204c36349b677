--------------------------- MODULE Reconciliation ---------------------------
(***************************************************************************)
(* An applied object while its controller reconciles it, and what          *)
(* statusCheck says of it meanwhile.  The controller and the cluster are   *)
(* external: the actions here are what the checks of                       *)
(* pkg/poller/statuschecker.go take for granted about them.  The world (the *)
(* pods of a workload, the stage of another kind) moves on by itself; the  *)
(* status of the object is what the controller last wrote of it, so that a *)
(* verdict may be about an older spec or an older world.                   *)
(***************************************************************************)
EXTENDS StatusCheck, FiniteSets

CONSTANTS
  Objects,         \* the objects a behaviour may be about, as they are created
  Reporting,       \* kinds, besides workloads, with a status.observedGeneration
  Resetting,       \* kinds whose controller, when it sees another spec, takes back
                   \* what it said of the former one
  Slots,           \* 0 .. n - 1: places for pods
  Nodes,           \* those a DaemonSet uses, one for each node
  Sicknesses,      \* sets of templates whose pods never become ready
  Scales,          \* the numbers of replicas a change of spec may ask for
  MaxUnavailable,  \* pods a Deployment is Available without
  MaxChanges,      \* bound: changes of spec, for an object of each kind
  MaxFaults        \* bound: pods that are evicted or fail

VARIABLES
  object,   \* as the API server has it; template is that of its pods
  pods,     \* of each slot, None or the revision and the level of a pod
  stage,    \* of a kind without pods: how far its controller has come
  sick,     \* the templates whose pods never become ready
  seen,     \* ghost, of the last write of the status: pods and generation; told,
            \* the stage it tells; reconciled, the last generation seen "done"
  changes, faults

vars == <<object, pods, stage, sick, seen, changes, faults>>

ASSUME ReconciliationAssumption ==
  /\ IsFiniteSet(Slots) /\ Slots = 0 .. Cardinality(Slots) - 1
  /\ Nodes \subseteq Slots
  /\ Sicknesses \subseteq SUBSET Nat /\ Scales \subseteq Nat
  /\ MaxUnavailable \in Nat /\ MaxFaults \in Nat
  /\ \A o \in Objects : MaxChanges[o.kind] \in Nat

Workloads == {"Deployment", "DaemonSet", "StatefulSet"}
CoreKinds == {"CustomResourceDefinition", "Service", "PersistentVolumeClaim", "Job", "Pod"}
Pod == [rev : Nat, level : {"starting", "ready", "available"}]
NoPods == [s \in Slots |-> None]
Counters == {"replicas", "desired", "current", "updated", "available", "ready"}
NoCounts == [c \in Counters |-> 0]

\* An object of a kind as it is created: no status yet.
Created(kind) ==
  [kind |-> kind, deleting |-> FALSE, generation |-> 1, observed |-> None,
   conditions |-> <<>>, malformed |-> FALSE, custom |-> "inProgress",
   phase |-> None, ingress |-> FALSE, crashing |-> FALSE, young |-> TRUE,
   template |-> 1, replicas |-> None, partition |-> None, deadline |-> FALSE,
   onDelete |-> FALSE, count |-> NoCounts,
   currentRevision |-> None, updateRevision |-> None]

ASSUME NoneAssumption == None \notin Nat \cup Pod \cup {"Pending", "Bound", "Running", "Succeeded"}

\* An object comes without a status, whatever its spec; a Service has something
\* to wait for only when it is a load balancer.
ASSUME ObjectsAssumption ==
  \A o \in Objects :
    /\ o.kind \in STRING /\ {o.replicas, o.partition} \subseteq Nat \cup {None}
    /\ {o.deadline, o.onDelete} \subseteq BOOLEAN
    /\ o = [Created(o.kind) EXCEPT !.replicas = o.replicas, !.partition = o.partition,
              !.deadline = o.deadline, !.onDelete = o.onDelete,
              !.phase = IF o.kind = "Service" THEN "LoadBalancer" ELSE None]

-----------------------------------------------------------------------------
(* Kinds without pods.                                                      *)

\* The stages a controller takes an object through.  "stalled" ones may stay
\* as they are or recover; "done" and "failed" are final.
Advances(kind) ==
  CASE kind = "CustomResourceDefinition" ->
         {<<"new", "waiting">>, <<"new", "stalled">>, <<"stalled", "waiting">>,
          <<"waiting", "done">>}
    [] kind = "Job" -> {<<"new", "waiting">>, <<"waiting", "done">>, <<"waiting", "failed">>}
    [] kind = "Pod" ->
         {<<"new", "unscheduled">>, <<"new", "waiting">>, <<"unscheduled", "waiting">>,
          <<"waiting", "done">>, <<"waiting", "stalled">>, <<"waiting", "failed">>,
          <<"stalled", "done">>}
    [] kind \in {"Service", "PersistentVolumeClaim"} ->
         {<<"new", "waiting">>, <<"waiting", "done">>}
    [] OTHER -> {<<"new", "waiting">>, <<"waiting", "done">>, <<"waiting", "stalled">>,
                 <<"stalled", "done">>}

\* Another spec is one more thing to do, unless there is nothing yet, or no more.
AfterChange(kind, s) ==
  IF kind = "Job" \/ s \in {"new", "unscheduled", "failed"} THEN s ELSE "waiting"

\* What the controller writes of a stage in the status.  Conditions that are
\* bad news come first, because the first that decides is taken.
Report(o, s) ==
  LET C(type, status, reason) == Condition(type, status, reason) IN
  CASE o.kind = "CustomResourceDefinition" ->
         [o EXCEPT !.conditions =
            IF s = "new" THEN <<>>
            ELSE <<C("NamesAccepted", IF s = "stalled" THEN "False" ELSE "True", "Names"),
                   C("Established", IF s = "done" THEN "True" ELSE "False", "Installing")>>]
    [] o.kind = "Service" -> [o EXCEPT !.ingress = (s = "done")]
    [] o.kind = "PersistentVolumeClaim" ->
         [o EXCEPT !.phase = IF s = "done" THEN "Bound" ELSE "Pending"]
    [] o.kind = "Job" ->
         [o EXCEPT !.conditions = CASE s = "done" -> <<C("Complete", "True", "Done")>>
                                    [] s = "failed" -> <<C("Failed", "True", "Backoff")>>
                                    [] OTHER -> <<>>]
    [] o.kind = "Pod" ->
         [o EXCEPT
            !.phase = CASE s \in {"new", "unscheduled"} -> "Pending"
                        [] s = "failed" -> "Failed"
                        [] OTHER -> "Running",
            !.crashing = (s = "stalled"),
            !.conditions =
              IF s = "unscheduled" THEN <<C("PodScheduled", "False", "Unschedulable")>>
              ELSE <<C("PodScheduled", "True", "Scheduled"),
                     C("Ready", IF s = "done" THEN "True" ELSE "False", "Containers")>>]
    [] OTHER ->
         [o EXCEPT
            !.custom = CASE s = "done" -> "current"
                         [] s = "stalled" -> "failed"
                         [] OTHER -> "inProgress",
            !.conditions =
              (CASE s = "stalled" -> <<C("Stalled", "True", "Error")>>
                 [] s = "waiting" -> <<C("Reconciling", "True", "Controller")>>
                 [] OTHER -> <<>>)
              \o <<C("Ready", IF s = "done" THEN "True" ELSE "False", "Controller")>>]

Observed(o) == IF o.kind \in Reporting THEN [o EXCEPT !.observed = o.generation] ELSE o

-----------------------------------------------------------------------------
(* Workloads.                                                               *)

Desired(o) == IF o.kind = "DaemonSet" THEN Cardinality(Nodes) ELSE Replicas(o)

Number(ps, P(_)) == Cardinality({s \in Slots : ps[s] # None /\ P(ps[s])})

\* The pods of a StatefulSet below its partition keep their revision.
Kept(o, s) == o.kind = "StatefulSet" /\ o.partition # None /\ s < o.partition

Counts(o, ps) ==
  [replicas  |-> Number(ps, LAMBDA p : TRUE),
   desired   |-> Desired(o),
   current   |-> IF o.kind = "StatefulSet"
                 THEN Number(ps, LAMBDA p : p.rev = o.currentRevision)
                 ELSE Number(ps, LAMBDA p : TRUE),
   updated   |-> Number(ps, LAMBDA p : p.rev = o.template),
   available |-> Number(ps, LAMBDA p : p.level = "available"),
   ready     |-> Number(ps, LAMBDA p : p.level # "starting")]

\* The pods of a StatefulSet from its scale on are to go.
Surplus(o, s) == o.kind = "StatefulSet" /\ s >= Desired(o)

\* The rollout of the template is over: what the spec asks for is there, ready,
\* and nothing else is.
RolledOut(o, ps) ==
  /\ Number(ps, LAMBDA p : TRUE) = Desired(o)
  /\ \A s \in Slots : ps[s] # None =>
       /\ ps[s].level # "starting"
       /\ Kept(o, s) \/ Surplus(o, s) \/ ps[s].rev = o.template

AllNew(o, count) ==
  \A n \in {count.replicas, count.updated, count.available} : n = Desired(o)

Progress(o, count) ==
  LET was == {c.reason : c \in {o.conditions[i] : i \in DOMAIN o.conditions}} IN
  CASE AllNew(o, count) -> "NewReplicaSetAvailable"
    [] ~AllNew(o, count) /\ o.updateRevision = o.template
         /\ "NewReplicaSetAvailable" \in was /\ count.replicas = count.updated
         -> "NewReplicaSetAvailable"
    [] ~AllNew(o, count) /\ o.updateRevision = o.template
         /\ "ProgressDeadlineExceeded" \in was /\ count = o.count
         -> "ProgressDeadlineExceeded"
    [] OTHER -> "ReplicaSetUpdated"

DeploymentConditions(o, count, reason) ==
  <<Condition("Available",
              IF count.available + MaxUnavailable >= Desired(o) THEN "True" ELSE "False",
              "Replicas")>>
  \o (IF ~o.deadline THEN <<>>
      ELSE <<Condition("Progressing",
                       IF reason = "ProgressDeadlineExceeded" THEN "False" ELSE "True",
                       reason)>>)

\* A StatefulSet whose pods are all ready and of the new revision makes that
\* its current one.
Completed(o, ps) ==
  LET count == Counts(o, ps)
      all   == \A n \in {count.replicas, count.updated, count.ready} : n = Replicas(o)
  IN  [o EXCEPT !.currentRevision = IF @ = None \/ all THEN o.template ELSE @]

Rollout(o, ps) ==
  LET base  == IF o.kind = "StatefulSet" THEN Completed(o, ps) ELSE o
      count == Counts(base, ps)
  IN  [base EXCEPT
         !.observed = o.generation, !.count = count, !.updateRevision = o.template,
         !.conditions = IF o.kind # "Deployment" THEN <<>>
                        ELSE DeploymentConditions(o, count, Progress(o, count))]

-----------------------------------------------------------------------------

Init ==
  /\ object \in Objects
  /\ pods = NoPods
  /\ stage = "new"
  /\ sick \in Sicknesses
  /\ seen = [pods |-> NoPods, generation |-> 1, told |-> "new", reconciled |-> 0]
  /\ changes = 0 /\ faults = 0

IsWorkload == object.kind \in Workloads

\* "Is not certain that the condition is set to false at the start of the
\* reconciling cycle" (statuschecker.go:161): the good news of a former spec
\* may stay in the status until there is other news.
Told ==
  IF object.kind \notin Resetting /\ stage = "waiting" /\ seen.told = "done" THEN "done"
  ELSE stage

\* The controller writes the status, at any time and from what there is.
ControllerWrites ==
  /\ ~object.deleting
  /\ object' = IF IsWorkload THEN Rollout(object, pods) ELSE Observed(Report(object, Told))
  /\ seen' = [pods |-> pods, generation |-> object.generation, told |-> Told,
              reconciled |-> IF stage = "done" THEN object.generation ELSE seen.reconciled]
  /\ UNCHANGED <<pods, stage, changes, faults, sick>>

\* progressDeadlineSeconds pass without progress.
DeadlinePasses ==
  /\ ~object.deleting /\ object.kind = "Deployment" /\ object.deadline
  /\ object.observed = object.generation
  /\ object.conditions # <<>>
  /\ object.conditions[2].reason = "ReplicaSetUpdated"
  /\ object' = [object EXCEPT !.conditions =
                  DeploymentConditions(object, object.count, "ProgressDeadlineExceeded")]
  /\ UNCHANGED <<pods, stage, seen, changes, faults, sick>>

Advance ==
  /\ ~object.deleting /\ ~IsWorkload
  /\ \E s \in {e[2] : e \in {f \in Advances(object.kind) : f[1] = stage}} : stage' = s
  /\ UNCHANGED <<object, pods, seen, changes, faults, sick>>

\* A pod that was not scheduled in unscheduledWindow.
Ages ==
  /\ ~object.deleting /\ object.kind = "Pod" /\ object.young
  /\ object' = [object EXCEPT !.young = FALSE]
  /\ UNCHANGED <<pods, stage, seen, changes, faults, sick>>

\* The pod a controller puts in a slot.
NewPod(s) ==
  [rev |-> IF Kept(object, s) THEN object.currentRevision ELSE object.template,
   level |-> "starting"]

\* A pod goes because it is of a former template or one too many.
Unwanted(s) ==
  /\ pods[s] # None
  /\ CASE object.kind = "Deployment" ->
            \/ pods[s].rev # object.template
            \/ Number(pods, LAMBDA p : p.rev = object.template) > Desired(object)
       [] object.kind = "DaemonSet" -> pods[s].rev # object.template
       [] object.kind = "StatefulSet" ->
            \/ s >= Desired(object)
            \/ pods[s].rev # object.template /\ ~Kept(object, s) /\ ~object.onDelete

\* A StatefulSet starts its pods in order, each when the former ones are ready,
\* and stops them in the opposite order.
PodStarts(s) ==
  /\ ~object.deleting /\ IsWorkload
  /\ pods[s] = None
  /\ CASE object.kind = "DaemonSet" -> s \in Nodes
       [] object.kind = "StatefulSet" ->
            /\ s < Desired(object) /\ object.currentRevision # None
            /\ \A t \in 0 .. s - 1 : pods[t] # None /\ pods[t].level # "starting"
       [] object.kind = "Deployment" ->
            Number(pods, LAMBDA p : p.rev = object.template) < Desired(object)
  /\ pods' = [pods EXCEPT ![s] = NewPod(s)]
  /\ UNCHANGED <<object, stage, seen, changes, faults, sick>>

PodStops(s) ==
  /\ ~object.deleting /\ IsWorkload
  /\ Unwanted(s)
  /\ object.kind = "StatefulSet" => \A t \in Slots : t > s => ~Unwanted(t)
  /\ pods' = [pods EXCEPT ![s] = None]
  /\ UNCHANGED <<object, stage, seen, changes, faults, sick>>

PodAdvances(s) ==
  /\ ~object.deleting /\ pods[s] # None
  /\ pods[s].rev \notin sick
  /\ pods[s].level # "available"
  /\ pods' = [pods EXCEPT ![s].level = IF @ = "starting" THEN "ready" ELSE "available"]
  /\ UNCHANGED <<object, stage, seen, changes, faults, sick>>

PodFails(s) ==
  /\ ~object.deleting /\ pods[s] # None
  /\ faults < MaxFaults /\ faults' = faults + 1
  /\ \/ pods' = [pods EXCEPT ![s] = None]
     \/ /\ pods[s].level # "starting"
        /\ pods' = [pods EXCEPT ![s].level = "starting"]
  /\ UNCHANGED <<object, stage, seen, changes, sick>>

\* Somebody applies another spec.
SpecChanges ==
  /\ ~object.deleting
  /\ changes < MaxChanges[object.kind] /\ changes' = changes + 1
  /\ \/ object' = [object EXCEPT !.generation = @ + 1, !.template = @ + 1]
     \/ /\ object.kind \in {"Deployment", "StatefulSet"}
        /\ \E n \in Scales \ {object.replicas} :
             object' = [object EXCEPT !.generation = @ + 1, !.replicas = n]
  /\ stage' = IF IsWorkload THEN stage ELSE AfterChange(object.kind, stage)
  /\ UNCHANGED <<pods, seen, faults, sick>>

\* Its pods go with it; the object stays until its finalizers are done.
Deleted ==
  /\ ~object.deleting
  /\ object' = [object EXCEPT !.deleting = TRUE]
  /\ pods' = NoPods
  /\ seen' = [seen EXCEPT !.pods = NoPods]
  /\ UNCHANGED <<stage, changes, faults, sick>>

Next ==
  \/ ControllerWrites \/ DeadlinePasses \/ Advance \/ Ages
  \/ SpecChanges \/ Deleted
  \/ \E s \in Slots : PodStarts(s) \/ PodStops(s) \/ PodAdvances(s) \/ PodFails(s)

\* Controllers, schedulers and clocks go on; whether a stalled object recovers
\* is not theirs to say.
Fairness ==
  /\ WF_vars(ControllerWrites) /\ WF_vars(DeadlinePasses) /\ WF_vars(Ages)
  /\ WF_vars(Advance /\ stage # "stalled" /\ stage # "unscheduled")
  /\ \A s \in Slots : WF_vars(PodStarts(s)) /\ WF_vars(PodStops(s)) /\ WF_vars(PodAdvances(s))

Spec == Init /\ [][Next]_vars /\ Fairness

-----------------------------------------------------------------------------

TypeOK ==
  /\ object.kind \in STRING /\ object.generation \in Nat \ {0}
  /\ object.observed \in Nat \cup {None}
  /\ object.count \in [Counters -> Nat]
  /\ statusCheck(object) \in Answers \ {"none", "error"}
  /\ pods \in [Slots -> Pod \cup {None}]
  /\ sick \in Sicknesses
  /\ stage \in {"new", "unscheduled", "waiting", "stalled", "failed", "done"}
  /\ changes \in 0 .. MaxChanges[object.kind] /\ faults \in 0 .. MaxFaults

Verdict == statusCheck(object)

\* Nobody has said anything of the object yet.
Presumed == /\ object.kind \notin Workloads \cup CoreKinds \cup Registered
            /\ object.observed = None /\ object.conditions = <<>>

\* A Current object was reconciled when its controller last looked, and with the
\* spec it has now: no counter, condition or phase of a former spec, or of
\* a rollout that is not over, makes statusCheck say Current.  A StatefulSet
\* updated on deletion is declared Current at once (statuschecker.go:521-523),
\* an object of which nothing is known is presumed to be (line 136).  The
\* counters of a StatefulSet know no ordinals: a pod that is to go may stand in
\* for one that is missing (statuschecker.go:534-560).
\* Of other kinds statusCheck knows as much as their controllers tell
\* (lines 158-163).  Current always means that the object was reconciled once;
\* that the controller has seen the present spec, if the kind reports the
\* generation it saw; that what it last saw was reconciled, if it takes back what
\* it said of a former spec.  Only the two together make it the present spec.
CurrentIsReconciled ==
  Verdict = "current" /\ ~object.onDelete /\ ~Presumed =>
    IF IsWorkload THEN RolledOut(object, seen.pods)
    ELSE /\ seen.reconciled > 0
         /\ object.kind \in Reporting => seen.generation = object.generation
         /\ object.kind \in Resetting => seen.reconciled = seen.generation

\* Of a kind that does not report or does not reset, Current may be of a former spec.
Outdated == ~IsWorkload /\ seen.reconciled # object.generation

\* statusCheck takes Current back only for a cause: another spec, a deletion, a
\* pod that failed.  A wait forgets an object at its first Current (wait.go:79),
\* so that one which comes and goes during a rollout would end it too early.
\* That one may, once a StatefulSet is scaled down in the middle of a rollout:
\* when a pod that is to go stands in for one that is missing.  And so may the
\* Current of a former spec, when the controller comes to tell of the new one.
CurrentIsStable ==
  [][  Verdict = "current" /\ Verdict' # "current" /\ ~Presumed /\ ~Outdated /\ faults = 0
       /\ (\A s \in Slots : Surplus(object, s) => seen.pods[s] = None)
     => SpecChanges \/ Deleted]_vars

\* What becomes of the object in the end.
Outcome ==
  CASE object.deleting -> "terminating"
    [] ~object.deleting /\ object.onDelete -> "current"
    [] ~object.deleting /\ ~object.onDelete /\ IsWorkload ->
         (IF \A s \in Slots : s < Desired(object) => NewPod(s).rev \notin sick THEN "current"
          ELSE IF object.kind = "Deployment" /\ object.deadline THEN "failed"
          ELSE "inProgress")
    [] OTHER -> IF stage = "done" THEN "current" ELSE "failed"

\* Some pods of a StatefulSet are to be updated, and some to be kept.
InPart == object.partition # None /\ object.partition \in 1 .. Desired(object) - 1

\* The answer of statusCheck settles on what became of the object, Current for
\* a rollout that is over, and it does not stay in progress or alternate: that is
\* what a wait without a timeout relies on (wait.go:65-88).  Not promised of a
\* StatefulSet whose partition is in its middle: see PartitionSettles.
SettlesOnOutcome == <>[](InPart \/ Verdict = Outcome)

\* The same of a StatefulSet rolled out in part, whose partition keeps the
\* pods with a lower ordinal as they are: "statefulset with partion rolling and
\* correct updated replica is current" (statuschecker_test.go:274-277).
PartitionSettles == <>[](InPart => Verdict = Outcome)
=============================================================================
