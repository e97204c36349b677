---------------------------- MODULE StatusCheck ----------------------------
(***************************************************************************)
(* statusCheck of pkg/poller/statuschecker.go: what the poller says of an  *)
(* object from its content alone.  Its steps answer "none" when they leave *)
(* the question to the next one; the messages of a result are left out, so *)
(* that the cases of a switch that differ by their message alone are one.  *)
(*                                                                         *)
(* An object is a record of what the checks read:                          *)
(*   kind         its GroupKind                                            *)
(*   deleting     whether it has a deletion timestamp                      *)
(*   generation   metadata.generation                                      *)
(*   observed     status.observedGeneration, None if it has none           *)
(*   conditions   status.conditions, [type, status, reason] each           *)
(*   malformed    whether status.conditions is something else              *)
(*   custom       what the checker the user registered answers             *)
(*   phase        status.phase; ingress, crashing, young: see their checks *)
(*   replicas, partition, deadline, onDelete   spec, None where nil        *)
(*   count        the counters of the status                               *)
(*   currentRevision, updateRevision           of a StatefulSet's status   *)
(***************************************************************************)
EXTENDS Integers, Sequences, SequencesExt

CONSTANTS
  Registered,  \* the kinds the user registered a checker for
  None

\* What a check may answer; "error" is a Go error instead of a result.
Answers == {"none", "inProgress", "failed", "terminating", "current", "error"}

Condition(type, status, reason) == [type |-> type, status |-> status, reason |-> reason]

Has(o, type, status) ==
  \E i \in DOMAIN o.conditions :
    o.conditions[i].type = type /\ o.conditions[i].status = status

Reason(o, type, reason) ==
  \E i \in DOMAIN o.conditions :
    o.conditions[i].type = type /\ o.conditions[i].reason = reason

\* The first answer that is one.
FirstAnswer(answers) ==
  LET i == SelectInSeq(answers, LAMBDA a : a # "none")
  IN  IF i = 0 THEN "none" ELSE answers[i]

\* A loop over the conditions that returns at the first that decides.
FirstCondition(o, Answer(_)) ==
  FirstAnswer([i \in DOMAIN o.conditions |-> Answer(o.conditions[i])])

checkGenerations(o) ==
  IF o.observed \notin {None, o.generation} THEN "inProgress" ELSE "none"

checkStatusConditions(o) ==
  LET Answer(c) ==
        CASE c.type = "Ready" ->
               (CASE c.status = "True" -> "current"
                  [] c.status \in {"False", "Unknown"} -> "inProgress"
                  [] OTHER -> "none")
          [] c.type = "Reconciling" /\ c.status = "True" -> "inProgress"
          [] c.type = "Stalled" /\ c.status = "True" -> "failed"
          [] OTHER -> "none"
  IN  IF o.malformed THEN "error" ELSE FirstCondition(o, Answer)

-----------------------------------------------------------------------------
(* Kinds of Kubernetes.  Their checks always answer.                        *)

\* The third case of the switch repeats the first with one more condition.
crdStatusCheck(o) ==
  LET Answer(c) ==
        CASE c.type = "NamesAccepted" /\ c.status = "False" -> "failed"
          [] c.type = "Established" /\ c.status = "True" -> "current"
          [] OTHER -> "none"
  IN  FirstAnswer(<<FirstCondition(o, Answer), "inProgress">>)

\* phase is the type of a Service, ingress whether it has an ingress point.
serviceStatusCheck(o) ==
  IF o.phase = "LoadBalancer" /\ ~o.ingress THEN "inProgress" ELSE "current"

pvcStatusCheck(o) == IF o.phase = "Bound" THEN "current" ELSE "inProgress"

jobStatusCheck(o) ==
  LET Answer(c) ==
        CASE c.type = "Failed" /\ c.status = "True" -> "failed"
          [] c.type \in {"Complete", "Suspended"} /\ c.status = "True" -> "current"
          [] OTHER -> "none"
  IN  FirstAnswer(<<FirstCondition(o, Answer), "inProgress">>)

\* young: created within unscheduledWindow; crashing: crashingContainers finds
\* a container that waits in CrashLoopBackOff.
podStatusCheck(o) ==
  LET Pending(c) ==
        IF c.type # "PodScheduled" \/ c.status # "False" THEN "none"
        ELSE IF c.reason = "Unschedulable" /\ o.young THEN "inProgress" ELSE "failed"
  IN  CASE o.phase = "Succeeded" -> "current"
        [] o.phase = "Failed" -> "failed"
        [] o.phase = "Pending" ->
             FirstAnswer(<<FirstCondition(o, Pending), "inProgress">>)
        [] o.phase = "Running" ->
             (CASE Has(o, "Ready", "True") -> "current"
                [] ~Has(o, "Ready", "True") /\ o.crashing -> "failed"
                [] OTHER -> "inProgress")
        [] OTHER -> "inProgress"

-----------------------------------------------------------------------------
(* Workloads: the counters of the status against those of the spec.         *)

Replicas(o) == IF o.replicas = None THEN 1 ELSE o.replicas

replicasStatusResult(o) ==
  IF \/ Replicas(o) > o.count.replicas
     \/ Replicas(o) > o.count.updated
     \/ o.count.replicas > Replicas(o)
     \/ o.count.updated > o.count.available
     \/ Replicas(o) > o.count.ready
  THEN "inProgress" ELSE "none"

\* Mutant: every Deployment must have been seen to progress.
deployWithDeadline(o) ==
  FirstAnswer(<<IF Reason(o, "Progressing", "ProgressDeadlineExceeded") THEN "failed" ELSE "none",
                replicasStatusResult(o),
                IF /\ Reason(o, "Progressing", "NewReplicaSetAvailable")
                   /\ Has(o, "Progressing", "True") /\ Has(o, "Available", "True")
                THEN "current" ELSE "inProgress">>)

\* Without a deadline the controller sets no Progressing condition.
deployStatusCheck(o) ==
  FirstAnswer(<<IF Reason(o, "Progressing", "ProgressDeadlineExceeded") THEN "failed" ELSE "none",
                replicasStatusResult(o),
                IF /\ \/ ~o.deadline
                      \/ /\ Reason(o, "Progressing", "NewReplicaSetAvailable")
                         /\ Has(o, "Progressing", "True")
                   /\ Has(o, "Available", "True")
                THEN "current" ELSE "inProgress">>)

\* Mutant: a status nobody has written yet counts.
daemonSetUnobserved(o) ==
  IF \E n \in {o.count.current, o.count.updated, o.count.available, o.count.ready} :
       o.count.desired > n
  THEN "inProgress" ELSE "current"

daemonSetStatusCheck(o) ==
  IF \/ o.observed = None
     \/ \E n \in {o.count.current, o.count.updated, o.count.available, o.count.ready} :
          o.count.desired > n
  THEN "inProgress" ELSE "current"

\* Mutant: a difference of revisions is no matter.
statefulSetWithoutRevisions(o) ==
  IF o.onDelete THEN "current"
  ELSE IF \/ Replicas(o) > o.count.replicas
          \/ Replicas(o) > o.count.ready
          \/ o.count.replicas > Replicas(o)
          \/ Replicas(o) > o.count.current
          \/ o.partition # None /\ o.count.updated < Replicas(o) - o.partition
       THEN "inProgress" ELSE "current"

statefulSetStatusCheck(o) ==
  IF o.onDelete THEN "current"
  ELSE IF \/ Replicas(o) > o.count.replicas
          \/ Replicas(o) > o.count.ready
          \/ o.count.replicas > Replicas(o)
          \/ Replicas(o) > o.count.current
          \/ /\ o.partition # None
             /\ o.count.updated < Replicas(o) - o.partition
          \/ /\ o.partition = None
             /\ o.currentRevision # o.updateRevision
       THEN "inProgress" ELSE "current"

-----------------------------------------------------------------------------

\* A kind the server validates converts without an error.
checkCoreResources(o) ==
  CASE o.kind = "CustomResourceDefinition" -> crdStatusCheck(o)
    [] o.kind = "Service" -> serviceStatusCheck(o)
    [] o.kind = "PersistentVolumeClaim" -> pvcStatusCheck(o)
    [] o.kind = "Job" -> jobStatusCheck(o)
    [] o.kind = "Pod" -> podStatusCheck(o)
    [] o.kind = "Deployment" -> deployStatusCheck(o)
    [] o.kind = "DaemonSet" -> daemonSetStatusCheck(o)
    [] o.kind = "StatefulSet" -> statefulSetStatusCheck(o)
    [] OTHER -> "none"

\* Mutant: an object without conditions gets no result at all.
statusCheckOfConditions(o) ==
  IF o.deleting THEN "terminating"
  ELSE LET answer == FirstAnswer(<<checkGenerations(o), checkCoreResources(o)>>)
       IN  IF answer # "none" THEN answer
           ELSE IF o.kind \in Registered THEN o.custom
           ELSE checkStatusConditions(o)

\* The registered checker has the last word on its kind, whatever it answers.
statusCheck(o) ==
  IF o.deleting THEN "terminating"
  ELSE LET answer == FirstAnswer(<<checkGenerations(o), checkCoreResources(o)>>)
       IN  IF answer # "none" THEN answer
           ELSE IF o.kind \in Registered THEN o.custom
           ELSE FirstAnswer(<<checkStatusConditions(o), "current">>)
=============================================================================
