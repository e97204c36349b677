-------------------------- MODULE MCReconciliation --------------------------
(***************************************************************************)
(* One object of each kind, and of each variant of its spec that the       *)
(* checks tell apart, in a cluster with room for one pod more than the two *)
(* replicas it asks for.                                                   *)
(***************************************************************************)
EXTENDS Reconciliation

MCSlots == 0 .. 2
MCNodes == {0, 1}
MCScales == {0, 1}
NoneSick == {{}}
SecondMayBeSick == {{}, {2}}

Deployments == {[Created("Deployment") EXCEPT !.replicas = 2, !.deadline = d] : d \in BOOLEAN}
StatefulSets ==
       {[Created("StatefulSet") EXCEPT !.replicas = 2, !.partition = p] : p \in {None, 0, 1, 2}}
  \cup {[Created("StatefulSet") EXCEPT !.replicas = 2, !.onDelete = TRUE],
        Created("StatefulSet")}
Services == {[Created("Service") EXCEPT !.phase = "LoadBalancer"]}
Others == {Created(k) : k \in {"DaemonSet", "CustomResourceDefinition", "PersistentVolumeClaim",
                               "Job", "Pod", "Certificate", "Widget", "Gadget", "Gizmo",
                               "Trinket"}}

MCObjects == Deployments \cup StatefulSets \cup Services \cup Others

\* Of a StatefulSet both its template and its scale may change.
MCMaxChanges == [k \in {o.kind : o \in MCObjects} |-> IF k = "StatefulSet" THEN 2 ELSE 1]

MCRegistered == {"Certificate"}

\* A kind of each sort: both, one, the other, neither.
MCReporting == {"Certificate", "Widget", "Gadget"}
MCResetting == {"Certificate", "Widget", "Gizmo", "Pod"}

\* A StatefulSet that keeps the first of its two pods as it is.
PartitionedStatefulSet ==
  {[Created("StatefulSet") EXCEPT !.replicas = 2, !.partition = 1]}
=============================================================================
