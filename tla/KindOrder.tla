----------------------------- MODULE KindOrder -----------------------------
(***************************************************************************)
(* The order in which objects are applied within a group and, backwards,   *)
(* pruned: less of pkg/resource/sort.go, on ObjectMetadata.                *)
(***************************************************************************)
EXTENDS Integers, Sequences

CONSTANTS
  Words,  \* the strings groups, kinds, namespaces and names are made of
  Place   \* the place of a string in the order of Go's <

ASSUME PlaceAssumption ==
  /\ Place \in [Words -> Nat]
  /\ \A v, w \in Words : Place[v] = Place[w] => v = w

Metadata == [group : Words, kind : Words, namespace : Words, name : Words]

GroupKind(g, k) == <<g, k>>

core == ""
rbac == "rbac.authorization.k8s.io"
networking == "networking.k8s.io"
gateway == "gateway.networking.k8s.io"
admission == "admissionregistration.k8s.io"

\* "Daemonset" is spelled as in the code: a DaemonSet is not in the table.
orderList ==
  <<GroupKind(core, "Namespace"), GroupKind(core, "ResourceQuota"),
    GroupKind(core, "LimitRange"),
    GroupKind("apiextensions.k8s.io", "CustomResourceDefinition"),
    GroupKind("storage.k8s.io", "StorageClass"), GroupKind(networking, "IngressClass"),
    GroupKind("scheduling.k8s.io", "PriorityClass"), GroupKind(gateway, "GatewayClass"),
    GroupKind(core, "ServiceAccount"), GroupKind(rbac, "Role"),
    GroupKind(rbac, "ClusterRole"), GroupKind(rbac, "RoleBinding"),
    GroupKind(rbac, "ClusterRoleBinding"),
    GroupKind(core, "Secret"), GroupKind(core, "ConfigMap"),
    GroupKind(core, "PersistentVolume"), GroupKind(core, "PersistentVolumeClaim"),
    GroupKind(networking, "NetworkPolicy"),
    GroupKind(core, "ReplicationController"), GroupKind("apps", "StatefulSet"),
    GroupKind("apps", "Deployment"), GroupKind("apps", "Daemonset"),
    GroupKind("batch", "CronJob"), GroupKind("batch", "Job"), GroupKind(core, "Pod"),
    GroupKind(core, "Service"), GroupKind(core, "Endpoints"),
    GroupKind("discovery.k8s.io", "EndpointSlice"),
    GroupKind(networking, "Ingress"), GroupKind(gateway, "Gateway"),
    GroupKind(gateway, "HTTPRoute"), GroupKind(gateway, "ReferenceGrant"),
    GroupKind("policy", "PodDisruptionBudget"),
    GroupKind("autoscaling", "HorizontalPodAutoscaler"),
    GroupKind("autoscaling.k8s.io", "VerticalPodAutoscaler"),
    GroupKind("apiregistration.k8s.io", "APIService"),
    GroupKind(admission, "MutatingWebhookConfiguration"),
    GroupKind(admission, "ValidatingWebhookConfiguration")>>

\* Known kinds have the indexes -Len .. -1, an absent key of a Go map gives 0.
defaultGroupKindSortMap(gk) ==
  IF \E i \in DOMAIN orderList : orderList[i] = gk
  THEN (CHOOSE i \in DOMAIN orderList : orderList[i] = gk) - 1 - Len(orderList)
  ELSE 0

lessGK(i, j) ==
  LET indexI == defaultGroupKindSortMap(GroupKind(i.group, i.kind))
      indexJ == defaultGroupKindSortMap(GroupKind(j.group, j.kind))
  IN  \/ indexI < indexJ
      \/ indexI = indexJ /\ Place[i.group] < Place[j.group]
      \/ indexI = indexJ /\ i.group = j.group /\ Place[i.kind] < Place[j.kind]

less(i, j) ==
  \/ <<i.group, i.kind>> # <<j.group, j.kind>> /\ lessGK(i, j)
  \/ /\ <<i.group, i.kind>> = <<j.group, j.kind>>
     /\ \/ Place[i.namespace] < Place[j.namespace]
        \/ i.namespace = j.namespace /\ Place[i.name] < Place[j.name]
=============================================================================
