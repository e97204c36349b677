--------------------------- MODULE MCSortedGroups ---------------------------
(***************************************************************************)
(* A set of manifests with one of each kind of dependency the graph knows, *)
(* a duplicated identity, a cycle and a reference to a missing object.     *)
(***************************************************************************)
EXTENDS SortedGroups, Functions

CONSTANTS namespace, crd, widget, service, serviceCopy, webhook, app, ping, pong
CONSTANTS MaxObjects

Plain(id, kind, ns) ==
  [id |-> id, kind |-> kind, ns |-> ns, definesKind |-> None,
   definesNs |-> None, services |-> {}, dependsOn |-> {}, malformed |-> FALSE]

MCManifests ==
  {namespace, crd, widget, service, serviceCopy, webhook, app, ping, pong}

MCIds == {"ns", "crd", "widget", "service", "webhook", "app", "ping", "pong", "absent"}

MCBody == [m \in MCManifests |->
  CASE m = namespace -> [Plain("ns", "Namespace", None) EXCEPT !.definesNs = "team"]
    [] m = crd -> [Plain("crd", "CRD", None) EXCEPT !.definesKind = "Widget"]
    [] m = widget -> Plain("widget", "Widget", "team")
    [] m = service -> Plain("service", "Service", "team")
    \* The same Service written twice: only the later copy gets edges.
    [] m = serviceCopy -> [Plain("service", "Service", "team")
                             EXCEPT !.dependsOn = {"widget"}]
    [] m = webhook -> [Plain("webhook", "Webhook", None) EXCEPT !.services = {"service"}]
    [] m = app -> [Plain("app", "Pod", "team") EXCEPT !.dependsOn = {"widget", "webhook"}]
    [] m = ping -> [Plain("ping", "Pod", None) EXCEPT !.dependsOn = {"pong"}]
    [] m = pong -> [Plain("pong", "Pod", None) EXCEPT !.dependsOn = {"ping"}]]

\* Every slice of at most MaxObjects distinct manifests, in every order.
MCSlices ==
  UNION {{s \in [1..n -> MCManifests] : IsInjective(s)} : n \in 0..MaxObjects}
=============================================================================
