----------------------------- MODULE MCApplier -----------------------------
(***************************************************************************)
(* A namespace with an app in it, written once or twice, a custom resource *)
(* with its definition, and a manifest that depends on a missing object.   *)
(***************************************************************************)
EXTENDS Applier, KindOrder

CONSTANTS namespace, crd, widget, app, appCopy, lonely
CONSTANTS ns, crdId, widgetId, appId, inventory

Plain(id, kind, team) ==
  [id |-> id, kind |-> kind, ns |-> team, definesKind |-> None,
   definesNs |-> None, services |-> {}, dependsOn |-> {}, malformed |-> FALSE]

MCManifests == {namespace, crd, widget, app, appCopy, lonely}
MCIds == {ns, crdId, widgetId, appId}

MCBody == [m \in MCManifests |->
  CASE m = namespace -> [Plain(ns, "Namespace", None) EXCEPT !.definesNs = "team"]
    [] m = crd -> [Plain(crdId, "CRD", None) EXCEPT !.definesKind = "Widget"]
    [] m = widget -> Plain(widgetId, "Widget", None)
    [] m = app -> Plain(appId, "App", "team")
    [] m = appCopy -> Plain(appId, "App", "team")
    [] m = lonely -> [Plain(appId, "App", "team") EXCEPT !.dependsOn = {widgetId}]]

Meta(g, k, n, name) == [group |-> g, kind |-> k, namespace |-> n, name |-> name]

MCMetadata(i) ==
  CASE i = ns -> Meta("", "Namespace", "", "team")
    [] i = crdId -> Meta("apiextensions.k8s.io", "CustomResourceDefinition", "", "widgets")
    [] i = appId -> Meta("example.com", "App", "team", "app")
    [] i = widgetId -> Meta("example.com", "Widget", "team", "widget")

\* In the order of their bytes.
MCWordList == <<"", "App", "CustomResourceDefinition", "Namespace", "Widget",
                "apiextensions.k8s.io", "app", "example.com", "team", "widget", "widgets">>
MCWords == {MCWordList[n] : n \in DOMAIN MCWordList}
MCPlace == [w \in MCWords |-> CHOOSE n \in DOMAIN MCWordList : MCWordList[n] = w]

MCRank == [i \in MCIds |-> Cardinality({j \in MCIds : less(MCMetadata(j), MCMetadata(i))})]

MCNamespaceOf == [i \in MCIds |-> IF i = appId THEN ns ELSE None]
MCCrdOf       == [i \in MCIds |-> IF i = widgetId THEN crdId ELSE None]

Option(dryRun, wait, timeout) ==
  [dryRun |-> dryRun, wait |-> wait, timeout |-> timeout]

\* The inputs: nothing, a namespace and its app (once or twice), a kind and its
\* object (behind a first group of two), objects without what they
\* need, and a graph that is an error.
MixedInputs ==
  {<<>>, <<app, namespace>>, <<appCopy, app, namespace>>,
   <<widget, crd, namespace>>, <<app, widget>>, <<lonely>>}

AllOptions ==
  {Option(FALSE, TRUE, TRUE), Option(FALSE, FALSE, FALSE), Option(TRUE, TRUE, FALSE)}

\* A server knows server-side apply, or does not.
AllOrNone == {{}, MCIds \cup {inventory}}
=============================================================================
