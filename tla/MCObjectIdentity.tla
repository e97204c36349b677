-------------------------- MODULE MCObjectIdentity --------------------------
(***************************************************************************)
(* Roles and cluster roles with the names a cluster allows and a key may   *)
(* not, objects with and without a namespace, and a custom kind with its   *)
(* definition in the input, on the server, or nowhere.                     *)
(***************************************************************************)
EXTENDS ObjectIdentity

x == <<"x">>
Role == <<"Role">>
ClusterRole == <<"ClusterRole">>
Widget == <<"Widget">>

MCWords == {"x", "y", "g", "v", "Role", "ClusterRole", "Widget", "CustomResourceDefinition",
            "CronJob", "Job", "h1", "h2"}

MCScopeOf == [k \in {Role, ClusterRole, Widget, CrdKind, CronJob, Job} |->
                IF k \in {Role, Widget, CronJob, Job} THEN "namespaced" ELSE "cluster"]

MCBuiltin == {<<Role, "v1">>, <<ClusterRole, "v1">>, <<CrdKind, "v1">>, <<CronJob, "v1">>, <<Job, "v1">>}
MCCustom  == {<<Widget, "v1">>}

NoDefinition == [kind |-> <<>>, versions |-> {}, scope |-> "none"]
WidgetDefinition == [kind |-> Widget, versions |-> {"v1"}, scope |-> "namespaced"]

Manifest(kind, name, namespace, version) ==
  [kind |-> kind, name |-> name, namespace |-> namespace, version |-> version,
   group |-> IF kind = Role THEN <<"g", ".", "x">> ELSE <<>>,
   dependsOn |-> NoText, local |-> FALSE, defines |-> NoDefinition, valid |-> TRUE,
   generates |-> kind = CronJob]

Definition(valid) ==
  [Manifest(CrdKind, x, <<>>, "v1") EXCEPT !.defines = WidgetDefinition, !.valid = valid]

Names == {x, <<"x", "x">>, <<"x", ".">>, <<"x", "_">>, <<"x", ":">>, <<"_", "x">>, <<":", "x">>}
Longer == {<<"x", ":", "x">>, <<"x", "_", "_", "x">>, <<"x", ":", "_">>, <<"x", "_", ":">>,
           <<"x", "@">>, <<"x", "x", "x", "x", "x", "x", "x">>}

NightlyX == Manifest(CronJob, x, <<>>, "v1")
RoleX == Manifest(Role, x, <<>>, "v1")
WidgetX == Manifest(Widget, x, <<>>, "v1")

MCInputs ==
  {<<Manifest(Role, n, <<>>, "v1")>> : n \in Names \cup Longer}
    \cup {<<Manifest(ClusterRole, n, ns, "v1")>> : n \in {x, <<"x", ":">>}, ns \in {<<>>, x, <<"y">>}}
    \cup {<<Manifest(Role, x, ns, "v1"), Manifest(Role, <<"y">>, <<>>, "v1")>> : ns \in {<<"y">>}}
    \cup {<<WidgetX, Definition(v)>> : v \in BOOLEAN}
    \cup {<<NightlyX>>, <<RoleX, NightlyX>>, <<[NightlyX EXCEPT !.valid = FALSE]>>}
    \cup {<<>>, <<WidgetX>>, <<Manifest(Widget, x, <<>>, "v2"), Definition(TRUE)>>,
          <<RoleX, Manifest(ClusterRole, x, <<>>, "v1")>>,
          <<[RoleX EXCEPT !.local = TRUE], Manifest(ClusterRole, x, <<>>, "v1")>>,
          <<[RoleX EXCEPT !.dependsOn = <<>>]>>,
          <<[RoleX EXCEPT !.dependsOn =
               <<"g", "/", "Role", "/", "y", ",", Blank, "/", "namespaces", "/", "x", "/", "Role", "/", "y">>]>>}

MCReaders == {[namespace |-> <<>>, enforce |-> FALSE], [namespace |-> x, enforce |-> FALSE],
              [namespace |-> x, enforce |-> TRUE], [namespace |-> <<"y">>, enforce |-> FALSE]}

Dependency(kind, name, namespace) ==
  [namespace |-> namespace, name |-> name, group |-> <<"g", ".", "x">>, kind |-> kind]

MCWanted ==
  {<<>>, <<Dependency(<<>>, x, <<>>)>>, <<Dependency(Role, <<"x", ",", "y">>, x)>>,
   <<Dependency(ClusterRole, <<"x", ":", "_">>, <<>>)>>,
   <<Dependency(Role, x, x), Dependency(ClusterRole, <<"y">>, <<>>)>>}
=============================================================================
