-------------------------- MODULE MCStatusPolling --------------------------
(***************************************************************************)
(* Two objects, each of a kind of its own; the second kind may be one the  *)
(* API server does not serve.                                              *)
(***************************************************************************)
EXTENDS StatusPolling

CONSTANTS deployment, widget, deployments, widgets

MCObjects    == {deployment, widget}
MCResources  == {deployments, widgets}
MCResourceOf == [o \in MCObjects |-> IF o = widget THEN widgets ELSE deployments]

AllServed    == {{}}
AllOrNoWidgets == {{}, {widgets}}
=============================================================================
