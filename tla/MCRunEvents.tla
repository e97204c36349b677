---------------------------- MODULE MCRunEvents -----------------------------
(***************************************************************************)
(* Two runs over the objects of MCApplier, and who receives their events.  *)
(***************************************************************************)
EXTENDS RunEvents, MCApplier

\* A kind with its object, an object whose controller has given up, nothing,
\* and an object that depends on one nobody has.
EventInputs == {<<>>, <<widget, crd>>, <<app>>, <<lonely>>}

EventOptions ==
  {Option(FALSE, TRUE, FALSE), Option(FALSE, TRUE, TRUE), Option(TRUE, TRUE, FALSE)}
=============================================================================
