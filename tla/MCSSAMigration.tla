--------------------------- MODULE MCSSAMigration ---------------------------
(***************************************************************************)
(* An object with replicas and an image that kubectl, an older release of  *)
(* the tool or an autoscaler wrote first.                                  *)
(***************************************************************************)
EXTENDS SSAMigration

CONSTANTS replicas, image, kubectl, autoscaler

MCFields   == {replicas, image}
MCConfigs  == {{image}, {replicas, image}}
MCUpdaters == {kubectl, Self, autoscaler}

MCWritesOf == [m \in MCUpdaters |->
  CASE m = kubectl    -> {replicas, LastApplied}
    [] m = autoscaler -> {replicas}
    [] m = Self       -> {image}]
=============================================================================
