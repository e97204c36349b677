-------------------------- MODULE SharedInventory ---------------------------
(***************************************************************************)
(* Several processes that run an Applier on one inventory at the same time *)
(* (pkg/client/applier.go, pkg/inventory/manager.go and configmap.go), each*)
(* with a resource getter of its own (pkg/client/cache/object_cache.go).   *)
(* A run reads the inventory once, at its beginning, and replaces it once, *)
(* at its end; nothing tells it that another run did either in between.    *)
(*                                                                         *)
(* The objects are numbered in the order they are applied in, and have no  *)
(* dependencies: the tasks of one run are those of module Applier.         *)
(***************************************************************************)
EXTENDS Naturals, FiniteSets

CONSTANTS
  Runners,   \* the processes
  Ids,       \* the objects
  Inputs,    \* the inputs of their runs
  Guarded    \* what the filter of the caller keeps out once it exists

ASSUME SharedInventoryAssumption ==
  /\ Ids \subseteq Nat /\ IsFiniteSet(Ids)
  /\ Inputs \subseteq SUBSET Ids
  /\ Guarded \subseteq Ids

VARIABLES
  live,      \* the objects in the cluster that jpl wrote
  stored,    \* the keys of the inventory
  \* of each process
  pc,        \* "idle", "get", "apply", "prune" or "save"
  input,     \* the objects of Run
  loaded,    \* what Store.Load returned
  cache,     \* CachedResourceGetter.cache: what is known of an object
  starting,  \* Manager.startingObjects
  todo,      \* what the running task has left
  statuses,  \* Manager.objectStatuses
  \* ghosts
  since,     \* what other runs wrote or saved since this one loaded
  missed,    \* what this run wrote, untracked and without hearing of it, and
             \* what its apply task left when the server answered 415
  calm       \* no runs with different inputs overlapped, none was cut short
             \* and no apply failed

runVars == <<pc, input, loaded, cache, starting, todo, statuses>>
vars == <<live, stored, runVars, since, missed, calm>>

Active == {r \in Runners : pc[r] # "idle"}

\* What r does to the objects in S is news to the other runs.
News(r, S) ==
  since' = [q \in Runners |-> IF q \in Active \ {r} THEN since[q] \cup S ELSE since[q]]

WithStatus(r, S) == {id \in Ids : statuses[r][id] \in S}

-----------------------------------------------------------------------------
(* The beginning of Run: Store.Load, a Get of each key, findObjectsToPrune. *)

\* The inventory is read.
Load(r) ==
  /\ pc[r] = "idle"
  /\ \E I \in Inputs :
       /\ input' = [input EXCEPT ![r] = I]
       /\ calm' = (calm /\ \A q \in Active : input[q] = I)
  /\ loaded' = [loaded EXCEPT ![r] = stored]
  /\ pc' = [pc EXCEPT ![r] = "get"]
  /\ since' = [since EXCEPT ![r] = {}] /\ missed' = [missed EXCEPT ![r] = {}]
  /\ UNCHANGED <<live, stored, cache, starting, todo, statuses>>

\* Mutant: every Get is sent.
AskAgain(r, id) == IF id \in live THEN "found" ELSE "notFound"

\* CachedResourceGetter.Get: the first answer is the answer.
Answer(r, id) ==
  IF cache[r][id] # "unknown" THEN cache[r][id]
  ELSE IF id \in live THEN "found" ELSE "notFound"

Gets(r, id) == cache' = [cache EXCEPT ![r][id] = Answer(r, id)]

LoadObject(r, id) ==
  /\ pc[r] = "get" /\ id \in loaded[r] /\ cache[r][id] = "unknown"
  /\ Gets(r, id)
  /\ UNCHANGED <<live, stored, pc, input, loaded, starting, todo, statuses,
                 since, missed, calm>>

\* Mutant: whatever exists is taken for tracked.
FoundAnywhere(r) == live

Found(r) == {id \in loaded[r] : cache[r][id] = "found"}

Loaded(r) ==
  /\ pc[r] = "get" /\ \A id \in loaded[r] : cache[r][id] # "unknown"
  /\ starting' = [starting EXCEPT ![r] = Found(r)]
  /\ todo' = [todo EXCEPT ![r] = input[r]]
  /\ pc' = [pc EXCEPT ![r] = "apply"]
  /\ UNCHANGED <<live, stored, input, loaded, cache, statuses, since, missed, calm>>

-----------------------------------------------------------------------------
(* The tasks.                                                               *)

\* The next task begins when the one before has nothing left.
TaskEnds(r) ==
  /\ pc[r] \in {"apply", "prune"} /\ todo[r] = {}
  /\ IF pc[r] = "apply"
       THEN /\ pc' = [pc EXCEPT ![r] = "prune"]
            /\ todo' = [todo EXCEPT ![r] = starting[r] \ input[r]]
       ELSE pc' = [pc EXCEPT ![r] = "save"] /\ UNCHANGED todo
  /\ UNCHANGED <<live, stored, input, loaded, cache, starting, statuses,
                 since, missed, calm>>

Report(r, id, status) ==
  /\ todo' = [todo EXCEPT ![r] = @ \ {id}]
  /\ statuses' = [statuses EXCEPT ![r][id] = status]
  /\ UNCHANGED <<stored, pc, input, loaded, starting>>

NextToApply(r, id) == pc[r] = "apply" /\ id \in todo[r] /\ \A x \in todo[r] : id <= x
NextToPrune(r, id) == pc[r] = "prune" /\ id \in todo[r] /\ \A x \in todo[r] : x <= id

\* A filter that keeps existing objects out asks the getter of the run.
FilterKeepsOut(r, id) ==
  /\ NextToApply(r, id) /\ id \in Guarded /\ Answer(r, id) = "found"
  /\ Gets(r, id)
  /\ Report(r, id, "skipped")
  /\ UNCHANGED <<live, since, missed, calm>>

\* It lets the others through; the request is served, or it fails.
FilterPasses(r, id) ==
  IF id \in Guarded THEN Answer(r, id) = "notFound" /\ Gets(r, id)
                    ELSE UNCHANGED cache

Apply(r, id) ==
  /\ NextToApply(r, id) /\ FilterPasses(r, id)
  /\ live' = live \cup {id}
  /\ News(r, {id})
  /\ Report(r, id, "applyOk")
  /\ UNCHANGED <<missed, calm>>

\* Or the Get of the filter fails, if it is sent at all.
FilterErrs(r, id) ==
  id \in Guarded /\ cache[r][id] = "unknown" /\ UNCHANGED cache

\* Nothing is written, or it is and the answer is lost.
ApplyFails(r, id) ==
  /\ NextToApply(r, id)
  /\ \/ /\ FilterPasses(r, id) \/ FilterErrs(r, id)
        /\ UNCHANGED <<live, since, missed>>
     \/ /\ FilterPasses(r, id)
        /\ live' = live \cup {id}
        /\ News(r, {id})
        /\ missed' = [missed EXCEPT ![r] = @ \cup ({id} \ starting[r])]
  /\ calm' = FALSE
  /\ Report(r, id, "applyFailed")

\* The server does not know server-side apply: the task leaves the rest, which
\* keeps no status.
ApplyUnsupported(r, id) ==
  /\ NextToApply(r, id) /\ FilterPasses(r, id)
  /\ todo' = [todo EXCEPT ![r] = {}]
  /\ statuses' = [statuses EXCEPT ![r][id] = "applyFailed"]
  /\ missed' = [missed EXCEPT ![r] = @ \cup (todo[r] \ {id})]
  /\ calm' = FALSE
  /\ UNCHANGED <<live, stored, pc, input, loaded, starting, since>>

Prune(r, id) ==
  /\ NextToPrune(r, id) /\ id \in live
  /\ live' = live \ {id}
  /\ Report(r, id, "deleteOk")
  /\ UNCHANGED <<cache, since, missed, calm>>

\* An object that is gone has no status.
PruneNotFound(r, id) ==
  /\ NextToPrune(r, id) /\ id \notin live
  /\ Report(r, id, "none")
  /\ UNCHANGED <<live, cache, since, missed, calm>>

\* Nothing is deleted, or it is and the answer is lost.
PruneFails(r, id) ==
  /\ NextToPrune(r, id)
  /\ live' \in {live, live \ {id}}
  /\ Report(r, id, "deleteFailed")
  /\ UNCHANGED <<cache, since, missed, calm>>

-----------------------------------------------------------------------------
(* Manager.SaveCurrentInventoryState, and the end of the run.               *)

Forget(r) ==
  /\ pc' = [pc EXCEPT ![r] = "idle"]
  /\ input' = [input EXCEPT ![r] = {}]
  /\ loaded' = [loaded EXCEPT ![r] = {}]
  /\ cache' = [cache EXCEPT ![r] = [id \in Ids |-> "unknown"]]
  /\ starting' = [starting EXCEPT ![r] = {}]
  /\ todo' = [todo EXCEPT ![r] = {}]
  /\ statuses' = [statuses EXCEPT ![r] = [id \in Ids |-> "none"]]

\* Mutant: what a filter kept out is forgotten.
NewInventoryWithoutSkipped(r) ==
  WithStatus(r, {"applyOk", "deleteFailed"})
    \cup (WithStatus(r, {"applyFailed"}) \cap starting[r])

\* Mutant: what could not be deleted is forgotten.
NewInventoryWithoutFailedDeletes(r) ==
  WithStatus(r, {"applyOk"})
    \cup (WithStatus(r, {"applyFailed", "skipped"}) \cap starting[r])

NewInventory(r) ==
  WithStatus(r, {"applyOk", "deleteFailed"})
    \cup (WithStatus(r, {"applyFailed", "skipped"}) \cap starting[r])

\* Store.Save replaces every key: the field manager is the same for all runs.
Save(r) ==
  /\ pc[r] = "save"
  /\ stored' = NewInventory(r)
  /\ News(r, stored' \ stored)
  /\ Forget(r)
  /\ UNCHANGED <<live, missed, calm>>

\* The run dies, is cancelled, or cannot load or save the inventory.
Dies(r) ==
  /\ pc[r] # "idle"
  /\ calm' = FALSE
  /\ Forget(r)
  /\ UNCHANGED <<live, stored, since, missed>>

-----------------------------------------------------------------------------
Init ==
  /\ live = {} /\ stored = {}
  /\ pc = [r \in Runners |-> "idle"]
  /\ input = [r \in Runners |-> {}] /\ loaded = [r \in Runners |-> {}]
  /\ cache = [r \in Runners |-> [id \in Ids |-> "unknown"]]
  /\ starting = [r \in Runners |-> {}] /\ todo = [r \in Runners |-> {}]
  /\ statuses = [r \in Runners |-> [id \in Ids |-> "none"]]
  /\ since = [r \in Runners |-> {}] /\ missed = [r \in Runners |-> {}]
  /\ calm = TRUE

Step(r, id) ==
  \/ LoadObject(r, id) \/ FilterKeepsOut(r, id)
  \/ Apply(r, id) \/ ApplyFails(r, id) \/ ApplyUnsupported(r, id)
  \/ Prune(r, id) \/ PruneNotFound(r, id) \/ PruneFails(r, id)

Next ==
  \E r \in Runners :
    \/ Load(r) \/ Loaded(r) \/ TaskEnds(r) \/ Save(r) \/ Dies(r)
    \/ \E id \in Ids : Step(r, id)

Spec == Init /\ [][Next]_vars

-----------------------------------------------------------------------------
(* Properties.                                                              *)

TypeOK ==
  /\ live \subseteq Ids /\ stored \subseteq Ids
  /\ pc \in [Runners -> {"idle", "get", "apply", "prune", "save"}]
  /\ input \in [Runners -> SUBSET Ids] /\ loaded \in [Runners -> SUBSET Ids]
  /\ cache \in [Runners -> [Ids -> {"unknown", "found", "notFound"}]]
  /\ starting \in [Runners -> SUBSET Ids]
  /\ \A r \in Runners : starting[r] \subseteq loaded[r]
  /\ todo \in [Runners -> SUBSET Ids]
  /\ statuses \in [Runners -> [Ids -> {"none", "applyOk", "applyFailed", "skipped",
                                       "deleteOk", "deleteFailed"}]]
  /\ since \in [Runners -> SUBSET Ids] /\ missed \in [Runners -> SUBSET Ids]
  /\ calm \in BOOLEAN

\* The inventory has no version, and the last save wins (configmap.go:75): what
\* it makes untracked in the cluster is only what another run wrote or saved
\* after the one that saves had read the inventory.  The run itself adds two
\* exceptions: an object that did not exist when it loaded and whose apply went
\* through without an answer (apply.go:165-178, manager.go:126-128), and the
\* objects its task never came to after a 415 (apply.go:112-114).
ForgetsOnlyNews ==
  [][\A r \in Runners : pc[r] = "save" /\ pc'[r] = "idle" /\ stored' # stored =>
       (stored \cap live) \ stored' \subseteq since[r] \cup missed[r]]_vars

\* An object that was tracked when the run began and that a filter kept out
\* because it exists stays tracked, whatever the other runs do to it: load and
\* filter have one answer of the getter (object_cache.go:58-64,
\* manager.go:130-133).
SkippedStaysTracked ==
  [][\A r \in Runners : pc[r] = "save" /\ pc'[r] = "idle" /\ stored' # stored =>
       loaded[r] \cap WithStatus(r, {"skipped"}) \subseteq stored']_vars

\* One deployment started twice loses nothing: if runs that overlap have the
\* same input, every apply went well and every run came to its save, then what
\* is in the cluster is tracked once they are over.  What a filter may keep out
\* is the exception: each run takes it for the object of somebody else.
SameInputTracked ==
  calm /\ Active = {} => live \ stored \subseteq Guarded
=============================================================================
