# jpl: TLA+ models and proofs

Specifications of [jpl](../src/README.md), a Go library that applies a set of
Kubernetes manifests to a cluster in dependency order, waits until they
reconcile, prunes what is no longer in the input, and keeps an inventory of what
it applied. They are written from the Go code, model-checked with TLC and, in
part, proved with TLAPS. `PROJECT.json` maps every definition to the lines it
translates; paths below are relative to `src/pkg`.

    tlc -workers 2 -config MCApplier.cfg MCApplier.tla
    tlapm RunProofs.tla

## 1. The system

A caller builds an `Applier` and calls `Run(ctx, objects, options)`. `Run`
starts one goroutine, which loads the inventory, computes what to prune, orders
the objects in groups, builds a queue of tasks and runs it; progress goes to the
caller on a channel of events. Only the wait starts more goroutines.

    caller -- objects, options --> Applier.Run -- events --> caller
                                     |
        inventory.Store <-- Load/Save +-- DependencyGraph (groups)
        (a ConfigMap)                +-- QueueBuilder: apply, wait, ..., prune, inventory
                                     +-- taskRunner: one task at a time
                                           |            |
                                     API server <-- StatusPoller (informers)

| component | state | operations | hard behaviours | what makes it correct |
|---|---|---|---|---|
| dependency graph (`resource/graph.go`) | maps of vertices and edges, keyed by pointer | `NewDependencyGraph`, `SortedResourceGroups` | duplicated identities; cycles; a second call on maps the first one emptied | each object in one group, after its dependencies and no later than it must; only real cycles reported; the loop ends |
| applier run (`client/applier.go`, `queuebuilder.go`, `runner_state.go`) | objects to prune, queue, manager | `Run`, `findObjectsToPrune`, `Build` | failures at each step, cancellation, crashes, successive runs | what is pruned was tracked and is gone from the input; order of apply and wait; it ends |
| task runner (`runner/runner.go`) | the task queue, the context | `RunWithQueue` | `select` between a done context and a queued task | a run with a timeout ends |
| tasks (`runner/task/*.go`) | the object at hand, the objects to watch | `ApplyTask`, `WaitTask`, `PruneTask`, `InventoryTask` | partial failure, lost replies, 415, an early return of a wait | each object ends with the status the inventory needs |
| inventory (`inventory/manager.go`, `configmap.go`) | starting objects, statuses by pointer, the ConfigMap | `SetStartingObjects`, `Set...`, `SaveCurrentInventoryState`, `Load`, `Save` | the save comes last; runs that die before it | everything jpl wrote and that still exists is tracked between runs |
| status poller (`poller/*.go`) | informers, starters, a channel multiplexer with a counter and a closer | `Start`, `startInformer`, `AddChannel`, `Stop` | a dozen goroutines over unbuffered channels, a lock held over a send, closing a channel others send on | the wait ends when all objects were Current, or when its context is done; no panic, no leak |
| status checks (`poller/statuschecker.go`) | none (pure) | one check for each kind | generation and replica counters at their boundaries | Current exactly when the rollout is over |
| cached getter (`client/cache/object_cache.go`) | a map of fetched objects | `Get` | answers from before the run, next to runs that write | the load and the filters of one run get one answer |
| migration inside an apply (`runner/task/apply.go`) | the object as it was last read, its managed fields, attempts | `applyObject`, `migrateToSSAIfNecessary` | conflicts with other writers, lost replies, an apply in three requests, dry runs | no field is taken from anyone; what was dropped from the manifest goes; it ends, and a later run finishes it |
| event channel (`client/runner_state.go`, `event/event.go`) | an unbuffered channel | `SendEvent`, `IsErrorEvent`, `handleError` | a caller that leaves, failures without an event | no error event means that all is done |
| order of resources (`resource/sort.go`) | none (pure) | `less` | a table of kinds | a strict total order |
| object metadata and annotations (`resource/resourcemetadata.go`, `dependency.go`) | none (pure) | text codecs | separators in names | what is read back is what was written |
| reader (`resourcereader/common.go`, `resource/scope.go`) | none (pure) | `Read`, `setNamespace`, `Scope` | one object written with and without a namespace; a kind and its definition in one input | one object, one identity |
| job generator (`generator/cronjob.go`) | none (pure) | `CanHandleResource`, `Generate` | another random name in each run | the Job of the last run is pruned, the new one is not |
| label mutator, filters | none shared with a run | change or keep out objects | an error stops the run or fails one object | |
| flow control, client factory, builder, test fakes | none | configuration and wiring | | |

### Hazards

The code's hazards, each at its line and with the properties that would catch
it, are listed in `PROJECT.json` under `hazards`; those no property judges have a note
that says why. They shaped the models: the cycles that would keep the graph loop
waiting (`graph.go:60`), the save that comes after all writes (`manager.go:118`), lost replies (`apply.go:165`), the early
exit on 415 (`apply.go:112`), pruning from what was read at the beginning of the
run (`applier.go:96`), the `select` of the runner (`runner.go:38`), waits that
cannot end (`wait.go:67`), and in the poller the check-then-count of `AddChannel`
(`multiplexer.go:71-76`), the send under `informersMapLock`
(`informerMultiplexer.go:98`) and the forwarder blocked in a send
(`multiplexer.go:84`); then the retries of the migration (`apply.go:268`), two
runs on one inventory (`configmap.go:75`), the caller that leaves
(`runner_state.go:47`), and names that do not survive their keys
(`resourcemetadata.go:64`).

## 2. The modules

| module | what it is |
|---|---|
| `KindOrder` | constant operators: the table of kinds and `less`, the order of objects within a group |
| `ResourceGraph` | constant operators: `Edges`, `GraphError`, and the closed form `Groups` of the groups, `Cyclic` |
| `SortedGroups` | the loop of `SortedResourceGroups` as a state machine, for any slice |
| `Applier` | a run from `Run` to its end, and run after run: graph, queue, runner, tasks, inventory, server |
| `RunEvents` | extends `Applier`: the channel of events and its caller |
| `SSAMigration` | one object under `applyObject`, call after call, next to other writers |
| `SharedInventory` | several processes that run on one inventory at the same time |
| `ObjectNames` | constant operators: the keys of the inventory and the dependency annotation, as text |
| `ObjectIdentity` | run after run, from manifests through the reader, the generator and the keys to what is pruned |
| `WaitPromise` | abstract specification of a wait, as the run relies on it |
| `StatusPolling` | one wait, goroutine by goroutine; implements `WaitPromise` |
| `StatusCheck` | constant operators: `statusCheck` and the check of each kind |
| `Reconciliation` | an object under its controller, and what `statusCheck` says of it |
| `MC*` | manifests, orders and bounds for TLC |
| `*Proofs` | theorems and their proofs |

`SortedGroups` and `Applier` extend `ResourceGraph`. `StatusPolling` has an
`INSTANCE` of `WaitPromise`. `Applier` uses the answer of the grouping loop
(`Groups`), and the run `groups` shows that the loop of the code computes it
(`SameAsReference`); its `Rank` comes from `KindOrder!less` in `MCApplier`; it has the wait of `WaitPromise` as four actions:
`RunnerTakes`, `StatusCurrent`, `StatusFailed` and `PollerCloses`.

### ResourceGraph and SortedGroups

A *manifest* stands for an `*unstructured.Unstructured`. Two manifests may have
the same identity: that is an object written twice in the input. The maps of the
code are keyed by pointer, and the lookup tables by identity keep the last
object of the slice, so that `Edges` draws edges only for that one; `LastWith`
says so. `SortedGroups` has an action per exit of the loop body; the removal of
a group is one step because nothing else runs in between. `Groups` is a
recursive *function* and not a `RECURSIVE` operator, so that it can be proved
about.

### Applier

The variables fall in three parts.

* The server: `live` objects, the `ready` ones (their controller reports them
  Current) and the keys `stored` in the inventory. It survives a run.
* The run: `pc` is the place of `Run`'s goroutine (`idle`, `load`, `select` or
  the type of the running task); `queue`, `todo`, `current`, `watch` are the
  task queue, what the running task has left, the object at hand, and
  `WaitTask.objectsToWatch`; `starting` and `statuses` are the fields of
  `inventory.Manager`, the latter by pointer, as in the code.
* Ghosts, which no guard of the code's actions reads: `managed` (what jpl wrote
  and still exists), `reconciled`, `failedSeen`, `cut`, `lost`, `book`, `intact`.

Each step of the code between two requests, and each request with each of its
outcomes, is an action. A request succeeds, fails, or takes effect and loses its
reply (`PatchLost`, `DeleteLost`); a 415 makes the task give up the rest of its
objects (`PatchUnsupported`); the process may die anywhere (`Crash`); others may
delete objects (`ExternalDelete`); the context may be done anywhere (`Timeout`,
`Cancel`). Actions that are faults consume the bound `MaxFaults`; the outcomes
that follow from the state of the server (a missing namespace, an unserved kind,
a done context) are free.

What it abstracts:

* The server is external. A server-side apply creates or updates and makes the
  object not ready; a controller may reconcile it afterwards. Deleting a
  Namespace or a CRD deletes what it contains. A deletion is final: an object
  kept by finalizers counts as gone.
* Generators and mutators appear as an error of the load phase (`LoadFails`);
  filters as a choice for each object (`FilterStops`, `ApplyStarts`).
* Events: `RunEvents`. Runs follow one another here; runs at the same time are
  `SharedInventory`. An apply is one request; the migration inside it is
  `SSAMigration`. Identities are values; how they become text is
  `ObjectIdentity`.
* The deletion of the inventory itself is not modelled: nothing calls it.
* `resource.less` is an order `Rank` on identities; `MCApplier` computes it with
  `KindOrder`. Manifests of one rank, such as
  two with one identity, are taken in any order: `sort.Sort` is not stable.

### RunEvents

Every step of `Applier` with the event it sends (`Sends`) or without one
(`Silent`). The channel has no buffer, so `Runs` waits for `event = NoEvent`:
the goroutine goes on when the caller has received. The caller receives, or
`Leaves`; what it remembers is whether one event was an error (`told`). The
error event that a failed informer sends is dropped by the wait
(`wait.go:75-77`): `WaitIsCut` sends nothing. Status events that are neither
Current nor Failed change nothing in the run and are left out.

### SSAMigration

The object is the set of its fields (`present`) and who owns them (`owners`);
values are abstracted to whether an apply changed them (`changed`). What
`info.Object` holds is `seen`, and its resource version is abstracted to
`fresh`: whether nobody wrote the object since. That is all the server compares
when it accepts the JSON patch or answers with a conflict. One action per
request and per outcome of it, lost replies included. The server's part
(`AfterApply`, `StoreApply`, `Upgraded`) is external, and follows what the code
asks for: a forced apply, and the patch of `csaupgrade`. After a second apply
nobody reads `info.Object` again, as every call begins with a fresh one.

### SharedInventory

Each process has its own `loaded`, `cache`, `starting`, `todo` and `statuses`;
they share the cluster (`live`) and the ConfigMap (`stored`). `Load`, each `Get`,
each request and `Save` are steps, and so is every interleaving of them. The
tasks are reduced to what the inventory sees of them: objects without
dependencies, applied in ascending and pruned in descending order, but without
waits, which write nothing. A request fails, or it takes effect and its reply is
lost (`ApplyFails`, `PruneFails`); a 415 makes the task give up the rest of its
objects (`ApplyUnsupported`). A filter that keeps existing objects out (`Guarded`)
asks the same getter as the load. The ghost `since` is what other runs wrote or
saved since a run has loaded, `missed` what the run itself cannot know to be its
own: an untracked object it wrote without hearing of it, and what a task left
after a 415.

### ObjectNames and ObjectIdentity

Text is a sequence of symbols: the marks the conversions look at (`_`, `:`, `/`,
`,`, `.`, `-`, the space), `@` for any mark that is not allowed anywhere, and
words, which stand for letters and digits that no conversion takes apart.
`ColonsRestored` is `strings.ReplaceAll` from the left on runs of underscores;
`Matches` and `Fields` are the regular expression of the keys, in which only the
name may have underscores, so that it can be matched in one way only.

`ObjectIdentity` runs the program on them: a reader (any of its configurations,
with or without a namespace to set or to enforce) reads an input; the caller may
set dependencies (`SetDependencies`); `Start` loads the inventory and generates
Jobs; `Save` writes the keys of a run whose other requests succeed. A key is
looked up at the path its namespace gives: for a path that does not fit the
scope of the kind there is nothing, at the others there is an object, the one
that was saved or somebody else's. Kinds are served from the beginning
(`Builtin`) or once their definition is installed, and are not taken away again:
`Applier` has the run whose kinds are not served. Namespaces, groups and kinds are
what a cluster admits (`NamesAssumption`); a name may have any mark, but the `/`
in the name of a dependency, since an object's name is a segment of a path. A
cluster would refuse more names; jpl does not look. `JobFrom` leaves out that a
generated name is cut to its length (`cronjob.go:97`): short of names Kubernetes
does not admit for a CronJob, that takes away digits of the random suffix only.

### StatusPolling and WaitPromise

One variable for the place of each goroutine: the starter, event handler,
reflector and forwarder of every resource (a kind and a namespace), the closer,
the wait. All of them look at one context, `done`. A send on an unbuffered
channel and the receive it meets are one step. `AddChannel`'s check of the
context and its count of the channel are two steps, as in the code. `told` is
the status a handler was last called with: an informer may skip intermediate
statuses, since it reads the current one; a handler call always follows from a
difference. What is left out: a second `Run` of one multiplexer, `informer.Stop`
(nothing calls it), periodic resyncs, and retries of the reflector that the
handlers do not see.

`WaitPromise` says what the run gets from all that: the wait ends once every
object has been Current at some time, or when its context is done; never for
another reason; and it does end. `KeepsPromise` is the refinement, with the
mapping `current <- {o : status[o] = "current"}` and `phase <- Phase`. Its phase
`panicked` is there because the code can panic (section 6): the abstract
specification allows it once the context is done, not before.

### StatusCheck and Reconciliation

`StatusCheck` has one operator for each check of `statuschecker.go`. An object is
a record of what the checks read, and the cases of a switch that differ by their
message are one disjunction. A loop over the conditions that returns at the first
that decides is `FirstCondition`: the order of the conditions counts, as in the
code. `Reconciliation` puts an object under its controller. The controllers are
external: pods start, become ready and available, fail, and are replaced as the
strategy of a Deployment, a DaemonSet or a StatefulSet has it (a StatefulSet in
the order of its ordinals, above its partition only); the other kinds go through
stages. `ControllerWrites` copies what there is into the status at any time, so
that a status is mostly out of date, and `SpecChanges` makes it one of a former
spec, for objects of every kind (for a Job that is a change of what may be
changed of it: its controller has nothing new to do). The ghost `seen` is what
the controller saw when it last wrote, and which generation it last saw done.
What a controller of another kind than the workloads tells of a changed spec is
up to its kind, and two constants say what it promises: the kinds `Reporting`
have a `status.observedGeneration`, those `Resetting` take back the good news of
a former spec when they see another one; the controllers of the others may leave
it there (`Told`), which `statuschecker.go:158-163` counts with. Kinds outside
the table report by a `Ready` condition, and are taken to list bad news (Stalled,
Reconciling) before it; the check of a registered kind is taken not to fail, and
conditions to be a list. `Objects` is any
set of objects as they are created, without a status (`ObjectsAssumption`); a
Service among them is a load balancer, since no other waits for anything. Not
modelled:
`minReadySeconds` as a time, surge limits, a StatefulSet with parallel pod
management, and conversion errors of kinds the server validates.

## 3. The runs

| run | question | bounds and why they are enough |
|---|---|---|
| `groups` | do the groups partition the input, in order, minimally; are cycles real; does the loop end; is it `Groups` | every slice of at most 4 of 9 manifests in every order: each kind of edge, a duplicate, a cycle of two, a reference to a missing object. A chain needs 3 objects, a duplicate one more |
| `applier` | what the inventory tracks, what is pruned, in which order objects are applied | 2 runs, 2 faults, 6 inputs, 3 options, a kind whose controller never succeeds: to lose track takes a run that writes and a run that forgets; 2 faults combine a failed request with another one, a crash, a cancellation or an outside deletion |
| `events` | what a caller may conclude from the events; does a run end | 2 runs, 1 fault, 4 inputs, 3 options, a controller that never succeeds, a caller that may leave at any time; the second run meets what the first one left |
| `polling` | does a wait keep its promise; what can panic | 2 objects of 2 kinds, one of which may not be served, 1 change of status, a context that ends at any time, Forbidden watches: 2 informers are what the shared lock, counter and closer need to interfere |
| `reconciliation` | is Current said only of what is reconciled, does it stay, does the verdict settle | an object of each kind and variant, 2 replicas and a third slot, so that pods of two templates overlap; of the kinds outside the table one of each sort: reporting and resetting, only one of the two, neither; 1 change of spec of every kind (another template, which may be sick, or another scale, 0 included), 2 of a StatefulSet, so that it is scaled in the middle of a rollout; 1 failure of a pod |
| `migration` | what a migration does to the fields of each manager; does a call end; is it finished in the end | 2 fields and the annotation, 3 other managers (kubectl, an autoscaler, an older release of the tool), 2 manifests, the 5 attempts of the code, any number of calls; others write and requests fail until `quiet` |
| `shared_inventory` | what a save forgets when runs overlap | 2 processes, started again and again, 2 objects, one of them guarded by a filter, 3 inputs, any number of failures, lost replies and 415s; the processes are symmetric, and no property tells them apart |
| `identity` | does a run prune what was removed and spare what it applies; are dependencies read as they were set | inputs of at most 2 manifests, whose names have each mark at each end, doubled and mixed; 4 readers, a kind defined in the input, on the server or nowhere, 2 random suffixes, keys of at most 12 symbols, so that one of the names is too long |
| `polling_leak`, `partition`, `migration_exhausted`, `migration_dry_run` | does the code do what its comments and tests say | section 6; the instances of `polling`, `reconciliation` and `migration` |

`CHECK_DEADLOCK FALSE` is set where the system may stop: a run is over, a loop
has returned, or the bounds on runs, faults and changes are used up. `migration`,
`shared_inventory` and `identity` have no such bound and check deadlock.

The properties, beside a type invariant for each module:

* `EachObjectOnce`, `DependenciesInEarlierGroups`, `NoNeedlessWait`,
  `ReportedCycleIsReal`, `SameAsReference`, `SortingEnds`: the grouping loop.
* `TrackedBetweenRuns`: between runs everything jpl wrote and that still exists
  is in the inventory, unless a run stopped between its writes and its save or
  lost the reply to a first write. These two exceptions are what the code
  really does: with either one, an object stays in the cluster that no later run
  prunes (the inventory is saved last, `queuebuilder.go:102-104`).
* `TrackedStaysTracked`: a save never drops a tracked object that still exists,
  even when apply, filter or delete failed for it.
* `DependenciesSettled`: when an object is applied its dependencies have been
  tried, or their task gave them up after a 415, and those applied have been seen
  reconciled, unless a wait was cut.
* `CleanRunConverges`: after a run without failures the inventory is the input,
  and nothing else jpl wrote is left.
* `PruneDeletesAbandoned`: a prune deletes only what was tracked at the
  beginning and is not in the input, with what that contains.
* `SilenceMeansDone`: a caller that saw the channel closed and no error event
  has everything: each object applied or kept out by a filter, what left the
  input deleted, the inventory saved, and what was applied seen reconciled. The
  one exception is what the code does: a failed informer ends a wait and is not
  reported (`deaf`).
* `TimeoutEndsRun`, `RunEndsOrWaits`: a run with a timeout ends; one without can
  only be held up by a wait for an object that is gone, never came to be, or
  whose controller has given up. Both have the caller as their exception: one
  that left holds up the run for ever, context done or not, because `SendEvent`
  looks at no context (`runner_state.go:40-63`).
* `MigrationTakesNothing`: an attempt of the migration takes nothing from a
  manager it does not migrate and leaves no field of the others to nobody: what
  is written between its requests is never overwritten.
* `ManifestStands`: a call that ends well, without a warning, leaves the fields
  of the manifest in place, and of the fields only migrated managers owned no
  others. Its exceptions: a call that gave up (section 6), and an object whose
  managed fields a dry run has rewritten.
* `CallEnds`, `WarningIsRetried`: a call ends under any number of writes by
  others, and once they stop, calls that are repeated finish the migration.
* `ForgetsOnlyNews`: what a save makes untracked, another run wrote or saved
  while this one was under way. What the code adds to that are its two exceptions
  (`missed`): an object the run was the first to write and lost the reply of,
  which another run has put in the inventory since, and the objects it did not
  come to after a 415. `SkippedStaysTracked`: a tracked object that a
  filter kept out stays tracked, whatever other runs do to it meanwhile.
  `SameInputTracked`: overlapping runs with one input lose nothing but what a
  filter guards: there each run takes the object for somebody else's.
* `PruneSparesInput`: no object of the input is among those to prune under
  another spelling, with and without a namespace.
* `PrunesWhatWasRemoved`: what the last run saved and this input lacks is what
  is pruned, when the names survive their keys.
* `DependencyNamesObject`: the graph sees the dependencies that were set last.
* `EventsNeverPanic`: only the report that a kind is not served can meet the
  closed channel. `KeepsPromise`: section 2.
* `CurrentIsReconciled`: no counter, condition or revision of a former spec, or
  of a rollout that is under way, makes `statusCheck` say Current. The property
  names the cases in which the code says so without knowing: a StatefulSet
  updated on deletion, an object nobody has reported on yet (`Presumed`), and a
  StatefulSet that is scaled down, whose counters do not tell a pod that is to
  to go from one that is missing (`Surplus`, section 6). For workloads Current
  means the present spec. For the other kinds it says what their controllers let
  `statusCheck` know: the object was reconciled once; its controller has seen the
  present spec, if the kind is `Reporting`; what it last saw was reconciled, if it
  is `Resetting`. Of a kind that is not both, Current may be of a former spec.
* `CurrentIsStable`: Current is taken back only for a cause, the same
  StatefulSets excepted, and the Current of a former spec (`Outdated`); a wait
  forgets an object at its first Current.
* `SettlesOnOutcome`: the verdict ends on what became of the object; but for a
  partition in the middle of a StatefulSet (section 6).

For each of them `PROJECT.json` names a mutant of the model, a plausible bug of
the code, that TLC finds with the same configuration.

## 4. Fairness

* `SortedGroups`: weak fairness of `Next`: sequential code runs until it returns.
* `Applier`: weak fairness of `RunStep /\ NoFault`, since the goroutine is
  scheduled and every request returns (the code hands its context to each of them
  and leaves deadlines to client-go); of `Timeout`, since a `context.WithTimeout` fires;
  of `Reconcile(id)`, since a controller that is not `Sick` reconciles its
  object. Faults, cancellations and starts are never forced. No strong fairness
  is assumed: the runner may choose the task over the done context each time,
  and still ends because the queue is finite.
* `RunEvents`: the same for `Runs /\ NoFault`, and weak fairness of `Receives`: a
  caller that has not left reads on.
* `SSAMigration`: weak fairness of `CallStep` (each request is answered) and
  strong fairness of `Call(FALSE)`: between calls and dry runs the object is
  applied for good again, which is what the warning of the code counts on ("will
  be retried next time you apply"). Only `WarningIsRetried` needs it.
* `SharedInventory`, `ObjectIdentity`: none; their properties are of safety.
* `StatusPolling`: weak fairness for each goroutine of its own steps, as long as
  the process has not panicked. Changes in the cluster, Forbidden watches and
  the end of the context are not forced.
* `Reconciliation`: weak fairness of the controller, of each pod and of the clocks.
  Whether a stalled object recovers, whether a spec changes or a pod fails, is
  not forced.
* `WaitPromise`: weak fairness of `Cut` and of `SeeCurrent(o)`, both derived from
  the fairness of the goroutines by the refinement.

## 5. What is proved

All proofs hold for every value of the constants that satisfies the modules'
named assumptions (`BodyAssumption`, `SlicesAssumption`, `ApplierAssumption`,
`PollingAssumption`, `PlaceAssumption`, `SSAMigrationAssumption`,
`SharedInventoryAssumption`, `ObjectIdentityAssumption`, `NamesAssumption`,
`ReconciliationAssumption`, `NoneAssumption`, `ObjectsAssumption`).
These say what type each constant has; `ApplierAssumption` also says that a
manifest, an identity, `None` and the inventory's own identity are different
things, `ObjectIdentityAssumption` which scopes the kinds have, `NamesAssumption`
what a cluster admits in a namespace, a group or a kind, and `ObjectsAssumption`
what objects look like when they are created. `tlapm` checks every leaf.

* **`GroupsPartition`** (`ResourceGraphProofs`): the groups the applier uses are
  subsets of the slice, pairwise disjoint, and cover the slice unless the graph
  is cyclic. The argument: the function in `Peeled` exists (`PeelExists`; its
  graph is built from finite prefixes, with `LeastElement` in place of
  induction), it grows (`PeeledGrows`), so its differences are disjoint.
* **`NothingLost`, `OrderRespected`, `GroupsMinimal`, `CyclesReal`**,
  **`LoopComputesGroups`** and `TypeCorrect` (`SortedGroupsProofs`): all the
  safety properties of the run `groups` for every slice and every graph. None is
  inductive by itself: the invariant `IInv` adds that the local map holds, for
  each vertex left, exactly its dependencies that are left, that what is emitted
  and what is left partition the slice, and that a vertex that has become free
  depends on one of the last group. `EmitStep` is the step that needs it.
  `PeelInv` says that what is left after n groups is level n of `Peeled`; with
  `LessTotal`, which leaves no choice to the sort, it gives `SameAsReference`, so
  that what is proved of `Groups` holds of the loop, and the model of the applier
  may use the one for the other.
* **`LessTransitive`**, **`LessTotal`** (`SortedGroupsProofs`): `less` is a strict
  total order for every set of strings, so that a sort has one result but for
  objects with equal metadata.
* **`TypeCorrect`** (`RunProofs`): the types of `Applier`, with
  `managed \subseteq live` and `ready \subseteq live` (a cascade of deletions
  never leaves a ghost behind) and `current \in todo \cup {None}`. `TypeInv` adds
  to `TypeOK` that a task list is empty unless an apply or a prune task runs, and
  that the inventory task is the last of the queue. `BuildQueueFacts` shows that
  every queue the builder makes is of that form and holds every object of the
  input and every object to prune in exactly one task; it rests on
  `GroupsPartition`.
* **`InventoryComplete`**, **`SaveForgetsNothing`** and **`PruneIsBounded`**
  (`RunProofs`): `TrackedBetweenRuns`, `TrackedStaysTracked` and
  `PruneDeletesAbandoned` for every value of the constants. The first is far from
  inductive, since it says nothing of a state within a run. `TrackInv` adds, for
  such states, that whatever jpl wrote and was tracked is *remembered*: its status
  already puts it in the inventory that will be saved, or it is tracked and its
  turn is yet to come (`KeepInv`). That this survives each object's turn needs
  that an object has no status before its turn and belongs to one task only
  (`FreshInv`, `TasksInv`); `BookInv` says what the ghosts record. When the
  inventory task runs nothing is pending, so that the save is complete
  (`SaveKeeps`). The first two assume `UniformServers`: a server knows
  server-side apply for every kind, or not even for the inventory. Without it
  they do not hold: section 6.
* **`DependenciesFirst`** (`RunProofs`): `DependenciesSettled`. The invariant
  `OrderInv` relates the queue to the groups: an object that is still to be
  applied has its dependencies in an earlier task of the queue, or they have been
  handled, and between an apply task and the next one there is its wait
  (`WaitFollows` in `PlanInv`). It assumes `CopiesAgree`: two manifests of one
  identity define the same kind or namespace and call the same services. Of two
  copies of a CRD that define different kinds, the first one may be applied and
  seen reconciled, and the second one applied next to the objects of the kind
  that the first one defines.
* **`CleanRunLeavesInput`** (`RunProofs`): `CleanRunConverges`, under
  `UniformServers`. `PlanInv` says that every object of the input is in the queue
  or has its status, and that the save comes last; with `TrackInv`, a run in
  which nothing failed saves exactly its input.
* **`SilenceIsSuccess`** (`RunProofs`): `SilenceMeansDone`, of the program with its
  caller (`RunEvents`). `CleanInv` says what no error event so far means: every
  object handled has a status that is no failure, nothing was given up, what is
  waited for is still to be seen (`Clean`), and a context that was done early has
  been told or will be (`CutInv`). It needs no assumption on the servers: a 415
  is an error event.
* **`PollingTypeCorrect`**, **`OnlyReportsPanic`** and **`WaitKeepsItsPromise`**
  (`StatusPollingProofs`): the types of `StatusPolling`, `EventsNeverPanic`, and
  the safety part of the refinement `KeepsPromise`: the initial states and every
  step of the goroutines map to those of `WaitPromise`, for any number of objects,
  kinds and changes. The invariant says where the goroutines of one resource may
  be together (`GoroutineInv`), that no informer sends once the closer has counted
  (`ClosingInv`), and that an event says *successful* only of an object that was
  Current (`WatchInv`).

* **`MigrationTypeCorrect`**, **`MigrationIsSafe`**, **`ManifestIsApplied`**
  (`SSAMigrationProofs`): `TypeOK`, `MigrationTakesNothing` and `ManifestStands`
  for any fields, managers, manifests and number of attempts. The invariant
  `SeenIsTrue` says when `info.Object` is what the server has: whenever its
  version is, outside of dry runs. The reply of an apply, a migration and a `Get`
  establish it, and every other write makes the version old. So an accepted patch
  was computed from the present owners, and `UpgradeMerges` says what it makes of
  them. `ManifestStands` needs what a call knows (`CallInv`): the fields of the
  object are those with an owner (`Held`), which an apply keeps so
  (`ApplyKeepsHeld`) and a migration too (`UpgradeKeepsOwned`); those of the
  manifest are there but for what others wrote (`Standing`); and what the managers
  to migrate own was seen, or was written since (`Known`).
* **`SharedTypeCorrect`**, **`SaveForgetsOnlyNews`**, **`SkippedIsKept`**,
  **`OneInputLosesNothing`** (`SharedInventoryProofs`): `TypeOK`,
  `ForgetsOnlyNews`, `SkippedStaysTracked` and `SameInputTracked` for any number
  of processes, objects and failures. The invariant speaks of one process
  (`RunInv`): what the inventory has and it did not load is news to it (`Newer`);
  a tracked object that exists and is neither news nor `missed` (`Expected`) was
  found by its load, and will be kept or has its turn yet to come (`Keeps`, which
  needs that an object has no
  status before its turn, `Turns`, and that the load and the filters share their
  answers, `Answered`). A step of one process leaves the others' invariant alone
  because all it adds is news to them (`OthersKeepInv`); what it takes away,
  nobody has to keep. `SameInputTracked` needs what runs of one input know of each
  other (`CalmInv`): each of them will track whatever of the input exists when it
  saves (`WillTrack`), so that it does not matter whose save is the last.
* **`InputIsSpared`** (`ObjectIdentityProofs`): `PruneSparesInput` for any kinds
  and scopes, names, definitions, readers and inputs. `SpellingInv` says that an
  object of a kind of cluster scope has no namespace once a reader has looked at
  scopes, whichever way its scope was found (`ScopeIsTrue`), that a generated Job
  is namespaced, and that what was found in the inventory fits the scope of its
  kind: so two spellings of one object are one identity. It takes from
  `ObjectIdentityAssumption` that a definition gives its kind the scope the
  server will give it.
* **`IdentityTypes`**, **`RemovedIsPruned`**, **`DependenciesRead`**
  (`ObjectIdentityProofs`): `TypeOK`, `PrunesWhatWasRemoved` and
  `DependencyNamesObject`, for texts of any length and lists of any number of
  dependencies. What they need of texts comes first. `Cuts` says where the
  separators of a joined text are, `Ends` where the parts of a flattened one end;
  the two functions are shown to exist and to grow, with the least position at
  which that could fail in place of induction. From this follow the three things
  the conversions promise: a text whose parts hold no separator is split where it
  was joined (`SplitJoin`); an annotation reads as the list it was made of
  (`AnnotationParses`), its entries being neither trimmed nor split elsewhere;
  and a key of four fields has its separators where the regular expression looks
  for them (`KeyCuts`), although the name between them may have underscores of its
  own, so that it gives back its identity whenever colons are restored to where
  they were replaced (`ColonsComeBack`).
  The runs need the invariant `IdentityInv`: besides `SpellingInv`, that the store
  holds the keys of the identities saved and no others, which have kinds of the
  server and names (`NamesInv`); that a namespace was saved where the scope of the
  kind asks for one, so that each of them is found (`FoundInv`); and that the
  first object has the annotation of the list set last (`AskedInv`). A name that a
  key does not give back can still be read as a name, which is why `TypeOK` needs
  no hypothesis and `PrunesWhatWasRemoved` has `Survives`.
* **`ReconciliationTypes`**, **`CurrentMeansReconciled`**, **`CurrentStays`**
  (`ReconciliationProofs`): `TypeOK`, with `statusCheck` always answering and never
  with an error (from `Results`, what each check may return), `CurrentIsReconciled` and `CurrentIsStable`, for any number of pods, nodes and
  replicas, any partition, any kinds that report or reset, and any number of
  changes of the spec and of faults. What `statusCheck` reads is known to be true of an earlier moment only, so the
  invariant `IInv` says of which: the status names the generation it was written
  for, or none, which a kind that reports leaves out only before its first status
  (`WrittenInv`); the counters of a workload whose
  status is of the present generation are those of the pods at that moment
  (`WorkloadInv`); the status of another kind is the report of the stage it tells,
  which is *done* only of a generation that was, and of the one last seen if the
  kind resets (`StageInv`). Each check is then shown to answer Current for nothing
  else (`DeploymentCheck`, `CrdCheck`, `JobCheck`, `PodCheck`, `OtherCheck`, from
  `FirstAnswerIs`), and counters say which pods there are: as many of one sort as
  there are in all are all of them (`PodsAreFinite`, `DeploymentRolledOut`,
  `DaemonSetRolledOut`, `StatefulSetRolledOut`). `CurrentStays` needs what becomes
  of a rollout that is over: until something fails its pods stay those that the
  status counts, or get older (`SettledInv`), since no pod may start or stop
  (`PodStartsNot`); so the next status says Current again (`WorkloadWrittenAgain`,
  `StageWrittenAgain`).

The hypotheses are not conveniences. With a `ServerProfiles` that is not uniform
TLC finds `TrackedBetweenRuns` and, in three runs, `CleanRunConverges` violated;
with two copies of a CRD that define different kinds, `DependenciesSettled`. The
configurations here have values that satisfy both.

Only model-checked: liveness (`SortingEnds`, `TimeoutEndsRun`, `RunEndsOrWaits`,
`CallEnds`, `WarningIsRetried`, `SettlesOnOutcome` and the fairness part of
`KeepsPromise`), since TLAPS does not reason about fairness and ENABLED here; and
the four properties of section 6, which do not hold. Every invariant and action
property of a passing run is a theorem.

## 6. Where the code and its documentation differ

| run | documentation | code |
|---|---|---|
| `polling_leak` | the channel stays open until the last message (`informerMultiplexer.go:90-91`), then closes | the wait leaves, a forwarder blocks in its send, the closer spins (`multiplexer.go:47-60,84`) |
| `partition` | a StatefulSet with a partition and enough updated pods is current (`statuschecker_test.go:274-277`) | `replicas > currentReplicas` comes first, and the updated pods are not among the current ones (`statuschecker.go:544-557`): the wait never ends |
| `migration_exhausted` | after the last attempt "the last error witnessed" is returned, "which will be a conflict" (`apply.go:294-296`) | each conflict is followed by a `Get` whose error, nil, takes its place (`apply.go:287`): no error and no warning |
| `migration_dry_run` | every request of a dry run asks for `dryRun=All` (`apply_test.go:407-409`) | the JSON patch of the migration does not (`apply.go:264-266`): a dry run rewrites managed fields |

Seen while modelling and stated by no run:

* Dependencies "have reconciled before their dependents are applied"
  (`README.md:96-97`): tasks run unconditionally, and a dependency that failed or
  was filtered out stops nothing (`queuebuilder.go:78-95`). `DependenciesSettled`
  says what does hold.
* Objects after one that answers 415 have no status: they drop out of the
  inventory and are not deleted later (`README.md:46-47`, `apply.go:112-114`), and
  they are waited for, so that a run without a timeout hangs.
* "Blocking until the objects have reconciled or failed" (`README.md:57-58`): a
  Failed status does not end the wait (`wait.go:81-86`).
* Not-found objects are skipped on load (`applier.go:192-193`), but a kind that is
  no longer served is an error of its own (`object_cache.go:66-69`): the run fails
  until somebody edits the inventory.
* `AddChannel` checks the context, then counts its channel
  (`multiplexer.go:71-76`), so that the closer may close in between, against
  `multiplexer.go:41-42`. `EventsNeverPanic` says which send can meet that.
* A name with a doubled underscore is read back with a colon, and the object of
  that other name, if there is one, is pruned; a name that begins with an
  underscore or a colon is not read back at all, and is never pruned. Names with
  other characters or too long a key make every save of the inventory fail
  (`resourcemetadata.go:57-91`, `configmap.go:125-135`).
* A reader without a namespace checks no scopes (`common.go:71-75`): an object of
  cluster scope that gets a namespace in its manifest is applied and then pruned
  by the same run, under the identity without one; its new key is never found
  again.
* `SetObjectExplicitDependencies` with an empty list keeps the old annotation
  (`dependency.go:60-62`), and an empty annotation is an error.
* The table of kinds spells *Daemonset*, so that a DaemonSet sorts after all the
  kinds of the table, webhooks included (`sort.go:126`).
* A pod that cannot be scheduled becomes Failed by the clock, which no event
  announces (`statuschecker.go:352`); a Ready condition ahead of Stalled or
  Reconciling decides alone (`statuschecker.go:181`).
* Current may be of a former spec, for kinds whose controllers do not report the
  generation they have seen, or leave a Ready condition True until they are done
  with the next spec: a wait for a changed object of such a kind ends at once. The
  code says that it cannot be certain (`statuschecker.go:158-163`); the first of
  the two is so of the CRDs, Services, claims, Jobs and Pods of the table as well.
* Two runs at once: one that is the first to write an object and loses the reply
  saves last, and drops the object from the inventory, where the other run had put
  it (`apply.go:165-178`, `manager.go:126-128`).
* The checks of a StatefulSet compare counters (`statuschecker.go:534-560`), and
  counters know no ordinals. Scaled down in the middle of a rollout, or after an
  eviction, a StatefulSet with one pod that is to go and one that is missing has
  the right number of them and is Current for a moment; a wait takes that for the
  end. Two changes of spec are needed to get there.
* The runner may start queued tasks after its context is done
  (`runner.go:36-47`), and their requests fail.
* Of two manifests with one identity only the last gets edges, the other is in
  the first group (`graph.go:102-104`). `SameAsReference` does not judge that: the
  loop and its closed form share the rule.
* A run that dies before its save leaves objects no run prunes; pruning a
  Namespace or a CRD takes kept objects with it.

## 7. What is not modelled, and the plan

Not modelled: flow control and the client factory (`flowcontrol`, `util`:
configuration read once before a run), the builders (wiring), the test fakes.
Of the modelled parts: the labels the mutator adds and the fields of a Job
beyond its identity (no decision of a run depends on them), the text of events
and errors, the parsing of files and standard input (a library's), and
`DeleteRemoteInventoryIfPossible` with `Store.Delete`, which nothing calls.

Next models: a graph that is asked for its groups twice (`graph.go:49`), a
clock under the pod check of a wait (`statuschecker.go:352`).
