---------------------------- MODULE SortedGroups ----------------------------
(***************************************************************************)
(* DependencyGraph.SortedResourceGroups (pkg/resource/graph.go) as a state *)
(* machine: the two maps of the loop, the groups it has emitted and its    *)
(* result.  One action per exit of the loop body; the removal of a group   *)
(* is a single step, because nothing runs between its inner iterations.    *)
(***************************************************************************)
EXTENDS ResourceGraph, FiniteSets

CONSTANT Slices   \* the slices of objects NewDependencyGraph may be given

ASSUME SlicesAssumption ==
  \A s \in Slices : s \in Seq(Manifests)

VARIABLES
  objs,     \* the slice the graph was built from
  edges,    \* the local map: vertices left, with the vertices they wait for
  groups,   \* the groups emitted so far, each a set (sort.Sort orders a group)
  result    \* "building", "sorting", "ok", "invalid" or "cyclic"

vars == <<objs, edges, groups, result>>

Left == DOMAIN edges

Init ==
  /\ objs \in Slices
  /\ edges = <<>>
  /\ groups = <<>>
  /\ result = "building"

\* Mutant: the map is keyed by identity and not by pointer.
BuildByIdentity ==
  /\ result = "building"
  /\ IF GraphError(objs)
       THEN result' = "invalid" /\ UNCHANGED edges
       ELSE /\ result' = "sorting"
            /\ edges' = [v \in {IdOf(m) : m \in Vertices(objs)} |-> {}]
  /\ UNCHANGED <<objs, groups>>

\* NewDependencyGraph: every object is a vertex, then the edges are added.
Build ==
  /\ result = "building"
  /\ IF GraphError(objs)
       THEN result' = "invalid" /\ UNCHANGED edges
       ELSE /\ result' = "sorting"
            /\ edges' = [v \in Vertices(objs) |->
                           {w \in Vertices(objs) : <<v, w>> \in Edges(objs)}]
  /\ UNCHANGED <<objs, groups>>

\* Mutant: one dependency left is taken for none.
FreeVerticesOffByOne == {v \in Left : Cardinality(edges[v]) <= 1}

\* Mutant: a group holds one vertex only.
FirstFreeVertex ==
  LET free == {v \in Left : edges[v] = {}}
  IN  IF free = {} THEN {} ELSE {CHOOSE v \in free : TRUE}

FreeVertices == {v \in Left : edges[v] = {}}

\* Mutant: the vertices of the group stay in the map.
EmitGroupKeepingIt ==
  /\ result = "sorting"
  /\ FreeVertices # {}
  /\ edges' = [v \in Left |->
                IF v \in FreeVertices THEN {v} ELSE edges[v] \ FreeVertices]
  /\ groups' = Append(groups, FreeVertices)
  /\ UNCHANGED <<objs, result>>

EmitGroup ==
  /\ result = "sorting"
  /\ FreeVertices # {}
  /\ edges' = [v \in Left \ FreeVertices |-> edges[v] \ FreeVertices]
  /\ groups' = Append(groups, FreeVertices)
  /\ UNCHANGED <<objs, result>>

\* Mutant: a group is not looked for first.
ReportCycleTooSoon ==
  /\ result = "sorting"
  /\ Left # {}
  /\ result' = "cyclic"
  /\ UNCHANGED <<objs, edges, groups>>

\* Mutant: no check for a cycle: the loop never ends.
NeverReportCycle == FALSE /\ UNCHANGED vars

ReportCycle ==
  /\ result = "sorting"
  /\ Left # {}
  /\ FreeVertices = {}
  /\ result' = "cyclic"
  /\ UNCHANGED <<objs, edges, groups>>

\* Mutant: the loop ends after its first turn.
ReturnAfterFirstGroup ==
  /\ result = "sorting"
  /\ groups # <<>>
  /\ result' = "ok"
  /\ UNCHANGED <<objs, edges, groups>>

Return ==
  /\ result = "sorting"
  /\ Left = {}
  /\ result' = "ok"
  /\ UNCHANGED <<objs, edges, groups>>

Next == Build \/ EmitGroup \/ ReportCycle \/ Return

\* The function is sequential code: it runs until it returns.
Spec == Init /\ [][Next]_vars /\ WF_vars(Next)

-----------------------------------------------------------------------------
Emitted == UNION {groups[i] : i \in DOMAIN groups}

TypeOK ==
  /\ objs \in Seq(Manifests)
  /\ DOMAIN edges \subseteq Manifests
  /\ \A v \in Left : edges[v] \subseteq Manifests
  /\ groups \in Seq(SUBSET Manifests)
  /\ result \in {"building", "sorting", "ok", "invalid", "cyclic"}

\* Every object of the slice is either still in the loop's map or in exactly
\* one emitted group: removing a group while ranging over the same map neither
\* loses an object nor emits one twice (graph.go:73-82).
EachObjectOnce ==
  result \notin {"building", "invalid"} =>
    /\ Left \cup Emitted = Vertices(objs)
    /\ Left \cap Emitted = {}
    /\ \A i, j \in DOMAIN groups : i # j => groups[i] \cap groups[j] = {}

\* A group is emitted only after every group that holds one of its
\* dependencies: "Namespace-scoped resource objects depend on their Namespace",
\* "Custom resource objects depend on their Custom Resource Definition" and the
\* depends-on annotation all become "strictly earlier group".
DependenciesInEarlierGroups ==
  result # "invalid" =>
    \A i \in DOMAIN groups : \A v \in groups[i] : \A w \in Vertices(objs) :
       <<v, w>> \in Edges(objs) => \E j \in 1..(i - 1) : w \in groups[j]

\* The groups are as few as they can be: an object is never postponed beyond
\* the group right after its last dependency, so no object waits for an
\* unrelated one (graph.go:54-58 takes every free vertex).
NoNeedlessWait ==
  \A i \in DOMAIN groups : i > 1 =>
    \A v \in groups[i] : \E w \in groups[i - 1] : <<v, w>> \in Edges(objs)

\* A reported cycle is real: each object left waits for another one left, so
\* some chain of dependencies never ends (graph.go:60-71).
ReportedCycleIsReal ==
  result = "cyclic" =>
    /\ Left # {}
    /\ \A v \in Left : \E w \in Left : <<v, w>> \in Edges(objs)

\* What the loop computes is the function the other modules use for it.
SameAsReference ==
  /\ result = "ok" => groups = Groups(objs) /\ ~Cyclic(objs)
  /\ result = "cyclic" => Cyclic(objs)

\* The loop ends for every slice, cyclic ones included.
SortingEnds == <>(result \in {"ok", "invalid", "cyclic"})
=============================================================================
