------------------------- MODULE SortedGroupsProofs -------------------------
(***************************************************************************)
(* The loop of SortedResourceGroups keeps the order of the dependencies,   *)
(* for every set of manifests and every slice: nothing here bounds them.   *)
(* Within a group less is a strict total order: sorting with it has one    *)
(* result, but for objects with equal metadata.                            *)
(***************************************************************************)
EXTENDS SortedGroups, KindOrder, ResourceGraphProofs

\* The two maps of the loop agree with the graph: what a vertex still waits
\* for are its dependencies that are still in the map.  A vertex that became
\* free did so because of the last group.
LoopInv ==
  /\ result \in {"building", "invalid"} => groups = <<>> /\ edges = <<>>
  /\ result \notin {"building", "invalid"} =>
       \A v \in Left : edges[v] = {w \in Left : <<v, w>> \in Edges(objs)}
  /\ groups # <<>> =>
       \A v \in FreeVertices : \E w \in groups[Len(groups)] : <<v, w>> \in Edges(objs)

IInv == TypeOK /\ EachObjectOnce /\ DependenciesInEarlierGroups /\ NoNeedlessWait
          /\ ReportedCycleIsReal /\ LoopInv

\* A slice holds manifests.
LEMMA VerticesType == ASSUME NEW s \in Seq(Manifests) PROVE Vertices(s) \subseteq Manifests
  BY DEF Vertices

LEMMA InitIInv == Init => IInv
<1> SUFFICES ASSUME Init PROVE IInv
  OBVIOUS
<1>1. objs \in Seq(Manifests)
  BY SlicesAssumption DEF Init
<1>2. Left = {} /\ DOMAIN groups = {}
  BY DEF Init, Left
<1>3. TypeOK
  BY <1>1, <1>2 DEF Init, TypeOK, Left
<1>4. EachObjectOnce /\ DependenciesInEarlierGroups /\ NoNeedlessWait /\ ReportedCycleIsReal
  BY <1>2 DEF Init, EachObjectOnce, DependenciesInEarlierGroups, NoNeedlessWait, ReportedCycleIsReal
<1>5. LoopInv
  BY DEF Init, LoopInv
<1> QED
  BY <1>3, <1>4, <1>5 DEF IInv

LEMMA BuildStep == IInv /\ Build => IInv'
<1> SUFFICES ASSUME IInv, Build PROVE IInv'
  OBVIOUS
<1>1. groups = <<>> /\ edges = <<>> /\ groups' = <<>> /\ objs' = objs /\ objs \in Seq(Manifests)
  BY DEF IInv, LoopInv, TypeOK, Build
<1>2. CASE GraphError(objs)
  <2>1. result' = "invalid" /\ edges' = <<>> /\ Left' = {}
    BY <1>1, <1>2 DEF Build, Left
  <2> QED
    BY <1>1, <2>1 DEF IInv, TypeOK, EachObjectOnce, DependenciesInEarlierGroups,
      NoNeedlessWait, ReportedCycleIsReal, LoopInv
<1>3. CASE ~GraphError(objs)
  <2>1. /\ result' = "sorting"
        /\ edges' = [v \in Vertices(objs) |->
                       {w \in Vertices(objs) : <<v, w>> \in Edges(objs)}]
    BY <1>3 DEF Build
  <2>2. Left' = Vertices(objs) /\ Vertices(objs)' = Vertices(objs) /\ Emitted' = {}
    BY <1>1, <2>1 DEF Left, Vertices, Emitted
  <2>3. Edges(objs)' = Edges(objs)
    BY <1>1
  <2>4. TypeOK'
    BY <1>1, <2>1, <2>2, VerticesType DEF TypeOK
  <2>5. (EachObjectOnce /\ DependenciesInEarlierGroups /\ NoNeedlessWait
           /\ ReportedCycleIsReal)'
    BY <1>1, <2>1, <2>2 DEF EachObjectOnce, DependenciesInEarlierGroups,
      NoNeedlessWait, ReportedCycleIsReal
  <2>6. LoopInv'
    BY <1>1, <2>1, <2>2, <2>3 DEF LoopInv
  <2> QED
    BY <2>4, <2>5, <2>6 DEF IInv
<1> QED
  BY <1>2, <1>3

LEMMA EmitStep == IInv /\ EmitGroup => IInv'
<1> SUFFICES ASSUME IInv, EmitGroup PROVE IInv'
  OBVIOUS
<1> DEFINE F == FreeVertices
           n == Len(groups)
<1>1. /\ result = "sorting" /\ result' = "sorting" /\ objs' = objs
      /\ groups' = Append(groups, F)
      /\ edges' = [v \in Left \ F |-> edges[v] \ F]
  BY DEF EmitGroup
<1>2. Left' = Left \ F /\ F \subseteq Left /\ \A v \in F : edges[v] = {}
  BY <1>1 DEF Left, FreeVertices
<1>3. Edges(objs)' = Edges(objs) /\ Vertices(objs)' = Vertices(objs)
  BY <1>1
<1>4. groups \in Seq(SUBSET Manifests) /\ Left \subseteq Manifests
      /\ n \in Nat /\ DOMAIN groups = 1..n /\ F \subseteq Manifests
  BY <1>2 DEF IInv, TypeOK, Left
<1>5. /\ groups' \in Seq(SUBSET Manifests) /\ DOMAIN groups' = 1..(n + 1)
      /\ groups'[n + 1] = F /\ \A i \in 1..n : groups'[i] = groups[i]
      /\ Len(groups') = n + 1 /\ groups' # <<>>
  BY <1>1, <1>4
<1>6. Emitted' = Emitted \cup F
  BY <1>4, <1>5 DEF Emitted
<1>7. \A v \in Left : edges[v] = {w \in Left : <<v, w>> \in Edges(objs)}
  BY <1>1 DEF IInv, LoopInv
<1>8. /\ Left \cup Emitted = Vertices(objs) /\ Left \cap Emitted = {}
      /\ \A i, j \in DOMAIN groups : i # j => groups[i] \cap groups[j] = {}
  BY <1>1 DEF IInv, EachObjectOnce
<1>9. \A i \in 1..n : groups[i] \subseteq Emitted
  BY <1>4 DEF Emitted
<1>10. TypeOK'
  BY <1>1, <1>2, <1>4, <1>5 DEF IInv, TypeOK, Left
<1>11. EachObjectOnce'
  <2>1. (Left \cup Emitted = Vertices(objs) /\ Left \cap Emitted = {})'
    BY <1>2, <1>3, <1>6, <1>8
  <2>2. ASSUME NEW i \in 1..(n + 1), NEW j \in 1..(n + 1), i # j
        PROVE groups'[i] \cap groups'[j] = {}
    <3>1. CASE i \in 1..n /\ j \in 1..n
      BY <2>2, <3>1, <1>4, <1>5, <1>8
    <3>2. CASE i = n + 1
      <4>1. j \in 1..n
        BY <2>2, <3>2, <1>4
      <4> QED
        BY <3>2, <4>1, <1>2, <1>5, <1>8, <1>9
    <3>3. CASE j = n + 1
      <4>1. i \in 1..n
        BY <2>2, <3>3, <1>4
      <4> QED
        BY <3>3, <4>1, <1>2, <1>5, <1>8, <1>9
    <3> QED
      BY <1>4, <3>1, <3>2, <3>3
  <2> QED
    BY <1>5, <2>1, <2>2 DEF EachObjectOnce
<1>12. DependenciesInEarlierGroups'
  <2> SUFFICES ASSUME NEW i \in 1..(n + 1), NEW v \in groups'[i],
                      NEW w \in Vertices(objs), <<v, w>> \in Edges(objs)
               PROVE \E j \in 1..(i - 1) : w \in groups'[j]
    BY <1>3, <1>5 DEF DependenciesInEarlierGroups
  <2>1. CASE i \in 1..n
    <3>1. PICK j \in 1..(i - 1) : w \in groups[j]
      BY <1>1, <1>4, <1>5, <2>1 DEF IInv, DependenciesInEarlierGroups
    <3> QED
      BY <1>4, <1>5, <2>1, <3>1
  <2>2. CASE i = n + 1
    <3>1. v \in F
      BY <1>5, <2>2
    <3>2. w \notin Left
      BY <1>2, <1>7, <3>1
    <3>3. PICK j \in 1..n : w \in groups[j]
      BY <1>4, <1>8, <3>2 DEF Emitted
    <3> QED
      BY <1>4, <1>5, <2>2, <3>3
  <2> QED
    BY <1>4, <2>1, <2>2
<1>13. NoNeedlessWait'
  <2> SUFFICES ASSUME NEW i \in 1..(n + 1), i > 1, NEW v \in groups'[i]
               PROVE \E w \in groups'[i - 1] : <<v, w>> \in Edges(objs)
    BY <1>3, <1>5 DEF NoNeedlessWait
  <2>1. CASE i \in 1..n
    <3>1. i - 1 \in 1..n
      BY <1>4, <2>1
    <3> QED
      BY <1>4, <1>5, <2>1, <3>1 DEF IInv, NoNeedlessWait
  <2>2. CASE i = n + 1
    <3>1. i - 1 = n /\ n \in 1..n /\ groups # <<>>
      BY <1>4, <2>2
    <3>2. v \in F /\ groups'[i - 1] = groups[n]
      BY <1>5, <2>2, <3>1
    <3> QED
      BY <3>1, <3>2 DEF IInv, LoopInv
  <2>3. i \in 1..n \/ i = n + 1
    BY <1>4
  <2> QED
    BY <2>1, <2>2, <2>3
<1>14. ReportedCycleIsReal'
  BY <1>1 DEF ReportedCycleIsReal
<1>15. LoopInv'
  <2>1. \A v \in Left' : edges'[v] = {w \in Left' : <<v, w>> \in Edges(objs)}
    BY <1>1, <1>2, <1>7
  <2>2. ASSUME NEW v \in Left', edges'[v] = {}
        PROVE \E w \in F : <<v, w>> \in Edges(objs)
    <3>1. v \in Left /\ edges[v] # {} /\ edges[v] \subseteq F
      BY <1>1, <1>2, <2>2 DEF FreeVertices
    <3> QED
      BY <1>7, <3>1
  <2>3. \A v \in FreeVertices' : \E w \in groups'[Len(groups')] : <<v, w>> \in Edges(objs)
    BY <1>5, <2>2 DEF FreeVertices
  <2> QED
    BY <1>1, <1>3, <2>1, <2>3 DEF LoopInv
<1> QED
  BY <1>10, <1>11, <1>12, <1>13, <1>14, <1>15 DEF IInv

LEMMA EndStep == IInv /\ (ReportCycle \/ Return \/ UNCHANGED vars) => IInv'
<1> SUFFICES ASSUME IInv, ReportCycle \/ Return \/ UNCHANGED vars PROVE IInv'
  OBVIOUS
<1>1. objs' = objs /\ edges' = edges /\ groups' = groups
  BY DEF ReportCycle, Return, vars
<1>2. /\ Left' = Left /\ Emitted' = Emitted /\ FreeVertices' = FreeVertices
      /\ Edges(objs)' = Edges(objs) /\ Vertices(objs)' = Vertices(objs)
  BY <1>1 DEF Left, Emitted, FreeVertices
<1>3. CASE ReportCycle
  <2>1. result = "sorting" /\ result' = "cyclic" /\ Left # {} /\ FreeVertices = {}
    BY <1>3 DEF ReportCycle
  <2>2. \A v \in Left : edges[v] # {}
    BY <2>1 DEF FreeVertices
  <2>3. \A v \in Left : \E w \in Left : <<v, w>> \in Edges(objs)
    BY <2>1, <2>2 DEF IInv, LoopInv
  <2>4. (TypeOK /\ EachObjectOnce /\ ReportedCycleIsReal)'
    BY <1>1, <1>2, <2>1, <2>3 DEF IInv, TypeOK, EachObjectOnce, ReportedCycleIsReal
  <2>5. (DependenciesInEarlierGroups /\ NoNeedlessWait)'
    BY <1>1, <1>2, <2>1 DEF IInv, DependenciesInEarlierGroups, NoNeedlessWait
  <2>6. LoopInv'
    BY <1>1, <1>2, <2>1 DEF IInv, LoopInv
  <2> QED
    BY <2>4, <2>5, <2>6 DEF IInv
<1>4. CASE Return
  BY <1>1, <1>2, <1>4 DEF Return, IInv, TypeOK, EachObjectOnce,
    DependenciesInEarlierGroups, NoNeedlessWait, ReportedCycleIsReal, LoopInv
<1>5. CASE UNCHANGED vars
  <2>1. result' = result
    BY <1>5 DEF vars
  <2>2. (TypeOK /\ EachObjectOnce /\ ReportedCycleIsReal)'
    BY <1>1, <1>2, <2>1 DEF IInv, TypeOK, EachObjectOnce, ReportedCycleIsReal
  <2>3. (DependenciesInEarlierGroups /\ NoNeedlessWait)'
    BY <1>1, <1>2, <2>1 DEF IInv, DependenciesInEarlierGroups, NoNeedlessWait
  <2>4. LoopInv'
    BY <1>1, <1>2, <2>1 DEF IInv, LoopInv
  <2> QED
    BY <2>2, <2>3, <2>4 DEF IInv
<1> QED
  BY <1>3, <1>4, <1>5

LEMMA Invariance == Spec => []IInv
<1>1. IInv /\ [Next]_vars => IInv'
  BY BuildStep, EmitStep, EndStep DEF Next
<1> QED
  BY <1>1, InitIInv, PTL DEF Spec

\* The maps and the groups of graph.go:48-85 stay what their types say.
THEOREM TypeCorrect == Spec => []TypeOK
<1>1. IInv => TypeOK
  BY DEF IInv
<1> QED
  BY <1>1, Invariance, PTL

\* Removing a group while ranging over the map of vertices loses no object and
\* repeats none, whatever the graph (graph.go:73-82).
THEOREM NothingLost == Spec => []EachObjectOnce
<1>1. IInv => EachObjectOnce
  BY DEF IInv
<1> QED
  BY <1>1, Invariance, PTL

\* Every dependency of the graph is in a strictly earlier group than its
\* dependent (graph.go:52-82): the order the apply tasks are queued in.
THEOREM OrderRespected == Spec => []DependenciesInEarlierGroups
<1>1. IInv => DependenciesInEarlierGroups
  BY DEF IInv
<1> QED
  BY <1>1, Invariance, PTL

\* No object is in a later group than its dependencies require.
THEOREM GroupsMinimal == Spec => []NoNeedlessWait
<1>1. IInv => NoNeedlessWait
  BY DEF IInv
<1> QED
  BY <1>1, Invariance, PTL

\* CyclicDependencyError is returned only for a graph in which the objects
\* left all wait for one another (graph.go:60-71).
THEOREM CyclesReal == Spec => []ReportedCycleIsReal
<1>1. IInv => ReportedCycleIsReal
  BY DEF IInv
<1> QED
  BY <1>1, Invariance, PTL

-----------------------------------------------------------------------------
(* The loop computes the function the other modules use for it: after n      *)
(* groups it has removed what the first n iterations of Peeled remove.       *)

Peel == Peeled(Vertices(objs), Edges(objs), Len(objs))

PeelInv ==
  /\ result \notin {"building", "invalid"} =>
       /\ Len(groups) <= Len(objs)
       /\ \A i \in 1..Len(groups) : groups[i] = Peel[i] \ Peel[i - 1] /\ groups[i] # {}
       /\ Emitted = Peel[Len(groups)]
  /\ result = "ok" => Left = {}

\* No dependency left in the map is no edge to a vertex left.
LEMMA FreeVerticesAreFree ==
  ASSUME IInv, result \notin {"building", "invalid"}
  PROVE  FreeVertices = Free(Left, Edges(objs))
<1>1. \A v \in Left : edges[v] = {w \in Left : <<v, w>> \in Edges(objs)}
  BY DEF IInv, LoopInv
<1>2. ASSUME NEW v \in Left
      PROVE  edges[v] = {} <=> \A e \in Edges(objs) : e[1] = v => e[2] \notin Left
  <2>1. ASSUME edges[v] = {}, NEW e \in Edges(objs), e[1] = v PROVE e[2] \notin Left
    <3>1. e = <<v, e[2]>>
      BY <2>1, EdgesArePairs
    <3> QED
      BY <1>1, <2>1, <3>1
  <2>2. ASSUME \A e \in Edges(objs) : e[1] = v => e[2] \notin Left PROVE edges[v] = {}
    <3>1. ASSUME NEW w \in Left, <<v, w>> \in Edges(objs) PROVE FALSE
      <4>1. <<v, w>>[1] = v /\ <<v, w>>[2] = w
        OBVIOUS
      <4> QED
        BY <2>2, <3>1, <4>1
    <3> QED
      BY <1>1, <3>1
  <2> QED
    BY <2>1, <2>2
<1> QED
  BY <1>2 DEF FreeVertices, Free

\* As many groups as objects at most: each one takes an object of its own.
LEMMA GroupsAreFew ==
  ASSUME NEW s \in Seq(Manifests), NEW n \in Nat, NEW g,
         \A i \in 1..n : g[i] # {} /\ g[i] \subseteq Vertices(s),
         \A i, j \in 1..n : i # j => g[i] \cap g[j] = {}
  PROVE  n <= Len(s)
<1> DEFINE f == [i \in 1..n |-> CHOOSE k \in 1..Len(s) : s[k] \in g[i]]
<1>1. Len(s) \in Nat /\ DOMAIN s = 1..Len(s)
  OBVIOUS
<1>2. ASSUME NEW i \in 1..n PROVE f[i] \in 1..Len(s) /\ s[f[i]] \in g[i]
  <2>1. \E k \in 1..Len(s) : s[k] \in g[i]
    BY <1>1 DEF Vertices
  <2> QED
    BY <2>1
<1>3. f \in [1..n -> 1..Len(s)]
  BY <1>2
<1> HIDE DEF f
<1>4. \A i, j \in 1..n : f[i] = f[j] => i = j
  BY <1>2
<1>5. f \in Injection(1..n, 1..Len(s))
  BY <1>3, <1>4 DEF Injection, IsInjective
<1>6. /\ IsFiniteSet(1..Len(s)) /\ Cardinality(1..Len(s)) = Len(s)
      /\ Cardinality(1..n) = n
  <2>1. IsFiniteSet(1..Len(s))
    <3>1. 1 \in Int /\ Len(s) \in Int
      BY <1>1
    <3> QED
      BY <3>1, FS_Interval
  <2>2. Cardinality(1..Len(s)) = IF 1 > Len(s) THEN 0 ELSE Len(s) - 1 + 1
    BY <1>1, FS_Interval
  <2>3. Cardinality(1..n) = IF 1 > n THEN 0 ELSE n - 1 + 1
    BY FS_Interval
  <2> QED
    BY <1>1, <2>1, <2>2, <2>3
<1>7. Cardinality(1..n) <= Cardinality(1..Len(s))
  BY <1>5, <1>6, FS_Injection
<1> QED
  BY <1>6, <1>7

LEMMA PeelInvBuild == IInv /\ PeelInv /\ Build => PeelInv'
<1> SUFFICES ASSUME IInv, Build, result' # "invalid" PROVE PeelInv'
  BY DEF PeelInv, Build
<1>1. groups = <<>> /\ groups' = <<>> /\ objs' = objs /\ objs \in Seq(Manifests)
      /\ result' = "sorting"
  BY DEF IInv, LoopInv, TypeOK, Build
<1>2. Len(groups') = 0 /\ DOMAIN groups' = {} /\ Len(objs) \in Nat
  BY <1>1
<1>3. Emitted' = {}
  BY <1>2 DEF Emitted
<1>4. Peel[0] = {} /\ Peel' = Peel
  BY <1>1, <1>2, PeeledStep DEF Peel, Vertices
<1> QED
  BY <1>1, <1>2, <1>3, <1>4 DEF PeelInv

LEMMA PeelInvEmit == IInv /\ IInv' /\ PeelInv /\ EmitGroup => PeelInv'
<1> SUFFICES ASSUME IInv, IInv', PeelInv, EmitGroup PROVE PeelInv'
  OBVIOUS
<1> DEFINE n == Len(groups)
           F == FreeVertices
<1>1. /\ result = "sorting" /\ result' = "sorting" /\ objs' = objs
      /\ groups' = Append(groups, F) /\ F # {}
  BY DEF EmitGroup
<1>2. groups \in Seq(SUBSET Manifests) /\ n \in Nat /\ objs \in Seq(Manifests)
      /\ Len(objs) \in Nat
  BY DEF IInv, TypeOK
<1>3. /\ Len(groups') = n + 1 /\ DOMAIN groups' = 1..(n + 1) /\ DOMAIN groups = 1..n
      /\ groups'[n + 1] = F /\ \A i \in 1..n : groups'[i] = groups[i]
  BY <1>1, <1>2
<1>4. /\ \A i \in 1..n : groups[i] = Peel[i] \ Peel[i - 1] /\ groups[i] # {}
      /\ Emitted = Peel[n]
  BY <1>1 DEF PeelInv
<1>5. Vertices(objs)' = Vertices(objs) /\ Peel' = Peel
  BY <1>1 DEF Peel
<1>6. n + 1 <= Len(objs)
  <2>1. (Left \cup Emitted = Vertices(objs)
           /\ \A i, j \in DOMAIN groups : i # j => groups[i] \cap groups[j] = {})'
    BY <1>1 DEF IInv, EachObjectOnce
  <2>2. \A i \in 1..(n + 1) : groups'[i] \subseteq Emitted'
    BY <1>3 DEF Emitted
  <2>3. \A i \in 1..(n + 1) : groups'[i] # {}
    BY <1>1, <1>2, <1>3, <1>4
  <2>4. \A i \in 1..(n + 1) : groups'[i] # {} /\ groups'[i] \subseteq Vertices(objs)
    BY <1>5, <2>1, <2>2, <2>3
  <2>5. \A i, j \in 1..(n + 1) : i # j => groups'[i] \cap groups'[j] = {}
    BY <1>3, <2>1
  <2>6. n + 1 \in Nat
    BY <1>2
  <2> QED
    BY <1>2, <2>4, <2>5, <2>6, GroupsAreFew
<1>7. Left = Vertices(objs) \ Peel[n]
  BY <1>1, <1>4 DEF IInv, EachObjectOnce
<1>8. F = Free(Left, Edges(objs))
  BY <1>1, FreeVerticesAreFree
<1>9. Peel[n + 1] = Peel[n] \cup F
  <2>1. n + 1 \in 1..Len(objs) /\ (n + 1) - 1 = n
    BY <1>2, <1>6
  <2>2. \A m \in 1..Len(objs) :
           Peel[m] = Peel[m - 1] \cup Free(Vertices(objs) \ Peel[m - 1], Edges(objs))
    BY <1>2, PeeledStep DEF Peel
  <2>3. Peel[n + 1] = Peel[(n + 1) - 1]
           \cup Free(Vertices(objs) \ Peel[(n + 1) - 1], Edges(objs))
    BY <2>1, <2>2
  <2> QED
    BY <1>7, <1>8, <2>1, <2>3
<1>10. F = Peel[n + 1] \ Peel[n]
  <2>1. F \subseteq Left
    BY DEF FreeVertices
  <2> QED
    BY <1>7, <1>9, <2>1
<1>11. Emitted' = Peel[n + 1]
  <2>1. Emitted' = Emitted \cup F
    BY <1>3 DEF Emitted
  <2> QED
    BY <1>4, <1>9, <2>1
<1>12. ASSUME NEW i \in 1..(n + 1)
       PROVE  groups'[i] = Peel[i] \ Peel[i - 1] /\ groups'[i] # {}
  <2>1. CASE i \in 1..n
    BY <1>3, <1>4, <2>1
  <2>2. CASE i = n + 1
    <3>1. i - 1 = n
      BY <1>2, <2>2
    <3> QED
      BY <1>1, <1>3, <1>10, <2>2, <3>1
  <2> QED
    BY <1>2, <2>1, <2>2
<1> QED
  BY <1>1, <1>3, <1>5, <1>6, <1>11, <1>12 DEF PeelInv

LEMMA PeelInvariance == Spec => []PeelInv
<1>1. Init => PeelInv
  BY DEF Init, PeelInv
<1>2. IInv /\ IInv' /\ PeelInv /\ [Next]_vars => PeelInv'
  <2> SUFFICES ASSUME IInv, IInv', PeelInv, [Next]_vars PROVE PeelInv'
    OBVIOUS
  <2>1. CASE Build
    BY <2>1, PeelInvBuild
  <2>2. CASE EmitGroup
    BY <2>2, PeelInvEmit
  <2>3. CASE ReportCycle
    <3>1. UNCHANGED <<objs, edges, groups>> /\ result = "sorting" /\ result' = "cyclic"
      BY <2>3 DEF ReportCycle
    <3>2. Peel' = Peel /\ Emitted' = Emitted
      BY <3>1 DEF Peel, Emitted
    <3> QED
      BY <3>1, <3>2 DEF PeelInv
  <2>4. CASE Return
    <3>1. UNCHANGED <<objs, edges, groups>> /\ result = "sorting" /\ result' = "ok"
          /\ Left = {}
      BY <2>4 DEF Return
    <3>2. Peel' = Peel /\ Emitted' = Emitted /\ Left' = Left
      BY <3>1 DEF Peel, Emitted, Left
    <3> QED
      BY <3>1, <3>2 DEF PeelInv
  <2>5. CASE UNCHANGED vars
    <3>1. UNCHANGED <<objs, edges, groups, result>>
      BY <2>5 DEF vars
    <3>2. Peel' = Peel /\ Emitted' = Emitted /\ Left' = Left
      BY <3>1 DEF Peel, Emitted, Left
    <3> QED
      BY <3>1, <3>2 DEF PeelInv
  <2> QED
    BY <2>1, <2>2, <2>3, <2>4, <2>5 DEF Next
<1> QED
  BY <1>1, <1>2, Invariance, PTL DEF Spec

\* The groups the loop returns, and its verdict on cycles, are those of the
\* function the applier's queue is built from, whatever the slice: the proofs
\* about a run rest on the loop's own code (graph.go:48-85).
THEOREM LoopComputesGroups == Spec => []SameAsReference
<1>1. IInv /\ PeelInv => SameAsReference
  <2> SUFFICES ASSUME IInv, PeelInv, result \in {"ok", "cyclic"}
               PROVE  groups = Groups(objs) /\ Grouped(objs) = Vertices(objs) \ Left
                        /\ (result = "ok" => Left = {}) /\ (result = "cyclic" => Left # {})
                        /\ Left \subseteq Vertices(objs)
    BY DEF SameAsReference, Cyclic
  <2> DEFINE n == Len(groups)
  <2>1. groups \in Seq(SUBSET Manifests) /\ objs \in Seq(Manifests) /\ n \in 0..Len(objs)
    BY DEF IInv, TypeOK, PeelInv
  <2>2. /\ \A i \in 1..n : groups[i] = Peel[i] \ Peel[i - 1] /\ groups[i] # {}
        /\ Emitted = Peel[n]
    BY DEF PeelInv
  <2>3. Left \cup Emitted = Vertices(objs) /\ Left \cap Emitted = {}
    BY DEF IInv, EachObjectOnce
  <2>4. /\ result = "ok" => Left = {}
        /\ result = "cyclic" => Left # {} /\ \A v \in Left : \E w \in Left : <<v, w>> \in Edges(objs)
    BY DEF IInv, PeelInv, ReportedCycleIsReal
  <2>5. Free(Left, Edges(objs)) = {}
    <3>1. \A v \in Left : edges[v] # {}
      BY <2>4 DEF IInv, LoopInv
    <3> QED
      BY <3>1, FreeVerticesAreFree DEF FreeVertices
  <2>6. Free(Vertices(objs) \ Peel[n], Edges(objs)) = {}
    BY <2>2, <2>3, <2>5
  <2>7. \A i \in 1..n : Peel[i] # Peel[i - 1]
    BY <2>2
  <2>8. /\ Groups(objs) = [i \in 1..n |-> Peel[i] \ Peel[i - 1]]
        /\ Grouped(objs) = Peel[n]
    BY <2>1, <2>6, <2>7, GroupsWhenStopped DEF Peel
  <2>9. groups = [i \in 1..n |-> Peel[i] \ Peel[i - 1]]
    <3>1. groups = [i \in 1..n |-> groups[i]]
      BY <2>1
    <3> QED
      BY <2>2, <3>1
  <2> QED
    BY <2>2, <2>3, <2>4, <2>8, <2>9
<1> QED
  BY <1>1, Invariance, PeelInvariance, PTL
-----------------------------------------------------------------------------
(* The order within a group.                                                *)

\* A kind has an integer index, in the table or not (sort.go:90-160).
LEMMA IndexType == \A gk : defaultGroupKindSortMap(gk) \in Int
<1> DEFINE n == Len(orderList)
<1>1. n \in Int /\ DOMAIN orderList \subseteq Int
  BY DEF orderList, n
<1> HIDE DEF n
<1> QED
  BY <1>1 DEF defaultGroupKindSortMap, n

\* No object is before itself (sort.go:57-72).
THEOREM LessIrreflexive == \A i \in Metadata : ~less(i, i)
  BY PlaceAssumption DEF Metadata, less

\* The order is transitive, also across kinds inside and outside the table.
THEOREM LessTransitive ==
  \A i, j, k \in Metadata : less(i, j) /\ less(j, k) => less(i, k)
<1> SUFFICES ASSUME NEW i \in Metadata, NEW j \in Metadata, NEW k \in Metadata,
                    less(i, j), less(j, k)
             PROVE  less(i, k)
  OBVIOUS
<1> DEFINE Index(m) == defaultGroupKindSortMap(GroupKind(m.group, m.kind))
<1>1. Index(i) \in Int /\ Index(j) \in Int /\ Index(k) \in Int
  BY IndexType
<1>2. ASSUME NEW a \in Metadata, NEW b \in Metadata,
             a.group = b.group, a.kind = b.kind
      PROVE  Index(a) = Index(b)
  BY <1>2
<1>3. ASSUME NEW a \in Metadata, NEW b \in Metadata
      PROVE  lessGK(a, b) <=> \/ Index(a) < Index(b)
                              \/ Index(a) = Index(b) /\ Place[a.group] < Place[b.group]
                              \/ /\ Index(a) = Index(b) /\ a.group = b.group
                                 /\ Place[a.kind] < Place[b.kind]
  BY DEF lessGK
<1> HIDE DEF Index
<1>4. \A m \in Metadata :
        m.group \in Words /\ m.kind \in Words /\ m.namespace \in Words /\ m.name \in Words
  BY DEF Metadata
<1>5. \A w \in Words : Place[w] \in Nat
  BY PlaceAssumption
<1>6. CASE i.group = j.group /\ i.kind = j.kind
  BY <1>1, <1>2, <1>3, <1>4, <1>5, <1>6 DEF less
<1>7. CASE ~(i.group = j.group /\ i.kind = j.kind) /\ j.group = k.group /\ j.kind = k.kind
  BY <1>1, <1>2, <1>3, <1>4, <1>5, <1>7 DEF less
<1>8. CASE ~(i.group = j.group /\ i.kind = j.kind) /\ ~(j.group = k.group /\ j.kind = k.kind)
  BY <1>1, <1>2, <1>3, <1>4, <1>5, <1>8 DEF less
<1> QED
  BY <1>6, <1>7, <1>8

\* Two objects that less does not tell apart have the same metadata: only those
\* may come in any order (sort.Sort is not stable).
THEOREM LessTotal ==
  \A i, j \in Metadata : i = j \/ less(i, j) \/ less(j, i)
<1> SUFFICES ASSUME NEW i \in Metadata, NEW j \in Metadata, ~less(i, j), ~less(j, i)
             PROVE  i = j
  OBVIOUS
<1> DEFINE Index(m) == defaultGroupKindSortMap(GroupKind(m.group, m.kind))
<1>1. Index(i) \in Int /\ Index(j) \in Int
  BY IndexType
<1>3. ASSUME NEW a \in Metadata, NEW b \in Metadata
      PROVE  lessGK(a, b) <=> \/ Index(a) < Index(b)
                              \/ Index(a) = Index(b) /\ Place[a.group] < Place[b.group]
                              \/ /\ Index(a) = Index(b) /\ a.group = b.group
                                 /\ Place[a.kind] < Place[b.kind]
  BY DEF lessGK
<1> HIDE DEF Index
<1>4. \A m \in Metadata :
        m.group \in Words /\ m.kind \in Words /\ m.namespace \in Words /\ m.name \in Words
  BY DEF Metadata
<1>5. \A v, w \in Words :
        /\ Place[w] \in Nat
        /\ Place[v] < Place[w] \/ Place[w] < Place[v] \/ v = w
  BY PlaceAssumption
<1>6. i.group = j.group /\ i.kind = j.kind
  BY <1>1, <1>3, <1>4, <1>5 DEF less
<1>7. i.namespace = j.namespace /\ i.name = j.name
  BY <1>4, <1>5, <1>6 DEF less
<1> QED
  BY <1>6, <1>7 DEF Metadata
=============================================================================
