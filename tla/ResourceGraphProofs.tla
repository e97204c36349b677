------------------------ MODULE ResourceGraphProofs ------------------------
(***************************************************************************)
(* What Groups returns for every slice whose graph has no cycle: a         *)
(* partition of the objects.  Facts about a recursive function are proved  *)
(* from its smallest counterexample.                                       *)
(***************************************************************************)
EXTENDS ResourceGraph, FiniteSetTheorems, TLAPS

\* Every set of naturals that is not empty has a least element.
LEMMA LeastElement ==
  ASSUME NEW T, T \subseteq Nat, T # {}
  PROVE  \E k \in T : \A j \in T : k <= j
<1> DEFINE R == OpToRel(<, Nat)
<1>1. \E k \in T : \A j \in T : ~(<<j, k>> \in R)
  BY NatLessThanWellFounded, WFMin
<1>2. PICK k \in T : \A j \in T : ~(<<j, k>> \in R)
  BY <1>1
<1>3. \A j \in T : ~(j < k)
  BY <1>2 DEF OpToRel
<1> QED
  BY <1>3

\* One more iteration of the loop at every step.
PeelFcn(f, V, E, k) ==
  f = [n \in 0..k |-> IF n = 0 THEN {} ELSE f[n - 1] \cup Free(V \ f[n - 1], E)]

LEMMA PeelExists ==
  ASSUME NEW V, NEW E, NEW k \in Nat PROVE \E f : PeelFcn(f, V, E, k)
<1> DEFINE Bad == {m \in Nat : ~\E f : PeelFcn(f, V, E, m)}
<1> SUFFICES ASSUME Bad # {} PROVE FALSE
  OBVIOUS
<1>1. PICK m \in Bad : \A j \in Bad : m <= j
  BY LeastElement
<1>2. m # 0
  <2> DEFINE g == [n \in 0..0 |-> {}]
  <2>1. PeelFcn(g, V, E, 0)
    BY DEF PeelFcn
  <2> QED
    BY <2>1
<1>3. m \in Nat /\ m - 1 \in Nat /\ m - 1 \notin Bad
  BY <1>1, <1>2
<1>4. PICK f : PeelFcn(f, V, E, m - 1)
  BY <1>3
<1> DEFINE g == [n \in 0..m |-> IF n = m THEN f[m - 1] \cup Free(V \ f[m - 1], E) ELSE f[n]]
<1>5. \A n \in 0..(m - 1) : g[n] = f[n]
  BY <1>3
<1>6. g[m] = g[m - 1] \cup Free(V \ g[m - 1], E)
  <2>1. m \in 0..m /\ m - 1 \in 0..(m - 1)
    BY <1>3
  <2>2. g[m] = f[m - 1] \cup Free(V \ f[m - 1], E)
    BY <2>1
  <2>3. g[m - 1] = f[m - 1]
    BY <1>5, <2>1
  <2> QED
    BY <2>2, <2>3
<1>7. \A n \in 0..(m - 1) :
         f[n] = IF n = 0 THEN {} ELSE f[n - 1] \cup Free(V \ f[n - 1], E)
  BY <1>4 DEF PeelFcn
<1>8. ASSUME NEW n \in 0..m
      PROVE  g[n] = IF n = 0 THEN {} ELSE g[n - 1] \cup Free(V \ g[n - 1], E)
  <2>1. CASE n = m
    BY <1>2, <1>6, <2>1
  <2>2. CASE n = 0
    <3>1. 0 \in 0..(m - 1)
      BY <1>3
    <3>2. g[0] = f[0] /\ f[0] = {}
      BY <1>5, <1>7, <3>1
    <3> QED
      BY <2>2, <3>2
  <2>3. CASE n # m /\ n # 0
    <3>1. n \in 0..(m - 1) /\ n - 1 \in 0..(m - 1)
      BY <1>3, <2>3
    <3> QED
      BY <1>5, <1>7, <2>3, <3>1
  <2> QED
    BY <2>1, <2>2, <2>3
<1> HIDE DEF g
<1>9. g = [n \in 0..m |-> IF n = 0 THEN {} ELSE g[n - 1] \cup Free(V \ g[n - 1], E)]
  BY <1>8 DEF g
<1> QED
  BY <1>1, <1>9 DEF PeelFcn

LEMMA PeeledIsPeelFcn ==
  ASSUME NEW V, NEW E, NEW k \in Nat PROVE PeelFcn(Peeled(V, E, k), V, E, k)
<1>1. Peeled(V, E, k) = CHOOSE f : PeelFcn(f, V, E, k)
  BY DEF Peeled, PeelFcn
<1> QED
  BY <1>1, PeelExists

\* A vertex that has been peeled stays peeled.
LEMMA PeeledGrows ==
  ASSUME NEW V, NEW E, NEW k \in Nat, NEW i \in 0..k, NEW j \in i..k
  PROVE  Peeled(V, E, k)[i] \subseteq Peeled(V, E, k)[j]
<1> DEFINE p == Peeled(V, E, k)
<1>1. \A n \in 1..k : p[n - 1] \subseteq p[n]
  <2>1. PeelFcn(p, V, E, k)
    BY PeeledIsPeelFcn
  <2> HIDE DEF p
  <2> TAKE n \in 1..k
  <2>2. n \in 0..k /\ n # 0
    OBVIOUS
  <2>3. p[n] = p[n - 1] \cup Free(V \ p[n - 1], E)
    BY <2>1, <2>2 DEF PeelFcn
  <2> QED
    BY <2>3
<1> HIDE DEF p
<1> DEFINE Bad == {m \in Nat : m \in i..k /\ ~(p[i] \subseteq p[m])}
<1> SUFFICES ASSUME Bad # {} PROVE FALSE
  BY DEF p
<1>2. PICK m \in Bad : \A l \in Bad : m <= l
  BY LeastElement
<1>3. m # i /\ m \in 1..k /\ m - 1 \in i..k
  BY <1>2
<1>4. m - 1 \notin Bad
  BY <1>2
<1> QED
  BY <1>1, <1>2, <1>3, <1>4

\* The equations of the iterations.
LEMMA PeeledStep ==
  ASSUME NEW V, NEW E, NEW k \in Nat
  PROVE  LET p == Peeled(V, E, k)
         IN  p[0] = {} /\ \A n \in 1..k : p[n] = p[n - 1] \cup Free(V \ p[n - 1], E)
<1> DEFINE p == Peeled(V, E, k)
<1>1. PeelFcn(p, V, E, k)
  BY PeeledIsPeelFcn
<1> HIDE DEF p
<1>2. \A n \in 0..k : p[n] = IF n = 0 THEN {} ELSE p[n - 1] \cup Free(V \ p[n - 1], E)
  BY <1>1 DEF PeelFcn
<1>3. p[0] = {}
  <2>1. 0 \in 0..k
    OBVIOUS
  <2>2. p[0] = IF 0 = 0 THEN {} ELSE p[0 - 1] \cup Free(V \ p[0 - 1], E)
    BY <1>2, <2>1
  <2> QED
    BY <2>2
<1>4. ASSUME NEW n \in 1..k PROVE p[n] = p[n - 1] \cup Free(V \ p[n - 1], E)
  <2>1. n \in 0..k /\ n # 0
    OBVIOUS
  <2>2. p[n] = IF n = 0 THEN {} ELSE p[n - 1] \cup Free(V \ p[n - 1], E)
    BY <1>2, <2>1
  <2> QED
    BY <2>1, <2>2
<1> QED
  BY <1>3, <1>4 DEF p

\* Once no vertex is free none is peeled any more.
LEMMA PeeledStops ==
  ASSUME NEW V, NEW E, NEW k \in Nat, NEW n \in 0..k,
         Free(V \ Peeled(V, E, k)[n], E) = {}
  PROVE  \A m \in n..k : Peeled(V, E, k)[m] = Peeled(V, E, k)[n]
<1> DEFINE p == Peeled(V, E, k)
           Bad == {m \in Nat : m \in n..k /\ p[m] # p[n]}
<1>1. \A m \in 1..k : p[m] = p[m - 1] \cup Free(V \ p[m - 1], E)
  BY PeeledStep
<1>2. Free(V \ p[n], E) = {}
  OBVIOUS
<1> HIDE DEF p
<1> SUFFICES ASSUME Bad # {} PROVE FALSE
  BY DEF p
<1>3. PICK m \in Bad : \A l \in Bad : m <= l
  BY LeastElement
<1>4. m # n /\ m \in 1..k /\ m - 1 \in n..k
  BY <1>3
<1>5. m - 1 \notin Bad
  BY <1>3
<1>6. p[m - 1] = p[n]
  BY <1>4, <1>5
<1> QED
  BY <1>1, <1>2, <1>3, <1>4, <1>6

\* A peeled vertex was peeled by one of the iterations.
LEMMA PeeledOnce ==
  ASSUME NEW V, NEW E, NEW k \in Nat, NEW n \in 0..k, NEW v \in Peeled(V, E, k)[n]
  PROVE  \E i \in 1..n : v \in Peeled(V, E, k)[i] \ Peeled(V, E, k)[i - 1]
<1> DEFINE p == Peeled(V, E, k)
           In == {i \in Nat : i <= n /\ v \in p[i]}
<1>1. p[0] = {}
  BY PeeledStep
<1>2. v \in p[n]
  OBVIOUS
<1> HIDE DEF p
<1>3. PICK i \in In : \A j \in In : i <= j
  <2>1. In # {}
    BY <1>2
  <2> QED
    BY <2>1, LeastElement
<1>4. i # 0
  BY <1>1, <1>3
<1>5. i \in 1..n /\ i - 1 \notin In /\ i - 1 \in Nat
  BY <1>3, <1>4
<1>6. v \in p[i] \ p[i - 1]
  BY <1>3, <1>5
<1> QED
  BY <1>5, <1>6 DEF p

\* The groups of a slice, once it is known how many iterations peel something.
LEMMA GroupsWhenStopped ==
  ASSUME NEW objs \in Seq(Manifests), NEW n \in 0..Len(objs),
         Free(Vertices(objs) \ Peeled(Vertices(objs), Edges(objs), Len(objs))[n],
              Edges(objs)) = {},
         \A i \in 1..n : Peeled(Vertices(objs), Edges(objs), Len(objs))[i]
                           # Peeled(Vertices(objs), Edges(objs), Len(objs))[i - 1]
  PROVE  /\ Groups(objs) = [i \in 1..n |->
                              Peeled(Vertices(objs), Edges(objs), Len(objs))[i]
                                \ Peeled(Vertices(objs), Edges(objs), Len(objs))[i - 1]]
         /\ Grouped(objs) = Peeled(Vertices(objs), Edges(objs), Len(objs))[n]
<1> DEFINE k == Len(objs)
           p == Peeled(Vertices(objs), Edges(objs), k)
           T == {i \in 1..k : p[i] # p[i - 1]}
<1>1. k \in Nat
  OBVIOUS
<1>2. \A m \in n..k : p[m] = p[n]
  BY <1>1, PeeledStops
<1>3. \A i \in 1..n : p[i] # p[i - 1]
  OBVIOUS
<1>4. Groups(objs) = [i \in 1..Cardinality(T) |-> p[i] \ p[i - 1]]
  BY DEF Groups
<1>5. \A i \in 0..n : p[i] \subseteq p[n]
  BY <1>1, PeeledGrows
<1>6. \A v \in p[n] : \E i \in 1..n : v \in p[i] \ p[i - 1]
  BY <1>1, PeeledOnce
<1> HIDE DEF p
<1>7. T = 1..n
  <2>1. ASSUME NEW i \in 1..k, i > n PROVE p[i] = p[i - 1]
    <3>1. i \in n..k /\ i - 1 \in n..k
      BY <1>1, <2>1
    <3> QED
      BY <1>2, <3>1
  <2> QED
    BY <1>1, <1>3, <2>1
<1>8. Cardinality(T) = n
  <2>1. Cardinality(1..n) = n
    BY <1>1, FS_Interval
  <2> QED
    BY <1>7, <2>1
<1> HIDE DEF T
<1>9. Groups(objs) = [i \in 1..n |-> p[i] \ p[i - 1]]
  BY <1>4, <1>8
<1>10. Grouped(objs) = p[n]
  <2>1. \A i \in 1..n : i \in 0..n
    BY <1>1
  <2> QED
    BY <1>5, <1>6, <1>9, <2>1 DEF Grouped
<1> QED
  BY <1>9, <1>10 DEF p

\* SortedResourceGroups puts every object of an acyclic graph in one group
\* exactly (graph.go:48-85), so every object is handed to one apply task.
LEMMA GroupsPartition ==
  ASSUME NEW objs \in Seq(Manifests), ~Cyclic(objs)
  PROVE  /\ Groups(objs) \in Seq(SUBSET Manifests)
         /\ UNION {Groups(objs)[i] : i \in DOMAIN Groups(objs)} = Vertices(objs)
         /\ \A i, j \in DOMAIN Groups(objs) :
              i # j => Groups(objs)[i] \cap Groups(objs)[j] = {}
<1> DEFINE n == Len(objs)
           p == Peeled(Vertices(objs), Edges(objs), n)
           T == {i \in 1..n : p[i] # p[i - 1]}
           d == Cardinality(T)
<1>1. n \in Nat
  OBVIOUS
<1>2. d \in Nat /\ d <= n
  <2>1. IsFiniteSet(1..n) /\ Cardinality(1..n) = n
    BY <1>1, FS_Interval
  <2>2. T \in SUBSET (1..n)
    OBVIOUS
  <2> HIDE DEF T
  <2>3. IsFiniteSet(T) /\ Cardinality(T) <= n
    BY <2>1, <2>2, FS_Subset
  <2> QED
    BY <2>3, FS_CardinalityType
<1>3. Groups(objs) = [i \in 1..d |-> p[i] \ p[i - 1]]
  BY DEF Groups
<1>4. UNION {Groups(objs)[i] : i \in DOMAIN Groups(objs)} = Vertices(objs)
  BY DEF Cyclic, Grouped
<1> HIDE DEF d, p, n
<1>5. Vertices(objs) \subseteq Manifests
  BY DEF Vertices
<1>6. DOMAIN Groups(objs) = 1..d
  BY <1>3
<1>7. Groups(objs) \in Seq(SUBSET Manifests)
  <2>1. \A i \in 1..d : Groups(objs)[i] \in SUBSET Manifests
    BY <1>4, <1>5, <1>6
  <2>2. Groups(objs) = [i \in 1..d |-> Groups(objs)[i]]
    BY <1>3
  <2> QED
    BY <1>2, <2>1, <2>2
<1>8. ASSUME NEW i \in 1..d, NEW j \in 1..d, i < j
      PROVE  Groups(objs)[i] \cap Groups(objs)[j] = {}
  <2>1. i \in 0..n /\ j - 1 \in i..n
    BY <1>1, <1>2, <1>8
  <2>2. p[i] \subseteq p[j - 1]
    BY <1>1, <2>1, PeeledGrows DEF p
  <2> QED
    BY <1>3, <2>2
<1>9. ASSUME NEW i \in 1..d, NEW j \in 1..d, i # j
      PROVE  Groups(objs)[i] \cap Groups(objs)[j] = {}
  <2>1. i < j \/ j < i
    BY <1>2, <1>9
  <2>2. CASE i < j
    BY <1>8, <2>2
  <2>3. CASE j < i
    <3>1. Groups(objs)[j] \cap Groups(objs)[i] = {}
      BY <1>8, <2>3
    <3> QED
      BY <3>1
  <2> QED
    BY <2>1, <2>2, <2>3
<1> QED
  BY <1>4, <1>6, <1>7, <1>9

LEMMA EdgesArePairs ==
  ASSUME NEW s PROVE \A e \in Edges(s) : e = <<e[1], e[2]>>
  BY DEF Edges

-----------------------------------------------------------------------------
(* In which group an object is.                                             *)

LEMMA GroupsShape ==
  ASSUME NEW objs \in Seq(Manifests)
  PROVE  \E d \in 0..Len(objs) :
           Groups(objs) = [i \in 1..d |->
             Peeled(Vertices(objs), Edges(objs), Len(objs))[i]
               \ Peeled(Vertices(objs), Edges(objs), Len(objs))[i - 1]]
<1> DEFINE n == Len(objs)
           p == Peeled(Vertices(objs), Edges(objs), n)
           T == {i \in 1..n : p[i] # p[i - 1]}
<1>1. n \in Nat
  OBVIOUS
<1>2. Cardinality(T) \in 0..n
  <2>1. IsFiniteSet(1..n) /\ Cardinality(1..n) = n
    BY <1>1, FS_Interval
  <2>2. T \in SUBSET (1..n)
    OBVIOUS
  <2> HIDE DEF T
  <2>3. IsFiniteSet(T) /\ Cardinality(T) <= n
    BY <2>1, <2>2, FS_Subset
  <2> QED
    BY <1>1, <2>3, FS_CardinalityType
<1>3. Groups(objs) = [i \in 1..Cardinality(T) |-> p[i] \ p[i - 1]]
  BY DEF Groups
<1> QED
  BY <1>2, <1>3

\* An object is in the group after those of everything it waits for, and no
\* later.
LEMMA GroupIsFree ==
  ASSUME NEW objs \in Seq(Manifests), NEW i \in DOMAIN Groups(objs), NEW v \in Groups(objs)[i]
  PROVE  /\ i \in Nat \ {0} /\ v \in Vertices(objs)
         /\ \A w \in Vertices(objs) : <<v, w>> \in Edges(objs) =>
              \E j \in 1..(i - 1) : j \in DOMAIN Groups(objs) /\ w \in Groups(objs)[j]
         /\ \A w \in Vertices(objs) :
              (\A e \in Edges(objs) : e[1] = w => <<v, e[2]>> \in Edges(objs)) =>
                \E j \in 1..i : j \in DOMAIN Groups(objs) /\ w \in Groups(objs)[j]
<1> DEFINE V == Vertices(objs)
           E == Edges(objs)
           n == Len(objs)
           p == Peeled(V, E, n)
<1>1. PICK d \in 0..n : Groups(objs) = [j \in 1..d |-> p[j] \ p[j - 1]]
  BY GroupsShape
<1>2. n \in Nat /\ d \in Nat /\ i \in 1..d /\ i \in 1..n /\ i \in 0..n /\ i - 1 \in 0..n
  BY <1>1
<1>3. p[i] = p[i - 1] \cup Free(V \ p[i - 1], E)
  <2>0. n \in Nat
    BY <1>2
  <2> HIDE DEF n, V, E
  <2>1. \A m \in 1..n : p[m] = p[m - 1] \cup Free(V \ p[m - 1], E)
    BY <2>0, PeeledStep
  <2> QED
    BY <1>2, <2>1
<1>4. \A w \in p[i - 1] : \E j \in 1..(i - 1) : w \in p[j] \ p[j - 1]
  BY <1>2, PeeledOnce
<1>5. \A w \in p[i] : \E j \in 1..i : w \in p[j] \ p[j - 1]
  BY <1>2, PeeledOnce
<1> HIDE DEF p, V, E
<1>6. v \in Free(V \ p[i - 1], E)
  BY <1>1, <1>2, <1>3
<1>7. ASSUME NEW w \in V, <<v, w>> \in E
      PROVE  \E j \in 1..(i - 1) : j \in DOMAIN Groups(objs) /\ w \in Groups(objs)[j]
  <2>1. w \in p[i - 1]
    <3>1. <<v, w>>[1] = v /\ <<v, w>>[2] = w
      OBVIOUS
    <3> QED
      BY <1>6, <1>7, <3>1 DEF Free
  <2>2. PICK j \in 1..(i - 1) : w \in p[j] \ p[j - 1]
    BY <1>4, <2>1
  <2>3. j \in 1..d
    BY <1>2
  <2> QED
    BY <1>1, <2>2, <2>3
<1>8. ASSUME NEW w \in V, \A e \in E : e[1] = w => <<v, e[2]>> \in E
      PROVE  \E j \in 1..i : j \in DOMAIN Groups(objs) /\ w \in Groups(objs)[j]
  <2>1. ASSUME w \notin p[i - 1] PROVE w \in Free(V \ p[i - 1], E)
    <3>1. ASSUME NEW e \in E, e[1] = w PROVE e[2] \notin V \ p[i - 1]
      <4>1. <<v, e[2]>> \in E /\ <<v, e[2]>>[1] = v /\ <<v, e[2]>>[2] = e[2]
        BY <1>8, <3>1
      <4> QED
        BY <1>6, <4>1 DEF Free
    <3> QED
      BY <2>1, <3>1 DEF Free
  <2>2. w \in p[i]
    BY <1>3, <2>1
  <2>3. PICK j \in 1..i : w \in p[j] \ p[j - 1]
    BY <1>5, <2>2
  <2>4. j \in 1..d
    BY <1>2
  <2> QED
    BY <1>1, <2>3, <2>4
<1>9. v \in V
  BY <1>6 DEF Free
<1> QED
  BY <1>2, <1>7, <1>8, <1>9 DEF V, E

-----------------------------------------------------------------------------
(* Copies: two objects of a slice with one identity.                        *)

\* What is written twice defines the same kind or namespace and calls the same
\* services in both copies.
CopiesAgree ==
  \A m, c \in Manifests : IdOf(m) = IdOf(c) =>
    /\ Body[m].definesKind = Body[c].definesKind
    /\ Body[m].definesNs = Body[c].definesNs
    /\ Body[m].services = Body[c].services

LEMMA LookupIsUnique ==
  ASSUME NEW objs \in Seq(Manifests), NEW id, NEW m \in Lookup(objs, id),
         NEW c \in Lookup(objs, id)
  PROVE  m = c
<1>1. PICK i \in DOMAIN objs : /\ m = objs[i] /\ Body[objs[i]].id = id
                               /\ \A k \in DOMAIN objs : k > i => Body[objs[k]].id # id
  BY DEF Lookup, LastWith
<1>2. PICK j \in DOMAIN objs : /\ c = objs[j] /\ Body[objs[j]].id = id
                               /\ \A k \in DOMAIN objs : k > j => Body[objs[k]].id # id
  BY DEF Lookup, LastWith
<1>3. i \in Nat /\ j \in Nat
  OBVIOUS
<1>4. ~(i > j) /\ ~(j > i)
  BY <1>1, <1>2
<1> QED
  BY <1>1, <1>2, <1>3, <1>4

\* Of several copies only the one the lookup finds is waited for.
LEMMA DependencyIsLookedUp ==
  ASSUME CopiesAgree, NEW objs \in Seq(Manifests), NEW e \in Edges(objs)
  PROVE  e[2] \in Vertices(objs) /\ e[2] \in Lookup(objs, IdOf(e[2]))
<1>1. \A i \in DOMAIN objs : objs[i] \in Manifests
  OBVIOUS
<1>2. ASSUME NEW kind, NEW m \in Crds(objs, kind)
      PROVE  m \in Vertices(objs) /\ m \in Lookup(objs, IdOf(m))
  <2>1. PICK i \in DOMAIN objs :
          /\ m = objs[i] /\ Body[objs[i]].definesKind = kind
          /\ \A k \in DOMAIN objs : k > i => Body[objs[k]].definesKind # kind
    BY <1>2 DEF Crds, LastWith
  <2>2. \A k \in DOMAIN objs : k > i => Body[objs[k]].id # IdOf(m)
    BY <1>1, <2>1 DEF CopiesAgree, IdOf
  <2> QED
    BY <2>1, <2>2 DEF Lookup, LastWith, Vertices, IdOf
<1>3. ASSUME NEW ns, NEW m \in Namespaces(objs, ns)
      PROVE  m \in Vertices(objs) /\ m \in Lookup(objs, IdOf(m))
  <2>1. PICK i \in DOMAIN objs :
          /\ m = objs[i] /\ Body[objs[i]].definesNs = ns
          /\ \A k \in DOMAIN objs : k > i => Body[objs[k]].definesNs # ns
    BY <1>3 DEF Namespaces, LastWith
  <2>2. \A k \in DOMAIN objs : k > i => Body[objs[k]].id # IdOf(m)
    BY <1>1, <2>1 DEF CopiesAgree, IdOf
  <2> QED
    BY <2>1, <2>2 DEF Lookup, LastWith, Vertices, IdOf
<1>4. ASSUME NEW id, NEW m \in Lookup(objs, id)
      PROVE  m \in Vertices(objs) /\ m \in Lookup(objs, IdOf(m))
  BY <1>4 DEF Lookup, LastWith, Vertices, IdOf
<1>5. PICK m \in MetadataLookup(objs) :
        \/ e \in {m} \X Crds(objs, Body[m].kind)
        \/ e \in {m} \X Namespaces(objs, Body[m].ns)
        \/ e \in Webhooks(objs, IdOf(m)) \X {m}
        \/ e \in {m} \X UNION {Lookup(objs, d) : d \in Body[m].dependsOn}
  BY DEF Edges
<1>6. \/ \E kind : e[2] \in Crds(objs, kind)
      \/ \E ns : e[2] \in Namespaces(objs, ns)
      \/ \E id : e[2] \in Lookup(objs, id)
  BY <1>5 DEF MetadataLookup
<1> QED
  BY <1>2, <1>3, <1>4, <1>6

\* A copy of a dependency is in its group or in an earlier one.
LEMMA CopiesNotLater ==
  ASSUME CopiesAgree, NEW objs \in Seq(Manifests), NEW e \in Edges(objs),
         NEW i \in DOMAIN Groups(objs), e[2] \in Groups(objs)[i],
         NEW c \in Vertices(objs), IdOf(c) = IdOf(e[2])
  PROVE  \E j \in 1..i : j \in DOMAIN Groups(objs) /\ c \in Groups(objs)[j]
<1> DEFINE w == e[2]
<1>1. w \in Vertices(objs) /\ w \in Lookup(objs, IdOf(w))
  BY DependencyIsLookedUp
<1> HIDE DEF w
<1>2. CASE c = w
  <2>1. i \in Nat \ {0}
    BY GroupIsFree
  <2> QED
    BY <1>2, <2>1 DEF w
<1>3. CASE c # w
  <2>1. c \notin MetadataLookup(objs)
    <3>1. ASSUME NEW id, c \in Lookup(objs, id) PROVE FALSE
      <4>1. id = IdOf(c)
        BY <3>1 DEF Lookup, LastWith, IdOf
      <4> QED
        BY <1>1, <1>3, <3>1, <4>1, LookupIsUnique DEF w
    <3> QED
      BY <3>1 DEF MetadataLookup
  <2>2. ASSUME NEW f \in Edges(objs), f[1] = c PROVE <<w, f[2]>> \in Edges(objs)
    <3>1. PICK m \in MetadataLookup(objs) :
            \/ f \in {m} \X Crds(objs, Body[m].kind)
            \/ f \in {m} \X Namespaces(objs, Body[m].ns)
            \/ f \in Webhooks(objs, IdOf(m)) \X {m}
            \/ f \in {m} \X UNION {Lookup(objs, d) : d \in Body[m].dependsOn}
      BY <2>2 DEF Edges
    <3>2. c \in Webhooks(objs, IdOf(m)) /\ f[2] = m
      BY <2>1, <2>2, <3>1
    <3>3. w \in Manifests /\ c \in Manifests
      BY <1>1 DEF Vertices
    <3>4. w \in Webhooks(objs, IdOf(m))
      BY <1>1, <3>2, <3>3 DEF Webhooks, CopiesAgree, w
    <3>5. <<w, m>> \in Webhooks(objs, IdOf(m)) \X {m}
      BY <3>4
    <3> QED
      BY <3>1, <3>2, <3>5 DEF Edges
  <2> QED
    BY <2>2, GroupIsFree DEF w
<1> QED
  BY <1>2, <1>3
=============================================================================
