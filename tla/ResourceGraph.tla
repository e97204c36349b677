--------------------------- MODULE ResourceGraph ---------------------------
(***************************************************************************)
(* The dependency graph of pkg/resource/graph.go as constant operators.    *)
(* A manifest stands for one *unstructured.Unstructured pointer: two       *)
(* manifests may carry the same identity (the same object written twice in *)
(* the input files), and the code keeps them apart because its maps are    *)
(* keyed by pointer.  A slice of objects is a sequence without repetition. *)
(*                                                                         *)
(* Body[m] holds what NewDependencyGraph reads of the content of m:        *)
(*   id           its ObjectMetadata                                       *)
(*   kind, ns     the GroupKind and the namespace in that metadata         *)
(*   definesKind  the GroupKind a valid CRD defines, None for the rest     *)
(*   definesNs    the name of a Namespace, None for the rest               *)
(*   services     the Service identities a webhook configuration calls     *)
(*   dependsOn    the identities in the depends-on annotation              *)
(*   malformed    whether that annotation fails to parse                   *)
(***************************************************************************)
EXTENDS Naturals, Sequences, FiniteSets

CONSTANTS Manifests, Ids, Body, None

BodyType == [id : Ids, kind : STRING, ns : STRING \cup {None},
             definesKind : STRING \cup {None}, definesNs : STRING \cup {None},
             services : SUBSET Ids, dependsOn : SUBSET Ids, malformed : BOOLEAN]

ASSUME BodyAssumption ==
  /\ DOMAIN Body = Manifests
  /\ \A m \in Manifests : Body[m] \in BodyType

IdOf(m) == Body[m].id

Vertices(objs) == {objs[i] : i \in DOMAIN objs}

\* The value a Go map filled in slice order holds for a key: the last object
\* for which P holds, as a set of at most one element.
LastWith(objs, P(_)) ==
  {objs[i] : i \in {j \in DOMAIN objs :
                      P(objs[j]) /\ \A k \in DOMAIN objs : k > j => ~P(objs[k])}}

\* metadataLookup: one object for each identity of the slice.
Lookup(objs, id)  == LastWith(objs, LAMBDA m : Body[m].id = id)
MetadataLookup(objs) == UNION {Lookup(objs, IdOf(m)) : m \in Vertices(objs)}

Crds(objs, kind) == LastWith(objs, LAMBDA m : Body[m].definesKind = kind)
Namespaces(objs, ns) ==
  IF ns = None THEN {} ELSE LastWith(objs, LAMBDA m : Body[m].definesNs = ns)
Webhooks(objs, id) == {m \in Vertices(objs) : id \in Body[m].services}

\* The edges of the graph: <<from, to>> when from must wait for to.
Edges(objs) ==
  LET looked == MetadataLookup(objs) IN
  UNION {   ({m} \X Crds(objs, Body[m].kind))
       \cup ({m} \X Namespaces(objs, Body[m].ns))
       \cup (Webhooks(objs, IdOf(m)) \X {m})
       \cup ({m} \X UNION {Lookup(objs, d) : d \in Body[m].dependsOn})
         : m \in looked}

\* NewDependencyGraph fails on a malformed annotation and on a dependency that
\* is not in the slice (ExternalDependencyError).
GraphError(objs) ==
  \E m \in MetadataLookup(objs) :
     \/ Body[m].malformed
     \/ \E d \in Body[m].dependsOn : Lookup(objs, d) = {}

-----------------------------------------------------------------------------
(* SortedResourceGroups as a function of the graph, for the modules that    *)
(* need its answer and not its steps: Peeled(V, E)[n] are the vertices the  *)
(* first n iterations of the loop remove.                                   *)

Free(V, E) == {v \in V : \A e \in E : e[1] = v => e[2] \notin V}

Peeled(V, E, bound) ==
  LET peel[n \in 0..bound] ==
        IF n = 0 THEN {}
        ELSE peel[n - 1] \cup Free(V \ peel[n - 1], E)
  IN peel

\* Layers are never empty before the loop stops, so as many as are not empty.
Groups(objs) ==
  LET p     == Peeled(Vertices(objs), Edges(objs), Len(objs))
      depth == Cardinality({i \in 1..Len(objs) : p[i] # p[i - 1]})
  IN [i \in 1..depth |-> p[i] \ p[i - 1]]

Grouped(objs) == UNION {Groups(objs)[i] : i \in DOMAIN Groups(objs)}

\* CyclicDependencyError: some vertex is never free.
Cyclic(objs) == Grouped(objs) # Vertices(objs)
=============================================================================
