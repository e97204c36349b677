--------------------------- MODULE ObjectIdentity ---------------------------
(***************************************************************************)
(* From a manifest to the object it names, run after run: the readers      *)
(* (pkg/resourcereader/common.go) give it a namespace, by the scope of its *)
(* kind (pkg/resource/scope.go); its identity is saved as a key of the     *)
(* inventory (pkg/inventory/configmap.go); the next run reads the keys and *)
(* prunes the objects that its own input does not name                     *)
(* (pkg/client/applier.go), the Jobs it generates from its CronJobs        *)
(* included (pkg/generator/cronjob.go).                                    *)
(*                                                                         *)
(* Text is that of module ObjectNames.                                     *)
(***************************************************************************)
EXTENDS ObjectNames

CONSTANTS
  Words,       \* the symbols of letters and digits
  ScopeOf,     \* the scope the server gives each kind: "namespaced" or "cluster"
  Builtin,     \* the pairs of a kind and a version the server always serves
  Custom,      \* those it serves while their definition is installed
  Readers,     \* the configurations of the reader
  Inputs,      \* sequences of manifests
  RandomParts, \* what a generated name may end with
  Wanted,      \* the lists given to SetObjectExplicitDependencies
  MaxKey       \* the longest key of a ConfigMap

CrdKind == <<"CustomResourceDefinition">>
CronJob == <<"CronJob">>
Job     == <<"Job">>

\* What the steps of a run look at in an object.
ManifestType ==
  [kind : Text, name : Text, namespace : Text, group : Text, version : STRING,
   dependsOn : Text, local : BOOLEAN, valid : BOOLEAN, generates : BOOLEAN,
   defines : [kind : Text, versions : SUBSET STRING, scope : STRING]]

\* A custom resource definition tells the scope the server will give its kind.
ASSUME ObjectIdentityAssumption ==
  /\ Words \cap Marks = {} /\ Builtin \cap Custom = {} /\ MaxKey \in Nat
  /\ ScopeOf \in [DOMAIN ScopeOf -> {"namespaced", "cluster"}]
  /\ Job \in DOMAIN ScopeOf /\ ScopeOf[Job] = "namespaced"
  /\ \A kv \in Builtin \cup Custom : kv[1] \in DOMAIN ScopeOf
  /\ Inputs \subseteq Seq(ManifestType)
  /\ \A in \in Inputs : \A i \in DOMAIN in :
       /\ in[i].kind \in DOMAIN ScopeOf
       /\ in[i].defines.kind \in DOMAIN ScopeOf
            => in[i].defines.scope = ScopeOf[in[i].defines.kind]

\* What a cluster admits as a namespace, a group or a kind. Its objects have a
\* name, which is a segment of a path, and the objects of a manifest and those
\* it may depend on are such objects.
Plain(text) == Only(text, Words \cup {".", "-"})
Admitted(m) == Plain(m.namespace) /\ Plain(m.group) /\ Only(m.kind, Words)

ASSUME NamesAssumption ==
  /\ RandomParts \subseteq Words
  /\ \A kind \in DOMAIN ScopeOf : Only(kind, Words)
  /\ \A reader \in Readers : reader.namespace \in Text /\ Plain(reader.namespace)
  /\ \A in \in Inputs : \A i \in DOMAIN in : Admitted(in[i]) /\ in[i].name # <<>>
  /\ Wanted \subseteq Seq([namespace : Text, name : Text, group : Text, kind : Text])
  /\ \A deps \in Wanted : \A k \in DOMAIN deps :
       Admitted(deps[k]) /\ Positions(deps[k].name, "/") = {}

VARIABLES
  pc,       \* "idle", "read" or "run"
  served,   \* the pairs of a kind and a version the REST mapper finds
  objs,     \* the objects of the input, as the reader returned them
  stored,   \* the keys in the ConfigMap
  starting, \* the identities of the tracked objects that were found
  \* ghosts
  asked,    \* the last list that was set on the first object
  saved,    \* the identities last saved
  checked   \* every input came from a reader that looks at scopes

vars == <<pc, served, objs, stored, starting, asked, saved, checked>>

\* ObjectMetadataFromUnstructured
Identity(o) == [namespace |-> o.namespace, name |-> o.name, group |-> o.group, kind |-> o.kind]

Identities == {Identity(objs[i]) : i \in DOMAIN objs}

-----------------------------------------------------------------------------
(* The readers. *)

\* The scope a definition among the objects gives to the kind and version of o.
DefinedScopes(os, o) ==
  {os[i].defines.scope : i \in {j \in DOMAIN os :
     /\ os[j].kind = CrdKind /\ os[j].valid
     /\ os[j].defines.kind = o.kind /\ o.version \in os[j].defines.versions
     /\ os[j].defines.scope \in {"namespaced", "cluster"}}}

\* resource.Scope
Scope(os, o) ==
  IF <<o.kind, o.version>> \in served THEN ScopeOf[o.kind]
  ELSE IF DefinedScopes(os, o) # {} THEN CHOOSE s \in DefinedScopes(os, o) : TRUE
  ELSE "unknown"

\* setNamespace does nothing without a namespace to set or to enforce.
LooksAtScopes(reader) == reader.enforce \/ reader.namespace # <<>>

\* Mutant: an object of cluster scope keeps the namespace it came with.
RefusedButCluster(reader, os, o) ==
  \/ Scope(os, o) = "unknown"
  \/ /\ Scope(os, o) = "namespaced" /\ reader.enforce
     /\ o.namespace \notin {<<>>, reader.namespace}

\* setNamespace refuses an object ...
Refused(reader, os, o) ==
  \/ Scope(os, o) = "unknown"
  \/ /\ Scope(os, o) = "namespaced" /\ reader.enforce
     /\ o.namespace \notin {<<>>, reader.namespace}
  \/ Scope(os, o) = "cluster" /\ o.namespace # <<>>

\* ... or completes it.
Completed(reader, os, o) ==
  IF Scope(os, o) = "namespaced" /\ o.namespace = <<>>
  THEN [o EXCEPT !.namespace = reader.namespace] ELSE o

\* The one sequence of the elements of s at the positions S, in their order:
\* what a loop that appends some of them ends with.
Selected(s, S) ==
  {[k \in 1..Cardinality(S) |-> s[at[k]]] :
     at \in {f \in [1..Cardinality(S) -> S] : \A j, k \in DOMAIN f : j < k => f[j] < f[k]}}

\* Read: what objectsFromReader kept of the manifests, and setNamespace.
Read(reader, in) ==
  /\ pc = "idle"
  /\ \E kept \in Selected(in, {i \in DOMAIN in : ~in[i].local}) :
       IF LooksAtScopes(reader)
       THEN /\ \A i \in DOMAIN kept : ~Refused(reader, kept, kept[i])
            /\ objs' = [i \in DOMAIN kept |-> Completed(reader, kept, kept[i])]
       ELSE objs' = kept
  /\ pc' = "read"
  /\ asked' = <<>>
  /\ checked' = (checked /\ LooksAtScopes(reader))
  /\ UNCHANGED <<served, stored, starting, saved>>

\* The caller orders its objects: the first one depends on others.
SetDependencies(deps) ==
  /\ pc = "read" /\ objs # <<>>
  /\ LET text == WithDependencies(objs[1].dependsOn, deps)
     IN /\ objs' = [objs EXCEPT ![1].dependsOn = text]
        /\ asked' = IF deps = <<>> \/ \E k \in DOMAIN deps : Malformed(deps[k])
                    THEN asked ELSE deps
  /\ UNCHANGED <<pc, served, stored, starting, saved, checked>>

-----------------------------------------------------------------------------
(* The run. *)

\* configMapStore.Load: keys that do not match are passed over.
Loaded == {MetadataFromString(key) : key \in {k \in stored : Matches(k, Words)}}

\* loadObjectsFromInventory: the path of the request has the namespace of the
\* key, and there is nothing at a path that does not fit the scope. At the
\* others there is the object, or one of somebody else.
Found == {m \in Loaded : m.namespace = <<>> <=> ScopeOf[m.kind] = "cluster"}

\* jobGenerator.CanHandleResource: a CronJob that is annotated for it.
CanGenerate(o) == o.kind = CronJob /\ o.generates

\* createJobFromCronJob: another Job in each run, by its random name.
JobFrom(o, suffix) ==
  [o EXCEPT !.kind = Job, !.name = @ \o <<"-", suffix>>, !.dependsOn = NoText,
            !.generates = FALSE]

\* Applier.generateObjects, with the random part of each name.
GeneratedObjects(random) ==
  {[k \in DOMAIN crons |-> JobFrom(crons[k], random[k])] :
     crons \in Selected(objs, {i \in DOMAIN objs : CanGenerate(objs[i])})}

\* A CronJob cannot be converted, or a dependency annotation cannot be read.
RunFails ==
  \E i \in DOMAIN objs : (CanGenerate(objs[i]) /\ ~objs[i].valid) \/ ParseFails(objs[i].dependsOn)

\* Run: the inventory is loaded, and objects are generated.
Start ==
  /\ pc = "read" /\ ~RunFails
  /\ starting' = Found
  /\ \E random \in [DOMAIN objs -> RandomParts] :
       \E jobs \in GeneratedObjects(random) : objs' = objs \o jobs
  /\ pc' = "run"
  /\ UNCHANGED <<served, stored, asked, saved, checked>>

\* Run ends with an error instead.
StartFails ==
  /\ pc = "read" /\ RunFails
  /\ pc' = "idle" /\ objs' = <<>> /\ asked' = <<>>
  /\ UNCHANGED <<served, stored, starting, saved, checked>>

\* findObjectsToPrune
ObjectsToPrune == starting \ Identities

\* The objects an apply request can be made for: the mapper finds the kind, and
\* a namespaced object has a namespace.
Applied ==
  {Identity(objs[i]) : i \in {j \in DOMAIN objs :
     /\ <<objs[j].kind, objs[j].version>> \in served
     /\ ScopeOf[objs[j].kind] = "namespaced" => objs[j].namespace # <<>>}}

\* The new inventory, of a run in which all other requests succeed.
NewInventory == Applied \cup (Identities \cap starting)

\* dataForStore
DataForStore == {MetadataToString(m) : m \in NewInventory}

\* What the server takes as keys of a ConfigMap.
KeysAccepted(keys) ==
  \A key \in keys : Len(key) <= MaxKey /\ Only(key, Words \cup {".", "-", Underscore})

\* configMapStore.Save: the keys of the run before are replaced, or one bad key
\* fails all of them.
Save ==
  /\ pc = "run"
  /\ IF KeysAccepted(DataForStore)
     THEN stored' = DataForStore /\ saved' = NewInventory
     ELSE UNCHANGED <<stored, saved>>
  /\ pc' = "idle" /\ objs' = <<>> /\ starting' = {} /\ asked' = <<>>
  /\ UNCHANGED <<served, checked>>

\* A definition is installed, by the run or by somebody else.
Install ==
  /\ \E kv \in Custom \ served : served' = served \cup {kv}
  /\ UNCHANGED <<pc, objs, stored, starting, asked, saved, checked>>

Init ==
  /\ pc = "idle" /\ served = Builtin /\ objs = <<>> /\ stored = {} /\ starting = {}
  /\ asked = <<>> /\ saved = {} /\ checked = TRUE

Next ==
  \/ \E reader \in Readers, in \in Inputs : Read(reader, in)
  \/ \E deps \in Wanted : SetDependencies(deps)
  \/ Start
  \/ StartFails
  \/ Save
  \/ Install

Spec == Init /\ [][Next]_vars

-----------------------------------------------------------------------------
(* Properties. *)

\* The object of the server an identity names: a namespace means nothing for
\* a kind of cluster scope.
ServerObject(m) ==
  IF ScopeOf[m.kind] = "cluster" THEN [m EXCEPT !.namespace = <<>>] ELSE m

\* A name that its key gives back: no underscore, and a letter or digit first.
Survives(name) == Begins(name, Words) /\ Positions(name, Underscore) = {}

\* Type invariant. What is loaded has names the inventory could write down and
\* kinds the server knows (resourcemetadata.go).
TypeOK ==
  /\ pc \in {"idle", "read", "run"}
  /\ Builtin \subseteq served /\ served \subseteq Builtin \cup Custom
  /\ checked \in BOOLEAN
  /\ KeysAccepted(stored)
  /\ \A m \in Loaded \cup starting \cup saved \cup Identities :
       m.kind \in DOMAIN ScopeOf /\ m.name # <<>>

\* No object the run applies is among the objects it prunes, although one
\* object may be written in a manifest with a namespace and in another one
\* without: what the check of setNamespace on objects of cluster scope is for,
\* as findObjectsToPrune compares texts (common.go:94-98, applier.go:214-233).
PruneSparesInput ==
  pc = "run" /\ checked =>
    \A m \in ObjectsToPrune, i \in DOMAIN objs : ServerObject(m) # ServerObject(Identity(objs[i]))

\* The run prunes what the run before saved and the input no longer names, the
\* Job of the last run included, all of it and nothing of anyone else, when the
\* names saved survive their keys (resourcemetadata.go:55-91,
\* configmap.go:98-135, applier.go:194-233).
PrunesWhatWasRemoved ==
  pc = "run" /\ checked /\ (\A m \in saved : Survives(m.name)) =>
    ObjectsToPrune = saved \ Identities

\* The graph sees the dependencies the caller set last, when their names hold
\* neither the comma nor the space of the annotation: with their namespaces,
\* in their order, whatever the manifest had (dependency.go:42-169).
DependencyNamesObject ==
  LET plain(name) == \A mark \in {Comma, Blank} : Positions(name, mark) = {}
  IN asked # <<>> /\ (\A k \in DOMAIN asked : plain(asked[k].name)) =>
       ~ParseFails(objs[1].dependsOn) /\ Dependencies(objs[1].dependsOn) = asked
=============================================================================
