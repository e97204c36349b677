------------------------ MODULE ReconciliationProofs ------------------------
(***************************************************************************)
(* What the status of an object says is what its controller saw when it    *)
(* last wrote it, and what the checks read of it is enough to tell that    *)
(* the rollout is over: for any number of pods, nodes and replicas, any    *)
(* partition, and any number of changes of the spec and of faults.         *)
(***************************************************************************)
EXTENDS Reconciliation, FiniteSetTheorems, TLAPS

Stages == {"new", "unscheduled", "waiting", "stalled", "failed", "done"}
PodsType == [Slots -> Pod \cup {None}]
Reasons ==
  {"Names", "Installing", "Done", "Backoff", "Unschedulable", "Scheduled", "Containers",
   "Error", "Controller", "Replicas",
   "NewReplicaSetAvailable", "ProgressDeadlineExceeded", "ReplicaSetUpdated"}
ConditionType ==
  [type : {"NamesAccepted", "Established", "Complete", "Failed", "PodScheduled", "Ready",
           "Stalled", "Reconciling", "Available", "Progressing"},
   status : {"True", "False"}, reason : Reasons]
Phases == {None, "LoadBalancer", "Pending", "Bound", "Failed", "Running"}

ObjectType ==
  [kind : STRING, deleting : BOOLEAN, generation : Nat \ {0}, observed : Nat \cup {None},
   conditions : Seq(ConditionType), malformed : {FALSE},
   custom : {"inProgress", "failed", "current"}, phase : Phases,
   ingress : BOOLEAN, crashing : BOOLEAN, young : BOOLEAN, template : Nat,
   replicas : Nat \cup {None}, partition : Nat \cup {None}, deadline : BOOLEAN,
   onDelete : BOOLEAN, count : [Counters -> Nat],
   currentRevision : Nat \cup {None}, updateRevision : Nat \cup {None}]

SeenType == [pods : PodsType, generation : Nat \ {0}, told : Stages, reconciled : Nat]

TypesInv ==
  /\ object \in ObjectType
  /\ pods \in PodsType
  /\ seen \in SeenType
  /\ sick \in Sicknesses
  /\ stage \in Stages
  /\ MaxChanges[object.kind] \in Nat
  /\ changes \in 0 .. MaxChanges[object.kind] /\ faults \in 0 .. MaxFaults

ReportsGeneration == object.kind \in Workloads \cup Reporting

\* The status was written for the generation it names, or it names none.
WrittenInv ==
  /\ object.observed \in {None, seen.generation}
  /\ ~ReportsGeneration => object.observed = None
  /\ seen.reconciled <= seen.generation /\ seen.generation <= object.generation

\* Of a workload, the counters are those of the pods at the last write.
WorkloadInv ==
  IsWorkload /\ ~object.deleting =>
    /\ object.observed = None =>
         /\ object.conditions = <<>> /\ object.count = NoCounts
         /\ object.currentRevision = None /\ object.updateRevision = None
         /\ seen.pods = NoPods
    /\ object.observed = object.generation =>
         /\ object.count = Counts(object, seen.pods)
         /\ object.updateRevision = object.template
    /\ object.kind = "DaemonSet" =>
         \A s \in Slots : pods[s] # None \/ seen.pods[s] # None => s \in Nodes
    /\ object.kind = "StatefulSet" /\ object.currentRevision = None => pods = NoPods
    /\ object.kind = "Deployment" /\ object.conditions # <<>> =>
         /\ object.conditions[1].reason = "Replicas"
         /\ ~object.deadline => Len(object.conditions) = 1
         /\ object.deadline => Len(object.conditions) = 2

\* Of another kind, the status is the report of the stage it tells; good news is
\* of some spec, and of the last one seen if the controller takes back the rest.
Unwritten(o) ==
  /\ o.observed = None /\ o.conditions = <<>> /\ ~o.ingress /\ o.custom = "inProgress"
  /\ o.phase = IF o.kind = "Service" THEN "LoadBalancer" ELSE None
Says(o, s) ==
  LET r == Report(o, s)
  IN  /\ o.conditions = r.conditions /\ o.phase = r.phase /\ o.ingress = r.ingress
      /\ o.custom = r.custom /\ o.crashing = r.crashing

StageInv ==
  ~IsWorkload =>
    /\ object.kind = "Service" => object.phase = "LoadBalancer"
    /\ \/ Unwritten(object) /\ seen.told = "new"
       \/ Says(object, seen.told) /\ (ReportsGeneration => object.observed # None)
    /\ seen.told = "done" => seen.reconciled > 0
    /\ seen.told = "done" /\ object.kind \in Resetting => seen.reconciled = seen.generation
    /\ seen.reconciled = object.generation => stage = "done"

\* A rollout that is over and meets no fault stays as it is.
Unmoved(ps, qs) ==
  \A s \in Slots :
    \/ ps[s] = qs[s]
    \/ ps[s] # None /\ qs[s] # None /\ qs[s].rev = ps[s].rev /\ qs[s].level = "available"
NoSurplus == \A s \in Slots : Surplus(object, s) => seen.pods[s] = None
SettledInv ==
  IsWorkload /\ Verdict = "current" /\ faults = 0 /\ NoSurplus
    /\ (object.kind = "StatefulSet" => ~object.onDelete)
    => Unmoved(seen.pods, pods)

IInv == TypesInv /\ WrittenInv /\ WorkloadInv /\ StageInv

-----------------------------------------------------------------------------
(* Counting pods.                                                           *)

Occupied(ps) == {s \in Slots : ps[s] # None}
OfRev(ps, r) == {s \in Slots : ps[s] # None /\ ps[s].rev = r}
Started(ps) == {s \in Slots : ps[s] # None /\ ps[s].level # "starting"}
Available(ps) == {s \in Slots : ps[s] # None /\ ps[s].level = "available"}

LEMMA SlotsAreNat == Slots \subseteq Nat /\ Cardinality(Slots) \in Nat
<1>1. Cardinality(Slots) \in Nat
  BY ReconciliationAssumption, FS_CardinalityType
<1> QED
  BY <1>1, ReconciliationAssumption

\* The pods a controller counts are a finite set, and so are all of them: as
\* many of one sort as there are in all are all of them.
LEMMA PodsAreFinite ==
  ASSUME NEW ps, NEW P, P \subseteq Occupied(ps)
  PROVE  /\ IsFiniteSet(P) /\ Cardinality(P) \in Nat
         /\ Cardinality(P) <= Cardinality(Occupied(ps)) /\ Cardinality(Occupied(ps)) \in Nat
         /\ Cardinality(P) >= Cardinality(Occupied(ps)) => P = Occupied(ps)
<1>1. IsFiniteSet(Slots)
  BY ReconciliationAssumption
<1>2. Occupied(ps) \subseteq Slots
  BY DEF Occupied
<1>3. IsFiniteSet(Occupied(ps))
  BY <1>1, <1>2, FS_Subset
<1>4. /\ IsFiniteSet(P) /\ Cardinality(P) <= Cardinality(Occupied(ps))
      /\ Cardinality(P) = Cardinality(Occupied(ps)) => P = Occupied(ps)
  BY <1>3, FS_Subset
<1>5. Cardinality(P) \in Nat /\ Cardinality(Occupied(ps)) \in Nat
  BY <1>3, <1>4, FS_CardinalityType
<1> QED
  BY <1>4, <1>5

LEMMA Sorts ==
  ASSUME NEW ps
  PROVE  /\ \A r : OfRev(ps, r) \subseteq Occupied(ps)
         /\ Started(ps) \subseteq Occupied(ps)
         /\ Available(ps) \subseteq Occupied(ps)
         /\ Occupied(ps) \subseteq Occupied(ps)
  BY DEF OfRev, Started, Available, Occupied

LEMMA CountsAre ==
  ASSUME NEW o, NEW ps
  PROVE  LET c == Counts(o, ps)
         IN  /\ c.replicas = Cardinality(Occupied(ps))
             /\ c.desired = Desired(o)
             /\ o.kind = "StatefulSet" => c.current = Cardinality(OfRev(ps, o.currentRevision))
             /\ o.kind # "StatefulSet" => c.current = Cardinality(Occupied(ps))
             /\ c.updated = Cardinality(OfRev(ps, o.template))
             /\ c.available = Cardinality(Available(ps))
             /\ c.ready = Cardinality(Started(ps))
<1>1. Number(ps, LAMBDA p : TRUE) = Cardinality(Occupied(ps))
  BY DEF Number, Occupied
<1>2. \A r : Number(ps, LAMBDA p : p.rev = r) = Cardinality(OfRev(ps, r))
  BY DEF Number, OfRev
<1>3. Number(ps, LAMBDA p : p.level = "available") = Cardinality(Available(ps))
  BY DEF Number, Available
<1>4. Number(ps, LAMBDA p : p.level # "starting") = Cardinality(Started(ps))
  BY DEF Number, Started
<1>5. /\ Number(ps, LAMBDA p : p.rev = o.template) = Cardinality(OfRev(ps, o.template))
      /\ Number(ps, LAMBDA p : p.rev = o.currentRevision)
           = Cardinality(OfRev(ps, o.currentRevision))
  BY DEF Number, OfRev
<1> QED
  BY <1>1, <1>3, <1>4, <1>5 DEF Counts

LEMMA CountsType ==
  ASSUME NEW o \in ObjectType, NEW ps
  PROVE  Counts(o, ps) \in [Counters -> Nat] /\ Desired(o) \in Nat
<1>1. Desired(o) \in Nat
  <2>1. Cardinality(Nodes) \in Nat
    BY ReconciliationAssumption, FS_Subset, FS_CardinalityType
  <2> QED
    BY <2>1 DEF Desired, Replicas, ObjectType
<1>2. \A P \in SUBSET Occupied(ps) : Cardinality(P) \in Nat
  BY PodsAreFinite
<1> DEFINE c == Counts(o, ps)
<1>3. /\ c.replicas \in Nat /\ c.desired \in Nat /\ c.current \in Nat
      /\ c.updated \in Nat /\ c.available \in Nat /\ c.ready \in Nat
  <2> HIDE DEF c
  <2> QED
    BY <1>1, <1>2, Sorts, CountsAre DEF c
<1> QED
  BY <1>1, <1>3 DEF Counts, Counters

-----------------------------------------------------------------------------
(* The first check that answers.                                            *)

\* Every set of naturals that is not empty has a least element.
LEMMA LeastElement ==
  ASSUME NEW T, T \subseteq Nat, T # {}
  PROVE  \E k \in T : \A j \in T : k <= j
<1> DEFINE R == OpToRel(<, Nat)
<1>1. \E k \in T : \A j \in T : ~(<<j, k>> \in R)
  BY NatLessThanWellFounded, WFMin
<1>2. PICK k \in T : \A j \in T : ~(<<j, k>> \in R)
  BY <1>1
<1>3. \A j \in T : ~(j < k)
  BY <1>2 DEF OpToRel
<1> QED
  BY <1>3

\* FirstAnswer is the first of its answers that is not "none", if there is one.
LEMMA FirstAnswerIs ==
  ASSUME NEW S, NEW xs \in Seq(S), NEW k \in 1 .. Len(xs), xs[k] # "none",
         \A j \in 1 .. k - 1 : xs[j] = "none"
  PROVE  FirstAnswer(xs) = xs[k]
<1> DEFINE I == {i \in 1 .. Len(xs) : xs[i] # "none"}
<1>1. k \in I /\ \A y \in I : k <= y
  OBVIOUS
<1>2. Min(I) = k
  <2> HIDE DEF I
  <2>1. \A x \in I : (\A y \in I : x <= y) => x = k
    <3>1. I \subseteq Nat
      BY DEF I
    <3> QED
      BY <1>1, <3>1
  <2> QED
    BY <1>1, <2>1 DEF Min
<1>3. SelectInSeq(xs, LAMBDA a : a # "none") = k
  BY <1>1, <1>2 DEF SelectInSeq
<1> QED
  BY <1>3 DEF FirstAnswer

LEMMA FirstAnswerNone ==
  ASSUME NEW S, NEW xs \in Seq(S), \A j \in 1 .. Len(xs) : xs[j] = "none"
  PROVE  FirstAnswer(xs) = "none"
<1>1. {i \in 1 .. Len(xs) : xs[i] # "none"} = {}
  OBVIOUS
<1>2. SelectInSeq(xs, LAMBDA a : a # "none") = 0
  BY <1>1 DEF SelectInSeq
<1> QED
  BY <1>2 DEF FirstAnswer

\* A check, then another one for what it leaves open; and with a third.
LEMMA FirstOfTwo ==
  ASSUME NEW a, NEW b
  PROVE  FirstAnswer(<<a, b>>) = IF a # "none" THEN a ELSE b
<1> DEFINE xs == <<a, b>>
<1>1. xs \in Seq({a, b}) /\ Len(xs) = 2 /\ xs[1] = a /\ xs[2] = b
  OBVIOUS
<1> HIDE DEF xs
<1>2. CASE a # "none"
  <2>1. xs[1] # "none" /\ \A j \in 1 .. 1 - 1 : xs[j] = "none"
    BY <1>1, <1>2
  <2>2. 1 \in 1 .. Len(xs)
    BY <1>1
  <2>3. FirstAnswer(xs) = xs[1]
    BY <1>1, <2>1, <2>2, FirstAnswerIs
  <2> QED
    BY <1>1, <1>2, <2>3 DEF xs
<1>3. CASE a = "none" /\ b # "none"
  <2>1. \A j \in 1 .. 2 - 1 : xs[j] = "none"
    BY <1>1, <1>3
  <2>2. FirstAnswer(xs) = xs[2]
    BY <1>1, <1>3, <2>1, FirstAnswerIs
  <2> QED
    BY <1>1, <1>3, <2>2 DEF xs
<1>4. CASE a = "none" /\ b = "none"
  <2>1. \A j \in 1 .. Len(xs) : xs[j] = "none"
    BY <1>1, <1>4
  <2>2. FirstAnswer(xs) = "none"
    BY <1>1, <2>1, FirstAnswerNone
  <2> QED
    BY <1>4, <2>2 DEF xs
<1> QED
  BY <1>2, <1>3, <1>4

LEMMA FirstOfThree ==
  ASSUME NEW a, NEW b, NEW c
  PROVE  FirstAnswer(<<a, b, c>>) = IF a # "none" THEN a ELSE IF b # "none" THEN b ELSE c
<1> DEFINE xs == <<a, b, c>>
<1>1. xs \in Seq({a, b, c}) /\ Len(xs) = 3 /\ xs[1] = a /\ xs[2] = b /\ xs[3] = c
  OBVIOUS
<1> HIDE DEF xs
<1>2. ASSUME NEW k \in 1 .. 3, xs[k] # "none", \A j \in 1 .. k - 1 : xs[j] = "none"
      PROVE  FirstAnswer(xs) = xs[k]
  BY <1>1, <1>2, FirstAnswerIs
<1>3. (\A j \in 1 .. 3 : xs[j] = "none") => FirstAnswer(xs) = "none"
  BY <1>1, FirstAnswerNone
<1>4. CASE a # "none"
  BY <1>1, <1>2, <1>4 DEF xs
<1>5. CASE a = "none" /\ b # "none"
  <2>1. xs[2] # "none" /\ \A j \in 1 .. 2 - 1 : xs[j] = "none"
    BY <1>1, <1>5
  <2> QED
    BY <1>1, <1>2, <1>5, <2>1 DEF xs
<1>6. CASE a = "none" /\ b = "none" /\ c # "none"
  <2>1. xs[3] # "none" /\ \A j \in 1 .. 3 - 1 : xs[j] = "none"
    BY <1>1, <1>6
  <2> QED
    BY <1>1, <1>2, <1>6, <2>1 DEF xs
<1>7. CASE a = "none" /\ b = "none" /\ c = "none"
  <2>1. \A j \in 1 .. 3 : xs[j] = "none"
    BY <1>1, <1>7
  <2> QED
    BY <1>3, <1>7, <2>1 DEF xs
<1> QED
  BY <1>4, <1>5, <1>6, <1>7

\* Some check answers, or none does.
LEMMA FirstAnswerAny ==
  ASSUME NEW S, NEW xs \in Seq(S)
  PROVE  \/ FirstAnswer(xs) = "none"
         \/ \E k \in 1 .. Len(xs) : FirstAnswer(xs) = xs[k] /\ xs[k] # "none"
<1> DEFINE I == {i \in 1 .. Len(xs) : xs[i] # "none"}
<1>1. CASE I = {}
  BY <1>1, FirstAnswerNone
<1>2. CASE I # {}
  <2>1. PICK k \in I : \A j \in I : k <= j
    <3>1. I \subseteq Nat
      OBVIOUS
    <3> QED
      BY <1>2, <3>1, LeastElement
  <2>2. \A j \in 1 .. k - 1 : xs[j] = "none"
    BY <2>1
  <2>3. FirstAnswer(xs) = xs[k]
    BY <2>1, <2>2, FirstAnswerIs
  <2> QED
    BY <2>1, <2>3
<1> QED
  BY <1>1, <1>2

-----------------------------------------------------------------------------
(* What the controller writes.                                              *)

\* An object whose status is written: the fields it had otherwise are as they were.
LEMMA StatusWritten ==
  ASSUME NEW o \in ObjectType, NEW c \in Seq(ConditionType), NEW p \in Phases,
         NEW i \in BOOLEAN, NEW u \in {"inProgress", "failed", "current"},
         NEW h \in BOOLEAN, NEW g \in Nat \cup {None}
  PROVE  LET r == [o EXCEPT !.conditions = c, !.phase = p, !.ingress = i, !.custom = u,
                            !.crashing = h, !.observed = g]
         IN  /\ r \in ObjectType
             /\ r.conditions = c /\ r.phase = p /\ r.ingress = i /\ r.custom = u
             /\ r.crashing = h /\ r.observed = g
             /\ r.kind = o.kind /\ r.deleting = o.deleting /\ r.generation = o.generation
             /\ r.malformed = o.malformed /\ r.young = o.young /\ r.onDelete = o.onDelete
<1> DEFINE r == [o EXCEPT !.conditions = c, !.phase = p, !.ingress = i, !.custom = u,
                          !.crashing = h, !.observed = g]
<1>1. r \in ObjectType
  <2> DEFINE q1 == [o EXCEPT !.conditions = c, !.phase = p]
             q2 == [q1 EXCEPT !.ingress = i, !.custom = u]
  <2>1. r = [q2 EXCEPT !.crashing = h, !.observed = g]
    OBVIOUS
  <2>2. q1 \in ObjectType
    BY DEF ObjectType
  <2> HIDE DEF q1
  <2>3. q2 \in ObjectType
    BY <2>2 DEF ObjectType
  <2> HIDE DEF q2, r
  <2> QED
    BY <2>1, <2>3 DEF ObjectType
<1>2. /\ r.conditions = c /\ r.phase = p /\ r.ingress = i /\ r.custom = u
      /\ r.crashing = h /\ r.observed = g
  BY DEF ObjectType
<1>3. /\ r.kind = o.kind /\ r.deleting = o.deleting /\ r.generation = o.generation
      /\ r.malformed = o.malformed /\ r.young = o.young /\ r.onDelete = o.onDelete
  BY DEF ObjectType
<1> QED
  BY <1>1, <1>2, <1>3

\* The report of a stage, of each kind.
LEMMA ReportOfCRD ==
  ASSUME NEW o \in ObjectType, o.kind = "CustomResourceDefinition", NEW s
  PROVE  \E c \in Seq(ConditionType) :
           /\ Report(o, s) = [o EXCEPT !.conditions = c]
           /\ s = "new" => c = <<>>
           /\ s # "new" => c = <<Condition("NamesAccepted",
                                           IF s = "stalled" THEN "False" ELSE "True", "Names"),
                                 Condition("Established",
                                           IF s = "done" THEN "True" ELSE "False", "Installing")>>
<1> DEFINE n == IF s = "stalled" THEN "False" ELSE "True"
           e == IF s = "done" THEN "True" ELSE "False"
           c == IF s = "new" THEN <<>>
                ELSE <<Condition("NamesAccepted", n, "Names"), Condition("Established", e, "Installing")>>
<1>1. n \in {"True", "False"} /\ e \in {"True", "False"}
  OBVIOUS
<1>2. Report(o, s) = [o EXCEPT !.conditions = c]
  BY DEF Report
<1>3. c \in Seq(ConditionType)
  <2> HIDE DEF n, e
  <2>1. <<>> \in Seq(ConditionType)
    OBVIOUS
  <2>2. /\ Condition("NamesAccepted", n, "Names") \in ConditionType
        /\ Condition("Established", e, "Installing") \in ConditionType
    BY <1>1 DEF Condition, ConditionType, Reasons
  <2> QED
    BY <2>1, <2>2
<1> QED
  BY <1>2, <1>3

LEMMA ReportOfService ==
  ASSUME NEW o \in ObjectType, o.kind = "Service", NEW s
  PROVE  \E i \in BOOLEAN : Report(o, s) = [o EXCEPT !.ingress = i] /\ (i <=> s = "done")
<1> DEFINE i == s = "done"
<1>1. Report(o, s) = [o EXCEPT !.ingress = i]
  BY DEF Report
<1> QED
  BY <1>1, Zenon

LEMMA ReportOfClaim ==
  ASSUME NEW o \in ObjectType, o.kind = "PersistentVolumeClaim", NEW s
  PROVE  \E p \in Phases : Report(o, s) = [o EXCEPT !.phase = p] /\ (p = "Bound" <=> s = "done")
<1> DEFINE p == IF s = "done" THEN "Bound" ELSE "Pending"
<1>1. Report(o, s) = [o EXCEPT !.phase = p]
  BY DEF Report
<1>2. p \in Phases /\ (p = "Bound" <=> s = "done")
  BY DEF Phases
<1> QED
  BY <1>1, <1>2

LEMMA ReportOfJob ==
  ASSUME NEW o \in ObjectType, o.kind = "Job", NEW s
  PROVE  \E c \in Seq(ConditionType) :
           /\ Report(o, s) = [o EXCEPT !.conditions = c]
           /\ s = "done" => c = <<Condition("Complete", "True", "Done")>>
           /\ s = "failed" => c = <<Condition("Failed", "True", "Backoff")>>
           /\ s \notin {"done", "failed"} => c = <<>>
<1> DEFINE c == CASE s = "done" -> <<Condition("Complete", "True", "Done")>>
                  [] s = "failed" -> <<Condition("Failed", "True", "Backoff")>>
                  [] OTHER -> <<>>
<1>1. Report(o, s) = [o EXCEPT !.conditions = c]
  BY DEF Report
<1>2. /\ s = "done" => c = <<Condition("Complete", "True", "Done")>>
      /\ s = "failed" => c = <<Condition("Failed", "True", "Backoff")>>
      /\ s \notin {"done", "failed"} => c = <<>>
  OBVIOUS
<1>3. /\ <<Condition("Complete", "True", "Done")>> \in Seq(ConditionType)
      /\ <<Condition("Failed", "True", "Backoff")>> \in Seq(ConditionType)
      /\ <<>> \in Seq(ConditionType)
  BY DEF Condition, ConditionType, Reasons
<1> QED
  BY <1>1, <1>2, <1>3

PodReport(o, s, p, h, c) ==
  /\ Report(o, s) = [o EXCEPT !.phase = p, !.crashing = h, !.conditions = c]
  /\ p = CASE s \in {"new", "unscheduled"} -> "Pending"
           [] s = "failed" -> "Failed"
           [] OTHER -> "Running"
  /\ h <=> s = "stalled"
  /\ s = "unscheduled" => c = <<Condition("PodScheduled", "False", "Unschedulable")>>
  /\ s # "unscheduled" =>
       c = <<Condition("PodScheduled", "True", "Scheduled"),
             Condition("Ready", IF s = "done" THEN "True" ELSE "False", "Containers")>>

LEMMA ReportOfPod ==
  ASSUME NEW o \in ObjectType, o.kind = "Pod", NEW s
  PROVE  \E p \in Phases, h \in BOOLEAN, c \in Seq(ConditionType) :
           PodReport(o, s, p, h, c)
<1> DEFINE p == CASE s \in {"new", "unscheduled"} -> "Pending"
                  [] s = "failed" -> "Failed"
                  [] OTHER -> "Running"
           h == s = "stalled"
           r == IF s = "done" THEN "True" ELSE "False"
           c == IF s = "unscheduled" THEN <<Condition("PodScheduled", "False", "Unschedulable")>>
                ELSE <<Condition("PodScheduled", "True", "Scheduled"),
                       Condition("Ready", r, "Containers")>>
<1>1. Report(o, s) = [o EXCEPT !.phase = p, !.crashing = h, !.conditions = c]
  BY DEF Report
<1>2. p \in Phases /\ r \in {"True", "False"}
  BY DEF Phases
<1>3. c \in Seq(ConditionType)
  <2> HIDE DEF r
  <2>1. /\ <<Condition("PodScheduled", "False", "Unschedulable")>> \in Seq(ConditionType)
        /\ <<Condition("PodScheduled", "True", "Scheduled"),
             Condition("Ready", r, "Containers")>> \in Seq(ConditionType)
    BY <1>2 DEF Condition, ConditionType, Reasons
  <2> QED
    BY <2>1
<1>4. /\ s = "unscheduled" => c = <<Condition("PodScheduled", "False", "Unschedulable")>>
      /\ s # "unscheduled" => c = <<Condition("PodScheduled", "True", "Scheduled"),
                                    Condition("Ready", r, "Containers")>>
  OBVIOUS
<1>5. h \in BOOLEAN /\ (h <=> s = "stalled")
  OBVIOUS
<1> HIDE DEF h, c
<1> QED
  BY <1>1, <1>2, <1>3, <1>4, <1>5 DEF PodReport

OtherReport(o, s, u, c) ==
  /\ Report(o, s) = [o EXCEPT !.custom = u, !.conditions = c]
  /\ u = "current" <=> s = "done"
  /\ s = "stalled" => c[1] = Condition("Stalled", "True", "Error") /\ c # <<>>
  /\ s = "waiting" => c[1] = Condition("Reconciling", "True", "Controller") /\ c # <<>>
  /\ s \notin {"stalled", "waiting"} =>
       c = <<Condition("Ready", IF s = "done" THEN "True" ELSE "False", "Controller")>>

LEMMA ReportOfOther ==
  ASSUME NEW o \in ObjectType, o.kind \notin CoreKinds, NEW s
  PROVE  \E u \in {"inProgress", "failed", "current"}, c \in Seq(ConditionType) :
           OtherReport(o, s, u, c)
<1> DEFINE u == CASE s = "done" -> "current"
                  [] s = "stalled" -> "failed"
                  [] OTHER -> "inProgress"
           d == CASE s = "stalled" -> <<Condition("Stalled", "True", "Error")>>
                  [] s = "waiting" -> <<Condition("Reconciling", "True", "Controller")>>
                  [] OTHER -> <<>>
           r == IF s = "done" THEN "True" ELSE "False"
           R == Condition("Ready", r, "Controller")
           c == d \o <<R>>
<1>1. Report(o, s) = [o EXCEPT !.custom = u, !.conditions = c]
  BY DEF Report, CoreKinds
<1>2. u \in {"inProgress", "failed", "current"} /\ (u = "current" <=> s = "done")
  OBVIOUS
<1>3. R \in ConditionType
  <2>1. r \in {"True", "False"}
    OBVIOUS
  <2> HIDE DEF r
  <2> QED
    BY <2>1 DEF Condition, ConditionType, Reasons
<1>4. /\ Condition("Stalled", "True", "Error") \in ConditionType
      /\ Condition("Reconciling", "True", "Controller") \in ConditionType
  BY DEF Condition, ConditionType, Reasons
<1> HIDE DEF R, u
<1>5. CASE s = "stalled"
  <2> DEFINE X == Condition("Stalled", "True", "Error")
  <2>1. d = <<X>>
    BY <1>5
  <2> HIDE DEF X, d
  <2>2. c = <<X>> \o <<R>>
    BY <2>1
  <2> HIDE DEF c
  <2>3. X \in ConditionType
    BY <1>4 DEF X
  <2>4. c \in Seq(ConditionType) /\ c[1] = X /\ c # <<>>
    BY <1>3, <2>2, <2>3
  <2> QED
    BY <1>1, <1>2, <1>5, <2>4 DEF X, OtherReport
<1>6. CASE s = "waiting"
  <2> DEFINE X == Condition("Reconciling", "True", "Controller")
  <2>1. d = <<X>>
    BY <1>6
  <2> HIDE DEF X, d
  <2>2. c = <<X>> \o <<R>>
    BY <2>1
  <2> HIDE DEF c
  <2>3. X \in ConditionType
    BY <1>4 DEF X
  <2>4. c \in Seq(ConditionType) /\ c[1] = X /\ c # <<>>
    BY <1>3, <2>2, <2>3
  <2> QED
    BY <1>1, <1>2, <1>6, <2>4 DEF X, OtherReport
<1>7. CASE s \notin {"stalled", "waiting"}
  <2>1. d = <<>>
    BY <1>7
  <2>2. c = <<>> \o <<R>>
    BY <2>1
  <2>3. c = <<R>> /\ c \in Seq(ConditionType)
    <3> HIDE DEF c
    <3> QED
      BY <1>3, <2>2
  <2> QED
    BY <1>1, <1>2, <1>7, <2>3 DEF R, OtherReport
<1> QED
  BY <1>5, <1>6, <1>7

-----------------------------------------------------------------------------
(* What the checks read of it.                                              *)

\* No check fails on conditions that are a list.
Results == {"none", "inProgress", "failed", "terminating", "current"}

\* A loop over at most two conditions.
LEMMA Loop ==
  ASSUME NEW C, NEW cs \in Seq(C), NEW f \in [DOMAIN cs -> Results]
  PROVE  /\ FirstAnswer(f) \in Results
         /\ Len(cs) = 0 => FirstAnswer(f) = "none"
         /\ Len(cs) = 1 => FirstAnswer(f) = f[1]
         /\ Len(cs) = 2 => FirstAnswer(f) = IF f[1] # "none" THEN f[1] ELSE f[2]
<1>1. DOMAIN cs = 1 .. Len(cs) /\ Len(cs) \in Nat
  OBVIOUS
<1>2. f \in Seq(Results) /\ Len(f) = Len(cs)
  BY <1>1
<1>3. FirstAnswer(f) \in Results
  <2>1. "none" \in Results
    BY DEF Results
  <2> QED
    BY <1>2, <2>1, FirstAnswerAny
<1>4. CASE Len(cs) = 0
  <2>1. \A j \in 1 .. Len(f) : f[j] = "none"
    BY <1>2, <1>4
  <2>2. FirstAnswer(f) = "none"
    BY <1>2, <2>1, FirstAnswerNone
  <2> QED
    BY <1>3, <1>4, <2>2
<1>5. CASE Len(cs) = 1
  <2>1. f = <<f[1]>>
    BY <1>2, <1>5
  <2>2. CASE f[1] # "none"
    <3>1. 1 \in 1 .. Len(f) /\ \A j \in 1 .. 1 - 1 : f[j] = "none"
      BY <1>2, <1>5
    <3>2. FirstAnswer(f) = f[1]
      BY <1>2, <2>2, <3>1, FirstAnswerIs
    <3> QED
      BY <1>3, <1>5, <3>2
  <2>3. CASE f[1] = "none"
    <3>1. \A j \in 1 .. Len(f) : f[j] = "none"
      BY <1>2, <1>5, <2>3
    <3>2. FirstAnswer(f) = "none"
      BY <1>2, <3>1, FirstAnswerNone
    <3> QED
      BY <1>3, <1>5, <2>3, <3>2
  <2> QED
    BY <1>3, <1>5, <2>2, <2>3
<1>6. CASE Len(cs) = 2
  <2>1. f = <<f[1], f[2]>>
    BY <1>2, <1>6
  <2> QED
    BY <1>3, <1>6, <2>1, FirstOfTwo
<1> QED
  <2>1. CASE Len(cs) \notin {0, 1, 2}
    BY <1>3, <2>1
  <2> QED
    BY <1>4, <1>5, <1>6, <2>1

crdAnswer(c) ==
  CASE c.type = "NamesAccepted" /\ c.status = "False" -> "failed"
    [] c.type = "Established" /\ c.status = "True" -> "current"
    [] OTHER -> "none"

LEMMA CrdCheck ==
  ASSUME NEW o \in ObjectType
  PROVE  /\ crdStatusCheck(o) \in Results \ {"none"}
         /\ o.conditions = <<>> => crdStatusCheck(o) = "inProgress"
         /\ o.kind = "CustomResourceDefinition" =>
              \A s : o.conditions = Report(o, s).conditions
                => (crdStatusCheck(o) = "current" <=> s = "done")
<1> DEFINE f == [i \in DOMAIN o.conditions |-> crdAnswer(o.conditions[i])]
<1>1. crdStatusCheck(o) = FirstAnswer(<<FirstAnswer(f), "inProgress">>)
  BY DEF crdStatusCheck, FirstCondition, crdAnswer
<1>2. crdStatusCheck(o) = IF FirstAnswer(f) # "none" THEN FirstAnswer(f) ELSE "inProgress"
  BY <1>1, FirstOfTwo
<1>3. o.conditions \in Seq(ConditionType) /\ f \in [DOMAIN o.conditions -> Results]
  BY DEF ObjectType, crdAnswer, Results
<1>4. /\ FirstAnswer(f) \in Results
      /\ o.conditions = <<>> => FirstAnswer(f) = "none"
  BY <1>3, Loop
<1>5. ASSUME NEW s, o.kind = "CustomResourceDefinition", o.conditions = Report(o, s).conditions
      PROVE  crdStatusCheck(o) = "current" <=> s = "done"
  <2>1. PICK c \in Seq(ConditionType) :
          /\ Report(o, s) = [o EXCEPT !.conditions = c]
          /\ s = "new" => c = <<>>
          /\ s # "new" => c = <<Condition("NamesAccepted",
                                          IF s = "stalled" THEN "False" ELSE "True", "Names"),
                                Condition("Established",
                                          IF s = "done" THEN "True" ELSE "False", "Installing")>>
    BY <1>5, ReportOfCRD
  <2>2. o.conditions = c
    BY <1>5, <2>1 DEF ObjectType
  <2>3. CASE s = "new"
    BY <1>2, <1>4, <2>1, <2>2, <2>3
  <2>4. CASE s # "new"
    <3>1. Len(o.conditions) = 2 /\ f[1] = crdAnswer(c[1]) /\ f[2] = crdAnswer(c[2])
      BY <2>1, <2>2, <2>4
    <3>2. /\ crdAnswer(c[1]) = IF s = "stalled" THEN "failed" ELSE "none"
          /\ crdAnswer(c[2]) = IF s = "done" THEN "current" ELSE "none"
      BY <2>1, <2>4 DEF crdAnswer, Condition
    <3>3. FirstAnswer(f) = IF f[1] # "none" THEN f[1] ELSE f[2]
      BY <1>3, <3>1, Loop
    <3> HIDE DEF f
    <3> QED
      BY <1>2, <3>1, <3>2, <3>3
  <2> QED
    BY <2>3, <2>4
<1> HIDE DEF f
<1> QED
  BY <1>2, <1>4, <1>5 DEF Results

jobAnswer(c) ==
  CASE c.type = "Failed" /\ c.status = "True" -> "failed"
    [] c.type \in {"Complete", "Suspended"} /\ c.status = "True" -> "current"
    [] OTHER -> "none"

LEMMA JobCheck ==
  ASSUME NEW o \in ObjectType
  PROVE  /\ jobStatusCheck(o) \in Results \ {"none"}
         /\ o.conditions = <<>> => jobStatusCheck(o) = "inProgress"
         /\ o.kind = "Job" =>
              \A s : o.conditions = Report(o, s).conditions
                => (jobStatusCheck(o) = "current" <=> s = "done")
<1> DEFINE f == [i \in DOMAIN o.conditions |-> jobAnswer(o.conditions[i])]
<1>1. jobStatusCheck(o) = FirstAnswer(<<FirstAnswer(f), "inProgress">>)
  BY DEF jobStatusCheck, FirstCondition, jobAnswer
<1>2. jobStatusCheck(o) = IF FirstAnswer(f) # "none" THEN FirstAnswer(f) ELSE "inProgress"
  BY <1>1, FirstOfTwo
<1>3. o.conditions \in Seq(ConditionType) /\ f \in [DOMAIN o.conditions -> Results]
  BY DEF ObjectType, jobAnswer, Results
<1>4. /\ FirstAnswer(f) \in Results
      /\ o.conditions = <<>> => FirstAnswer(f) = "none"
  BY <1>3, Loop
<1>5. ASSUME NEW s, o.kind = "Job", o.conditions = Report(o, s).conditions
      PROVE  jobStatusCheck(o) = "current" <=> s = "done"
  <2>1. PICK c \in Seq(ConditionType) :
          /\ Report(o, s) = [o EXCEPT !.conditions = c]
          /\ s = "done" => c = <<Condition("Complete", "True", "Done")>>
          /\ s = "failed" => c = <<Condition("Failed", "True", "Backoff")>>
          /\ s \notin {"done", "failed"} => c = <<>>
    BY <1>5, ReportOfJob
  <2>2. o.conditions = c
    BY <1>5, <2>1 DEF ObjectType
  <2>3. CASE s \notin {"done", "failed"}
    BY <1>2, <1>4, <2>1, <2>2, <2>3
  <2>4. CASE s \in {"done", "failed"}
    <3>1. Len(o.conditions) = 1 /\ f[1] = jobAnswer(c[1])
      BY <2>1, <2>2, <2>4
    <3>2. jobAnswer(c[1]) = IF s = "failed" THEN "failed" ELSE "current"
      BY <2>1, <2>4 DEF jobAnswer, Condition
    <3>3. FirstAnswer(f) = f[1]
      BY <1>3, <3>1, Loop
    <3> HIDE DEF f
    <3> QED
      BY <1>2, <2>4, <3>1, <3>2, <3>3
  <2> QED
    BY <2>3, <2>4
<1> HIDE DEF f
<1> QED
  BY <1>2, <1>4, <1>5 DEF Results

podPending(o, c) ==
  IF c.type # "PodScheduled" \/ c.status # "False" THEN "none"
  ELSE IF c.reason = "Unschedulable" /\ o.young THEN "inProgress" ELSE "failed"

LEMMA PodCheck ==
  ASSUME NEW o \in ObjectType
  PROVE  /\ podStatusCheck(o) \in Results \ {"none"}
         /\ o.phase = None => podStatusCheck(o) # "current"
         /\ o.kind = "Pod" =>
              \A s : o.conditions = Report(o, s).conditions /\ o.phase = Report(o, s).phase
                => (podStatusCheck(o) = "current" <=> s = "done")
<1> DEFINE f == [i \in DOMAIN o.conditions |-> podPending(o, o.conditions[i])]
<1>1. o.phase = "Pending" => podStatusCheck(o) = FirstAnswer(<<FirstAnswer(f), "inProgress">>)
  BY DEF podStatusCheck, FirstCondition, podPending
<1>2. o.phase = "Pending" =>
        podStatusCheck(o) = IF FirstAnswer(f) # "none" THEN FirstAnswer(f) ELSE "inProgress"
  BY <1>1, FirstOfTwo
<1>3. /\ o.conditions \in Seq(ConditionType)
      /\ f \in [DOMAIN o.conditions -> {"none", "inProgress", "failed"}]
  BY DEF ObjectType, podPending
<1>4. FirstAnswer(f) \in {"none", "inProgress", "failed"}
  <2>1. f \in Seq({"none", "inProgress", "failed"})
    BY <1>3
  <2> HIDE DEF f
  <2> QED
    BY <2>1, FirstAnswerAny
<1>5. o.phase = "Pending" => podStatusCheck(o) \in {"inProgress", "failed"}
  <2> HIDE DEF f
  <2> QED
    BY <1>2, <1>4
<1>6. o.phase # "Pending" =>
        /\ podStatusCheck(o) \in {"current", "failed", "inProgress"}
        /\ podStatusCheck(o) = "current" <=>
             o.phase = "Succeeded" \/ (o.phase = "Running" /\ Has(o, "Ready", "True"))
  <2>1. o.crashing \in BOOLEAN
    BY DEF ObjectType
  <2>2. CASE o.phase = "Running"
    BY <2>1, <2>2 DEF podStatusCheck
  <2>3. CASE o.phase = "Succeeded"
    BY <2>3 DEF podStatusCheck
  <2>4. CASE o.phase = "Failed"
    BY <2>4 DEF podStatusCheck
  <2>5. CASE o.phase \notin {"Running", "Pending", "Succeeded", "Failed"}
    BY <2>5 DEF podStatusCheck
  <2> QED
    BY <2>2, <2>3, <2>4, <2>5
<1>7. ASSUME NEW s, o.kind = "Pod", o.conditions = Report(o, s).conditions,
             o.phase = Report(o, s).phase
      PROVE  podStatusCheck(o) = "current" <=> s = "done"
  <2>1. PICK p \in Phases, h \in BOOLEAN, c \in Seq(ConditionType) :
          PodReport(o, s, p, h, c)
    BY <1>7, ReportOfPod
  <2>2. o.conditions = c /\ o.phase = p
    BY <1>7, <2>1 DEF ObjectType, PodReport
  <2>3. CASE s \in {"new", "unscheduled"}
    BY <1>5, <2>1, <2>2, <2>3 DEF PodReport
  <2>4. CASE s = "failed"
    BY <1>6, <2>1, <2>2, <2>4 DEF PodReport
  <2>5. CASE s \notin {"new", "unscheduled", "failed"}
    <3>1. p = "Running" /\ Len(c) = 2 /\ DOMAIN c = {1, 2} /\ c[1].type = "PodScheduled"
          /\ c[2].type = "Ready" /\ c[2].status = IF s = "done" THEN "True" ELSE "False"
      BY <2>1, <2>5 DEF Condition, PodReport
    <3>2. Has(o, "Ready", "True") <=> s = "done"
      BY <2>2, <3>1 DEF Has
    <3> QED
      BY <1>6, <2>2, <3>1, <3>2
  <2> QED
    BY <2>3, <2>4, <2>5
<1>8. o.phase = None => podStatusCheck(o) # "current"
  <2>1. None \notin {"Pending", "Succeeded", "Running"}
    BY NoneAssumption
  <2> QED
    BY <1>6, <2>1
<1> HIDE DEF f
<1> QED
  BY <1>5, <1>6, <1>7, <1>8 DEF Results

otherAnswer(c) ==
  CASE c.type = "Ready" ->
         (CASE c.status = "True" -> "current"
            [] c.status \in {"False", "Unknown"} -> "inProgress"
            [] OTHER -> "none")
    [] c.type = "Reconciling" /\ c.status = "True" -> "inProgress"
    [] c.type = "Stalled" /\ c.status = "True" -> "failed"
    [] OTHER -> "none"

LEMMA OtherCheck ==
  ASSUME NEW o \in ObjectType
  PROVE  /\ FirstAnswer(<<checkStatusConditions(o), "current">>) \in Results \ {"none"}
         /\ o.kind \notin CoreKinds =>
              \A s : o.conditions = Report(o, s).conditions
                => (FirstAnswer(<<checkStatusConditions(o), "current">>) = "current"
                      <=> s = "done")
<1> DEFINE f == [i \in DOMAIN o.conditions |-> otherAnswer(o.conditions[i])]
           a == FirstAnswer(<<checkStatusConditions(o), "current">>)
<1>0. checkStatusConditions(o) = FirstAnswer(f)
  <2>1. o.malformed = FALSE
    BY DEF ObjectType
  <2> QED
    BY <2>1 DEF checkStatusConditions, FirstCondition, otherAnswer
<1>2. a = IF FirstAnswer(f) # "none" THEN FirstAnswer(f) ELSE "current"
  BY <1>0, FirstOfTwo
<1>3. /\ o.conditions \in Seq(ConditionType) /\ f \in [DOMAIN o.conditions -> Results]
      /\ f \in Seq(Results) /\ Len(f) = Len(o.conditions)
  BY DEF ObjectType, otherAnswer, Results
<1>4. FirstAnswer(f) \in Results
  BY <1>3, Loop
<1>5. ASSUME NEW s, o.kind \notin CoreKinds, o.conditions = Report(o, s).conditions
      PROVE  a = "current" <=> s = "done"
  <2>1. PICK u \in {"inProgress", "failed", "current"}, c \in Seq(ConditionType) :
          OtherReport(o, s, u, c)
    BY <1>5, ReportOfOther
  <2>2. o.conditions = c
    BY <1>5, <2>1 DEF ObjectType, OtherReport
  <2>3. c # <<>> /\ 1 \in DOMAIN c /\ Len(c) \in Nat /\ 1 <= Len(c)
    BY <2>1 DEF OtherReport
  <2>4. otherAnswer(c[1]) = CASE s = "stalled" -> "failed"
                              [] s = "done" -> "current"
                              [] OTHER -> "inProgress"
    BY <2>1 DEF otherAnswer, Condition, OtherReport
  <2>5. f[1] = otherAnswer(c[1])
    BY <2>2, <2>3
  <2>6. FirstAnswer(f) = f[1]
    <3>1. f[1] # "none" /\ 1 \in 1 .. Len(f) /\ \A j \in 1 .. 1 - 1 : f[j] = "none"
      BY <1>3, <2>2, <2>3, <2>4, <2>5
    <3> HIDE DEF f
    <3> QED
      BY <1>3, <3>1, FirstAnswerIs
  <2> HIDE DEF f, a
  <2> QED
    BY <1>2, <2>4, <2>5, <2>6
<1> HIDE DEF f, a
<1>6. a \in Results \ {"none"}
  BY <1>2, <1>4 DEF Results
<1> QED
  BY <1>5, <1>6 DEF a

-----------------------------------------------------------------------------

\* The checks of the workloads, as one condition each.
Short(o) ==
  \/ Replicas(o) > o.count.replicas \/ Replicas(o) > o.count.updated
  \/ o.count.replicas > Replicas(o) \/ o.count.updated > o.count.available
  \/ Replicas(o) > o.count.ready

LEMMA DeploymentCheck ==
  ASSUME NEW o \in ObjectType
  PROVE  /\ deployStatusCheck(o) \in Results \ {"none"}
         /\ deployStatusCheck(o) = "current" <=>
              /\ ~Reason(o, "Progressing", "ProgressDeadlineExceeded")
              /\ ~Short(o)
              /\ ~o.deadline \/ /\ Reason(o, "Progressing", "NewReplicaSetAvailable")
                                /\ Has(o, "Progressing", "True")
              /\ Has(o, "Available", "True")
<1> DEFINE a == IF Reason(o, "Progressing", "ProgressDeadlineExceeded") THEN "failed" ELSE "none"
           b == replicasStatusResult(o)
           c == IF /\ \/ ~o.deadline
                      \/ /\ Reason(o, "Progressing", "NewReplicaSetAvailable")
                         /\ Has(o, "Progressing", "True")
                   /\ Has(o, "Available", "True")
                THEN "current" ELSE "inProgress"
<1>1. deployStatusCheck(o) = FirstAnswer(<<a, b, c>>)
  BY DEF deployStatusCheck
<1>2. deployStatusCheck(o) = IF a # "none" THEN a ELSE IF b # "none" THEN b ELSE c
  <2> HIDE DEF a, b, c
  <2> QED
    BY <1>1, FirstOfThree
<1>3. b = IF Short(o) THEN "inProgress" ELSE "none"
  BY DEF replicasStatusResult, Short
<1> HIDE DEF b
<1> QED
  BY <1>2, <1>3, Zenon DEF Results

LEMMA WorkloadChecks ==
  ASSUME NEW o \in ObjectType
  PROVE  /\ daemonSetStatusCheck(o) \in Results \ {"none"}
         /\ statefulSetStatusCheck(o) \in Results \ {"none"}
         /\ serviceStatusCheck(o) \in Results \ {"none"}
         /\ pvcStatusCheck(o) \in Results \ {"none"}
  BY DEF daemonSetStatusCheck, statefulSetStatusCheck, serviceStatusCheck, pvcStatusCheck, Results

LEMMA CoreCheck ==
  ASSUME NEW o \in ObjectType
  PROVE  /\ o.kind \in Workloads \cup CoreKinds => checkCoreResources(o) \in Results \ {"none"}
         /\ o.kind \notin Workloads \cup CoreKinds => checkCoreResources(o) = "none"
  BY CrdCheck, JobCheck, PodCheck, DeploymentCheck, WorkloadChecks
     DEF checkCoreResources, Workloads, CoreKinds

\* What statusCheck says, step by step.
LEMMA StatusCheckIs ==
  ASSUME NEW o \in ObjectType
  PROVE  /\ o.deleting => statusCheck(o) = "terminating"
         /\ ~o.deleting /\ o.observed \notin {None, o.generation} => statusCheck(o) = "inProgress"
         /\ ~o.deleting /\ o.observed \in {None, o.generation} =>
              /\ o.kind \in Workloads \cup CoreKinds => statusCheck(o) = checkCoreResources(o)
              /\ o.kind \notin Workloads \cup CoreKinds =>
                   statusCheck(o) = IF o.kind \in Registered THEN o.custom
                                    ELSE FirstAnswer(<<checkStatusConditions(o), "current">>)
<1> DEFINE a == FirstAnswer(<<checkGenerations(o), checkCoreResources(o)>>)
<1>1. a = IF checkGenerations(o) # "none" THEN checkGenerations(o) ELSE checkCoreResources(o)
  BY FirstOfTwo
<1>2. checkGenerations(o) = IF o.observed \notin {None, o.generation} THEN "inProgress" ELSE "none"
  BY DEF checkGenerations
<1>3. statusCheck(o) = IF o.deleting THEN "terminating"
                       ELSE IF a # "none" THEN a
                       ELSE IF o.kind \in Registered THEN o.custom
                       ELSE FirstAnswer(<<checkStatusConditions(o), "current">>)
  BY DEF statusCheck
<1> HIDE DEF a
<1> QED
  BY <1>1, <1>2, <1>3, CoreCheck

LEMMA StatusCheckType ==
  ASSUME NEW o \in ObjectType PROVE statusCheck(o) \in Results \ {"none"}
<1>1. o.custom \in Results \ {"none"} /\ "terminating" \in Results \ {"none"}
      /\ "inProgress" \in Results \ {"none"}
  BY DEF ObjectType, Results
<1>2. CASE o.kind \in Workloads \cup CoreKinds
  BY <1>1, <1>2, StatusCheckIs, CoreCheck
<1>3. CASE o.kind \notin Workloads \cup CoreKinds
  <2> DEFINE a == FirstAnswer(<<checkStatusConditions(o), "current">>)
  <2>1. a \in Results \ {"none"}
    BY OtherCheck
  <2>2. statusCheck(o) \in {"terminating", "inProgress", o.custom, a}
    <3> HIDE DEF a
    <3> QED
      BY <1>3, StatusCheckIs DEF a
  <2> HIDE DEF a
  <2> QED
    BY <1>1, <2>1, <2>2
<1> QED
  BY <1>2, <1>3

-----------------------------------------------------------------------------
(* An object as it comes, and as the actions leave it.                      *)

LEMMA CreatedIs ==
  ASSUME NEW o \in Objects
  PROVE  /\ o \in ObjectType /\ Unwritten(o) /\ o.generation = 1 /\ ~o.deleting
         /\ o.count = NoCounts /\ o.currentRevision = None /\ o.updateRevision = None
<1> DEFINE c == Created(o.kind)
           p == IF o.kind = "Service" THEN "LoadBalancer" ELSE None
<1>1. o = [c EXCEPT !.replicas = o.replicas, !.partition = o.partition,
                    !.deadline = o.deadline, !.onDelete = o.onDelete, !.phase = p]
  BY ObjectsAssumption
<1>2. /\ o.kind \in STRING /\ o.replicas \in Nat \cup {None} /\ o.partition \in Nat \cup {None}
      /\ o.deadline \in BOOLEAN /\ o.onDelete \in BOOLEAN
  BY ObjectsAssumption
<1>3. p \in Phases
  BY DEF Phases
<1>4. NoCounts \in [Counters -> Nat]
  BY DEF NoCounts
<1>5. <<>> \in Seq(ConditionType)
  OBVIOUS
<1>6. c \in ObjectType
  BY <1>2, <1>4, <1>5 DEF Created, ObjectType, Phases
<1>7. /\ c.kind = o.kind /\ c.deleting = FALSE /\ c.generation = 1 /\ c.observed = None
      /\ c.conditions = <<>> /\ c.ingress = FALSE /\ c.custom = "inProgress"
      /\ c.count = NoCounts /\ c.currentRevision = None /\ c.updateRevision = None
  BY DEF Created
<1> HIDE DEF c, p
<1>8. o \in ObjectType
  BY <1>1, <1>2, <1>3, <1>6 DEF ObjectType
<1>9. /\ o.deleting = FALSE /\ o.generation = 1 /\ o.observed = None
      /\ o.conditions = <<>> /\ o.ingress = FALSE /\ o.custom = "inProgress"
      /\ o.count = NoCounts /\ o.currentRevision = None /\ o.updateRevision = None
      /\ o.phase = p
  BY <1>1, <1>6, <1>7 DEF ObjectType
<1> QED
  BY <1>8, <1>9 DEF p, Unwritten

LEMMA ProgressIs ==
  ASSUME NEW o, NEW count PROVE Progress(o, count) \in Reasons
  BY DEF Progress, Reasons

LEMMA DeploymentConditionsAre ==
  ASSUME NEW o \in ObjectType, NEW count, NEW r \in Reasons
  PROVE  LET c == DeploymentConditions(o, count, r)
             a == IF count.available + MaxUnavailable >= Desired(o) THEN "True" ELSE "False"
             p == IF r = "ProgressDeadlineExceeded" THEN "False" ELSE "True"
         IN  /\ c \in Seq(ConditionType)
             /\ ~o.deadline => c = <<Condition("Available", a, "Replicas")>>
             /\ o.deadline => c = <<Condition("Available", a, "Replicas"),
                                    Condition("Progressing", p, r)>>
<1> DEFINE c == DeploymentConditions(o, count, r)
           a == IF count.available + MaxUnavailable >= Desired(o) THEN "True" ELSE "False"
           p == IF r = "ProgressDeadlineExceeded" THEN "False" ELSE "True"
           A == Condition("Available", a, "Replicas")
           P == Condition("Progressing", p, r)
<1>1. c = <<A>> \o (IF ~o.deadline THEN <<>> ELSE <<P>>)
  BY DEF DeploymentConditions
<1>2. a \in {"True", "False"} /\ p \in {"True", "False"}
  OBVIOUS
<1> HIDE DEF a, p, c
<1>3. A \in ConditionType /\ P \in ConditionType
  BY <1>2 DEF Condition, ConditionType, Reasons
<1> HIDE DEF A, P
<1>4. CASE ~o.deadline
  <2>1. c = <<A>> \o <<>>
    BY <1>1, <1>4
  <2>2. c = <<A>>
    BY <1>3, <2>1
  <2> QED
    BY <1>3, <1>4, <2>2 DEF A, P, c, a, p
<1>5. CASE o.deadline
  <2>1. c = <<A>> \o <<P>>
    BY <1>1, <1>5
  <2>2. c = <<A, P>>
    <3>1. c \in Seq(ConditionType) /\ Len(c) = 2 /\ c[1] = A /\ c[2] = P
      BY <1>3, <2>1
    <3> QED
      BY <3>1
  <2> QED
    BY <1>3, <1>5, <2>2 DEF A, P, c, a, p
<1> QED
  BY <1>4, <1>5

\* The specification of an object stays what it is when its status is written.
SameSpec(r, o) ==
  /\ r.kind = o.kind /\ r.deleting = o.deleting /\ r.generation = o.generation
  /\ r.template = o.template /\ r.replicas = o.replicas /\ r.partition = o.partition
  /\ r.deadline = o.deadline /\ r.onDelete = o.onDelete

LEMMA CountsOfSame ==
  ASSUME NEW o, NEW r, NEW ps, SameSpec(r, o), r.currentRevision = o.currentRevision
  PROVE  Counts(r, ps) = Counts(o, ps)
  BY DEF SameSpec, Counts, Number, Desired, Replicas

LEMMA RolloutIs ==
  ASSUME NEW o \in ObjectType, o.kind \in Workloads, NEW ps \in PodsType
  PROVE  LET r == Rollout(o, ps)
         IN  /\ r \in ObjectType /\ SameSpec(r, o)
             /\ r.observed = o.generation /\ r.updateRevision = o.template
             /\ r.count = Counts(r, ps)
             /\ o.kind # "StatefulSet" => r.currentRevision = o.currentRevision
             /\ o.kind = "StatefulSet" =>
                  /\ r.currentRevision # None
                  /\ \/ r.currentRevision = o.currentRevision
                     \/ /\ r.currentRevision = o.template
                        /\ \/ o.currentRevision = None
                           \/ Cardinality(OfRev(ps, o.template)) = Replicas(o)
             /\ o.kind = "Deployment" =>
                  r.conditions = DeploymentConditions(o, Counts(o, ps), Progress(o, Counts(o, ps)))
             /\ o.kind # "Deployment" => r.conditions = <<>>
<1> DEFINE base == IF o.kind = "StatefulSet" THEN Completed(o, ps) ELSE o
           n == Counts(base, ps)
           c == IF o.kind # "Deployment" THEN <<>>
                ELSE DeploymentConditions(o, n, Progress(o, n))
           r == [base EXCEPT !.observed = o.generation, !.count = n,
                             !.updateRevision = o.template, !.conditions = c]
<1>1. Rollout(o, ps) = r
  BY DEF Rollout
<1>2. /\ base \in ObjectType /\ SameSpec(base, o)
      /\ o.kind # "StatefulSet" => base.currentRevision = o.currentRevision
      /\ o.kind = "StatefulSet" =>
           /\ base.currentRevision # None
           /\ \/ base.currentRevision = o.currentRevision
              \/ /\ base.currentRevision = o.template
                 /\ \/ o.currentRevision = None
                    \/ Cardinality(OfRev(ps, o.template)) = Replicas(o)
  <2>1. CASE o.kind # "StatefulSet"
    BY <2>1 DEF SameSpec
  <2>2. CASE o.kind = "StatefulSet"
    <3> DEFINE k == Counts(o, ps)
               all == \A m \in {k.replicas, k.updated, k.ready} : m = Replicas(o)
               v == IF o.currentRevision = None \/ all THEN o.template ELSE o.currentRevision
    <3>1. base = [o EXCEPT !.currentRevision = v]
      BY <2>2 DEF Completed
    <3>2. o.template \in Nat /\ o.currentRevision \in Nat \cup {None} /\ None \notin Nat
      BY NoneAssumption DEF ObjectType
    <3>3. /\ v \in Nat
          /\ \/ v = o.currentRevision
             \/ v = o.template /\ (o.currentRevision = None \/ all)
      <4> HIDE DEF all
      <4> QED
        BY <3>2
    <3>6. all => Cardinality(OfRev(ps, o.template)) = Replicas(o)
      BY CountsAre
    <3> HIDE DEF v, base, all
    <3>4. base \in ObjectType /\ base.currentRevision = v
      BY <3>1, <3>3 DEF ObjectType
    <3>5. SameSpec(base, o)
      BY <3>1 DEF ObjectType, SameSpec
    <3> QED
      BY <2>2, <3>2, <3>3, <3>4, <3>5, <3>6
  <2> QED
    BY <2>1, <2>2
<1> HIDE DEF base
<1>3. n \in [Counters -> Nat]
  BY <1>2, CountsType
<1>4. c \in Seq(ConditionType)
  <2>1. Progress(o, n) \in Reasons
    BY ProgressIs
  <2>2. DeploymentConditions(o, n, Progress(o, n)) \in Seq(ConditionType)
    BY <2>1, DeploymentConditionsAre
  <2> QED
    BY <2>2
<1>5. o.generation \in Nat /\ o.template \in Nat
  BY DEF ObjectType
<1> HIDE DEF n, c
<1>6. r \in ObjectType
  BY <1>2, <1>3, <1>4, <1>5 DEF ObjectType
<1>7. /\ r.observed = o.generation /\ r.updateRevision = o.template /\ r.count = n
      /\ r.conditions = c /\ r.currentRevision = base.currentRevision
  BY <1>2 DEF ObjectType
<1>8. SameSpec(r, base)
  BY <1>2 DEF ObjectType, SameSpec
<1> HIDE DEF r
<1>9. SameSpec(r, o)
  BY <1>2, <1>8 DEF SameSpec
<1>10. Counts(r, ps) = n
  BY <1>7, <1>8, CountsOfSame DEF n
<1>11. o.kind = "Deployment" => n = Counts(o, ps)
  BY DEF n, base
<1> QED
  BY <1>1, <1>2, <1>6, <1>7, <1>9, <1>10, <1>11 DEF c

SameStatus(q, o) ==
  /\ q.conditions = o.conditions /\ q.phase = o.phase /\ q.ingress = o.ingress
  /\ q.custom = o.custom /\ q.crashing = o.crashing

LEMMA ReportIs ==
  ASSUME NEW o \in ObjectType, o.kind \notin Workloads, NEW s
  PROVE  LET r == Report(o, s)
         IN  /\ r \in ObjectType /\ SameSpec(r, o)
             /\ r.observed = o.observed
<1> DEFINE r == Report(o, s)
<1>1. CASE o.kind \in {"CustomResourceDefinition", "Job"}
  <2>1. PICK c \in Seq(ConditionType) : r = [o EXCEPT !.conditions = c]
    BY <1>1, ReportOfCRD, ReportOfJob
  <2> HIDE DEF r
  <2>2. r \in ObjectType /\ r.observed = o.observed
    BY <2>1 DEF ObjectType
  <2>3. SameSpec(r, o)
    BY <2>1 DEF ObjectType, SameSpec
  <2> QED
    BY <1>1, <2>2, <2>3 DEF CoreKinds, r
<1>2. CASE o.kind = "Service"
  <2>1. PICK i \in BOOLEAN : r = [o EXCEPT !.ingress = i]
    BY <1>2, ReportOfService
  <2> HIDE DEF r
  <2>2. r \in ObjectType /\ r.observed = o.observed
    BY <2>1 DEF ObjectType
  <2>3. SameSpec(r, o)
    BY <2>1 DEF ObjectType, SameSpec
  <2> QED
    BY <1>2, <2>2, <2>3 DEF CoreKinds, r
<1>3. CASE o.kind = "PersistentVolumeClaim"
  <2>1. PICK p \in Phases : r = [o EXCEPT !.phase = p]
    BY <1>3, ReportOfClaim
  <2> HIDE DEF r
  <2>2. r \in ObjectType /\ r.observed = o.observed
    BY <2>1 DEF ObjectType
  <2>3. SameSpec(r, o)
    BY <2>1 DEF ObjectType, SameSpec
  <2> QED
    BY <1>3, <2>2, <2>3 DEF CoreKinds, r
<1>4. CASE o.kind = "Pod"
  <2>1. PICK p \in Phases, h \in BOOLEAN, c \in Seq(ConditionType) :
          PodReport(o, s, p, h, c)
    BY <1>4, ReportOfPod
  <2>2. r = [o EXCEPT !.phase = p, !.crashing = h, !.conditions = c]
    BY <2>1 DEF PodReport
  <2> HIDE DEF r
  <2>3. r \in ObjectType /\ r.observed = o.observed
    BY <2>2 DEF ObjectType
  <2>4. SameSpec(r, o)
    BY <2>2 DEF ObjectType, SameSpec
  <2> QED
    BY <1>4, <2>3, <2>4 DEF CoreKinds, r
<1>5. CASE o.kind \notin CoreKinds
  <2>1. PICK u \in {"inProgress", "failed", "current"}, c \in Seq(ConditionType) :
          OtherReport(o, s, u, c)
    BY <1>5, ReportOfOther
  <2>2. r = [o EXCEPT !.custom = u, !.conditions = c]
    BY <2>1 DEF OtherReport
  <2> HIDE DEF r
  <2>3. r \in ObjectType /\ r.observed = o.observed
    BY <2>2 DEF ObjectType
  <2>4. SameSpec(r, o)
    BY <2>2 DEF ObjectType, SameSpec
  <2> QED
    BY <1>5, <2>3, <2>4 DEF r
<1> QED
  BY <1>1, <1>2, <1>3, <1>4, <1>5 DEF CoreKinds

LEMMA ObservedIs ==
  ASSUME NEW o \in ObjectType
  PROVE  LET q == Observed(o)
         IN  /\ q \in ObjectType /\ SameSpec(q, o) /\ SameStatus(q, o)
             /\ q.observed = IF o.kind \in Reporting THEN o.generation ELSE o.observed
<1>1. CASE o.kind \in Reporting
  <2>1. Observed(o) = [o EXCEPT !.observed = o.generation] /\ o.generation \in Nat
    BY <1>1 DEF Observed, ObjectType
  <2>2. Observed(o) \in ObjectType /\ Observed(o).observed = o.generation
    BY <2>1 DEF ObjectType
  <2>3. SameSpec(Observed(o), o) /\ SameStatus(Observed(o), o)
    BY <2>1 DEF ObjectType, SameSpec, SameStatus
  <2> QED
    BY <1>1, <2>2, <2>3
<1>2. CASE o.kind \notin Reporting
  BY <1>2 DEF Observed, SameSpec, SameStatus
<1> QED
  BY <1>1, <1>2

\* The report of a stage, of the kinds for which it is more than one field.
CrdConditions(s) ==
  IF s = "new" THEN <<>>
  ELSE <<Condition("NamesAccepted", IF s = "stalled" THEN "False" ELSE "True", "Names"),
         Condition("Established", IF s = "done" THEN "True" ELSE "False", "Installing")>>
PodConditions(s) ==
  IF s = "unscheduled" THEN <<Condition("PodScheduled", "False", "Unschedulable")>>
  ELSE <<Condition("PodScheduled", "True", "Scheduled"),
         Condition("Ready", IF s = "done" THEN "True" ELSE "False", "Containers")>>
PodPhase(s) ==
  CASE s \in {"new", "unscheduled"} -> "Pending"
    [] s = "failed" -> "Failed"
    [] OTHER -> "Running"

LEMMA CrdReported ==
  ASSUME NEW o \in ObjectType, o.kind = "CustomResourceDefinition", NEW s
  PROVE  /\ Report(o, s).conditions = CrdConditions(s)
         /\ Report(o, s).phase = o.phase /\ Report(o, s).ingress = o.ingress
         /\ Report(o, s).custom = o.custom /\ Report(o, s).crashing = o.crashing
<1>1. Report(o, s) = [o EXCEPT !.conditions = CrdConditions(s)]
  BY Zenon DEF Report, CrdConditions
<1> QED
  BY <1>1 DEF ObjectType

LEMMA PodReported ==
  ASSUME NEW o \in ObjectType, o.kind = "Pod", NEW s
  PROVE  /\ Report(o, s).conditions = PodConditions(s) /\ Report(o, s).phase = PodPhase(s)
         /\ Report(o, s).crashing = (s = "stalled")
         /\ Report(o, s).ingress = o.ingress /\ Report(o, s).custom = o.custom
<1> DEFINE h == (s = "stalled")
<1>1. Report(o, s) = [o EXCEPT !.phase = PodPhase(s), !.crashing = h,
                               !.conditions = PodConditions(s)]
  BY Zenon DEF Report, PodPhase, PodConditions
<1> HIDE DEF h
<1>2. /\ Report(o, s).conditions = PodConditions(s) /\ Report(o, s).phase = PodPhase(s)
      /\ Report(o, s).crashing = h
      /\ Report(o, s).ingress = o.ingress /\ Report(o, s).custom = o.custom
  BY <1>1 DEF ObjectType
<1> QED
  BY <1>2, Zenon DEF h

\* What is reported depends on the kind and the stage alone.
LEMMA ReportStatus ==
  ASSUME NEW o \in ObjectType, NEW q \in ObjectType, q.kind = o.kind, SameStatus(q, o),
         o.kind \notin Workloads, NEW s
  PROVE  SameStatus(Report(q, s), Report(o, s))
<1>1. CASE o.kind = "CustomResourceDefinition"
  BY <1>1, CrdReported DEF SameStatus
<1>2. CASE o.kind = "Service"
  BY <1>2 DEF Report, ObjectType, SameStatus
<1>3. CASE o.kind = "PersistentVolumeClaim"
  BY <1>3 DEF Report, ObjectType, SameStatus
<1>4. CASE o.kind = "Job"
  BY <1>4 DEF Report, ObjectType, SameStatus
<1>5. CASE o.kind = "Pod"
  <2>1. ASSUME NEW x \in ObjectType, x.kind = "Pod"
        PROVE  /\ Report(x, s).conditions = PodConditions(s) /\ Report(x, s).phase = PodPhase(s)
               /\ Report(x, s).crashing = (s = "stalled")
               /\ Report(x, s).ingress = x.ingress /\ Report(x, s).custom = x.custom
    BY <2>1, PodReported, Zenon
  <2>2. q.kind = "Pod"
    BY <1>5
  <2> QED
    BY <1>5, <2>1, <2>2, Zenon DEF SameStatus
<1>6. CASE o.kind \notin CoreKinds
  BY <1>6 DEF Report, ObjectType, SameStatus, CoreKinds
<1> QED
  BY <1>1, <1>2, <1>3, <1>4, <1>5, <1>6 DEF CoreKinds

LEMMA ReportSays ==
  ASSUME NEW o \in ObjectType, o.kind \notin Workloads, NEW s
  PROVE  Says(Report(o, s), s)
<1>0. Report(o, s) \in ObjectType /\ Report(o, s).kind = o.kind
  BY ReportIs DEF SameSpec
<1>1. CASE o.kind = "CustomResourceDefinition"
  <2> DEFINE r == Report(o, s)
  <2>1. r \in ObjectType /\ r.kind = "CustomResourceDefinition"
    BY <1>0, <1>1, Zenon
  <2>2. r.conditions = CrdConditions(s)
    BY <1>1, CrdReported, Zenon
  <2> HIDE DEF r
  <2>3. /\ Report(r, s).conditions = CrdConditions(s) /\ Report(r, s).phase = r.phase
        /\ Report(r, s).ingress = r.ingress /\ Report(r, s).custom = r.custom
        /\ Report(r, s).crashing = r.crashing
    BY <2>1, CrdReported, Zenon
  <2> QED
    BY <2>2, <2>3, Zenon DEF Says, r
<1>2. CASE o.kind = "Service"
  BY <1>2, <1>0 DEF Report, ObjectType, Says
<1>3. CASE o.kind = "PersistentVolumeClaim"
  BY <1>3, <1>0 DEF Report, ObjectType, Says
<1>4. CASE o.kind = "Job"
  BY <1>4, <1>0 DEF Report, ObjectType, Says
<1>5. CASE o.kind = "Pod"
  <2> DEFINE r == Report(o, s)
  <2>1. r \in ObjectType /\ r.kind = "Pod"
    BY <1>0, <1>5, Zenon
  <2>2. /\ r.conditions = PodConditions(s) /\ r.phase = PodPhase(s)
        /\ r.crashing = (s = "stalled")
    BY <1>5, PodReported, Zenon
  <2> HIDE DEF r
  <2>3. /\ Report(r, s).conditions = PodConditions(s) /\ Report(r, s).phase = PodPhase(s)
        /\ Report(r, s).crashing = (s = "stalled")
        /\ Report(r, s).ingress = r.ingress /\ Report(r, s).custom = r.custom
    BY <2>1, PodReported, Zenon
  <2> QED
    BY <2>2, <2>3, Zenon DEF Says, r
<1>6. CASE o.kind \notin CoreKinds
  BY <1>6, <1>0 DEF Report, ObjectType, Says, CoreKinds
<1> QED
  BY <1>1, <1>2, <1>3, <1>4, <1>5, <1>6 DEF CoreKinds

LEMMA SaysToo ==
  ASSUME NEW o \in ObjectType, NEW q \in ObjectType, q.kind = o.kind, SameStatus(q, o),
         o.kind \notin Workloads, NEW s, Says(o, s)
  PROVE  Says(q, s)
<1>1. SameStatus(Report(q, s), Report(o, s))
  BY ReportStatus
<1> QED
  BY <1>1 DEF Says, SameStatus

-----------------------------------------------------------------------------
(* Every step keeps the invariant.                                          *)

LEMMA InitInv == Init => IInv
<1> SUFFICES ASSUME Init PROVE IInv
  OBVIOUS
<1>1. /\ object \in Objects /\ pods = NoPods /\ stage = "new" /\ sick \in Sicknesses
      /\ seen = [pods |-> NoPods, generation |-> 1, told |-> "new", reconciled |-> 0]
      /\ changes = 0 /\ faults = 0
  BY DEF Init
<1>2. /\ object \in ObjectType /\ Unwritten(object) /\ object.generation = 1
      /\ object.count = NoCounts
      /\ object.currentRevision = None /\ object.updateRevision = None
  BY <1>1, CreatedIs
<1>3. NoPods \in PodsType /\ \A s \in Slots : NoPods[s] = None
  BY DEF NoPods, PodsType
<1>4. TypesInv
  <2>1. MaxChanges[object.kind] \in Nat /\ MaxFaults \in Nat
    BY <1>1, ReconciliationAssumption
  <2> QED
    BY <1>1, <1>2, <1>3, <2>1 DEF TypesInv, SeenType, Stages
<1>5. object.observed = None /\ object.conditions = <<>> /\ seen.pods = NoPods
      /\ seen.told = "new" /\ seen.generation = 1 /\ seen.reconciled = 0
  BY <1>1, <1>2 DEF Unwritten
<1>6. WrittenInv
  BY <1>2, <1>5 DEF WrittenInv
<1>7. WorkloadInv
  BY <1>1, <1>2, <1>3, <1>5, NoneAssumption DEF WorkloadInv
<1>8. StageInv
  BY <1>2, <1>5 DEF StageInv, Unwritten
<1> QED
  BY <1>4, <1>6, <1>7, <1>8 DEF IInv

\* Without a step of the object or of what was seen of it.
LEMMA SameObjectInv ==
  ASSUME IInv, TypesInv', object' = object, seen' = seen,
         IsWorkload => stage' = stage,
         stage = "done" => stage' = "done",
         object.kind = "DaemonSet" => \A s \in Slots : pods'[s] # None => pods[s] # None \/ s \in Nodes,
         object.kind = "StatefulSet" /\ object.currentRevision = None /\ pods = NoPods
           => pods' = NoPods
  PROVE  IInv'
<1>1. WrittenInv'
  BY DEF IInv, WrittenInv, ReportsGeneration
<1>2. WorkloadInv'
  <2> SUFFICES ASSUME IsWorkload, ~object.deleting PROVE WorkloadInv'
    BY DEF WorkloadInv, IsWorkload
  <2>1. WorkloadInv
    BY DEF IInv
  <2> QED
    BY <2>1 DEF WorkloadInv
<1>3. StageInv'
  BY DEF IInv, StageInv, IsWorkload, ReportsGeneration
<1> QED
  BY <1>1, <1>2, <1>3 DEF IInv

LEMMA AdvanceInv == IInv /\ Advance => IInv'
<1> SUFFICES ASSUME IInv, Advance PROVE IInv'
  OBVIOUS
<1>1. PICK e \in Advances(object.kind) : e[1] = stage /\ stage' = e[2]
  BY DEF Advance
<1>2. stage' \in Stages /\ stage # "done"
  BY <1>1 DEF Advances, Stages
<1>3. /\ object' = object /\ seen' = seen /\ pods' = pods /\ ~IsWorkload
      /\ changes' = changes /\ faults' = faults /\ sick' = sick
  BY DEF Advance
<1>4. TypesInv'
  BY <1>2, <1>3 DEF IInv, TypesInv
<1> QED
  BY <1>2, <1>3, <1>4, SameObjectInv

LEMMA PodStartsInv == \A s \in Slots : IInv /\ PodStarts(s) => IInv'
<1> SUFFICES ASSUME NEW s \in Slots, IInv, PodStarts(s) PROVE IInv'
  OBVIOUS
<1>1. /\ object' = object /\ seen' = seen /\ stage' = stage /\ changes' = changes
      /\ faults' = faults /\ sick' = sick /\ pods' = [pods EXCEPT ![s] = NewPod(s)]
      /\ object.kind \in Workloads
      /\ object.kind = "DaemonSet" => s \in Nodes
      /\ object.kind = "StatefulSet" => object.currentRevision # None
  BY DEF PodStarts, IsWorkload, Workloads
<1>2. NewPod(s) \in Pod
  <2>1. object.template \in Nat /\ object.currentRevision \in Nat \cup {None}
    BY DEF IInv, TypesInv, ObjectType
  <2> QED
    BY <1>1, <2>1 DEF NewPod, Pod, Kept
<1>3. pods' \in PodsType
  BY <1>1, <1>2 DEF IInv, TypesInv, PodsType
<1>4. TypesInv'
  BY <1>1, <1>3 DEF IInv, TypesInv
<1>5. \A t \in Slots : t # s => pods'[t] = pods[t]
  BY <1>1 DEF IInv, TypesInv, PodsType
<1> QED
  BY <1>1, <1>4, <1>5, SameObjectInv

LEMMA PodGoesInv ==
  ASSUME IInv, NEW s \in Slots, pods[s] # None, NEW p \in Pod \cup {None},
         pods' = [pods EXCEPT ![s] = p],
         object' = object, seen' = seen, stage' = stage, changes' = changes, sick' = sick,
         faults' \in 0 .. MaxFaults
  PROVE  IInv'
<1>1. pods' \in PodsType /\ \A t \in Slots : t # s => pods'[t] = pods[t]
  BY DEF IInv, TypesInv, PodsType
<1>2. TypesInv'
  BY <1>1 DEF IInv, TypesInv
<1>3. pods # NoPods
  BY DEF NoPods
<1> QED
  BY <1>1, <1>2, <1>3, SameObjectInv

LEMMA PodStepsInv ==
  \A s \in Slots : IInv /\ (PodStops(s) \/ PodAdvances(s) \/ PodFails(s)) => IInv'
<1> SUFFICES ASSUME NEW s \in Slots, IInv, PodStops(s) \/ PodAdvances(s) \/ PodFails(s)
             PROVE  IInv'
  OBVIOUS
<1>1. /\ pods \in PodsType /\ faults \in 0 .. MaxFaults /\ MaxFaults \in Nat
      /\ pods[s] # None => pods[s] \in Pod
  BY ReconciliationAssumption DEF IInv, TypesInv, PodsType
<1>2. CASE PodStops(s)
  <2>1. pods[s] # None
    BY <1>2 DEF PodStops, Unwanted
  <2> QED
    BY <1>1, <1>2, <2>1, PodGoesInv DEF PodStops
<1>3. CASE PodAdvances(s)
  <2>1. pods[s] # None /\ pods[s] \in Pod
    BY <1>1, <1>3 DEF PodAdvances
  <2> DEFINE l == IF pods[s].level = "starting" THEN "ready" ELSE "available"
             p == [pods[s] EXCEPT !.level = l]
  <2>2. p \in Pod
    <3>1. l \in {"starting", "ready", "available"}
      OBVIOUS
    <3> HIDE DEF l
    <3> QED
      BY <2>1, <3>1 DEF Pod
  <2>3. pods' = [pods EXCEPT ![s] = p]
    BY <1>1, <1>3 DEF PodAdvances, PodsType
  <2> HIDE DEF p
  <2> QED
    BY <1>1, <1>3, <2>1, <2>2, <2>3, PodGoesInv DEF PodAdvances
<1>4. CASE PodFails(s)
  <2>1. pods[s] # None /\ pods[s] \in Pod
    BY <1>1, <1>4 DEF PodFails
  <2>2. faults' \in 0 .. MaxFaults
    BY <1>1, <1>4 DEF PodFails
  <2> DEFINE p == [pods[s] EXCEPT !.level = "starting"]
  <2>3. p \in Pod
    BY <2>1 DEF Pod
  <2>4. pods' \in {[pods EXCEPT ![s] = None], [pods EXCEPT ![s] = p]}
    BY <1>1, <1>4 DEF PodFails, PodsType
  <2> HIDE DEF p
  <2> QED
    BY <1>4, <2>1, <2>2, <2>3, <2>4, PodGoesInv DEF PodFails
<1> QED
  BY <1>2, <1>3, <1>4

\* What the controller writes, and of what.
LEMMA ControllerWritesIs ==
  ASSUME TypesInv, ControllerWrites
  PROVE  /\ object' \in ObjectType /\ SameSpec(object', object) /\ ~object.deleting
         /\ object'.observed = IF ReportsGeneration THEN object.generation ELSE object.observed
         /\ ~IsWorkload =>
              SameStatus(object', Report(object, Told)) /\ Report(object, Told) \in ObjectType
         /\ seen'.pods = pods /\ seen'.generation = object.generation /\ seen'.told = Told
         /\ seen'.reconciled = IF stage = "done" THEN object.generation ELSE seen.reconciled
         /\ seen' \in SeenType
         /\ UNCHANGED <<pods, stage, changes, faults, sick>>
<1> DEFINE n == IF stage = "done" THEN object.generation ELSE seen.reconciled
<1>1. /\ ~object.deleting
      /\ object' = IF IsWorkload THEN Rollout(object, pods) ELSE Observed(Report(object, Told))
      /\ seen' = [pods |-> pods, generation |-> object.generation, told |-> Told,
                  reconciled |-> n]
      /\ UNCHANGED <<pods, stage, changes, faults, sick>>
  BY DEF ControllerWrites
<1>2. object \in ObjectType /\ pods \in PodsType /\ stage \in Stages /\ seen \in SeenType
      /\ object.generation \in Nat \ {0}
  BY DEF TypesInv, ObjectType
<1>3. Told \in Stages /\ n \in Nat
  BY <1>2 DEF Told, Stages, SeenType
<1> HIDE DEF n
<1>4. /\ seen'.pods = pods /\ seen'.generation = object.generation /\ seen'.told = Told
      /\ seen'.reconciled = n /\ seen' \in SeenType
  BY <1>1, <1>2, <1>3 DEF SeenType
<1>5. CASE IsWorkload
  <2>1. object.kind \in Workloads /\ ReportsGeneration
    BY <1>5 DEF IsWorkload, ReportsGeneration
  <2> QED
    BY <1>1, <1>2, <1>4, <1>5, <2>1, RolloutIs DEF n
<1>6. CASE ~IsWorkload
  <2> DEFINE r == Report(object, Told)
  <2>1. object.kind \notin Workloads /\ (ReportsGeneration <=> object.kind \in Reporting)
    BY <1>6 DEF IsWorkload, ReportsGeneration
  <2>2. r \in ObjectType /\ SameSpec(r, object) /\ r.observed = object.observed
    BY <1>2, <2>1, ReportIs
  <2>3. object' = Observed(r)
    BY <1>1, <1>6
  <2> HIDE DEF r
  <2>4. /\ object' \in ObjectType /\ SameSpec(object', r) /\ SameStatus(object', r)
        /\ object'.observed = IF r.kind \in Reporting THEN r.generation ELSE r.observed
    BY <2>2, <2>3, ObservedIs
  <2>5. SameSpec(object', object)
    BY <2>2, <2>4 DEF SameSpec
  <2>6. object'.observed = IF ReportsGeneration THEN object.generation ELSE object.observed
    BY <2>1, <2>2, <2>4 DEF SameSpec
  <2> QED
    BY <1>1, <1>4, <1>6, <2>2, <2>4, <2>5, <2>6 DEF n, r
<1> QED
  BY <1>5, <1>6

LEMMA ControllerWritesInv == IInv /\ ControllerWrites => IInv'
<1> SUFFICES ASSUME IInv, ControllerWrites PROVE IInv'
  OBVIOUS
<1>1. /\ object' \in ObjectType /\ SameSpec(object', object) /\ ~object.deleting
      /\ object'.observed = IF ReportsGeneration THEN object.generation ELSE object.observed
      /\ ~IsWorkload =>
           SameStatus(object', Report(object, Told)) /\ Report(object, Told) \in ObjectType
      /\ seen'.pods = pods /\ seen'.generation = object.generation /\ seen'.told = Told
      /\ seen'.reconciled = IF stage = "done" THEN object.generation ELSE seen.reconciled
      /\ seen' \in SeenType
      /\ UNCHANGED <<pods, stage, changes, faults, sick>>
  BY ControllerWritesIs DEF IInv
<1>2. IsWorkload => object' = Rollout(object, pods)
  BY DEF ControllerWrites
<1>3. /\ object \in ObjectType /\ pods \in PodsType /\ object.generation \in Nat \ {0}
      /\ object.generation # None /\ seen.reconciled \in Nat /\ seen.generation \in Nat
      /\ seen.reconciled <= seen.generation /\ seen.generation <= object.generation
      /\ ~ReportsGeneration => object.observed = None
  BY NoneAssumption DEF IInv, TypesInv, WrittenInv, ObjectType, SeenType
<1>4. /\ object'.kind = object.kind /\ object'.generation = object.generation
      /\ object'.template = object.template /\ object'.deadline = object.deadline
  BY <1>1 DEF SameSpec
<1>5. TypesInv'
  BY <1>1, <1>4 DEF IInv, TypesInv
<1>6. WrittenInv'
  BY <1>1, <1>3, <1>4 DEF WrittenInv, ReportsGeneration
<1>7. CASE IsWorkload
  <2>1. object.kind \in Workloads /\ object'.observed = object.generation
    BY <1>1, <1>7 DEF IsWorkload, ReportsGeneration
  <2>2. /\ object'.count = Counts(object', pods) /\ object'.updateRevision = object.template
        /\ object.kind = "StatefulSet" => object'.currentRevision # None
        /\ object.kind = "Deployment" =>
             object'.conditions = DeploymentConditions(object, Counts(object, pods),
                                                       Progress(object, Counts(object, pods)))
    BY <1>2, <1>3, <1>7, <2>1, RolloutIs
  <2>3. object.kind = "Deployment" =>
          /\ object'.conditions[1].reason = "Replicas"
          /\ ~object.deadline => Len(object'.conditions) = 1
          /\ object.deadline => Len(object'.conditions) = 2
    <3>1. Progress(object, Counts(object, pods)) \in Reasons
      BY ProgressIs
    <3> QED
      BY <1>3, <2>2, <3>1, DeploymentConditionsAre DEF Condition
  <2>4. object.kind = "DaemonSet" => \A s \in Slots : pods[s] # None => s \in Nodes
    BY <1>1, <1>7 DEF IInv, WorkloadInv
  <2>5. WorkloadInv'
    BY <1>1, <1>3, <1>4, <2>1, <2>2, <2>3, <2>4 DEF WorkloadInv
  <2>6. StageInv'
    BY <1>4, <1>7 DEF StageInv, IsWorkload
  <2> QED
    BY <1>5, <1>6, <2>5, <2>6 DEF IInv
<1>8. CASE ~IsWorkload
  <2> DEFINE r == Report(object, Told)
  <2>0. object.kind \notin Workloads /\ r \in ObjectType /\ SameStatus(object', r)
    BY <1>1, <1>8 DEF IsWorkload
  <2>1. Says(object', Told)
    <3>1. Says(r, Told) /\ r.kind = object.kind
      BY <1>3, <2>0, ReportSays, ReportIs DEF SameSpec
    <3> HIDE DEF r
    <3> QED
      BY <1>1, <1>4, <2>0, <3>1, SaysToo
  <2>2. object.kind = "Service" => object'.phase = "LoadBalancer"
    <3>1. object.kind = "Service" => object.phase = "LoadBalancer"
      BY <1>8 DEF IInv, StageInv
    <3>2. ASSUME object.kind = "Service" PROVE r.phase = object.phase
      <4>1. PICK i \in BOOLEAN : r = [object EXCEPT !.ingress = i]
        BY <1>3, <3>2, ReportOfService
      <4> QED
        BY <1>3, <4>1 DEF ObjectType
    <3> QED
      BY <2>0, <3>1, <3>2 DEF SameStatus
  <2>3. StageInv'
    <3>1. /\ Told = "done" =>
               stage = "done" \/ (seen.told = "done" /\ object.kind \notin Resetting)
          /\ seen.told = "done" => seen.reconciled > 0
          /\ seen.reconciled = object.generation => stage = "done"
      BY <1>8 DEF Told, IInv, StageInv
    <3>2. /\ seen'.told = "done" => seen'.reconciled > 0
          /\ seen'.told = "done" /\ object.kind \in Resetting => seen'.reconciled = seen'.generation
          /\ seen'.reconciled = object.generation => stage = "done"
      BY <1>1, <1>3, <3>1
    <3>3. ReportsGeneration => object'.observed # None
      BY <1>1, <1>3
    <3> QED
      BY <1>1, <1>4, <2>1, <2>2, <3>2, <3>3 DEF StageInv, ReportsGeneration
  <2>4. WorkloadInv'
    BY <1>4, <1>8 DEF WorkloadInv, IsWorkload
  <2> QED
    BY <1>5, <1>6, <2>3, <2>4 DEF IInv
<1> QED
  BY <1>7, <1>8

LEMMA DeadlinePassesIs ==
  ASSUME TypesInv, DeadlinePasses
  PROVE  LET c == DeploymentConditions(object, object.count, "ProgressDeadlineExceeded")
         IN  /\ object' = [object EXCEPT !.conditions = c]
             /\ c \in Seq(ConditionType) /\ Len(c) = 2 /\ c[1].reason = "Replicas"
             /\ c[2] = Condition("Progressing", "False", "ProgressDeadlineExceeded")
             /\ object' \in ObjectType /\ object'.conditions = c
             /\ SameSpec(object', object)
             /\ object'.observed = object.observed /\ object'.count = object.count
             /\ object'.currentRevision = object.currentRevision
             /\ object'.updateRevision = object.updateRevision
<1> DEFINE r == "ProgressDeadlineExceeded"
           c == DeploymentConditions(object, object.count, r)
<1>1. object \in ObjectType /\ object.deadline /\ r \in Reasons
  BY DEF TypesInv, DeadlinePasses, Reasons
<1>2. object' = [object EXCEPT !.conditions = c]
  BY DEF DeadlinePasses
<1>3. c \in Seq(ConditionType) /\ Len(c) = 2 /\ c[1].reason = "Replicas"
      /\ c[2] = Condition("Progressing", "False", r)
  BY <1>1, DeploymentConditionsAre DEF Condition
<1> HIDE DEF c
<1>4. object' \in ObjectType /\ object'.conditions = c
  BY <1>1, <1>2, <1>3 DEF ObjectType
<1>5. /\ SameSpec(object', object)
      /\ object'.observed = object.observed /\ object'.count = object.count
      /\ object'.currentRevision = object.currentRevision
      /\ object'.updateRevision = object.updateRevision
  BY <1>1, <1>2 DEF ObjectType, SameSpec
<1> QED
  BY <1>2, <1>3, <1>4, <1>5 DEF c

LEMMA DeadlinePassesInv == IInv /\ DeadlinePasses => IInv'
<1> SUFFICES ASSUME IInv, DeadlinePasses PROVE IInv'
  OBVIOUS
<1> DEFINE c == object'.conditions
<1>1. /\ Len(c) = 2 /\ c[1].reason = "Replicas"
      /\ object' \in ObjectType /\ SameSpec(object', object)
      /\ object'.observed = object.observed /\ object'.count = object.count
      /\ object'.currentRevision = object.currentRevision
      /\ object'.updateRevision = object.updateRevision
  BY DeadlinePassesIs DEF IInv
<1>2. /\ ~object.deleting /\ object.kind = "Deployment" /\ object.deadline
      /\ object.observed = object.generation
      /\ UNCHANGED <<pods, stage, seen, changes, faults, sick>>
  BY DEF DeadlinePasses
<1>3. /\ object'.kind = object.kind /\ object'.generation = object.generation
      /\ object'.template = object.template /\ object'.deadline = object.deadline
      /\ object'.deleting = object.deleting
  BY <1>1 DEF SameSpec
<1>4. object.generation # None
  BY NoneAssumption DEF IInv, TypesInv, ObjectType
<1>5. TypesInv'
  BY <1>1, <1>2, <1>3 DEF IInv, TypesInv
<1>6. WrittenInv'
  BY <1>1, <1>2, <1>3 DEF IInv, WrittenInv, ReportsGeneration
<1>7. WorkloadInv'
  <2>1. Counts(object', seen.pods) = Counts(object, seen.pods)
    BY <1>1, CountsOfSame
  <2>2. /\ object.count = Counts(object, seen.pods) /\ object.updateRevision = object.template
    BY <1>2 DEF IInv, WorkloadInv, IsWorkload, Workloads
  <2> QED
    BY <1>1, <1>2, <1>3, <1>4, <2>1, <2>2 DEF WorkloadInv
<1>8. StageInv'
  BY <1>2, <1>3 DEF StageInv, IsWorkload, Workloads
<1> QED
  BY <1>5, <1>6, <1>7, <1>8 DEF IInv

LEMMA AgesInv == IInv /\ Ages => IInv'
<1> SUFFICES ASSUME IInv, Ages PROVE IInv'
  OBVIOUS
<1>1. /\ object.kind = "Pod" /\ object' = [object EXCEPT !.young = FALSE]
      /\ UNCHANGED <<pods, stage, seen, changes, faults, sick>>
      /\ object \in ObjectType
  BY DEF Ages, IInv, TypesInv
<1>2. object' \in ObjectType
  BY <1>1 DEF ObjectType
<1>3. /\ SameSpec(object', object) /\ SameStatus(object', object)
      /\ object'.observed = object.observed
  BY <1>1 DEF ObjectType, SameSpec, SameStatus
<1>4. object.kind \notin Workloads /\ object.kind \in CoreKinds /\ ~IsWorkload
  BY <1>1 DEF Workloads, CoreKinds, IsWorkload
<1>5. object'.kind = object.kind /\ object'.generation = object.generation
  BY <1>3 DEF SameSpec
<1>6. TypesInv'
  BY <1>1, <1>2, <1>5 DEF IInv, TypesInv
<1>7. WrittenInv'
  BY <1>1, <1>3, <1>5 DEF IInv, WrittenInv, ReportsGeneration
<1>8. WorkloadInv'
  BY <1>4, <1>5 DEF WorkloadInv, IsWorkload
<1>9. StageInv'
  <2>1. Unwritten(object) => Unwritten(object')
    BY <1>3, <1>5 DEF Unwritten, SameStatus
  <2>2. Says(object, seen.told) => Says(object', seen.told)
    BY <1>1, <1>2, <1>3, <1>4, <1>5, SaysToo
  <2> QED
    BY <1>1, <1>3, <1>4, <1>5, <2>1, <2>2 DEF IInv, StageInv, ReportsGeneration, SameStatus
<1> QED
  BY <1>6, <1>7, <1>8, <1>9 DEF IInv

LEMMA SpecChangesIs ==
  ASSUME TypesInv, SpecChanges
  PROVE  /\ object' \in ObjectType /\ SameStatus(object', object)
         /\ object'.kind = object.kind /\ object'.deleting = object.deleting
         /\ object'.generation = object.generation + 1
         /\ object'.deadline = object.deadline /\ object'.onDelete = object.onDelete
         /\ object'.observed = object.observed /\ object'.count = object.count
         /\ object'.currentRevision = object.currentRevision
         /\ object'.updateRevision = object.updateRevision
<1>1. object \in ObjectType /\ object.generation + 1 \in Nat \ {0} /\ object.template + 1 \in Nat
  <2>1. object \in ObjectType
    BY DEF TypesInv
  <2>2. object.generation \in Nat /\ object.template \in Nat
    BY <2>1 DEF ObjectType
  <2> QED
    BY <2>1, <2>2
<1>2. CASE object' = [object EXCEPT !.generation = object.generation + 1,
                                    !.template = object.template + 1]
  <2>1. object' \in ObjectType
    BY <1>1, <1>2 DEF ObjectType
  <2> QED
    BY <1>1, <1>2, <2>1 DEF ObjectType, SameStatus
<1>3. ASSUME NEW n \in Scales,
             object' = [object EXCEPT !.generation = object.generation + 1, !.replicas = n]
      PROVE  /\ object' \in ObjectType /\ SameStatus(object', object)
             /\ object'.kind = object.kind /\ object'.deleting = object.deleting
             /\ object'.generation = object.generation + 1
             /\ object'.deadline = object.deadline /\ object'.onDelete = object.onDelete
             /\ object'.observed = object.observed /\ object'.count = object.count
             /\ object'.currentRevision = object.currentRevision
             /\ object'.updateRevision = object.updateRevision
  <2>1. n \in Nat
    BY ReconciliationAssumption
  <2>2. object' \in ObjectType
    BY <1>1, <1>3, <2>1 DEF ObjectType
  <2> QED
    BY <1>1, <1>3, <2>2 DEF ObjectType, SameStatus
<1> QED
  BY <1>2, <1>3 DEF SpecChanges

LEMMA SpecChangesInv == IInv /\ SpecChanges => IInv'
<1> SUFFICES ASSUME IInv, SpecChanges PROVE IInv'
  OBVIOUS
<1>1. /\ object' \in ObjectType /\ SameStatus(object', object)
      /\ object'.kind = object.kind /\ object'.deleting = object.deleting
      /\ object'.generation = object.generation + 1
      /\ object'.deadline = object.deadline /\ object'.onDelete = object.onDelete
      /\ object'.observed = object.observed /\ object'.count = object.count
      /\ object'.currentRevision = object.currentRevision
      /\ object'.updateRevision = object.updateRevision
  BY SpecChangesIs DEF IInv
<1>2. /\ changes < MaxChanges[object.kind] /\ changes' = changes + 1
      /\ stage' = IF IsWorkload THEN stage ELSE AfterChange(object.kind, stage)
      /\ UNCHANGED <<pods, seen, faults, sick>>
  BY DEF SpecChanges
<1>3. /\ object.generation \in Nat /\ seen.generation \in Nat \ {0} /\ seen.reconciled \in Nat
      /\ object.observed \in {None, seen.generation} /\ seen.generation <= object.generation
      /\ seen.reconciled <= seen.generation
      /\ (~ReportsGeneration => object.observed = None)
      /\ None \notin Nat /\ object \in ObjectType
  BY NoneAssumption DEF IInv, TypesInv, SeenType, WrittenInv, ObjectType
<1>4. TypesInv'
  <2>1. stage' \in Stages
    BY <1>2 DEF IInv, TypesInv, Stages, AfterChange
  <2>2. changes' \in 0 .. MaxChanges[object'.kind]
    <3>1. /\ MaxChanges[object.kind] \in Nat /\ changes \in 0 .. MaxChanges[object.kind]
          /\ changes < MaxChanges[object.kind]
      BY <1>2 DEF IInv, TypesInv
    <3> QED
      BY <1>1, <1>2, <3>1
  <2> QED
    BY <1>1, <1>2, <2>1, <2>2 DEF IInv, TypesInv
<1>5. WrittenInv'
  BY <1>1, <1>2, <1>3 DEF WrittenInv, ReportsGeneration
<1>6. object'.observed # object'.generation /\ seen'.reconciled # object'.generation
  BY <1>1, <1>2, <1>3
<1>7. WorkloadInv'
  <2> SUFFICES ASSUME IsWorkload, ~object.deleting PROVE WorkloadInv'
    BY <1>1 DEF WorkloadInv, IsWorkload
  <2>1. WorkloadInv
    BY DEF IInv
  <2> QED
    BY <1>1, <1>2, <1>6, <2>1 DEF WorkloadInv, SameStatus
<1>8. StageInv'
  <2> SUFFICES ASSUME ~IsWorkload PROVE StageInv'
    BY <1>1 DEF StageInv, IsWorkload
  <2>1. object.kind \notin Workloads
    BY DEF IsWorkload
  <2>2. Unwritten(object) => Unwritten(object')
    BY <1>1 DEF Unwritten, SameStatus
  <2>3. Says(object, seen.told) => Says(object', seen.told)
    BY <1>1, <1>3, <2>1, SaysToo
  <2> QED
    BY <1>1, <1>2, <1>6, <2>2, <2>3 DEF IInv, StageInv, ReportsGeneration, SameStatus
<1> QED
  BY <1>4, <1>5, <1>7, <1>8 DEF IInv

LEMMA DeletedInv == IInv /\ Deleted => IInv'
<1> SUFFICES ASSUME IInv, Deleted PROVE IInv'
  OBVIOUS
<1>1. /\ object' = [object EXCEPT !.deleting = TRUE] /\ pods' = NoPods
      /\ seen' = [seen EXCEPT !.pods = NoPods] /\ UNCHANGED <<stage, changes, faults, sick>>
      /\ object \in ObjectType
  BY DEF Deleted, IInv, TypesInv
<1>2. object' \in ObjectType
  BY <1>1 DEF ObjectType
<1>3. /\ SameStatus(object', object) /\ object'.kind = object.kind /\ object'.deleting
      /\ object'.generation = object.generation /\ object'.observed = object.observed
  BY <1>1 DEF ObjectType, SameStatus
<1>4. /\ seen' \in SeenType /\ seen'.told = seen.told
      /\ seen'.generation = seen.generation /\ seen'.reconciled = seen.reconciled
      /\ NoPods \in PodsType
  <2>1. NoPods \in PodsType
    BY DEF NoPods, PodsType
  <2> QED
    BY <1>1, <2>1 DEF IInv, TypesInv, SeenType
<1>5. TypesInv'
  BY <1>1, <1>2, <1>3, <1>4 DEF IInv, TypesInv
<1>6. WrittenInv'
  BY <1>3, <1>4 DEF IInv, WrittenInv, ReportsGeneration
<1>7. WorkloadInv'
  BY <1>3 DEF WorkloadInv
<1>8. StageInv'
  <2> SUFFICES ASSUME ~IsWorkload PROVE StageInv'
    BY <1>3 DEF StageInv, IsWorkload
  <2>1. object.kind \notin Workloads
    BY DEF IsWorkload
  <2>2. Unwritten(object) => Unwritten(object')
    BY <1>3 DEF Unwritten, SameStatus
  <2>3. Says(object, seen.told) => Says(object', seen.told)
    BY <1>1, <1>2, <1>3, <2>1, SaysToo
  <2> QED
    BY <1>1, <1>3, <1>4, <2>2, <2>3 DEF IInv, StageInv, ReportsGeneration, SameStatus
<1> QED
  BY <1>5, <1>6, <1>7, <1>8 DEF IInv

LEMMA NextInv == IInv /\ [Next]_vars => IInv'
<1> SUFFICES ASSUME IInv, [Next]_vars PROVE IInv'
  OBVIOUS
<1>1. CASE UNCHANGED vars
  <2>1. UNCHANGED <<object, pods, stage, sick, seen, changes, faults>>
    BY <1>1 DEF vars
  <2>2. TypesInv'
    BY <2>1 DEF IInv, TypesInv
  <2> QED
    BY <2>1, <2>2, SameObjectInv
<1>2. CASE Next
  BY <1>2, ControllerWritesInv, DeadlinePassesInv, AdvanceInv, AgesInv, SpecChangesInv,
     DeletedInv, PodStartsInv, PodStepsInv DEF Next
<1> QED
  BY <1>1, <1>2

\* The state of an object and of its world keeps its types, and statusCheck
\* always has a result for it, never an error (statuschecker.go:106-137): its
\* conditions are a list, and the checker registered for its kind does not fail.
THEOREM ReconciliationTypes == Spec => []TypeOK
<1>1. IInv => TypeOK
  <2> SUFFICES ASSUME IInv PROVE TypeOK
    OBVIOUS
  <2>1. /\ object \in ObjectType /\ pods \in PodsType /\ sick \in Sicknesses /\ stage \in Stages
        /\ changes \in 0 .. MaxChanges[object.kind] /\ faults \in 0 .. MaxFaults
    BY DEF IInv, TypesInv
  <2>2. /\ object.kind \in STRING /\ object.generation \in Nat \ {0}
        /\ object.observed \in Nat \cup {None} /\ object.count \in [Counters -> Nat]
    BY <2>1 DEF ObjectType
  <2>3. statusCheck(object) \in Answers \ {"none", "error"}
    BY <2>1, StatusCheckType DEF Results, Answers
  <2> QED
    BY <2>1, <2>2, <2>3 DEF TypeOK, PodsType, Stages
<1> QED
  BY <1>1, InitInv, NextInv, PTL DEF Spec

-----------------------------------------------------------------------------
(* Counting is enough: a Current object was reconciled.                     *)

\* As many pods as are wanted, and as many that are ready, of the template and
\* so on, are those pods and no others.
LEMMA RolledOutIs ==
  ASSUME NEW o \in ObjectType, NEW ps
  PROVE  RolledOut(o, ps) <=>
           /\ Cardinality(Occupied(ps)) = Desired(o)
           /\ \A s \in Occupied(ps) :
                /\ s \in Started(ps)
                /\ Kept(o, s) \/ Surplus(o, s) \/ s \in OfRev(ps, o.template)
<1>1. Number(ps, LAMBDA p : TRUE) = Cardinality(Occupied(ps))
  BY DEF Number, Occupied
<1>2. RolledOut(o, ps) <=>
        /\ Number(ps, LAMBDA p : TRUE) = Desired(o)
        /\ \A s \in Slots : ps[s] # None =>
             /\ ps[s].level # "starting"
             /\ Kept(o, s) \/ Surplus(o, s) \/ ps[s].rev = o.template
  BY Zenon DEF RolledOut
<1>3. (\A s \in Slots : ps[s] # None =>
             /\ ps[s].level # "starting"
             /\ Kept(o, s) \/ Surplus(o, s) \/ ps[s].rev = o.template)
      <=> \A s \in Occupied(ps) :
            /\ s \in Started(ps)
            /\ Kept(o, s) \/ Surplus(o, s) \/ s \in OfRev(ps, o.template)
  BY DEF Occupied, Started, OfRev
<1> QED
  BY <1>1, <1>2, <1>3, Zenon

LEMMA DeploymentRolledOut ==
  ASSUME NEW o \in ObjectType, NEW ps, o.kind = "Deployment", o.count = Counts(o, ps),
         deployStatusCheck(o) = "current"
  PROVE  RolledOut(o, ps) /\ Occupied(ps) = OfRev(ps, o.template) /\ Occupied(ps) = Available(ps)
<1>1. ~Short(o)
  BY DeploymentCheck
<1>2. /\ o.count.replicas = Cardinality(Occupied(ps))
      /\ o.count.updated = Cardinality(OfRev(ps, o.template))
      /\ o.count.available = Cardinality(Available(ps))
      /\ o.count.ready = Cardinality(Started(ps))
  BY CountsAre
<1>3. Desired(o) = Replicas(o) /\ Replicas(o) \in Nat
  BY CountsType DEF Desired
<1>4. \A P \in SUBSET Occupied(ps) :
        /\ Cardinality(P) \in Nat /\ Cardinality(P) <= Cardinality(Occupied(ps))
        /\ Cardinality(P) >= Cardinality(Occupied(ps)) => P = Occupied(ps)
  BY PodsAreFinite
<1>5. /\ Cardinality(Occupied(ps)) = Desired(o)
      /\ OfRev(ps, o.template) = Occupied(ps)
      /\ Started(ps) = Occupied(ps)
      /\ Available(ps) = Occupied(ps)
  BY <1>1, <1>2, <1>3, <1>4, Sorts DEF Short
<1> QED
  BY <1>5, RolledOutIs

LEMMA DaemonSetRolledOut ==
  ASSUME NEW o \in ObjectType, NEW ps, o.kind = "DaemonSet", o.count = Counts(o, ps),
         daemonSetStatusCheck(o) = "current", Occupied(ps) \subseteq Nodes
  PROVE  /\ RolledOut(o, ps) /\ Occupied(ps) = Nodes
         /\ Occupied(ps) = OfRev(ps, o.template) /\ Occupied(ps) = Available(ps)
<1>1. /\ o.count.desired <= o.count.current /\ o.count.desired <= o.count.updated
      /\ o.count.desired <= o.count.available /\ o.count.desired <= o.count.ready
  <2>1. /\ o.count.desired \in Nat /\ o.count.current \in Nat /\ o.count.updated \in Nat
        /\ o.count.available \in Nat /\ o.count.ready \in Nat
    BY DEF ObjectType, Counters
  <2> QED
    BY <2>1 DEF daemonSetStatusCheck
<1>2. /\ o.count.desired = Cardinality(Nodes) /\ o.count.current = Cardinality(Occupied(ps))
      /\ o.count.updated = Cardinality(OfRev(ps, o.template))
      /\ o.count.available = Cardinality(Available(ps))
      /\ o.count.ready = Cardinality(Started(ps))
  BY CountsAre DEF Desired
<1>3. IsFiniteSet(Nodes) /\ Cardinality(Nodes) \in Nat
  BY ReconciliationAssumption, FS_Subset, FS_CardinalityType
<1>4. \A P \in SUBSET Occupied(ps) :
        /\ Cardinality(P) \in Nat /\ Cardinality(P) <= Cardinality(Occupied(ps))
        /\ Cardinality(P) >= Cardinality(Occupied(ps)) => P = Occupied(ps)
  BY PodsAreFinite
<1>5. /\ Cardinality(Occupied(ps)) <= Cardinality(Nodes)
      /\ Cardinality(Occupied(ps)) = Cardinality(Nodes) => Occupied(ps) = Nodes
  BY <1>3, FS_Subset
<1>6. /\ Cardinality(Occupied(ps)) = Cardinality(Nodes)
      /\ OfRev(ps, o.template) = Occupied(ps)
      /\ Started(ps) = Occupied(ps)
      /\ Available(ps) = Occupied(ps)
  BY <1>1, <1>2, <1>3, <1>4, <1>5, Sorts
<1> QED
  BY <1>5, <1>6, RolledOutIs DEF Desired

\* With a partition the updated pods are fewer than all, but all have one
\* revision: if some was updated, all were.
LEMMA StatefulSetRolledOut ==
  ASSUME NEW o \in ObjectType, NEW ps, o.kind = "StatefulSet", o.count = Counts(o, ps),
         statefulSetStatusCheck(o) = "current", ~o.onDelete, o.updateRevision = o.template
  PROVE  /\ RolledOut(o, ps) /\ Occupied(ps) = OfRev(ps, o.currentRevision)
         /\ Occupied(ps) = Started(ps)
<1>1. /\ Replicas(o) <= o.count.replicas /\ Replicas(o) <= o.count.ready
      /\ o.count.replicas <= Replicas(o) /\ Replicas(o) <= o.count.current
      /\ o.partition # None => o.count.updated >= Replicas(o) - o.partition
      /\ o.partition = None => o.currentRevision = o.updateRevision
  <2>1. /\ o.count.replicas \in Nat /\ o.count.ready \in Nat /\ o.count.current \in Nat
        /\ o.count.updated \in Nat
    BY DEF ObjectType, Counters
  <2>2. Replicas(o) \in Nat /\ o.partition \in Nat \cup {None}
    BY DEF Replicas, ObjectType
  <2> QED
    BY <2>1, <2>2 DEF statefulSetStatusCheck
<1>2. /\ o.count.replicas = Cardinality(Occupied(ps))
      /\ o.count.current = Cardinality(OfRev(ps, o.currentRevision))
      /\ o.count.updated = Cardinality(OfRev(ps, o.template))
      /\ o.count.ready = Cardinality(Started(ps))
  BY CountsAre
<1>3. Desired(o) = Replicas(o) /\ Replicas(o) \in Nat
  BY CountsType DEF Desired
<1>4. \A P \in SUBSET Occupied(ps) :
        /\ Cardinality(P) \in Nat /\ Cardinality(P) <= Cardinality(Occupied(ps))
        /\ Cardinality(P) >= Cardinality(Occupied(ps)) => P = Occupied(ps)
  BY PodsAreFinite
<1>5. /\ Cardinality(Occupied(ps)) = Desired(o)
      /\ OfRev(ps, o.currentRevision) = Occupied(ps)
      /\ Started(ps) = Occupied(ps)
  BY <1>1, <1>2, <1>3, <1>4, Sorts
<1>6. ASSUME NEW s \in Occupied(ps)
      PROVE  Kept(o, s) \/ Surplus(o, s) \/ s \in OfRev(ps, o.template)
  <2>1. s \in Nat
    BY SlotsAreNat DEF Occupied
  <2>2. CASE o.partition = None
    BY <1>1, <1>5, <2>2
  <2>3. CASE o.partition # None /\ Replicas(o) <= o.partition
    <3>1. o.partition \in Nat
      BY <2>3 DEF ObjectType
    <3> QED
      BY <1>3, <2>1, <2>3, <3>1 DEF Kept, Surplus
  <2>4. CASE o.partition # None /\ ~(Replicas(o) <= o.partition)
    <3>1. o.partition \in Nat
      BY <2>4 DEF ObjectType
    <3>2. Cardinality(OfRev(ps, o.template)) > 0 /\ Cardinality(OfRev(ps, o.template)) \in Nat
      BY <1>1, <1>2, <1>3, <1>4, <2>4, <3>1, Sorts
    <3>3. OfRev(ps, o.template) # {}
      BY <3>2, FS_EmptySet
    <3>4. PICK t \in OfRev(ps, o.template) : TRUE
      BY <3>3
    <3>5. t \in OfRev(ps, o.currentRevision)
      BY <1>5, <3>4, Sorts
    <3>6. o.currentRevision = o.template
      BY <3>4, <3>5 DEF OfRev
    <3> QED
      BY <1>5, <3>6
  <2> QED
    BY <2>2, <2>3, <2>4
<1> QED
  BY <1>5, <1>6, RolledOutIs

\* Of another kind: what was reported is Current if and only if it is done.
LEMMA ReportedCurrent ==
  ASSUME NEW o \in ObjectType, o.kind \notin Workloads, NEW s, Says(o, s),
         ~o.deleting, o.observed \in {None, o.generation},
         o.kind = "Service" => o.phase = "LoadBalancer"
  PROVE  statusCheck(o) = "current" <=> s = "done"
<1> DEFINE r == Report(o, s)
<1>0. /\ o.conditions = r.conditions /\ o.phase = r.phase /\ o.ingress = r.ingress
      /\ o.custom = r.custom /\ o.crashing = r.crashing
  BY DEF Says
<1>1. CASE o.kind \in {"CustomResourceDefinition", "Job", "Pod"}
  <2>1. statusCheck(o) = checkCoreResources(o)
    BY <1>1, StatusCheckIs DEF CoreKinds
  <2> HIDE DEF r
  <2> QED
    BY <1>0, <1>1, <2>1, CrdCheck, JobCheck, PodCheck DEF checkCoreResources, r
<1>2. CASE o.kind = "Service"
  <2>1. statusCheck(o) = serviceStatusCheck(o)
    BY <1>2, StatusCheckIs DEF CoreKinds, checkCoreResources
  <2>2. PICK i \in BOOLEAN : r = [o EXCEPT !.ingress = i] /\ (i <=> s = "done")
    BY <1>2, ReportOfService
  <2>3. o.ingress = i
    <3> HIDE DEF r
    <3> QED
      BY <1>0, <2>2 DEF ObjectType
  <2> QED
    BY <1>2, <2>1, <2>2, <2>3 DEF serviceStatusCheck
<1>3. CASE o.kind = "PersistentVolumeClaim"
  <2>1. statusCheck(o) = pvcStatusCheck(o)
    BY <1>3, StatusCheckIs DEF CoreKinds, checkCoreResources
  <2>2. PICK p \in Phases : r = [o EXCEPT !.phase = p] /\ (p = "Bound" <=> s = "done")
    BY <1>3, ReportOfClaim
  <2>3. o.phase = p
    <3> HIDE DEF r
    <3> QED
      BY <1>0, <2>2 DEF ObjectType
  <2> QED
    BY <2>1, <2>2, <2>3 DEF pvcStatusCheck
<1>4. CASE o.kind \notin CoreKinds
  <2> DEFINE a == FirstAnswer(<<checkStatusConditions(o), "current">>)
  <2>1. a = "current" <=> s = "done"
    BY <1>0, <1>4, OtherCheck
  <2>2. statusCheck(o) = IF o.kind \in Registered THEN o.custom ELSE a
    BY <1>4, StatusCheckIs
  <2>3. o.custom = "current" <=> s = "done"
    <3>1. PICK u \in {"inProgress", "failed", "current"}, c \in Seq(ConditionType) :
            OtherReport(o, s, u, c)
      BY <1>4, ReportOfOther
    <3>2. /\ r = [o EXCEPT !.custom = u, !.conditions = c]
          /\ u = "current" <=> s = "done"
      BY <3>1 DEF OtherReport
    <3>3. r.custom = u
      <4> HIDE DEF r
      <4> QED
        BY <3>2 DEF ObjectType
    <3> QED
      BY <1>0, <3>2, <3>3
  <2> HIDE DEF a
  <2> QED
    BY <2>1, <2>2, <2>3
<1> QED
  BY <1>1, <1>2, <1>3, <1>4 DEF CoreKinds

\* And before any report an object is Current only if nothing is known of it.
LEMMA UnwrittenCurrent ==
  ASSUME NEW o \in ObjectType, o.kind \notin Workloads, Unwritten(o), statusCheck(o) = "current"
  PROVE  o.kind \notin Workloads \cup CoreKinds \cup Registered
<1>0. ~o.deleting /\ o.observed \in {None, o.generation}
  BY StatusCheckIs DEF Unwritten
<1>1. ASSUME o.kind \in CoreKinds PROVE FALSE
  <2>1. checkCoreResources(o) = "current"
    BY <1>0, <1>1, StatusCheckIs
  <2>2. CASE o.kind = "CustomResourceDefinition"
    BY <2>1, <2>2, CrdCheck DEF checkCoreResources, Unwritten
  <2>3. CASE o.kind = "Job"
    BY <2>1, <2>3, JobCheck DEF checkCoreResources, Unwritten
  <2>4. CASE o.kind = "Pod"
    BY <2>1, <2>4, PodCheck DEF checkCoreResources, Unwritten
  <2>5. CASE o.kind = "Service"
    BY <2>1, <2>5 DEF checkCoreResources, serviceStatusCheck, Unwritten
  <2>6. CASE o.kind = "PersistentVolumeClaim"
    BY <2>1, <2>6, NoneAssumption DEF checkCoreResources, pvcStatusCheck, Unwritten
  <2> QED
    BY <1>1, <2>2, <2>3, <2>4, <2>5, <2>6 DEF CoreKinds
<1>2. ASSUME o.kind \in Registered, o.kind \notin CoreKinds PROVE FALSE
  <2>1. statusCheck(o) = o.custom
    BY <1>0, <1>2, StatusCheckIs
  <2> QED
    BY <2>1 DEF Unwritten
<1> QED
  BY <1>1, <1>2

\* A workload whose status was never written is Current only if it asks for no
\* pods and has none.
LEMMA UnwrittenWorkload ==
  ASSUME NEW o \in ObjectType, o.kind \in Workloads, o.observed = None,
         o.conditions = <<>>, o.count = NoCounts, statusCheck(o) = "current",
         o.kind = "StatefulSet" => ~o.onDelete
  PROVE  o.kind = "StatefulSet" /\ RolledOut(o, NoPods) /\ Occupied(NoPods) = {}
         /\ Desired(o) = 0
<1>1. ~o.deleting
  BY StatusCheckIs
<1>2. checkCoreResources(o) = "current"
  BY <1>1, StatusCheckIs
<1>3. o.kind # "Deployment"
  <2>1. ASSUME o.kind = "Deployment" PROVE FALSE
    <3>1. ~Has(o, "Available", "True")
      BY DEF Has
    <3> QED
      BY <1>2, <2>1, <3>1, DeploymentCheck DEF checkCoreResources
  <2> QED
    BY <2>1
<1>4. o.kind # "DaemonSet"
  BY <1>2 DEF checkCoreResources, daemonSetStatusCheck
<1>5. o.kind = "StatefulSet"
  BY <1>3, <1>4 DEF Workloads
<1>6. Desired(o) = 0
  <2>1. statefulSetStatusCheck(o) = "current"
    BY <1>2, <1>5 DEF checkCoreResources
  <2>2. Desired(o) = Replicas(o) /\ Replicas(o) \in Nat
    BY <1>5, CountsType DEF Desired
  <2>3. o.count.replicas = 0
    BY DEF NoCounts, Counters
  <2>4. ~(Replicas(o) > o.count.replicas)
    BY <1>5, <2>1 DEF statefulSetStatusCheck
  <2> QED
    BY <2>2, <2>3, <2>4
<1>7. Occupied(NoPods) = {}
  BY DEF Occupied, NoPods
<1>8. Cardinality(Occupied(NoPods)) = 0
  BY <1>7, FS_EmptySet
<1> QED
  BY <1>5, <1>6, <1>7, <1>8, RolledOutIs

LEMMA CurrentIs ==
  ASSUME IInv, IsWorkload, Verdict = "current", object.kind = "StatefulSet" => ~object.onDelete
  PROVE  /\ RolledOut(object, seen.pods)
         /\ \/ /\ object.observed = object.generation
               /\ object.count = Counts(object, seen.pods)
               /\ object.updateRevision = object.template
               /\ checkCoreResources(object) = "current"
            \/ /\ object.kind = "StatefulSet" /\ object.currentRevision = None
               /\ Desired(object) = 0 /\ pods = NoPods /\ seen.pods = NoPods
<1>1. /\ object \in ObjectType /\ object.kind \in Workloads
      /\ statusCheck(object) = "current"
  BY DEF IInv, TypesInv, IsWorkload, Verdict
<1>2. ~object.deleting /\ object.observed \in {None, object.generation}
  BY <1>1, StatusCheckIs
<1>3. checkCoreResources(object) = "current"
  BY <1>1, <1>2, StatusCheckIs
<1>4. WorkloadInv
  BY DEF IInv
<1>5. CASE object.observed = None
  BY <1>1, <1>2, <1>4, <1>5, UnwrittenWorkload DEF WorkloadInv
<1>6. CASE object.observed = object.generation
  <2>1. /\ object.count = Counts(object, seen.pods) /\ object.updateRevision = object.template
        /\ object.kind = "DaemonSet" => Occupied(seen.pods) \subseteq Nodes
    BY <1>2, <1>4, <1>6 DEF WorkloadInv, Occupied
  <2>2. RolledOut(object, seen.pods)
    <3>1. CASE object.kind = "Deployment"
      BY <1>1, <1>3, <2>1, <3>1, DeploymentRolledOut DEF checkCoreResources
    <3>2. CASE object.kind = "DaemonSet"
      BY <1>1, <1>3, <2>1, <3>2, DaemonSetRolledOut DEF checkCoreResources
    <3>3. CASE object.kind = "StatefulSet"
      BY <1>1, <1>3, <2>1, <3>3, StatefulSetRolledOut DEF checkCoreResources
    <3> QED
      BY <1>1, <3>1, <3>2, <3>3 DEF Workloads
  <2> QED
    BY <1>3, <1>6, <2>1, <2>2
<1> QED
  BY <1>2, <1>5, <1>6

\* No workload is declared Current before the spec it has is rolled out: whatever
\* the number of replicas and of nodes, the partition, the order of the steps of
\* pods and controllers, and the faults.  Nor is another object before it was
\* reconciled with some spec: with the present one if its kind both reports the
\* generation and resets its status, for statusCheck takes the good news of
\* a former spec for that of the present one otherwise (statuschecker.go:158-163).
THEOREM CurrentMeansReconciled == Spec => []CurrentIsReconciled
<1>1. IInv => CurrentIsReconciled
  <2> SUFFICES ASSUME IInv, Verdict = "current", ~object.onDelete, ~Presumed
               PROVE  IF IsWorkload THEN RolledOut(object, seen.pods)
                      ELSE /\ seen.reconciled > 0
                           /\ object.kind \in Reporting => seen.generation = object.generation
                           /\ object.kind \in Resetting => seen.reconciled = seen.generation
    BY DEF CurrentIsReconciled
  <2>1. CASE IsWorkload
    BY <2>1, CurrentIs
  <2>2. CASE ~IsWorkload
    <3>1. /\ object \in ObjectType /\ object.kind \notin Workloads
          /\ statusCheck(object) = "current"
      BY <2>2 DEF IInv, TypesInv, IsWorkload, Verdict
    <3>2. ~object.deleting /\ object.observed \in {None, object.generation}
      BY <3>1, StatusCheckIs
    <3>3. ~Unwritten(object)
      BY <3>1, UnwrittenCurrent DEF Presumed, Unwritten
    <3>4. /\ Says(object, seen.told) /\ (ReportsGeneration => object.observed # None)
          /\ object.kind = "Service" => object.phase = "LoadBalancer"
      BY <2>2, <3>3 DEF IInv, StageInv
    <3>5. seen.told = "done"
      BY <3>1, <3>2, <3>4, ReportedCurrent
    <3>6. object.kind \in Reporting => seen.generation = object.generation
      BY <3>2, <3>4 DEF IInv, WrittenInv, ReportsGeneration
    <3> QED
      BY <2>2, <3>5, <3>6 DEF IInv, StageInv
  <2> QED
    BY <2>1, <2>2
<1> QED
  BY <1>1, InitInv, NextInv, PTL DEF Spec

-----------------------------------------------------------------------------
(* A Current object stays Current.                                          *)

SInv == IInv /\ SettledInv

LEMMA UnmovedSorts ==
  ASSUME NEW ps, NEW qs, Unmoved(ps, qs)
  PROVE  /\ Occupied(qs) = Occupied(ps)
         /\ \A r : OfRev(qs, r) = OfRev(ps, r)
         /\ Started(ps) \subseteq Started(qs)
         /\ Available(ps) \subseteq Available(qs)
  BY DEF Unmoved, Occupied, OfRev, Started, Available

\* Where the pods are once a rollout is over.
LEMMA SettledPods ==
  ASSUME IInv, SettledInv, IsWorkload, Verdict = "current", faults = 0, NoSurplus,
         object.kind = "StatefulSet" => ~object.onDelete
  PROVE  /\ Unmoved(seen.pods, pods)
         /\ \A s \in Slots : pods[s] # None => pods[s].level # "starting"
         /\ \/ /\ object.kind = "Deployment"
               /\ Occupied(pods) = OfRev(pods, object.template)
               /\ Cardinality(Occupied(pods)) = Desired(object)
               /\ Occupied(pods) = Available(pods)
            \/ /\ object.kind = "DaemonSet"
               /\ Occupied(pods) = OfRev(pods, object.template)
               /\ Occupied(pods) = Nodes
               /\ Occupied(pods) = Available(pods)
            \/ /\ object.kind = "StatefulSet"
               /\ Occupied(pods) = {s \in Slots : s < Desired(object)}
               /\ Cardinality(Occupied(pods)) = Desired(object)
               /\ \A s \in Occupied(pods) :
                    Kept(object, s) \/ s \in OfRev(pods, object.template)
               /\ Occupied(pods) = OfRev(pods, object.currentRevision)
         /\ object.observed # None => object.observed = object.generation
<1>1. Unmoved(seen.pods, pods)
  BY DEF SettledInv
<1>2. /\ Occupied(pods) = Occupied(seen.pods)
      /\ \A r : OfRev(pods, r) = OfRev(seen.pods, r)
      /\ Started(seen.pods) \subseteq Started(pods)
      /\ Available(seen.pods) \subseteq Available(pods)
  BY <1>1, UnmovedSorts
<1>3. object \in ObjectType /\ object.kind \in Workloads
  BY DEF IInv, TypesInv, IsWorkload
<1>4. /\ RolledOut(object, seen.pods)
      /\ \/ /\ object.observed = object.generation
            /\ object.count = Counts(object, seen.pods)
            /\ object.updateRevision = object.template
            /\ checkCoreResources(object) = "current"
         \/ /\ object.kind = "StatefulSet" /\ object.currentRevision = None
            /\ Desired(object) = 0 /\ pods = NoPods /\ seen.pods = NoPods
  BY CurrentIs
<1>5. /\ Cardinality(Occupied(pods)) = Desired(object)
      /\ \A s \in Occupied(pods) :
           /\ s \in Started(pods)
           /\ Kept(object, s) \/ Surplus(object, s) \/ s \in OfRev(pods, object.template)
  BY <1>2, <1>3, <1>4, RolledOutIs
<1>6. \A s \in Slots : pods[s] # None => pods[s].level # "starting"
  BY <1>5 DEF Occupied, Started
<1>7. Available(pods) \subseteq Occupied(pods)
  BY Sorts
<1>8. ~object.deleting /\ WorkloadInv
  BY <1>3, StatusCheckIs DEF Verdict, IInv
<1>9. object.observed # None => object.observed = object.generation
  BY <1>3, StatusCheckIs, <1>8 DEF Verdict
<1>10. CASE object.kind = "Deployment"
  <2>1. /\ Occupied(seen.pods) = OfRev(seen.pods, object.template)
        /\ Occupied(seen.pods) = Available(seen.pods)
    BY <1>3, <1>4, <1>10, DeploymentRolledOut DEF checkCoreResources
  <2> QED
    BY <1>1, <1>2, <1>5, <1>6, <1>7, <1>9, <1>10, <2>1
<1>11. CASE object.kind = "DaemonSet"
  <2>1. Occupied(seen.pods) \subseteq Nodes
    BY <1>8, <1>11 DEF WorkloadInv, IsWorkload, Workloads, Occupied
  <2>2. /\ Occupied(seen.pods) = OfRev(seen.pods, object.template)
        /\ Occupied(seen.pods) = Available(seen.pods) /\ Occupied(seen.pods) = Nodes
    BY <1>3, <1>4, <1>11, <2>1, DaemonSetRolledOut DEF checkCoreResources
  <2> QED
    BY <1>1, <1>2, <1>5, <1>6, <1>7, <1>9, <1>11, <2>2
<1>12. CASE object.kind = "StatefulSet"
  <2>1. Occupied(pods) = OfRev(pods, object.currentRevision)
    <3>1. CASE Occupied(pods) = {}
      BY <3>1, Sorts
    <3>2. CASE checkCoreResources(object) = "current" /\ object.count = Counts(object, seen.pods)
               /\ object.updateRevision = object.template
      BY <1>2, <1>3, <1>12, <3>2, StatefulSetRolledOut DEF checkCoreResources
    <3>3. pods = NoPods => Occupied(pods) = {}
      BY DEF NoPods, Occupied
    <3> QED
      BY <1>4, <3>1, <3>2, <3>3
  <2>2. \A s \in Occupied(pods) : ~Surplus(object, s)
    BY <1>2 DEF NoSurplus, Occupied
  <2>3. Desired(object) \in Nat
    BY <1>3, CountsType
  <2>4. \A s \in Occupied(pods) : s \in Slots /\ s \in Nat /\ s < Desired(object)
    BY <1>12, <2>2, <2>3, SlotsAreNat DEF Occupied, Surplus
  <2> DEFINE I == 0 .. Desired(object) - 1
  <2>5. Occupied(pods) \subseteq I
    BY <2>3, <2>4
  <2>6. IsFiniteSet(I) /\ Cardinality(I) = Desired(object)
    BY <2>3, FS_Interval
  <2>7. Occupied(pods) = I
    <3> HIDE DEF I
    <3> QED
      BY <1>5, <2>5, <2>6, FS_Subset
  <2>8. Occupied(pods) = {s \in Slots : s < Desired(object)}
    <3>1. ASSUME NEW s \in Slots, s < Desired(object) PROVE s \in Occupied(pods)
      <4>1. s \in I
        BY <2>3, <3>1, SlotsAreNat
      <4> QED
        BY <2>7, <4>1
    <3> QED
      BY <2>4, <3>1
  <2> QED
    BY <1>1, <1>5, <1>6, <1>9, <1>12, <2>1, <2>2, <2>8
<1> QED
  BY <1>3, <1>10, <1>11, <1>12 DEF Workloads

LEMMA PodStartsNot ==
  ASSUME IInv, SettledInv, Verdict = "current", faults = 0, NoSurplus,
         object.kind = "StatefulSet" => ~object.onDelete, NEW s \in Slots
  PROVE  ~PodStarts(s) /\ ~PodStops(s)
<1> SUFFICES ASSUME IsWorkload PROVE ~PodStarts(s) /\ ~PodStops(s)
  BY DEF PodStarts, PodStops
<1>1. Unmoved(seen.pods, pods)
  BY SettledPods
<1>2. Number(pods, LAMBDA p : p.rev = object.template)
        = Cardinality(OfRev(pods, object.template))
  BY DEF Number, OfRev
<1>3. object.kind \in Workloads /\ object \in ObjectType
  BY DEF IsWorkload, IInv, TypesInv
<1>4. Desired(object) \in Nat /\ s \in Nat
  BY <1>3, CountsType, SlotsAreNat
<1>5. CASE object.kind = "Deployment"
  <2>1. /\ Occupied(pods) = OfRev(pods, object.template)
        /\ Cardinality(Occupied(pods)) = Desired(object)
    BY <1>5, SettledPods
  <2>2. Number(pods, LAMBDA p : p.rev = object.template) = Desired(object)
    BY <1>2, <2>1
  <2>3. PodStarts(s) => Number(pods, LAMBDA p : p.rev = object.template) < Desired(object)
    BY <1>5, Zenon DEF PodStarts
  <2>4. Unwanted(s) =>
          /\ pods[s] # None
          /\ \/ pods[s].rev # object.template
             \/ Number(pods, LAMBDA p : p.rev = object.template) > Desired(object)
    BY <1>5, Zenon DEF Unwanted
  <2>5. pods[s] # None => pods[s].rev = object.template
    BY <2>1 DEF Occupied, OfRev
  <2> DEFINE k == Number(pods, LAMBDA p : p.rev = object.template)
  <2> HIDE DEF k
  <2>6. k = Desired(object) /\ ~(k < Desired(object)) /\ ~(k > Desired(object))
    BY <1>4, <2>2 DEF k
  <2> QED
    BY <2>3, <2>4, <2>5, <2>6, Zenon DEF PodStops, k
<1>6. CASE object.kind = "DaemonSet"
  <2>1. /\ Occupied(pods) = OfRev(pods, object.template) /\ Occupied(pods) = Nodes
    BY <1>6, SettledPods
  <2> QED
    BY <1>6, <2>1 DEF PodStarts, PodStops, Unwanted, Occupied, OfRev
<1>7. CASE object.kind = "StatefulSet"
  <2>1. /\ Occupied(pods) = {t \in Slots : t < Desired(object)}
        /\ \A t \in Occupied(pods) :
             Kept(object, t) \/ t \in OfRev(pods, object.template)
    BY <1>7, SettledPods
  <2>2. pods[s] = None => ~(s < Desired(object))
    BY <2>1 DEF Occupied
  <2>3. pods[s] # None =>
          /\ ~(s >= Desired(object))
          /\ Kept(object, s) \/ pods[s].rev = object.template
    BY <1>4, <2>1 DEF Occupied, OfRev
  <2>4. ~PodStarts(s)
    BY <1>7, <2>2 DEF PodStarts
  <2>5. ~PodStops(s)
    BY <1>7, <2>3 DEF PodStops, Unwanted
  <2> QED
    BY <2>4, <2>5
<1> QED
  BY <1>3, <1>5, <1>6, <1>7 DEF Workloads

LEMMA SettledStarts == Init => SettledInv
<1> SUFFICES ASSUME Init PROVE Unmoved(seen.pods, pods)
  BY DEF SettledInv
<1> QED
  BY DEF Init, Unmoved

LEMMA DeadlinePassesNot ==
  ASSUME IInv, DeadlinePasses PROVE Verdict' # "current" /\ Verdict # "current"
<1>1. /\ ~object.deleting /\ object.kind = "Deployment" /\ object.deadline
      /\ object.observed = object.generation /\ object.conditions # <<>>
      /\ object.conditions[2].reason = "ReplicaSetUpdated"
  BY DEF DeadlinePasses
<1>2. /\ object' \in ObjectType /\ SameSpec(object', object)
      /\ object'.observed = object.observed
      /\ Len(object'.conditions) = 2
      /\ object'.conditions \in Seq(ConditionType)
      /\ object'.conditions[2] = Condition("Progressing", "False", "ProgressDeadlineExceeded")
  BY DeadlinePassesIs DEF IInv
<1>3. object'.kind = "Deployment" /\ ~object'.deleting /\ object'.observed = object'.generation
  BY <1>1, <1>2 DEF SameSpec
<1>4. Verdict' # "current"
  <2>1. Reason(object', "Progressing", "ProgressDeadlineExceeded")
    <3>1. 2 \in DOMAIN object'.conditions
      BY <1>2
    <3> QED
      BY <1>2, <3>1 DEF Reason, Condition
  <2>2. statusCheck(object') = deployStatusCheck(object')
    BY <1>2, <1>3, StatusCheckIs DEF Workloads, checkCoreResources
  <2> QED
    BY <1>2, <2>1, <2>2, DeploymentCheck DEF Verdict
<1>5. Verdict # "current"
  <2>1. object \in ObjectType
    BY DEF IInv, TypesInv
  <2>2. object.conditions[1].reason = "Replicas" /\ Len(object.conditions) = 2
    BY <1>1 DEF IInv, WorkloadInv, IsWorkload, Workloads
  <2>3. DOMAIN object.conditions = {1, 2}
    BY <2>1, <2>2 DEF ObjectType
  <2>4. ~Reason(object, "Progressing", "NewReplicaSetAvailable")
    BY <1>1, <2>2, <2>3 DEF Reason
  <2>5. statusCheck(object) = deployStatusCheck(object)
    BY <1>1, <2>1, StatusCheckIs DEF Workloads, checkCoreResources
  <2> QED
    BY <1>1, <2>1, <2>4, <2>5, DeploymentCheck DEF Verdict
<1> QED
  BY <1>4, <1>5

LEMMA SettledStep == SInv /\ [Next]_vars => SettledInv'
<1> SUFFICES ASSUME SInv, [Next]_vars, IsWorkload', Verdict' = "current", faults' = 0,
                    NoSurplus', object'.kind = "StatefulSet" => ~object'.onDelete
             PROVE  Unmoved(seen'.pods, pods')
  BY DEF SettledInv
<1>0. IInv /\ SettledInv /\ object \in ObjectType /\ faults \in Nat
  BY ReconciliationAssumption DEF SInv, IInv, TypesInv
<1>1. ASSUME object' = object, seen' = seen, faults' = faults
      PROVE  /\ IsWorkload /\ Verdict = "current" /\ faults = 0 /\ NoSurplus
             /\ object.kind = "StatefulSet" => ~object.onDelete
             /\ Unmoved(seen.pods, pods)
  BY <1>0, <1>1 DEF SettledInv, IsWorkload, Verdict, NoSurplus
<1>2. CASE UNCHANGED vars
  BY <1>1, <1>2 DEF vars
<1>3. CASE ControllerWrites
  BY <1>3 DEF ControllerWrites, Unmoved
<1>4. CASE DeadlinePasses
  BY <1>0, <1>4, DeadlinePassesNot
<1>5. CASE Advance
  BY <1>5 DEF Advance, IsWorkload
<1>6. CASE Ages
  <2>1. object'.kind = "Pod"
    BY <1>0, <1>6 DEF Ages, ObjectType
  <2> QED
    BY <2>1 DEF IsWorkload, Workloads
<1>7. CASE SpecChanges
  <2>1. /\ object' \in ObjectType /\ SameStatus(object', object)
        /\ object'.kind = object.kind /\ object'.deleting = object.deleting
        /\ object'.generation = object.generation + 1
        /\ object'.observed = object.observed /\ object'.count = object.count
    BY <1>0, <1>7, SpecChangesIs DEF IInv
  <2>2. ~object'.deleting /\ object'.observed \in {None, object'.generation}
        /\ object'.kind \in Workloads /\ statusCheck(object') = "current"
    BY <2>1, StatusCheckIs DEF Verdict, IsWorkload
  <2>3. object.observed = None
    <3>1. object.generation \in Nat /\ seen.generation \in Nat /\ seen.generation <= object.generation
          /\ object.observed \in {None, seen.generation}
      BY <1>0 DEF IInv, TypesInv, SeenType, WrittenInv, ObjectType
    <3> QED
      BY <2>1, <2>2, <3>1
  <2>4. /\ object.conditions = <<>> /\ object.count = NoCounts
        /\ object.currentRevision = None /\ seen.pods = NoPods
        /\ object.kind = "StatefulSet" => pods = NoPods
    BY <1>0, <2>1, <2>2, <2>3 DEF IInv, WorkloadInv, IsWorkload
  <2>5. object'.kind = "StatefulSet"
    BY <2>1, <2>2, <2>3, <2>4, UnwrittenWorkload DEF SameStatus
  <2>6. pods' = pods /\ seen' = seen
    BY <1>7 DEF SpecChanges
  <2> QED
    BY <2>1, <2>4, <2>5, <2>6 DEF Unmoved
<1>8. CASE Deleted
  <2>1. object' \in ObjectType /\ object'.deleting
    BY <1>0, <1>8 DEF Deleted, ObjectType
  <2> QED
    BY <2>1, StatusCheckIs DEF Verdict
<1>9. ASSUME NEW s \in Slots, PodStarts(s) \/ PodStops(s) PROVE FALSE
  <2>1. object' = object /\ seen' = seen /\ faults' = faults
    BY <1>9 DEF PodStarts, PodStops
  <2> QED
    BY <1>0, <1>1, <1>9, <2>1, PodStartsNot
<1>10. ASSUME NEW s \in Slots, PodAdvances(s) PROVE Unmoved(seen'.pods, pods')
  <2>1. /\ object' = object /\ seen' = seen /\ faults' = faults /\ pods[s] # None
        /\ pods[s].level # "available"
        /\ pods' = [pods EXCEPT ![s].level = IF pods[s].level = "starting" THEN "ready"
                                             ELSE "available"]
    BY <1>10, Zenon DEF PodAdvances
  <2>2. pods[s].level # "starting"
    BY <1>0, <1>1, <2>1, SettledPods
  <2>3. pods \in PodsType /\ pods[s] \in Pod
    BY <1>0, <2>1 DEF IInv, TypesInv, PodsType
  <2> DEFINE p == [pods[s] EXCEPT !.level = "available"]
  <2>4. pods' = [pods EXCEPT ![s] = p]
    BY <2>1, <2>2, <2>3 DEF PodsType
  <2>5. p \in Pod /\ p.rev = pods[s].rev /\ p.level = "available"
    BY <2>3 DEF Pod
  <2>6. p # None
    BY <2>5, NoneAssumption
  <2> HIDE DEF p
  <2>7. pods'[s] = p /\ \A t \in Slots : t # s => pods'[t] = pods[t]
    BY <2>3, <2>4 DEF PodsType
  <2>8. Unmoved(seen.pods, pods)
    BY <1>1, <2>1
  <2>9. seen.pods[s] # None /\ seen.pods[s].rev = pods[s].rev
    BY <2>1, <2>8 DEF Unmoved
  <2>10. seen' = seen
    BY <2>1
  <2> QED
    <3> SUFFICES ASSUME NEW t \in Slots
                 PROVE  \/ seen.pods[t] = pods'[t]
                        \/ /\ seen.pods[t] # None /\ pods'[t] # None
                           /\ pods'[t].rev = seen.pods[t].rev /\ pods'[t].level = "available"
      BY <2>10 DEF Unmoved
    <3>1. CASE t = s
      BY <2>5, <2>6, <2>7, <2>9, <3>1
    <3>2. CASE t # s
      BY <2>7, <2>8, <3>2 DEF Unmoved
    <3> QED
      BY <3>1, <3>2
<1>11. ASSUME NEW s \in Slots, PodFails(s) PROVE FALSE
  <2>1. faults' = faults + 1
    BY <1>11 DEF PodFails
  <2> QED
    BY <1>0, <2>1
<1> QED
  BY <1>2, <1>3, <1>4, <1>5, <1>6, <1>7, <1>8, <1>9, <1>10, <1>11 DEF Next

\* What a controller writes of a rollout that is over says that it is over.
LEMMA WritesDeployment ==
  ASSUME NEW o \in ObjectType, o.kind = "Deployment", NEW ps \in PodsType,
         Occupied(ps) = OfRev(ps, o.template), Cardinality(Occupied(ps)) = Desired(o),
         Occupied(ps) = Available(ps),
         \A s \in Slots : ps[s] # None => ps[s].level # "starting"
  PROVE  deployStatusCheck(Rollout(o, ps)) = "current"
<1> DEFINE r == Rollout(o, ps)
           n == Counts(o, ps)
           D == Desired(o)
<1>1. /\ r \in ObjectType /\ SameSpec(r, o) /\ r.count = Counts(r, ps)
      /\ r.currentRevision = o.currentRevision
      /\ r.conditions = DeploymentConditions(o, n, Progress(o, n))
  BY RolloutIs DEF Workloads
<1>2. r.count = n
  BY <1>1, CountsOfSame
<1>3. Started(ps) = Occupied(ps)
  BY DEF Started, Occupied
<1>4. /\ n.replicas = D /\ n.updated = D /\ n.available = D /\ n.ready = D
  BY <1>3, CountsAre
<1>5. D \in Nat /\ MaxUnavailable \in Nat
  BY CountsType, ReconciliationAssumption
<1>6. Replicas(r) = D
  BY <1>1 DEF SameSpec, Desired, Replicas
<1> HIDE DEF n, D, r
<1>7. Progress(o, n) = "NewReplicaSetAvailable"
  <2>1. AllNew(o, n)
    BY <1>4 DEF AllNew, D
  <2> QED
    BY <2>1, Zenon DEF Progress
<1>8. ~Short(r)
  BY <1>2, <1>4, <1>5, <1>6 DEF Short
<1>9. n.available + MaxUnavailable >= Desired(o)
  BY <1>4, <1>5 DEF D
<1>10. "NewReplicaSetAvailable" \in Reasons
  BY DEF Reasons
<1> DEFINE A == Condition("Available", "True", "Replicas")
           P == Condition("Progressing", "True", "NewReplicaSetAvailable")
<1>11. /\ ~o.deadline => r.conditions = <<A>>
       /\ o.deadline => r.conditions = <<A, P>>
  BY <1>1, <1>7, <1>9, <1>10, DeploymentConditionsAre
<1>12. /\ A.type = "Available" /\ A.status = "True" /\ A.reason = "Replicas"
       /\ P.type = "Progressing" /\ P.status = "True" /\ P.reason = "NewReplicaSetAvailable"
  BY DEF Condition
<1> HIDE DEF A, P
<1>13. r.deadline = o.deadline
  BY <1>1 DEF SameSpec
<1>14. CASE ~o.deadline
  <2>1. DOMAIN r.conditions = {1} /\ r.conditions[1] = A
    BY <1>11, <1>14
  <2>2. /\ ~Reason(r, "Progressing", "ProgressDeadlineExceeded")
        /\ Has(r, "Available", "True")
    BY <1>12, <2>1 DEF Reason, Has
  <2> QED
    BY <1>1, <1>8, <1>13, <1>14, <2>2, DeploymentCheck DEF r
<1>15. CASE o.deadline
  <2>1. DOMAIN r.conditions = {1, 2} /\ r.conditions[1] = A /\ r.conditions[2] = P
    BY <1>11, <1>15
  <2>2. /\ ~Reason(r, "Progressing", "ProgressDeadlineExceeded")
        /\ Has(r, "Available", "True") /\ Has(r, "Progressing", "True")
        /\ Reason(r, "Progressing", "NewReplicaSetAvailable")
    BY <1>12, <2>1 DEF Reason, Has
  <2> QED
    BY <1>1, <1>8, <2>2, DeploymentCheck DEF r
<1> QED
  BY <1>14, <1>15

LEMMA WritesDaemonSet ==
  ASSUME NEW o \in ObjectType, o.kind = "DaemonSet", NEW ps \in PodsType,
         Occupied(ps) = OfRev(ps, o.template), Occupied(ps) = Nodes,
         Occupied(ps) = Available(ps),
         \A s \in Slots : ps[s] # None => ps[s].level # "starting"
  PROVE  daemonSetStatusCheck(Rollout(o, ps)) = "current"
<1> DEFINE r == Rollout(o, ps)
           N == Cardinality(Nodes)
<1>1. /\ r \in ObjectType /\ SameSpec(r, o) /\ r.count = Counts(r, ps)
      /\ r.observed = o.generation
  BY RolloutIs DEF Workloads
<1>2. r.kind = "DaemonSet" /\ r.template = o.template
  BY <1>1 DEF SameSpec
<1>3. Started(ps) = Occupied(ps)
  BY DEF Started, Occupied
<1> HIDE DEF r
<1>4. /\ r.count.desired = N /\ r.count.current = N /\ r.count.updated = N
      /\ r.count.available = N /\ r.count.ready = N
  <2>1. Desired(r) = N
    BY <1>2 DEF Desired
  <2>2. OfRev(ps, r.template) = Nodes /\ Started(ps) = Nodes /\ Available(ps) = Nodes
    BY <1>2, <1>3
  <2>3. /\ Counts(r, ps).desired = Desired(r)
        /\ r.kind # "StatefulSet" => Counts(r, ps).current = Cardinality(Occupied(ps))
        /\ Counts(r, ps).updated = Cardinality(OfRev(ps, r.template))
        /\ Counts(r, ps).available = Cardinality(Available(ps))
        /\ Counts(r, ps).ready = Cardinality(Started(ps))
    BY CountsAre, Zenon
  <2> QED
    BY <1>1, <1>2, <2>1, <2>2, <2>3
<1>5. N \in Nat /\ r.observed # None
  BY <1>1, ReconciliationAssumption, NoneAssumption, FS_Subset, FS_CardinalityType DEF ObjectType
<1>6. ~(N > N)
  BY <1>5
<1> QED
  BY <1>4, <1>5, <1>6 DEF daemonSetStatusCheck, r

LEMMA WritesStatefulSet ==
  ASSUME NEW o \in ObjectType, o.kind = "StatefulSet", NEW ps \in PodsType,
         Occupied(ps) = OfRev(ps, o.currentRevision), Cardinality(Occupied(ps)) = Desired(o),
         o.currentRevision = None => Occupied(ps) = {},
         \A s \in Slots : ps[s] # None => ps[s].level # "starting",
         o.partition # None => Cardinality(OfRev(ps, o.template)) >= Replicas(o) - o.partition,
         o.partition = None => o.currentRevision \in {o.template, None}
  PROVE  statefulSetStatusCheck(Rollout(o, ps)) = "current"
<1> DEFINE r == Rollout(o, ps)
           D == Replicas(o)
<1>1. /\ r \in ObjectType /\ SameSpec(r, o) /\ r.count = Counts(r, ps)
      /\ r.updateRevision = o.template /\ r.currentRevision # None
      /\ \/ r.currentRevision = o.currentRevision
         \/ /\ r.currentRevision = o.template
            /\ \/ o.currentRevision = None
               \/ Cardinality(OfRev(ps, o.template)) = Replicas(o)
  BY RolloutIs DEF Workloads
<1>2. r.kind = "StatefulSet" /\ r.template = o.template /\ Replicas(r) = D
      /\ r.partition = o.partition
  BY <1>1 DEF SameSpec, Replicas
<1>3. Started(ps) = Occupied(ps)
  BY DEF Started, Occupied
<1>4. Desired(o) = D /\ D \in Nat
  BY CountsType DEF Desired
<1>5. OfRev(ps, r.currentRevision) = Occupied(ps)
  <2>1. \A P \in SUBSET Occupied(ps) :
          Cardinality(P) >= Cardinality(Occupied(ps)) => P = Occupied(ps)
    BY PodsAreFinite
  <2>2. CASE r.currentRevision = o.currentRevision
    BY <2>2
  <2>3. CASE o.currentRevision = None
    BY <2>3, Sorts
  <2>4. CASE r.currentRevision = o.template
             /\ Cardinality(OfRev(ps, o.template)) = Replicas(o)
    BY <1>4, <2>1, <2>4, Sorts
  <2> QED
    BY <1>1, <2>2, <2>3, <2>4
<1> DEFINE u == Cardinality(OfRev(ps, o.template))
<1> HIDE DEF r, D, u
<1>6. /\ r.count.replicas = D /\ r.count.current = D /\ r.count.ready = D
      /\ r.count.updated = u
  BY <1>1, <1>2, <1>3, <1>4, <1>5, CountsAre DEF u
<1>7. u \in Nat /\ (o.partition # None => ~(u < D - o.partition))
  <2>1. u \in Nat /\ o.partition \in Nat \cup {None}
    BY Sorts, PodsAreFinite DEF u, ObjectType
  <2> QED
    BY <1>4, <2>1 DEF u, D
<1>8. o.partition = None => r.currentRevision = r.updateRevision
  BY <1>1
<1>9. ~(D > D)
  BY <1>4
<1> QED
  BY <1>2, <1>6, <1>7, <1>8, <1>9 DEF statefulSetStatusCheck, r

\* A status that is written anew of a workload that is Current says Current again.
LEMMA WorkloadWrittenAgain ==
  ASSUME IInv, SettledInv, ControllerWrites, IsWorkload, Verdict = "current",
         faults = 0, NoSurplus
  PROVE  Verdict' = "current"
<1>1. /\ object \in ObjectType /\ object.kind \in Workloads /\ pods \in PodsType
      /\ object' = Rollout(object, pods)
  BY DEF IInv, TypesInv, IsWorkload, ControllerWrites
<1>2. /\ object' \in ObjectType /\ SameSpec(object', object) /\ ~object'.deleting
      /\ object'.observed = object.generation
  <2>1. object' \in ObjectType /\ SameSpec(object', object) /\ ~object.deleting
    BY ControllerWritesIs DEF IInv
  <2>2. Rollout(object, pods).observed = object.generation
    BY <1>1, RolloutIs
  <2> QED
    BY <1>1, <2>1, <2>2 DEF SameSpec
<1>3. object'.kind = object.kind /\ object'.observed \in {None, object'.generation}
  BY <1>2 DEF SameSpec
<1>4. Verdict' = checkCoreResources(object')
  BY <1>1, <1>2, <1>3, StatusCheckIs DEF Verdict
<1>5. CASE object.kind = "Deployment"
  <2>1. deployStatusCheck(object') = "current"
    BY <1>1, <1>5, SettledPods, WritesDeployment
  <2> QED
    BY <1>3, <1>4, <1>5, <2>1 DEF checkCoreResources
<1>6. CASE object.kind = "DaemonSet"
  <2>1. daemonSetStatusCheck(object') = "current"
    BY <1>1, <1>6, SettledPods, WritesDaemonSet
  <2> QED
    BY <1>3, <1>4, <1>6, <2>1 DEF checkCoreResources
<1>7. CASE object.kind = "StatefulSet" /\ object.onDelete
  <2>1. object'.onDelete
    BY <1>2, <1>7 DEF SameSpec
  <2> QED
    BY <1>3, <1>4, <1>7, <2>1 DEF checkCoreResources, statefulSetStatusCheck
<1>8. CASE object.kind = "StatefulSet" /\ ~object.onDelete
  <2>1. /\ Occupied(pods) = OfRev(pods, object.currentRevision)
        /\ Cardinality(Occupied(pods)) = Desired(object)
        /\ Unmoved(seen.pods, pods)
        /\ \A s \in Slots : pods[s] # None => pods[s].level # "starting"
    BY <1>8, SettledPods
  <2>2. object.currentRevision = None => Occupied(pods) = {}
    <3>1. ~object.deleting
      BY DEF ControllerWrites
    <3>2. object.currentRevision = None => pods = NoPods
      BY <1>8, <3>1 DEF IInv, WorkloadInv
    <3> QED
      BY <3>2 DEF Occupied, NoPods
  <2>3. Replicas(object) = Desired(object) /\ Desired(object) \in Nat
    BY <1>1, <1>8, CountsType DEF Desired
  <2>4. \A r : OfRev(pods, r) = OfRev(seen.pods, r)
    BY <2>1, UnmovedSorts
  <2>5. /\ Cardinality(OfRev(pods, object.template)) \in Nat
        /\ object.partition \in Nat \cup {None}
    BY <1>1, Sorts, PodsAreFinite DEF ObjectType
  <2>6. /\ object.partition # None =>
             Cardinality(OfRev(pods, object.template)) >= Replicas(object) - object.partition
        /\ object.partition = None => object.currentRevision \in {object.template, None}
    <3>1. CASE /\ object.count = Counts(object, seen.pods)
               /\ object.updateRevision = object.template
               /\ checkCoreResources(object) = "current"
      <4>1. object.count.updated = Cardinality(OfRev(seen.pods, object.template))
        BY <3>1, CountsAre, Zenon
      <4>2. statefulSetStatusCheck(object) = "current"
        BY <1>8, <3>1 DEF checkCoreResources
      <4>3. /\ object.partition # None =>
                 ~(object.count.updated < Replicas(object) - object.partition)
            /\ object.partition = None => object.currentRevision = object.updateRevision
        BY <1>8, <4>2 DEF statefulSetStatusCheck
      <4> HIDE DEF Replicas
      <4>4. object.count.updated = Cardinality(OfRev(pods, object.template))
        BY <2>4, <4>1
      <4> QED
        BY <2>3, <2>5, <3>1, <4>3, <4>4
    <3>2. CASE object.currentRevision = None /\ Desired(object) = 0
      BY <2>3, <2>5, <3>2
    <3> QED
      BY <1>8, <3>1, <3>2, CurrentIs
  <2>7. statefulSetStatusCheck(object') = "current"
    BY <1>1, <1>8, <2>1, <2>2, <2>6, WritesStatefulSet
  <2> QED
    BY <1>3, <1>4, <1>8, <2>7 DEF checkCoreResources
<1> QED
  BY <1>1, <1>5, <1>6, <1>7, <1>8 DEF Workloads

\* What is known of the stage of another kind that is Current.
LEMMA StageOfCurrent ==
  ASSUME IInv, ~IsWorkload, Verdict = "current", ~Presumed
  PROVE  /\ ~Outdated => stage = "done"
         /\ ~object.deleting /\ object.observed \in {None, object.generation}
         /\ Says(object, "done") /\ (ReportsGeneration => object.observed # None)
<1>1. /\ object \in ObjectType /\ object.kind \notin Workloads
      /\ statusCheck(object) = "current"
  BY DEF IInv, TypesInv, IsWorkload, Verdict
<1>2. ~object.deleting /\ object.observed \in {None, object.generation}
  BY <1>1, StatusCheckIs
<1>3. ~Unwritten(object)
  BY <1>1, UnwrittenCurrent DEF Presumed, Unwritten
<1>4. /\ Says(object, seen.told) /\ (ReportsGeneration => object.observed # None)
      /\ object.kind = "Service" => object.phase = "LoadBalancer"
  BY <1>3 DEF IInv, StageInv
<1>5. seen.told = "done"
  BY <1>1, <1>2, <1>4, ReportedCurrent
<1>6. ~Outdated => stage = "done"
  BY DEF Outdated, IInv, StageInv
<1> QED
  BY <1>2, <1>4, <1>5, <1>6

LEMMA StageWrittenAgain ==
  ASSUME IInv, ControllerWrites, ~IsWorkload, Verdict = "current", ~Presumed, ~Outdated
  PROVE  Verdict' = "current"
<1>1. object \in ObjectType /\ object.kind \notin Workloads
  BY DEF IInv, TypesInv, IsWorkload
<1>2. Told = "done" /\ object.observed \in {None, object.generation}
  BY StageOfCurrent DEF Told
<1>3. /\ object' \in ObjectType /\ SameSpec(object', object) /\ ~object.deleting
      /\ object'.observed \in {object.observed, object.generation}
      /\ SameStatus(object', Report(object, Told)) /\ Report(object, Told) \in ObjectType
  BY ControllerWritesIs DEF IInv
<1>4. Says(object', "done")
  <2>1. Says(Report(object, "done"), "done") /\ Report(object, "done").kind = object.kind
    BY <1>1, ReportSays, ReportIs DEF SameSpec
  <2> QED
    BY <1>1, <1>2, <1>3, <2>1, SaysToo DEF SameSpec
<1>5. object'.kind = "Service" => object'.phase = "LoadBalancer"
  <2>1. StageInv'
    BY ControllerWritesInv DEF IInv
  <2> QED
    BY <1>1, <1>3, <2>1 DEF StageInv, IsWorkload, SameSpec
<1>6. /\ object'.kind \notin Workloads /\ ~object'.deleting
      /\ object'.observed \in {None, object'.generation}
  BY <1>1, <1>2, <1>3 DEF SameSpec
<1> QED
  BY <1>3, <1>4, <1>5, <1>6, ReportedCurrent DEF Verdict

\* A pod that grows older stays Current: only one that is Pending is told by its age.
LEMMA AgedStays ==
  ASSUME IInv, Ages, Verdict = "current", ~Presumed
  PROVE  Verdict' = "current"
<1>1. /\ object \in ObjectType /\ object.kind = "Pod" /\ ~IsWorkload
      /\ object' = [object EXCEPT !.young = FALSE] /\ seen' = seen
  BY DEF IInv, TypesInv, Ages, IsWorkload, Workloads
<1>2. /\ object' \in ObjectType /\ object'.kind = "Pod"
      /\ object'.deleting = object.deleting /\ object'.generation = object.generation
      /\ object'.observed = object.observed
      /\ SameStatus(object', object)
  BY <1>1 DEF ObjectType, SameStatus
<1>3. /\ Says(object, "done")
      /\ ~object.deleting /\ object.observed \in {None, object.generation}
  BY <1>1, StageOfCurrent
<1>4. "Pod" \notin Workloads
  BY DEF Workloads
<1>5. SameStatus(Report(object', "done"), Report(object, "done"))
  BY <1>1, <1>2, <1>4, ReportStatus
<1>6. Says(object', "done")
  BY <1>2, <1>3, <1>5 DEF Says, SameStatus
<1> QED
  BY <1>2, <1>3, <1>4, <1>6, ReportedCurrent DEF Verdict

LEMMA StableStep ==
  ASSUME IInv, SettledInv, [Next]_vars, Verdict = "current", Verdict' # "current", ~Presumed, ~Outdated,
         faults = 0, NoSurplus
  PROVE  SpecChanges \/ Deleted
<1>1. object' # object
  BY DEF Verdict
<1>2. ~Advance /\ ~UNCHANGED vars
  BY <1>1 DEF Advance, vars
<1>3. \A s \in Slots : ~PodStarts(s) /\ ~PodStops(s) /\ ~PodAdvances(s) /\ ~PodFails(s)
  BY <1>1, Zenon DEF PodStarts, PodStops, PodAdvances, PodFails
<1>4. ~ControllerWrites
  BY WorkloadWrittenAgain, StageWrittenAgain
<1>5. ~DeadlinePasses
  BY DeadlinePassesNot
<1>6. ~Ages
  BY AgedStays
<1> QED
  BY <1>2, <1>3, <1>4, <1>5, <1>6 DEF Next

\* While no pod fails, an object that is Current stays so until somebody applies
\* another spec or deletes it: a wait that forgets it at its first Current forgets
\* nothing that was still to come.
THEOREM CurrentStays == Spec => CurrentIsStable
<1>1. Init => SInv
  BY InitInv, SettledStarts DEF SInv
<1>2. SInv /\ [Next]_vars => SInv'
  BY NextInv, SettledStep DEF SInv
<1>3. SInv /\ [Next]_vars =>
        [Verdict = "current" /\ Verdict' # "current" /\ ~Presumed /\ ~Outdated /\ faults = 0
           /\ (\A s \in Slots : Surplus(object, s) => seen.pods[s] = None)
         => SpecChanges \/ Deleted]_vars
  BY StableStep DEF SInv, NoSurplus
<1> QED
  BY <1>1, <1>2, <1>3, PTL DEF Spec, CurrentIsStable
=============================================================================
